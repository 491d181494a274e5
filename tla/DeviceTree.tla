------------------------------- MODULE DeviceTree -------------------------------
(***************************************************************************)
(* The hierarchy of the devices (source/emucore/device.h and device.cpp):  *)
(* the subdevices of each device, the tags that name devices relative to   *)
(* one another, with the map that remembers what was looked up, and the    *)
(* iterators that visit the hierarchy.                                     *)
(*                                                                         *)
(* A device is the number of its construction, the root is 1.  A string is *)
(* a sequence of colons, carets and names, a name being one element.       *)
(***************************************************************************)
EXTENDS Integers, SequencesExt

CONSTANTS
  Names,           \* what a device can be called (m_basetag)
  RootName,        \* the name of the root
  WithInterface,   \* of the names, those whose devices have an interface
  Tags,            \* what is looked up
  Depths,          \* the depths to which an iterator goes
  MaxDevices,      \* bound: devices
  MaxLookups       \* bound: lookups that are remembered

Colon == ":"
Caret == "^"
NoDevice == 0

ASSUME DeviceTreeAssumption ==
  /\ {Colon, Caret} \cap (Names \cup {RootName}) = {}
  /\ Depths \subseteq Nat /\ MaxDevices \in Nat \ {0} /\ MaxLookups \in Nat
  /\ \A t \in Tags : t # <<>> => ToSet(t) \subseteq Names \cup {Colon, Caret}

VARIABLES
  m_owner,         \* device -> its owner, or NoDevice
  m_basetag,       \* device -> name
  m_list,          \* device -> its subdevices
  m_tagmap,        \* device -> what was looked up: tag -> device
  lookups

treeVars == <<m_owner, m_basetag, m_list, m_tagmap, lookups>>

TreeDevices == DOMAIN m_owner

TreeInit ==
  /\ m_owner = <<NoDevice>> /\ m_basetag = <<RootName>>
  /\ m_list = <<<<>>>> /\ m_tagmap = <<[t \in {} |-> NoDevice]>>
  /\ lookups = 0

(* device_t::device_t: the full tag, that of the root being a colon.       *)
m_tag ==
  LET tag[d \in TreeDevices] ==
        IF m_owner[d] = NoDevice THEN <<Colon>>
        ELSE (IF m_owner[m_owner[d]] = NoDevice THEN <<>> ELSE tag[m_owner[d]])
               \o <<Colon, m_basetag[d]>>
  IN  tag

---------------------------------------------------------------------------------
(* subtag.                                                                 *)

(* Trailing colons go; if the path is the root's, all of it does.          *)
StripAll(s) ==
  LET keep == {i \in DOMAIN s : s[i] # Colon} IN SubSeq(s, 1, Max(keep \cup {0}))

StripToRoot(s) ==
  LET keep == {i \in DOMAIN s : s[i] # Colon} IN SubSeq(s, 1, Max(keep \cup {Min({1, Len(s)})}))

UpToLastColon(s) ==
  LET colons == {i \in DOMAIN s : s[i] = Colon}
  IN  IF colons = {} THEN s ELSE SubSeq(s, 1, Max(colons))

(* One caret: the last part of the path is removed.                        *)
Climb(path) ==
  LET s == StripAll(path) IN IF s # <<Colon>> THEN UpToLastColon(s) ELSE s

subtag(d, tag) ==
  LET absolute == tag # <<>> /\ tag[1] = Colon
      start    == IF absolute THEN <<Colon>>
                  ELSE IF m_tag[d] = <<Colon>> THEN m_tag[d] ELSE Append(m_tag[d], Colon)
      rest     == IF absolute THEN Tail(tag) ELSE tag
      step(s, c) == IF c = Caret THEN Climb(s) ELSE Append(s, c)
  IN  StripToRoot(FoldLeft(step, start, rest))

(* "We presume the result is a rooted path; also doubled colons mess up    *)
(* our tree walk": the assertions of subdevice_slow.                       *)
Walkable(path) ==
  /\ path # <<>> /\ path[1] = Colon
  /\ \A i \in 1 .. (Len(path) - 1) : ~(path[i] = Colon /\ path[i + 1] = Colon)

find_child(d, name) ==
  LET those == {i \in DOMAIN m_list[d] : m_basetag[m_list[d][i]] = name}
  IN  IF those = {} THEN NoDevice ELSE m_list[d][Min(those)]

(* subdevice_slow: from the root down, one part after the other.           *)
subdevice_slow(d, tag) ==
  FoldLeft(LAMBDA at, c : IF c = Colon \/ at = NoDevice THEN at ELSE find_child(at, c),
           1, subtag(d, tag))

(* Mutant: what one device looked up is remembered by the root.            *)
RememberAtRoot(d) == 1

(* The device whose map remembers.                                         *)
Rememberer(d) == d

subdevice(d, tag) ==
  IF tag = <<>> THEN d
  ELSE IF tag \in DOMAIN m_tagmap[Rememberer(d)] THEN m_tagmap[Rememberer(d)][tag]
  ELSE subdevice_slow(d, tag)

(* A leading caret is the owner, which is where the search starts anyway.  *)
siblingdevice(d, tag) ==
  LET t == IF tag # <<>> /\ tag[1] = Caret THEN Tail(tag) ELSE tag
  IN  IF tag = <<>> THEN d
      ELSE IF m_owner[d] # NoDevice THEN subdevice(m_owner[d], t)
      ELSE IF t # <<>> /\ t[1] = Colon THEN subdevice(d, t)
      ELSE NoDevice

---------------------------------------------------------------------------------
(* device_iterator.                                                        *)

(* Mutant: after the last subdevice the visit goes on one level up only.   *)
AdvanceOneUp(at, maxdepth) ==
  LET down == m_list[at.device]
      NextTo(d) == LET list == m_list[m_owner[d]]
                       i    == CHOOSE k \in DOMAIN list : list[k] = d
                   IN  IF i < Len(list) THEN list[i + 1] ELSE NoDevice
      ups == {<<0, at.device>>} \cup IF at.depth > 1 THEN {<<1, m_owner[at.device]>>} ELSE {}
      ends == {u \in ups : at.depth > 0 /\ NextTo(u[2]) # NoDevice}
  IN  IF at.depth < maxdepth /\ down # <<>> THEN [device |-> down[1], depth |-> at.depth + 1]
      ELSE IF ends = {} THEN [device |-> NoDevice, depth |-> 0]
      ELSE LET u == CHOOSE u \in ends : \A x \in ends : u[1] <= x[1]
           IN  [device |-> NextTo(u[2]), depth |-> at.depth - u[1]]

(* advance: down first, then to the neighbour of the device or of the      *)
(* nearest owner that has one, never above where the visit began.          *)
advance(at, maxdepth) ==
  LET down == m_list[at.device]
      NextTo(d) == LET list == m_list[m_owner[d]]
                       i    == CHOOSE k \in DOMAIN list : list[k] = d
                   IN  IF i < Len(list) THEN list[i + 1] ELSE NoDevice
      climb[k \in 0 .. at.depth] ==
        IF k = 0 THEN [start |-> at.device, depth |-> at.depth]
        ELSE [start |-> m_owner[climb[k - 1].start], depth |-> climb[k - 1].depth - 1]
      ends == {k \in 0 .. (at.depth - 1) : NextTo(climb[k].start) # NoDevice}
  IN  IF at.depth < maxdepth /\ down # <<>> THEN [device |-> down[1], depth |-> at.depth + 1]
      ELSE IF ends = {} THEN [device |-> NoDevice, depth |-> 0]
      ELSE LET k == Min(ends) IN [device |-> NextTo(climb[k].start), depth |-> climb[k].depth]

(* All that a loop over the iterator visits.                               *)
Visited(root, maxdepth) ==
  LET v[i \in 1 .. Cardinality(TreeDevices)] ==
        IF i = 1 THEN [device |-> root, depth |-> 0]
        ELSE IF v[i - 1].device = NoDevice THEN v[i - 1] ELSE advance(v[i - 1], maxdepth)
  IN  SelectSeq([i \in 1 .. Cardinality(TreeDevices) |-> v[i].device], LAMBDA d : d # NoDevice)

(* device_interface_iterator and device_type_iterator: devices that are    *)
(* not of the kind are advanced over, from the first one on.               *)
VisitedOf(root, maxdepth) ==
  SelectSeq(Visited(root, maxdepth), LAMBDA d : m_basetag[d] \in WithInterface)

device_index(s, d) == IF d \in ToSet(s) THEN Min({i \in DOMAIN s : s[i] = d}) - 1 ELSE -1
device_at_index(s, n) == IF n + 1 \in DOMAIN s THEN s[n + 1] ELSE NoDevice

---------------------------------------------------------------------------------
(* The machine configuration adds devices, of different names under one    *)
(* owner, and looks others up meanwhile.                                   *)

AddDevice(o, name) ==
  /\ Cardinality(TreeDevices) < MaxDevices
  /\ find_child(o, name) = NoDevice
  /\ LET d == Len(m_owner) + 1
     IN  /\ m_owner' = Append(m_owner, o) /\ m_basetag' = Append(m_basetag, name)
         /\ m_list' = Append([m_list EXCEPT ![o] = Append(@, d)], <<>>)
         /\ m_tagmap' = Append(m_tagmap, [t \in {} |-> NoDevice])
  /\ UNCHANGED lookups

(* Only what was found is remembered.                                      *)
Lookup(d, tag) ==
  /\ lookups < MaxLookups /\ lookups' = lookups + 1
  /\ tag # <<>> /\ Walkable(subtag(d, tag))
  /\ LET found == subdevice(d, tag)
     IN  m_tagmap' = IF found = NoDevice THEN m_tagmap
                     ELSE [m_tagmap EXCEPT ![Rememberer(d)] = (tag :> found) @@ @]
  /\ UNCHANGED <<m_owner, m_basetag, m_list>>

TreeNext ==
  \/ \E o \in TreeDevices, name \in Names : AddDevice(o, name)
  \/ \E d \in TreeDevices, tag \in Tags : Lookup(d, tag)

---------------------------------------------------------------------------------
(* What a tag means: a path of names, walked up by carets and down by      *)
(* names.  Up from the root there is nothing.                              *)
Beyond == <<Caret>>

PathsOfAll ==
  LET p[x \in TreeDevices] == IF m_owner[x] = NoDevice THEN <<>>
                              ELSE Append(p[m_owner[x]], m_basetag[x])
  IN  p

Meaning(path, tag) ==
  LET start == IF tag # <<>> /\ tag[1] = Colon THEN <<>> ELSE path
      step(p, c) == IF p = Beyond \/ c = Colon THEN p
                    ELSE IF c # Caret THEN Append(p, c)
                    ELSE IF p = <<>> THEN Beyond ELSE Front(p)
  IN  FoldLeft(step, start, tag)

DeviceAt(paths, path) ==
  LET those == {d \in TreeDevices : paths[d] = path}
  IN  IF those = {} THEN NoDevice ELSE Min(those)

(* Tags that can be looked up, see Walkable.                               *)
Proper(d, meaning, tag) == meaning # Beyond /\ Walkable(subtag(d, tag))

(* A tag finds the device it means, from every device and whatever was     *)
(* looked up before, also before that device was there: a lookup that      *)
(* finds nothing is not remembered.  A sibling's tag is one of the owner's,*)
(* with or without the caret that says so.                                 *)
LookupsAgree ==
  LET paths == PathsOfAll
      Agrees(d, tag, found) == LET m == Meaning(paths[d], tag)
                               IN  Proper(d, m, tag) => found = DeviceAt(paths, m)
  IN  \A d \in TreeDevices : \A tag \in Tags :
        /\ Agrees(d, tag, subdevice(d, tag))
        /\ m_owner[d] # NoDevice /\ tag # <<>> /\ tag[1] # Caret =>
             /\ Agrees(m_owner[d], tag, siblingdevice(d, tag))
             /\ tag[1] # Colon => Agrees(d, <<Caret>> \o tag, siblingdevice(d, <<Caret>> \o tag))

(* "Iterate over the hierarchy of devices depth-first": below any device   *)
(* and to any depth the iterators visit each device once, a device before  *)
(* its subdevices, and these, with all below them, in their order.  The    *)
(* numbers they give are those the devices are found by.                   *)
VisitsDepthFirst ==
  LET paths == PathsOfAll
      Below(root, d, n) == /\ IsPrefix(paths[root], paths[d])
                           /\ Len(paths[d]) - Len(paths[root]) <= n
      Same(p, q) == Max({k \in 0 .. Min({Len(p), Len(q)}) : SubSeq(p, 1, k) = SubSeq(q, 1, k)})
      Branch(p, k) == DeviceAt(paths, SubSeq(p, 1, k + 1))
      Before(p, q) == LET k == Same(p, q)
                      IN  k = Len(p) \/ (k < Len(q) /\ Branch(p, k) < Branch(q, k))
  IN  \A root \in TreeDevices, n \in Depths :
        LET v == Visited(root, n)
            w == VisitedOf(root, n)
        IN  /\ ToSet(v) = {d \in TreeDevices : Below(root, d, n)}
            /\ \A i \in 1 .. (Len(v) - 1) : v[i] # v[i + 1] /\ Before(paths[v[i]], paths[v[i + 1]])
            /\ \A i \in DOMAIN w : device_index(w, device_at_index(w, i - 1)) = i - 1
=================================================================================
