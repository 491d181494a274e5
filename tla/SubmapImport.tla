------------------------------ MODULE SubmapImport ------------------------------
(***************************************************************************)
(* How the address map of a space is built, how the maps of other devices  *)
(* are merged into it, and what is installed in the end: address_map and   *)
(* address_map_entry (source/emucore/memory/address_map.cpp, .h), the use  *)
(* prepare_map and populate_from_map make of them, and the map a device    *)
(* gets at run time (install_device_delegate, emumem.cpp).                 *)
(*                                                                         *)
(* A map constructor of a driver, a function that adds entries, is the     *)
(* record of the global mask it sets, {} for none, and of its entries.  An *)
(* entry that names a submap stands for the map of another device, on the  *)
(* lanes of its unit mask: Decode says what that means, import_submaps has *)
(* to rewrite the list so that it means the same without such entries.     *)
(* Addresses are bytes (m_addr_shift is 0).                                *)
(***************************************************************************)
EXTENDS InstallChecks, SequencesExt

CONSTANTS
  Device,          \* the device whose space this is
  Owner,           \* device -> the device that owns it, or None
  Find,            \* device -> tag -> the device machine().device() finds, or None
  Configs,         \* the space configurations: [addrmap, default, internal]
  LateMaps,        \* requests of install_device_delegate: [entry, device]
  MaxLate,         \* bound: devices installed at run time
  None

VARIABLES
  config,          \* the configuration of the space
  big,             \* whether it is big endian
  stage,           \* what is being done
  list,            \* m_entrylist of the map at hand
  at,              \* import_submaps: the number of `entry` in the list
  owner,           \* its owner: where submap tags are looked up
  globalmask,      \* m_globalmask of the map
  addrmask,        \* m_addrmask of the space
  installed,       \* the entries populated so far, in order
  late             \* the devices installed at run time

vars == <<config, big, stage, list, at, owner, globalmask, addrmask, installed, late>>

---------------------------------------------------------------------------------
(* Entries and what their setters put there.                               *)

NoHandler == [type |-> "NONE", bytes |-> 0, tag |-> None, name |-> None]

NewEntry(start, end) ==
  [base |-> None, start |-> start, end |-> end, mirror |-> {}, mask |-> {},
   select |-> {}, lanes |-> {}, cs |-> 0, read |-> NoHandler, write |-> NoHandler,
   submap_device |-> None, submap |-> None]

Typed(type) == [NoHandler EXCEPT !.type = type]
ram(e)   == [e EXCEPT !.read = Typed("RAM"), !.write = Typed("RAM")]
rom(e)   == [e EXCEPT !.read = Typed("ROM")]
nopr(e)  == [e EXCEPT !.read = Typed("NOP")]
nopw(e)  == [e EXCEPT !.write = Typed("NOP")]
noprw(e) == [e EXCEPT !.read = Typed("NOP"), !.write = Typed("NOP")]

mirror(e, B)  == [e EXCEPT !.mirror = B]
select(e, B)  == [e EXCEPT !.select = B]
cswidth(e, n) == [e EXCEPT !.cs = n]

(* The mask a driver gives is cut down when the entry is added to a map.   *)
mask(e, B) == [e EXCEPT !.mask = B]

(* umask16 and umask32 repeat the mask over the 64 bits, umask64 does not. *)
umask(e, bytes, lanes) ==
  [e EXCEPT !.lanes = {l \in FullMask : l % bytes \in lanes}]

Delegate(bytes, tag, name) == [type |-> "DELEGATE", bytes |-> bytes, tag |-> tag, name |-> name]
r(e, bytes, tag, name)  == [e EXCEPT !.read = Delegate(bytes, tag, name)]
w(e, bytes, tag, name)  == [e EXCEPT !.write = Delegate(bytes, tag, name)]
rw(e, bytes, tag, name) == w(r(e, bytes, tag, name), bytes, tag, name)

Submap(tag) == [Typed("SUBMAP") EXCEPT !.tag = tag]
m(e, tag, device, map) ==
  [e EXCEPT !.read = Submap(tag), !.write = Submap(tag),
            !.submap_device = device, !.submap = map]

(* A constructor run on a map: each entry is based at the device the map   *)
(* is of at that moment.                                                   *)
EmptyMap(device) == [device |-> device, globalmask |-> {}, entries |-> << >>]

Construct(map, f) ==
  LET global   == IF f.global = {} THEN map.globalmask ELSE f.global
      added(e) == [e EXCEPT !.base = map.device,
                            !.mask = IF global = {} THEN @ ELSE @ \cap global]
  IN  [map EXCEPT !.globalmask = global,
                  !.entries = @ \o [i \in DOMAIN f.entries |-> added(f.entries[i])]]

ConstructIf(map, f) == IF f = None THEN map ELSE Construct(map, f)

(* Mutant: the internal map of the device comes first.                     *)
MapOfInternalFirst(c) ==
  LET internal == ConstructIf(EmptyMap(Device), c.internal)
  IN  IF c.addrmap # None
      THEN [Construct([internal EXCEPT !.device = Owner[Device]], c.addrmap) EXCEPT !.device = Device]
      ELSE ConstructIf(internal, c.default)

(* The map the owner of the device gave it, which is based at the owner,   *)
(* or the default one; then the internal one, so that it takes priority.   *)
MapOf(c) ==
  LET given == IF c.addrmap # None
               THEN [Construct(EmptyMap(Owner[Device]), c.addrmap) EXCEPT !.device = Device]
               ELSE ConstructIf(EmptyMap(Device), c.default)
  IN  ConstructIf(given, c.internal)

SubmapOf(e, device) == Construct(EmptyMap(device), e.submap).entries

---------------------------------------------------------------------------------
(* What a list of entries means: which handler, and which byte of it, an   *)
(* access of byte x reaches on a bus of n lanes.                           *)

IsSubmap(e)  == e.read.type = "SUBMAP"
Length(e)    == e.end - e.start + 1
Masked(e)    == e.lanes # {} /\ ~(AllLanes \subseteq e.lanes)
Handler(e, d) == IF d = "read" THEN e.read ELSE e.write

Stripped == [B \in SUBSET Bits |-> [x \in Addresses |-> ValueOf(SetBits(x) \ B)]]

Claims(e, n, x) ==
  /\ Stripped[(e.mirror \cup e.select) \cap Bits][x] \in e.start .. e.end
  /\ x % n \in ServedBytes(big, n, e)

(* The byte of the handler: the row after the mask, then the rank of the   *)
(* byte among those served.                                                *)
Offset(e, n, x) ==
  LET served == ServedBytes(big, n, e)
      first  == e.start - (e.start % n)
      seen   == Stripped[Bits \ AddressMask(e)][Stripped[e.mirror \cap Bits][x] - first]
  IN  (seen \div n) * Cardinality(served) + Cardinality({k \in served : k < x % n})

(* The device whose map a submap entry asks for.  A tag is looked up from  *)
(* the device the entry is based at ("base" device for tag lookups), the   *)
(* tag of a map installed at run time from the device it is the map of.    *)
DeviceAt(e, from) == IF e.submap_device # None THEN e.submap_device ELSE Find[from][e.read.tag]

RECURSIVE Decode(_, _, _, _, _)
Decode(es, from, n, d, x) ==
  LET home(e)    == DeviceAt(e, IF from = None THEN e.base ELSE from)
      reached(e) ==
        CASE ~Claims(e, n, x) -> None
          [] Claims(e, n, x) /\ IsSubmap(e) ->
               IF home(e) = None THEN None
               ELSE Decode(SubmapOf(e, home(e)), None,
                           Cardinality(ServedBytes(big, n, e)), d, Offset(e, n, x))
          [] OTHER ->
               IF Handler(e, d).type = "NONE" THEN None
               ELSE [handler |-> Handler(e, d), base |-> e.base, byte |-> Offset(e, n, x)]
      later(hit, e) == LET v == reached(e) IN IF v = None THEN hit ELSE v
  IN  FoldLeft(later, None, es)

(* The map as it was before its submaps were merged into it.               *)
Written == IF late = << >> THEN MapOf(config).entries
                           ELSE <<[Last(late).entry EXCEPT !.base = Device]>>
From    == IF late = << >> THEN None ELSE owner

---------------------------------------------------------------------------------
(* import_submaps.                                                         *)

Ratio(lanes)  == W \div Cardinality(lanes \cap AllLanes)
Divided(B, n) == {k \in Bits : \E j \in B : n * 2^k = 2^j}

(* No unit mask on the submap: its entries move to where it is.            *)
Placed(e, s) ==
  [s EXCEPT !.start = @ + e.start,
            !.end = Min({@, e.end - e.start}) + e.start,
            !.mirror = @ \cup e.mirror, !.mask = @ \cup e.mask, !.select = @ \cup e.select]

(* Mutant: an end beyond the submap entry is not cut off.                  *)
PlacedUncut(e, s) ==
  [s EXCEPT !.start = @ + e.start, !.end = @ + e.start,
            !.mirror = @ \cup e.mirror, !.mask = @ \cup e.mask, !.select = @ \cup e.select]

(* The lanes of a unit mask inside another: the k-th bit of the inner one  *)
(* goes to the k-th bit that is set in the outer one.                      *)
Nested(outer, inner) ==
  {l \in outer \cap AllLanes : Cardinality({k \in outer : k < l}) \in inner}

HasMask(s)   == s.lanes \notin {{}, FullMask}
Misfit(e, s) == HasMask(s) /\ Ratio(e.lanes) * Ratio(s.lanes) > W

(* Mutant: the lanes of the submap replace those of its entries.           *)
SpreadOverMask(e, s) ==
  LET n == Ratio(e.lanes)
  IN  [s EXCEPT !.lanes = e.lanes,
                !.cs = Max({@, e.cs}),
                !.start = @ * n + e.start,
                !.end = (Min({@, Length(e) \div n - 1}) + 1) * n - 1 + e.start,
                !.mirror = Divided(@, n) \cup e.mirror,
                !.mask = Divided(@, n) \cup e.mask,
                !.select = Divided(@, n) \cup e.select]

(* A unit mask on the submap: its entries are spread over the lanes.  The  *)
(* mirror, the mask and the select are divided by the ratio.               *)
Spread(e, s) ==
  LET n == Ratio(e.lanes)
  IN  [s EXCEPT !.lanes = IF HasMask(s) THEN Nested(e.lanes, @) ELSE e.lanes,
                !.cs = Max({@, e.cs}),
                !.start = @ * n + e.start,
                !.end = (Min({@, Length(e) \div n - 1}) + 1) * n - 1 + e.start,
                !.mirror = Divided(@, n) \cup e.mirror,
                !.mask = Divided(@, n) \cup e.mask,
                !.select = Divided(@, n) \cup e.select]

(* What replaces an entry: of the imported submap, what starts inside.     *)
RECURSIVE Contents(_, _), Imported(_, _)
Contents(e, device) ==
  LET es == SubmapOf(e, device)
  IN  FlattenSeq([i \in DOMAIN es |-> Imported(es[i], device)])

Imported(e, from) ==
  IF ~IsSubmap(e) THEN <<e>>
  ELSE LET inner == Contents(e, DeviceAt(e, from))
           moved == [i \in DOMAIN inner |->
                       IF Masked(e) THEN Spread(e, inner[i]) ELSE Placed(e, inner[i])]
       IN  SelectSeq(moved, LAMBDA s : s.start <= e.end)

(* A fatalerror: no such device, or lanes that do not fit.                 *)
RECURSIVE Refused(_, _)
Refused(e, from) ==
  LET device == DeviceAt(e, from)
      es     == SubmapOf(e, device)
      inner  == Contents(e, device)
  IN  /\ IsSubmap(e)
      /\ \/ device = None
         \/ \E i \in DOMAIN es : Refused(es[i], device)
         \/ Masked(e) /\ \E i \in DOMAIN inner : Misfit(e, inner[i])

---------------------------------------------------------------------------------
(* prepare_map: the map is made, with the owner of the device as the owner *)
(* of its submaps, ...                                                     *)
CreateMap ==
  /\ stage = "create"
  /\ list' = MapOf(config).entries /\ globalmask' = MapOf(config).globalmask
  /\ at' = 1 /\ owner' = IF Owner[Device] # None THEN Owner[Device] ELSE Device
  /\ stage' = "import"
  /\ UNCHANGED <<config, big, addrmask, installed, late>>

(* ... the submaps are merged into it, one entry after the other, ...      *)
ImportSubmap ==
  /\ stage = "import" /\ at <= Len(list)
  /\ IsSubmap(list[at]) /\ ~Refused(list[at], owner)
  /\ LET new == Imported(list[at], owner)
     IN  /\ list' = SubSeq(list, 1, at - 1) \o new \o SubSeq(list, at + 1, Len(list))
         /\ at' = at + Len(new)
  /\ UNCHANGED <<config, big, stage, owner, globalmask, addrmask, installed, late>>

RefuseSubmap ==
  /\ stage = "import" /\ at <= Len(list) /\ Refused(list[at], owner)
  /\ stage' = "failed"
  /\ UNCHANGED <<config, big, list, at, owner, globalmask, addrmask, installed, late>>

KeepEntry ==
  /\ stage = "import" /\ at <= Len(list) /\ ~IsSubmap(list[at])
  /\ at' = at + 1
  /\ UNCHANGED <<config, big, stage, list, owner, globalmask, addrmask, installed, late>>

(* ... and the addresses adjusted to the global mask.                      *)
Adjusted(e, global) ==
  [e EXCEPT !.mask = @ \cap global,
            !.start = Stripped[e.mirror \cap Bits][Stripped[Bits \ global][@]],
            !.end   = Stripped[e.mirror \cap Bits][Stripped[Bits \ global][@]]]

Adjust ==
  LET global == IF globalmask # {} THEN globalmask ELSE addrmask
  IN  /\ stage = "import" /\ at > Len(list) /\ late = << >>
      /\ addrmask' = global
      /\ list' = [i \in DOMAIN list |-> Adjusted(list[i], global)]
      /\ stage' = "populate"
      /\ UNCHANGED <<config, big, at, owner, globalmask, installed, late>>

(* What populate_from_map can install: both directions of the entry, and   *)
(* its set-offset handler, which is checked as one of 8 bits.  A write     *)
(* half still naming a submap is an internal mapping error; a delegate is  *)
(* bound to a device that exists.                                          *)
InstallsHandler(e, h) ==
  CASE h.type = "NONE"     -> TRUE
    [] h.type = "SUBMAP"   -> FALSE
    [] h.type = "DELEGATE" -> Find[e.base][h.tag] # None /\ AcceptsHandler(h.bytes, e, addrmask)
    [] OTHER               -> AcceptsRange(e, addrmask)

Installs(e) ==
  /\ InstallsHandler(e, e.read) /\ InstallsHandler(e, e.write)
  /\ AcceptsHandler(1, [e EXCEPT !.cs = 0], addrmask)

Populate ==
  /\ stage = "populate"
  /\ IF \A i \in DOMAIN list : Installs(list[i])
     THEN stage' = "ready" /\ installed' = installed \o list /\ list' = << >> /\ at' = 1
     ELSE stage' = "failed" /\ UNCHANGED <<installed, list, at>>
  /\ UNCHANGED <<config, big, owner, globalmask, addrmask, late>>

(* install_device_delegate: a map of the one entry, whose tag is the       *)
(* device itself, imported and populated without being adjusted.           *)
InstallDevice(q) ==
  /\ stage = "ready" /\ Len(late) < MaxLate
  /\ late' = Append(late, q)
  /\ IF AcceptsAddress(q.entry, addrmask)
     THEN /\ list' = <<[q.entry EXCEPT !.base = Device]>>
          /\ at' = 1 /\ owner' = q.device /\ stage' = "import"
     ELSE stage' = "failed" /\ UNCHANGED <<list, at, owner>>
  /\ UNCHANGED <<config, big, globalmask, addrmask, installed>>

ImportedLate ==
  /\ stage = "import" /\ at > Len(list) /\ late # << >>
  /\ stage' = "populate"
  /\ UNCHANGED <<config, big, list, at, owner, globalmask, addrmask, installed, late>>

---------------------------------------------------------------------------------
(* map_validity_check: what it finds nothing wrong with.  Regions, shares  *)
(* and overlaps are left out.                                              *)
RangeIsValid(e, global) ==
  /\ e.start <= e.end /\ EndBits(e) \subseteq global
  /\ \A h \in {e.read, e.write} :
       h.type # "NONE" => Aligned(e, IF h.bytes = 0 THEN W ELSE h.bytes)

(* Mutant: a mask may keep bits that do not change.                        *)
BitsAreValidButMasks(e) ==
  LET changing == ChangingBits(e.start, e.end)
  IN  /\ (e.mirror \cup e.select) \cap (changing \cup EndBits(e)) = {}
      /\ e.mirror \cap e.select = {}

BitsAreValid(e) ==
  LET changing == ChangingBits(e.start, e.end)
  IN  /\ e.mask \subseteq changing
      /\ (e.mirror \cup e.select) \cap (changing \cup EndBits(e)) = {}
      /\ e.mirror \cap e.select = {}

DevicesExist(e) ==
  \A h \in {e.read, e.write} : h.type = "DELEGATE" => Find[e.base][h.tag] # None

Valid(map) ==
  LET global == IF map.globalmask = {} THEN Bits ELSE map.globalmask
  IN  \A i \in DOMAIN map.entries :
        LET e == map.entries[i]
        IN  RangeIsValid(e, global) /\ BitsAreValid(e) /\ DevicesExist(e)

---------------------------------------------------------------------------------
Init ==
  /\ config \in Configs /\ big \in BOOLEAN
  /\ stage = "create" /\ list = << >> /\ at = 1 /\ owner = None
  /\ globalmask = {} /\ addrmask = Bits
  /\ installed = << >> /\ late = << >>

Next ==
  \/ CreateMap \/ ImportSubmap \/ RefuseSubmap \/ KeepEntry \/ Adjust \/ Populate
  \/ \E q \in LateMaps : InstallDevice(q)
  \/ ImportedLate

Spec == Init /\ [][Next]_vars

---------------------------------------------------------------------------------
(* The submaps whose import keeps what the map says.  A map is on some     *)
(* lanes of the bus, n of them, a submap e in it on c of those:            *)
(*   - e covers whole rows, and has no mask and no select of its own;      *)
(*   - its unit mask repeats every n lanes, and takes an even part of them;*)
(*   - under a unit mask an entry of the submap has no mirror, mask or     *)
(*     select (they are divided by the ratio where the addresses are       *)
(*     multiplied by it; mirrors says whether one is let pass here), and   *)
(*     its own unit mask repeats every c lanes;                            *)
(*   - without one, its mirrors lie inside e and touch no bit of its start;*)
(*   - it covers whole rows of c bytes, or the lanes are evenly spaced.    *)
Periodic(lanes, n) == \A l \in FullMask : (l \in lanes) = ((l % n) \in lanes)
Even(lanes) ==
  LET c == Cardinality(lanes)
  IN  \E k \in AllLanes : lanes = {l \in AllLanes : l % (W \div c) = k}

LanesIn(e, lanes) == IF Masked(e) THEN Nested(lanes, e.lanes) ELSE lanes

SoundEntry(e, lanes) ==
  LET n == Cardinality(lanes)
  IN  /\ Aligned(e, n) /\ e.mask = {} /\ e.select = {}
      /\ Masked(e) => Periodic(e.lanes, n) /\ n % Cardinality(LanesIn(e, lanes)) = 0

MirrorsFit(s, e, lanes, mirrors) ==
  IF Masked(e)
  THEN (mirrors \/ s.mirror = {}) /\ s.mask = {} /\ s.select = {}
  ELSE /\ (s.mirror \cup s.select) \cap SetBits(e.start) = {}
       /\ \A x \in Addresses : Claims(s, Cardinality(lanes), x) => x <= e.end - e.start

LanesFit(s, e, lanes) ==
  LET c == Cardinality(LanesIn(e, lanes))
  IN  /\ Masked(e) /\ HasMask(s) => Periodic(s.lanes, c)
      /\ Aligned(s, c) \/ Even(LanesIn(e, lanes))

RECURSIVE SoundMap(_, _, _, _)
SoundMap(es, from, lanes, mirrors) ==
  \A i \in DOMAIN es :
    LET e      == es[i]
        device == DeviceAt(e, from)
        raw    == SubmapOf(e, device)
        inner  == Contents(e, device)
    IN  IsSubmap(e) /\ device # None =>
          /\ SoundEntry(e, lanes)
          /\ \A j \in DOMAIN inner : MirrorsFit(inner[j], e, LanesIn(e, lanes), mirrors)
          /\ \A j \in DOMAIN raw : LanesFit(raw[j], e, lanes)
          /\ SoundMap(raw, device, LanesIn(e, lanes), mirrors)

(* Every tag of a submap names the same device from where it is looked up  *)
(* and from where its entry is based.                                      *)
SameLookups ==
  late # << >> \/ \A i \in DOMAIN Written :
    IsSubmap(Written[i]) => DeviceAt(Written[i], owner) = DeviceAt(Written[i], Written[i].base)

SameMeaning ==
  \A d \in {"read", "write"}, x \in Addresses :
    Decode(list, None, W, d, x) = Decode(Written, From, W, d, x)

(* A list with the submaps merged into it says what the map said: every    *)
(* byte reads and writes the same byte of the same handler as when the     *)
(* submaps are followed, on either kind of bus, through submaps in         *)
(* submaps, whatever earlier or later entries the map has                  *)
(* (address_map.cpp:492).                                                  *)
ImportKeepsMeaning ==
  stage = "import" /\ at > Len(list) /\ SameLookups
    /\ SoundMap(Written, owner, AllLanes, FALSE) => SameMeaning

(* The contents of a masked submap are merged taking the ratio into        *)
(* account (the comment of address_map.cpp:556): its mirrors too.          *)
RatioReachesMirrors ==
  stage = "import" /\ at > Len(list) /\ SameLookups
    /\ SoundMap(Written, owner, AllLanes, TRUE) => SameMeaning

(* What the internal map of a device says of a byte is what its space      *)
(* does in the end, whatever the map of the owner says (the comment of     *)
(* address_map.cpp:417).                                                   *)
InternalMapPrevails ==
  LET internal == ConstructIf(EmptyMap(Device), config.internal).entries
  IN  /\ stage = "ready" /\ late = << >> /\ config.internal # None /\ MapOf(config).globalmask = {}
      /\ SoundMap(internal, Device, AllLanes, FALSE)
      /\ \A i \in {j \in DOMAIN internal : IsSubmap(internal[j])} :
           DeviceAt(internal[i], owner) = DeviceAt(internal[i], Device)
      => \A d \in {"read", "write"}, x \in Addresses :
           LET wanted == Decode(internal, None, W, d, x)
           IN  wanted # None => Decode(installed, None, W, d, x) = wanted

(* What the validity check does not look at and the installation refuses,  *)
(* of an entry on these lanes of the bus: bits outside the global mask, a  *)
(* range that starts or ends inside a row and spans several, a handler too *)
(* wide or of units that do not fit, a write half left to a submap.        *)
Overlooked(e, global, lanes) ==
  LET n == Cardinality(lanes)
      tooWide(h) == h.bytes > IF lanes = AllLanes THEN W ELSE 1
      noUnits(h) == e.cs % h.bytes # 0 \/ ~UnitsFit(h.bytes, e)
  IN  \/ ~(e.mask \cup e.mirror \cup e.select \subseteq global)
      \/ ~IsSubmap(e) /\ ~Aligned(e, n) /\ e.start \div n # e.end \div n
      \/ ~IsSubmap(e) /\ e.write.type = "SUBMAP"
      \/ e.cs > W
      \/ \E h \in {e.read, e.write} : h.type = "DELEGATE" /\ (tooWide(h) \/ noUnits(h))

RECURSIVE AllValid(_, _, _)
AllValid(map, from, lanes) ==
  LET global == IF map.globalmask = {} THEN Bits ELSE map.globalmask
  IN  /\ Valid(map)
      /\ \A i \in DOMAIN map.entries :
           LET e      == map.entries[i]
               device == DeviceAt(e, from)
           IN  /\ ~Overlooked(e, global, lanes)
               /\ IsSubmap(e) /\ device # None =>
                    AllValid(Construct(EmptyMap(device), e.submap), device, LanesIn(e, lanes))

(* Maps the validity check finds nothing wrong with, the map of the space  *)
(* and those it takes in, are installed, but for a submap that is refused  *)
(* and for what the check overlooks (address_map.cpp:628, emumem.cpp:1314).*)
ValidMapsInstall ==
  stage = "populate" /\ late = << >> /\ AllValid(MapOf(config), owner, AllLanes) /\ SoundMap(Written, owner, AllLanes, FALSE)
    => \A i \in DOMAIN list : Installs(list[i])
================================================================================
