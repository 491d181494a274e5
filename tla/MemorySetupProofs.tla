--------------------------- MODULE MemorySetupProofs ---------------------------
(***************************************************************************)
(* Proofs about MemorySetup, for every number of spaces, every width of    *)
(* the addresses, every set of maps and of regions and every bound:        *)
(* entries of one share agree on its memory (SharesHold), RAM has memory   *)
(* when the setup is done (RamHolds), what is installed later changes only *)
(* copies of its range (InstallsHold), an access stays inside the memory   *)
(* of its bank (AccessesHold), and what is read of RAM is what was written *)
(* there (WritesHold).                                                     *)
(*                                                                         *)
(* A share gets memory once and the entries that name it follow            *)
(* (SetupInv).  An anonymous bank belongs to one space, and one without    *)
(* memory comes from an entry whose space is still to be located, or from  *)
(* ROM that straddles the end of its region (BanksInv).  Memory that is    *)
(* given, of a region, a share or a block, is enough for the whole of the  *)
(* entry (RoomInv) and of the bank (ReachInv), or it is that of a share    *)
(* which was too short from the start; and what is mapped to a bank is a   *)
(* copy of one of its ranges, for one of which the handler is set.         *)
(* Where no entry names a region, a share or a bank, the blocks of a space *)
(* are whole chunks with a chunk at least between them, the memory of an   *)
(* entry is where the entry is in the block around it (PlainInv), that of  *)
(* a bank is of an entry which starts where the bank does, and copies of   *)
(* an entry with the range of the bank are mapped to it (BackedInv).  How  *)
(* far a copy is from its range is a multiple of what the handler masks    *)
(* (MirrorOffset), as check_optimize_mirror sees to.                       *)
(***************************************************************************)
EXTENDS MemorySetup, ExtremeLemmas

---------------------------------------------------------------------------------
(* The stages, and how far a space is in them.                             *)

HasPrepared(z) == stage # "prepare" \/ z < space
HasPopulated(z) == stage \notin {"prepare", "populate"} \/ (stage = "populate" /\ z < space)
HasSettled(z)  == stage \in {"locate", "initialized"} \/ (stage = "allocate" /\ z < space)
HasLocated(z)  == stage = "initialized" \/ (stage = "locate" /\ z < space)

AllStages == {"prepare", "populate", "allocate", "locate", "initialized", "failed"}

StageInv == stage \in AllStages /\ space \in Spaces

(* The spaces are numbered from 1, and there is one.                       *)
LEMMA SpacesAre ==
  /\ Cardinality(Spaces) \in Nat /\ Spaces = 1 .. Cardinality(Spaces) /\ 1 \in Spaces
<1>1. Cardinality(Spaces) \in Nat /\ Spaces = 1 .. Cardinality(Spaces) /\ Spaces # {}
  BY MemorySetupAssumption, FS_CardinalityType
<1>2. QED BY <1>1

(* The stages in their order.                                              *)
LEMMA AfterIs ==
  /\ After("prepare") = "populate" /\ After("populate") = "allocate"
  /\ After("allocate") = "locate" /\ After("locate") = "initialized"
<1>1. /\ Len(Stages) = 5 /\ Stages[1] = "prepare" /\ Stages[2] = "populate"
      /\ Stages[3] = "allocate" /\ Stages[4] = "locate" /\ Stages[5] = "initialized"
  BY DEF Stages
<1>2. ASSUME NEW k \in 2 .. 5, NEW s, Stages[k - 1] = s,
             \A j \in 2 .. 5 : Stages[j - 1] = s => j = k
      PROVE  After(s) = Stages[k]
  BY <1>1, <1>2 DEF After
<1>3. \A j \in 2 .. 5 : j = 2 \/ j = 3 \/ j = 4 \/ j = 5
  OBVIOUS
<1>4. \A j \in 2 .. 5 : /\ Stages[j - 1] = "prepare"  => j = 2
                        /\ Stages[j - 1] = "populate" => j = 3
                        /\ Stages[j - 1] = "allocate" => j = 4
                        /\ Stages[j - 1] = "locate"   => j = 5
  BY <1>1, <1>3
<1>5. After("prepare") = Stages[2]
  BY <1>1, <1>2, <1>4
<1>6. After("populate") = Stages[3]
  BY <1>1, <1>2, <1>4
<1>7. After("allocate") = Stages[4]
  BY <1>1, <1>2, <1>4
<1>8. After("locate") = Stages[5]
  BY <1>1, <1>2, <1>4
<1>9. QED BY <1>1, <1>5, <1>6, <1>7, <1>8

(* A stage goes from space to space, and then to the next stage.           *)
Advanced ==
  /\ StageInv'
  /\ stage # "failed" /\ stage' # "failed"
  /\ \A z \in Spaces :
       /\ HasPrepared(z)'  <=> HasPrepared(z)  \/ (stage = "prepare"  /\ z = space)
       /\ HasPopulated(z)' <=> HasPopulated(z) \/ (stage = "populate" /\ z = space)
       /\ HasSettled(z)'   <=> HasSettled(z)   \/ (stage = "allocate" /\ z = space)
       /\ HasLocated(z)'   <=> HasLocated(z)   \/ (stage = "locate"   /\ z = space)
  /\ stage' = "prepare" => stage = "prepare"
  /\ stage' = "populate" => stage \in {"prepare", "populate"}
  /\ stage' \in {"locate", "initialized"} => \A z \in Spaces : HasSettled(z)'
  /\ stage' = "initialized" => \A z \in Spaces : HasLocated(z)'
  /\ stage # "prepare" => stage' # "prepare"

(* After a space comes the next one, after the last the next stage, and    *)
(* whatever was done for the spaces before stays done.                     *)
LEMMA AdvanceIs ==
  ASSUME StageInv, stage \in {"prepare", "populate", "allocate", "locate"}, Advance
  PROVE  Advanced
<1> DEFINE N == Cardinality(Spaces)
<1>1. N \in Nat /\ Spaces = 1 .. N /\ 1 \in Spaces /\ space \in Spaces
  BY SpacesAre DEF StageInv
<1>2. \/ space = N /\ stage' = After(stage) /\ space' = 1
      \/ space # N /\ stage' = stage /\ space' = space + 1
  BY DEF Advance
<1> HIDE DEF N
<1>3. CASE space = N /\ stage' = After(stage) /\ space' = 1
  <2>1. \A z \in Spaces : (z < space \/ z = space) /\ ~(z < space')
    BY <1>1, <1>3
  <2>2. CASE stage = "prepare" /\ stage' = "populate"
    BY <1>1, <1>3, <2>1, <2>2 DEF Advanced, StageInv, AllStages, HasPrepared, HasPopulated, HasSettled, HasLocated
  <2>3. CASE stage = "populate" /\ stage' = "allocate"
    BY <1>1, <1>3, <2>1, <2>3 DEF Advanced, StageInv, AllStages, HasPrepared, HasPopulated, HasSettled, HasLocated
  <2>4. CASE stage = "allocate" /\ stage' = "locate"
    BY <1>1, <1>3, <2>1, <2>4 DEF Advanced, StageInv, AllStages, HasPrepared, HasPopulated, HasSettled, HasLocated
  <2>5. CASE stage = "locate" /\ stage' = "initialized"
    BY <1>1, <1>3, <2>1, <2>5 DEF Advanced, StageInv, AllStages, HasPrepared, HasPopulated, HasSettled, HasLocated
  <2>6. QED BY <1>3, <2>2, <2>3, <2>4, <2>5, AfterIs
<1>4. CASE space # N /\ stage' = stage /\ space' = space + 1
  <2>1. space' \in Spaces /\ \A z \in Spaces : z < space' <=> (z < space \/ z = space)
    BY <1>1, <1>4
  <2>2. QED BY <1>1, <1>4, <2>1 DEF Advanced, StageInv, AllStages, HasPrepared, HasPopulated, HasSettled, HasLocated
<1>5. QED BY <1>2, <1>3, <1>4

---------------------------------------------------------------------------------
(* The entries.                                                            *)

(* A range with a mirror that check_optimize_mirror lets pass.             *)
RangeOK(e) ==
  e.start \in Addresses /\ e.end \in Addresses /\ e.mirror \subseteq Bits /\ ValidRequest(e)

EntryOK(e) ==
  /\ DOMAIN e = Fields /\ {e.start, e.end, e.offset} \subseteq Nat /\ RangeOK(e)
  /\ "BANK" \in {e.read, e.write} => e.tag # None

(* ROM of a space 0 that is in the region of its device has the region.    *)
IsAttached(z, e) ==
  ~ (/\ z \in First /\ e.read = "ROM" /\ e.region = None
     /\ OwnRegion[z] # None /\ e.end < Regions[OwnRegion[z]])

IsList(es) == \E n \in Nat : DOMAIN es = 1 .. n

EntriesOK ==
  /\ DOMAIN entries = Spaces
  /\ \A z \in Spaces : IsList(entries[z]) /\ \A i \in DOMAIN entries[z] : EntryOK(entries[z][i])

(* An entry that needs a store, whatever is behind its share.              *)
Stores(z, e) ==
  \/ e.write \in {"BANK", "RAM"}
  \/ e.read = "RAM"
  \/ e.read = "ROM" /\ (z \notin First \/ OwnRegion[z] = None \/ e.start >= Regions[OwnRegion[z]])

(* An entry of a share without a region, once it has memory, has that of   *)
(* the share.                                                              *)
Agrees(e, shares) ==
  e.share # None /\ e.region = None /\ e.memory # None => e.memory = shares[e.share]

Complete(z, e) == e.memory # None \/ (e.share = None /\ ~Stores(z, e))

EntryInv(z, e) ==
  /\ ~HasPrepared(z) => e \in Buckets
  /\ HasPrepared(z) =>
       /\ e.region # None => e.memory # None
       /\ IsAttached(z, e) /\ Fits(e)
       /\ e.share # None => e.share \in DOMAIN sharelist
  /\ Agrees(e, sharelist)
  /\ stage \in {"prepare", "populate"} /\ e.region = None => e.memory = None
  /\ HasSettled(z) => Complete(z, e)

SetupInv ==
  /\ StageInv
  /\ stage # "failed" =>
       /\ EntriesOK
       /\ \A z \in Spaces : \A i \in DOMAIN entries[z] : EntryInv(z, entries[z][i])
       /\ stage \in {"prepare", "populate"} => \A s \in DOMAIN sharelist : sharelist[s] = None

(* An entry of a map as it is declared has no memory yet.                  *)
LEMMA BucketsAre ==
  ASSUME NEW e \in Buckets
  PROVE  EntryOK(e) /\ e.memory = None
BY MemorySetupAssumption DEF EntryOK, RangeOK

(* Only the range and the mirror matter.                                   *)
LEMMA RangeOKIs ==
  ASSUME NEW e, RangeOK(e), NEW f, f.start = e.start, f.end = e.end, f.mirror = e.mirror
  PROVE  RangeOK(f)
BY DEF RangeOK, ValidRequest

(* A place in a region is not None.                                        *)
LEMMA RegionPlaceIs ==
  ASSUME NEW r \in DOMAIN Regions, NEW k \in Nat
  PROVE  Place(r, k) # None
BY MemorySetupAssumption DEF Place

(* prepare_map leaves an entry with the memory of its region, if it has one*)
(* then.                                                                   *)
LEMMA PreparedIs ==
  ASSUME NEW z \in Spaces, NEW e \in Buckets, NEW f, f = Prepared(z, e), Fits(f)
  PROVE  /\ EntryOK(f) /\ f.share = e.share /\ IsAttached(z, f)
         /\ f.start = e.start /\ f.end = e.end /\ f.mirror = e.mirror
         /\ f.region # None => f.memory = Place(f.region, f.offset) /\ f.memory # None
         /\ f.region = None => f.memory = None
<1> DEFINE a == Attach(z, e)
           own == /\ z \in First /\ e.read = "ROM" /\ e.region = None
                  /\ OwnRegion[z] # None /\ e.end < Regions[OwnRegion[z]]
<1>1. /\ DOMAIN e = Fields /\ e.start \in Nat /\ e.end \in Nat /\ e.offset \in Nat
      /\ "BANK" \in {e.read, e.write} => e.tag # None
      /\ RangeOK(e)
  BY BucketsAre DEF EntryOK
<1>2. OwnRegion[z] \in DOMAIN Regions \cup {None}
  BY MemorySetupAssumption
<1>3. /\ DOMAIN a = Fields /\ a.start = e.start /\ a.end = e.end /\ a.read = e.read
      /\ a.write = e.write /\ a.share = e.share /\ a.tag = e.tag /\ a.mirror = e.mirror
      /\ a.region = (IF own THEN OwnRegion[z] ELSE e.region)
      /\ a.offset = (IF own THEN e.start ELSE e.offset)
  <2>1. CASE own
    <3>1. a = [e EXCEPT !.region = OwnRegion[z], !.offset = e.start]
      BY <2>1 DEF Attach
    <3>2. QED BY <1>1, <2>1, <3>1 DEF Fields
  <2>2. CASE ~own
    <3>1. a = e
      BY <2>2 DEF Attach
    <3>2. QED BY <1>1, <2>2, <3>1
  <2>3. QED BY <2>1, <2>2
<1>4. own => OwnRegion[z] \in DOMAIN Regions /\ OwnRegion[z] # None
  BY <1>2
<1>5. f = [a EXCEPT !.memory = IF a.region = None THEN None ELSE Place(a.region, a.offset)]
  BY DEF Prepared
<1> HIDE DEF a
<1>6. /\ DOMAIN f = Fields /\ f.start = a.start /\ f.end = a.end /\ f.read = a.read
      /\ f.write = a.write /\ f.share = a.share /\ f.tag = a.tag /\ f.region = a.region
      /\ f.offset = a.offset /\ f.mirror = a.mirror
      /\ f.memory = IF a.region = None THEN None ELSE Place(a.region, a.offset)
  BY <1>3, <1>5 DEF Fields
<1>7. EntryOK(f)
  <2>1. RangeOK(f)
    BY <1>1, <1>3, <1>6, RangeOKIs
  <2>2. QED BY <1>1, <1>3, <1>6, <2>1 DEF EntryOK
<1>8. f.region # None => f.region \in DOMAIN Regions
  BY DEF Fits
<1>9. f.region # None => f.memory = Place(f.region, f.offset) /\ f.memory # None
  <2>1. f.offset \in Nat
    BY <1>7 DEF EntryOK
  <2>2. QED BY <1>6, <1>8, <2>1, RegionPlaceIs
<1>10. IsAttached(z, f)
  BY <1>3, <1>4, <1>6 DEF IsAttached
<1>11. QED BY <1>3, <1>6, <1>7, <1>9, <1>10

(* prepare_map keeps the invariant: a share is made without memory, and an *)
(* entry gets memory from its region alone.                                *)
LEMMA PrepareStep ==
  ASSUME SetupInv, PrepareMap
  PROVE  SetupInv'
<1> DEFINE ready == [i \in DOMAIN entries[space] |-> Prepared(space, entries[space][i])]
<1>1. /\ stage = "prepare" /\ \A i \in DOMAIN ready : Fits(ready[i])
      /\ entries' = [entries EXCEPT ![space] = ready]
      /\ sharelist' = [s \in NewShares(space) \cup DOMAIN sharelist |->
                         IF s \in DOMAIN sharelist THEN sharelist[s] ELSE None]
      /\ Advance
  BY DEF PrepareMap
<1>2. /\ StageInv /\ EntriesOK /\ space \in Spaces
      /\ \A z \in Spaces : \A i \in DOMAIN entries[z] : EntryInv(z, entries[z][i])
      /\ \A s \in DOMAIN sharelist : sharelist[s] = None
  BY <1>1 DEF SetupInv, StageInv
<1>3. Advanced
  BY <1>1, <1>2, AdvanceIs
<1>4. /\ DOMAIN sharelist' = NewShares(space) \cup DOMAIN sharelist
      /\ \A s \in DOMAIN sharelist' : sharelist'[s] = None
  BY <1>1, <1>2
<1>5. ~HasPrepared(space) /\ ~HasSettled(space)
  BY <1>1, <1>2, SpacesAre DEF HasPrepared, HasSettled
<1>6. /\ DOMAIN entries' = Spaces /\ entries'[space] = ready
      /\ \A z \in Spaces : z # space => entries'[z] = entries[z]
  BY <1>1, <1>2 DEF EntriesOK
<1>7. DOMAIN ready = DOMAIN entries[space]
  OBVIOUS
<1>8. \A z \in Spaces : ~HasSettled(z)'
  <2>1. \A z \in Spaces : ~HasSettled(z)
    BY <1>1 DEF HasSettled
  <2>2. QED BY <1>1, <1>3, <2>1 DEF Advanced
<1>9. ASSUME NEW z \in Spaces, z = space, NEW i \in DOMAIN ready, NEW f, f = ready[i]
      PROVE  EntryOK(f) /\ EntryInv(z, f)'
  <2> DEFINE e == entries[space][i]
  <2>1. e \in Buckets /\ f = Prepared(z, e) /\ Fits(f)
    BY <1>1, <1>2, <1>5, <1>9 DEF EntryInv
  <2> HIDE DEF ready
  <2>2. /\ EntryOK(f) /\ f.share = e.share /\ IsAttached(z, f) /\ Fits(f)
        /\ f.region # None => f.memory # None
        /\ f.region = None => f.memory = None
    BY <1>2, <2>1, PreparedIs
  <2>3. f.share # None => f.share \in DOMAIN sharelist'
    BY <1>4, <1>7, <2>2 DEF NewShares
  <2>4. HasPrepared(z)' /\ ~HasSettled(z)'
    BY <1>1, <1>3, <1>8, <1>9 DEF Advanced
  <2>5. EntryInv(z, f)'
    <3>1. f.memory # None => f.region # None
      BY <2>2
    <3>2. QED BY <2>2, <2>3, <2>4, <3>1 DEF EntryInv, Agrees
  <2>6. QED BY <2>2, <2>5
<1>10. ASSUME NEW z \in Spaces, z # space, NEW i \in DOMAIN entries[z], NEW e, e = entries[z][i]
       PROVE  EntryInv(z, e)'
  <2>1. EntryInv(z, e)
    BY <1>2, <1>10
  <2>2. HasPrepared(z)' <=> HasPrepared(z)
    BY <1>3, <1>10 DEF Advanced
  <2>3. e.region = None => e.memory = None
    BY <1>1, <2>1 DEF EntryInv
  <2>4. ~HasSettled(z)'
    BY <1>8
  <2>5. e.region = None \/ ~HasPrepared(z) => e.memory = None
    <3>1. ~HasPrepared(z) => e.memory = None
      BY <2>1, BucketsAre DEF EntryInv
    <3>2. QED BY <2>3, <3>1
  <2>6. e.share # None /\ HasPrepared(z) => e.share \in DOMAIN sharelist'
    BY <1>4, <2>1 DEF EntryInv
  <2>7. QED BY <2>1, <2>2, <2>4, <2>5, <2>6 DEF EntryInv, Agrees
<1> HIDE DEF ready
<1>11. EntriesOK'
  <2>1. \A z \in Spaces : IsList(entries[z]) /\ \A i \in DOMAIN entries[z] : EntryOK(entries[z][i])
    BY <1>2 DEF EntriesOK
  <2>2. IsList(ready)
    BY <1>2, <1>7, <2>1 DEF IsList
  <2>3. ASSUME NEW z \in Spaces
        PROVE  IsList(entries'[z]) /\ \A i \in DOMAIN entries'[z] : EntryOK(entries'[z][i])
    BY <1>2, <1>6, <1>7, <1>9, <2>1, <2>2
  <2>4. QED BY <1>6, <2>3 DEF EntriesOK
<1>12. ASSUME NEW z \in Spaces, NEW i \in DOMAIN entries'[z] PROVE EntryInv(z, entries[z][i])'
  <2>1. PICK e : e = entries'[z][i]
    OBVIOUS
  <2>2. EntryInv(z, e)'
    BY <1>6, <1>9, <1>10, <2>1
  <2>3. QED BY <2>1, <2>2 DEF EntryInv, Agrees, Complete, Stores, IsAttached, Fits, HasPrepared, HasSettled
<1>13. StageInv'
  BY <1>3 DEF Advanced
<1>14. QED BY <1>4, <1>11, <1>12, <1>13 DEF SetupInv

(* What leaves the entries and the shares alone.                           *)
LEMMA SetupStays ==
  ASSUME SetupInv, UNCHANGED <<entries, sharelist>>, StageInv',
         \/ stage' = "failed"
         \/ /\ stage # "failed" /\ stage' # "failed"
            /\ stage' \in {"prepare", "populate"} => stage \in {"prepare", "populate"}
            /\ \A z \in Spaces : (HasPrepared(z)' <=> HasPrepared(z)) /\ (HasSettled(z)' <=> HasSettled(z))
  PROVE  SetupInv'
<1>1. CASE stage' = "failed"
  BY <1>1 DEF SetupInv
<1>2. CASE stage' # "failed"
  <2>1. /\ stage # "failed" /\ entries' = entries /\ sharelist' = sharelist
        /\ stage' \in {"prepare", "populate"} => stage \in {"prepare", "populate"}
        /\ \A z \in Spaces : (HasPrepared(z)' <=> HasPrepared(z)) /\ (HasSettled(z)' <=> HasSettled(z))
    BY <1>2
  <2>2. EntriesOK'
    BY <2>1 DEF SetupInv, EntriesOK
  <2>3. ASSUME NEW z \in Spaces, NEW i \in DOMAIN entries'[z] PROVE EntryInv(z, entries[z][i])'
    <3>1. PICK e : e = entries[z][i]
      OBVIOUS
    <3>2. EntryInv(z, e)
      BY <2>1, <3>1 DEF SetupInv
    <3>3. EntryInv(z, e)'
      <4>1. stage' \in {"prepare", "populate"} => stage \in {"prepare", "populate"}
        BY <2>1
      <4>2. (HasPrepared(z)' <=> HasPrepared(z)) /\ (HasSettled(z)' <=> HasSettled(z))
        BY <2>1
      <4>3. QED BY <2>1, <3>2, <4>1, <4>2 DEF EntryInv, Agrees
    <3>4. entries'[z][i] = e
      BY <2>1, <3>1
    <3>5. QED BY <3>3, <3>4 DEF EntryInv, Agrees, Complete, Stores, IsAttached, Fits, HasPrepared, HasSettled
  <2>4. stage' \in {"prepare", "populate"} => \A s \in DOMAIN sharelist' : sharelist'[s] = None
    BY <2>1 DEF SetupInv
  <2>5. QED BY <2>2, <2>3, <2>4 DEF SetupInv
<1>3. QED BY <1>1, <1>2

(* Stages that only look at the entries.                                   *)
LEMMA LookingStep ==
  ASSUME SetupInv, UNCHANGED <<entries, sharelist>>,
         \/ stage' = "failed" /\ space' = space
         \/ stage \in {"populate", "locate"} /\ Advance
         \/ stage = "initialized" /\ stage' = stage /\ space' = space
  PROVE  SetupInv'
<1>1. StageInv /\ space \in Spaces
  BY DEF SetupInv, StageInv
<1>2. CASE stage' = "failed" /\ space' = space
  <2>1. StageInv'
    BY <1>1, <1>2 DEF StageInv, AllStages
  <2>2. QED BY <1>2, <2>1, SetupStays
<1>3. CASE stage \in {"populate", "locate"} /\ Advance
  <2>1. Advanced
    BY <1>1, <1>3, AdvanceIs
  <2>2. \A z \in Spaces : (HasPrepared(z)' <=> HasPrepared(z)) /\ (HasSettled(z)' <=> HasSettled(z))
    BY <1>3, <2>1 DEF Advanced
  <2>3. /\ stage # "failed" /\ stage' # "failed" /\ StageInv'
        /\ stage' \in {"prepare", "populate"} => stage \in {"prepare", "populate"}
    BY <2>1 DEF Advanced
  <2>4. QED BY <2>2, <2>3, SetupStays
<1>4. CASE stage = "initialized" /\ stage' = stage /\ space' = space
  <2>1. StageInv'
    BY <1>1, <1>4 DEF StageInv
  <2>2. \A z \in Spaces : (HasPrepared(z)' <=> HasPrepared(z)) /\ (HasSettled(z)' <=> HasSettled(z))
    BY <1>4 DEF HasPrepared, HasSettled
  <2>3. QED BY <1>4, <2>1, <2>2, SetupStays
<1>5. QED BY <1>2, <1>3, <1>4

---------------------------------------------------------------------------------
(* block_assign_intersecting: memory is given to those that have none, and *)
(* a share gets its memory once.                                           *)

(* An entry that differs in its memory only, and not if it had any.        *)
Assigns(f, e) ==
  /\ DOMAIN f = Fields /\ f.start = e.start /\ f.end = e.end /\ f.read = e.read
  /\ f.write = e.write /\ f.share = e.share /\ f.region = e.region
  /\ f.offset = e.offset /\ f.tag = e.tag /\ f.mirror = e.mirror
  /\ e.memory # None => f.memory = e.memory

(* The same of a list of entries, and of the shares.                       *)
Grew(es, shares, fs, more) ==
  /\ DOMAIN fs = DOMAIN es /\ \A i \in DOMAIN es : Assigns(fs[i], es[i])
  /\ DOMAIN more = DOMAIN shares
  /\ \A s \in DOMAIN shares : shares[s] # None => more[s] = shares[s]

WorkFields == {"es", "shares", "left"}

(* What the loops over the entries of a space keep.                        *)
WorkOK(w) ==
  /\ DOMAIN w = WorkFields
  /\ IsList(w.es)
  /\ \A i \in DOMAIN w.es :
       /\ DOMAIN w.es[i] = Fields
       /\ w.es[i].share # None => w.es[i].share \in DOMAIN w.shares
       /\ Agrees(w.es[i], w.shares)

(* Memory given in two steps is given.                                     *)
LEMMA GrewTwice ==
  ASSUME NEW es, NEW shares, NEW fs, NEW more, NEW gs, NEW most,
         Grew(es, shares, fs, more), Grew(fs, more, gs, most)
  PROVE  Grew(es, shares, gs, most)
<1>1. ASSUME NEW i \in DOMAIN es PROVE Assigns(gs[i], es[i])
  BY DEF Grew, Assigns
<1>2. QED BY <1>1 DEF Grew

(* Nothing given is nothing taken away.                                    *)
LEMMA GrewNot ==
  ASSUME NEW es, NEW shares, \A i \in DOMAIN es : DOMAIN es[i] = Fields
  PROVE  Grew(es, shares, es, shares)
BY DEF Grew, Assigns

(* An entry that the data covers, and the share it names, get their memory *)
(* unless they had it, and the entry left to do is kept in mind            *)
(* (assign_intersecting).                                                  *)
LEMMA AssignEntryStep ==
  ASSUME NEW w, WorkOK(w), NEW z, NEW i \in DOMAIN w.es, NEW lo, NEW hi, NEW data,
         NEW v, v = AssignEntry(w, z, i, lo, hi, data)
  PROVE  /\ WorkOK(v) /\ Grew(w.es, w.shares, v.es, v.shares)
         /\ v.left = w.left \/ v.left = i
         /\ Complete(z, v.es[i]) \/ v.left # 0 \/ i = 0
         /\ w.left # 0 => v.left # 0
<1> DEFINE e == w.es[i]
           block == IF e.start >= lo /\ e.end <= hi THEN Beyond(data, e.start - lo) ELSE None
           share == IF e.share = None THEN None ELSE w.shares[e.share]
           p     == IF e.memory # None THEN e.memory ELSE IF share # None THEN share ELSE block
           given == e.share # None /\ share = None
           needs == NeedsBackingStore(z, e, w.shares)
           left  == IF w.left = 0 /\ p = None /\ needs THEN i ELSE w.left
           S     == IF given THEN [w.shares EXCEPT ![e.share] = p] ELSE w.shares
<1>1. /\ DOMAIN w = WorkFields /\ IsList(w.es) /\ DOMAIN e = Fields
      /\ e.share # None => e.share \in DOMAIN w.shares
      /\ \A j \in DOMAIN w.es :
           /\ DOMAIN w.es[j] = Fields
           /\ w.es[j].share # None => w.es[j].share \in DOMAIN w.shares
           /\ Agrees(w.es[j], w.shares)
  BY DEF WorkOK
<1>2. v = [w EXCEPT !.es[i].memory = p, !.shares = S, !.left = left]
  BY DEF AssignEntry
<1> HIDE DEF p, S, left
<1>3. /\ DOMAIN v = WorkFields /\ v.shares = S /\ v.left = left
      /\ v.es = [w.es EXCEPT ![i].memory = p]
  BY <1>1, <1>2 DEF WorkFields
<1>4. /\ DOMAIN v.es = DOMAIN w.es /\ v.es[i] = [e EXCEPT !.memory = p]
      /\ \A j \in DOMAIN w.es : j # i => v.es[j] = w.es[j]
  BY <1>3
<1>5. /\ DOMAIN v.es[i] = Fields /\ v.es[i].memory = p /\ v.es[i].start = e.start
      /\ v.es[i].end = e.end /\ v.es[i].read = e.read /\ v.es[i].write = e.write
      /\ v.es[i].share = e.share /\ v.es[i].region = e.region /\ v.es[i].offset = e.offset
      /\ v.es[i].tag = e.tag /\ v.es[i].mirror = e.mirror
  BY <1>1, <1>4 DEF Fields
<1>6. /\ DOMAIN S = DOMAIN w.shares
      /\ \A s \in DOMAIN w.shares : w.shares[s] # None => S[s] = w.shares[s]
      /\ given => S[e.share] = p
      /\ ~given => S = w.shares
  BY <1>1 DEF S
<1>7. e.memory # None => p = e.memory
  BY DEF p
<1>8. Grew(w.es, w.shares, v.es, v.shares)
  <2>1. ASSUME NEW j \in DOMAIN w.es PROVE Assigns(v.es[j], w.es[j])
    BY <1>1, <1>4, <1>5, <1>7 DEF Assigns
  <2>2. QED BY <1>3, <1>4, <1>6, <2>1 DEF Grew
<1>9. Agrees(v.es[i], S)
  <2>1. SUFFICES ASSUME e.share # None, e.region = None, p # None PROVE p = S[e.share]
    BY <1>5 DEF Agrees
  <2>2. CASE given
    BY <1>6, <2>2
  <2>3. CASE ~given
    <3>1. share # None /\ share = w.shares[e.share] /\ S = w.shares
      BY <1>6, <2>1, <2>3
    <3>2. e.memory # None => e.memory = w.shares[e.share]
      BY <1>1, <2>1 DEF Agrees
    <3>3. QED BY <3>1, <3>2 DEF p
  <2>4. QED BY <2>2, <2>3
<1>10. ASSUME NEW j \in DOMAIN w.es, j # i PROVE Agrees(w.es[j], S)
  <2>1. SUFFICES ASSUME w.es[j].share # None, w.es[j].region = None, w.es[j].memory # None
                 PROVE  w.es[j].memory = S[w.es[j].share]
    BY DEF Agrees
  <2>2. w.es[j].memory = w.shares[w.es[j].share] /\ w.es[j].share \in DOMAIN w.shares
    BY <1>1, <2>1 DEF Agrees
  <2>3. QED BY <1>6, <2>1, <2>2
<1>11. WorkOK(v)
  <2>1. IsList(v.es)
    BY <1>1, <1>4 DEF IsList
  <2>2. QED BY <1>1, <1>3, <1>4, <1>5, <1>6, <1>9, <1>10, <2>1 DEF WorkOK
<1>12. Complete(z, v.es[i]) \/ v.left # 0 \/ i = 0
  <2>1. SUFFICES ASSUME p = None, left = 0, i # 0 PROVE e.share = None /\ ~Stores(z, e)
    BY <1>3, <1>5 DEF Complete, Stores
  <2>2. w.left = 0 /\ ~needs
    BY <2>1 DEF left
  <2>3. ~Stores(z, e) /\ (e.share = None \/ w.shares[e.share] # None)
    BY <2>2 DEF NeedsBackingStore, Stores
  <2>4. e.share = None
    BY <2>1, <2>3 DEF p
  <2>5. QED BY <2>3, <2>4
<1>13. (v.left = w.left \/ v.left = i) /\ (w.left # 0 => v.left # 0)
  BY <1>3 DEF left
<1>14. QED BY <1>8, <1>11, <1>12, <1>13

AssignStep(z, lo, hi, data, v, i) == AssignEntry(v, z, i, lo, hi, data)

AssignFold == INSTANCE FoldInduction WITH Op <- AssignStep

(* What a work becomes when its entries are assigned memory.               *)
Better(w, v) == WorkOK(v) /\ Grew(w.es, w.shares, v.es, v.shares)

(* All the entries are looked at: what needs memory and has none is left.  *)
LEMMA BlockAssigned ==
  ASSUME NEW w, WorkOK(w), NEW z, NEW lo, NEW hi, NEW data,
         NEW v, v = block_assign_intersecting(w, z, lo, hi, data)
  PROVE  /\ Better(w, v)
         /\ v.left = 0 => \A i \in DOMAIN v.es : Complete(z, v.es[i])
<1> DEFINE u == [w EXCEPT !.left = 0]
           s == [i \in DOMAIN w.es |-> i]
<1>1. PICK n \in Nat : DOMAIN w.es = 1 .. n
  BY DEF WorkOK, IsList
<1>2. DOMAIN s = 1 .. n /\ \A i \in 1 .. n : s[i] = i
  BY <1>1
<1>3. /\ DOMAIN u = WorkFields /\ u.es = w.es /\ u.shares = w.shares
      /\ \A i \in DOMAIN w.es : DOMAIN w.es[i] = Fields
  BY DEF WorkOK, WorkFields
<1>4. WorkOK(u)
  BY <1>3 DEF WorkOK
<1> HIDE DEF u, s
<1>5. v = AssignFold!Fold(z, lo, hi, data, u, s)
  BY DEF block_assign_intersecting, FoldLeft, MapThenFoldSet, AssignFold!Fold, AssignFold!Last,
         AssignStep, Max, u, s
<1>6. AssignFold!Induction(n)
  BY LoopInduction DEF AssignFold!Induction
<1>7. PICK g : AssignFold!Passes(z, lo, hi, data, u, s, n, g) /\ g[n] = v
  BY <1>2, <1>5, <1>6, AssignFold!FoldPasses
<1> DEFINE J(k) == /\ Better(w, g[k])
                   /\ \A i \in 1 .. k : Complete(z, g[k].es[i]) \/ g[k].left # 0
           P == {k \in 0 .. n : J(k)}
<1>8. 0 \in P
  <2>1. g[0] = u
    BY <1>7 DEF AssignFold!Passes
  <2>2. Grew(w.es, w.shares, u.es, u.shares)
    BY <1>3, GrewNot
  <2>3. QED BY <1>4, <2>1, <2>2 DEF Better
<1>9. ASSUME NEW k \in 0 .. (n - 1), k \in P PROVE k + 1 \in P
  <2> DEFINE m == k + 1
  <2>a. J(k)
    BY <1>9
  <2>1. m \in 1 .. n /\ m \in 0 .. n /\ m - 1 = k /\ m # 0
        /\ \A i \in 1 .. m : i \in 1 .. k \/ i = m
    OBVIOUS
  <2> HIDE DEF m
  <2>2. g[m] = AssignEntry(g[k], z, m, lo, hi, data)
    BY <1>2, <1>7, <2>1 DEF AssignFold!Passes, AssignStep
  <2>3. WorkOK(g[k]) /\ Grew(w.es, w.shares, g[k].es, g[k].shares) /\ DOMAIN g[k].es = 1 .. n
    BY <1>1, <2>a DEF Better, Grew
  <2>4. /\ WorkOK(g[m]) /\ Grew(g[k].es, g[k].shares, g[m].es, g[m].shares)
        /\ Complete(z, g[m].es[m]) \/ g[m].left # 0 \/ m = 0
        /\ g[k].left # 0 => g[m].left # 0
    BY <2>1, <2>2, <2>3, AssignEntryStep
  <2>5. Better(w, g[m])
    BY <2>3, <2>4, GrewTwice DEF Better
  <2>6. ASSUME NEW i \in 1 .. m PROVE Complete(z, g[m].es[i]) \/ g[m].left # 0
    <3>1. CASE i = m
      BY <2>1, <2>4, <3>1
    <3>2. CASE i \in 1 .. k
      <4>1. i \in 1 .. n
        BY <2>1, <3>2
      <4>2. Complete(z, g[k].es[i]) \/ g[k].left # 0
        BY <2>a, <3>2
      <4>3. Assigns(g[m].es[i], g[k].es[i])
        BY <2>3, <2>4, <4>1 DEF Grew
      <4>4. Complete(z, g[k].es[i]) => Complete(z, g[m].es[i])
        BY <4>3 DEF Assigns, Complete, Stores
      <4>5. QED BY <2>4, <4>2, <4>4
    <3>3. QED BY <2>1, <3>1, <3>2
  <2>7. J(m)
    BY <2>5, <2>6
  <2>8. QED BY <2>1, <2>7 DEF m
<1>10. n \in P
  <2> HIDE DEF P
  <2>1. QED BY <1>8, <1>9, LoopInduction
<1>11. J(n) /\ DOMAIN v.es = 1 .. n
  <2>1. J(n)
    BY <1>10
  <2>2. QED BY <1>1, <1>7, <2>1 DEF Better, Grew
<1>12. QED BY <1>7, <1>11

HardcodedStep(z, b, c, d, v, x) == block_assign_intersecting(v, z, x.start, x.end, x.data)

HardcodedFold == INSTANCE FoldInduction WITH Op <- HardcodedStep

(* One block after the other.                                              *)
LEMMA BlocksAssigned ==
  ASSUME NEW w, WorkOK(w), NEW z, NEW n \in Nat, NEW blocks, DOMAIN blocks = 1 .. n,
         NEW v, v = HardcodedFold!Fold(z, 0, 0, 0, w, blocks)
  PROVE  Better(w, v)
<1>1. HardcodedFold!Induction(n)
  BY LoopInduction DEF HardcodedFold!Induction
<1>2. PICK g : HardcodedFold!Passes(z, 0, 0, 0, w, blocks, n, g) /\ g[n] = v
  BY <1>1, HardcodedFold!FoldPasses
<1> DEFINE P == {k \in 0 .. n : Better(w, g[k])}
<1>3. 0 \in P
  <2>1. g[0] = w
    BY <1>2 DEF HardcodedFold!Passes
  <2>2. Grew(w.es, w.shares, w.es, w.shares)
    BY GrewNot DEF WorkOK
  <2>3. QED BY <2>1, <2>2 DEF Better
<1>4. ASSUME NEW k \in 0 .. (n - 1), k \in P PROVE k + 1 \in P
  <2> DEFINE m == k + 1
             x == blocks[m]
  <2>a. Better(w, g[k])
    BY <1>4
  <2>1. m \in 1 .. n /\ m \in 0 .. n /\ m - 1 = k
    OBVIOUS
  <2> HIDE DEF m
  <2>2. g[m] = block_assign_intersecting(g[k], z, x.start, x.end, x.data)
    BY <1>2, <2>1 DEF HardcodedFold!Passes, HardcodedStep
  <2>3. Better(g[k], g[m])
    BY <2>a, <2>2, BlockAssigned DEF Better
  <2>4. Better(w, g[m])
    BY <2>a, <2>3, GrewTwice DEF Better
  <2>5. QED BY <2>1, <2>4 DEF m
<1>5. n \in P
  <2> HIDE DEF P
  <2>1. QED BY <1>3, <1>4, LoopInduction
<1>6. QED BY <1>2, <1>5

(* The work of a space begins with its entries and all the shares.         *)
LEMMA WorkBegins ==
  ASSUME SetupInv, stage = "allocate", NEW w, DOMAIN w = WorkFields,
         w.es = entries[space], w.shares = sharelist
  PROVE  WorkOK(w)
<1>1. /\ EntriesOK /\ space \in Spaces /\ HasPrepared(space)
      /\ \A i \in DOMAIN entries[space] : EntryInv(space, entries[space][i])
  BY DEF SetupInv, StageInv, HasPrepared
<1>2. IsList(entries[space]) /\ \A i \in DOMAIN entries[space] : EntryOK(entries[space][i])
  BY <1>1 DEF EntriesOK
<1>3. ASSUME NEW i \in DOMAIN entries[space], NEW e, e = entries[space][i]
      PROVE  DOMAIN e = Fields /\ (e.share # None => e.share \in DOMAIN sharelist) /\ Agrees(e, sharelist)
  <2>1. EntryOK(e) /\ EntryInv(space, e)
    BY <1>1, <1>2, <1>3
  <2>2. QED BY <1>1, <2>1 DEF EntryOK, EntryInv
<1>4. QED BY <1>2, <1>3 DEF WorkOK

(* Entries that differ in the memory they have only.                       *)
EntriesGrew ==
  \A z \in Spaces : /\ DOMAIN entries'[z] = DOMAIN entries[z]
                    /\ \A i \in DOMAIN entries[z] : Assigns(entries'[z][i], entries[z][i])

(* And when it ends, the space is settled or an entry is left.             *)
LEMMA AssignedStep ==
  ASSUME SetupInv, stage = "allocate", NEW v, WorkOK(v),
         Grew(entries[space], sharelist, v.es, v.shares),
         v.left = 0 => \A i \in DOMAIN v.es : Complete(space, v.es[i]),
         entries' = [entries EXCEPT ![space] = v.es], sharelist' = v.shares,
         IF v.left = 0 THEN Advance ELSE UNCHANGED <<stage, space>>
  PROVE  SetupInv' /\ EntriesGrew
<1>1. /\ StageInv /\ EntriesOK /\ space \in Spaces
      /\ \A z \in Spaces : \A i \in DOMAIN entries[z] : EntryInv(z, entries[z][i])
  BY DEF SetupInv, StageInv
<1>2. /\ DOMAIN entries = Spaces
      /\ \A z \in Spaces : IsList(entries[z]) /\ \A i \in DOMAIN entries[z] : EntryOK(entries[z][i])
  BY <1>1 DEF EntriesOK
<1>3. /\ stage' # "failed" /\ stage' \notin {"prepare", "populate"} /\ StageInv'
      /\ \A z \in Spaces :
           /\ HasPrepared(z) /\ HasPrepared(z)'
           /\ HasSettled(z)' => HasSettled(z) \/ (z = space /\ v.left = 0)
  <2>1. CASE v.left = 0
    <3>1. Advanced
      BY <1>1, <2>1, AdvanceIs
    <3>2. stage' \notin {"prepare", "populate"}
      BY <3>1 DEF Advanced
    <3>3. QED BY <2>1, <3>1, <3>2 DEF Advanced, HasPrepared
  <2>2. CASE v.left # 0
    <3>1. stage' = stage /\ space' = space
      BY <2>2
    <3>2. QED BY <1>1, <3>1 DEF StageInv, HasPrepared, HasSettled
  <2>3. QED BY <2>1, <2>2
<1>4. /\ DOMAIN entries' = Spaces /\ entries'[space] = v.es
      /\ \A z \in Spaces : z # space => entries'[z] = entries[z]
  BY <1>1, <1>2
<1>5. /\ DOMAIN v.es = DOMAIN entries[space]
      /\ \A i \in DOMAIN v.es : Assigns(v.es[i], entries[space][i])
      /\ DOMAIN sharelist' = DOMAIN sharelist
      /\ \A s \in DOMAIN sharelist : sharelist[s] # None => sharelist'[s] = sharelist[s]
  BY DEF Grew
<1>6. ASSUME NEW z \in Spaces, NEW i \in DOMAIN entries[z], NEW e, e = entries[z][i],
             NEW f, f = entries'[z][i]
      PROVE  EntryOK(f) /\ EntryInv(z, f)'
  <2>1. /\ EntryOK(e) /\ EntryInv(z, e) /\ IsAttached(z, e) /\ Fits(e)
        /\ e.region # None => e.memory # None
        /\ e.share # None => e.share \in DOMAIN sharelist
    BY <1>1, <1>2, <1>3, <1>6 DEF EntryInv
  <2>2. CASE z # space
    <3>1. f = e
      BY <1>4, <1>6, <2>2
    <3>2. Agrees(e, sharelist')
      <4>1. Agrees(e, sharelist)
        BY <2>1 DEF EntryInv
      <4>2. QED BY <1>5, <2>1, <4>1 DEF Agrees
    <3>3. HasSettled(z)' => Complete(z, e)
      BY <1>3, <2>1, <2>2 DEF EntryInv
    <3>4. QED BY <1>3, <1>5, <2>1, <3>1, <3>2, <3>3 DEF EntryInv
  <2>3. CASE z = space
    <3>1. f = v.es[i] /\ i \in DOMAIN v.es /\ Assigns(f, e)
      BY <1>4, <1>5, <1>6, <2>3
    <3>2. EntryOK(f) /\ IsAttached(z, f) /\ Fits(f) /\ (f.region # None => f.memory # None)
          /\ (f.share # None => f.share \in DOMAIN sharelist')
      <4>1. RangeOK(f)
        BY <2>1, <3>1, RangeOKIs DEF EntryOK, Assigns
      <4>2. Fits(f)
        BY <2>1, <3>1 DEF Fits, Length, Assigns
      <4>3. QED BY <1>5, <2>1, <3>1, <4>1, <4>2 DEF EntryOK, Assigns, IsAttached
    <3>3. Agrees(f, sharelist')
      BY <3>1 DEF WorkOK
    <3>4. HasSettled(z)' => Complete(z, f)
      <4>1. CASE v.left = 0
        BY <2>3, <3>1, <4>1
      <4>2. CASE HasSettled(z)
        <5>1. Complete(z, e)
          BY <2>1, <4>2 DEF EntryInv
        <5>2. QED BY <3>1, <5>1 DEF Assigns, Complete, Stores
      <4>3. QED BY <1>3, <4>1, <4>2
    <3>5. QED BY <1>3, <3>2, <3>3, <3>4 DEF EntryInv
  <2>4. QED BY <2>2, <2>3
<1>7. ASSUME NEW z \in Spaces PROVE DOMAIN entries'[z] = DOMAIN entries[z]
  BY <1>4, <1>5
<1>8. EntriesOK'
  <2>1. ASSUME NEW z \in Spaces
        PROVE  IsList(entries'[z]) /\ \A i \in DOMAIN entries'[z] : EntryOK(entries'[z][i])
    BY <1>2, <1>6, <1>7 DEF IsList
  <2>2. QED BY <1>4, <2>1 DEF EntriesOK
<1>9. ASSUME NEW z \in Spaces, NEW i \in DOMAIN entries'[z] PROVE EntryInv(z, entries[z][i])'
  <2>1. PICK f : f = entries'[z][i]
    OBVIOUS
  <2>2. EntryInv(z, f)'
    BY <1>6, <1>7, <2>1
  <2>3. QED BY <2>1, <2>2 DEF EntryInv, Agrees, Complete, Stores, IsAttached, Fits, HasPrepared, HasSettled
<1>10. EntriesGrew
  <2>1. ASSUME NEW z \in Spaces, NEW i \in DOMAIN entries[z] PROVE Assigns(entries'[z][i], entries[z][i])
    <3>1. CASE z = space
      BY <1>4, <1>5, <3>1
    <3>2. CASE z # space
      BY <1>2, <1>4, <3>2 DEF Assigns, EntryOK
    <3>3. QED BY <3>1, <3>2
  <2>2. QED BY <1>7, <2>1 DEF EntriesGrew
<1>11. QED BY <1>3, <1>8, <1>9, <1>10 DEF SetupInv

(* Memory that the driver supplied for an entry is given to the entries    *)
(* and shares it is for.                                                   *)
LEMMA HardcodedStepKeeps ==
  ASSUME SetupInv, AllocateHardcoded
  PROVE  SetupInv' /\ EntriesGrew
<1> DEFINE es     == entries[space]
           having == Keep([i \in DOMAIN es |-> i], {i \in DOMAIN es : es[i].memory # None})
           blocks == [k \in DOMAIN having |->
                        LET e == es[having[Len(having) + 1 - k]] IN Block(e.start, e.end, e.memory)]
           u == [es |-> es, shares |-> sharelist, left |-> 0]
           w == FoldLeft(LAMBDA v, b : block_assign_intersecting(v, space, b.start, b.end, b.data),
                         u, blocks)
           v == IF w.left = 0 THEN AssignShares(w, space) ELSE w
<1>1. stage = "allocate" /\ Assigned(v)
  BY Zenon DEF AllocateHardcoded
<1>2. /\ entries' = [entries EXCEPT ![space] = v.es] /\ sharelist' = v.shares
      /\ IF v.left = 0 THEN Advance ELSE UNCHANGED <<stage, space>>
  BY Zenon, <1>1 DEF Assigned
<1>3. DOMAIN u = WorkFields /\ u.es = entries[space] /\ u.shares = sharelist
  BY DEF WorkFields
<1>4. WorkOK(u)
  <2> HIDE DEF u
  <2>1. QED BY Zenon, <1>1, <1>3, WorkBegins
<1>5. PICK n \in Nat : DOMAIN blocks = 1 .. n
  <2>1. PICK m \in Nat : DOMAIN es = 1 .. m
    BY <1>4 DEF WorkOK, IsList
  <2>2. [i \in DOMAIN es |-> i] \in Seq(Nat)
    BY <2>1
  <2>3. having \in Seq(Nat)
    BY <2>2, KeepIs
  <2>4. Len(having) \in Nat /\ DOMAIN having = 1 .. Len(having)
    <3> HIDE DEF having
    <3>1. QED BY <2>3
  <2>5. QED BY <2>4
<1> HIDE DEF blocks, u
<1>6. w = HardcodedFold!Fold(space, 0, 0, 0, u, blocks)
  BY DEF FoldLeft, MapThenFoldSet, HardcodedFold!Fold, HardcodedFold!Last, HardcodedStep, Max
<1> HIDE DEF w
<1>7. Better(u, w)
  BY <1>4, <1>5, <1>6, BlocksAssigned
<1>8. Better(u, v) /\ (v.left = 0 => \A i \in DOMAIN v.es : Complete(space, v.es[i]))
  <2>1. CASE w.left = 0
    <3>1. v = block_assign_intersecting(w, space, 2^AddrBits, 0, Place(None, 0))
      BY <2>1 DEF AssignShares
    <3> HIDE DEF v
    <3>2. /\ Better(w, v)
          /\ v.left = 0 => \A i \in DOMAIN v.es : Complete(space, v.es[i])
      BY <1>7, <3>1, BlockAssigned DEF Better
    <3>3. QED BY <1>7, <3>2, GrewTwice DEF Better
  <2>2. CASE w.left # 0
    BY <1>7, <2>2
  <2>3. QED BY <2>1, <2>2
<1> HIDE DEF v
<1>9. QED BY <1>1, <1>2, <1>3, <1>8, AssignedStep DEF Better

(* A block is given to the entries it covers and their shares.             *)
LEMMA BlockStepKeeps ==
  ASSUME SetupInv, AllocateBlock
  PROVE  SetupInv' /\ EntriesGrew
<1> DEFINE c    == Span(entries[space])
           lo   == c.lo * MEMORY_BLOCK_CHUNK
           hi   == (c.hi + 1) * MEMORY_BLOCK_CHUNK - 1
           data == Place(Len(blocklist) + 1, 0)
           u == [es |-> entries[space], shares |-> sharelist, left |-> 0]
           v == block_assign_intersecting(u, space, lo, hi, data)
<1>1. stage = "allocate" /\ Assigned(v)
  BY DEF AllocateBlock
<1> HIDE DEF lo, hi, data, c
<1>2. /\ entries' = [entries EXCEPT ![space] = v.es] /\ sharelist' = v.shares
      /\ IF v.left = 0 THEN Advance ELSE UNCHANGED <<stage, space>>
  BY <1>1 DEF Assigned
<1>3. DOMAIN u = WorkFields /\ u.es = entries[space] /\ u.shares = sharelist
  BY DEF WorkFields
<1> HIDE DEF u
<1>4. WorkOK(u)
  BY <1>1, <1>3, WorkBegins
<1>5. Better(u, v) /\ (v.left = 0 => \A i \in DOMAIN v.es : Complete(space, v.es[i]))
  BY <1>4, BlockAssigned
<1> HIDE DEF v
<1>6. QED BY <1>1, <1>2, <1>3, <1>5, AssignedStep DEF Better

(* Every step keeps the invariant of the setup.                            *)
LEMMA SetupStep ==
  ASSUME SetupInv, [Next]_vars
  PROVE  SetupInv'
<1>1. CASE PrepareMap
  BY <1>1, PrepareStep
<1>2. CASE RegionError
  BY <1>2, LookingStep DEF RegionError
<1>3. CASE PopulateFromMap
  <2>1. /\ stage = "populate" /\ UNCHANGED <<entries, sharelist>>
        /\ \/ stage' = "failed" /\ space' = space
           \/ Advance
    BY <1>3 DEF PopulateFromMap
  <2>2. QED BY <2>1, LookingStep
<1>4. CASE AllocateHardcoded
  BY <1>4, HardcodedStepKeeps
<1>5. CASE AllocateBlock
  BY <1>5, BlockStepKeeps
<1>6. CASE LocateMemory
  BY <1>6, LookingStep DEF LocateMemory
<1>7. ASSUME NEW z, NEW ds, NEW e, NEW given, Install(z, ds, e, given) PROVE SetupInv'
  <2>1. stage = "initialized" /\ UNCHANGED <<space, entries, sharelist>>
        /\ (stage' = "failed" \/ stage' = stage)
    BY <1>7 DEF Install
  <2>2. QED BY <2>1, LookingStep
<1>8. CASE UNCHANGED vars
  <2>1. /\ UNCHANGED <<entries, sharelist>> /\ stage' = stage /\ space' = space
        /\ StageInv
    BY <1>8 DEF vars, SetupInv
  <2>2. StageInv' /\ \A z \in Spaces : (HasPrepared(z)' <=> HasPrepared(z)) /\ (HasSettled(z)' <=> HasSettled(z))
    BY <2>1 DEF StageInv, HasPrepared, HasSettled
  <2>3. QED BY <2>1, <2>2, SetupStays
<1>9. QED BY <1>1, <1>2, <1>3, <1>4, <1>5, <1>6, <1>7, <1>8 DEF Next

(* It holds before the first map is prepared.                              *)
LEMMA SetupStarts == Init => SetupInv
<1> SUFFICES ASSUME Init PROVE SetupInv
  OBVIOUS
<1>1. /\ stage = "prepare" /\ space = 1 /\ entries \in [Spaces -> Seq(Buckets)]
      /\ DOMAIN sharelist = {}
  <2>1. sharelist = << >> /\ entries \in Maps /\ stage = "prepare" /\ space = 1
    BY DEF Init
  <2>2. QED BY <2>1, MemorySetupAssumption
<1>2. StageInv
  BY <1>1, SpacesAre DEF StageInv, AllStages
<1>3. ASSUME NEW z \in Spaces
      PROVE  IsList(entries[z]) /\ \A i \in DOMAIN entries[z] : entries[z][i] \in Buckets
  <2>1. entries[z] \in Seq(Buckets)
    BY <1>1
  <2>2. Len(entries[z]) \in Nat /\ DOMAIN entries[z] = 1 .. Len(entries[z])
    BY <2>1
  <2>3. QED BY <2>1, <2>2 DEF IsList
<1>4. EntriesOK
  BY <1>1, <1>3, BucketsAre DEF EntriesOK
<1>5. ASSUME NEW z \in Spaces, NEW i \in DOMAIN entries[z] PROVE EntryInv(z, entries[z][i])
  <2>1. PICK e \in Buckets : e = entries[z][i]
    BY <1>3
  <2>2. ~HasPrepared(z) /\ ~HasSettled(z) /\ e.memory = None
    BY <1>1, SpacesAre, BucketsAre DEF HasPrepared, HasSettled
  <2>3. EntryInv(z, e)
    BY <2>1, <2>2 DEF EntryInv, Agrees
  <2>4. QED BY <2>1, <2>3
<1>6. QED BY <1>1, <1>2, <1>4, <1>5 DEF SetupInv

(* It holds throughout.                                                    *)
LEMMA SetupAlways == Spec => []SetupInv
<1>1. SetupInv /\ [Next]_vars => SetupInv'
  BY SetupStep
<1>2. QED BY <1>1, SetupStarts, PTL DEF Spec

(* All the buckets of a share use one memory, in whatever spaces they are. *)
THEOREM SharesHold == Spec => []SharesAgree
<1>1. SetupInv => SharesAgree
  <2> SUFFICES ASSUME SetupInv, stage \in {"locate", "initialized"},
                      NEW z \in Spaces, NEW i \in DOMAIN entries[z],
                      entries[z][i].share # None, entries[z][i].region = None
               PROVE  entries[z][i].memory = sharelist[entries[z][i].share] /\ entries[z][i].memory # None
    BY DEF SharesAgree
  <2>1. PICK e : e = entries[z][i]
    OBVIOUS
  <2>2. EntryInv(z, e) /\ HasSettled(z)
    BY <2>1 DEF SetupInv, HasSettled
  <2>3. QED BY <2>1, <2>2 DEF EntryInv, Agrees, Complete
<1>2. QED BY <1>1, SetupAlways, PTL

---------------------------------------------------------------------------------
(* The banks and the tables that map to them.                              *)

IsSeq(s) == \E S : s \in Seq(S)

(* A sequence, and the one with one more element.                          *)
Appended(r, s, x) ==
  /\ Len(s) \in Nat /\ DOMAIN s = 1 .. Len(s)
  /\ IsSeq(r) /\ Len(r) = Len(s) + 1 /\ DOMAIN r = 1 .. (Len(s) + 1)
  /\ r[Len(s) + 1] = x /\ \A i \in DOMAIN s : r[i] = s[i]

(* What is at the end of a list, and that the rest of it stays.            *)
LEMMA AppendIs ==
  ASSUME NEW s, IsSeq(s), NEW x
  PROVE  Appended(Append(s, x), s, x)
<1> DEFINE r == Append(s, x)
<1>1. PICK S : s \in Seq(S)
  BY DEF IsSeq
<1>2. s \in Seq(S \cup {x})
  BY <1>1
<1>3. r \in Seq(S \cup {x}) /\ Len(r) = Len(s) + 1
  BY <1>2
<1>4. Len(s) \in Nat /\ DOMAIN s = 1 .. Len(s) /\ DOMAIN r = 1 .. (Len(s) + 1)
  BY <1>1, <1>3
<1>5. r[Len(s) + 1] = x /\ \A i \in DOMAIN s : r[i] = s[i]
  BY <1>2, <1>4
<1>6. QED BY <1>3, <1>4, <1>5 DEF Appended, IsSeq

(* And the one with an element changed.                                    *)
LEMMA ChangeIs ==
  ASSUME NEW s, IsSeq(s), NEW r, DOMAIN r = DOMAIN s, NEW n,
         r = [s EXCEPT ![n] = r[n]]
  PROVE  IsSeq(r) /\ Len(r) = Len(s)
<1>1. PICK S : s \in Seq(S)
  BY DEF IsSeq
<1>2. s \in Seq(S \cup {r[n]}) /\ Len(s) \in Nat /\ DOMAIN s = 1 .. Len(s)
  BY <1>1
<1>3. r \in [1 .. Len(s) -> S \cup {r[n]}]
  BY <1>2
<1>4. r \in Seq(S \cup {r[n]}) /\ Len(r) = Len(s)
  BY <1>2, <1>3
<1>5. QED BY <1>4 DEF IsSeq

UpdateFields == {"b", "t", "last", "full"}
BankFields   == {"tag", "start", "end", "base", "reflist", "handler"}

(* An anonymous bank belongs to one space.                                 *)
BankOK(k) ==
  /\ DOMAIN k = BankFields
  /\ k.tag = None => \A z, y \in Spaces : References(k, z) /\ References(k, y) => z = y

(* An address is mapped to a bank that knows of the table.                 *)
MappedOK(b, t, z, d, x) ==
  LET n == t[z][d][x]
  IN  n # 0 => n \in DOMAIN b /\ <<z, d>> \in b[n].reflist

TableOK(b, t) ==
  /\ IsSeq(b) /\ \A n \in DOMAIN b : BankOK(b[n])
  /\ DOMAIN t = Spaces
  /\ \A z \in Spaces : DOMAIN t[z] = Directions /\ \A d \in Directions : DOMAIN t[z][d] = Addresses
  /\ \A z \in Spaces, d \in Directions, x \in Addresses : MappedOK(b, t, z, d, x)

UpdateOK(u) == DOMAIN u = UpdateFields /\ TableOK(u.b, u.t)

(* The banks a range and a tag, or the lack of one, may be mapped to.      *)
Matches(k, z, tag, e) ==
  IF tag # None THEN k.tag = tag
  ELSE k.tag = None /\ References(k, z) /\ k.start = e.start /\ k.end = e.end

(* A bank with more references, or with memory it had not.                 *)
Extends(k, j) ==
  /\ DOMAIN k = BankFields
  /\ k.tag = j.tag /\ k.start = j.start /\ k.end = j.end /\ j.reflist \subseteq k.reflist
  /\ j.base # None => k.base # None

(* The tables are the same but for the copies of the range e in space z.   *)
Apart(u, v, z, e) ==
  \A y \in Spaces, d \in Directions, x \in Addresses :
    y # z \/ x \notin Copies(e) => v.t[y][d][x] = u.t[y][d][x]

(* Mapping an entry to a bank adds the space to the references of that     *)
(* bank, leaves the other banks alone and maps nothing but the addresses   *)
(* of the entry.                                                           *)
LEMMA MapToIs ==
  ASSUME NEW u, UpdateOK(u), NEW z \in Spaces, NEW d \in Directions, NEW e,
         NEW n \in DOMAIN u.b, n # 0,
         u.b[n].tag = None => /\ u.b[n].start = e.start /\ u.b[n].end = e.end
                              /\ \A y \in Spaces : References(u.b[n], y) => y = z,
         NEW v, v = MapTo(u, z, d, n, e)
  PROVE  /\ UpdateOK(v) /\ v.last = u.last /\ v.full = u.full
         /\ DOMAIN v.b = DOMAIN u.b /\ Len(v.b) = Len(u.b)
         /\ \A m \in DOMAIN u.b : m # n => v.b[m] = u.b[m]
         /\ Extends(v.b[n], u.b[n]) /\ v.b[n].base = u.b[n].base
         /\ v.b[n].reflist = u.b[n].reflist \cup {<<z, d>>}
         /\ Apart(u, v, z, e)
<1> DEFINE h == [start |-> e.start, size |-> RoundedUp(e)]
           bank == u.b[n]
           k == [bank EXCEPT !.handler[z][d] = h, !.reflist = bank.reflist \cup {<<z, d>>}]
           row == [x \in Addresses |-> IF x \in Copies(e) THEN n ELSE u.t[z][d][x]]
<1>1. /\ DOMAIN u = UpdateFields /\ IsSeq(u.b) /\ \A m \in DOMAIN u.b : BankOK(u.b[m])
      /\ DOMAIN u.t = Spaces
      /\ \A y \in Spaces : DOMAIN u.t[y] = Directions /\ \A c \in Directions : DOMAIN u.t[y][c] = Addresses
      /\ \A y \in Spaces, c \in Directions, x \in Addresses : MappedOK(u.b, u.t, y, c, x)
  BY DEF UpdateOK, TableOK
<1>2. /\ DOMAIN v = UpdateFields /\ v.last = u.last /\ v.full = u.full
      /\ v.t = [u.t EXCEPT ![z][d] = row] /\ v.b = [u.b EXCEPT ![n] = k]
  <2>1. DOMAIN v = UpdateFields /\ v.last = u.last /\ v.full = u.full
    BY <1>1 DEF MapTo, UpdateFields
  <2>2. v.t = [u.t EXCEPT ![z][d] = row]
    BY <1>1 DEF MapTo, UpdateFields
  <2>3. v.b = [u.b EXCEPT ![n] = k]
    BY <1>1 DEF MapTo, UpdateFields
  <2>4. QED BY <2>1, <2>2, <2>3
<1>3. DOMAIN u.b[n] = BankFields
  BY <1>1 DEF BankOK
<1>4. /\ DOMAIN k = BankFields /\ k.tag = u.b[n].tag /\ k.start = u.b[n].start /\ k.end = u.b[n].end
      /\ k.base = u.b[n].base /\ k.reflist = u.b[n].reflist \cup {<<z, d>>}
  <2> HIDE DEF h
  <2>1. QED BY <1>3 DEF BankFields
<1> HIDE DEF k, row
<1>5. /\ DOMAIN v = UpdateFields /\ v.last = u.last /\ v.full = u.full
      /\ v.t = [u.t EXCEPT ![z][d] = row] /\ v.b = [u.b EXCEPT ![n] = k]
  BY <1>2
<1>6. /\ DOMAIN v.b = DOMAIN u.b /\ v.b[n] = k
      /\ \A m \in DOMAIN u.b : m # n => v.b[m] = u.b[m]
  BY <1>5
<1>7. /\ DOMAIN v.t = Spaces /\ v.t[z][d] = row
      /\ \A y \in Spaces : DOMAIN v.t[y] = Directions
      /\ \A y \in Spaces, c \in Directions : y # z \/ c # d => v.t[y][c] = u.t[y][c]
  BY <1>1, <1>5
<1>8. DOMAIN row = Addresses /\ \A x \in Addresses : row[x] = IF x \in Copies(e) THEN n ELSE u.t[z][d][x]
  BY DEF row
<1>9. IsSeq(v.b) /\ Len(v.b) = Len(u.b)
  BY <1>1, <1>5, <1>6, ChangeIs
<1>10. BankOK(k)
  <2>1. ASSUME k.tag = None, NEW y \in Spaces, References(k, y) PROVE y = z
    <3>1. PICK c \in Directions : <<y, c>> \in k.reflist
      BY <2>1 DEF References
    <3>2. CASE <<y, c>> \in u.b[n].reflist
      BY <1>4, <2>1, <3>2 DEF References
    <3>3. CASE <<y, c>> = <<z, d>>
      BY <3>3
    <3>4. QED BY <1>4, <3>1, <3>2, <3>3
  <2>2. QED BY <1>4, <2>1 DEF BankOK
<1>11. Apart(u, v, z, e)
  BY <1>7, <1>8 DEF Apart
<1>12. ASSUME NEW y \in Spaces, NEW c \in Directions, NEW x \in Addresses PROVE MappedOK(v.b, v.t, y, c, x)
  <2>1. MappedOK(u.b, u.t, y, c, x)
    BY <1>1
  <2>2. CASE y = z /\ c = d /\ x \in Copies(e)
    <3>1. v.t[y][c][x] = n
      BY <1>7, <1>8, <2>2
    <3>2. QED BY <1>4, <1>6, <2>2, <3>1 DEF MappedOK
  <2>3. CASE ~(y = z /\ c = d /\ x \in Copies(e))
    <3>1. v.t[y][c][x] = u.t[y][c][x]
      BY <1>7, <1>8, <2>3
    <3>2. CASE u.t[y][c][x] = n
      BY <1>4, <1>6, <2>1, <3>1, <3>2 DEF MappedOK
    <3>3. CASE u.t[y][c][x] # n
      BY <1>6, <2>1, <3>1, <3>3 DEF MappedOK
    <3>4. QED BY <3>2, <3>3
  <2>4. QED BY <2>2, <2>3
<1>13. TableOK(v.b, v.t)
  <2>1. \A m \in DOMAIN v.b : BankOK(v.b[m])
    BY <1>1, <1>6, <1>10
  <2>2. \A y \in Spaces, c \in Directions : DOMAIN v.t[y][c] = Addresses
    BY <1>1, <1>7, <1>8
  <2>3. QED BY <1>7, <1>9, <1>12, <2>1, <2>2 DEF TableOK
<1>14. Extends(v.b[n], u.b[n])
  BY <1>4, <1>6 DEF Extends
<1>15. QED BY <1>4, <1>5, <1>6, <1>9, <1>11, <1>13, <1>14 DEF UpdateOK

(* What mapping a range to a bank makes of the banks: the bank mapped to   *)
(* is the first that matches, a new one if none did, and no other changes. *)
Mapped(u, v, z, tag, e) ==
  /\ UpdateOK(v) /\ Apart(u, v, z, e)
  /\ \A m \in DOMAIN u.b :
       /\ m \in DOMAIN v.b /\ Extends(v.b[m], u.b[m])
       /\ v.b[m] = u.b[m] \/ Matches(u.b[m], z, tag, e)
  /\ ~v.full =>
       /\ v.last \in DOMAIN v.b /\ v.last = Min(BankNumbers(v, z, tag, e))
       /\ Matches(v.b[v.last], z, tag, e)
       /\ \A m \in DOMAIN v.b : m \in DOMAIN u.b \/ m = v.last
  /\ v.full => v.b = u.b

(* The banks of a list that match what is asked for.                       *)
LEMMA NumbersAre ==
  ASSUME NEW u, IsSeq(u.b), NEW z, NEW tag, NEW e
  PROVE  /\ BankNumbers(u, z, tag, e) = {n \in DOMAIN u.b : Matches(u.b[n], z, tag, e)}
         /\ BankNumbers(u, z, tag, e) \subseteq Nat
         /\ 0 \notin DOMAIN u.b /\ Len(u.b) \in Nat /\ DOMAIN u.b = 1 .. Len(u.b)
<1>1. Len(u.b) \in Nat /\ DOMAIN u.b = 1 .. Len(u.b)
  BY DEF IsSeq
<1>2. QED BY <1>1 DEF BankNumbers, Matches

(* A bank that is left alone is extended by nothing.                       *)
LEMMA ExtendsSelf ==
  ASSUME NEW k, BankOK(k)
  PROVE  Extends(k, k)
BY DEF Extends, BankOK

(* A bank that was found.                                                  *)
LEMMA FoundIs ==
  ASSUME NEW u, UpdateOK(u), NEW z \in Spaces, NEW d \in Directions, NEW tag, NEW e, ~u.full,
         BankNumbers(u, z, tag, e) # {}, NEW v, v = MapBank(u, z, d, tag, e)
  PROVE  Mapped(u, v, z, tag, e) /\ ~v.full
<1> DEFINE found == BankNumbers(u, z, tag, e)
           n == Min(found)
           w == MapTo(u, z, d, n, e)
<1>1. /\ found = {m \in DOMAIN u.b : Matches(u.b[m], z, tag, e)} /\ found \subseteq Nat
      /\ 0 \notin DOMAIN u.b /\ \A m \in DOMAIN u.b : BankOK(u.b[m])
  BY NumbersAre DEF UpdateOK, TableOK
<1>2. v = [w EXCEPT !.last = n]
  BY DEF MapBank
<1>3. n \in found
  <2>1. found # {}
    OBVIOUS
  <2> HIDE DEF found
  <2>2. QED BY <1>1, <2>1, MinIsLeast
<1> HIDE DEF n, found
<1>4. n \in DOMAIN u.b /\ n # 0 /\ Matches(u.b[n], z, tag, e) /\ BankOK(u.b[n])
  BY <1>1, <1>3
<1>5. u.b[n].tag = None => /\ u.b[n].start = e.start /\ u.b[n].end = e.end
                           /\ \A y \in Spaces : References(u.b[n], y) => y = z
  BY <1>4 DEF Matches, BankOK
<1>6. /\ UpdateOK(w) /\ w.last = u.last /\ w.full = u.full
      /\ DOMAIN w.b = DOMAIN u.b
      /\ \A m \in DOMAIN u.b : m # n => w.b[m] = u.b[m]
      /\ Extends(w.b[n], u.b[n])
      /\ Apart(u, w, z, e)
  BY <1>4, <1>5, MapToIs
<1> HIDE DEF w
<1>7. DOMAIN v = UpdateFields /\ v.last = n /\ v.b = w.b /\ v.t = w.t /\ v.full = w.full
  BY <1>2, <1>6 DEF UpdateOK, UpdateFields
<1>8. UpdateOK(v) /\ Apart(u, v, z, e)
  BY <1>6, <1>7 DEF UpdateOK, Apart
<1>9. Matches(v.b[n], z, tag, e)
  BY <1>4, <1>6, <1>7 DEF Matches, Extends, References
<1>10. BankNumbers(v, z, tag, e) = found
  <2>1. BankNumbers(v, z, tag, e) = {m \in DOMAIN v.b : Matches(v.b[m], z, tag, e)}
    BY <1>8, NumbersAre DEF UpdateOK, TableOK
  <2>2. \A m \in DOMAIN u.b : Matches(v.b[m], z, tag, e) <=> Matches(u.b[m], z, tag, e)
    BY <1>4, <1>6, <1>7, <1>9
  <2>3. QED BY <1>1, <1>6, <1>7, <2>1, <2>2
<1>11. \A m \in DOMAIN u.b : Extends(v.b[m], u.b[m])
  BY <1>1, <1>6, <1>7, ExtendsSelf
<1>12. QED BY <1>4, <1>6, <1>7, <1>8, <1>9, <1>10, <1>11 DEF Mapped, n

(* A new bank.                                                             *)
LEMMA CreatedIs ==
  ASSUME NEW u, UpdateOK(u), NEW z \in Spaces, NEW d \in Directions, NEW tag, NEW e, ~u.full,
         BankNumbers(u, z, tag, e) = {}, Len(u.b) # STATIC_BANKMAX,
         NEW v, v = MapBank(u, z, d, tag, e)
  PROVE  Mapped(u, v, z, tag, e) /\ ~v.full
<1> DEFINE k == NewBank(tag, e)
           n == Len(u.b) + 1
           s == Append(u.b, k)
           a == [u EXCEPT !.b = s]
           w == MapTo(a, z, d, n, e)
<1>1. /\ BankNumbers(u, z, tag, e) = {m \in DOMAIN u.b : Matches(u.b[m], z, tag, e)}
      /\ 0 \notin DOMAIN u.b /\ Len(u.b) \in Nat /\ DOMAIN u.b = 1 .. Len(u.b)
  BY NumbersAre DEF UpdateOK, TableOK
<1>2. /\ DOMAIN u = UpdateFields /\ IsSeq(u.b) /\ \A m \in DOMAIN u.b : BankOK(u.b[m])
      /\ DOMAIN u.t = Spaces
      /\ \A y \in Spaces : DOMAIN u.t[y] = Directions /\ \A c \in Directions : DOMAIN u.t[y][c] = Addresses
      /\ \A y \in Spaces, c \in Directions, x \in Addresses : MappedOK(u.b, u.t, y, c, x)
  BY DEF UpdateOK, TableOK
<1>3. v = [w EXCEPT !.last = n]
  BY DEF MapBank
<1>4. /\ IsSeq(s) /\ DOMAIN s = 1 .. n /\ s[n] = k /\ \A i \in DOMAIN u.b : s[i] = u.b[i]
  <2>1. Appended(s, u.b, k)
    <3> HIDE DEF k
    <3>1. QED BY <1>2, AppendIs
  <2> HIDE DEF k, s
  <2>2. QED BY <2>1 DEF Appended
<1>5. n # 0 /\ n \in DOMAIN s /\ n \notin DOMAIN u.b /\ \A m \in DOMAIN s : m = n \/ m \in DOMAIN u.b
  <2>1. n # 0 /\ n \in 1 .. n /\ n \notin DOMAIN u.b /\ \A m \in 1 .. n : m = n \/ m \in DOMAIN u.b
    BY <1>1
  <2> HIDE DEF n, s
  <2>2. QED BY <1>4, <2>1
<1>6. \A m \in DOMAIN u.b : m \in DOMAIN s
  <2>1. \A m \in DOMAIN u.b : m \in 1 .. n
    BY <1>1
  <2> HIDE DEF n, s
  <2>2. QED BY <1>4, <2>1
<1>7. /\ DOMAIN k = BankFields /\ k.tag = tag /\ k.start = e.start /\ k.end = e.end
      /\ k.base = None /\ k.reflist = {}
  BY DEF NewBank, BankFields
<1>8. BankOK(k) /\ \A y : ~References(k, y)
  BY <1>7 DEF BankOK, References
<1> HIDE DEF k, s, n
<1>9. DOMAIN a = UpdateFields /\ a.b = s /\ a.t = u.t /\ a.last = u.last /\ a.full = u.full
  BY <1>2 DEF UpdateFields
<1> HIDE DEF a
<1>10. UpdateOK(a)
  <2>1. \A m \in DOMAIN s : BankOK(s[m])
    BY <1>2, <1>4, <1>5, <1>8
  <2>2. ASSUME NEW y \in Spaces, NEW c \in Directions, NEW x \in Addresses PROVE MappedOK(a.b, a.t, y, c, x)
    <3>1. MappedOK(u.b, u.t, y, c, x)
      BY <1>2
    <3>2. QED BY <1>4, <1>6, <1>9, <3>1 DEF MappedOK
  <2>3. TableOK(a.b, a.t)
    BY <1>2, <1>4, <1>9, <2>1, <2>2 DEF TableOK
  <2>4. QED BY <1>9, <2>3 DEF UpdateOK
<1>11. /\ UpdateOK(w) /\ w.full = a.full
       /\ DOMAIN w.b = DOMAIN a.b
       /\ \A m \in DOMAIN a.b : m # n => w.b[m] = a.b[m]
       /\ Extends(w.b[n], a.b[n]) /\ w.b[n].reflist = a.b[n].reflist \cup {<<z, d>>}
       /\ Apart(a, w, z, e)
  <2>1. n \in DOMAIN a.b /\ n # 0 /\ a.b[n] = k
    BY <1>4, <1>5, <1>9
  <2>2. a.b[n].tag = None => /\ a.b[n].start = e.start /\ a.b[n].end = e.end
                             /\ \A y \in Spaces : References(a.b[n], y) => y = z
    BY <1>7, <1>8, <2>1
  <2>3. QED BY <1>10, <2>1, <2>2, MapToIs
<1> HIDE DEF w
<1>12. DOMAIN v = UpdateFields /\ v.last = n /\ v.b = w.b /\ v.t = w.t /\ v.full = w.full
  BY <1>3, <1>11 DEF UpdateOK, UpdateFields
<1>13. UpdateOK(v) /\ Apart(u, v, z, e)
  BY <1>9, <1>11, <1>12 DEF UpdateOK, Apart
<1>14. /\ DOMAIN v.b = DOMAIN s
       /\ \A m \in DOMAIN u.b : v.b[m] = u.b[m]
       /\ Matches(v.b[n], z, tag, e)
  <2>1. DOMAIN v.b = DOMAIN s /\ \A m \in DOMAIN u.b : v.b[m] = u.b[m]
    BY <1>4, <1>5, <1>6, <1>9, <1>11, <1>12
  <2>2. /\ v.b[n].tag = tag /\ v.b[n].start = e.start /\ v.b[n].end = e.end
        /\ <<z, d>> \in v.b[n].reflist
    BY <1>4, <1>7, <1>9, <1>11, <1>12 DEF Extends
  <2>3. QED BY <2>1, <2>2 DEF Matches, References
<1>15. v.last = Min(BankNumbers(v, z, tag, e))
  <2>1. BankNumbers(v, z, tag, e) = {m \in DOMAIN v.b : Matches(v.b[m], z, tag, e)}
        /\ BankNumbers(v, z, tag, e) \subseteq Nat
    BY <1>13, NumbersAre DEF UpdateOK, TableOK
  <2>2. BankNumbers(v, z, tag, e) = {n}
    BY <1>1, <1>5, <1>14, <2>1
  <2>3. Min({n}) = n
    BY <2>1, <2>2, MinIsLeast
  <2>4. QED BY <1>12, <2>2, <2>3
<1>16. \A m \in DOMAIN u.b : Extends(v.b[m], u.b[m])
  BY <1>2, <1>14, ExtendsSelf
<1>17. QED BY <1>5, <1>6, <1>9, <1>11, <1>12, <1>13, <1>14, <1>15, <1>16 DEF Mapped

(* bank_find_or_allocate and map_range.                                    *)
LEMMA MapBankIs ==
  ASSUME NEW u, UpdateOK(u), NEW z \in Spaces, NEW d \in Directions, NEW tag, NEW e, ~u.full,
         NEW v, v = MapBank(u, z, d, tag, e)
  PROVE  Mapped(u, v, z, tag, e)
<1>1. CASE BankNumbers(u, z, tag, e) # {}
  BY <1>1, FoundIs
<1>2. CASE BankNumbers(u, z, tag, e) = {} /\ Len(u.b) # STATIC_BANKMAX
  BY <1>2, CreatedIs
<1>3. CASE BankNumbers(u, z, tag, e) = {} /\ Len(u.b) = STATIC_BANKMAX
  <2>1. v = [u EXCEPT !.full = TRUE]
    BY <1>3 DEF MapBank
  <2>2. DOMAIN v = UpdateFields /\ v.b = u.b /\ v.t = u.t /\ v.full = TRUE
    BY <2>1 DEF UpdateOK, UpdateFields
  <2>3. UpdateOK(v) /\ Apart(u, v, z, e)
    BY <2>2 DEF UpdateOK, Apart
  <2>4. \A m \in DOMAIN u.b : Extends(v.b[m], u.b[m])
    BY <2>2, ExtendsSelf DEF UpdateOK, TableOK
  <2>5. QED BY <2>2, <2>3, <2>4 DEF Mapped
<1>4. QED BY <1>1, <1>2, <1>3

(* Memory given to a bank.                                                 *)
LEMMA SetBaseIs ==
  ASSUME NEW u, UpdateOK(u), NEW n \in DOMAIN u.b, NEW p, NEW v, v = set_base(u, n, p)
  PROVE  /\ UpdateOK(v) /\ v.t = u.t /\ v.last = u.last /\ v.full = u.full
         /\ DOMAIN v.b = DOMAIN u.b /\ \A m \in DOMAIN u.b : m # n => v.b[m] = u.b[m]
         /\ DOMAIN v.b[n] = BankFields /\ v.b[n].base = p
         /\ v.b[n].tag = u.b[n].tag /\ v.b[n].start = u.b[n].start /\ v.b[n].end = u.b[n].end
         /\ v.b[n].reflist = u.b[n].reflist
<1> DEFINE k == [u.b[n] EXCEPT !.base = p]
<1>1. /\ DOMAIN u = UpdateFields /\ IsSeq(u.b) /\ \A m \in DOMAIN u.b : BankOK(u.b[m])
      /\ DOMAIN u.t = Spaces
      /\ \A y \in Spaces : DOMAIN u.t[y] = Directions /\ \A c \in Directions : DOMAIN u.t[y][c] = Addresses
      /\ \A y \in Spaces, c \in Directions, x \in Addresses : MappedOK(u.b, u.t, y, c, x)
  BY DEF UpdateOK, TableOK
<1>2. v = [u EXCEPT !.b[n] = k]
  BY DEF set_base
<1>3. DOMAIN u.b[n] = BankFields
  BY <1>1 DEF BankOK
<1>4. /\ DOMAIN k = BankFields /\ k.tag = u.b[n].tag /\ k.start = u.b[n].start /\ k.end = u.b[n].end
      /\ k.base = p /\ k.reflist = u.b[n].reflist
  BY <1>3 DEF BankFields
<1> HIDE DEF k
<1>5. /\ DOMAIN v = UpdateFields /\ v.t = u.t /\ v.last = u.last /\ v.full = u.full
      /\ v.b = [u.b EXCEPT ![n] = k]
  BY <1>1, <1>2 DEF UpdateFields
<1>6. /\ DOMAIN v.b = DOMAIN u.b /\ v.b[n] = k
      /\ \A m \in DOMAIN u.b : m # n => v.b[m] = u.b[m]
  BY <1>5
<1>7. IsSeq(v.b)
  BY <1>1, <1>5, <1>6, ChangeIs
<1>8. BankOK(k)
  BY <1>1, <1>4 DEF BankOK, References
<1>9. ASSUME NEW y \in Spaces, NEW c \in Directions, NEW x \in Addresses PROVE MappedOK(v.b, v.t, y, c, x)
  <2>1. MappedOK(u.b, u.t, y, c, x)
    BY <1>1
  <2>2. \A m \in DOMAIN u.b : /\ v.b[m].reflist = u.b[m].reflist /\ v.b[m].tag = u.b[m].tag
                              /\ v.b[m].start = u.b[m].start /\ v.b[m].end = u.b[m].end
    BY <1>4, <1>6
  <2>3. QED BY <1>5, <1>6, <2>1, <2>2 DEF MappedOK
<1>10. TableOK(v.b, v.t)
  BY <1>1, <1>5, <1>6, <1>7, <1>8, <1>9 DEF TableOK
<1>11. QED BY <1>4, <1>5, <1>6, <1>10 DEF UpdateOK

(* What is mapped stays mapped when its bank gets memory, if it had none or*)
(* gets some that is not None.                                             *)
LEMMA BackedIs ==
  ASSUME NEW u, UpdateOK(u), NEW w, NEW z \in Spaces, NEW e, Mapped(u, w, z, None, e), ~w.full,
         NEW p, w.b[w.last].base = None \/ p # None, NEW v, v = set_base(w, w.last, p)
  PROVE  Mapped(u, v, z, None, e) /\ ~v.full
<1> DEFINE n == w.last
<1>1. /\ UpdateOK(w) /\ Apart(u, w, z, e)
      /\ \A m \in DOMAIN u.b :
           /\ m \in DOMAIN w.b /\ Extends(w.b[m], u.b[m])
           /\ w.b[m] = u.b[m] \/ Matches(u.b[m], z, None, e)
      /\ n \in DOMAIN w.b /\ n = Min(BankNumbers(w, z, None, e)) /\ Matches(w.b[n], z, None, e)
      /\ \A m \in DOMAIN w.b : m \in DOMAIN u.b \/ m = n
  BY DEF Mapped
<1> HIDE DEF n
<1>2. /\ UpdateOK(v) /\ v.t = w.t /\ v.last = n /\ v.full = w.full
      /\ DOMAIN v.b = DOMAIN w.b /\ \A m \in DOMAIN w.b : m # n => v.b[m] = w.b[m]
      /\ DOMAIN v.b[n] = BankFields /\ v.b[n].base = p
      /\ v.b[n].tag = w.b[n].tag /\ v.b[n].start = w.b[n].start /\ v.b[n].end = w.b[n].end
      /\ v.b[n].reflist = w.b[n].reflist
  BY <1>1, SetBaseIs DEF n
<1>3. \A m \in DOMAIN w.b : Matches(v.b[m], z, None, e) <=> Matches(w.b[m], z, None, e)
  BY <1>2 DEF Matches, References
<1>4. BankNumbers(v, z, None, e) = BankNumbers(w, z, None, e)
  <2>1. BankNumbers(v, z, None, e) = {m \in DOMAIN v.b : Matches(v.b[m], z, None, e)}
    BY <1>2, NumbersAre DEF UpdateOK, TableOK
  <2>2. BankNumbers(w, z, None, e) = {m \in DOMAIN w.b : Matches(w.b[m], z, None, e)}
    BY <1>1, NumbersAre DEF UpdateOK, TableOK
  <2>3. QED BY <1>2, <1>3, <2>1, <2>2
<1>5. Apart(u, v, z, e)
  BY <1>1, <1>2 DEF Apart
<1>6. ASSUME NEW m \in DOMAIN u.b
      PROVE  /\ m \in DOMAIN v.b /\ Extends(v.b[m], u.b[m])
             /\ v.b[m] = u.b[m] \/ Matches(u.b[m], z, None, e)
  <2>1. /\ m \in DOMAIN w.b /\ Extends(w.b[m], u.b[m])
        /\ w.b[m] = u.b[m] \/ Matches(u.b[m], z, None, e)
    BY <1>1
  <2>2. CASE m # n
    BY <1>2, <2>1, <2>2
  <2>3. CASE m = n
    <3>1. Extends(v.b[m], u.b[m])
      <4>1. u.b[m].base # None => p # None
        BY <2>1, <2>3 DEF Extends, n
      <4>2. QED BY <1>2, <2>1, <2>3, <4>1 DEF Extends
    <3>2. Matches(u.b[m], z, None, e)
      BY <1>1, <2>1, <2>3
    <3>3. QED BY <1>2, <2>1, <3>1, <3>2
  <2>4. QED BY <2>2, <2>3
<1>7. Matches(v.b[n], z, None, e)
  BY <1>1, <1>3
<1>8. QED BY <1>1, <1>2, <1>4, <1>5, <1>6, <1>7 DEF Mapped

(* RAM is mapped at its addresses and to a bank of its own range, with the *)
(* memory it is given or none.                                             *)
LEMMA InstallRamIs ==
  ASSUME NEW u, UpdateOK(u), NEW z \in Spaces, NEW d \in Directions, NEW e, NEW given, ~u.full,
         NEW v, v = InstallRam(u, z, d, e, given)
  PROVE  Mapped(u, v, z, None, e)
<1> DEFINE w == MapBank(u, z, d, None, e)
<1>1. Mapped(u, w, z, None, e)
  BY MapBankIs
<1>2. /\ w.full => v = w
      /\ ~w.full =>
           \/ v = w
           \/ given # None /\ v = set_base(w, w.last, given)
           \/ w.b[w.last].base = None /\ v = set_base(w, w.last, find_backing_memory(z, e))
  BY DEF InstallRam
<1> HIDE DEF w
<1>3. QED BY <1>1, <1>2, BackedIs

(* For the other direction the same bank is found.                         *)
LEMMA FoundAgain ==
  ASSUME NEW u, UpdateOK(u), NEW z \in Spaces, NEW d \in Directions, NEW e, NEW given, ~u.full,
         u.last \in DOMAIN u.b, u.last = Min(BankNumbers(u, z, None, e)),
         Matches(u.b[u.last], z, None, e),
         NEW v, v = InstallRam(u, z, d, e, given)
  PROVE  ~v.full /\ v.last = u.last
<1> DEFINE w == MapBank(u, z, d, None, e)
           n == u.last
<1>1. BankNumbers(u, z, None, e) = {m \in DOMAIN u.b : Matches(u.b[m], z, None, e)}
  BY NumbersAre DEF UpdateOK, TableOK
<1>2. BankNumbers(u, z, None, e) # {}
  BY <1>1
<1>3. Mapped(u, w, z, None, e) /\ ~w.full
  BY <1>2, FoundIs
<1>4. w = [MapTo(u, z, d, n, e) EXCEPT !.last = n]
  BY <1>2 DEF MapBank
<1>5. w.last = n
  <2>1. UpdateOK(MapTo(u, z, d, n, e))
    <3>1. BankOK(u.b[n]) /\ n # 0
      BY NumbersAre DEF UpdateOK, TableOK
    <3>2. u.b[n].tag = None => /\ u.b[n].start = e.start /\ u.b[n].end = e.end
                               /\ \A y \in Spaces : References(u.b[n], y) => y = z
      BY <3>1 DEF Matches, BankOK
    <3>3. QED BY <3>1, <3>2, MapToIs
  <2>2. QED BY <1>4, <2>1 DEF UpdateOK, UpdateFields
<1>6. \/ v = w
      \/ \E p : v = set_base(w, w.last, p)
  BY DEF InstallRam
<1> HIDE DEF w
<1>7. CASE v = w
  BY <1>3, <1>5, <1>7
<1>8. ASSUME NEW p, v = set_base(w, w.last, p) PROVE ~v.full /\ v.last = n
  <2>1. UpdateOK(w) /\ w.last \in DOMAIN w.b
    BY <1>3 DEF Mapped
  <2>2. v.last = w.last /\ v.full = w.full
    BY <1>8, <2>1, SetBaseIs
  <2>3. QED BY <1>3, <1>5, <2>2
<1>9. QED BY <1>6, <1>7, <1>8

(* Mapping the same entry for reading and for writing is mapping it.       *)
LEMMA MappedTwice ==
  ASSUME NEW u, NEW v, NEW w, NEW z, NEW e, Mapped(u, v, z, None, e), ~v.full,
         Mapped(v, w, z, None, e), ~w.full, w.last = v.last
  PROVE  Mapped(u, w, z, None, e)
<1>1. ASSUME NEW m \in DOMAIN u.b
      PROVE  /\ m \in DOMAIN w.b /\ Extends(w.b[m], u.b[m])
             /\ w.b[m] = u.b[m] \/ Matches(u.b[m], z, None, e)
  <2>1. /\ m \in DOMAIN v.b /\ Extends(v.b[m], u.b[m])
        /\ v.b[m] = u.b[m] \/ Matches(u.b[m], z, None, e)
    BY DEF Mapped
  <2>2. /\ m \in DOMAIN w.b /\ Extends(w.b[m], v.b[m])
        /\ w.b[m] = v.b[m] \/ Matches(v.b[m], z, None, e)
    BY <2>1 DEF Mapped
  <2>3. Extends(w.b[m], u.b[m])
    BY <2>1, <2>2 DEF Extends
  <2>4. QED BY <2>1, <2>2, <2>3
<1>2. Apart(u, w, z, e)
  BY DEF Mapped, Apart
<1>3. \A m \in DOMAIN w.b : m \in DOMAIN u.b \/ m = w.last
  BY DEF Mapped
<1>4. QED BY <1>1, <1>2, <1>3 DEF Mapped

(* RAM installed for reading, for writing or for both.                     *)
LEMMA PutsAre ==
  ASSUME NEW u, UpdateOK(u), ~u.full, NEW z \in Spaces, NEW e, NEW given,
         NEW ds \in {{"read"}, {"write"}, Directions},
         NEW v, v = (IF "read" \in ds /\ ~u.full THEN InstallRam(u, z, "read", e, given) ELSE u),
         NEW w, w = (IF "write" \in ds /\ ~v.full THEN InstallRam(v, z, "write", e, given) ELSE v)
  PROVE  Mapped(u, w, z, None, e)
<1>1. "read" \in Directions /\ "write" \in Directions
  BY DEF Directions
<1>2. CASE ds = {"write"}
  <2>1. v = u /\ w = InstallRam(u, z, "write", e, given)
    BY <1>2
  <2>2. QED BY <1>1, <2>1, InstallRamIs
<1>3. CASE "read" \in ds
  <2>1. v = InstallRam(u, z, "read", e, given)
    BY <1>3
  <2>2. Mapped(u, v, z, None, e)
    BY <1>1, <2>1, InstallRamIs
  <2>3. CASE w = v
    BY <2>2, <2>3
  <2>4. CASE ~v.full /\ w = InstallRam(v, z, "write", e, given)
    <3>1. Mapped(v, w, z, None, e)
      BY <1>1, <2>2, <2>4, InstallRamIs DEF Mapped
    <3>2. ~w.full /\ w.last = v.last
      <4>1. /\ UpdateOK(v) /\ v.last \in DOMAIN v.b /\ v.last = Min(BankNumbers(v, z, None, e))
            /\ Matches(v.b[v.last], z, None, e)
        BY <2>2, <2>4 DEF Mapped
      <4>2. QED BY <1>1, <2>4, <4>1, FoundAgain
    <3>3. QED BY <2>2, <2>4, <3>1, <3>2, MappedTwice
  <2>5. QED BY <2>3, <2>4
<1>4. QED BY <1>1, <1>2, <1>3

(* install_ram_generic: the tables elsewhere are left alone, and so are    *)
(* all banks but an anonymous one with the range, which is backed.         *)
LEMMA InstallIs ==
  ASSUME TableOK(banklist, table), IsSeq(blocklist), NEW z \in Spaces,
         NEW ds \in {{"read"}, {"write"}, Directions}, NEW e, NEW given, Install(z, ds, e, given)
  PROVE  \E f : /\ Mapped(Current, f, z, None, e) /\ banklist' = f.b /\ table' = f.t
                /\ f.full => stage' = "failed"
                /\ ~f.full => stage' = stage /\ f.b[f.last].base # None
<1> DEFINE v == IF "read" \in ds /\ ~Current.full THEN InstallRam(Current, z, "read", e, given) ELSE Current
           u == IF "write" \in ds /\ ~v.full THEN InstallRam(v, z, "write", e, given) ELSE v
           new == ~u.full /\ u.b[u.last].base = None
           p   == Place(Len(blocklist) + 1, 0)
<1>1. /\ banklist' = IF new THEN set_base(u, u.last, p).b ELSE u.b
      /\ table' = u.t
      /\ stage' = IF u.full THEN "failed" ELSE stage
  BY DEF Install
<1>2. UpdateOK(Current) /\ ~Current.full /\ Current.b = banklist /\ Current.t = table
  <2>1. DOMAIN Current = UpdateFields /\ Current.b = banklist /\ Current.t = table /\ Current.full = FALSE
    BY DEF Current, UpdateFields
  <2>2. QED BY <2>1 DEF UpdateOK
<1>3. Mapped(Current, u, z, None, e)
  BY <1>2, PutsAre
<1>4. p # None
  <2>1. Len(blocklist) \in Nat
    BY DEF IsSeq
  <2>2. QED BY <2>1, MemorySetupAssumption DEF Place
<1> HIDE DEF u, v, p
<1>5. CASE new
  <2> DEFINE f == set_base(u, u.last, p)
  <2>1. u.last \in DOMAIN u.b /\ UpdateOK(u)
    BY <1>3, <1>5 DEF Mapped
  <2>2. Mapped(Current, f, z, None, e) /\ ~f.full
    BY <1>2, <1>3, <1>5, BackedIs
  <2>3. f.t = u.t /\ f.last = u.last /\ f.b[u.last].base = p
    BY <2>1, SetBaseIs
  <2>4. banklist' = f.b /\ table' = f.t /\ stage' = stage
    BY <1>1, <1>5, <2>3
  <2> HIDE DEF f
  <2>5. QED BY <1>4, <2>2, <2>3, <2>4
<1>6. CASE ~new
  BY <1>1, <1>3, <1>6
<1>7. QED BY <1>5, <1>6

(* What an access elsewhere reaches is as before, unless it is to another  *)
(* copy of the bank that was found.                                        *)
LEMMA ReachStays ==
  ASSUME TableOK(banklist, table), IsSeq(blocklist), NEW z \in Spaces,
         NEW ds \in {{"read"}, {"write"}, Directions}, NEW e, NEW given, Install(z, ds, e, given),
         NEW y \in Spaces, NEW d \in Directions, NEW x \in Addresses,
         y # z \/ (x \notin Copies(e) /\ ~CopyOf(z, d, x, e))
  PROVE  Reach(y, d, x)' = Reach(y, d, x)
<1>1. PICK f : Mapped(Current, f, z, None, e) /\ banklist' = f.b /\ table' = f.t
  BY InstallIs
<1>2. Current.b = banklist /\ Current.t = table
  BY DEF Current
<1> DEFINE n == table[y][d][x]
<1>3. table'[y][d][x] = n
  BY <1>1, <1>2 DEF Mapped, Apart
<1>4. CASE n = 0
  BY <1>3, <1>4 DEF Reach
<1>5. CASE n # 0
  <2>1. n \in DOMAIN banklist /\ <<y, d>> \in banklist[n].reflist /\ BankOK(banklist[n])
    BY <1>5 DEF TableOK, MappedOK
  <2>2. banklist'[n] = banklist[n] \/ Matches(banklist[n], z, None, e)
    BY <1>1, <1>2, <2>1 DEF Mapped
  <2>3. ASSUME Matches(banklist[n], z, None, e) PROVE FALSE
    <3>1. y = z
      BY <2>1, <2>3 DEF Matches, BankOK, References
    <3>2. CopyOf(z, d, x, e)
      BY <1>5, <2>3, <3>1 DEF Matches, CopyOf
    <3>3. QED BY <3>1, <3>2
  <2>4. banklist'[n] = banklist[n]
    BY <2>2, <2>3
  <2>5. QED BY <1>3, <2>4 DEF Reach
<1>6. QED BY <1>4, <1>5

---------------------------------------------------------------------------------
(* Where an anonymous bank without memory comes from: an entry of RAM or   *)
(* ROM with its range, in a space that refers to it; if the memory of the  *)
(* space has been located (L), ROM that straddles the end of its region.   *)

Origin(k, z, e) ==
  /\ e.start = k.start /\ e.end = k.end /\ References(k, z)
  /\ e.write = "RAM" \/ e.read \in {"RAM", "ROM"}

Sourced(b, m, L) ==
  \A n \in DOMAIN b : b[n].tag = None /\ b[n].base = None =>
    \E z \in Spaces : \E i \in DOMAIN m[z] : Origin(b[n], z, m[z][i]) /\ (z \in L => Straddles(z, m[z][i]))

(* A bank has the origin it had when references are added to it.           *)
LEMMA OriginExtends ==
  ASSUME NEW k, NEW j, Extends(k, j), NEW z, NEW e, Origin(j, z, e)
  PROVE  Origin(k, z, e)
BY DEF Extends, Origin, References

(* A bank made for an entry that is there has that entry for its origin.   *)
LEMMA MappedSourced ==
  ASSUME NEW u, NEW v, NEW z \in Spaces, NEW tag, NEW m, NEW i \in DOMAIN m[z], NEW e, e = m[z][i],
         Mapped(u, v, z, tag, e), NEW L, z \notin L, Sourced(u.b, m, L),
         tag = None => e.write = "RAM" \/ e.read \in {"RAM", "ROM"}
  PROVE  Sourced(v.b, m, L)
<1> SUFFICES ASSUME NEW n \in DOMAIN v.b, v.b[n].tag = None, v.b[n].base = None
             PROVE  \E y \in Spaces : \E j \in DOMAIN m[y] : Origin(v.b[n], y, m[y][j]) /\ (y \in L => Straddles(y, m[y][j]))
  BY DEF Sourced
<1>1. CASE n \in DOMAIN u.b
  <2>1. Extends(v.b[n], u.b[n])
    BY <1>1 DEF Mapped
  <2>2. u.b[n].tag = None /\ u.b[n].base = None
    BY <2>1 DEF Extends
  <2>3. PICK y \in Spaces : \E j \in DOMAIN m[y] : Origin(u.b[n], y, m[y][j]) /\ (y \in L => Straddles(y, m[y][j]))
    BY <1>1, <2>2 DEF Sourced
  <2>4. PICK j \in DOMAIN m[y] : Origin(u.b[n], y, m[y][j]) /\ (y \in L => Straddles(y, m[y][j]))
    BY <2>3
  <2>5. QED BY <2>1, <2>4, OriginExtends
<1>2. CASE n \notin DOMAIN u.b
  <2>1. Matches(v.b[n], z, tag, e)
    BY <1>2 DEF Mapped
  <2>2. tag = None
    BY <2>1 DEF Matches
  <2>3. Origin(v.b[n], z, e)
    BY <2>1, <2>2 DEF Matches, Origin
  <2>4. QED BY <2>3
<1>3. QED BY <1>1, <1>2

EntryList(es) == IsList(es) /\ \A i \in DOMAIN es : EntryOK(es[i])

(* Populating from one entry, for one direction, keeps the banks in order  *)
(* and their origin known.                                                 *)
LEMMA PopulateEntryIs ==
  ASSUME NEW u, UpdateOK(u), NEW L, Sourced(u.b, entries, L), NEW z \in Spaces, z \notin L, NEW i \in DOMAIN entries[z],
         NEW e, e = entries[z][i], EntryOK(e), NEW d \in Directions,
         NEW v, v = PopulateEntry(u, z, d, e)
  PROVE  UpdateOK(v) /\ Sourced(v.b, entries, L)
<1> DEFINE type == IF d = "read" THEN e.read ELSE e.write
           row == [x \in Addresses |-> IF x \in Copies(e) THEN 0 ELSE u.t[z][d][x]]
<1>1. \/ v = u
      \/ /\ ~u.full /\ (type = "RAM" \/ (type = "ROM" /\ d = "read"))
         /\ v = InstallRam(u, z, d, e, None)
      \/ ~u.full /\ type = "BANK" /\ v = MapBank(u, z, d, e.tag, e)
      \/ v = [u EXCEPT !.t[z][d] = row]
  BY DEF PopulateEntry
<1>2. CASE v = u
  BY <1>2
<1>3. CASE /\ ~u.full /\ (type = "RAM" \/ (type = "ROM" /\ d = "read"))
           /\ v = InstallRam(u, z, d, e, None)
  <2>1. Mapped(u, v, z, None, e)
    BY <1>3, InstallRamIs
  <2>2. e.write = "RAM" \/ e.read \in {"RAM", "ROM"}
    BY <1>3
  <2>3. QED BY <2>1, <2>2, MappedSourced DEF Mapped
<1>4. CASE ~u.full /\ type = "BANK" /\ v = MapBank(u, z, d, e.tag, e)
  <2>1. Mapped(u, v, z, e.tag, e)
    BY <1>4, MapBankIs
  <2>2. e.tag # None
    BY <1>4 DEF EntryOK
  <2>3. QED BY <2>1, <2>2, MappedSourced DEF Mapped
<1>5. CASE v = [u EXCEPT !.t[z][d] = row]
  <2>1. /\ DOMAIN u = UpdateFields /\ IsSeq(u.b) /\ \A m \in DOMAIN u.b : BankOK(u.b[m])
        /\ DOMAIN u.t = Spaces
        /\ \A y \in Spaces : DOMAIN u.t[y] = Directions /\ \A c \in Directions : DOMAIN u.t[y][c] = Addresses
        /\ \A y \in Spaces, c \in Directions, x \in Addresses : MappedOK(u.b, u.t, y, c, x)
    BY DEF UpdateOK, TableOK
  <2>2. DOMAIN row = Addresses /\ \A x \in Addresses : row[x] = 0 \/ row[x] = u.t[z][d][x]
    OBVIOUS
  <2> HIDE DEF row
  <2>3. DOMAIN v = UpdateFields /\ v.b = u.b /\ v.t = [u.t EXCEPT ![z][d] = row]
    BY <1>5, <2>1 DEF UpdateFields
  <2>4. /\ DOMAIN v.t = Spaces /\ v.t[z][d] = row
        /\ \A y \in Spaces : DOMAIN v.t[y] = Directions
        /\ \A y \in Spaces, c \in Directions : y # z \/ c # d => v.t[y][c] = u.t[y][c]
    BY <2>1, <2>3
  <2>5. ASSUME NEW y \in Spaces, NEW c \in Directions, NEW x \in Addresses PROVE MappedOK(v.b, v.t, y, c, x)
    <3>1. MappedOK(u.b, u.t, y, c, x)
      BY <2>1
    <3>2. v.t[y][c][x] = 0 \/ v.t[y][c][x] = u.t[y][c][x]
      BY <2>2, <2>4
    <3>3. QED BY Zenon, <2>3, <3>1, <3>2 DEF MappedOK
  <2>6. \A y \in Spaces, c \in Directions : DOMAIN v.t[y][c] = Addresses
    BY <2>1, <2>2, <2>4
  <2>7. TableOK(v.b, v.t)
    BY <2>1, <2>3, <2>4, <2>5, <2>6 DEF TableOK
  <2>8. QED BY <2>3, <2>7 DEF UpdateOK
<1>6. QED BY <1>1, <1>2, <1>3, <1>4, <1>5

PopulateStep(z, b, c, d, v, e) == PopulateEntry(PopulateEntry(v, z, "read", e), z, "write", e)

PopulateFold == INSTANCE FoldInduction WITH Op <- PopulateStep

(* populate_from_map, one entry after the other.                           *)
LEMMA PopulateIs ==
  ASSUME NEW u, UpdateOK(u), NEW L, Sourced(u.b, entries, L), NEW z \in Spaces, z \notin L, EntryList(entries[z]),
         NEW v, v = PopulateFold!Fold(z, 0, 0, 0, u, entries[z])
  PROVE  UpdateOK(v) /\ Sourced(v.b, entries, L)
<1>1. PICK n \in Nat : DOMAIN entries[z] = 1 .. n
  BY DEF EntryList, IsList
<1>2. PopulateFold!Induction(n)
  BY LoopInduction DEF PopulateFold!Induction
<1>3. PICK g : PopulateFold!Passes(z, 0, 0, 0, u, entries[z], n, g) /\ g[n] = v
  BY <1>1, <1>2, PopulateFold!FoldPasses
<1> DEFINE P == {k \in 0 .. n : UpdateOK(g[k]) /\ Sourced(g[k].b, entries, L)}
<1>4. 0 \in P
  BY <1>3 DEF PopulateFold!Passes
<1>5. ASSUME NEW k \in 0 .. (n - 1), k \in P PROVE k + 1 \in P
  <2> DEFINE m == k + 1
             e == entries[z][m]
             h == PopulateEntry(g[k], z, "read", e)
  <2>1. m \in 1 .. n /\ m \in 0 .. n /\ m - 1 = k
    OBVIOUS
  <2>2. UpdateOK(g[k]) /\ Sourced(g[k].b, entries, L)
    BY <1>5
  <2> HIDE DEF m
  <2>3. g[m] = PopulateEntry(h, z, "write", e)
    BY <1>3, <2>1 DEF PopulateFold!Passes, PopulateStep
  <2>4. "read" \in Directions /\ "write" \in Directions /\ m \in DOMAIN entries[z] /\ EntryOK(e)
    BY <1>1, <2>1 DEF Directions, EntryList
  <2>5. UpdateOK(h) /\ Sourced(h.b, entries, L)
    BY <2>2, <2>4, PopulateEntryIs
  <2> HIDE DEF h
  <2>6. UpdateOK(g[m]) /\ Sourced(g[m].b, entries, L)
    BY <2>3, <2>4, <2>5, PopulateEntryIs
  <2>7. QED BY <2>1, <2>6 DEF m
<1>6. n \in P
  <2> HIDE DEF P
  <2>1. QED BY <1>4, <1>5, LoopInduction
<1>7. QED BY <1>3, <1>6

---------------------------------------------------------------------------------
(* What the banks and the tables are between the steps.                    *)

Done == {z \in Spaces : HasLocated(z)}

BanksInv ==
  /\ IsSeq(installed) /\ IsSeq(blocklist)
  /\ stage # "failed" =>
       /\ stage = "prepare" => DOMAIN banklist = {}
       /\ TableOK(banklist, table)
       /\ Sourced(banklist, entries, Done)

(* A function of 1 to n is a list.                                         *)
LEMMA ListsAreSeqs ==
  ASSUME NEW n \in Nat, NEW s, s = [i \in 1 .. n |-> s[i]]
  PROVE  IsSeq(s)
<1>1. s \in [1 .. n -> {s[i] : i \in 1 .. n}]
  OBVIOUS
<1>2. s \in Seq({s[i] : i \in 1 .. n})
  BY <1>1
<1>3. QED BY <1>2 DEF IsSeq

(* Two lists, one after the other, are a list.                             *)
LEMMA ConcatIs ==
  ASSUME NEW s, IsSeq(s), NEW r, IsSeq(r)
  PROVE  IsSeq(s \o r)
<1>1. PICK S : s \in Seq(S)
  BY DEF IsSeq
<1>2. PICK R : r \in Seq(R)
  BY DEF IsSeq
<1>3. s \in Seq(S \cup R) /\ r \in Seq(S \cup R)
  BY <1>1, <1>2
<1>4. s \o r \in Seq(S \cup R)
  BY <1>3
<1>5. QED BY <1>4 DEF IsSeq

(* No space is located before all of them are settled.                     *)
LEMMA NoneDone ==
  ASSUME stage \in {"prepare", "populate", "allocate"}
  PROVE  Done = {}
BY DEF Done, HasLocated

(* The banks and the tables stay as they are while the entries get memory. *)
LEMMA BanksStay ==
  ASSUME BanksInv, EntriesGrew, Advanced \/ (stage' = stage /\ space' = space),
         stage = "allocate", UNCHANGED <<banklist, table, installed>>, IsSeq(blocklist')
  PROVE  BanksInv'
<1>1. Done = {} /\ TableOK(banklist, table) /\ Sourced(banklist, entries, Done) /\ IsSeq(installed)
  BY NoneDone DEF BanksInv
<1>2. Done' = {} /\ stage' # "prepare"
  <2>1. \A z \in Spaces : ~HasLocated(z)
    BY DEF HasLocated
  <2>2. CASE Advanced
    BY <2>1, <2>2 DEF Advanced, Done
  <2>3. CASE stage' = stage /\ space' = space
    BY <2>3 DEF HasLocated, Done
  <2>4. QED BY <2>2, <2>3
<1>3. Sourced(banklist', entries', Done')
  <2> SUFFICES ASSUME NEW n \in DOMAIN banklist, banklist[n].tag = None, banklist[n].base = None
               PROVE  \E z \in Spaces : \E i \in DOMAIN entries'[z] : Origin(banklist[n], z, entries'[z][i])
    BY <1>2 DEF Sourced
  <2>1. PICK z \in Spaces : \E i \in DOMAIN entries[z] : Origin(banklist[n], z, entries[z][i])
    BY <1>1 DEF Sourced
  <2>2. PICK i \in DOMAIN entries[z] : Origin(banklist[n], z, entries[z][i])
    BY <2>1
  <2>3. i \in DOMAIN entries'[z] /\ Assigns(entries'[z][i], entries[z][i])
    BY DEF EntriesGrew
  <2>4. Origin(banklist[n], z, entries'[z][i])
    BY <2>2, <2>3 DEF Origin, Assigns
  <2>5. QED BY <2>3, <2>4
<1>4. TableOK(banklist', table') /\ IsSeq(installed')
  BY <1>1
<1>5. QED BY <1>2, <1>3, <1>4 DEF BanksInv

(* The memory the driver supplied changes no bank, and the entries stay    *)
(* where they were.                                                        *)
LEMMA HardcodedBanks ==
  ASSUME SetupInv, BanksInv, AllocateHardcoded
  PROVE  BanksInv'
<1> DEFINE es     == entries[space]
           having == Keep([i \in DOMAIN es |-> i], {i \in DOMAIN es : es[i].memory # None})
           F(k)   == LET e == es[having[Len(having) + 1 - k]] IN Block(e.start, e.end, e.memory)
           blocks == [k \in DOMAIN having |-> F(k)]
<1>1. /\ stage = "allocate" /\ UNCHANGED <<banklist, table, installed>>
      /\ blocklist' = blocklist \o blocks
      /\ Advance \/ UNCHANGED <<stage, space>>
  BY Zenon DEF AllocateHardcoded, Assigned
<1>2. EntriesGrew
  BY HardcodedStepKeeps
<1>3. IsSeq(blocks)
  <2>1. IsList(es)
    BY Zenon, <1>1 DEF SetupInv, StageInv, EntriesOK
  <2>2. PICK m \in Nat : DOMAIN es = 1 .. m
    BY <2>1 DEF IsList
  <2>3. [i \in DOMAIN es |-> i] \in Seq(Nat)
    BY <2>2
  <2>4. having \in Seq(Nat)
    BY <2>3, KeepIs
  <2>5. Len(having) \in Nat /\ DOMAIN having = 1 .. Len(having)
    <3> HIDE DEF having
    <3>1. QED BY <2>4
  <2> HIDE DEF F, having
  <2>6. blocks = [k \in 1 .. Len(having) |-> blocks[k]]
    BY <2>5
  <2> HIDE DEF blocks
  <2>7. QED BY <2>5, <2>6, ListsAreSeqs
<1> HIDE DEF blocks
<1>4. IsSeq(blocklist')
  BY <1>1, <1>3, ConcatIs DEF BanksInv
<1>5. Advanced \/ (stage' = stage /\ space' = space)
  BY <1>1, AdvanceIs DEF SetupInv
<1>6. QED BY <1>1, <1>2, <1>4, <1>5, BanksStay

(* Nor does a block.                                                       *)
LEMMA BlockBanks ==
  ASSUME SetupInv, BanksInv, AllocateBlock
  PROVE  BanksInv'
<1>1. /\ stage = "allocate" /\ UNCHANGED <<banklist, table, installed>>
      /\ \E x : blocklist' = Append(blocklist, x)
      /\ Advance \/ UNCHANGED <<stage, space>>
  BY DEF AllocateBlock, Assigned
<1>2. EntriesGrew
  BY BlockStepKeeps
<1>3. IsSeq(blocklist')
  BY <1>1, AppendIs DEF BanksInv, Appended
<1>4. Advanced \/ (stage' = stage /\ space' = space)
  BY <1>1, AdvanceIs DEF SetupInv
<1>5. QED BY <1>1, <1>2, <1>3, <1>4, BanksStay

(* populate_from_map makes banks for entries of its map alone.             *)
LEMMA PopulateBanks ==
  ASSUME SetupInv, BanksInv, PopulateFromMap
  PROVE  BanksInv'
<1> DEFINE u == FoldLeft(LAMBDA v, e : PopulateEntry(PopulateEntry(v, space, "read", e), space, "write", e),
                         Current, entries[space])
<1>1. /\ stage = "populate" /\ banklist' = u.b /\ table' = u.t
      /\ stage' = "failed" \/ Advance
      /\ UNCHANGED <<entries, installed, blocklist>>
  BY DEF PopulateFromMap
<1>2. u = PopulateFold!Fold(space, 0, 0, 0, Current, entries[space])
  BY DEF FoldLeft, MapThenFoldSet, PopulateFold!Fold, PopulateFold!Last, PopulateStep, Max
<1> HIDE DEF u
<1>3. UpdateOK(Current) /\ Current.b = banklist
  <2>1. DOMAIN Current = UpdateFields /\ Current.b = banklist /\ Current.t = table
    BY DEF Current, UpdateFields
  <2>2. QED BY <1>1, <2>1 DEF UpdateOK, BanksInv
<1>4. Done = {} /\ Sourced(Current.b, entries, {})
  BY <1>1, <1>3, NoneDone DEF BanksInv
<1>5. space \in Spaces /\ EntryList(entries[space])
  BY <1>1 DEF SetupInv, StageInv, EntriesOK, EntryList
<1>6. UpdateOK(u) /\ Sourced(u.b, entries, {})
  <2>1. space \notin {}
    OBVIOUS
  <2>2. QED BY <1>2, <1>3, <1>4, <1>5, <2>1, PopulateIs
<1>7. ASSUME stage' # "failed" PROVE Done' = {} /\ stage' # "prepare"
  <2>1. Advanced
    BY <1>1, <1>7, AdvanceIs DEF SetupInv
  <2>2. \A z \in Spaces : ~HasLocated(z)
    BY <1>1 DEF HasLocated
  <2>3. QED BY <1>1, <2>1, <2>2 DEF Advanced, Done
<1>8. IsSeq(installed') /\ IsSeq(blocklist')
  BY <1>1 DEF BanksInv
<1>9. TableOK(banklist', table') /\ Sourced(banklist', entries', {})
  BY <1>1, <1>6 DEF UpdateOK
<1>10. QED BY <1>7, <1>8, <1>9 DEF BanksInv

(* locate_memory: a bank of the space stays without memory only if no entry*)
(* that starts where it does has any.                                      *)
LEMMA LocatedIs ==
  ASSUME NEW k, BankOK(k), NEW z \in Spaces, EntryList(entries[z]), NEW j, j = Located(z, k)
  PROVE  /\ BankOK(j) /\ Extends(j, k) /\ j.reflist = k.reflist
         /\ j.base = None /\ References(k, z) =>
              \A i \in DOMAIN entries[z] : entries[z][i].start = k.start => entries[z][i].memory = None
<1> DEFINE es   == entries[z]
           here == {i \in DOMAIN es : es[i].start = k.start /\ es[i].memory # None}
<1>1. DOMAIN k = BankFields
  BY DEF BankOK
<1>2. CASE k.base = None /\ References(k, z) /\ here # {}
  <2>1. j = [k EXCEPT !.base = es[Min(here)].memory]
    BY <1>2 DEF Located
  <2>2. Min(here) \in here
    <3>1. here \in SUBSET Nat /\ here # {}
      BY <1>2 DEF EntryList, IsList
    <3> HIDE DEF here
    <3>2. QED BY <3>1, MinIsLeast
  <2>3. es[Min(here)].memory # None
    BY <2>2
  <2> HIDE DEF here
  <2>4. /\ DOMAIN j = BankFields /\ j.tag = k.tag /\ j.start = k.start /\ j.end = k.end
        /\ j.reflist = k.reflist /\ j.base = es[Min(here)].memory
    BY <1>1, <2>1 DEF BankFields
  <2>5. QED BY <2>3, <2>4 DEF BankOK, References, Extends
<1>3. CASE ~(k.base = None /\ References(k, z) /\ here # {})
  <2>1. j = k
    BY <1>3 DEF Located
  <2>2. QED BY <1>3, <2>1, ExtendsSelf
<1>4. QED BY <1>2, <1>3

(* ROM that needs memory and has none is that which ends beyond the region *)
(* of its device.                                                          *)
LEMMA NoneStraddles ==
  ASSUME NEW z \in Spaces, NEW e, EntryOK(e), EntryInv(z, e), HasPrepared(z), HasSettled(z),
         e.memory = None, e.write = "RAM" \/ e.read \in {"RAM", "ROM"}
  PROVE  Straddles(z, e)
<1>1. e.region = None /\ IsAttached(z, e) /\ e.share = None /\ ~Stores(z, e)
  BY DEF EntryInv, Complete
<1>2. e.read = "ROM" /\ z \in First /\ OwnRegion[z] # None /\ ~(e.start >= Regions[OwnRegion[z]])
  BY <1>1 DEF Stores
<1>3. ~(e.end < Regions[OwnRegion[z]])
  BY <1>1, <1>2 DEF IsAttached
<1>4. Regions[OwnRegion[z]] \in Nat /\ e.start \in Nat /\ e.end \in Nat
  <2>1. OwnRegion[z] \in DOMAIN Regions
    BY <1>2, MemorySetupAssumption
  <2>2. Regions[OwnRegion[z]] \in Nat
    BY <2>1, MemorySetupAssumption
  <2>3. QED BY <2>2 DEF EntryOK
<1>5. QED BY <1>1, <1>2, <1>3, <1>4 DEF Straddles

(* locate_memory gives the banks of a space their memory, all but those of *)
(* ROM without a region.                                                   *)
LEMMA LocateBanks ==
  ASSUME SetupInv, BanksInv, LocateMemory
  PROVE  BanksInv'
<1>1. /\ stage = "locate" /\ Advance
      /\ banklist' = [n \in DOMAIN banklist |-> Located(space, banklist[n])]
      /\ UNCHANGED <<entries, table, installed, blocklist>>
  BY DEF LocateMemory
<1>2. /\ TableOK(banklist, table) /\ Sourced(banklist, entries, Done)
      /\ IsSeq(installed) /\ IsSeq(blocklist)
  BY <1>1 DEF BanksInv
<1>3. /\ space \in Spaces /\ \A z \in Spaces : EntryList(entries[z])
      /\ \A z \in Spaces : \A i \in DOMAIN entries[z] : EntryInv(z, entries[z][i])
  BY <1>1 DEF SetupInv, StageInv, EntriesOK, EntryList
<1>4. /\ Advanced /\ stage' # "prepare"
      /\ \A z \in Spaces : z \in Done' => z \in Done \/ z = space
  <2>1. Advanced
    BY <1>1, AdvanceIs DEF SetupInv
  <2>2. QED BY <1>1, <2>1 DEF Advanced, Done
<1>5. ASSUME NEW n \in DOMAIN banklist
      PROVE  /\ BankOK(banklist[n]) /\ BankOK(banklist'[n])
             /\ Extends(banklist'[n], banklist[n])
             /\ banklist'[n].reflist = banklist[n].reflist
             /\ banklist'[n].base = None /\ References(banklist[n], space) =>
                  \A i \in DOMAIN entries[space] :
                    entries[space][i].start = banklist[n].start => entries[space][i].memory = None
  <2>1. banklist'[n] = Located(space, banklist[n])
    BY <1>1
  <2>2. BankOK(banklist[n])
    BY <1>2 DEF TableOK
  <2>3. QED BY <1>3, <2>1, <2>2, LocatedIs
<1>6. DOMAIN banklist' = DOMAIN banklist
  BY <1>1
<1>7. TableOK(banklist', table')
  <2>1. IsSeq(banklist')
    <3>1. Len(banklist) \in Nat /\ DOMAIN banklist = 1 .. Len(banklist)
      BY <1>2 DEF TableOK, IsSeq
    <3>2. banklist' = [n \in 1 .. Len(banklist) |-> banklist'[n]]
      BY <1>1, <3>1
    <3>3. QED BY <3>1, <3>2, ListsAreSeqs
  <2>2. ASSUME NEW z \in Spaces, NEW d \in Directions, NEW x \in Addresses
        PROVE  MappedOK(banklist', table', z, d, x)
    <3>1. MappedOK(banklist, table, z, d, x)
      BY <1>2 DEF TableOK
    <3>2. QED BY <1>1, <1>5, <1>6, <3>1 DEF MappedOK, Extends
  <2>3. QED BY <1>1, <1>2, <1>5, <1>6, <2>1, <2>2 DEF TableOK
<1>8. Sourced(banklist', entries', Done')
  <2> SUFFICES ASSUME NEW n \in DOMAIN banklist, banklist'[n].tag = None, banklist'[n].base = None
               PROVE  \E z \in Spaces : \E i \in DOMAIN entries[z] :
                        Origin(banklist'[n], z, entries[z][i]) /\ (z \in Done' => Straddles(z, entries[z][i]))
    BY <1>1, <1>6 DEF Sourced
  <2>1. banklist[n].tag = None /\ banklist[n].base = None
    BY <1>5 DEF Extends
  <2>2. PICK z \in Spaces : \E i \in DOMAIN entries[z] :
          Origin(banklist[n], z, entries[z][i]) /\ (z \in Done => Straddles(z, entries[z][i]))
    BY <1>2, <2>1 DEF Sourced
  <2>3. PICK i \in DOMAIN entries[z] :
          Origin(banklist[n], z, entries[z][i]) /\ (z \in Done => Straddles(z, entries[z][i]))
    BY <2>2
  <2>4. Origin(banklist'[n], z, entries[z][i])
    BY <1>5, <2>3, OriginExtends
  <2>5. ASSUME z = space PROVE Straddles(z, entries[z][i])
    <3>1. entries[z][i].memory = None
      BY <1>5, <2>3, <2>5 DEF Origin
    <3>2. EntryOK(entries[z][i]) /\ EntryInv(z, entries[z][i])
      BY <1>3 DEF EntryList
    <3>3. HasPrepared(z) /\ HasSettled(z)
      BY <1>1 DEF HasPrepared, HasSettled
    <3>4. QED BY <2>3, <3>1, <3>2, <3>3, NoneStraddles DEF Origin
  <2>6. QED BY <1>4, <2>3, <2>4, <2>5
<1>9. IsSeq(installed') /\ IsSeq(blocklist')
  BY <1>1, <1>2
<1>10. QED BY <1>4, <1>7, <1>8, <1>9 DEF BanksInv

(* Installing RAM later gives it its memory at once, and maps nothing but  *)
(* the addresses asked for.                                                *)
LEMMA InstallBanks ==
  ASSUME SetupInv, BanksInv, NEW z \in Spaces, NEW ds \in {{"read"}, {"write"}, Directions},
         NEW e, NEW given, Install(z, ds, e, given)
  PROVE  BanksInv'
<1>1. stage = "initialized" /\ installed' = Append(installed, <<z, e>>) /\ UNCHANGED <<space, entries>>
  BY DEF Install
<1>2. /\ TableOK(banklist, table) /\ Sourced(banklist, entries, Done)
      /\ IsSeq(installed) /\ IsSeq(blocklist)
  BY <1>1 DEF BanksInv
<1>3. IsSeq(installed')
  BY <1>1, <1>2, AppendIs DEF Appended
<1>4. IsSeq(blocklist')
  <2>1. blocklist' = blocklist \/ \E x : blocklist' = Append(blocklist, x)
    BY Zenon DEF Install
  <2>2. ASSUME NEW x, blocklist' = Append(blocklist, x) PROVE IsSeq(blocklist')
    BY <1>2, <2>2, AppendIs DEF Appended
  <2>3. QED BY <1>2, <2>1, <2>2
<1>5. PICK f : /\ Mapped(Current, f, z, None, e) /\ banklist' = f.b /\ table' = f.t
               /\ f.full => stage' = "failed"
               /\ ~f.full => stage' = stage /\ f.b[f.last].base # None
  BY <1>2, InstallIs
<1>6. ASSUME stage' # "failed"
      PROVE  stage' # "prepare" /\ TableOK(banklist', table') /\ Sourced(banklist', entries', Done')
  <2>1. stage' = stage /\ ~f.full /\ f.b[f.last].base # None
    BY <1>5, <1>6
  <2>2. Done' = Done
    BY <1>1, <2>1 DEF Done, HasLocated
  <2>3. TableOK(banklist', table')
    BY <1>5 DEF Mapped, UpdateOK
  <2>4. Current.b = banklist
    BY DEF Current
  <2>5. ASSUME NEW n \in DOMAIN f.b, f.b[n].tag = None, f.b[n].base = None
        PROVE  \E y \in Spaces : \E i \in DOMAIN entries[y] :
                 Origin(f.b[n], y, entries[y][i]) /\ (y \in Done => Straddles(y, entries[y][i]))
    <3>1. n \in DOMAIN banklist /\ Extends(f.b[n], banklist[n])
      BY <1>5, <2>1, <2>4, <2>5 DEF Mapped
    <3>2. banklist[n].tag = None /\ banklist[n].base = None
      BY <2>5, <3>1 DEF Extends
    <3>3. PICK y \in Spaces : \E i \in DOMAIN entries[y] :
            Origin(banklist[n], y, entries[y][i]) /\ (y \in Done => Straddles(y, entries[y][i]))
      BY <1>2, <3>1, <3>2 DEF Sourced
    <3>4. QED BY <3>1, <3>3, OriginExtends
  <2>6. Sourced(banklist', entries', Done')
    BY <1>1, <1>5, <2>2, <2>5 DEF Sourced
  <2>7. QED BY <1>1, <2>1, <2>3, <2>6
<1>7. QED BY <1>3, <1>4, <1>6 DEF BanksInv

(* Every step keeps the invariant of the banks.                            *)
LEMMA BanksStep ==
  ASSUME SetupInv, BanksInv, [Next]_vars
  PROVE  BanksInv'
<1>1. CASE PrepareMap
  <2>1. /\ stage = "prepare" /\ Advance
        /\ UNCHANGED <<blocklist, banklist, table, installed>>
    BY <1>1 DEF PrepareMap
  <2>2. DOMAIN banklist = {} /\ TableOK(banklist, table) /\ IsSeq(installed) /\ IsSeq(blocklist)
    BY <2>1 DEF BanksInv
  <2>3. TableOK(banklist', table') /\ DOMAIN banklist' = {} /\ IsSeq(installed') /\ IsSeq(blocklist')
    BY <2>1, <2>2
  <2>4. Sourced(banklist', entries', Done')
    BY <2>3 DEF Sourced
  <2>5. QED BY <2>3, <2>4 DEF BanksInv
<1>2. CASE RegionError
  BY <1>2 DEF RegionError, BanksInv
<1>3. CASE PopulateFromMap
  BY <1>3, PopulateBanks
<1>4. CASE AllocateHardcoded
  BY <1>4, HardcodedBanks
<1>5. CASE AllocateBlock
  BY <1>5, BlockBanks
<1>6. CASE LocateMemory
  BY <1>6, LocateBanks
<1>7. ASSUME NEW z \in Spaces, NEW ds \in {{"read"}, {"write"}, Directions}, NEW e, NEW given,
             Install(z, ds, e, given)
      PROVE  BanksInv'
  BY <1>7, InstallBanks
<1>8. CASE UNCHANGED vars
  <2>1. UNCHANGED <<stage, space, entries, blocklist, banklist, table, installed>>
    BY <1>8 DEF vars
  <2>2. Done' = Done
    BY <2>1 DEF Done, HasLocated
  <2>3. QED BY <2>1, <2>2 DEF BanksInv
<1>9. QED BY <1>1, <1>2, <1>3, <1>4, <1>5, <1>6, <1>7, <1>8 DEF Next

(* There is no bank before the first map is populated.                     *)
LEMMA BanksStart == Init => BanksInv
<1> SUFFICES ASSUME Init PROVE BanksInv
  OBVIOUS
<1>1. /\ installed = << >> /\ blocklist = << >> /\ banklist = << >>
      /\ table = [z \in Spaces |-> [d \in Directions |-> [x \in Addresses |-> 0]]]
  BY DEF Init
<1>2. IsSeq(<< >>)
  <2>1. << >> \in Seq({})
    OBVIOUS
  <2>2. QED BY <2>1 DEF IsSeq
<1>3. DOMAIN banklist = {}
  BY <1>1
<1>4. \A z \in Spaces, d \in Directions, x \in Addresses : MappedOK(banklist, table, z, d, x)
  BY <1>1 DEF MappedOK
<1>5. TableOK(banklist, table)
  BY <1>1, <1>2, <1>3, <1>4 DEF TableOK
<1>6. Sourced(banklist, entries, Done)
  BY <1>3 DEF Sourced
<1>7. QED BY <1>1, <1>2, <1>3, <1>5, <1>6 DEF BanksInv

(* It holds throughout.                                                    *)
LEMMA BanksAlways == Spec => []BanksInv
<1>1. SetupInv /\ BanksInv /\ [Next]_vars => BanksInv'
  BY BanksStep
<1>2. QED BY <1>1, BanksStart, SetupAlways, PTL DEF Spec

(* Memory is allocated to back each anonymous bank of RAM or ROM, but for  *)
(* ROM that ends beyond the region of its device.                          *)
THEOREM RamHolds == Spec => []RamIsBacked
<1>1. BanksInv => RamIsBacked
  <2> SUFFICES ASSUME BanksInv, stage = "initialized", NEW n \in DOMAIN banklist,
                      banklist[n].tag = None, banklist[n].base = None
               PROVE  Straddled(banklist[n])
    BY DEF RamIsBacked
  <2>1. PICK z \in Spaces : \E i \in DOMAIN entries[z] :
          Origin(banklist[n], z, entries[z][i]) /\ (z \in Done => Straddles(z, entries[z][i]))
    BY DEF BanksInv, Sourced
  <2>2. z \in Done
    BY DEF Done, HasLocated
  <2>3. QED BY <2>1, <2>2 DEF Origin, Straddled
<1>2. QED BY <1>1, BanksAlways, PTL

InstallKeeps ==
  installed' # installed =>
    LET at == Last(installed')
    IN  \A z \in Spaces, d \in Directions, x \in Addresses :
          \/ Reach(z, d, x)' = Reach(z, d, x)
          \/ z = at[1] /\ (x \in Copies(at[2]) \/ CopyOf(z, d, x, at[2]))

(* RAM installed later changes what is behind the addresses it is          *)
(* installed at and behind copies of a bank of the same range, but no      *)
(* other, although the banks are looked for among those that are there     *)
(* (install_ram_generic).                                                  *)
THEOREM InstallsHold == Spec => InstallsStayInside
<1>1. BanksInv /\ [Next]_vars => [InstallKeeps]_vars
  <2> SUFFICES ASSUME BanksInv, Next, installed' # installed PROVE InstallKeeps
    BY DEF InstallKeeps
  <2>1. PICK z \in Spaces, ds \in {{"read"}, {"write"}, Directions}, e \in Installs,
             given \in {None, Place(Given, 0)} : Install(z, ds, e, given)
    BY Zenon DEF Next, PrepareMap, RegionError, PopulateFromMap, AllocateHardcoded, AllocateBlock,
           LocateMemory, Assigned
  <2>2. stage = "initialized" /\ installed' = Append(installed, <<z, e>>)
    BY <2>1 DEF Install
  <2>3. TableOK(banklist, table) /\ IsSeq(blocklist) /\ IsSeq(installed)
    BY <2>2 DEF BanksInv
  <2>4. Last(installed') = <<z, e>>
    BY <2>2, <2>3, AppendIs DEF Appended, Last
  <2>5. ASSUME NEW y \in Spaces, NEW d \in Directions, NEW x \in Addresses
        PROVE  \/ Reach(y, d, x)' = Reach(y, d, x)
               \/ y = z /\ (x \in Copies(e) \/ CopyOf(y, d, x, e))
    BY <2>1, <2>3, ReachStays
  <2>6. QED BY <2>4, <2>5 DEF InstallKeeps
<1>2. QED BY <1>1, BanksAlways, PTL DEF Spec, InstallsStayInside, InstallKeeps

---------------------------------------------------------------------------------
(* Memory with room for what is put there.  The entries of all the spaces  *)
(* are an argument here: those before a step, until the step is done.      *)

(* The memory of an entry with a share that is as TooShort says.           *)
Lacks(all, memory) ==
  \E z, y \in Spaces : \E i \in DOMAIN all[z], j \in DOMAIN all[y] :
    /\ all[z][i].share # None /\ all[z][i].memory # None /\ all[z][i].memory.memory = memory
    /\ OtherLength(all[z][i], all[y][j]) \/ BeyondRegion(all[z][i])

(* A share with entries of two lengths.                                    *)
Odd(all, s) ==
  /\ s # None
  /\ \E z, y \in Spaces : \E i \in DOMAIN all[z], j \in DOMAIN all[y] :
       all[z][i].share = s /\ all[y][j].share = s /\ Length(all[z][i]) # Length(all[y][j])

(* A place in memory, one that has n bytes from there on, and one that has *)
(* them unless its memory lacks something.                                 *)
Placed(bl, p) ==
  /\ DOMAIN p = {"memory", "offset"} /\ p.offset \in Nat
  /\ p.memory \in DOMAIN Regions \cup {Given} \cup DOMAIN bl

Roomy(bl, p, n) ==
  /\ p.memory \in DOMAIN Regions => p.offset + n <= Regions[p.memory]
  /\ p.memory \in DOMAIN bl => p.offset + n <= Length(bl[p.memory])

Enough(all, bl, p, n) == Placed(bl, p) /\ (Lacks(all, p.memory) \/ Roomy(bl, p, n))

(* An entry of a share is as long as one of the entries there are.         *)
Known(all, e) ==
  e.share # None =>
    \E z \in Spaces : \E i \in DOMAIN all[z] : all[z][i].share = e.share /\ Length(all[z][i]) = Length(e)

EntryRoom(all, bl, e) ==
  /\ RangeOK(e) /\ Known(all, e)
  /\ e.memory # None => Placed(bl, e.memory) /\ (Odd(all, e.share) \/ Enough(all, bl, e.memory, Length(e)))

ShareRoom(all, bl, shares) ==
  \A s \in DOMAIN shares : shares[s] # None =>
    /\ Placed(bl, shares[s])
    /\ \A z \in Spaces : \A i \in DOMAIN all[z] : all[z][i].share = s =>
         Odd(all, s) \/ Enough(all, bl, shares[s], Length(all[z][i]))

BlocksRoom(all, bl) ==
  \A k \in DOMAIN bl : /\ bl[k].start \in Int /\ bl[k].end \in Int
                       /\ Enough(all, bl, bl[k].data, Length(bl[k]))

EntriesRoom(all, bl) == \A z \in Spaces : \A i \in DOMAIN all[z] : EntryRoom(all, bl, all[z][i])

RoomInv ==
  /\ EntriesRoom(entries, blocklist)
  /\ ShareRoom(entries, blocklist, sharelist) /\ BlocksRoom(entries, blocklist)
  /\ unassigned # 0 => stage = "allocate" /\ unassigned \in DOMAIN entries[space]

HasRange(e) == e.start \in Addresses /\ e.end \in Addresses /\ e.start <= e.end

(* Addresses are numbers.                                                  *)
LEMMA AddressesAre ==
  /\ 2^AddrBits \in Nat \ {0} /\ AddrBits \in Nat
  /\ \A x \in Addresses : x \in Nat /\ x < 2^AddrBits
<1>1. 2^AddrBits \in Nat \ {0} /\ AddrBits \in Nat
  BY AddrBitsAssumption, PowersOfTwo
<1> DEFINE w == 2^AddrBits
<1>2. w \in Nat \ {0}
  BY <1>1
<1> HIDE DEF w
<1>3. \A x \in 0 .. (w - 1) : x \in Nat /\ x < w
  BY <1>2
<1>4. QED BY <1>1, <1>3 DEF Addresses, w

(* A range of addresses has a length.                                      *)
LEMMA RangesAre ==
  ASSUME NEW e, HasRange(e)
  PROVE  /\ e.start \in Nat /\ e.end \in Nat /\ e.start <= e.end
         /\ Length(e) \in Nat /\ Length(e) > 0 /\ Length(e) = e.end - e.start + 1
<1>1. e.start \in Nat /\ e.end \in Nat /\ e.start <= e.end
  BY AddressesAre DEF HasRange
<1>2. QED BY <1>1 DEF Length

(* The entries are ranges of addresses, as what is installed is.           *)
LEMMA RangesOK ==
  /\ \A e : RangeOK(e) => HasRange(e)
  /\ \A e \in Installs : RangeOK(e) /\ HasRange(e)
<1>1. \A e : RangeOK(e) => HasRange(e)
  BY DEF RangeOK, HasRange, ValidRequest
<1>2. \A e \in Installs : RangeOK(e)
  BY MemorySetupAssumption DEF RangeOK
<1>3. QED BY <1>1, <1>2

(* The memory of an entry of a share of two lengths is too short for one.  *)
LEMMA OddLacks ==
  ASSUME NEW all, NEW z \in Spaces, NEW i \in DOMAIN all[z], all[z][i].memory # None, Odd(all, all[z][i].share)
  PROVE  Lacks(all, all[z][i].memory.memory)
<1> DEFINE e == all[z][i]
<1>1. PICK x \in Spaces, y \in Spaces : \E j \in DOMAIN all[x], k \in DOMAIN all[y] :
           all[x][j].share = e.share /\ all[y][k].share = e.share /\ Length(all[x][j]) # Length(all[y][k])
  BY DEF Odd
<1>2. PICK j \in DOMAIN all[x], k \in DOMAIN all[y] :
           all[x][j].share = e.share /\ all[y][k].share = e.share /\ Length(all[x][j]) # Length(all[y][k])
  BY <1>1
<1>3. e.share # None
  BY DEF Odd
<1>4. CASE Length(e) # Length(all[x][j])
  <2>1. OtherLength(e, all[x][j])
    BY <1>2, <1>4 DEF OtherLength
  <2>2. QED BY <1>3, <2>1 DEF Lacks
<1>5. CASE Length(e) = Length(all[x][j])
  <2>1. OtherLength(e, all[y][k])
    BY <1>2, <1>5 DEF OtherLength
  <2>2. QED BY <1>3, <2>1 DEF Lacks
<1>6. QED BY <1>4, <1>5

(* So there is room for an entry that has memory, or its memory lacks it.  *)
LEMMA EntryHasRoom ==
  ASSUME NEW all, NEW bl, EntriesRoom(all, bl), NEW z \in Spaces, NEW i \in DOMAIN all[z]
  PROVE  /\ RangeOK(all[z][i]) /\ HasRange(all[z][i])
         /\ all[z][i].memory # None => Enough(all, bl, all[z][i].memory, Length(all[z][i]))
<1>1. EntryRoom(all, bl, all[z][i])
  BY DEF EntriesRoom
<1>2. RangeOK(all[z][i]) /\ HasRange(all[z][i])
  BY <1>1, RangesOK DEF EntryRoom
<1>3. QED BY <1>1, <1>2, OddLacks DEF EntryRoom, Enough

(* The entries stay where they are, with their shares, and so does what has*)
(* memory.                                                                 *)
Goes(more, all) ==
  \A z \in Spaces :
    /\ DOMAIN more[z] = DOMAIN all[z]
    /\ \A i \in DOMAIN all[z] :
         /\ more[z][i].start = all[z][i].start /\ more[z][i].end = all[z][i].end
         /\ more[z][i].share = all[z][i].share
         /\ all[z][i].memory # None =>
              /\ more[z][i].memory = all[z][i].memory
              /\ more[z][i].region = all[z][i].region /\ more[z][i].offset = all[z][i].offset

LEMMA GoesOn ==
  ASSUME NEW all, NEW more, Goes(more, all)
  PROVE  /\ \A m : Lacks(all, m) => Lacks(more, m)
         /\ \A s : Odd(all, s) <=> Odd(more, s)
         /\ \A bl, p, n : Enough(all, bl, p, n) => Enough(more, bl, p, n)
         /\ \A bl, e : EntryRoom(all, bl, e) => EntryRoom(more, bl, e)
         /\ \A bl, shares : ShareRoom(all, bl, shares) => ShareRoom(more, bl, shares)
         /\ \A bl : BlocksRoom(all, bl) => BlocksRoom(more, bl)
<1>1. \A z \in Spaces :
        /\ DOMAIN more[z] = DOMAIN all[z]
        /\ \A i \in DOMAIN all[z] : more[z][i].share = all[z][i].share /\ Length(more[z][i]) = Length(all[z][i])
  BY DEF Goes, Length
<1>2. ASSUME NEW m, Lacks(all, m) PROVE Lacks(more, m)
  <2>1. PICK z \in Spaces, y \in Spaces : \E i \in DOMAIN all[z], j \in DOMAIN all[y] :
           /\ all[z][i].share # None /\ all[z][i].memory # None /\ all[z][i].memory.memory = m
           /\ OtherLength(all[z][i], all[y][j]) \/ BeyondRegion(all[z][i])
    BY <1>2 DEF Lacks
  <2>2. PICK i \in DOMAIN all[z], j \in DOMAIN all[y] :
           /\ all[z][i].share # None /\ all[z][i].memory # None /\ all[z][i].memory.memory = m
           /\ OtherLength(all[z][i], all[y][j]) \/ BeyondRegion(all[z][i])
    BY <2>1
  <2>3. /\ i \in DOMAIN more[z] /\ j \in DOMAIN more[y]
        /\ more[z][i].share = all[z][i].share /\ more[z][i].memory = all[z][i].memory
        /\ more[z][i].region = all[z][i].region /\ more[z][i].offset = all[z][i].offset
    BY <2>2 DEF Goes
  <2>4. OtherLength(more[z][i], more[y][j]) \/ BeyondRegion(more[z][i])
    BY <1>1, <2>2, <2>3 DEF OtherLength, BeyondRegion
  <2>5. QED BY <2>2, <2>3, <2>4 DEF Lacks
<1>3. \A s : Odd(all, s) <=> Odd(more, s)
  BY <1>1 DEF Odd
<1>4. \A bl, p, n : Enough(all, bl, p, n) => Enough(more, bl, p, n)
  BY <1>2 DEF Enough
<1>5. ASSUME NEW e, Known(all, e) PROVE Known(more, e)
  BY <1>1, <1>5 DEF Known
<1>6. ASSUME NEW bl, NEW e, EntryRoom(all, bl, e) PROVE EntryRoom(more, bl, e)
  BY <1>3, <1>4, <1>5, <1>6 DEF EntryRoom
<1>7. ASSUME NEW bl, NEW shares, ShareRoom(all, bl, shares) PROVE ShareRoom(more, bl, shares)
  <2> SUFFICES ASSUME NEW s \in DOMAIN shares, shares[s] # None
               PROVE  /\ Placed(bl, shares[s])
                      /\ \A z \in Spaces : \A i \in DOMAIN more[z] : more[z][i].share = s =>
                           Odd(more, s) \/ Enough(more, bl, shares[s], Length(more[z][i]))
    BY DEF ShareRoom
  <2>1. Placed(bl, shares[s])
    BY <1>7 DEF ShareRoom
  <2>2. ASSUME NEW z \in Spaces, NEW i \in DOMAIN more[z], more[z][i].share = s
        PROVE  Odd(more, s) \/ Enough(more, bl, shares[s], Length(more[z][i]))
    <3>1. i \in DOMAIN all[z] /\ all[z][i].share = s /\ Length(more[z][i]) = Length(all[z][i])
      BY <1>1, <2>2
    <3>2. Odd(all, s) \/ Enough(all, bl, shares[s], Length(all[z][i]))
      BY <1>7, <3>1 DEF ShareRoom
    <3>3. QED BY <1>3, <1>4, <3>1, <3>2
  <2>3. QED BY <2>1, <2>2
<1>8. ASSUME NEW bl, BlocksRoom(all, bl) PROVE BlocksRoom(more, bl)
  BY <1>4, <1>8 DEF BlocksRoom
<1>9. QED BY <1>2, <1>3, <1>4, <1>6, <1>7, <1>8

(* A list of blocks.                                                       *)
BlocksOK(bl) == IsSeq(bl) /\ \A k \in DOMAIN bl : bl[k].start \in Int /\ bl[k].end \in Int

(* It is numbered, and its blocks have lengths.                            *)
LEMMA BlocksAre ==
  ASSUME NEW bl, BlocksOK(bl)
  PROVE  DOMAIN bl \subseteq Nat /\ \A k \in DOMAIN bl : Length(bl[k]) \in Int
<1>1. DOMAIN bl \subseteq Nat
  BY DEF BlocksOK, IsSeq
<1>2. QED BY <1>1 DEF BlocksOK, Length

(* Of more there is less.                                                  *)
LEMMA LessIsEnough ==
  ASSUME NEW all, NEW bl, BlocksOK(bl), NEW p, NEW n \in Int, Enough(all, bl, p, n), NEW m \in Int, m <= n
  PROVE  Enough(all, bl, p, m)
<1> SUFFICES ASSUME Roomy(bl, p, n) PROVE Roomy(bl, p, m)
  BY DEF Enough
<1>1. p.memory \in DOMAIN Regions => p.offset + m <= Regions[p.memory]
  <2>1. p.memory \in DOMAIN Regions => Regions[p.memory] \in Nat /\ p.offset + n <= Regions[p.memory]
    BY MemorySetupAssumption DEF Roomy
  <2>2. p.offset \in Nat
    BY DEF Enough, Placed
  <2>3. QED BY <2>1, <2>2
<1>2. p.memory \in DOMAIN bl => p.offset + m <= Length(bl[p.memory])
  <2>1. p.memory \in DOMAIN bl => Length(bl[p.memory]) \in Int /\ p.offset + n <= Length(bl[p.memory])
    BY BlocksAre DEF Roomy
  <2>2. p.offset \in Nat
    BY DEF Enough, Placed
  <2>3. QED BY <2>1, <2>2
<1>3. QED BY <1>1, <1>2 DEF Roomy

(* Further on there is less.                                               *)
LEMMA BeyondIs ==
  ASSUME NEW all, NEW bl, BlocksOK(bl), NEW p, NEW n \in Int, Enough(all, bl, p, n),
         NEW k \in Nat, NEW m \in Int, k + m <= n
  PROVE  Enough(all, bl, Beyond(p, k), m)
<1> DEFINE q == Beyond(p, k)
<1>1. DOMAIN p = {"memory", "offset"} /\ p.offset \in Nat
  BY DEF Enough, Placed
<1>2. DOMAIN q = {"memory", "offset"} /\ q.memory = p.memory /\ q.offset = p.offset + k
  BY <1>1 DEF Beyond
<1> HIDE DEF q
<1>3. Placed(bl, q)
  BY <1>1, <1>2 DEF Enough, Placed
<1>4. k + m \in Int /\ Enough(all, bl, p, k + m)
  BY LessIsEnough
<1>5. Roomy(bl, p, k + m) => Roomy(bl, q, m)
  <2>1. p.offset + (k + m) = q.offset + m
    BY <1>1, <1>2
  <2>2. QED BY <1>2, <2>1 DEF Roomy
<1>6. QED BY <1>2, <1>3, <1>4, <1>5 DEF Enough, q

(* A list that begins with another.                                        *)
Continues(cl, bl) == \A k \in DOMAIN bl : k \in DOMAIN cl /\ cl[k] = bl[k]

(* More blocks do not change what is in those that are there.              *)
LEMMA EnoughStays ==
  ASSUME NEW bl, NEW cl, Continues(cl, bl), DOMAIN cl \subseteq Nat
  PROVE  /\ \A p : Placed(bl, p) => Placed(cl, p)
         /\ \A all, p, n : Enough(all, bl, p, n) => Enough(all, cl, p, n)
<1>1. ASSUME NEW p, Placed(bl, p) PROVE Placed(cl, p)
  BY <1>1 DEF Placed, Continues
<1>2. ASSUME NEW all, NEW p, NEW n, Enough(all, bl, p, n) PROVE Enough(all, cl, p, n)
  <2>1. Placed(bl, p) /\ Placed(cl, p)
    BY <1>1, <1>2 DEF Enough
  <2>2. p.memory \in DOMAIN cl => p.memory \in DOMAIN bl
    BY <2>1, MemorySetupAssumption DEF Placed
  <2>3. Roomy(bl, p, n) => Roomy(cl, p, n)
    BY <2>2 DEF Roomy, Continues
  <2>4. QED BY <1>2, <2>1, <2>3 DEF Enough
<1>3. QED BY <1>1, <1>2

(* A block has its own length.                                             *)
LEMMA BlockHasRoom ==
  ASSUME NEW all, NEW bl, DOMAIN bl \subseteq Nat, NEW k \in DOMAIN bl, NEW n, n = Length(bl[k]), n \in Int
  PROVE  Enough(all, bl, Place(k, 0), n)
<1>1. k \notin DOMAIN Regions
  BY MemorySetupAssumption
<1>2. 0 + n <= n
  OBVIOUS
<1>3. QED BY <1>1, <1>2 DEF Enough, Placed, Roomy, Place

(* The memory of a caller is taken to be as long as it has to be.          *)
LEMMA GivenHasRoom ==
  ASSUME NEW all, NEW bl, DOMAIN bl \subseteq Nat, NEW n
  PROVE  Enough(all, bl, Place(Given, 0), n)
<1>1. Given \notin DOMAIN bl /\ Given \notin DOMAIN Regions
  BY MemorySetupAssumption
<1>2. QED BY <1>1 DEF Enough, Placed, Roomy, Place

---------------------------------------------------------------------------------
(* What the loops over the entries of a space keep.                        *)
WorkRoom(all, bl, w) ==
  /\ \A i \in DOMAIN w.es : EntryRoom(all, bl, w.es[i])
  /\ ShareRoom(all, bl, w.shares)
  /\ w.left # 0 => w.left \in DOMAIN w.es

(* The data has as many bytes as there are addresses from lo to hi, or no  *)
(* entry starts at lo or after it.                                         *)
Supplies(all, bl, lo, hi, data) ==
  /\ lo \in Int /\ hi \in Int
  /\ Enough(all, bl, data, hi - lo + 1) \/ \A x \in Addresses : x < lo

(* An entry gets memory with room for it, and so does its share.           *)
LEMMA AssignEntryRoom ==
  ASSUME NEW all, NEW bl, BlocksOK(bl), NEW w, WorkOK(w), WorkRoom(all, bl, w), NEW z, NEW i \in DOMAIN w.es,
         NEW lo, NEW hi, NEW data, Supplies(all, bl, lo, hi, data),
         NEW v, v = AssignEntry(w, z, i, lo, hi, data)
  PROVE  WorkRoom(all, bl, v)
<1> DEFINE e == w.es[i]
           block == IF e.start >= lo /\ e.end <= hi THEN Beyond(data, e.start - lo) ELSE None
           share == IF e.share = None THEN None ELSE w.shares[e.share]
           p     == IF e.memory # None THEN e.memory ELSE IF share # None THEN share ELSE block
           given == e.share # None /\ share = None
           needs == NeedsBackingStore(z, e, w.shares)
           left  == IF w.left = 0 /\ p = None /\ needs THEN i ELSE w.left
           S     == IF given THEN [w.shares EXCEPT ![e.share] = p] ELSE w.shares
<1>1. /\ DOMAIN w = WorkFields /\ DOMAIN e = Fields
      /\ e.share # None => e.share \in DOMAIN w.shares
  BY DEF WorkOK
<1>2. /\ EntryRoom(all, bl, e) /\ ShareRoom(all, bl, w.shares)
      /\ \A j \in DOMAIN w.es : EntryRoom(all, bl, w.es[j])
      /\ w.left # 0 => w.left \in DOMAIN w.es
  BY DEF WorkRoom
<1>3. /\ RangeOK(e) /\ HasRange(e) /\ Known(all, e)
      /\ e.memory # None => Placed(bl, e.memory) /\ (Odd(all, e.share) \/ Enough(all, bl, e.memory, Length(e)))
  BY <1>2, RangesOK DEF EntryRoom
<1>4. block # None => Enough(all, bl, block, Length(e))
  <2> SUFFICES ASSUME e.start >= lo, e.end <= hi PROVE Enough(all, bl, Beyond(data, e.start - lo), Length(e))
    OBVIOUS
  <2>1. /\ e.start \in Nat /\ e.end \in Nat /\ e.start \in Addresses
        /\ Length(e) \in Nat /\ Length(e) = e.end - e.start + 1
    BY <1>3, RangesAre DEF HasRange
  <2>2. lo \in Int /\ hi \in Int
    BY DEF Supplies
  <2>3. ~(e.start < lo)
    BY <2>1, <2>2
  <2>4. Enough(all, bl, data, hi - lo + 1)
    BY <2>1, <2>3 DEF Supplies
  <2>5. /\ hi - lo + 1 \in Int /\ e.start - lo \in Nat
        /\ (e.start - lo) + Length(e) <= hi - lo + 1
    BY <2>1, <2>2
  <2>6. QED BY <2>1, <2>4, <2>5, BeyondIs
<1>5. share # None => Placed(bl, share) /\ (Odd(all, e.share) \/ Enough(all, bl, share, Length(e)))
  <2> SUFFICES ASSUME e.share # None, w.shares[e.share] # None
               PROVE  /\ Placed(bl, w.shares[e.share])
                      /\ Odd(all, e.share) \/ Enough(all, bl, w.shares[e.share], Length(e))
    OBVIOUS
  <2>1. PICK y \in Spaces : \E j \in DOMAIN all[y] : all[y][j].share = e.share /\ Length(all[y][j]) = Length(e)
    BY <1>3 DEF Known
  <2>2. PICK j \in DOMAIN all[y] : all[y][j].share = e.share /\ Length(all[y][j]) = Length(e)
    BY <2>1
  <2>3. /\ Placed(bl, w.shares[e.share])
        /\ Odd(all, e.share) \/ Enough(all, bl, w.shares[e.share], Length(all[y][j]))
    BY <1>1, <1>2, <2>2 DEF ShareRoom
  <2>4. QED BY <2>2, <2>3
<1>6. p # None => Placed(bl, p) /\ (Odd(all, e.share) \/ Enough(all, bl, p, Length(e)))
  BY <1>3, <1>4, <1>5 DEF Enough
<1>7. v = [w EXCEPT !.es[i].memory = p, !.shares = S, !.left = left]
  BY DEF AssignEntry
<1>8. left # 0 => left \in DOMAIN w.es
  BY <1>2
<1>9. \A s \in DOMAIN S : s \in DOMAIN w.shares /\ (S[s] = w.shares[s] \/ (given /\ s = e.share /\ S[s] = p))
  BY <1>1
<1> HIDE DEF p, S, left, block, share
<1>10. /\ v.shares = S /\ v.left = left /\ v.es = [w.es EXCEPT ![i].memory = p]
  BY <1>1, <1>7 DEF WorkFields
<1>11. /\ DOMAIN v.es = DOMAIN w.es /\ v.es[i] = [e EXCEPT !.memory = p]
       /\ \A j \in DOMAIN w.es : j # i => v.es[j] = w.es[j]
  BY <1>10
<1>12. EntryRoom(all, bl, v.es[i])
  <2>1. /\ v.es[i].memory = p /\ v.es[i].start = e.start /\ v.es[i].end = e.end
        /\ v.es[i].mirror = e.mirror /\ v.es[i].share = e.share
    BY <1>1, <1>11 DEF Fields
  <2>2. RangeOK(v.es[i])
    BY <1>3, <2>1, RangeOKIs
  <2>3. Length(v.es[i]) = Length(e)
    BY <2>1 DEF Length
  <2>4. QED BY <1>3, <1>6, <2>1, <2>2, <2>3 DEF EntryRoom, Known
<1>13. ShareRoom(all, bl, S)
  <2> SUFFICES ASSUME NEW s \in DOMAIN S, S[s] # None
               PROVE  /\ Placed(bl, S[s])
                      /\ \A y \in Spaces : \A j \in DOMAIN all[y] : all[y][j].share = s =>
                           Odd(all, s) \/ Enough(all, bl, S[s], Length(all[y][j]))
    BY DEF ShareRoom
  <2>1. CASE S[s] = w.shares[s]
    BY <1>2, <1>9, <2>1 DEF ShareRoom
  <2>2. CASE given /\ s = e.share /\ S[s] = p
    <3>1. Placed(bl, p) /\ (Odd(all, s) \/ Enough(all, bl, p, Length(e)))
      BY <1>6, <2>2
    <3>2. ASSUME NEW y \in Spaces, NEW j \in DOMAIN all[y], all[y][j].share = s, ~Odd(all, s)
          PROVE  Length(all[y][j]) = Length(e)
      <4>1. PICK x \in Spaces : \E k \in DOMAIN all[x] : all[x][k].share = s /\ Length(all[x][k]) = Length(e)
        BY <1>3, <2>2 DEF Known
      <4>2. PICK k \in DOMAIN all[x] : all[x][k].share = s /\ Length(all[x][k]) = Length(e)
        BY <4>1
      <4>3. QED BY <2>2, <3>2, <4>2 DEF Odd
    <3>3. QED BY <2>2, <3>1, <3>2
  <2>3. QED BY <1>9, <2>1, <2>2
<1>14. \A j \in DOMAIN v.es : EntryRoom(all, bl, v.es[j])
  BY <1>2, <1>11, <1>12
<1>15. QED BY <1>8, <1>10, <1>11, <1>13, <1>14 DEF WorkRoom

(* And so do all the entries of a space.                                   *)
LEMMA BlockAssignedRoom ==
  ASSUME NEW all, NEW bl, BlocksOK(bl), NEW w, WorkOK(w), WorkRoom(all, bl, w), NEW z,
         NEW lo, NEW hi, NEW data, Supplies(all, bl, lo, hi, data),
         NEW v, v = block_assign_intersecting(w, z, lo, hi, data)
  PROVE  WorkRoom(all, bl, v)
<1> DEFINE u == [w EXCEPT !.left = 0]
           s == [i \in DOMAIN w.es |-> i]
<1>1. PICK n \in Nat : DOMAIN w.es = 1 .. n
  BY DEF WorkOK, IsList
<1>2. DOMAIN s = 1 .. n /\ \A i \in 1 .. n : s[i] = i
  BY <1>1
<1>3. DOMAIN u = WorkFields /\ u.es = w.es /\ u.shares = w.shares /\ u.left = 0
  BY DEF WorkOK, WorkFields
<1>4. WorkOK(u) /\ WorkRoom(all, bl, u) /\ DOMAIN u.es = 1 .. n
  BY <1>1, <1>3 DEF WorkOK, WorkRoom
<1> HIDE DEF u, s
<1>5. v = AssignFold!Fold(z, lo, hi, data, u, s)
  BY DEF block_assign_intersecting, FoldLeft, MapThenFoldSet, AssignFold!Fold, AssignFold!Last,
         AssignStep, Max, u, s
<1>6. AssignFold!Induction(n)
  BY LoopInduction DEF AssignFold!Induction
<1>7. PICK g : AssignFold!Passes(z, lo, hi, data, u, s, n, g) /\ g[n] = v
  BY <1>2, <1>5, <1>6, AssignFold!FoldPasses
<1> DEFINE J(k) == WorkOK(g[k]) /\ WorkRoom(all, bl, g[k]) /\ DOMAIN g[k].es = 1 .. n
           P == {k \in 0 .. n : J(k)}
<1>8. 0 \in P
  BY <1>4, <1>7 DEF AssignFold!Passes
<1>9. ASSUME NEW k \in 0 .. (n - 1), k \in P PROVE k + 1 \in P
  <2> DEFINE m == k + 1
  <2>1. m \in 1 .. n /\ m \in 0 .. n /\ m - 1 = k /\ J(k)
    BY <1>9
  <2> HIDE DEF m
  <2>2. g[m] = AssignEntry(g[k], z, m, lo, hi, data)
    BY <1>2, <1>7, <2>1 DEF AssignFold!Passes, AssignStep
  <2>3. m \in DOMAIN g[k].es /\ WorkOK(g[k]) /\ WorkRoom(all, bl, g[k])
    BY <2>1
  <2>4. WorkOK(g[m]) /\ Grew(g[k].es, g[k].shares, g[m].es, g[m].shares)
    BY <2>2, <2>3, AssignEntryStep
  <2>5. WorkRoom(all, bl, g[m])
    BY <2>2, <2>3, AssignEntryRoom
  <2>6. DOMAIN g[m].es = 1 .. n
    BY <2>1, <2>4 DEF Grew
  <2>7. QED BY <2>1, <2>4, <2>5, <2>6 DEF m
<1>10. n \in P
  <2> HIDE DEF P
  <2>1. QED BY <1>8, <1>9, LoopInduction
<1>11. QED BY <1>7, <1>10

(* One block after the other.                                              *)
LEMMA BlocksAssignedRoom ==
  ASSUME NEW all, NEW bl, BlocksOK(bl), NEW w, WorkOK(w), WorkRoom(all, bl, w), NEW z, NEW n \in Nat, NEW blocks,
         DOMAIN blocks = 1 .. n,
         \A k \in 1 .. n : Supplies(all, bl, blocks[k].start, blocks[k].end, blocks[k].data),
         NEW v, v = HardcodedFold!Fold(z, 0, 0, 0, w, blocks)
  PROVE  WorkRoom(all, bl, v)
<1>1. HardcodedFold!Induction(n)
  BY LoopInduction DEF HardcodedFold!Induction
<1>2. PICK g : HardcodedFold!Passes(z, 0, 0, 0, w, blocks, n, g) /\ g[n] = v
  BY <1>1, HardcodedFold!FoldPasses
<1> DEFINE P == {k \in 0 .. n : WorkOK(g[k]) /\ WorkRoom(all, bl, g[k])}
<1>3. 0 \in P
  BY <1>2 DEF HardcodedFold!Passes
<1>4. ASSUME NEW k \in 0 .. (n - 1), k \in P PROVE k + 1 \in P
  <2> DEFINE m == k + 1
             x == blocks[m]
  <2>1. m \in 1 .. n /\ m \in 0 .. n /\ m - 1 = k /\ WorkOK(g[k]) /\ WorkRoom(all, bl, g[k])
    BY <1>4
  <2> HIDE DEF m
  <2>2. g[m] = block_assign_intersecting(g[k], z, x.start, x.end, x.data)
    BY <1>2, <2>1 DEF HardcodedFold!Passes, HardcodedStep
  <2>3. WorkOK(g[m])
    BY <2>1, <2>2, BlockAssigned DEF Better
  <2>4. WorkRoom(all, bl, g[m])
    BY <2>1, <2>2, BlockAssignedRoom
  <2>5. QED BY <2>1, <2>3, <2>4 DEF m
<1>5. n \in P
  <2> HIDE DEF P
  <2>1. QED BY <1>3, <1>4, LoopInduction
<1>6. QED BY <1>2, <1>5

---------------------------------------------------------------------------------
(* The span of a block is in numbers of chunks.                            *)

TakeStep(a, b, c, d, v, e) ==
  IF (e.memory = None /\ NeedsBackingStore(space, e, sharelist)) /\ Takes(v, e)
  THEN [lo |-> Min({v.lo, e.start \div MEMORY_BLOCK_CHUNK}),
        hi |-> Max({v.hi, e.end \div MEMORY_BLOCK_CHUNK})]
  ELSE v

TakeFold == INSTANCE FoldInduction WITH Op <- TakeStep

PassStep(es, b, c, d, v, i) == TakeFold!Fold(0, 0, 0, 0, v, es)

PassFold == INSTANCE FoldInduction WITH Op <- PassStep

Chunks(c) == c.lo \in Nat /\ c.hi \in Nat

(* The extremes of two numbers.                                            *)
LEMMA OfTwo ==
  ASSUME NEW x \in Nat, NEW y \in Nat
  PROVE  /\ Min({x, y}) \in {x, y} /\ Min({x, y}) <= x /\ Min({x, y}) <= y
         /\ Max({x, y}) \in {x, y} /\ Max({x, y}) >= x /\ Max({x, y}) >= y
<1>1. {x, y} \in SUBSET Nat /\ {x, y} # {}
  OBVIOUS
<1>2. {x, y} \in SUBSET (0 .. (x + y)) /\ x + y \in Nat
  OBVIOUS
<1>3. QED BY <1>1, <1>2, MinIsLeast, MaxIsGreatest

(* A pass over the entries.                                                *)
LEMMA PassIs ==
  ASSUME NEW es, EntryList(es), NEW c, Chunks(c), NEW v, v = TakeFold!Fold(0, 0, 0, 0, c, es)
  PROVE  Chunks(v)
<1>1. PICK n \in Nat : DOMAIN es = 1 .. n
  BY DEF EntryList, IsList
<1>2. TakeFold!Induction(n)
  BY LoopInduction DEF TakeFold!Induction
<1>3. PICK g : TakeFold!Passes(0, 0, 0, 0, c, es, n, g) /\ g[n] = v
  BY <1>1, <1>2, TakeFold!FoldPasses
<1> DEFINE P == {k \in 0 .. n : Chunks(g[k])}
<1>4. 0 \in P
  BY <1>3 DEF TakeFold!Passes
<1>5. ASSUME NEW k \in 0 .. (n - 1), k \in P PROVE k + 1 \in P
  <2> DEFINE m == k + 1
             e == es[m]
             r == [lo |-> Min({g[k].lo, e.start \div MEMORY_BLOCK_CHUNK}),
                   hi |-> Max({g[k].hi, e.end \div MEMORY_BLOCK_CHUNK})]
  <2>1. m \in 1 .. n /\ m \in 0 .. n /\ m - 1 = k /\ Chunks(g[k])
    BY <1>5
  <2> HIDE DEF m
  <2>2. g[m] = TakeStep(0, 0, 0, 0, g[k], e)
    BY <1>3, <2>1 DEF TakeFold!Passes
  <2>3. g[m] = r \/ g[m] = g[k]
    BY <2>2 DEF TakeStep
  <2>4. e.start \in Nat /\ e.end \in Nat
    BY <1>1, <2>1 DEF EntryList, EntryOK
  <2>5. e.start \div MEMORY_BLOCK_CHUNK \in Nat /\ e.end \div MEMORY_BLOCK_CHUNK \in Nat
    BY <2>4, MemorySetupAssumption, Division
  <2>6. Chunks(r)
    BY <2>1, <2>5, OfTwo DEF Chunks
  <2>7. QED BY <2>1, <2>3, <2>6 DEF m
<1>6. n \in P
  <2> HIDE DEF P
  <2>1. QED BY <1>4, <1>5, LoopInduction
<1>7. QED BY <1>3, <1>6

(* As many passes as there are entries.                                    *)
LEMMA SpanIs ==
  ASSUME NEW es, EntryList(es), unassigned \in DOMAIN es
  PROVE  Chunks(Span(es))
<1> DEFINE c == [lo |-> es[unassigned].start \div MEMORY_BLOCK_CHUNK,
                 hi |-> es[unassigned].end \div MEMORY_BLOCK_CHUNK]
<1>1. PICK n \in Nat : DOMAIN es = 1 .. n
  BY DEF EntryList, IsList
<1>2. Chunks(c)
  <2>1. es[unassigned].start \in Nat /\ es[unassigned].end \in Nat
    BY DEF EntryList, EntryOK
  <2>2. QED BY <2>1, MemorySetupAssumption, Division DEF Chunks
<1>3. Span(es) = PassFold!Fold(es, 0, 0, 0, c, es)
  BY DEF Span, FoldLeft, MapThenFoldSet, PassFold!Fold, PassFold!Last, PassStep,
         TakeFold!Fold, TakeFold!Last, TakeStep, Max
<1> HIDE DEF c
<1>4. PassFold!Induction(n)
  BY LoopInduction DEF PassFold!Induction
<1>5. PICK g : PassFold!Passes(es, 0, 0, 0, c, es, n, g) /\ g[n] = Span(es)
  BY <1>1, <1>3, <1>4, PassFold!FoldPasses
<1> DEFINE P == {k \in 0 .. n : Chunks(g[k])}
<1>6. 0 \in P
  BY <1>2, <1>5 DEF PassFold!Passes
<1>7. ASSUME NEW k \in 0 .. (n - 1), k \in P PROVE k + 1 \in P
  <2> DEFINE m == k + 1
  <2>1. m \in 1 .. n /\ m \in 0 .. n /\ m - 1 = k /\ Chunks(g[k])
    BY <1>7
  <2> HIDE DEF m
  <2>2. g[m] = TakeFold!Fold(0, 0, 0, 0, g[k], es)
    BY <1>5, <2>1 DEF PassFold!Passes, PassStep
  <2>3. QED BY <2>1, <2>2, PassIs DEF m
<1>8. n \in P
  <2> HIDE DEF P
  <2>1. QED BY <1>6, <1>7, LoopInduction
<1>9. QED BY <1>5, <1>8

---------------------------------------------------------------------------------
(* There is room for every entry, in whatever stage.                       *)

(* An entry that was prepared has the memory of its region; where it does  *)
(* not fit, it has a share.                                                *)
LEMMA PreparedRoom ==
  ASSUME NEW bl, DOMAIN bl \subseteq Nat, NEW z \in Spaces, NEW e \in Buckets, NEW f, f = Prepared(z, e), Fits(f),
         NEW all, NEW i \in DOMAIN all[z], f = all[z][i]
  PROVE  EntryRoom(all, bl, f)
<1>1. /\ EntryOK(f)
      /\ f.region # None => f.memory = Place(f.region, f.offset) /\ f.memory # None
      /\ f.region = None => f.memory = None
  BY PreparedIs
<1>2. RangeOK(f) /\ HasRange(f) /\ f.offset \in Nat
  BY <1>1, RangesOK DEF EntryOK
<1>3. Known(all, f)
  BY DEF Known
<1>4. ASSUME f.region # None PROVE Enough(all, bl, f.memory, Length(f))
  <2>1. f.region \in DOMAIN Regions /\ Regions[f.region] \in Nat /\ f.region \notin DOMAIN bl
    BY <1>4, MemorySetupAssumption DEF Fits
  <2>2. f.memory.memory = f.region /\ f.memory.offset = f.offset /\ Placed(bl, f.memory)
    BY <1>1, <1>2, <1>4, <2>1 DEF Placed, Place
  <2>3. CASE BeyondRegion(f)
    <3>1. f.share # None
      <4>1. Length(f) \in Nat
        BY <1>2, RangesAre
      <4>2. f.offset + Length(f) > Regions[f.region]
        BY <2>3 DEF BeyondRegion
      <4>3. ~(f.offset + Length(f) <= Regions[f.region])
        BY <1>2, <2>1, <4>1, <4>2
      <4>4. QED BY <1>4, <4>3 DEF Fits
    <3>2. Lacks(all, f.region)
      BY <1>1, <1>4, <2>2, <2>3, <3>1 DEF Lacks
    <3>3. QED BY <2>2, <3>2 DEF Enough
  <2>4. CASE ~BeyondRegion(f)
    <3>1. Length(f) \in Nat
      BY <1>2, RangesAre
    <3>2. f.offset + Length(f) <= Regions[f.region]
      BY <1>2, <1>4, <2>1, <2>4, <3>1 DEF BeyondRegion
    <3>3. QED BY <2>1, <2>2, <3>2 DEF Enough, Roomy
  <2>5. QED BY <2>3, <2>4
<1>5. QED BY <1>1, <1>2, <1>3, <1>4 DEF EntryRoom, Enough

(* The memory of the entries and the shares, with more blocks.             *)
LEMMA RoomStays ==
  ASSUME NEW bl, NEW cl, Continues(cl, bl), DOMAIN cl \subseteq Nat
  PROVE  /\ \A all, e : EntryRoom(all, bl, e) => EntryRoom(all, cl, e)
         /\ \A all, shares : ShareRoom(all, bl, shares) => ShareRoom(all, cl, shares)
<1>1. /\ \A p : Placed(bl, p) => Placed(cl, p)
      /\ \A all, p, n : Enough(all, bl, p, n) => Enough(all, cl, p, n)
  BY EnoughStays
<1>2. QED BY <1>1 DEF EntryRoom, ShareRoom

(* A list and another after it.                                            *)
LEMMA ConcatSplits ==
  ASSUME NEW s, IsSeq(s), NEW r, IsSeq(r)
  PROVE  /\ Continues(s \o r, s) /\ DOMAIN (s \o r) \subseteq Nat
         /\ \A k \in DOMAIN (s \o r) : k \in DOMAIN s \/ \E j \in DOMAIN r : (s \o r)[k] = r[j]
<1>1. PICK S : s \in Seq(S)
  BY DEF IsSeq
<1>2. PICK R : r \in Seq(R)
  BY DEF IsSeq
<1>3. /\ Len(s) \in Nat /\ DOMAIN s = 1 .. Len(s) /\ Len(r) \in Nat /\ DOMAIN r = 1 .. Len(r)
      /\ s \in Seq(S \cup R) /\ r \in Seq(S \cup R)
  BY <1>1, <1>2
<1> DEFINE q == s \o r
<1>4. /\ Len(q) = Len(s) + Len(r) /\ DOMAIN q = 1 .. Len(q)
      /\ \A k \in 1 .. Len(q) : q[k] = IF k <= Len(s) THEN s[k] ELSE r[k - Len(s)]
  BY <1>3
<1> HIDE DEF q
<1>5. Continues(q, s) /\ DOMAIN q \subseteq Nat
  BY <1>3, <1>4 DEF Continues
<1>6. ASSUME NEW k \in DOMAIN q, k \notin DOMAIN s PROVE \E j \in DOMAIN r : q[k] = r[j]
  <2>1. k - Len(s) \in DOMAIN r /\ q[k] = r[k - Len(s)]
    BY <1>3, <1>4, <1>6
  <2>2. QED BY <2>1
<1>7. QED BY <1>5, <1>6 DEF q

(* A block more, or none.                                                  *)
LEMMA BlockAdded ==
  ASSUME NEW all, NEW bl, IsSeq(bl), BlocksRoom(all, bl), NEW x, x.start \in Int, x.end \in Int,
         x.data = Place(Len(bl) + 1, 0)
  PROVE  LET cl == Append(bl, x)
         IN  /\ IsSeq(cl) /\ Continues(cl, bl) /\ BlocksRoom(all, cl) /\ BlocksOK(cl)
             /\ Enough(all, cl, x.data, Length(x))
<1> DEFINE cl == Append(bl, x)
           n == Len(bl) + 1
<1>1. Appended(cl, bl, x)
  BY AppendIs
<1> HIDE DEF cl
<1>2. /\ n \in Nat /\ DOMAIN cl = 1 .. n /\ cl[n] = x /\ IsSeq(cl)
      /\ DOMAIN bl = 1 .. (n - 1) /\ \A i \in DOMAIN bl : cl[i] = bl[i]
  BY <1>1 DEF Appended
<1>3. /\ DOMAIN cl \subseteq Nat /\ n \in DOMAIN cl
      /\ \A k \in DOMAIN cl : k = n \/ k \in DOMAIN bl
      /\ \A k \in DOMAIN bl : k \in DOMAIN cl
  BY <1>2, <1>1 DEF Appended
<1> HIDE DEF n
<1>4. Continues(cl, bl)
  BY <1>2, <1>3 DEF Continues
<1>5. Length(x) \in Int
  BY DEF Length
<1>6. Enough(all, cl, x.data, Length(x))
  BY <1>2, <1>3, <1>5, BlockHasRoom DEF n
<1>7. BlocksRoom(all, cl)
  <2>1. \A p, m : Enough(all, bl, p, m) => Enough(all, cl, p, m)
    BY <1>3, <1>4, EnoughStays
  <2>2. ASSUME NEW k \in DOMAIN cl
        PROVE  cl[k].start \in Int /\ cl[k].end \in Int /\ Enough(all, cl, cl[k].data, Length(cl[k]))
    <3>1. CASE k = n
      BY <1>2, <1>6, <3>1
    <3>2. CASE k \in DOMAIN bl
      BY <1>2, <2>1, <3>2 DEF BlocksRoom
    <3>3. QED BY <1>3, <3>1, <3>2
  <2>3. QED BY <2>2 DEF BlocksRoom
<1>8. QED BY <1>2, <1>4, <1>6, <1>7 DEF BlocksOK, BlocksRoom, cl

(* A step that assigns memory to the entries of a space.                   *)
LEMMA AssignedRoom ==
  ASSUME SetupInv, RoomInv, stage = "allocate", NEW v, WorkRoom(entries, blocklist', v),
         Grew(entries[space], sharelist, v.es, v.shares),
         entries' = [entries EXCEPT ![space] = v.es], sharelist' = v.shares, unassigned' = v.left,
         IF v.left = 0 THEN Advance ELSE UNCHANGED <<stage, space>>,
         Continues(blocklist', blocklist), BlocksRoom(entries, blocklist'), BlocksOK(blocklist')
  PROVE  RoomInv'
<1>1. space \in Spaces /\ DOMAIN entries = Spaces
  BY DEF SetupInv, StageInv, EntriesOK
<1>2. entries'[space] = v.es /\ \A z \in Spaces : z # space => entries'[z] = entries[z]
  BY <1>1
<1>3. \A e : EntryRoom(entries, blocklist, e) => EntryRoom(entries, blocklist', e)
  <2>1. DOMAIN blocklist' \subseteq Nat
    BY BlocksAre
  <2>2. QED BY <2>1, RoomStays
<1>4. Goes(entries', entries)
  BY <1>1, <1>2 DEF Goes, Grew, Assigns
<1>5. ASSUME NEW z \in Spaces, NEW i \in DOMAIN entries'[z] PROVE EntryRoom(entries, blocklist', entries'[z][i])
  <2>1. CASE z = space
    BY <1>2, <2>1 DEF WorkRoom
  <2>2. CASE z # space
    BY <1>2, <1>3, <2>2 DEF RoomInv, EntriesRoom
  <2>3. QED BY <2>1, <2>2
<1>6. unassigned' # 0 => stage' = "allocate" /\ unassigned' \in DOMAIN entries'[space']
  BY <1>2 DEF WorkRoom
<1>7. /\ EntriesRoom(entries', blocklist') /\ ShareRoom(entries', blocklist', sharelist')
      /\ BlocksRoom(entries', blocklist')
  <2>1. \A e : EntryRoom(entries, blocklist', e) => EntryRoom(entries', blocklist', e)
    BY <1>4, GoesOn
  <2>2. EntriesRoom(entries', blocklist')
    BY <1>5, <2>1 DEF EntriesRoom
  <2>3. ShareRoom(entries, blocklist', sharelist')
    BY DEF WorkRoom
  <2>4. QED BY <1>4, <2>2, <2>3, GoesOn
<1>8. QED BY <1>6, <1>7 DEF RoomInv

(* The memory that entries have becomes blocks.                            *)
LEMMA HardcodedRoom ==
  ASSUME SetupInv, BanksInv, RoomInv, AllocateHardcoded
  PROVE  RoomInv' /\ Continues(blocklist', blocklist)
<1> DEFINE es     == entries[space]
           having == Keep([i \in DOMAIN es |-> i], {i \in DOMAIN es : es[i].memory # None})
           F(k)   == LET e == es[having[Len(having) + 1 - k]] IN Block(e.start, e.end, e.memory)
           blocks == [k \in DOMAIN having |-> F(k)]
           u == [es |-> es, shares |-> sharelist, left |-> 0]
           w == FoldLeft(LAMBDA v, b : block_assign_intersecting(v, space, b.start, b.end, b.data),
                         u, blocks)
           v == IF w.left = 0 THEN AssignShares(w, space) ELSE w
<1>1. stage = "allocate" /\ Assigned(v) /\ blocklist' = blocklist \o blocks
  BY Zenon DEF AllocateHardcoded
<1>2. /\ entries' = [entries EXCEPT ![space] = v.es] /\ sharelist' = v.shares /\ unassigned' = v.left
      /\ IF v.left = 0 THEN Advance ELSE UNCHANGED <<stage, space>>
  BY Zenon, <1>1 DEF Assigned
<1>3. DOMAIN u = WorkFields /\ u.es = entries[space] /\ u.shares = sharelist /\ u.left = 0
  BY DEF WorkFields
<1>4. WorkOK(u) /\ space \in Spaces /\ IsSeq(blocklist)
  <2> HIDE DEF u
  <2>1. QED BY Zenon, <1>1, <1>3, WorkBegins DEF SetupInv, StageInv, BanksInv
<1>5. PICK n \in Nat : DOMAIN having = 1 .. n /\ n = Len(having)
                       /\ \A k \in 1 .. n : having[k] \in {i \in DOMAIN es : es[i].memory # None}
  <2>1. PICK m \in Nat : DOMAIN es = 1 .. m
    BY <1>4 DEF WorkOK, IsList
  <2> DEFINE s == [i \in DOMAIN es |-> i]
             S == {i \in DOMAIN es : es[i].memory # None}
  <2>2. s \in Seq(Nat)
    BY <2>1
  <2>3. having = Keep(s, S)
    OBVIOUS
  <2> HIDE DEF s, S, having
  <2>4. having \in Seq(Nat) /\ \E o : Picks(s, S, Len(s), having, o)
    BY <2>2, <2>3, KeepIs
  <2>5. Len(having) \in Nat /\ DOMAIN having = 1 .. Len(having)
    BY <2>4
  <2>6. PICK o : Picks(s, S, Len(s), having, o)
    BY <2>4
  <2>7. \A k \in 1 .. Len(having) : having[k] \in S
    BY <2>6 DEF Picks
  <2>8. QED BY Zenon, <2>5, <2>7 DEF S
<1>6. /\ DOMAIN blocks = 1 .. n
      /\ \A k \in 1 .. n : \E i \in DOMAIN es :
           /\ es[i].memory # None /\ blocks[k].start = es[i].start
           /\ blocks[k].end = es[i].end /\ blocks[k].data = es[i].memory
  <2>1. DOMAIN blocks = 1 .. n
    BY <1>5
  <2>2. ASSUME NEW k \in 1 .. n
        PROVE  \E i \in DOMAIN es :
                 /\ es[i].memory # None /\ blocks[k].start = es[i].start
                 /\ blocks[k].end = es[i].end /\ blocks[k].data = es[i].memory
    <3> DEFINE i == having[n + 1 - k]
    <3>1. n + 1 - k \in 1 .. n
      OBVIOUS
    <3>2. i \in DOMAIN es /\ es[i].memory # None
      BY <1>5, <3>1
    <3>3. blocks[k] = Block(es[i].start, es[i].end, es[i].memory)
      BY Zenon, <1>5
    <3> HIDE DEF i, blocks, having
    <3>4. /\ blocks[k].start = es[i].start /\ blocks[k].end = es[i].end
          /\ blocks[k].data = es[i].memory
      BY <3>3 DEF Block
    <3>5. QED BY <3>2, <3>4
  <2>3. QED BY Zenon, <2>1, <2>2
<1>7. IsSeq(blocks)
  <2>1. blocks = [k \in 1 .. n |-> blocks[k]]
    BY Zenon, <1>5
  <2> HIDE DEF blocks, having
  <2>2. QED BY <2>1, ListsAreSeqs
<1>8. w = HardcodedFold!Fold(space, 0, 0, 0, u, blocks)
  BY DEF FoldLeft, MapThenFoldSet, HardcodedFold!Fold, HardcodedFold!Last, HardcodedStep, Max
<1> HIDE DEF blocks, having, w
<1>9. \A i \in DOMAIN es : /\ EntryRoom(entries, blocklist, es[i])
                           /\ es[i].start \in Int /\ es[i].end \in Int
                           /\ es[i].memory # None => Enough(entries, blocklist, es[i].memory, Length(es[i]))
  <2>1. EntriesRoom(entries, blocklist)
    BY DEF RoomInv
  <2>2. \A i \in DOMAIN es : EntryRoom(entries, blocklist, es[i])
    BY <1>4, <2>1 DEF EntriesRoom
  <2>3. \A i \in DOMAIN es : /\ HasRange(es[i])
                             /\ es[i].memory # None => Enough(entries, blocklist, es[i].memory, Length(es[i]))
    BY <1>4, <2>1, EntryHasRoom
  <2>4. QED BY <2>2, <2>3, RangesAre
<1>10. \A k \in 1 .. n : /\ blocks[k].start \in Int /\ blocks[k].end \in Int
                         /\ Enough(entries, blocklist, blocks[k].data, Length(blocks[k]))
  <2> SUFFICES ASSUME NEW k \in 1 .. n
               PROVE  /\ blocks[k].start \in Int /\ blocks[k].end \in Int
                      /\ Enough(entries, blocklist, blocks[k].data, Length(blocks[k]))
    OBVIOUS
  <2>1. PICK i \in DOMAIN es :
           /\ es[i].memory # None /\ blocks[k].start = es[i].start
           /\ blocks[k].end = es[i].end /\ blocks[k].data = es[i].memory
    BY <1>6
  <2>2. Length(blocks[k]) = Length(es[i])
    BY <2>1 DEF Length
  <2>3. QED BY <1>9, <2>1, <2>2
<1>11. /\ IsSeq(blocklist') /\ Continues(blocklist', blocklist) /\ DOMAIN blocklist' \subseteq Nat
       /\ \A k \in DOMAIN blocklist' : k \in DOMAIN blocklist \/ \E j \in 1 .. n : blocklist'[k] = blocks[j]
  <2> HIDE DEF u, v
  <2>1. IsSeq(blocklist \o blocks)
    BY <1>4, <1>7, ConcatIs
  <2>2. /\ Continues(blocklist \o blocks, blocklist) /\ DOMAIN (blocklist \o blocks) \subseteq Nat
        /\ \A k \in DOMAIN (blocklist \o blocks) :
             k \in DOMAIN blocklist \/ \E j \in DOMAIN blocks : (blocklist \o blocks)[k] = blocks[j]
    BY <1>4, <1>7, ConcatSplits
  <2>3. QED BY <1>1, <1>6, <2>1, <2>2
<1>12. \A p, m : Enough(entries, blocklist, p, m) => Enough(entries, blocklist', p, m)
  BY <1>11, EnoughStays
<1>13. BlocksRoom(entries, blocklist') /\ BlocksOK(blocklist')
  <2>1. ASSUME NEW k \in DOMAIN blocklist'
        PROVE  /\ blocklist'[k].start \in Int /\ blocklist'[k].end \in Int
               /\ Enough(entries, blocklist', blocklist'[k].data, Length(blocklist'[k]))
    <3>1. CASE k \in DOMAIN blocklist
      BY <1>11, <1>12, <3>1 DEF RoomInv, BlocksRoom, Continues
    <3>2. ASSUME NEW j \in 1 .. n, blocklist'[k] = blocks[j]
          PROVE  /\ blocklist'[k].start \in Int /\ blocklist'[k].end \in Int
                 /\ Enough(entries, blocklist', blocklist'[k].data, Length(blocklist'[k]))
      BY <1>10, <1>12, <3>2
    <3>3. QED BY <1>11, <3>1, <3>2
  <2>2. QED BY <1>11, <2>1 DEF BlocksRoom, BlocksOK
<1>14. WorkRoom(entries, blocklist', u)
  <2>1. \A e : EntryRoom(entries, blocklist, e) => EntryRoom(entries, blocklist', e)
    BY <1>11, RoomStays
  <2>2. ShareRoom(entries, blocklist', sharelist)
    BY <1>11, RoomStays DEF RoomInv
  <2> HIDE DEF u
  <2>3. QED BY <1>3, <1>9, <2>1, <2>2 DEF WorkRoom
<1>15. \A k \in 1 .. n : Supplies(entries, blocklist', blocks[k].start, blocks[k].end, blocks[k].data)
  <2> SUFFICES ASSUME NEW k \in 1 .. n
               PROVE  Supplies(entries, blocklist', blocks[k].start, blocks[k].end, blocks[k].data)
    OBVIOUS
  <2>1. /\ blocks[k].start \in Int /\ blocks[k].end \in Int
        /\ Enough(entries, blocklist', blocks[k].data, Length(blocks[k]))
    BY <1>10, <1>12
  <2>2. QED BY <2>1 DEF Supplies, Length
<1> HIDE DEF u
<1>16. Better(u, w) /\ WorkRoom(entries, blocklist', w)
  <2>1. Better(u, w)
    BY <1>4, <1>6, <1>8, BlocksAssigned
  <2>2. QED BY <1>4, <1>6, <1>8, <1>13, <1>14, <1>15, <2>1, BlocksAssignedRoom
<1>17. Better(u, v) /\ WorkRoom(entries, blocklist', v)
  <2>1. CASE w.left = 0
    <3>1. v = block_assign_intersecting(w, space, 2^AddrBits, 0, Place(None, 0))
      BY <2>1 DEF AssignShares
    <3> HIDE DEF v
    <3>2. Better(w, v)
      BY <1>16, <3>1, BlockAssigned DEF Better
    <3>3. Supplies(entries, blocklist', 2^AddrBits, 0, Place(None, 0))
      BY AddressesAre DEF Supplies
    <3>4. WorkRoom(entries, blocklist', v)
      BY <1>13, <1>16, <3>1, <3>3, BlockAssignedRoom DEF Better
    <3>5. QED BY <1>16, <3>2, <3>4, GrewTwice DEF Better
  <2>2. CASE w.left # 0
    BY <1>16, <2>2
  <2>3. QED BY <2>1, <2>2
<1> HIDE DEF v
<1>18. QED BY <1>1, <1>2, <1>3, <1>11, <1>13, <1>17, AssignedRoom DEF Better

(* A new block is as long as its range, which takes in whole chunks.       *)
LEMMA BlockRoom ==
  ASSUME SetupInv, BanksInv, RoomInv, AllocateBlock
  PROVE  RoomInv' /\ Continues(blocklist', blocklist)
<1> DEFINE es   == entries[space]
           c    == Span(entries[space])
           lo   == c.lo * MEMORY_BLOCK_CHUNK
           hi   == (c.hi + 1) * MEMORY_BLOCK_CHUNK - 1
           data == Place(Len(blocklist) + 1, 0)
           x    == Block(lo, hi, data)
           u == [es |-> entries[space], shares |-> sharelist, left |-> 0]
           v == block_assign_intersecting(u, space, lo, hi, data)
<1>1. /\ stage = "allocate" /\ unassigned # 0 /\ Assigned(v)
      /\ blocklist' = Append(blocklist, x)
  BY DEF AllocateBlock
<1>2. /\ space \in Spaces /\ EntryList(es) /\ unassigned \in DOMAIN es /\ IsSeq(blocklist)
      /\ BlocksRoom(entries, blocklist)
  BY <1>1 DEF SetupInv, StageInv, EntriesOK, EntryList, RoomInv, BanksInv
<1>3. lo \in Int /\ hi \in Int
  <2>1. Chunks(c)
    BY <1>2, SpanIs
  <2> HIDE DEF c
  <2>2. QED BY <2>1, MemorySetupAssumption DEF Chunks
<1> HIDE DEF lo, hi, c
<1>4. x.start = lo /\ x.end = hi /\ x.data = data
  BY DEF Block
<1>5. /\ Continues(blocklist', blocklist) /\ BlocksRoom(entries, blocklist') /\ BlocksOK(blocklist')
      /\ Enough(entries, blocklist', data, Length(x))
  <2> HIDE DEF x
  <2>1. QED BY <1>1, <1>2, <1>3, <1>4, BlockAdded
<1>6. Supplies(entries, blocklist', lo, hi, data)
  <2>1. Length(x) = hi - lo + 1
    BY <1>4 DEF Length
  <2>2. QED BY <1>3, <1>5, <2>1 DEF Supplies
<1>7. /\ entries' = [entries EXCEPT ![space] = v.es] /\ sharelist' = v.shares /\ unassigned' = v.left
      /\ IF v.left = 0 THEN Advance ELSE UNCHANGED <<stage, space>>
  BY <1>1 DEF Assigned
<1>8. DOMAIN u = WorkFields /\ u.es = entries[space] /\ u.shares = sharelist /\ u.left = 0
  BY DEF WorkFields
<1> HIDE DEF u, data, x
<1>9. WorkOK(u)
  BY <1>1, <1>8, WorkBegins
<1>10. WorkRoom(entries, blocklist', u)
  <2>1. DOMAIN blocklist' \subseteq Nat
    BY <1>5, BlocksAre
  <2>2. /\ \A e : EntryRoom(entries, blocklist, e) => EntryRoom(entries, blocklist', e)
        /\ ShareRoom(entries, blocklist', sharelist)
    BY <1>5, <2>1, RoomStays DEF RoomInv
  <2>3. QED BY <1>2, <1>8, <2>2 DEF WorkRoom, RoomInv, EntriesRoom
<1>11. Better(u, v)
  BY <1>9, BlockAssigned
<1>12. WorkRoom(entries, blocklist', v)
  BY <1>5, <1>6, <1>9, <1>10, BlockAssignedRoom
<1> HIDE DEF v
<1>13. QED BY <1>1, <1>5, <1>7, <1>8, <1>11, <1>12, AssignedRoom DEF Better

(* prepare_map makes shares without memory, and no block.                  *)
LEMMA PrepareRoom ==
  ASSUME SetupInv, BanksInv, RoomInv, PrepareMap
  PROVE  RoomInv'
<1> DEFINE ready == [i \in DOMAIN entries[space] |-> Prepared(space, entries[space][i])]
<1>1. /\ stage = "prepare" /\ \A i \in DOMAIN ready : Fits(ready[i])
      /\ entries' = [entries EXCEPT ![space] = ready]
      /\ sharelist' = [s \in NewShares(space) \cup DOMAIN sharelist |->
                         IF s \in DOMAIN sharelist THEN sharelist[s] ELSE None]
      /\ UNCHANGED <<blocklist, unassigned>>
  BY DEF PrepareMap
<1>2. /\ space \in Spaces /\ DOMAIN entries = Spaces /\ ~HasPrepared(space)
      /\ \A i \in DOMAIN entries[space] : EntryInv(space, entries[space][i])
      /\ \A s \in DOMAIN sharelist : sharelist[s] = None
  BY <1>1, SpacesAre DEF SetupInv, StageInv, EntriesOK, HasPrepared
<1>3. \A s \in DOMAIN sharelist' : sharelist'[s] = None
  BY <1>1, <1>2
<1>4. entries'[space] = ready /\ \A z \in Spaces : z # space => entries'[z] = entries[z]
  BY <1>1, <1>2
<1>5. DOMAIN blocklist \subseteq Nat
  BY DEF BanksInv, IsSeq
<1>6. \A i \in DOMAIN entries[space] : /\ entries[space][i] \in Buckets /\ entries[space][i].memory = None
                                      /\ ready[i] = Prepared(space, entries[space][i]) /\ Fits(ready[i])
  BY <1>1, <1>2, BucketsAre DEF EntryInv
<1>7. DOMAIN ready = DOMAIN entries[space]
  OBVIOUS
<1> HIDE DEF ready
<1>8. Goes(entries', entries)
  <2>1. ASSUME NEW i \in DOMAIN entries[space]
        PROVE  /\ ready[i].start = entries[space][i].start /\ ready[i].end = entries[space][i].end
               /\ ready[i].share = entries[space][i].share /\ entries[space][i].memory = None
    BY <1>2, <1>6, PreparedIs
  <2>2. QED BY <1>4, <1>7, <2>1 DEF Goes
<1>9. ASSUME NEW i \in DOMAIN ready PROVE EntryRoom(entries', blocklist, ready[i])
  <2>1. /\ entries[space][i] \in Buckets /\ ready[i] = Prepared(space, entries[space][i]) /\ Fits(ready[i])
    BY <1>6, <1>7
  <2>2. i \in DOMAIN entries'[space] /\ ready[i] = entries'[space][i]
    BY <1>4
  <2>3. QED BY <1>2, <1>5, <2>1, <2>2, PreparedRoom
<1>10. EntriesRoom(entries', blocklist')
  <2>1. \A e : EntryRoom(entries, blocklist, e) => EntryRoom(entries', blocklist, e)
    BY <1>8, GoesOn
  <2>2. QED BY <1>1, <1>4, <1>9, <2>1 DEF RoomInv, EntriesRoom
<1>11. ShareRoom(entries', blocklist', sharelist') /\ BlocksRoom(entries', blocklist') /\ unassigned' = 0
  <2>1. BlocksRoom(entries', blocklist)
    BY <1>8, GoesOn DEF RoomInv
  <2>2. QED BY <1>1, <1>3, <2>1 DEF ShareRoom, RoomInv
<1>12. QED BY <1>10, <1>11 DEF RoomInv

(* What is installed later may add a block, for its own range.             *)
LEMMA InstallRoom ==
  ASSUME SetupInv, BanksInv, RoomInv, NEW z, NEW ds, NEW e \in Installs, NEW given, Install(z, ds, e, given)
  PROVE  RoomInv' /\ Continues(blocklist', blocklist)
<1> DEFINE x == [space |-> z, start |-> e.start, end |-> e.end, data |-> Place(Len(blocklist) + 1, 0)]
<1>1. /\ stage = "initialized" /\ UNCHANGED <<space, entries, sharelist, unassigned>>
      /\ blocklist' = blocklist \/ blocklist' = Append(blocklist, x)
  BY Zenon DEF Install
<1>2. unassigned' = 0
  BY <1>1 DEF RoomInv
<1>3. CASE blocklist' = blocklist
  <2>1. Continues(blocklist', blocklist)
    BY <1>3 DEF Continues
  <2>2. QED BY <1>1, <1>2, <1>3, <2>1 DEF RoomInv
<1>4. CASE blocklist' = Append(blocklist, x)
  <2>1. e.start \in Int /\ e.end \in Int
    BY RangesOK, RangesAre
  <2>2. x.start = e.start /\ x.end = e.end /\ x.data = Place(Len(blocklist) + 1, 0)
    OBVIOUS
  <2> HIDE DEF x
  <2>3. /\ IsSeq(blocklist') /\ Continues(blocklist', blocklist) /\ BlocksRoom(entries, blocklist')
        /\ BlocksOK(blocklist')
    BY <1>4, <2>1, <2>2, BlockAdded DEF BanksInv, RoomInv
  <2>4. DOMAIN blocklist' \subseteq Nat
    BY <2>3, BlocksAre
  <2>5. /\ \A f : EntryRoom(entries, blocklist, f) => EntryRoom(entries, blocklist', f)
        /\ ShareRoom(entries, blocklist', sharelist)
    BY <2>3, <2>4, RoomStays DEF RoomInv
  <2>6. QED BY <1>1, <1>2, <2>3, <2>5 DEF RoomInv, EntriesRoom
<1>5. QED BY <1>1, <1>3, <1>4

(* Every step leaves the memory of all entries with room for them, and the *)
(* blocks as they were.                                                    *)
LEMMA RoomStep ==
  ASSUME SetupInv, BanksInv, RoomInv, [Next]_vars
  PROVE  RoomInv' /\ Continues(blocklist', blocklist)
<1>1. CASE PrepareMap
  <2>1. blocklist' = blocklist
    BY <1>1 DEF PrepareMap
  <2>2. QED BY <1>1, <2>1, PrepareRoom DEF Continues
<1>2. ASSUME UNCHANGED <<entries, sharelist, blocklist, unassigned>>,
             stage # "allocate" \/ (stage' = stage /\ space' = space)
      PROVE  RoomInv' /\ Continues(blocklist', blocklist)
  <2>1. unassigned # 0 => stage' = "allocate" /\ space' = space
    BY <1>2 DEF RoomInv
  <2>2. Continues(blocklist', blocklist)
    BY <1>2 DEF Continues
  <2>3. QED BY <1>2, <2>1, <2>2 DEF RoomInv
<1>3. CASE RegionError
  BY <1>2, <1>3 DEF RegionError
<1>4. CASE PopulateFromMap
  <2>1. stage # "allocate" /\ UNCHANGED <<entries, sharelist, blocklist, unassigned>>
    BY <1>4 DEF PopulateFromMap
  <2>2. QED BY <1>2, <2>1
<1>5. CASE AllocateHardcoded
  BY <1>5, HardcodedRoom
<1>6. CASE AllocateBlock
  BY <1>6, BlockRoom
<1>7. CASE LocateMemory
  BY <1>2, <1>7 DEF LocateMemory
<1>8. ASSUME NEW z, NEW ds, NEW e \in Installs, NEW given, Install(z, ds, e, given)
      PROVE  RoomInv' /\ Continues(blocklist', blocklist)
  BY <1>8, InstallRoom
<1>9. CASE UNCHANGED vars
  BY <1>2, <1>9 DEF vars
<1>10. QED BY <1>1, <1>3, <1>4, <1>5, <1>6, <1>7, <1>8, <1>9 DEF Next

(* No entry has memory at first.                                           *)
LEMMA RoomStarts == Init => RoomInv
<1> SUFFICES ASSUME Init PROVE RoomInv
  OBVIOUS
<1>1. /\ entries \in [Spaces -> Seq(Buckets)] /\ unassigned = 0
      /\ DOMAIN sharelist = {} /\ DOMAIN blocklist = {}
  <2>1. sharelist = << >> /\ blocklist = << >> /\ entries \in Maps /\ unassigned = 0
    BY DEF Init
  <2>2. QED BY <2>1, MemorySetupAssumption
<1>2. ASSUME NEW z \in Spaces, NEW i \in DOMAIN entries[z] PROVE EntryRoom(entries, blocklist, entries[z][i])
  <2>1. entries[z] \in Seq(Buckets)
    BY <1>1
  <2>2. entries[z][i] \in Buckets
    BY <2>1
  <2>3. QED BY <2>2, BucketsAre DEF EntryRoom, EntryOK, Known
<1>3. QED BY <1>1, <1>2 DEF RoomInv, EntriesRoom, ShareRoom, BlocksRoom

---------------------------------------------------------------------------------
(* The banks have room for their ranges.                                   *)

(* The entries of all the spaces are an argument here too.                 *)
Namers(all, z, tag) == {e \in Range(all[z]) : e.tag = tag /\ "BANK" \in {e.read, e.write}}

Shorter(all, k) == \E z \in Spaces : \E i \in DOMAIN all[z] :
                     all[z][i].start = k.start /\ all[z][i].end < k.end

BankRoom(all, bl, k) ==
  /\ HasRange(k)
  /\ DOMAIN k.handler = Spaces /\ \A z \in Spaces : DOMAIN k.handler[z] = Directions
  /\ k.base # None => Enough(all, bl, k.base, Length(k)) \/ Shorter(all, k)

(* The ranges a bank is mapped for: its own, with any mirror, or those of  *)
(* the entries of the space that name it.                                  *)
RangeOf(all, k, z, e) ==
  IF k.tag = None THEN RangeOK(e) /\ e.start = k.start /\ e.end = k.end ELSE e \in Namers(all, z, k.tag)

Covers(all, k, z, x)     == \E e : RangeOf(all, k, z, e) /\ x \in Copies(e)
Configured(all, k, z, h) == \E e : RangeOf(all, k, z, e) /\ h = [start |-> e.start, size |-> RoundedUp(e)]

(* An address is mapped for one of the ranges of its bank, and the handler *)
(* of the bank is configured for one of them.                              *)
HandledOK(all, b, t, z, d, x) ==
  LET n == t[z][d][x]
  IN  n # 0 => /\ n \in DOMAIN b
               /\ Covers(all, b[n], z, x)
               /\ Configured(all, b[n], z, b[n].handler[z][d])

TableRoom(all, bl, b, t) ==
  /\ \A n \in DOMAIN b : BankRoom(all, bl, b[n])
  /\ \A z \in Spaces, d \in Directions, x \in Addresses : HandledOK(all, b, t, z, d, x)

ReachInv == TableRoom(entries, blocklist, banklist, table)

(* The copies of a range are those of its start, its end and its mirror.   *)
LEMMA CopiesAre ==
  ASSUME NEW e, NEW f, e.start = f.start, e.end = f.end
  PROVE  /\ Length(e) = Length(f) /\ RoundedUp(e) = RoundedUp(f)
         /\ e.mirror = f.mirror => Copies(e) = Copies(f)
<1>1. Length(e) = Length(f) /\ RoundedUp(e) = RoundedUp(f)
  BY DEF Length, RoundedUp
<1>2. ASSUME e.mirror = f.mirror PROVE Copies(e) = Copies(f)
  <2>1. \A y, x : Mirrors(e, y, x) <=> Mirrors(f, y, x)
    BY <1>2 DEF Mirrors
  <2>2. QED BY <2>1 DEF Copies
<1>3. QED BY <1>1, <1>2

(* The ranges of a bank are those of its tag, or its own.                  *)
LEMMA RangesSame ==
  ASSUME NEW all, NEW k, NEW j, k.tag = j.tag, k.start = j.start, k.end = j.end, NEW z
  PROVE  /\ \A x : Covers(all, j, z, x) => Covers(all, k, z, x)
         /\ \A h : Configured(all, j, z, h) => Configured(all, k, z, h)
         /\ Length(k) = Length(j) /\ HasRange(j) <=> HasRange(k)
         /\ Shorter(all, j) => Shorter(all, k)
<1>1. \A e : RangeOf(all, j, z, e) <=> RangeOf(all, k, z, e)
  BY DEF RangeOf
<1>2. QED BY <1>1 DEF Covers, Configured, HasRange, Shorter, Length

(* Banks that differ in the memory behind them, or in their references.    *)
LEMMA BanksChange ==
  ASSUME NEW all, NEW bl, NEW b, NEW t, TableRoom(all, bl, b, t), NEW c, DOMAIN c = DOMAIN b,
         \A n \in DOMAIN b : /\ c[n].tag = b[n].tag /\ c[n].start = b[n].start /\ c[n].end = b[n].end
                             /\ c[n].handler = b[n].handler /\ BankRoom(all, bl, c[n])
  PROVE  TableRoom(all, bl, c, t)
<1>1. ASSUME NEW z \in Spaces, NEW d \in Directions, NEW x \in Addresses PROVE HandledOK(all, c, t, z, d, x)
  <2>1. HandledOK(all, b, t, z, d, x)
    BY DEF TableRoom
  <2> SUFFICES ASSUME t[z][d][x] # 0 PROVE HandledOK(all, c, t, z, d, x)
    BY DEF HandledOK
  <2>2. PICK n \in DOMAIN b : n = t[z][d][x] /\ Covers(all, b[n], z, x) /\ Configured(all, b[n], z, b[n].handler[z][d])
    BY <2>1 DEF HandledOK
  <2>3. Covers(all, c[n], z, x) /\ Configured(all, c[n], z, b[n].handler[z][d])
    BY <2>2, RangesSame
  <2>4. QED BY Zenon, <2>2, <2>3 DEF HandledOK
<1>2. QED BY <1>1 DEF TableRoom

(* What may be mapped to a bank with a tag, or to one without.             *)
Mappable(all, z, tag, e) == RangeOK(e) /\ (tag # None => e \in Namers(all, z, tag))

(* Mapping an entry configures the handler of its bank for it.             *)
LEMMA MapToRoom ==
  ASSUME NEW all, NEW bl, NEW u, UpdateOK(u), TableRoom(all, bl, u.b, u.t), NEW z \in Spaces, NEW d \in Directions,
         NEW tag, NEW e, Mappable(all, z, tag, e), NEW n \in DOMAIN u.b, n # 0, u.b[n].tag = tag,
         tag = None => u.b[n].start = e.start /\ u.b[n].end = e.end,
         NEW v, v = MapTo(u, z, d, n, e)
  PROVE  TableRoom(all, bl, v.b, v.t)
<1> DEFINE h == [start |-> e.start, size |-> RoundedUp(e)]
           bank == u.b[n]
           k == [bank EXCEPT !.handler[z][d] = h, !.reflist = bank.reflist \cup {<<z, d>>}]
           row == [x \in Addresses |-> IF x \in Copies(e) THEN n ELSE u.t[z][d][x]]
<1>1. /\ DOMAIN u = UpdateFields /\ DOMAIN bank = BankFields
      /\ DOMAIN u.t = Spaces
      /\ \A y \in Spaces : DOMAIN u.t[y] = Directions /\ \A c \in Directions : DOMAIN u.t[y][c] = Addresses
  BY DEF UpdateOK, TableOK, BankOK
<1>2. /\ v.t = [u.t EXCEPT ![z][d] = row] /\ v.b = [u.b EXCEPT ![n] = k]
  <2>1. v.t = [u.t EXCEPT ![z][d] = row]
    BY <1>1 DEF MapTo, UpdateFields
  <2>2. v.b = [u.b EXCEPT ![n] = k]
    BY <1>1 DEF MapTo, UpdateFields
  <2>3. QED BY <2>1, <2>2
<1>3. BankRoom(all, bl, bank)
  BY DEF TableRoom
<1>4. /\ k.tag = tag /\ k.start = bank.start /\ k.end = bank.end /\ k.base = bank.base
      /\ k.handler = [bank.handler EXCEPT ![z][d] = h]
  <2> HIDE DEF h
  <2>1. QED BY <1>1 DEF BankFields
<1> HIDE DEF k, row
<1>5. /\ DOMAIN k.handler = Spaces /\ k.handler[z][d] = h
      /\ \A y \in Spaces : DOMAIN k.handler[y] = Directions
      /\ \A y \in Spaces, c \in Directions : y # z \/ c # d => k.handler[y][c] = bank.handler[y][c]
  <2>1. DOMAIN bank.handler = Spaces /\ \A y \in Spaces : DOMAIN bank.handler[y] = Directions
    BY <1>3 DEF BankRoom
  <2> HIDE DEF h
  <2>2. QED BY <1>4, <2>1
<1>6. /\ DOMAIN v.b = DOMAIN u.b /\ v.b[n] = k
      /\ \A m \in DOMAIN u.b : m # n => v.b[m] = u.b[m]
  BY <1>2
<1>7. /\ v.t[z][d] = row
      /\ \A y \in Spaces, c \in Directions : y # z \/ c # d => v.t[y][c] = u.t[y][c]
  BY <1>1, <1>2
<1>8. \A x \in Addresses : row[x] = IF x \in Copies(e) THEN n ELSE u.t[z][d][x]
  BY DEF row
<1>9. BankRoom(all, bl, k)
  <2>1. /\ Length(k) = Length(bank) /\ HasRange(k) /\ (Shorter(all, bank) => Shorter(all, k))
    BY <1>3, <1>4, RangesSame DEF BankRoom
  <2>2. QED BY <1>3, <1>4, <1>5, <2>1 DEF BankRoom
<1>10. Configured(all, k, z, h) /\ \A x : x \in Copies(e) => Covers(all, k, z, x)
  <2>1. RangeOf(all, k, z, e)
    BY <1>4 DEF RangeOf, Mappable
  <2>2. QED BY <2>1 DEF Configured, Covers
<1>11. ASSUME NEW y \in Spaces, NEW c \in Directions, NEW x \in Addresses PROVE HandledOK(all, v.b, v.t, y, c, x)
  <2>1. HandledOK(all, u.b, u.t, y, c, x)
    BY DEF TableRoom
  <2>2. CASE y = z /\ c = d /\ x \in Copies(e)
    <3>1. v.t[y][c][x] = n
      BY <1>7, <1>8, <2>2
    <3>2. QED BY <1>5, <1>6, <1>10, <2>2, <3>1 DEF HandledOK
  <2>3. CASE ~(y = z /\ c = d /\ x \in Copies(e))
    <3>1. v.t[y][c][x] = u.t[y][c][x]
      BY <1>7, <1>8, <2>3
    <3>2. CASE u.t[y][c][x] = n
      <4>1. Covers(all, bank, y, x) /\ Configured(all, bank, y, bank.handler[y][c])
        BY <2>1, <3>2 DEF HandledOK
      <4>2. Covers(all, k, y, x) /\ Configured(all, k, y, bank.handler[y][c])
        BY <1>4, <4>1, RangesSame
      <4>3. Configured(all, k, y, k.handler[y][c])
        BY <1>5, <1>10, <4>2
      <4>4. QED BY <1>6, <3>1, <3>2, <4>2, <4>3 DEF HandledOK
    <3>3. CASE u.t[y][c][x] # n
      BY <1>6, <2>1, <3>1, <3>3 DEF HandledOK
    <3>4. QED BY <3>2, <3>3
  <2>4. QED BY <2>2, <2>3
<1>12. \A m \in DOMAIN v.b : BankRoom(all, bl, v.b[m])
  BY <1>6, <1>9 DEF TableRoom
<1>13. QED BY <1>11, <1>12 DEF TableRoom

(* Mapping to the bank that was found, or to a new one.                    *)
LEMMA MapBankRoom ==
  ASSUME NEW all, NEW bl, NEW u, UpdateOK(u), TableRoom(all, bl, u.b, u.t), NEW z \in Spaces, NEW d \in Directions,
         NEW tag, NEW e, Mappable(all, z, tag, e), ~u.full,
         NEW v, v = MapBank(u, z, d, tag, e)
  PROVE  TableRoom(all, bl, v.b, v.t)
<1> DEFINE found == BankNumbers(u, z, tag, e)
<1>1. /\ found = {m \in DOMAIN u.b : Matches(u.b[m], z, tag, e)} /\ found \subseteq Nat
      /\ 0 \notin DOMAIN u.b /\ Len(u.b) \in Nat /\ DOMAIN u.b = 1 .. Len(u.b)
      /\ \A m \in DOMAIN u.b : BankOK(u.b[m])
  BY NumbersAre DEF UpdateOK, TableOK
<1>2. CASE found # {}
  <2> DEFINE n == Min(found)
             w == MapTo(u, z, d, n, e)
  <2>1. v = [w EXCEPT !.last = n]
    BY <1>2 DEF MapBank
  <2>2. n \in found
    <3> HIDE DEF found
    <3>1. QED BY <1>1, <1>2, MinIsLeast
  <2> HIDE DEF n, found
  <2>3. n \in DOMAIN u.b /\ n # 0 /\ Matches(u.b[n], z, tag, e) /\ BankOK(u.b[n])
    BY <1>1, <2>2
  <2>4. /\ u.b[n].tag = tag
        /\ tag = None => u.b[n].start = e.start /\ u.b[n].end = e.end
        /\ u.b[n].tag = None => /\ u.b[n].start = e.start /\ u.b[n].end = e.end
                                /\ \A y \in Spaces : References(u.b[n], y) => y = z
    BY <2>3 DEF Matches, BankOK
  <2>5. UpdateOK(w)
    BY <2>3, <2>4, MapToIs
  <2>6. TableRoom(all, bl, w.b, w.t)
    BY <2>3, <2>4, MapToRoom
  <2> HIDE DEF w
  <2>7. v.b = w.b /\ v.t = w.t
    BY <2>1, <2>5 DEF UpdateOK, UpdateFields
  <2>8. QED BY <2>6, <2>7
<1>3. CASE found = {} /\ Len(u.b) = STATIC_BANKMAX
  <2>1. v = [u EXCEPT !.full = TRUE]
    BY <1>3 DEF MapBank
  <2>2. v.b = u.b /\ v.t = u.t
    BY <2>1 DEF UpdateOK, UpdateFields
  <2>3. QED BY <2>2
<1>4. CASE found = {} /\ Len(u.b) # STATIC_BANKMAX
  <2> DEFINE k == NewBank(tag, e)
             n == Len(u.b) + 1
             s == Append(u.b, k)
             a == [u EXCEPT !.b = s]
             w == MapTo(a, z, d, n, e)
  <2>1. v = [w EXCEPT !.last = n]
    BY <1>4 DEF MapBank
  <2>2. /\ DOMAIN k = BankFields /\ k.tag = tag /\ k.start = e.start /\ k.end = e.end
        /\ k.base = None /\ k.reflist = {}
        /\ DOMAIN k.handler = Spaces /\ \A y \in Spaces : DOMAIN k.handler[y] = Directions
    BY DEF NewBank, BankFields
  <2> HIDE DEF k
  <2>3. Appended(s, u.b, k)
    BY AppendIs DEF UpdateOK, TableOK
  <2> HIDE DEF s
  <2>4. /\ IsSeq(s) /\ n \in DOMAIN s /\ n # 0 /\ s[n] = k
        /\ \A m \in DOMAIN u.b : m \in DOMAIN s /\ s[m] = u.b[m]
        /\ \A m \in DOMAIN s : m = n \/ m \in DOMAIN u.b
    BY <1>1, <2>3 DEF Appended
  <2> HIDE DEF n
  <2>5. DOMAIN u = UpdateFields /\ TableOK(u.b, u.t)
    BY DEF UpdateOK
  <2>6. DOMAIN a = UpdateFields /\ a.b = s /\ a.t = u.t
    BY <2>5 DEF UpdateFields
  <2> HIDE DEF a
  <2>7. BankOK(k) /\ \A y : ~References(k, y)
    BY <2>2 DEF BankOK, References
  <2>8. UpdateOK(a)
    <3>1. \A m \in DOMAIN s : BankOK(s[m])
      BY <1>1, <2>4, <2>7
    <3>2. ASSUME NEW y \in Spaces, NEW c \in Directions, NEW x \in Addresses PROVE MappedOK(s, u.t, y, c, x)
      <4>1. MappedOK(u.b, u.t, y, c, x)
        BY <2>5 DEF TableOK
      <4>2. QED BY <2>4, <4>1 DEF MappedOK
    <3>3. TableOK(s, u.t)
      BY <2>4, <2>5, <3>1, <3>2 DEF TableOK
    <3>4. QED BY <2>6, <3>3 DEF UpdateOK
  <2>9. BankRoom(all, bl, k)
    <3>1. HasRange(k)
      BY <2>2, RangesOK DEF Mappable, HasRange
    <3>2. QED BY <2>2, <3>1 DEF BankRoom
  <2>10. TableRoom(all, bl, a.b, a.t)
    <3>1. \A m \in DOMAIN s : BankRoom(all, bl, s[m])
      BY <2>4, <2>9 DEF TableRoom
    <3>2. ASSUME NEW y \in Spaces, NEW c \in Directions, NEW x \in Addresses PROVE HandledOK(all, s, u.t, y, c, x)
      <4>1. HandledOK(all, u.b, u.t, y, c, x)
        BY DEF TableRoom
      <4>2. QED BY <2>4, <4>1 DEF HandledOK
    <3>3. QED BY <2>6, <3>1, <3>2 DEF TableRoom
  <2>11. /\ n \in DOMAIN a.b /\ a.b[n].tag = tag /\ n # 0
         /\ a.b[n].start = e.start /\ a.b[n].end = e.end
         /\ \A y \in Spaces : ~References(a.b[n], y)
    BY <2>2, <2>4, <2>6, <2>7
  <2>12. UpdateOK(w) /\ TableRoom(all, bl, w.b, w.t)
    <3>1. UpdateOK(w)
      BY <2>8, <2>11, MapToIs
    <3>2. TableRoom(all, bl, w.b, w.t)
      BY <2>8, <2>10, <2>11, MapToRoom
    <3>3. QED BY <3>1, <3>2
  <2> HIDE DEF w
  <2>13. v.b = w.b /\ v.t = w.t
    BY <2>1, <2>12 DEF UpdateOK, UpdateFields
  <2>14. QED BY <2>12, <2>13
<1>5. QED BY <1>2, <1>3, <1>4

(* A bank gets memory with room for its range, or none.                    *)
LEMMA SetBaseRoom ==
  ASSUME NEW all, NEW bl, NEW u, UpdateOK(u), TableRoom(all, bl, u.b, u.t), NEW n \in DOMAIN u.b,
         NEW p, p # None => Enough(all, bl, p, Length(u.b[n])),
         NEW v, v = set_base(u, n, p)
  PROVE  TableRoom(all, bl, v.b, v.t)
<1> DEFINE k == [u.b[n] EXCEPT !.base = p]
<1>1. DOMAIN u = UpdateFields /\ DOMAIN u.b[n] = BankFields /\ BankRoom(all, bl, u.b[n])
  BY DEF UpdateOK, TableOK, BankOK, TableRoom
<1>2. v = [u EXCEPT !.b[n] = k]
  BY DEF set_base
<1>3. /\ k.tag = u.b[n].tag /\ k.start = u.b[n].start /\ k.end = u.b[n].end
      /\ k.base = p /\ k.handler = u.b[n].handler
  BY <1>1 DEF BankFields
<1> HIDE DEF k
<1>4. v.t = u.t /\ v.b = [u.b EXCEPT ![n] = k]
  BY <1>1, <1>2 DEF UpdateFields
<1>5. DOMAIN v.b = DOMAIN u.b /\ v.b[n] = k /\ \A m \in DOMAIN u.b : m # n => v.b[m] = u.b[m]
  BY <1>4
<1>6. BankRoom(all, bl, k)
  <2>1. Length(k) = Length(u.b[n]) /\ HasRange(k)
    BY <1>1, <1>3, RangesSame DEF BankRoom
  <2>2. QED BY <1>1, <1>3, <2>1 DEF BankRoom
<1>7. \A m \in DOMAIN u.b : /\ v.b[m].tag = u.b[m].tag /\ v.b[m].start = u.b[m].start
                            /\ v.b[m].end = u.b[m].end /\ v.b[m].handler = u.b[m].handler
                            /\ BankRoom(all, bl, v.b[m])
  BY <1>3, <1>5, <1>6 DEF TableRoom
<1>8. TableRoom(all, bl, v.b, u.t)
  BY <1>5, <1>7, BanksChange
<1>9. QED BY <1>4, <1>8

(* The memory that is found behind a range has room for it.                *)
LEMMA FindBackingRoom ==
  ASSUME SetupInv, stage # "failed", BanksInv, RoomInv, NEW z \in Spaces, NEW e, HasRange(e),
         NEW p, p = find_backing_memory(z, e), p # None
  PROVE  Enough(entries, blocklist, p, Length(e))
<1> DEFINE es   == entries[z]
           over == {i \in DOMAIN es : es[i].memory # None /\ es[i].start <= e.start /\ e.end <= es[i].end}
           held == {k \in DOMAIN blocklist : /\ blocklist[k].space = z
                                             /\ blocklist[k].start <= e.start /\ e.end <= blocklist[k].end}
<1>1. /\ e.start \in Nat /\ e.end \in Nat /\ Length(e) \in Nat /\ Length(e) = e.end - e.start + 1
  BY RangesAre
<1>2. BlocksOK(blocklist) /\ DOMAIN blocklist \subseteq Nat
  <2>1. BlocksOK(blocklist)
    BY DEF BanksInv, RoomInv, BlocksOK, BlocksRoom
  <2>2. QED BY <2>1, BlocksAre
<1>3. CASE over # {}
  <2> DEFINE i == Max(over)
  <2>1. p = Beyond(es[i].memory, e.start - es[i].start)
    BY Zenon, <1>3 DEF find_backing_memory
  <2>2. PICK n \in Nat : DOMAIN es = 1 .. n
    BY DEF SetupInv, EntriesOK, IsList
  <2>3. i \in over
    <3>1. over \in SUBSET (0 .. n)
      BY <2>2
    <3> HIDE DEF over
    <3>2. QED BY <1>3, <3>1, MaxIsGreatest
  <2>4. /\ i \in DOMAIN es /\ es[i].memory # None /\ es[i].start <= e.start /\ e.end <= es[i].end
    BY Zenon, <2>3
  <2> HIDE DEF i, over
  <2>5. HasRange(es[i]) /\ Enough(entries, blocklist, es[i].memory, Length(es[i]))
    BY <2>4, EntryHasRoom DEF RoomInv
  <2>6. /\ Enough(entries, blocklist, es[i].memory, Length(es[i])) /\ es[i].start \in Nat /\ es[i].end \in Nat
        /\ Length(es[i]) \in Nat /\ Length(es[i]) = es[i].end - es[i].start + 1
    BY <2>4, <2>5, RangesAre
  <2>7. e.start - es[i].start \in Nat /\ (e.start - es[i].start) + Length(e) <= Length(es[i])
    BY <1>1, <2>4, <2>6
  <2>8. QED BY <1>1, <1>2, <2>1, <2>6, <2>7, BeyondIs
<1>4. CASE over = {} /\ held # {}
  <2> DEFINE k == Min(held)
  <2>1. p = Beyond(blocklist[k].data, e.start - blocklist[k].start)
    BY Zenon, <1>4 DEF find_backing_memory
  <2>2. k \in held
    <3>1. held \in SUBSET Nat
      BY <1>2
    <3> HIDE DEF held
    <3>2. QED BY <1>4, <3>1, MinIsLeast
  <2>3. k \in DOMAIN blocklist /\ blocklist[k].start <= e.start /\ e.end <= blocklist[k].end
    BY <2>2
  <2> HIDE DEF k, held
  <2>4. /\ blocklist[k].start \in Int /\ blocklist[k].end \in Int
        /\ Enough(entries, blocklist, blocklist[k].data, Length(blocklist[k]))
        /\ Length(blocklist[k]) = blocklist[k].end - blocklist[k].start + 1
    BY <2>3 DEF RoomInv, BlocksRoom, Length
  <2>5. /\ Length(blocklist[k]) \in Int /\ e.start - blocklist[k].start \in Nat
        /\ (e.start - blocklist[k].start) + Length(e) <= Length(blocklist[k])
    BY <1>1, <2>3, <2>4
  <2>6. QED BY <1>1, <1>2, <2>1, <2>4, <2>5, BeyondIs
<1>5. CASE over = {} /\ held = {}
  BY Zenon, <1>5 DEF find_backing_memory
<1>6. QED BY <1>3, <1>4, <1>5

(* RAM is installed with memory of the caller, or with what is there.      *)
LEMMA InstallRamRoom ==
  ASSUME SetupInv, stage # "failed", BanksInv, RoomInv,
         NEW u, UpdateOK(u), TableRoom(entries, blocklist, u.b, u.t), NEW z \in Spaces, NEW d \in Directions,
         NEW e, RangeOK(e), NEW given, given \in {None, Place(Given, 0)}, ~u.full,
         NEW v, v = InstallRam(u, z, d, e, given)
  PROVE  TableRoom(entries, blocklist, v.b, v.t)
<1> DEFINE w == MapBank(u, z, d, None, e)
           p == find_backing_memory(z, e)
<1>1. Mapped(u, w, z, None, e)
  BY MapBankIs
<1>2. TableRoom(entries, blocklist, w.b, w.t)
  BY MapBankRoom DEF Mappable
<1>3. \/ v = w
      \/ ~w.full /\ given # None /\ v = set_base(w, w.last, given)
      \/ ~w.full /\ v = set_base(w, w.last, p)
  BY DEF InstallRam
<1> HIDE DEF w, p
<1>4. ~w.full => /\ UpdateOK(w) /\ w.last \in DOMAIN w.b
                 /\ w.b[w.last].start = e.start /\ w.b[w.last].end = e.end
  BY <1>1 DEF Mapped, Matches
<1>5. ~w.full => Length(w.b[w.last]) = Length(e)
  BY <1>4 DEF Length
<1>6. CASE ~w.full /\ given # None /\ v = set_base(w, w.last, given)
  <2>1. DOMAIN blocklist \subseteq Nat
    BY DEF BanksInv, IsSeq
  <2>2. Enough(entries, blocklist, given, Length(w.b[w.last]))
    BY <1>6, <2>1, GivenHasRoom
  <2>3. QED BY <1>2, <1>4, <1>6, <2>2, SetBaseRoom
<1>7. CASE ~w.full /\ v = set_base(w, w.last, p)
  <2>1. p # None => Enough(entries, blocklist, p, Length(w.b[w.last]))
    BY <1>5, <1>7, RangesOK, FindBackingRoom DEF p
  <2>2. QED BY <1>2, <1>4, <1>7, <2>1, SetBaseRoom
<1>8. QED BY <1>2, <1>3, <1>6, <1>7

(* Populating from one entry of a map, for one direction.                  *)
LEMMA PopulateEntryRoom ==
  ASSUME SetupInv, stage # "failed", BanksInv, RoomInv,
         NEW u, UpdateOK(u), TableRoom(entries, blocklist, u.b, u.t), NEW z \in Spaces,
         NEW i \in DOMAIN entries[z], NEW e, e = entries[z][i], EntryOK(e), NEW d \in Directions,
         NEW v, v = PopulateEntry(u, z, d, e)
  PROVE  TableRoom(entries, blocklist, v.b, v.t)
<1> DEFINE type == IF d = "read" THEN e.read ELSE e.write
           row == [x \in Addresses |-> IF x \in Copies(e) THEN 0 ELSE u.t[z][d][x]]
<1>1. \/ v = u
      \/ ~u.full /\ v = InstallRam(u, z, d, e, None)
      \/ ~u.full /\ type = "BANK" /\ v = MapBank(u, z, d, e.tag, e)
      \/ v = [u EXCEPT !.t[z][d] = row]
  BY DEF PopulateEntry
<1>2. RangeOK(e)
  BY DEF EntryOK
<1>3. CASE ~u.full /\ v = InstallRam(u, z, d, e, None)
  BY <1>2, <1>3, InstallRamRoom
<1>4. CASE ~u.full /\ type = "BANK" /\ v = MapBank(u, z, d, e.tag, e)
  <2>1. "BANK" \in {e.read, e.write}
    BY <1>4
  <2>2. e \in Namers(entries, z, e.tag)
    BY <2>1 DEF Namers, Range
  <2>3. Mappable(entries, z, e.tag, e)
    BY <1>2, <2>2 DEF Mappable
  <2>4. QED BY <1>4, <2>3, MapBankRoom
<1>5. CASE v = [u EXCEPT !.t[z][d] = row]
  <2>1. /\ DOMAIN u = UpdateFields /\ DOMAIN u.t = Spaces
        /\ \A y \in Spaces : DOMAIN u.t[y] = Directions
    BY DEF UpdateOK, TableOK
  <2>2. DOMAIN row = Addresses /\ \A x \in Addresses : row[x] = 0 \/ row[x] = u.t[z][d][x]
    OBVIOUS
  <2> HIDE DEF row
  <2>3. v.b = u.b /\ v.t = [u.t EXCEPT ![z][d] = row]
    BY <1>5, <2>1 DEF UpdateFields
  <2>4. ASSUME NEW y \in Spaces, NEW c \in Directions, NEW x \in Addresses PROVE HandledOK(entries, v.b, v.t, y, c, x)
    <3>1. HandledOK(entries, u.b, u.t, y, c, x)
      BY DEF TableRoom
    <3>2. v.t[y][c][x] = 0 \/ v.t[y][c][x] = u.t[y][c][x]
      BY <2>1, <2>2, <2>3
    <3>3. QED BY Zenon, <2>3, <3>1, <3>2 DEF HandledOK
  <2>5. QED BY <2>3, <2>4 DEF TableRoom
<1>6. QED BY <1>1, <1>3, <1>4, <1>5

(* The entries stay what they are, but for their memory.                   *)
Kept(more, all) ==
  /\ Goes(more, all)
  /\ \A z \in Spaces : \A i \in DOMAIN all[z] :
       /\ more[z][i].read = all[z][i].read /\ more[z][i].write = all[z][i].write
       /\ more[z][i].tag = all[z][i].tag /\ more[z][i].mirror = all[z][i].mirror

(* Banks keep their room and their ranges when entries get memory and when *)
(* there are more blocks.                                                  *)
LEMMA RoomKept ==
  ASSUME NEW bl, NEW cl, Continues(cl, bl), DOMAIN cl \subseteq Nat, NEW all, NEW more, Kept(more, all),
         NEW b, NEW t, TableRoom(all, bl, b, t)
  PROVE  TableRoom(more, cl, b, t)
<1>1. ASSUME NEW z \in Spaces, NEW k, NEW e, RangeOf(all, k, z, e)
      PROVE  \E f : RangeOf(more, k, z, f) /\ Copies(f) = Copies(e) /\ RoundedUp(f) = RoundedUp(e) /\ f.start = e.start
  <2>1. CASE k.tag = None
    <3>1. RangeOf(more, k, z, e)
      BY <1>1, <2>1 DEF RangeOf
    <3>2. QED BY <3>1
  <2>2. CASE k.tag # None
    <3>1. PICK i \in DOMAIN all[z] : e = all[z][i] /\ e.tag = k.tag /\ "BANK" \in {e.read, e.write}
      BY <1>1, <2>2 DEF RangeOf, Namers, Range
    <3> DEFINE f == more[z][i]
    <3>2. /\ i \in DOMAIN more[z] /\ f.start = e.start /\ f.end = e.end /\ f.tag = e.tag
          /\ f.read = e.read /\ f.write = e.write /\ f.mirror = e.mirror
      BY <3>1 DEF Kept, Goes
    <3>3. RangeOf(more, k, z, f)
      BY <2>2, <3>1, <3>2 DEF RangeOf, Namers, Range
    <3>4. QED BY <3>2, <3>3, CopiesAre
  <2>3. QED BY <2>1, <2>2
<1>2. ASSUME NEW z \in Spaces, NEW k, NEW x, Covers(all, k, z, x) PROVE Covers(more, k, z, x)
  BY <1>1, <1>2 DEF Covers
<1>3. ASSUME NEW z \in Spaces, NEW k, NEW h, Configured(all, k, z, h) PROVE Configured(more, k, z, h)
  BY <1>1, <1>3 DEF Configured
<1>4. ASSUME NEW k, Shorter(all, k) PROVE Shorter(more, k)
  <2>1. PICK z \in Spaces : \E i \in DOMAIN all[z] : all[z][i].start = k.start /\ all[z][i].end < k.end
    BY <1>4 DEF Shorter
  <2>2. PICK i \in DOMAIN all[z] : all[z][i].start = k.start /\ all[z][i].end < k.end
    BY <2>1
  <2>3. i \in DOMAIN more[z] /\ more[z][i].start = k.start /\ more[z][i].end < k.end
    BY <2>2 DEF Kept, Goes
  <2>4. QED BY <2>3 DEF Shorter
<1>5. ASSUME NEW p, NEW n, Enough(all, bl, p, n) PROVE Enough(more, cl, p, n)
  <2>1. Enough(more, bl, p, n)
    BY <1>5, GoesOn DEF Kept
  <2>2. QED BY <2>1, EnoughStays
<1>6. ASSUME NEW k, BankRoom(all, bl, k) PROVE BankRoom(more, cl, k)
  BY <1>4, <1>5, <1>6 DEF BankRoom
<1>7. ASSUME NEW z \in Spaces, NEW d \in Directions, NEW x \in Addresses PROVE HandledOK(more, b, t, z, d, x)
  <2>1. HandledOK(all, b, t, z, d, x)
    BY DEF TableRoom
  <2>2. QED BY <1>2, <1>3, <2>1 DEF HandledOK
<1>8. QED BY <1>6, <1>7 DEF TableRoom

(* populate_from_map.                                                      *)
LEMMA PopulateRoom ==
  ASSUME SetupInv, BanksInv, RoomInv, ReachInv, PopulateFromMap
  PROVE  ReachInv'
<1> DEFINE z  == space
           es == entries[space]
           u  == FoldLeft(LAMBDA v, e : PopulateEntry(PopulateEntry(v, space, "read", e), space, "write", e),
                          Current, entries[space])
<1>1. /\ stage = "populate" /\ banklist' = u.b /\ table' = u.t
      /\ UNCHANGED <<entries, blocklist>>
  BY DEF PopulateFromMap
<1>2. u = PopulateFold!Fold(space, 0, 0, 0, Current, entries[space])
  BY DEF FoldLeft, MapThenFoldSet, PopulateFold!Fold, PopulateFold!Last, PopulateStep, Max
<1> HIDE DEF u
<1>3. /\ DOMAIN Current = UpdateFields /\ Current.b = banklist /\ Current.t = table
  BY DEF Current, UpdateFields
<1>4. /\ UpdateOK(Current) /\ Sourced(Current.b, entries, {}) /\ TableRoom(entries, blocklist, Current.b, Current.t)
  <2>1. Done = {}
    BY <1>1, NoneDone
  <2>2. QED BY <1>1, <1>3, <2>1 DEF BanksInv, ReachInv, UpdateOK
<1>5. /\ z \in Spaces /\ IsList(es) /\ \A i \in DOMAIN es : EntryOK(es[i])
  BY <1>1 DEF SetupInv, StageInv, EntriesOK
<1>6. PICK n \in Nat : DOMAIN es = 1 .. n
  BY <1>5 DEF IsList
<1>7. PopulateFold!Induction(n)
  BY LoopInduction DEF PopulateFold!Induction
<1>8. PICK g : PopulateFold!Passes(z, 0, 0, 0, Current, es, n, g) /\ g[n] = u
  BY <1>2, <1>6, <1>7, PopulateFold!FoldPasses
<1> DEFINE J(k) == UpdateOK(g[k]) /\ Sourced(g[k].b, entries, {}) /\ TableRoom(entries, blocklist, g[k].b, g[k].t)
           P == {k \in 0 .. n : J(k)}
<1>9. 0 \in P
  BY <1>4, <1>8 DEF PopulateFold!Passes
<1>10. ASSUME NEW k \in 0 .. (n - 1), k \in P PROVE k + 1 \in P
  <2> DEFINE m == k + 1
             e == es[m]
             h == PopulateEntry(g[k], z, "read", e)
             f == PopulateEntry(h, z, "write", e)
  <2>1. m \in 1 .. n /\ m \in 0 .. n /\ m - 1 = k /\ J(k)
    BY <1>10
  <2> HIDE DEF m
  <2>2. g[m] = f
    BY <1>8, <2>1 DEF PopulateFold!Passes, PopulateStep
  <2>3. /\ "read" \in Directions /\ "write" \in Directions /\ m \in DOMAIN es /\ EntryOK(e)
        /\ z \notin {}
    BY <1>5, <1>6, <2>1 DEF Directions
  <2>4. UpdateOK(h) /\ Sourced(h.b, entries, {})
    BY <1>5, <2>1, <2>3, PopulateEntryIs
  <2>5. TableRoom(entries, blocklist, h.b, h.t)
    BY <1>1, <1>5, <2>1, <2>3, PopulateEntryRoom
  <2> HIDE DEF h
  <2>6. UpdateOK(f) /\ Sourced(f.b, entries, {})
    BY <1>5, <2>3, <2>4, PopulateEntryIs
  <2>7. TableRoom(entries, blocklist, f.b, f.t)
    BY <1>1, <1>5, <2>3, <2>4, <2>5, PopulateEntryRoom
  <2>8. QED BY <2>1, <2>2, <2>6, <2>7 DEF m
<1>11. n \in P
  <2> HIDE DEF P
  <2>1. QED BY <1>9, <1>10, LoopInduction
<1>12. TableRoom(entries, blocklist, u.b, u.t)
  BY <1>8, <1>11
<1>13. QED BY <1>1, <1>12 DEF ReachInv

(* The entries get memory, and the banks stay as they are.                 *)
LEMMA AllocateReach ==
  ASSUME SetupInv, BanksInv, RoomInv, ReachInv, AllocateHardcoded \/ AllocateBlock
  PROVE  ReachInv'
<1>1. banklist' = banklist /\ table' = table
  BY Zenon DEF AllocateHardcoded, AllocateBlock, Assigned
<1>2. EntriesGrew
  BY HardcodedStepKeeps, BlockStepKeeps
<1>3. Kept(entries', entries)
  BY <1>2 DEF EntriesGrew, Assigns, Kept, Goes
<1>4. Continues(blocklist', blocklist)
  BY HardcodedRoom, BlockRoom
<1>5. DOMAIN blocklist' \subseteq Nat
  <2>1. BanksInv'
    BY HardcodedBanks, BlockBanks
  <2>2. QED BY <2>1 DEF BanksInv, IsSeq
<1>6. QED BY <1>1, <1>3, <1>4, <1>5, RoomKept DEF ReachInv

(* locate_memory: the memory of an entry that starts where the bank does   *)
(* has room for the range of the bank, unless the entry is shorter.        *)
LEMMA LocatedRoom ==
  ASSUME SetupInv, stage # "failed", BanksInv, RoomInv, NEW z \in Spaces,
         NEW k, DOMAIN k = BankFields, BankRoom(entries, blocklist, k), NEW j, j = Located(z, k)
  PROVE  /\ j.tag = k.tag /\ j.start = k.start /\ j.end = k.end /\ j.handler = k.handler
         /\ BankRoom(entries, blocklist, j)
<1> DEFINE es   == entries[z]
           here == {i \in DOMAIN es : es[i].start = k.start /\ es[i].memory # None}
           i    == Min(here)
<1>1. CASE ~(k.base = None /\ References(k, z) /\ here # {})
  <2>1. j = k
    BY <1>1 DEF Located
  <2>2. QED BY <2>1
<1>2. CASE k.base = None /\ References(k, z) /\ here # {}
  <2>1. j = [k EXCEPT !.base = es[i].memory]
    BY <1>2 DEF Located
  <2>2. i \in here
    <3>1. here \in SUBSET Nat
      BY DEF SetupInv, EntriesOK, IsList
    <3> HIDE DEF here
    <3>2. QED BY <1>2, <3>1, MinIsLeast
  <2>3. i \in DOMAIN es /\ es[i].start = k.start /\ es[i].memory # None
    BY <2>2
  <2> HIDE DEF i, here
  <2>4. /\ j.tag = k.tag /\ j.start = k.start /\ j.end = k.end /\ j.handler = k.handler
        /\ j.base = es[i].memory
    BY <2>1 DEF BankFields
  <2>5. /\ HasRange(es[i]) /\ Enough(entries, blocklist, es[i].memory, Length(es[i]))
    BY <2>3, EntryHasRoom DEF RoomInv
  <2>6. /\ Length(j) = Length(k) /\ HasRange(j) /\ HasRange(k)
    BY <2>4, RangesSame DEF BankRoom
  <2>7. CASE es[i].end < k.end
    <3>1. Shorter(entries, j)
      BY <2>3, <2>4, <2>7 DEF Shorter
    <3>2. QED BY <2>4, <2>6, <3>1 DEF BankRoom
  <2>8. CASE ~(es[i].end < k.end)
    <3>1. Length(k) \in Int /\ Length(es[i]) \in Int /\ Length(k) <= Length(es[i])
      BY <2>3, <2>5, <2>6, <2>8, RangesAre
    <3>2. BlocksOK(blocklist)
      BY DEF BanksInv, RoomInv, BlocksOK, BlocksRoom
    <3>3. Enough(entries, blocklist, es[i].memory, Length(k))
      BY <2>5, <3>1, <3>2, LessIsEnough
    <3>4. QED BY <2>4, <2>6, <3>3 DEF BankRoom
  <2>9. QED BY <2>4, <2>7, <2>8
<1>3. QED BY <1>1, <1>2

(* Locating memory gives banks memory with room for them.                  *)
LEMMA LocateReach ==
  ASSUME SetupInv, BanksInv, RoomInv, ReachInv, LocateMemory
  PROVE  ReachInv'
<1>1. /\ stage = "locate" /\ banklist' = [n \in DOMAIN banklist |-> Located(space, banklist[n])]
      /\ UNCHANGED <<entries, blocklist, table>>
  BY DEF LocateMemory
<1>2. space \in Spaces /\ TableOK(banklist, table)
  BY <1>1 DEF SetupInv, StageInv, BanksInv
<1>3. \A n \in DOMAIN banklist :
        /\ banklist'[n].tag = banklist[n].tag /\ banklist'[n].start = banklist[n].start
        /\ banklist'[n].end = banklist[n].end /\ banklist'[n].handler = banklist[n].handler
        /\ BankRoom(entries, blocklist, banklist'[n])
  <2> SUFFICES ASSUME NEW n \in DOMAIN banklist
               PROVE  /\ banklist'[n].tag = banklist[n].tag /\ banklist'[n].start = banklist[n].start
                      /\ banklist'[n].end = banklist[n].end /\ banklist'[n].handler = banklist[n].handler
                      /\ BankRoom(entries, blocklist, banklist'[n])
    OBVIOUS
  <2>1. banklist'[n] = Located(space, banklist[n])
    BY <1>1
  <2>2. DOMAIN banklist[n] = BankFields /\ BankRoom(entries, blocklist, banklist[n])
    BY <1>2 DEF TableOK, BankOK, ReachInv, TableRoom
  <2>3. QED BY <1>1, <1>2, <2>1, <2>2, LocatedRoom
<1>4. DOMAIN banklist' = DOMAIN banklist
  BY <1>1
<1>5. TableRoom(entries, blocklist, banklist', table)
  BY <1>3, <1>4, BanksChange DEF ReachInv
<1>6. QED BY <1>1, <1>5 DEF ReachInv

(* RAM installed later has memory of the caller, memory that is there, or a*)
(* block of its own range.                                                 *)
LEMMA InstallReach ==
  ASSUME SetupInv, BanksInv, RoomInv, ReachInv, NEW z \in Spaces,
         NEW ds \in {{"read"}, {"write"}, Directions}, NEW e \in Installs,
         NEW given \in {None, Place(Given, 0)}, Install(z, ds, e, given)
  PROVE  ReachInv'
<1> DEFINE v == IF "read" \in ds /\ ~Current.full THEN InstallRam(Current, z, "read", e, given) ELSE Current
           u == IF "write" \in ds /\ ~v.full THEN InstallRam(v, z, "write", e, given) ELSE v
           new == ~u.full /\ u.b[u.last].base = None
           x   == [space |-> z, start |-> e.start, end |-> e.end, data |-> Place(Len(blocklist) + 1, 0)]
           p   == Place(Len(blocklist) + 1, 0)
           f   == set_base(u, u.last, p)
<1>1. /\ stage = "initialized" /\ UNCHANGED entries
      /\ banklist' = IF new THEN f.b ELSE u.b
      /\ table' = u.t
      /\ blocklist' = IF new THEN Append(blocklist, x) ELSE blocklist
  BY DEF Install
<1>2. RangeOK(e) /\ e.start \in Int /\ e.end \in Int
  BY RangesOK, RangesAre
<1>3. /\ UpdateOK(Current) /\ ~Current.full /\ TableRoom(entries, blocklist, Current.b, Current.t)
  <2>1. DOMAIN Current = UpdateFields /\ Current.b = banklist /\ Current.t = table /\ Current.full = FALSE
    BY DEF Current, UpdateFields
  <2>2. QED BY <1>1, <2>1 DEF UpdateOK, BanksInv, ReachInv
<1>4. stage # "failed" /\ "read" \in Directions /\ "write" \in Directions
  BY <1>1 DEF Directions
<1>5. v = Current \/ Mapped(Current, v, z, None, e)
  BY <1>3, <1>4, InstallRamIs
<1>6. UpdateOK(v) /\ TableRoom(entries, blocklist, v.b, v.t)
  <2>1. UpdateOK(v)
    BY <1>3, <1>5 DEF Mapped
  <2>2. CASE v = Current
    BY <1>3, <2>2
  <2>3. CASE v = InstallRam(Current, z, "read", e, given)
    <3> DEFINE c == Current
    <3>1. UpdateOK(c) /\ ~c.full /\ TableRoom(entries, blocklist, c.b, c.t) /\ v = InstallRam(c, z, "read", e, given)
      BY <1>3, <2>3
    <3> HIDE DEF c, v
    <3>2. QED BY <1>2, <1>4, <2>1, <3>1, InstallRamRoom
  <2>4. QED BY <2>1, <2>2, <2>3
<1>7. Mapped(Current, u, z, None, e)
  BY <1>3, PutsAre
<1>8. TableRoom(entries, blocklist, u.b, u.t)
  <2> HIDE DEF v
  <2>1. CASE u = v
    BY <1>6, <2>1
  <2>2. CASE ~v.full /\ u = InstallRam(v, z, "write", e, given)
    <3> HIDE DEF u
    <3>1. QED BY <1>1, <1>2, <1>4, <1>6, <2>2, InstallRamRoom
  <2>3. QED BY <2>1, <2>2
<1> HIDE DEF u, v
<1>9. CASE ~new
  BY <1>1, <1>8, <1>9 DEF ReachInv
<1>10. CASE new
  <2>1. /\ u.last \in DOMAIN u.b /\ UpdateOK(u)
        /\ u.b[u.last].start = e.start /\ u.b[u.last].end = e.end
    BY <1>7, <1>10 DEF Mapped, Matches
  <2>2. x.start = e.start /\ x.end = e.end /\ x.data = p
    OBVIOUS
  <2> HIDE DEF x, p
  <2>3. blocklist' = Append(blocklist, x) /\ banklist' = f.b
    BY <1>1, <1>10
  <2>4. /\ IsSeq(blocklist') /\ Continues(blocklist', blocklist) /\ BlocksOK(blocklist')
        /\ Enough(entries, blocklist', p, Length(x))
    BY <1>2, <2>2, <2>3, BlockAdded DEF BanksInv, RoomInv, p
  <2>5. DOMAIN blocklist' \subseteq Nat
    BY <2>4, BlocksAre
  <2>6. TableRoom(entries, blocklist', u.b, u.t)
    <3>1. Kept(entries, entries)
      BY DEF Kept, Goes
    <3>2. QED BY <1>8, <2>4, <2>5, <3>1, RoomKept
  <2>7. Length(u.b[u.last]) = Length(x)
    BY <2>1, <2>2 DEF Length
  <2>8. TableRoom(entries, blocklist', f.b, f.t)
    BY <2>1, <2>4, <2>6, <2>7, SetBaseRoom
  <2>9. f.t = u.t
    BY <2>1, SetBaseIs
  <2>10. QED BY <1>1, <2>3, <2>8, <2>9 DEF ReachInv
<1>11. QED BY <1>9, <1>10

(* Every step keeps room behind the banks.                                 *)
LEMMA ReachStep ==
  ASSUME SetupInv, BanksInv, RoomInv, ReachInv, [Next]_vars
  PROVE  ReachInv'
<1>1. CASE PrepareMap
  <2>1. /\ stage = "prepare" /\ UNCHANGED <<blocklist, banklist, table>>
    BY <1>1 DEF PrepareMap
  <2>2. DOMAIN banklist = {} /\ TableOK(banklist, table)
    BY <2>1 DEF BanksInv
  <2>3. \A z \in Spaces, d \in Directions, x \in Addresses : table[z][d][x] = 0
    BY <2>2 DEF TableOK, MappedOK
  <2>4. QED BY <2>1, <2>2, <2>3 DEF ReachInv, TableRoom, HandledOK
<1>2. ASSUME UNCHANGED <<entries, blocklist, banklist, table>> PROVE ReachInv'
  BY <1>2 DEF ReachInv
<1>3. CASE RegionError
  BY <1>2, <1>3 DEF RegionError
<1>4. CASE PopulateFromMap
  BY <1>4, PopulateRoom
<1>5. CASE AllocateHardcoded
  BY <1>5, AllocateReach
<1>6. CASE AllocateBlock
  BY <1>6, AllocateReach
<1>7. CASE LocateMemory
  BY <1>7, LocateReach
<1>8. ASSUME NEW z \in Spaces, NEW ds \in {{"read"}, {"write"}, Directions}, NEW e \in Installs,
             NEW given \in {None, Place(Given, 0)}, Install(z, ds, e, given)
      PROVE  ReachInv'
  BY <1>8, InstallReach
<1>9. CASE UNCHANGED vars
  BY <1>2, <1>9 DEF vars
<1>10. QED BY <1>1, <1>3, <1>4, <1>5, <1>6, <1>7, <1>8, <1>9 DEF Next

(* No bank is there at first.                                              *)
LEMMA ReachStarts == Init => ReachInv
<1> SUFFICES ASSUME Init PROVE ReachInv
  OBVIOUS
<1>1. /\ DOMAIN banklist = {}
      /\ \A z \in Spaces, d \in Directions, x \in Addresses : table[z][d][x] = 0
  <2>1. /\ banklist = << >>
        /\ table = [z \in Spaces |-> [d \in Directions |-> [x \in Addresses |-> 0]]]
    BY DEF Init
  <2>2. QED BY <2>1
<1>2. QED BY <1>1 DEF ReachInv, TableRoom, HandledOK

(* They hold throughout.                                                   *)
LEMMA RoomAlways == Spec => [](RoomInv /\ ReachInv)
<1>1. SetupInv /\ BanksInv /\ RoomInv /\ ReachInv /\ [Next]_vars => (RoomInv /\ ReachInv)'
  BY RoomStep, ReachStep
<1>2. QED BY <1>1, RoomStarts, ReachStarts, SetupAlways, BanksAlways, PTL DEF Spec


---------------------------------------------------------------------------------
(* Where an access ends up.                                                *)

(* The size of a range rounded up is the least power of two that has the   *)
(* range between two of its multiples.                                     *)
LEMMA RoundedUpIs ==
  ASSUME NEW e, HasRange(e), NEW n, n = RoundedUp(e)
  PROVE  \E k \in 0 .. AddrBits :
           /\ n = 2^k /\ e.start \div n = e.end \div n
           /\ k # 0 => e.start \div 2^(k - 1) # e.end \div 2^(k - 1)
<1> DEFINE a == e.start
           b == e.end
           K == {k \in 0 .. AddrBits : a \div 2^k = b \div 2^k}
<1>1. a \in Nat /\ b \in Nat /\ a <= b /\ a < 2^AddrBits /\ b < 2^AddrBits /\ AddrBits \in Nat
  BY AddressesAre DEF HasRange
<1> HIDE DEF a, b
<1>2. \A x, w \in Nat : x < w => x \div w = 0
  OBVIOUS
<1>3. AddrBits \in K
  <2>1. a \div 2^AddrBits = 0 /\ b \div 2^AddrBits = 0
    BY <1>1, <1>2, AddressesAre
  <2>2. QED BY <1>1, <2>1
<1>4. PICK k \in K : \A j \in K : k <= j
  <2>1. K \in SUBSET Nat /\ K # {}
    BY <1>3
  <2>2. QED BY <2>1, LeastExists
<1>5. k \in Nat /\ k \in 0 .. AddrBits /\ a \div 2^k = b \div 2^k
  BY <1>4
<1>6. 2^k = 1 \/ a \div (2^k \div 2) # b \div (2^k \div 2)
  <2>1. CASE k = 0
    BY <2>1, PowersOfTwo
  <2>2. CASE k # 0
    <3> DEFINE j == k - 1
    <3>1. j \in Nat /\ j + 1 = k /\ j \in 0 .. AddrBits /\ ~(k <= j)
      BY <1>1, <1>5, <2>2
    <3>2. j \notin K
      BY <1>4, <3>1
    <3> HIDE DEF j
    <3>3. a \div 2^j # b \div 2^j
      BY <3>1, <3>2
    <3>4. 2^j \in Nat /\ 2^k = 2 * 2^j
      BY <3>1, PowersOfTwo
    <3>5. \A m \in Nat : (2 * m) \div 2 = m
      OBVIOUS
    <3>6. QED BY <3>3, <3>4, <3>5
  <2>3. QED BY <2>1, <2>2
<1> DEFINE Q(m) == a \div m = b \div m /\ (m = 1 \/ a \div (m \div 2) # b \div (m \div 2))
           P == {2^j : j \in 0 .. AddrBits}
<1>7. 2^k \in P /\ Q(2^k)
  BY <1>5, <1>6
<1>8. n = CHOOSE m \in P : Q(m)
  BY DEF RoundedUp, a, b
<1> HIDE DEF Q
<1>9. n \in P /\ Q(n)
  <2> HIDE DEF P
  <2>1. QED BY <1>7, <1>8
<1>10. PICK m \in 0 .. AddrBits : n = 2^m
  BY <1>9
<1>11. ASSUME m # 0 PROVE a \div 2^(m - 1) # b \div 2^(m - 1)
  <2> DEFINE j == m - 1
  <2>1. j \in Nat /\ j + 1 = m
    BY <1>1, <1>10, <1>11
  <2> HIDE DEF j
  <2>2. 2^j \in Nat \ {0} /\ n = 2 * 2^j
    BY <1>10, <2>1, PowersOfTwo
  <2>3. \A i \in Nat \ {0} : (2 * i) \div 2 = i /\ 2 * i # 1
    OBVIOUS
  <2>4. n # 1 /\ n \div 2 = 2^j
    BY <2>2, <2>3
  <2>5. QED BY <1>9, <2>4 DEF Q, j
<1>12. a \div n = b \div n
  BY <1>9 DEF Q
<1>13. QED BY <1>10, <1>11, <1>12 DEF a, b

(* A bit, and what is above and below it.                                  *)
LEMMA BitStep ==
  ASSUME NEW a \in Nat, NEW j \in Nat
  PROVE  LET b == (a \div 2^j) % 2
         IN  /\ b \in {0, 1} /\ a \div 2^j = 2 * (a \div 2^(j + 1)) + b
             /\ a % 2^(j + 1) = b * 2^j + (a % 2^j)
<1> DEFINE m == 2^j  q == a \div m  r == a % m  h == q \div 2  b == q % 2
<1>1. m \in Nat \ {0} /\ 2^(j + 1) = 2 * m
  BY PowersOfTwo
<1> HIDE DEF m
<1>2. q \in Nat /\ r \in 0 .. (m - 1) /\ a = q * m + r
  BY <1>1, Division
<1> HIDE DEF q, r
<1>3. h \in Nat /\ b \in {0, 1} /\ q = h * 2 + b
  BY <1>2
<1> HIDE DEF h, b
<1>4. q * m = h * (2 * m) + b * m
  BY <1>1, <1>2, <1>3
<1>5. b * m + r \in 0 .. (2 * m - 1)
  <2>1. b * m = 0 \/ b * m = m
    BY <1>1, <1>3
  <2>2. QED BY <1>1, <1>2, <2>1
<1>6. a = h * (2 * m) + (b * m + r)
  <2>1. h * (2 * m) \in Nat /\ b * m \in Nat
    BY <1>1, <1>3
  <2>2. QED BY <1>2, <1>4, <2>1
<1>7. a \div (2 * m) = h /\ a % (2 * m) = b * m + r
  <2> DEFINE w == 2 * m  s == b * m + r
  <2>1. h \in Nat /\ w \in Nat /\ s \in 0 .. (w - 1) /\ a = h * w + s
    BY <1>1, <1>3, <1>5, <1>6
  <2> HIDE DEF w, s
  <2>2. (h * w + s) \div w = h /\ (h * w + s) % w = s
    BY <2>1, DivisionIsUnique
  <2>3. a \div w = h /\ a % w = s
    BY <2>1, <2>2
  <2>4. QED BY <2>3 DEF w, s
<1>8. q = 2 * h + b
  BY <1>3
<1>9. a \div 2^(j + 1) = h /\ a % 2^(j + 1) = b * m + r
  BY <1>1, <1>7
<1>10. /\ b \in {0, 1} /\ q = 2 * (a \div 2^(j + 1)) + b
       /\ a % 2^(j + 1) = b * m + r
  BY <1>3, <1>8, <1>9
<1>11. QED BY <1>10 DEF m, q, r, b

(* Numbers with the same bits below bit k.                                 *)
LEMMA SameLowBits ==
  ASSUME NEW a \in Nat, NEW b \in Nat, NEW k \in Nat,
         \A j \in 0 .. (k - 1) : (a \div 2^j) % 2 = (b \div 2^j) % 2
  PROVE  a % 2^k = b % 2^k
<1> DEFINE P == {j \in 0 .. k : a % 2^j = b % 2^j}
<1>1. 0 \in P
  <2>1. a % 1 = 0 /\ b % 1 = 0
    OBVIOUS
  <2>2. QED BY <2>1, PowersOfTwo
<1>2. ASSUME NEW j \in 0 .. (k - 1), j \in P PROVE j + 1 \in P
  <2> DEFINE m == j + 1
  <2>1. m \in 0 .. k /\ j \in Nat /\ a % 2^j = b % 2^j
    BY <1>2
  <2>2. /\ a % 2^m = ((a \div 2^j) % 2) * 2^j + (a % 2^j)
        /\ b % 2^m = ((b \div 2^j) % 2) * 2^j + (b % 2^j)
    BY <2>1, BitStep
  <2> HIDE DEF m
  <2>3. a % 2^m = b % 2^m
    BY <2>1, <2>2
  <2>4. QED BY <2>1, <2>3 DEF m
<1>3. k \in P
  <2> HIDE DEF P
  <2>1. QED BY <1>1, <1>2, LoopInduction
<1>4. QED BY <1>3

(* No mirror has a bit below the size of its range, rounded up: a copy of  *)
(* an address is a multiple of that size away, and the handler masks it to *)
(* where the address is in the range.                                      *)
LEMMA MirrorOffset ==
  ASSUME NEW e, RangeOK(e), NEW x \in Addresses, NEW y \in e.start .. e.end, Mirrors(e, y, x)
  PROVE  (x - e.start) % RoundedUp(e) = y - e.start
<1> DEFINE n == RoundedUp(e)
           a == e.start
           b == e.end
<1>1. /\ a \in Addresses /\ b \in Addresses /\ a \in Nat /\ b \in Nat /\ a <= b /\ HasRange(e)
      /\ x \in Nat /\ y \in Nat /\ a <= y /\ y <= b
  BY RangesOK, RangesAre, AddressesAre DEF RangeOK
<1>2. PICK k \in 0 .. AddrBits :
        n = 2^k /\ a \div n = b \div n /\ (k # 0 => a \div 2^(k - 1) # b \div 2^(k - 1))
  BY <1>1, RoundedUpIs
<1>3. AddrBits \in Nat /\ k \in Nat /\ k <= AddrBits /\ n \in Nat \ {0}
  BY <1>2, AddressesAre, PowersOfTwo
<1>4. ASSUME NEW j \in 0 .. (k - 1) PROVE j \in Bits /\ j \notin e.mirror
  <2> DEFINE l == k - 1
  <2>1. j \in Bits /\ l \in Bits /\ l \in Nat /\ l + 1 = k /\ j <= l /\ k # 0
    BY <1>3, <1>4 DEF Bits
  <2> HIDE DEF l
  <2>2. a \div 2^l # b \div 2^l
    BY <1>2, <2>1 DEF l
  <2>3. (a \div 2^l) % 2 # (b \div 2^l) % 2
    <3>1. /\ a \div 2^l = 2 * (a \div 2^k) + ((a \div 2^l) % 2)
          /\ b \div 2^l = 2 * (b \div 2^k) + ((b \div 2^l) % 2)
      BY <1>1, <2>1, BitStep
    <3>2. a \div 2^k = b \div 2^k
      BY <1>2
    <3>3. QED BY <2>2, <3>1, <3>2
  <2>4. (a \div 2^l) % 2 \in {0, 1} /\ (b \div 2^l) % 2 \in {0, 1}
    BY <1>1, <2>1, BitStep
  <2>5. (l \in SetBits(a)) # (l \in SetBits(b))
    BY <2>1, <2>3, <2>4 DEF SetBits
  <2>6. j \in ChangingBits(a, b)
    BY <2>1, <2>5 DEF ChangingBits
  <2>7. QED BY <2>1, <2>6 DEF RangeOK, ValidRequest
<1>5. \A j \in 0 .. (k - 1) : (x \div 2^j) % 2 = (y \div 2^j) % 2
  <2> SUFFICES ASSUME NEW j \in 0 .. (k - 1) PROVE (x \div 2^j) % 2 = (y \div 2^j) % 2
    OBVIOUS
  <2>1. j \in SetBits(y) <=> j \in SetBits(x)
    BY <1>4 DEF Mirrors
  <2>2. j \in Nat /\ (x \div 2^j) % 2 \in {0, 1} /\ (y \div 2^j) % 2 \in {0, 1}
    BY <1>1, <1>3, BitStep
  <2>3. QED BY <1>4, <2>1, <2>2 DEF SetBits
<1>6. x % n = y % n
  BY <1>1, <1>2, <1>3, <1>5, SameLowBits
<1> HIDE DEF n, a, b
<1>7. y \div n = a \div n /\ y - a \in Nat /\ y - a < n
  <2> DEFINE q == a \div n
             r == y - q * n
  <2>1. a = q * n + (a % n) /\ a % n \in 0 .. (n - 1) /\ q \in Nat
    BY <1>1, <1>3, Division
  <2>2. b = q * n + (b % n) /\ b % n \in 0 .. (n - 1)
    BY <1>1, <1>2, <1>3, Division
  <2>3. q * n \in Nat
    BY <1>3, <2>1
  <2>4. r \in 0 .. (n - 1) /\ y = q * n + r /\ y - a \in Nat /\ y - a < n
    <3> HIDE DEF q
    <3>1. QED BY <1>1, <1>3, <2>1, <2>2, <2>3
  <2>5. y \div n = q
    <3> HIDE DEF q, r
    <3>1. (q * n + r) \div n = q
      BY <1>3, <2>1, <2>4, DivisionIsUnique
    <3>2. QED BY <2>4, <3>1
  <2>6. QED BY <2>4, <2>5
<1>8. x - a = (x \div n - y \div n) * n + (y - a)
  <2> DEFINE p == x \div n  q == y \div n  r == x % n  s == y % n
  <2>1. x \in Nat /\ y \in Nat /\ a \in Nat /\ n \in Nat /\ n # 0
    BY <1>1, <1>3
  <2>2. p \in Nat /\ r \in 0 .. (n - 1) /\ x = p * n + r
    BY Zenon, <2>1, Division
  <2>3. q \in Nat /\ s \in 0 .. (n - 1) /\ y = q * n + s
    BY Zenon, <2>1, Division
  <2>4. r = s
    BY <1>6
  <2> HIDE DEF p, q, r, s
  <2>5. (p - q) * n = p * n - q * n /\ p * n \in Nat /\ q * n \in Nat
    BY <2>1, <2>2, <2>3
  <2>6. x - a = (p - q) * n + (y - a)
    BY <2>1, <2>2, <2>3, <2>4, <2>5
  <2>7. QED BY <2>6 DEF p, q
<1>9. x \div n - y \div n \in Int
  BY <1>1, <1>3, Division
<1>10. \A c \in Int, r \in Nat : r < n => (c * n + r) % n = r
  BY <1>3
<1>11. (x - a) % n = y - a
  BY <1>7, <1>8, <1>9, <1>10
<1>12. QED BY <1>11 DEF n, a

(* A copy is of one address of the range alone.                            *)
LEMMA OffsetIs ==
  ASSUME NEW e, RangeOK(e), NEW x, x \in Copies(e)
  PROVE  LET y == Unmirrored(e, x)
         IN  /\ y \in Int /\ e.start <= y /\ y <= e.end /\ y - e.start \in Nat /\ y - e.start < Length(e)
             /\ (x - e.start) % RoundedUp(e) = y - e.start
<1> DEFINE y == Unmirrored(e, x)
<1>1. x \in Addresses /\ \E i \in e.start .. e.end : Mirrors(e, i, x)
  BY DEF Copies
<1>2. y \in e.start .. e.end /\ Mirrors(e, y, x)
  BY <1>1 DEF Unmirrored
<1> HIDE DEF y
<1>3. (x - e.start) % RoundedUp(e) = y - e.start
  BY <1>1, <1>2, MirrorOffset
<1>4. e.start \in Nat /\ e.end \in Nat /\ Length(e) = e.end - e.start + 1
  BY RangesOK, RangesAre
<1>5. QED BY <1>2, <1>3, <1>4 DEF y

(* An access where the bank has room ends up inside, or at memory that is  *)
(* short of it.                                                            *)
LEMMA ReachInside ==
  ASSUME SetupInv, BanksInv, RoomInv, ReachInv, NEW z \in Spaces, NEW d \in Directions, NEW x \in Addresses,
         Reach(z, d, x) # None, ~Misfits(z, banklist[table[z][d][x]])
  PROVE  \/ Inside(Reach(z, d, x)) \/ ShorterEntryAt(banklist[table[z][d][x]])
         \/ TooShort(Reach(z, d, x).memory)
<1> DEFINE n    == table[z][d][x]
           bank == banklist[n]
           h    == bank.handler[z][d]
           o    == (x - h.start) % h.size
<1>1. n # 0 /\ bank.base # None /\ Reach(z, d, x) = Beyond(bank.base, o)
  BY Zenon DEF Reach
<1>2. HandledOK(entries, banklist, table, z, d, x)
  BY DEF ReachInv, TableRoom
<1>3. n \in DOMAIN banklist /\ BankRoom(entries, blocklist, bank)
  BY Zenon, <1>1, <1>2 DEF HandledOK, ReachInv, TableRoom
<1>4. Covers(entries, bank, z, x) /\ Configured(entries, bank, z, h)
  BY Zenon, <1>1, <1>2 DEF HandledOK
<1>5. ~Misfits(z, bank)
  OBVIOUS
<1> HIDE DEF n
<1> HIDE DEF bank
<1> HIDE DEF h
<1>6. PICK f : RangeOf(entries, bank, z, f) /\ x \in Copies(f)
  BY <1>4 DEF Covers
<1>7. PICK g : RangeOf(entries, bank, z, g) /\ h = [start |-> g.start, size |-> RoundedUp(g)]
  BY <1>4 DEF Configured
<1>8. o = (x - g.start) % RoundedUp(g)
  BY <1>7
<1>9. \A e : RangeOf(entries, bank, z, e) => RangeOK(e) /\ HasRange(e)
  <2> SUFFICES ASSUME NEW e, RangeOf(entries, bank, z, e) PROVE RangeOK(e)
    BY RangesOK
  <2>1. CASE bank.tag = None
    BY <2>1 DEF RangeOf
  <2>2. CASE bank.tag # None
    <3>1. PICK i \in DOMAIN entries[z] : e = entries[z][i]
      BY <2>2 DEF RangeOf, Namers, Range
    <3>2. QED BY <3>1, EntryHasRoom DEF RoomInv
  <2>3. QED BY <2>1, <2>2
<1>10. Length(bank) \in Nat
  BY <1>3, RangesAre DEF BankRoom
<1> DEFINE y == Unmirrored(f, x)
<1>11. /\ y - f.start \in Nat /\ y - f.start < Length(f) /\ Length(f) \in Nat
       /\ (x - f.start) % RoundedUp(f) = y - f.start
  BY <1>6, <1>9, OffsetIs, RangesAre
<1>12. o = y - f.start /\ Length(f) <= Length(bank)
  <2>1. CASE bank.tag = None
    <3>1. f.start = g.start /\ RoundedUp(f) = RoundedUp(g) /\ Length(f) = Length(bank)
      BY <1>6, <1>7, <2>1, CopiesAre DEF RangeOf
    <3>2. QED BY <1>8, <1>10, <1>11, <3>1
  <2>2. CASE bank.tag # None
    <3>1. f \in Naming(z, bank.tag) /\ g \in Naming(z, bank.tag)
      BY <1>6, <1>7, <2>2 DEF RangeOf, Namers, Naming
    <3>2. ~(Length(f) > Length(bank)) /\ (x - g.start) % RoundedUp(g) = Unmirrored(f, x) - f.start
      BY <1>5, <1>6, <2>2, <3>1 DEF Misfits
    <3>3. QED BY <1>8, <1>10, <1>11, <3>2
  <2>3. QED BY <2>1, <2>2
<1>13. o \in Nat /\ o < Length(bank)
  <2> HIDE DEF o, y
  <2>1. QED BY <1>10, <1>11, <1>12
<1> HIDE DEF o
<1>14. CASE Shorter(entries, bank)
  BY <1>14 DEF Shorter, ShorterEntryAt, bank, n
<1>15. CASE Enough(entries, blocklist, bank.base, Length(bank))
  <2> DEFINE p == bank.base
             r == Beyond(p, o)
  <2>1. DOMAIN p = {"memory", "offset"} /\ p.offset \in Nat
    BY <1>15 DEF Enough, Placed
  <2>2. r.memory = p.memory /\ r.offset = p.offset + o
    BY <2>1 DEF Beyond
  <2>3. CASE Lacks(entries, p.memory)
    <3>1. TooShort(r.memory)
      BY <2>2, <2>3 DEF Lacks, TooShort, Range
    <3>2. QED BY <1>1, <3>1
  <2>4. CASE Roomy(blocklist, p, Length(bank))
    <3>1. p.memory \in DOMAIN Regions => r.offset < Regions[p.memory]
      <4>1. p.memory \in DOMAIN Regions => Regions[p.memory] \in Nat /\ p.offset + Length(bank) <= Regions[p.memory]
        BY <2>4, MemorySetupAssumption DEF Roomy
      <4>2. QED BY <1>10, <1>13, <2>1, <2>2, <4>1
    <3>2. p.memory \in DOMAIN blocklist => r.offset < Length(blocklist[p.memory])
      <4>1. BlocksOK(blocklist)
        BY DEF BanksInv, RoomInv, BlocksOK, BlocksRoom
      <4>2. p.memory \in DOMAIN blocklist =>
              /\ Length(blocklist[p.memory]) \in Int
              /\ p.offset + Length(bank) <= Length(blocklist[p.memory])
        BY <2>4, <4>1, BlocksAre DEF Roomy
      <4>3. QED BY <1>10, <1>13, <2>1, <2>2, <4>2
    <3> HIDE DEF p, r
    <3>3. Inside(r)
      BY <2>2, <3>1, <3>2 DEF Inside
    <3>4. QED BY <1>1, <3>3 DEF r, p
  <2>5. QED BY <1>15, <2>3, <2>4 DEF Enough
<1>16. QED BY <1>1, <1>3, <1>14, <1>15 DEF BankRoom

(* An access stays inside the memory of its bank: the range a bank has is  *)
(* one there is room for behind it, unless that memory is too short from   *)
(* the start, the address is a copy of one in a range of the bank, and the *)
(* handler masks it to its place in that range.                            *)
THEOREM AccessesHold == Spec => []AccessesStayInside
<1>1. SetupInv /\ BanksInv /\ RoomInv /\ ReachInv => AccessesStayInside
  BY ReachInside DEF AccessesStayInside
<1>2. QED BY <1>1, SetupAlways, BanksAlways, RoomAlways, PTL

---------------------------------------------------------------------------------
(* Blocks are whole chunks, with a chunk at least between two of them.     *)

Chunk(x)   == x \div MEMORY_BLOCK_CHUNK
Chunked(e) == [lo |-> Chunk(e.start), hi |-> Chunk(e.end)]

Far(c, f)    == c.hi + 1 < f.lo \/ f.hi + 1 < c.lo
Within(c, f) == c.lo <= f.lo /\ f.hi <= c.hi

(* Whether a quotient reaches a number is whether what is divided reaches  *)
(* its multiple.                                                           *)
LEMMA QuotientReaches ==
  ASSUME NEW x \in Nat, NEW c \in Nat \ {0}, NEW a \in Nat
  PROVE  /\ a <= x \div c <=> a * c <= x
         /\ x \div c <= a <=> x < (a + 1) * c
<1> DEFINE q == x \div c
           r == x % c
<1>1. q \in Nat /\ r \in Nat /\ r < c /\ x = q * c + r
  BY Division
<1> HIDE DEF q, r
<1>2. \A m, n \in Nat : m <= n => m * c <= n * c
  <2> SUFFICES ASSUME NEW m \in Nat, NEW n \in Nat, m <= n PROVE m * c <= n * c
    OBVIOUS
  <2>1. (n - m) * c \in Nat /\ n - m \in Nat
    OBVIOUS
  <2>2. n * c = m * c + (n - m) * c
    OBVIOUS
  <2>3. m * c \in Nat /\ n * c \in Nat
    OBVIOUS
  <2>4. QED BY <2>1, <2>2, <2>3
<1>3. \A m \in Nat : (m + 1) * c = m * c + c /\ m * c \in Nat
  OBVIOUS
<1>4. a <= q => a * c <= x
  BY <1>1, <1>2, <1>3
<1>5. ~(a <= q) => ~(a * c <= x)
  <2> SUFFICES ASSUME ~(a <= q) PROVE x < a * c
    BY <1>1, <1>3
  <2>1. q + 1 <= a
    BY <1>1
  <2>2. (q + 1) * c <= a * c
    BY <1>1, <1>2, <2>1
  <2>3. x < (q + 1) * c
    BY <1>1, <1>3
  <2>4. (q + 1) * c \in Nat /\ a * c \in Nat
    BY <1>1, <1>3
  <2>5. QED BY <2>2, <2>3, <2>4
<1>6. q <= a => x < (a + 1) * c
  <2> SUFFICES ASSUME q <= a PROVE x < (a + 1) * c
    OBVIOUS
  <2>1. (q + 1) * c <= (a + 1) * c
    BY <1>1, <1>2
  <2>2. x < (q + 1) * c
    BY <1>1, <1>3
  <2>3. (q + 1) * c \in Nat /\ (a + 1) * c \in Nat
    BY <1>1, <1>3
  <2>4. QED BY <2>1, <2>2, <2>3
<1>7. ~(q <= a) => ~(x < (a + 1) * c)
  <2> SUFFICES ASSUME ~(q <= a) PROVE (a + 1) * c <= x
    BY <1>1, <1>3
  <2>1. a + 1 <= q
    BY <1>1
  <2>2. (a + 1) * c <= q * c
    BY <1>1, <1>2, <2>1
  <2>3. (a + 1) * c \in Nat /\ q * c \in Nat
    BY <1>1, <1>3
  <2>4. QED BY <1>1, <2>2, <2>3
<1>8. QED BY <1>4, <1>5, <1>6, <1>7 DEF q

(* The chunk of an address, and that the order of addresses is that of     *)
(* their chunks.                                                           *)
LEMMA ChunksAre ==
  /\ MEMORY_BLOCK_CHUNK \in Nat \ {0}
  /\ \A x \in Nat : Chunk(x) \in Nat
  /\ \A x, y \in Nat : x <= y => Chunk(x) <= Chunk(y)
  /\ \A x \in Nat : x >= MEMORY_BLOCK_CHUNK => Chunk(x) >= 1
<1> DEFINE C == MEMORY_BLOCK_CHUNK
<1>1. C \in Nat \ {0}
  BY MemorySetupAssumption
<1>2. \A x \in Nat : Chunk(x) \in Nat
  BY <1>1, Division DEF Chunk
<1> HIDE DEF C
<1>3. \A x, a \in Nat : a <= x \div C <=> a * C <= x
  BY <1>1, QuotientReaches
<1>4. ASSUME NEW x \in Nat, NEW y \in Nat, x <= y PROVE Chunk(x) <= Chunk(y)
  <2> DEFINE a == x \div C
  <2>1. a \in Nat /\ a * C \in Nat
    BY <1>1, <1>2 DEF Chunk, C
  <2> HIDE DEF a
  <2>2. a <= x \div C
    BY <2>1 DEF a
  <2>3. a * C <= x
    BY <1>3, <2>1, <2>2
  <2>4. a * C <= y
    BY <1>4, <2>1, <2>3
  <2>5. a <= y \div C
    BY <1>3, <2>1, <2>4
  <2>6. QED BY <2>5 DEF a, Chunk, C
<1>5. ASSUME NEW x \in Nat, x >= C PROVE Chunk(x) >= 1
  <2>1. 1 * C = C
    BY <1>1
  <2>2. 1 * C <= x
    BY <1>1, <1>5, <2>1
  <2>3. 1 <= x \div C
    BY <1>3, <2>2
  <2>4. x \div C \in Nat
    BY <1>2 DEF Chunk, C
  <2>5. QED BY <2>3, <2>4 DEF Chunk, C
<1>6. QED BY <1>1, <1>2, <1>4, <1>5 DEF C

(* The first and the last address of whole chunks.                         *)
LEMMA WholeChunks ==
  ASSUME NEW c, c.lo \in Nat, c.hi \in Nat, c.lo <= c.hi
  PROVE  LET lo == c.lo * MEMORY_BLOCK_CHUNK
             hi == (c.hi + 1) * MEMORY_BLOCK_CHUNK - 1
         IN  /\ lo \in Nat /\ hi \in Nat /\ lo <= hi
             /\ Chunk(lo) = c.lo /\ Chunk(hi) = c.hi
             /\ \A x \in Nat : (lo <= x <=> c.lo <= Chunk(x)) /\ (x <= hi <=> Chunk(x) <= c.hi)
<1> DEFINE C  == MEMORY_BLOCK_CHUNK
           lo == c.lo * C
           hi == (c.hi + 1) * C - 1
<1>1. C \in Nat \ {0}
  BY MemorySetupAssumption
<1>2. lo \in Nat /\ (c.hi + 1) * C \in Nat /\ hi \in Int
  BY <1>1
<1> HIDE DEF C
<1>3. \A x \in Nat : lo <= x <=> c.lo <= x \div C
  BY <1>1, QuotientReaches
<1>4. ASSUME NEW x \in Nat PROVE x <= hi <=> x \div C <= c.hi
  <2>1. x < (c.hi + 1) * C <=> x \div C <= c.hi
    BY <1>1, QuotientReaches
  <2>2. x <= hi <=> x < (c.hi + 1) * C
    BY <1>2
  <2>3. QED BY <2>1, <2>2
<1>5. \A x \in Nat : x \div C \in Nat
  BY <1>1, Division
<1>6. lo <= hi
  <2>1. c.lo \in Nat
    OBVIOUS
  <2>2. lo = c.lo * C + 0 /\ 0 \in 0 .. (C - 1)
    BY <1>1, <1>2
  <2>3. lo \div C = c.lo
    BY <1>1, <2>1, <2>2, DivisionIsUnique
  <2>4. QED BY <1>2, <1>4, <2>3
<1>7. hi \in Nat
  BY <1>2, <1>6
<1>8. lo \div C = c.lo
  <2>1. lo = c.lo * C + 0 /\ 0 \in 0 .. (C - 1)
    BY <1>1, <1>2
  <2>2. QED BY <1>1, <2>1, DivisionIsUnique
<1>9. hi \div C = c.hi
  <2>1. hi = c.hi * C + (C - 1) /\ C - 1 \in 0 .. (C - 1)
    BY <1>1
  <2>2. QED BY <1>1, <2>1, DivisionIsUnique
<1> HIDE DEF lo, hi
<1>10. QED BY <1>2, <1>3, <1>4, <1>6, <1>7, <1>8, <1>9 DEF Chunk, C, lo, hi

---------------------------------------------------------------------------------
(* Spaces of entries without regions, shares and tags.                     *)

PlainEntry(z, e) ==
  /\ e.region = None /\ e.share = None /\ e.tag = None
  /\ e.start >= MEMORY_BLOCK_CHUNK /\ ~Straddles(z, e)

PlainIn(z, es) == \A i \in DOMAIN es : PlainEntry(z, es[i])

Wants(z, e) == e.memory = None /\ Stores(z, e)

(* They stay plain when they get memory.                                   *)
LEMMA PlainStays ==
  ASSUME NEW z, NEW es, NEW fs, DOMAIN fs = DOMAIN es, \A i \in DOMAIN es : Assigns(fs[i], es[i])
  PROVE  PlainIn(z, fs) <=> PlainIn(z, es)
<1>1. ASSUME NEW i \in DOMAIN es PROVE PlainEntry(z, fs[i]) <=> PlainEntry(z, es[i])
  BY DEF Assigns, PlainEntry, Straddles
<1>2. QED BY <1>1 DEF PlainIn

(* The memory an entry without a share has after a block was offered.      *)
Offered(e, lo, hi, data) ==
  IF e.memory # None THEN e.memory
  ELSE IF e.start >= lo /\ e.end <= hi THEN Beyond(data, e.start - lo)
  ELSE None

(* What the loop over the entries of a plain space has made of the first k *)
(* of them.                                                                *)
OfferedUpTo(k, z, w, v, lo, hi, data) ==
  /\ \A i \in DOMAIN w.es : v.es[i].memory = IF i <= k THEN Offered(w.es[i], lo, hi, data) ELSE w.es[i].memory
  /\ v.left # 0 => v.left \in DOMAIN w.es /\ v.left <= k /\ Wants(z, v.es[v.left])

(* block_assign_intersecting gives a plain space no more than the block.   *)
LEMMA BlockGives ==
  ASSUME NEW w, WorkOK(w), NEW z, PlainIn(z, w.es), NEW lo, NEW hi, NEW data,
         NEW v, v = block_assign_intersecting(w, z, lo, hi, data)
  PROVE  /\ \A i \in DOMAIN w.es : v.es[i].memory = Offered(w.es[i], lo, hi, data)
         /\ v.left # 0 => v.left \in DOMAIN w.es /\ Wants(z, v.es[v.left])
<1> DEFINE u == [w EXCEPT !.left = 0]
           s == [i \in DOMAIN w.es |-> i]
<1>1. PICK n \in Nat : DOMAIN w.es = 1 .. n
  BY DEF WorkOK, IsList
<1>2. DOMAIN s = 1 .. n /\ \A i \in 1 .. n : s[i] = i
  BY <1>1
<1>3. /\ DOMAIN u = WorkFields /\ u.es = w.es /\ u.shares = w.shares /\ u.left = 0
      /\ \A i \in DOMAIN w.es : DOMAIN w.es[i] = Fields
  BY DEF WorkOK, WorkFields
<1>4. WorkOK(u)
  BY <1>3 DEF WorkOK
<1> HIDE DEF u, s
<1>5. v = AssignFold!Fold(z, lo, hi, data, u, s)
  BY DEF block_assign_intersecting, FoldLeft, MapThenFoldSet, AssignFold!Fold, AssignFold!Last,
         AssignStep, Max, u, s
<1>6. AssignFold!Induction(n)
  BY LoopInduction DEF AssignFold!Induction
<1>7. PICK g : AssignFold!Passes(z, lo, hi, data, u, s, n, g) /\ g[n] = v
  BY <1>2, <1>5, <1>6, AssignFold!FoldPasses
<1> DEFINE J(k) == Better(w, g[k]) /\ OfferedUpTo(k, z, w, g[k], lo, hi, data)
           P == {k \in 0 .. n : J(k)}
<1>8. 0 \in P
  <2>1. g[0] = u
    BY <1>7 DEF AssignFold!Passes
  <2>2. Grew(w.es, w.shares, u.es, u.shares)
    BY <1>3, GrewNot
  <2>3. \A i \in 1 .. n : ~(i <= 0)
    OBVIOUS
  <2>4. OfferedUpTo(0, z, w, u, lo, hi, data)
    BY <1>1, <1>3, <2>3 DEF OfferedUpTo
  <2>5. QED BY <1>4, <2>1, <2>2, <2>4 DEF Better
<1>9. ASSUME NEW k \in 0 .. (n - 1), k \in P PROVE k + 1 \in P
  <2> DEFINE m == k + 1
             x == g[k]
             y == g[m]
             e == x.es[m]
             p == Offered(e, lo, hi, data)
  <2>a. J(k)
    BY <1>9
  <2>1. /\ m \in 1 .. n /\ m \in 0 .. n /\ m - 1 = k /\ m # 0 /\ ~(m <= k)
        /\ \A i \in 1 .. n : i <= m <=> (i <= k \/ i = m)
    OBVIOUS
  <2> HIDE DEF m
  <2>2. y = AssignEntry(x, z, m, lo, hi, data)
    BY <1>2, <1>7, <2>1 DEF AssignFold!Passes, AssignStep
  <2>3. /\ WorkOK(x) /\ Grew(w.es, w.shares, x.es, x.shares) /\ DOMAIN x.es = 1 .. n
        /\ DOMAIN x = WorkFields /\ DOMAIN e = Fields
    <3>1. WorkOK(x) /\ Grew(w.es, w.shares, x.es, x.shares) /\ DOMAIN x.es = 1 .. n
      BY <1>1, <2>a DEF Better, Grew
    <3>2. QED BY <2>1, <3>1 DEF WorkOK
  <2>4. WorkOK(y) /\ Grew(x.es, x.shares, y.es, y.shares)
    BY <2>1, <2>2, <2>3, AssignEntryStep
  <2>5. Better(w, y)
    BY <2>3, <2>4, GrewTwice DEF Better
  <2>6. PlainIn(z, x.es) /\ e.share = None
    <3>1. PlainIn(z, x.es)
      BY <2>3, PlainStays DEF Grew
    <3>2. QED BY <2>1, <2>3, <3>1 DEF PlainIn, PlainEntry
  <2>7. y = [x EXCEPT !.es[m].memory = p, !.shares = x.shares,
                      !.left = IF x.left = 0 /\ p = None /\ Stores(z, e) THEN m ELSE x.left]
    <3>1. NeedsBackingStore(z, e, x.shares) <=> Stores(z, e)
      BY <2>6 DEF NeedsBackingStore, Stores
    <3>2. QED BY <2>2, <2>6, <3>1 DEF AssignEntry, Offered
  <2> HIDE DEF p
  <2>8. /\ y.es = [x.es EXCEPT ![m] = [e EXCEPT !.memory = p]]
        /\ y.left = IF x.left = 0 /\ p = None /\ Stores(z, e) THEN m ELSE x.left
    BY <2>1, <2>3, <2>7 DEF WorkFields
  <2>9. /\ y.es[m].memory = p
        /\ \A i \in 1 .. n : i # m => y.es[i] = x.es[i]
    BY <2>1, <2>3, <2>8 DEF Fields
  <2>10. p = Offered(w.es[m], lo, hi, data)
    <3>1. e.memory = w.es[m].memory /\ e.start = w.es[m].start /\ e.end = w.es[m].end
      BY <1>1, <2>a, <2>1, <2>3 DEF OfferedUpTo, Grew, Assigns
    <3>2. QED BY <3>1 DEF Offered, p
  <2>11. ASSUME NEW i \in DOMAIN w.es
         PROVE  y.es[i].memory = IF i <= m THEN Offered(w.es[i], lo, hi, data) ELSE w.es[i].memory
    <3>1. CASE i = m
      BY <1>1, <2>1, <2>9, <2>10, <3>1
    <3>2. CASE i # m
      BY <1>1, <2>a, <2>1, <2>9, <3>2 DEF OfferedUpTo
    <3>3. QED BY <3>1, <3>2
  <2>12. ASSUME y.left # 0 PROVE y.left \in DOMAIN w.es /\ y.left <= m /\ Wants(z, y.es[y.left])
    <3>1. CASE y.left = m
      <4>1. CASE x.left = m
        BY <2>a, <2>1, <4>1 DEF OfferedUpTo
      <4>2. CASE x.left # m
        <5>1. p = None /\ Stores(z, e)
          BY <2>8, <3>1, <4>2
        <5>2. Stores(z, y.es[m])
          BY <2>1, <2>3, <2>4, <5>1 DEF Grew, Assigns, Stores
        <5>3. QED BY <1>1, <2>1, <2>9, <3>1, <5>1, <5>2 DEF Wants
      <4>3. QED BY <4>1, <4>2
    <3>2. CASE y.left # m
      <4>1. y.left = x.left /\ x.left # 0
        BY <2>8, <2>12, <3>2
      <4>2. x.left \in DOMAIN w.es /\ x.left <= k /\ Wants(z, x.es[x.left])
        BY <2>a, <4>1 DEF OfferedUpTo
      <4>3. x.left # m /\ x.left <= m /\ x.left \in 1 .. n
        BY <1>1, <2>1, <4>2
      <4>4. QED BY <1>1, <2>9, <4>1, <4>2, <4>3
    <3>3. QED BY <3>1, <3>2
  <2>13. OfferedUpTo(m, z, w, y, lo, hi, data)
    BY <2>11, <2>12 DEF OfferedUpTo
  <2>14. J(m)
    BY <2>5, <2>13
  <2>15. QED BY <2>1, <2>14 DEF m
<1>10. n \in P
  <2> HIDE DEF P
  <2>1. QED BY <1>8, <1>9, LoopInduction
<1>11. OfferedUpTo(n, z, w, v, lo, hi, data)
  BY <1>7, <1>10
<1>12. \A i \in 1 .. n : i <= n
  OBVIOUS
<1>13. QED BY <1>1, <1>11, <1>12 DEF OfferedUpTo

---------------------------------------------------------------------------------
(* The span of a block: it takes in the entries that need memory until all *)
(* the others are far from it.                                             *)

SpanOK(c) == c \in [lo : Nat, hi : Nat] /\ 1 <= c.lo /\ c.lo <= c.hi

Joined(c, f) == [lo |-> Min({c.lo, f.lo}), hi |-> Max({c.hi, f.hi})]

(* Two spans that touch, taken together, are far from what both are far    *)
(* from.                                                                   *)
LEMMA JoinedIs ==
  ASSUME NEW c, SpanOK(c), NEW f, SpanOK(f), NEW v, v = Joined(c, f)
  PROVE  /\ SpanOK(v) /\ Within(v, c) /\ Within(v, f)
         /\ Within(c, f) => v = c
         /\ ~Far(c, f) => \A h : SpanOK(h) /\ Far(c, h) /\ Far(f, h) => Far(v, h)
<1> DEFINE a == Min({c.lo, f.lo})
           b == Max({c.hi, f.hi})
<1>1. /\ c.lo \in Nat /\ c.hi \in Nat /\ f.lo \in Nat /\ f.hi \in Nat
      /\ 1 <= c.lo /\ c.lo <= c.hi /\ 1 <= f.lo /\ f.lo <= f.hi
      /\ c = [lo |-> c.lo, hi |-> c.hi]
  BY DEF SpanOK
<1>2. a \in {c.lo, f.lo} /\ a <= c.lo /\ a <= f.lo
  BY <1>1, OfTwo
<1>3. b \in {c.hi, f.hi} /\ b >= c.hi /\ b >= f.hi
  BY <1>1, OfTwo
<1>4. v.lo = a /\ v.hi = b /\ v = [lo |-> a, hi |-> b]
  BY DEF Joined
<1> HIDE DEF a, b
<1>5. a \in Nat /\ b \in Nat /\ 1 <= a /\ a <= b
  BY <1>1, <1>2, <1>3
<1>6. SpanOK(v)
  BY <1>4, <1>5 DEF SpanOK
<1>7. Within(v, c) /\ Within(v, f)
  BY <1>1, <1>2, <1>3, <1>4, <1>5 DEF Within
<1>8. ASSUME Within(c, f) PROVE v = c
  <2>1. a = c.lo /\ b = c.hi
    BY <1>1, <1>2, <1>3, <1>5, <1>8 DEF Within
  <2>2. QED BY <1>1, <1>4, <2>1
<1>9. ASSUME ~Far(c, f), NEW h, SpanOK(h), Far(c, h), Far(f, h) PROVE Far(v, h)
  <2>1. h.lo \in Nat /\ h.hi \in Nat /\ h.lo <= h.hi
    BY <1>9 DEF SpanOK
  <2>2. QED BY <1>1, <1>2, <1>3, <1>4, <1>5, <1>9, <2>1 DEF Far
<1>10. QED BY <1>6, <1>7, <1>8, <1>9

(* The chunks of a plain entry.                                            *)
LEMMA ChunkedIs ==
  ASSUME NEW z, NEW e, EntryOK(e), PlainEntry(z, e), e.start <= e.end
  PROVE  SpanOK(Chunked(e))
<1>1. e.start \in Nat /\ e.end \in Nat /\ e.start >= MEMORY_BLOCK_CHUNK
  BY DEF EntryOK, PlainEntry
<1>2. /\ Chunk(e.start) \in Nat /\ Chunk(e.end) \in Nat
      /\ Chunk(e.start) <= Chunk(e.end) /\ Chunk(e.start) >= 1
  BY <1>1, ChunksAre
<1>3. QED BY <1>2 DEF SpanOK, Chunked

(* One entry of a pass.                                                    *)
LEMMA TakeStepIs ==
  ASSUME NEW e, PlainEntry(space, e), NEW v, SpanOK(v), SpanOK(Chunked(e))
  PROVE  TakeStep(0, 0, 0, 0, v, e) =
           IF Wants(space, e) /\ ~Far(v, Chunked(e)) THEN Joined(v, Chunked(e)) ELSE v
<1>1. e.memory = None /\ NeedsBackingStore(space, e, sharelist) <=> Wants(space, e)
  BY DEF PlainEntry, NeedsBackingStore, Wants, Stores
<1>2. Takes(v, e) <=> ~Far(v, Chunked(e))
  <2> DEFINE a == e.start \div MEMORY_BLOCK_CHUNK
             b == e.end \div MEMORY_BLOCK_CHUNK
  <2>1. Chunked(e).lo = a /\ Chunked(e).hi = b
    BY DEF Chunked, Chunk
  <2>2. a \in Nat /\ b \in Nat /\ v.lo \in Nat /\ v.hi \in Nat /\ 1 <= v.lo
    BY <2>1 DEF SpanOK
  <2>3. Takes(v, e) <=> a <= v.hi + 1 /\ v.lo > 0 /\ b >= v.lo - 1
    BY DEF Takes
  <2> HIDE DEF a, b
  <2>4. QED BY <2>1, <2>2, <2>3 DEF Far
<1>3. QED BY <1>1, <1>2 DEF TakeStep, Joined, Chunked, Chunk

(* The entries a span has taken in, and whether all that want memory are   *)
(* in it or far from it.                                                   *)
Taken(z, es, c)   == {i \in DOMAIN es : Wants(z, es[i]) /\ Within(c, Chunked(es[i]))}
Closed(z, es, k, c) ==
  \A i \in DOMAIN es : i <= k /\ Wants(z, es[i]) => Within(c, Chunked(es[i])) \/ Far(c, Chunked(es[i]))
Settled(z, es, c) ==
  \A i \in DOMAIN es : Wants(z, es[i]) => Within(c, Chunked(es[i])) \/ Far(c, Chunked(es[i]))
Lone(z, es, h)    == \A i \in DOMAIN es : Wants(z, es[i]) => Far(Chunked(es[i]), h)

Spreads(z, es, c, v) ==
  /\ SpanOK(v) /\ Within(v, c)
  /\ \A h : SpanOK(h) /\ Far(c, h) /\ Lone(z, es, h) => Far(v, h)

PlainList(z, es) ==
  /\ EntryList(es) /\ PlainIn(z, es)
  /\ \A i \in DOMAIN es : es[i].start <= es[i].end

(* What is in a span is in a wider one.                                    *)
LEMMA WithinTwice ==
  ASSUME NEW c, SpanOK(c), NEW v, SpanOK(v), NEW f, SpanOK(f), Within(v, c), Within(c, f)
  PROVE  Within(v, f)
<1>1. /\ c.lo \in Nat /\ c.hi \in Nat /\ v.lo \in Nat /\ v.hi \in Nat
      /\ f.lo \in Nat /\ f.hi \in Nat
  BY DEF SpanOK
<1>2. QED BY <1>1 DEF Within

(* A pass takes in nothing more, or an entry that was not there.           *)
LEMMA PassTakes ==
  ASSUME NEW es, PlainList(space, es), NEW c, SpanOK(c), NEW v, v = TakeFold!Fold(0, 0, 0, 0, c, es)
  PROVE  /\ Spreads(space, es, c, v)
         /\ Settled(space, es, c) => v = c
         /\ \/ v = c /\ Settled(space, es, c)
            \/ \E i \in DOMAIN es : i \in Taken(space, es, v) /\ i \notin Taken(space, es, c)
<1>1. PICK n \in Nat : DOMAIN es = 1 .. n
  BY DEF PlainList, EntryList, IsList
<1>2. TakeFold!Induction(n)
  BY LoopInduction DEF TakeFold!Induction
<1>3. PICK g : TakeFold!Passes(0, 0, 0, 0, c, es, n, g) /\ g[n] = v
  BY <1>1, <1>2, TakeFold!FoldPasses
<1>4. \A i \in DOMAIN es : PlainEntry(space, es[i]) /\ SpanOK(Chunked(es[i]))
  BY ChunkedIs DEF PlainList, EntryList, PlainIn
<1> DEFINE More(x) == \E i \in DOMAIN es : i \in Taken(space, es, x) /\ i \notin Taken(space, es, c)
           J(k) == /\ Spreads(space, es, c, g[k])
                   /\ Settled(space, es, c) => g[k] = c
                   /\ (g[k] = c /\ Closed(space, es, k, c)) \/ More(g[k])
           P == {k \in 0 .. n : J(k)}
<1>5. 0 \in P
  <2>1. g[0] = c
    BY <1>3 DEF TakeFold!Passes
  <2>2. Within(c, c)
    BY DEF SpanOK, Within
  <2>3. \A i \in 1 .. n : ~(i <= 0)
    OBVIOUS
  <2>4. Spreads(space, es, c, c) /\ Closed(space, es, 0, c)
    BY <1>1, <2>2, <2>3 DEF Spreads, Closed
  <2>5. QED BY <2>1, <2>4
<1>6. ASSUME NEW k \in 0 .. (n - 1), k \in P PROVE k + 1 \in P
  <2> DEFINE m == k + 1
             e == es[m]
             f == Chunked(e)
             x == g[k]
             y == g[m]
  <2>a. J(k)
    BY <1>6
  <2>1. /\ m \in 1 .. n /\ m \in 0 .. n /\ m - 1 = k
        /\ \A i \in 1 .. n : i <= m => i <= k \/ i = m
    OBVIOUS
  <2> HIDE DEF m
  <2>2. y = TakeStep(0, 0, 0, 0, x, e)
    BY <1>3, <2>1 DEF TakeFold!Passes
  <2>3. m \in DOMAIN es /\ PlainEntry(space, e) /\ SpanOK(f) /\ SpanOK(x) /\ Within(x, c)
    BY <1>1, <1>4, <2>a, <2>1 DEF Spreads
  <2>4. y = IF Wants(space, e) /\ ~Far(x, f) THEN Joined(x, f) ELSE x
    BY <2>2, <2>3, TakeStepIs
  <2> HIDE DEF f, e
  <2>5. CASE Wants(space, e) /\ ~Far(x, f)
    <3>1. /\ SpanOK(y) /\ Within(y, x) /\ Within(y, f)
          /\ Within(x, f) => y = x
          /\ \A h : SpanOK(h) /\ Far(x, h) /\ Far(f, h) => Far(y, h)
      BY <2>3, <2>4, <2>5, JoinedIs
    <3>2. Within(y, c)
      BY <2>3, <3>1, WithinTwice
    <3>3. ASSUME NEW h, SpanOK(h), Far(c, h), Lone(space, es, h) PROVE Far(y, h)
      <4>1. Far(x, h)
        BY <2>a, <3>3 DEF Spreads
      <4>2. Far(f, h)
        BY <2>3, <2>5, <3>3 DEF Lone, f, e
      <4>3. QED BY <3>1, <3>3, <4>1, <4>2
    <3>4. Spreads(space, es, c, y)
      BY <3>1, <3>2, <3>3 DEF Spreads
    <3>10. ASSUME Settled(space, es, c) PROVE y = c
      <4>1. x = c
        BY <2>a, <3>10
      <4>2. Within(c, f)
        BY <2>3, <2>5, <3>10, <4>1 DEF Settled, f, e
      <4>3. QED BY <3>1, <4>1, <4>2
    <3>5. m \in Taken(space, es, y)
      BY <2>3, <2>5, <3>1 DEF Taken, f, e
    <3>6. CASE More(x)
      <4>1. PICK i \in DOMAIN es : i \in Taken(space, es, x) /\ i \notin Taken(space, es, c)
        BY <3>6
      <4>2. Within(y, Chunked(es[i]))
        BY <1>4, <2>3, <3>1, <4>1, WithinTwice DEF Taken
      <4>3. i \in Taken(space, es, y)
        BY <4>1, <4>2 DEF Taken
      <4>4. QED BY <2>1, <3>4, <3>10, <4>1, <4>3 DEF m
    <3>7. CASE x = c /\ Closed(space, es, k, c)
      <4>1. CASE Within(c, f)
        <5>1. y = c
          BY <3>1, <3>7, <4>1
        <5>2. Closed(space, es, m, c)
          <6>1. ASSUME NEW i \in DOMAIN es, i <= m, Wants(space, es[i])
                PROVE  Within(c, Chunked(es[i])) \/ Far(c, Chunked(es[i]))
            <7>1. CASE i = m
              BY <4>1, <7>1 DEF f, e
            <7>2. CASE i <= k
              BY <3>7, <6>1, <7>2 DEF Closed
            <7>3. QED BY <1>1, <2>1, <6>1, <7>1, <7>2
          <6>2. QED BY <6>1 DEF Closed
        <5>3. QED BY <2>1, <3>4, <3>10, <5>1, <5>2 DEF m
      <4>2. CASE ~Within(c, f)
        <5>1. m \notin Taken(space, es, c)
          BY <4>2 DEF Taken, f, e
        <5>2. QED BY <2>1, <2>3, <3>4, <3>10, <3>5, <5>1 DEF m
      <4>3. QED BY <4>1, <4>2
    <3>8. QED BY <2>a, <3>6, <3>7
  <2>6. CASE ~(Wants(space, e) /\ ~Far(x, f))
    <3>1. y = x
      BY <2>4, <2>6
    <3>2. ASSUME x = c, Closed(space, es, k, c) PROVE Closed(space, es, m, c)
      <4>1. ASSUME NEW i \in DOMAIN es, i <= m, Wants(space, es[i])
            PROVE  Within(c, Chunked(es[i])) \/ Far(c, Chunked(es[i]))
        <5>1. CASE i = m
          BY <2>6, <3>2, <4>1, <5>1 DEF f, e
        <5>2. CASE i <= k
          BY <3>2, <4>1, <5>2 DEF Closed
        <5>3. QED BY <1>1, <2>1, <4>1, <5>1, <5>2
      <4>2. QED BY <4>1 DEF Closed
    <3>3. J(m)
      BY <2>a, <3>1, <3>2
    <3>4. QED BY <2>1, <3>3 DEF m
  <2>7. QED BY <2>5, <2>6
<1>7. n \in P
  <2> HIDE DEF P
  <2>1. QED BY <1>5, <1>6, LoopInduction
<1>8. \A i \in 1 .. n : i <= n
  OBVIOUS
<1>9. Closed(space, es, n, c) => Settled(space, es, c)
  BY <1>1, <1>8 DEF Closed, Settled
<1>10. QED BY <1>3, <1>7, <1>9

(* There are as many passes as entries, and a pass that takes in no entry  *)
(* is the last that changes anything: in the end the span is settled.      *)
LEMMA SpanSettles ==
  ASSUME NEW es, PlainList(space, es), unassigned \in DOMAIN es, Wants(space, es[unassigned])
  PROVE  /\ SpanOK(Span(es)) /\ Settled(space, es, Span(es))
         /\ \A h : SpanOK(h) /\ Lone(space, es, h) => Far(Span(es), h)
<1> DEFINE c == Chunked(es[unassigned])
<1>1. PICK n \in Nat : DOMAIN es = 1 .. n
  BY DEF PlainList, EntryList, IsList
<1>2. SpanOK(c)
  BY ChunkedIs DEF PlainList, EntryList, PlainIn
<1>3. Span(es) = PassFold!Fold(es, 0, 0, 0, c, es)
  BY DEF Span, FoldLeft, MapThenFoldSet, PassFold!Fold, PassFold!Last, PassStep,
         TakeFold!Fold, TakeFold!Last, TakeStep, Max, Chunked, Chunk
<1> HIDE DEF c
<1>4. PassFold!Induction(n)
  BY LoopInduction DEF PassFold!Induction
<1>5. PICK g : PassFold!Passes(es, 0, 0, 0, c, es, n, g) /\ g[n] = Span(es)
  BY <1>1, <1>3, <1>4, PassFold!FoldPasses
<1> DEFINE T(k) == Taken(space, es, g[k])
           J(k) == /\ Spreads(space, es, c, g[k])
                   /\ Settled(space, es, g[k]) \/ Cardinality(T(k)) >= k + 1
           P == {k \in 0 .. n : J(k)}
<1>6. ASSUME NEW x PROVE /\ IsFiniteSet(Taken(space, es, x)) /\ Cardinality(Taken(space, es, x)) \in Nat
                         /\ Cardinality(Taken(space, es, x)) <= n
  <2>1. Taken(space, es, x) \subseteq 1 .. n
    BY <1>1 DEF Taken
  <2>2. IsFiniteSet(1 .. n) /\ Cardinality(1 .. n) = n
    BY FS_Interval
  <2>3. QED BY <2>1, <2>2, FS_Subset, FS_CardinalityType
<1>7. 0 \in P
  <2>1. g[0] = c
    BY <1>5 DEF PassFold!Passes
  <2>2. Within(c, c)
    BY <1>2 DEF SpanOK, Within
  <2>3. Spreads(space, es, c, c)
    BY <1>2, <2>2 DEF Spreads
  <2>4. unassigned \in Taken(space, es, c)
    BY <2>2 DEF Taken, c
  <2>5. Cardinality(Taken(space, es, c)) # 0
    BY <1>6, <2>4, FS_EmptySet
  <2>6. Cardinality(Taken(space, es, c)) >= 0 + 1
    <3> DEFINE q == Cardinality(Taken(space, es, c))
    <3>1. q \in Nat /\ q # 0
      BY <1>6, <2>5
    <3> HIDE DEF q
    <3>2. q >= 0 + 1
      BY <3>1
    <3>3. QED BY <3>2 DEF q
  <2>7. QED BY <2>1, <2>3, <2>6
<1>8. ASSUME NEW k \in 0 .. (n - 1), k \in P PROVE k + 1 \in P
  <2> DEFINE m == k + 1
  <2>1. m \in 1 .. n /\ m \in 0 .. n /\ m - 1 = k /\ J(k)
    BY <1>8
  <2> HIDE DEF m
  <2>2. g[m] = TakeFold!Fold(0, 0, 0, 0, g[k], es)
    BY <1>5, <2>1 DEF PassFold!Passes, PassStep
  <2>3. SpanOK(g[k]) /\ Within(g[k], c)
    BY <2>1 DEF Spreads
  <2>4. /\ Spreads(space, es, g[k], g[m])
        /\ Settled(space, es, g[k]) => g[m] = g[k]
        /\ \/ g[m] = g[k] /\ Settled(space, es, g[k])
           \/ \E i \in DOMAIN es : i \in T(m) /\ i \notin T(k)
    BY <2>2, <2>3, PassTakes
  <2>5. Spreads(space, es, c, g[m])
    <3>1. SpanOK(g[m]) /\ Within(g[m], g[k])
      BY <2>4 DEF Spreads
    <3>2. Within(g[m], c)
      BY <1>2, <2>3, <3>1, WithinTwice
    <3>3. ASSUME NEW h, SpanOK(h), Far(c, h), Lone(space, es, h) PROVE Far(g[m], h)
      <4>1. Far(g[k], h)
        BY <2>1, <3>3 DEF Spreads
      <4>2. QED BY <2>4, <3>3, <4>1 DEF Spreads
    <3>4. QED BY <3>1, <3>2, <3>3 DEF Spreads
  <2>6. Settled(space, es, g[m]) \/ Cardinality(T(m)) >= m + 1
    <3> SUFFICES ASSUME ~Settled(space, es, g[k]) PROVE Cardinality(T(m)) >= m + 1
      BY <2>4
    <3>1. PICK i \in DOMAIN es : i \in T(m) /\ i \notin T(k)
      BY <2>4
    <3>2. T(k) \subseteq T(m)
      <4>1. ASSUME NEW j \in T(k) PROVE j \in T(m)
        <5>1. j \in DOMAIN es /\ Wants(space, es[j]) /\ Within(g[k], Chunked(es[j]))
          BY DEF Taken
        <5>2. SpanOK(Chunked(es[j]))
          BY <5>1, ChunkedIs DEF PlainList, EntryList, PlainIn
        <5>3. Within(g[m], Chunked(es[j]))
          BY <2>3, <2>4, <5>1, <5>2, WithinTwice DEF Spreads
        <5>4. QED BY <5>1, <5>3 DEF Taken
      <4>2. QED BY <4>1
    <3> DEFINE S == T(k)
               R == T(m)
    <3>3. IsFiniteSet(R) /\ Cardinality(R) \in Nat /\ Cardinality(S) \in Nat /\ Cardinality(S) >= k + 1
      BY <1>6, <2>1
    <3> HIDE DEF S, R
    <3>4. Cardinality(S) <= Cardinality(R) /\ (Cardinality(S) = Cardinality(R) => S = R)
      BY <3>2, <3>3, FS_Subset DEF S, R
    <3>5. Cardinality(S) # Cardinality(R)
      BY <3>1, <3>4 DEF S, R
    <3>6. Cardinality(R) >= k + 2
      BY <3>3, <3>4, <3>5
    <3>7. QED BY <2>1, <3>3, <3>6 DEF R
  <2>7. QED BY <2>1, <2>5, <2>6 DEF m
<1>9. J(n)
  <2>1. n \in P
    <3> HIDE DEF P
    <3>1. QED BY <1>7, <1>8, LoopInduction
  <2>2. QED BY <2>1
<1>10. Settled(space, es, g[n])
  <2> DEFINE q == Cardinality(T(n))
  <2>1. q \in Nat /\ q <= n
    BY <1>6
  <2>2. Settled(space, es, g[n]) \/ q >= n + 1
    BY <1>9
  <2> HIDE DEF q
  <2>3. QED BY <2>1, <2>2
<1>11. \A h : Lone(space, es, h) => Far(c, h)
  BY DEF Lone, c
<1>12. QED BY <1>5, <1>9, <1>10, <1>11 DEF Spreads

---------------------------------------------------------------------------------
(* The blocks of a plain space are far from each other and from what still *)
(* wants memory, and the memory of an entry is where the entry is in a     *)
(* block around it.                                                        *)

BlocksOf(bl, z) == {k \in DOMAIN bl : bl[k].space = z}

IsIn(bl, z, e) ==
  \E k \in BlocksOf(bl, z) : /\ bl[k].start <= e.start /\ e.end <= bl[k].end
                             /\ e.memory = Place(k, e.start - bl[k].start)

PlainBlock(bl, z, es, k) ==
  /\ bl[k].start \in Nat /\ bl[k].end \in Nat /\ bl[k].data = Place(k, 0)
  /\ SpanOK(Chunked(bl[k])) /\ Lone(z, es, Chunked(bl[k]))
  /\ \A j \in BlocksOf(bl, z) : j # k => Far(Chunked(bl[j]), Chunked(bl[k]))

PlainOK(bl, z, es) ==
  /\ \A k \in BlocksOf(bl, z) : PlainBlock(bl, z, es, k)
  /\ \A i \in DOMAIN es : es[i].memory # None => IsIn(bl, z, es[i])

(* A place in a block.                                                     *)
LEMMA BlockPlaceIs ==
  ASSUME NEW n \in Nat, NEW k \in Nat
  PROVE  Place(n, k) # None /\ Beyond(Place(n, 0), k) = Place(n, k)
BY MemorySetupAssumption DEF Place, Beyond

(* A new block is far from the others, and takes in or is far from what    *)
(* wants memory.                                                           *)
LEMMA BlockKeepsPlain ==
  ASSUME NEW bl, IsSeq(bl), NEW es, PlainList(space, es), PlainOK(bl, space, es),
         unassigned \in DOMAIN es, Wants(space, es[unassigned]),
         NEW c, c = Span(es), NEW lo, lo = c.lo * MEMORY_BLOCK_CHUNK,
         NEW hi, hi = (c.hi + 1) * MEMORY_BLOCK_CHUNK - 1,
         NEW cl, cl = Append(bl, Block(lo, hi, Place(Len(bl) + 1, 0))),
         NEW w, WorkOK(w), w.es = es,
         NEW v, v = block_assign_intersecting(w, space, lo, hi, Place(Len(bl) + 1, 0))
  PROVE  PlainOK(cl, space, v.es) /\ (v.left # 0 => v.left \in DOMAIN es /\ Wants(space, v.es[v.left]))
<1> DEFINE n    == Len(bl) + 1
           data == Place(n, 0)
           x    == Block(lo, hi, data)
<1>1. /\ n \in Nat /\ DOMAIN cl = 1 .. n /\ cl[n] = x /\ n \notin DOMAIN bl
      /\ DOMAIN bl = 1 .. (n - 1) /\ \A i \in DOMAIN bl : i \in DOMAIN cl /\ cl[i] = bl[i]
      /\ \A i \in DOMAIN cl : i = n \/ i \in DOMAIN bl
  <2>1. Appended(cl, bl, x)
    BY AppendIs
  <2> HIDE DEF x
  <2>2. QED BY <2>1 DEF Appended
<1>2. v = block_assign_intersecting(w, space, lo, hi, data) /\ x = Block(lo, hi, data) /\ data = Place(n, 0)
  OBVIOUS
<1> HIDE DEF n
<1>3. SpanOK(c) /\ Settled(space, es, c) /\ \A h : SpanOK(h) /\ Lone(space, es, h) => Far(c, h)
  BY SpanSettles
<1>4. /\ lo \in Nat /\ hi \in Nat /\ Chunk(lo) = c.lo /\ Chunk(hi) = c.hi
      /\ \A a \in Nat : (lo <= a <=> c.lo <= Chunk(a)) /\ (a <= hi <=> Chunk(a) <= c.hi)
  <2>1. c.lo \in Nat /\ c.hi \in Nat /\ c.lo <= c.hi
    BY <1>3 DEF SpanOK
  <2>2. QED BY <2>1, WholeChunks
<1>5. x.space = space /\ x.start = lo /\ x.end = hi /\ x.data = data
  BY <1>2 DEF Block
<1>6. Chunked(x) = c
  BY <1>3, <1>4, <1>5 DEF Chunked, SpanOK
<1>7. /\ Grew(es, w.shares, v.es, v.shares)
      /\ \A i \in DOMAIN es : v.es[i].memory = Offered(es[i], lo, hi, data)
      /\ v.left # 0 => v.left \in DOMAIN es /\ Wants(space, v.es[v.left])
  <2>1. PlainIn(space, w.es)
    BY DEF PlainList
  <2>2. QED BY <1>2, <2>1, BlockGives, BlockAssigned DEF Better
<1> HIDE DEF x, data
<1>8. \A i \in DOMAIN es : /\ es[i].start \in Nat /\ es[i].end \in Nat
                           /\ SpanOK(Chunked(es[i]))
                           /\ v.es[i].start = es[i].start /\ v.es[i].end = es[i].end
                           /\ Chunked(v.es[i]) = Chunked(es[i])
                           /\ Stores(space, v.es[i]) <=> Stores(space, es[i])
  <2> SUFFICES ASSUME NEW i \in DOMAIN es
               PROVE  /\ es[i].start \in Nat /\ es[i].end \in Nat
                      /\ SpanOK(Chunked(es[i]))
                      /\ v.es[i].start = es[i].start /\ v.es[i].end = es[i].end
                      /\ Chunked(v.es[i]) = Chunked(es[i])
                      /\ Stores(space, v.es[i]) <=> Stores(space, es[i])
    OBVIOUS
  <2>1. Assigns(v.es[i], es[i])
    BY <1>7 DEF Grew
  <2>2. EntryOK(es[i]) /\ PlainEntry(space, es[i]) /\ es[i].start <= es[i].end
    BY DEF PlainList, EntryList, PlainIn
  <2>3. SpanOK(Chunked(es[i]))
    BY <2>2, ChunkedIs
  <2>4. QED BY <2>1, <2>2, <2>3 DEF Assigns, EntryOK, Chunked, Stores
<1>9. DOMAIN v.es = DOMAIN es
  BY <1>7 DEF Grew
<1>10. ASSUME NEW i \in DOMAIN es, lo <= es[i].start, es[i].end <= hi
       PROVE  /\ Beyond(data, es[i].start - lo) = Place(n, es[i].start - lo)
              /\ Place(n, es[i].start - lo) # None
  <2>1. es[i].start - lo \in Nat
    BY <1>4, <1>8, <1>10
  <2>2. QED BY <1>1, <1>2, <2>1, BlockPlaceIs
<1>11. ASSUME NEW i \in DOMAIN es, Wants(space, v.es[i])
       PROVE  Wants(space, es[i]) /\ Far(c, Chunked(es[i]))
  <2>1. Offered(es[i], lo, hi, data) = None /\ Stores(space, es[i])
    BY <1>7, <1>8, <1>11 DEF Wants
  <2>2. Wants(space, es[i])
    BY <2>1 DEF Offered, Wants
  <2>3. ~(lo <= es[i].start /\ es[i].end <= hi)
    <3> SUFFICES ASSUME lo <= es[i].start, es[i].end <= hi PROVE FALSE
      OBVIOUS
    <3>1. es[i].start >= lo
      BY <1>4, <1>8
    <3>2. QED BY <1>10, <2>1, <2>2, <3>1 DEF Offered, Wants
  <2>4. ~Within(c, Chunked(es[i]))
    BY <1>4, <1>8, <2>3 DEF Within, Chunked
  <2>5. QED BY <1>3, <2>2, <2>4 DEF Settled
<1>12. BlocksOf(cl, space) = BlocksOf(bl, space) \cup {n}
  BY <1>1, <1>5 DEF BlocksOf
<1>13. ASSUME NEW k \in BlocksOf(bl, space)
       PROVE  /\ k \in DOMAIN bl /\ cl[k] = bl[k] /\ k # n /\ PlainBlock(bl, space, es, k)
              /\ Far(c, Chunked(bl[k]))
  <2>1. k \in DOMAIN bl /\ cl[k] = bl[k] /\ k # n
    BY <1>1 DEF BlocksOf
  <2>2. PlainBlock(bl, space, es, k)
    BY DEF PlainOK
  <2>3. QED BY <1>3, <2>1, <2>2 DEF PlainBlock
<1>14. ASSUME NEW h, Lone(space, es, h) PROVE Lone(space, v.es, h)
  BY <1>8, <1>9, <1>11, <1>14 DEF Lone
<1>15. Lone(space, v.es, c)
  BY <1>8, <1>9, <1>11 DEF Lone, Far
<1>16. ASSUME NEW k \in BlocksOf(cl, space) PROVE PlainBlock(cl, space, v.es, k)
  <2>1. CASE k = n
    <3>1. \A j \in BlocksOf(cl, space) : j # n => Far(Chunked(cl[j]), c)
      BY <1>12, <1>13 DEF Far
    <3>2. QED BY <1>1, <1>2, <1>3, <1>4, <1>5, <1>6, <1>15, <2>1, <3>1 DEF PlainBlock
  <2>2. CASE k # n
    <3>1. k \in BlocksOf(bl, space)
      BY <1>12, <2>2
    <3>2. PlainBlock(bl, space, es, k) /\ cl[k] = bl[k]
      BY <1>13, <3>1
    <3>3. ASSUME NEW j \in BlocksOf(cl, space), j # k PROVE Far(Chunked(cl[j]), Chunked(cl[k]))
      <4>1. CASE j = n
        BY <1>1, <1>6, <1>13, <3>1, <3>2, <4>1
      <4>2. CASE j # n
        BY <1>12, <1>13, <3>2, <3>3, <4>2 DEF PlainBlock
      <4>3. QED BY <4>1, <4>2
    <3>4. QED BY <1>14, <3>2, <3>3 DEF PlainBlock
  <2>3. QED BY <2>1, <2>2
<1>17. ASSUME NEW i \in DOMAIN es, v.es[i].memory # None PROVE IsIn(cl, space, v.es[i])
  <2> DEFINE e == es[i]
             f == v.es[i]
  <2>1. f.memory = Offered(e, lo, hi, data) /\ f.memory # None
    BY <1>7, <1>17
  <2>2. e.start \in Nat /\ e.end \in Nat /\ f.start = e.start /\ f.end = e.end
    BY <1>8
  <2>3. e.memory # None => IsIn(bl, space, e)
    BY DEF PlainOK
  <2>4. lo <= e.start /\ e.end <= hi => Beyond(data, e.start - lo) = Place(n, e.start - lo)
    BY <1>10
  <2> HIDE DEF e, f
  <2>5. CASE e.memory # None
    <3>1. PICK k \in BlocksOf(bl, space) : /\ bl[k].start <= e.start /\ e.end <= bl[k].end
                                           /\ e.memory = Place(k, e.start - bl[k].start)
      BY <2>3, <2>5 DEF IsIn
    <3>2. k \in BlocksOf(cl, space) /\ cl[k] = bl[k]
      BY <1>12, <1>13
    <3>3. f.memory = e.memory
      BY <2>1, <2>5 DEF Offered
    <3>4. IsIn(cl, space, f)
      BY <2>2, <3>1, <3>2, <3>3 DEF IsIn
    <3>5. QED BY <3>4 DEF f
  <2>6. CASE e.memory = None
    <3>1. e.start >= lo /\ e.end <= hi /\ f.memory = Beyond(data, e.start - lo)
      BY <2>1, <2>6 DEF Offered
    <3>2. lo <= e.start
      BY <1>4, <2>2, <3>1
    <3>3. f.memory = Place(n, e.start - lo)
      BY <2>4, <3>1, <3>2
    <3>4. n \in BlocksOf(cl, space) /\ cl[n].start = lo /\ cl[n].end = hi
      BY <1>1, <1>5, <1>12
    <3>5. IsIn(cl, space, f)
      BY <2>2, <3>1, <3>2, <3>3, <3>4 DEF IsIn
    <3>6. QED BY <3>5 DEF f
  <2>7. QED BY <2>5, <2>6
<1>18. QED BY <1>7, <1>9, <1>16, <1>17 DEF PlainOK

---------------------------------------------------------------------------------
(* The spaces that have no block yet: those the allocation has not reached.*)
NotYet(z) ==
  \/ stage \in {"prepare", "populate"}
  \/ stage = "allocate" /\ (z > space \/ (z = space /\ unassigned = 0))

Empty(es) == \A i \in DOMAIN es : es[i].memory = None

PlainAt(z) ==
  /\ PlainOK(blocklist, z, entries[z])
  /\ NotYet(z) => Empty(entries[z])
  /\ z = space /\ unassigned # 0 => Wants(z, entries[z][unassigned])

Begun(k) == \E s \in Spaces : blocklist[k].space = s /\ ~NotYet(s)

PlainInv ==
  stage # "failed" /\ installed = << >> =>
    /\ \A k \in DOMAIN blocklist : Begun(k)
    /\ stage # "prepare" => \A z \in Spaces : PlainIn(z, entries[z]) => PlainAt(z)

(* More blocks, all of them of one space.                                  *)
Gained(cl, bl, s) == Continues(cl, bl) /\ \A k \in DOMAIN cl : k \in DOMAIN bl \/ cl[k].space = s

(* They are nothing to the other spaces.                                   *)
LEMMA GainedElsewhere ==
  ASSUME NEW bl, NEW cl, NEW s, Gained(cl, bl, s), NEW z, z # s, NEW es, PlainOK(bl, z, es)
  PROVE  PlainOK(cl, z, es)
<1>1. BlocksOf(cl, z) = BlocksOf(bl, z) /\ \A k \in BlocksOf(bl, z) : cl[k] = bl[k]
  BY DEF Gained, Continues, BlocksOf
<1>2. ASSUME NEW k \in BlocksOf(cl, z) PROVE PlainBlock(cl, z, es, k)
  <2>1. PlainBlock(bl, z, es, k)
    BY <1>1 DEF PlainOK
  <2>2. QED BY <1>1, <2>1 DEF PlainBlock
<1>3. ASSUME NEW i \in DOMAIN es, es[i].memory # None PROVE IsIn(cl, z, es[i])
  <2>1. IsIn(bl, z, es[i])
    BY <1>3 DEF PlainOK
  <2>2. QED BY <1>1, <2>1 DEF IsIn
<1>4. QED BY <1>2, <1>3 DEF PlainOK

(* A space without blocks, the entries of which have no memory.            *)
LEMMA PlainFromNothing ==
  ASSUME NEW bl, NEW z, NEW es, BlocksOf(bl, z) = {}, Empty(es)
  PROVE  PlainOK(bl, z, es)
BY DEF PlainOK, Empty

(* The entries of a plain space are a list.                                *)
LEMMA PlainListIs ==
  ASSUME SetupInv, stage # "failed", RoomInv, NEW z \in Spaces, PlainIn(z, entries[z])
  PROVE  PlainList(z, entries[z])
<1>1. EntryList(entries[z])
  BY DEF SetupInv, EntriesOK, EntryList
<1>2. ASSUME NEW i \in DOMAIN entries[z] PROVE entries[z][i].start <= entries[z][i].end
  BY EntryHasRoom, RangesAre DEF RoomInv
<1>3. QED BY <1>1, <1>2 DEF PlainList

(* What a step of the allocation comes to, for the spaces that are plain.  *)
LEMMA AllocatedPlain ==
  ASSUME SetupInv, PlainInv, stage = "allocate", EntriesGrew, Gained(blocklist', blocklist, space),
         \A z \in Spaces : z # space => entries'[z] = entries[z],
         IF unassigned' = 0 THEN Advance ELSE UNCHANGED <<stage, space>>,
         UNCHANGED installed,
         PlainIn(space, entries[space]) /\ installed = << >> =>
           /\ PlainOK(blocklist', space, entries'[space])
           /\ unassigned' # 0 => Wants(space, entries'[space][unassigned'])
  PROVE  PlainInv'
<1>1. space \in Spaces /\ \A z \in Spaces : z \in Int
  BY SpacesAre DEF SetupInv, StageInv
<1>2. ASSUME NEW z \in Spaces, NotYet(z)' PROVE NotYet(z) /\ z # space
  <2>1. CASE unassigned' # 0
    BY <1>1, <1>2, <2>1 DEF NotYet
  <2>2. CASE unassigned' = 0 /\ space = Cardinality(Spaces)
    <3>1. stage' = "locate"
      BY <2>2, AfterIs DEF Advance
    <3>2. QED BY <1>2, <3>1 DEF NotYet
  <2>3. CASE unassigned' = 0 /\ space # Cardinality(Spaces)
    <3>1. stage' = stage /\ space' = space + 1
      BY <2>3 DEF Advance
    <3>2. z > space
      BY <1>1, <1>2, <3>1 DEF NotYet
    <3>3. QED BY <1>1, <3>2 DEF NotYet
  <2>4. QED BY <2>1, <2>2, <2>3
<1> SUFFICES ASSUME stage' # "failed", installed = << >>
             PROVE  /\ \A k \in DOMAIN blocklist' : Begun(k)'
                    /\ \A z \in Spaces : PlainIn(z, entries'[z]) => PlainAt(z)'
  BY DEF PlainInv
<1>3. /\ \A k \in DOMAIN blocklist : Begun(k)
      /\ \A z \in Spaces : PlainIn(z, entries[z]) => PlainAt(z)
  BY DEF PlainInv
<1>4. ASSUME NEW k \in DOMAIN blocklist' PROVE Begun(k)'
  <2>1. CASE k \in DOMAIN blocklist
    <3>1. blocklist'[k] = blocklist[k]
      BY <2>1 DEF Gained, Continues
    <3>2. PICK s \in Spaces : blocklist[k].space = s /\ ~NotYet(s)
      BY <1>3, <2>1 DEF Begun
    <3>3. QED BY <1>2, <3>1, <3>2 DEF Begun
  <2>2. CASE k \notin DOMAIN blocklist
    <3>1. blocklist'[k].space = space
      BY <2>2 DEF Gained
    <3>2. PICK s \in Spaces : s = space
      BY <1>1
    <3>3. QED BY <1>2, <3>1, <3>2 DEF Begun
  <2>3. QED BY <2>1, <2>2
<1>5. ASSUME NEW z \in Spaces, PlainIn(z, entries'[z]) PROVE PlainAt(z)'
  <2>1. PlainIn(z, entries[z])
    BY <1>5, PlainStays DEF EntriesGrew
  <2>2. CASE z = space
    <3>1. ~NotYet(z)'
      BY <1>2, <2>2
    <3>2. QED BY <2>1, <2>2, <3>1 DEF PlainAt
  <2>3. CASE z # space
    <3>1. PlainAt(z) /\ entries'[z] = entries[z]
      BY <1>3, <2>1, <2>3
    <3>2. PlainOK(blocklist', z, entries'[z])
      BY <2>3, <3>1, GainedElsewhere DEF PlainAt
    <3>3. NotYet(z)' => Empty(entries'[z])
      BY <1>2, <3>1 DEF PlainAt
    <3>4. ~(z = space' /\ unassigned' # 0)
      BY <2>3
    <3>5. QED BY <3>2, <3>3, <3>4 DEF PlainAt
  <2>4. QED BY <2>2, <2>3
<1>6. QED BY <1>4, <1>5

(* The memory that entries have becomes blocks of their space, none in a   *)
(* plain one, where looking at the shares gives nothing.                   *)
LEMMA HardcodedPlain ==
  ASSUME SetupInv, BanksInv, RoomInv, PlainInv, AllocateHardcoded
  PROVE  PlainInv'
<1> DEFINE es     == entries[space]
           having == Keep([i \in DOMAIN es |-> i], {i \in DOMAIN es : es[i].memory # None})
           F(k)   == LET e == es[having[Len(having) + 1 - k]] IN Block(e.start, e.end, e.memory)
           blocks == [k \in DOMAIN having |-> F(k)]
           u == [es |-> es, shares |-> sharelist, left |-> 0]
           w == FoldLeft(LAMBDA v, b : block_assign_intersecting(v, space, b.start, b.end, b.data),
                         u, blocks)
           v == IF w.left = 0 THEN AssignShares(w, space) ELSE w
<1>1. stage = "allocate" /\ unassigned = 0 /\ Assigned(v) /\ blocklist' = blocklist \o blocks
  BY Zenon DEF AllocateHardcoded
<1>2. /\ entries' = [entries EXCEPT ![space] = v.es] /\ unassigned' = v.left
      /\ IF v.left = 0 THEN Advance ELSE UNCHANGED <<stage, space>>
      /\ UNCHANGED installed
  BY Zenon, <1>1 DEF Assigned
<1>3. DOMAIN u = WorkFields /\ u.es = entries[space] /\ u.shares = sharelist /\ u.left = 0
  BY DEF WorkFields
<1>4. WorkOK(u) /\ space \in Spaces /\ IsSeq(blocklist) /\ DOMAIN entries = Spaces
  <2> HIDE DEF u
  <2>1. QED BY Zenon, <1>1, <1>3, WorkBegins DEF SetupInv, StageInv, BanksInv, EntriesOK
<1>5. PICK n \in Nat : DOMAIN having = 1 .. n
                       /\ \A k \in 1 .. n : having[k] \in {i \in DOMAIN es : es[i].memory # None}
  <2>1. PICK m \in Nat : DOMAIN es = 1 .. m
    BY <1>4 DEF WorkOK, IsList
  <2> DEFINE s == [i \in DOMAIN es |-> i]
             S == {i \in DOMAIN es : es[i].memory # None}
  <2>2. s \in Seq(Nat)
    BY <2>1
  <2>3. having = Keep(s, S)
    OBVIOUS
  <2> HIDE DEF s, S, having
  <2>4. having \in Seq(Nat) /\ \E o : Picks(s, S, Len(s), having, o)
    BY <2>2, <2>3, KeepIs
  <2>5. Len(having) \in Nat /\ DOMAIN having = 1 .. Len(having)
    BY <2>4
  <2>6. PICK o : Picks(s, S, Len(s), having, o)
    BY <2>4
  <2>7. \A k \in 1 .. Len(having) : having[k] \in S
    BY <2>6 DEF Picks
  <2>8. QED BY <2>5, <2>7 DEF S
<1>6. DOMAIN blocks = 1 .. n /\ \A k \in 1 .. n : blocks[k].space = space
  BY Zenon, <1>5 DEF Block
<1>7. IsSeq(blocks)
  <2>1. blocks = [k \in 1 .. n |-> blocks[k]]
    BY <1>5
  <2> HIDE DEF blocks, having
  <2>2. QED BY <2>1, ListsAreSeqs
<1>8. w = HardcodedFold!Fold(space, 0, 0, 0, u, blocks)
  BY DEF FoldLeft, MapThenFoldSet, HardcodedFold!Fold, HardcodedFold!Last, HardcodedStep, Max
<1> HIDE DEF blocks, having, w, u
<1>9. Gained(blocklist', blocklist, space)
  <2> HIDE DEF v
  <2>1. QED BY <1>1, <1>4, <1>6, <1>7, ConcatSplits DEF Gained
<1>10. ASSUME PlainIn(space, entries[space]), installed = << >>
       PROVE  /\ PlainOK(blocklist', space, entries'[space])
              /\ unassigned' # 0 => Wants(space, entries'[space][unassigned'])
  <2>1. NotYet(space) /\ PlainAt(space)
    <3>1. NotYet(space)
      BY <1>1 DEF NotYet
    <3>2. QED BY <1>1, <1>4, <1>10, <3>1 DEF PlainInv
  <2>2. Empty(entries[space])
    BY <2>1 DEF PlainAt
  <2>3. n = 0
    BY <1>5, <2>2 DEF Empty
  <2>4. HardcodedFold!Induction(n)
    BY LoopInduction DEF HardcodedFold!Induction
  <2>5. w = u
    <3>1. PICK g : HardcodedFold!Passes(space, 0, 0, 0, u, blocks, n, g) /\ g[n] = w
      BY <1>6, <1>8, <2>4, HardcodedFold!FoldPasses
    <3>2. QED BY <2>3, <3>1 DEF HardcodedFold!Passes
  <2>6. v = block_assign_intersecting(u, space, 2^AddrBits, 0, Place(None, 0))
    BY <1>3, <2>5 DEF AssignShares
  <2> HIDE DEF v
  <2>7. /\ Better(u, v)
        /\ \A i \in DOMAIN u.es : v.es[i].memory = Offered(u.es[i], 2^AddrBits, 0, Place(None, 0))
        /\ v.left # 0 => Wants(space, v.es[v.left])
    BY <1>3, <1>4, <1>10, <2>6, BlockGives, BlockAssigned
  <2>8. entries'[space] = v.es /\ DOMAIN v.es = DOMAIN entries[space]
    BY <1>2, <1>3, <1>4, <2>7 DEF Better, Grew
  <2>9. Empty(entries'[space])
    <3>1. ASSUME NEW i \in DOMAIN entries[space] PROVE v.es[i].memory = None
      <4>1. entries[space][i].start \in Nat /\ entries[space][i].start < 2^AddrBits /\ 2^AddrBits \in Nat
        <5>1. HasRange(entries[space][i])
          BY <1>4, EntryHasRoom DEF RoomInv
        <5>2. QED BY <5>1, AddressesAre DEF HasRange
      <4>2. ~(entries[space][i].start >= 2^AddrBits)
        <5> DEFINE a == entries[space][i].start
                   b == 2^AddrBits
        <5>1. a \in Nat /\ b \in Nat /\ a < b
          BY <4>1
        <5> HIDE DEF a, b
        <5>2. ~(a >= b)
          BY <5>1
        <5>3. QED BY <5>2 DEF a, b
      <4>3. entries[space][i].memory = None
        BY <2>2 DEF Empty
      <4>4. QED BY <1>3, <2>7, <4>2, <4>3 DEF Offered
    <3>2. QED BY <2>8, <3>1 DEF Empty
  <2>10. BlocksOf(blocklist', space) = {}
    <3>1. ASSUME NEW k \in DOMAIN blocklist', blocklist'[k].space = space PROVE FALSE
      <4>1. k \in DOMAIN blocklist
        BY <1>1, <1>4, <1>6, <1>7, <2>3, ConcatSplits
      <4>2. blocklist[k].space = space
        BY <1>9, <3>1, <4>1 DEF Gained, Continues
      <4>3. QED BY <1>1, <1>10, <2>1, <4>1, <4>2 DEF PlainInv, Begun
    <3>2. QED BY <3>1 DEF BlocksOf
  <2>11. QED BY <1>2, <2>7, <2>8, <2>9, <2>10, PlainFromNothing
<1>11. EntriesGrew
  BY HardcodedStepKeeps
<1>12. \A z \in Spaces : z # space => entries'[z] = entries[z]
  BY <1>2, <1>4
<1> HIDE DEF v
<1>13. QED BY <1>1, <1>2, <1>9, <1>10, <1>11, <1>12, AllocatedPlain

(* A block more, for the entries around one that wants memory.             *)
LEMMA BlockPlain ==
  ASSUME SetupInv, BanksInv, RoomInv, PlainInv, AllocateBlock
  PROVE  PlainInv'
<1> DEFINE es   == entries[space]
           c    == Span(entries[space])
           lo   == c.lo * MEMORY_BLOCK_CHUNK
           hi   == (c.hi + 1) * MEMORY_BLOCK_CHUNK - 1
           data == Place(Len(blocklist) + 1, 0)
           x    == Block(lo, hi, data)
           u == [es |-> entries[space], shares |-> sharelist, left |-> 0]
           v == block_assign_intersecting(u, space, lo, hi, data)
<1>1. /\ stage = "allocate" /\ unassigned # 0 /\ Assigned(v)
      /\ blocklist' = Append(blocklist, x)
  BY DEF AllocateBlock
<1>2. /\ entries' = [entries EXCEPT ![space] = v.es] /\ unassigned' = v.left
      /\ IF v.left = 0 THEN Advance ELSE UNCHANGED <<stage, space>>
      /\ UNCHANGED installed
  BY <1>1 DEF Assigned
<1>3. DOMAIN u = WorkFields /\ u.es = entries[space] /\ u.shares = sharelist /\ u.left = 0
  BY DEF WorkFields
<1>4. WorkOK(u)
  <2> HIDE DEF u
  <2>1. QED BY <1>1, <1>3, WorkBegins
<1>5. /\ space \in Spaces /\ IsSeq(blocklist) /\ DOMAIN entries = Spaces
      /\ unassigned \in DOMAIN entries[space]
  BY <1>1 DEF SetupInv, StageInv, BanksInv, EntriesOK, RoomInv
<1>6. Gained(blocklist', blocklist, space)
  <2>1. x.space = space
    BY DEF Block
  <2> HIDE DEF x, v
  <2>2. Appended(blocklist', blocklist, x)
    BY <1>1, <1>5, AppendIs
  <2>3. QED BY <2>1, <2>2 DEF Appended, Gained, Continues
<1>7. ASSUME PlainIn(space, entries[space]), installed = << >>
      PROVE  /\ PlainOK(blocklist', space, entries'[space])
             /\ unassigned' # 0 => Wants(space, entries'[space][unassigned'])
  <2>1. PlainAt(space)
    BY <1>1, <1>5, <1>7 DEF PlainInv
  <2>2. PlainOK(blocklist, space, entries[space]) /\ Wants(space, entries[space][unassigned])
    BY <1>1, <2>1 DEF PlainAt
  <2>3. PlainList(space, entries[space])
    BY <1>1, <1>5, <1>7, PlainListIs
  <2>4. entries'[space] = v.es
    BY <1>2, <1>5
  <2> HIDE DEF u
  <2>5. /\ PlainOK(blocklist', space, v.es)
        /\ v.left # 0 => v.left \in DOMAIN entries[space] /\ Wants(space, v.es[v.left])
    BY <1>1, <1>3, <1>4, <1>5, <2>2, <2>3, BlockKeepsPlain
  <2> HIDE DEF v
  <2>6. QED BY <1>2, <2>4, <2>5
<1>8. EntriesGrew
  BY BlockStepKeeps
<1>9. \A z \in Spaces : z # space => entries'[z] = entries[z]
  BY <1>2, <1>5
<1> HIDE DEF v
<1>10. QED BY <1>1, <1>2, <1>6, <1>7, <1>8, <1>9, AllocatedPlain

(* Before the allocation there is no block, and no memory outside of the   *)
(* regions.                                                                *)
LEMMA PlainBefore ==
  ASSUME DOMAIN blocklist' = {}, unassigned' = 0,
         \A z \in Spaces : PlainIn(z, entries'[z]) => Empty(entries'[z])
  PROVE  PlainInv'
<1>1. ASSUME NEW z \in Spaces, PlainIn(z, entries'[z]) PROVE PlainAt(z)'
  <2>1. BlocksOf(blocklist', z) = {}
    BY DEF BlocksOf
  <2>2. Empty(entries'[z])
    BY <1>1
  <2>3. PlainOK(blocklist', z, entries'[z])
    BY <2>1, <2>2, PlainFromNothing
  <2>4. QED BY <2>2, <2>3 DEF PlainAt
<1>2. QED BY <1>1 DEF PlainInv

(* The entries of a plain space before the allocation.                     *)
LEMMA PlainAreEmpty ==
  ASSUME SetupInv, stage = "populate", NEW z \in Spaces, PlainIn(z, entries[z])
  PROVE  Empty(entries[z])
BY DEF SetupInv, EntryInv, PlainIn, PlainEntry, Empty

(* A list with one more element is not empty.                              *)
LEMMA AppendIsMore ==
  ASSUME NEW s, IsSeq(s), NEW x
  PROVE  Append(s, x) # << >>
<1>1. Appended(Append(s, x), s, x)
  BY AppendIs
<1> DEFINE r == Append(s, x)
<1>2. Len(r) = Len(s) + 1 /\ Len(s) \in Nat
  BY <1>1 DEF Appended
<1> HIDE DEF r
<1>3. Len(<< >>) = 0
  OBVIOUS
<1>4. r # << >>
  BY <1>2, <1>3
<1>5. QED BY <1>4 DEF r

(* Every step keeps the blocks of the plain spaces apart, until more is    *)
(* installed.                                                              *)
LEMMA PlainStep ==
  ASSUME SetupInv, BanksInv, RoomInv, PlainInv, [Next]_vars
  PROVE  PlainInv'
<1>1. SetupInv' /\ RoomInv'
  BY SetupStep, RoomStep
<1>2. ASSUME stage \in {"prepare", "populate"}, installed = << >> PROVE DOMAIN blocklist = {}
  BY <1>2 DEF PlainInv, Begun, NotYet
<1>3. CASE UNCHANGED vars
  BY <1>3 DEF vars, PlainInv, PlainAt, Begun, NotYet
<1>4. CASE PrepareMap
  <2>1. /\ stage = "prepare" /\ UNCHANGED <<blocklist, unassigned, installed>> /\ Advance
    BY <1>4 DEF PrepareMap
  <2>2. unassigned' = 0
    BY <2>1 DEF RoomInv
  <2>3. CASE installed # << >>
    BY <2>1, <2>3 DEF PlainInv
  <2>4. CASE installed = << >> /\ stage' = "populate"
    <3>1. ASSUME NEW z \in Spaces, PlainIn(z, entries'[z]) PROVE Empty(entries'[z])
      BY <1>1, <2>4, <3>1 DEF SetupInv, EntryInv, PlainIn, PlainEntry, Empty
    <3>2. QED BY <1>2, <2>1, <2>2, <2>4, <3>1, PlainBefore
  <2>5. CASE installed = << >> /\ stage' # "populate"
    <3>1. stage' = "prepare"
      BY <2>1, <2>5, AfterIs DEF Advance
    <3>2. QED BY <1>2, <2>1, <2>5, <3>1 DEF PlainInv
  <2>6. QED BY <2>3, <2>4, <2>5
<1>5. CASE RegionError
  BY <1>5 DEF RegionError, PlainInv
<1>6. CASE PopulateFromMap
  <2>1. stage = "populate" /\ UNCHANGED <<entries, blocklist, unassigned, installed>>
    BY <1>6 DEF PopulateFromMap
  <2>2. unassigned' = 0
    BY <2>1 DEF RoomInv
  <2>3. CASE installed # << >>
    BY <2>1, <2>3 DEF PlainInv
  <2>4. CASE installed = << >>
    <3>1. ASSUME NEW z \in Spaces, PlainIn(z, entries'[z]) PROVE Empty(entries'[z])
      BY <2>1, <3>1, PlainAreEmpty
    <3>2. QED BY <1>2, <2>1, <2>2, <2>4, <3>1, PlainBefore
  <2>5. QED BY <2>3, <2>4
<1>7. CASE AllocateHardcoded
  BY <1>7, HardcodedPlain
<1>8. CASE AllocateBlock
  BY <1>8, BlockPlain
<1>9. CASE LocateMemory
  <2>1. stage = "locate" /\ UNCHANGED <<entries, blocklist, unassigned, installed>> /\ Advance
    BY <1>9 DEF LocateMemory
  <2>2. stage' \in {"locate", "initialized"}
    BY <2>1, AfterIs DEF Advance
  <2>3. unassigned' = 0
    BY <2>1 DEF RoomInv
  <2>4. \A z : ~NotYet(z)'
    BY <2>2 DEF NotYet
  <2> SUFFICES ASSUME installed = << >>
               PROVE  /\ \A k \in DOMAIN blocklist' : Begun(k)'
                      /\ \A z \in Spaces : PlainIn(z, entries'[z]) => PlainAt(z)'
    BY <2>1 DEF PlainInv
  <2>5. ASSUME NEW k \in DOMAIN blocklist PROVE Begun(k)'
    BY <2>1, <2>4 DEF PlainInv, Begun
  <2>6. ASSUME NEW z \in Spaces, PlainIn(z, entries[z]) PROVE PlainAt(z)'
    <3>1. PlainOK(blocklist, z, entries[z])
      BY <2>1, <2>6 DEF PlainInv, PlainAt
    <3>2. QED BY <2>1, <2>3, <2>4, <3>1 DEF PlainAt
  <2>7. QED BY <2>1, <2>5, <2>6
<1>10. ASSUME NEW z \in Spaces, NEW ds \in {{"read"}, {"write"}, Directions}, NEW e \in Installs,
              NEW given \in {None, Place(Given, 0)}, Install(z, ds, e, given)
       PROVE  PlainInv'
  <2>1. installed' = Append(installed, <<z, e>>)
    BY <1>10 DEF Install
  <2>2. installed' # << >>
    BY <2>1, AppendIsMore DEF BanksInv
  <2>3. QED BY <2>2 DEF PlainInv
<1>11. QED BY <1>3, <1>4, <1>5, <1>6, <1>7, <1>8, <1>9, <1>10 DEF Next

(* They are apart from the start on.                                       *)
LEMMA PlainStarts == Init => PlainInv
<1> SUFFICES ASSUME Init PROVE PlainInv
  OBVIOUS
<1>1. DOMAIN blocklist = {} /\ stage = "prepare"
  <2>1. DOMAIN << >> = {}
    OBVIOUS
  <2>2. QED BY <2>1 DEF Init
<1>2. QED BY <1>1 DEF PlainInv

(* And throughout.                                                         *)
LEMMA PlainAlways == Spec => []PlainInv
<1>1. SetupInv /\ BanksInv /\ RoomInv /\ PlainInv /\ [Next]_vars => PlainInv'
  BY PlainStep
<1>2. QED BY <1>1, PlainStarts, SetupAlways, BanksAlways, RoomAlways, PTL DEF Spec

---------------------------------------------------------------------------------
(* The banks of a plain space: where they come from, and that their memory *)
(* is that of an entry which starts where they do.  And what is mapped to  *)
(* an anonymous bank are copies of entries with its range.                 *)

Rooted(k, z, es) ==
  /\ \E i \in DOMAIN es : Origin(k, z, es[i])
  /\ PlainIn(z, es) /\ k.base # None => \E i \in DOMAIN es : es[i].start = k.start /\ es[i].memory = k.base

Backed(b, m) ==
  \A n \in DOMAIN b, z \in Spaces : b[n].tag = None /\ References(b[n], z) => Rooted(b[n], z, m[z])

Shown(k, es, x) == \E i \in DOMAIN es : es[i].start = k.start /\ es[i].end = k.end /\ x \in Copies(es[i])

Imaged(b, t, m) ==
  \A z \in Spaces, d \in Directions, x \in Addresses :
    LET n == t[z][d][x]
    IN  n # 0 /\ b[n].tag = None => Shown(b[n], m[z], x)

BackedInv ==
  stage # "failed" /\ installed = << >> => Backed(banklist, entries) /\ Imaged(banklist, table, entries)

(* Only copies of the range are mapped, all to the bank that was found.    *)
Puts(u, v, z, e) ==
  \A y \in Spaces, d \in Directions, x \in Addresses :
    \/ v.t[y][d][x] = u.t[y][d][x]
    \/ ~v.full /\ y = z /\ x \in Copies(e) /\ v.t[y][d][x] = v.last

LEMMA MapToPuts ==
  ASSUME NEW u, DOMAIN u = UpdateFields, ~u.full, DOMAIN u.t = Spaces,
         \A y \in Spaces : DOMAIN u.t[y] = Directions,
         NEW z \in Spaces, NEW d \in Directions, NEW n, NEW e,
         NEW v, v = [MapTo(u, z, d, n, e) EXCEPT !.last = n]
  PROVE  Puts(u, v, z, e)
<1> DEFINE k   == [u.b[n] EXCEPT !.handler[z][d] = [start |-> e.start, size |-> RoundedUp(e)],
                                 !.reflist = u.b[n].reflist \cup {<<z, d>>}]
           row == [x \in Addresses |-> IF x \in Copies(e) THEN n ELSE u.t[z][d][x]]
           w   == [u EXCEPT !.t[z][d] = row, !.b[n] = k]
<1>1. MapTo(u, z, d, n, e) = w
  BY Zenon DEF MapTo
<1>2. \A x \in Addresses : row[x] = IF x \in Copies(e) THEN n ELSE u.t[z][d][x]
  OBVIOUS
<1> HIDE DEF k, row
<1>3. DOMAIN w = UpdateFields /\ w.t = [u.t EXCEPT ![z][d] = row] /\ w.full = u.full
  BY DEF UpdateFields
<1>4. v = [w EXCEPT !.last = n]
  BY <1>1
<1> HIDE DEF w
<1>5. v.t = w.t /\ v.full = w.full /\ v.last = n
  BY <1>3, <1>4 DEF UpdateFields
<1>6. ASSUME NEW y \in Spaces, NEW c \in Directions PROVE v.t[y][c] = IF y = z /\ c = d THEN row ELSE u.t[y][c]
  BY <1>3, <1>5
<1>7. QED BY <1>2, <1>3, <1>5, <1>6 DEF Puts

(* So it is for a bank that is found, and for a new one.                   *)
LEMMA MapBankPuts ==
  ASSUME NEW u, UpdateOK(u), NEW z \in Spaces, NEW d \in Directions, NEW tag, NEW e, ~u.full,
         NEW v, v = MapBank(u, z, d, tag, e)
  PROVE  Puts(u, v, z, e)
<1> DEFINE found == BankNumbers(u, z, tag, e)
           a == [u EXCEPT !.b = Append(u.b, NewBank(tag, e))]
<1>1. /\ DOMAIN u = UpdateFields /\ DOMAIN u.t = Spaces
      /\ \A y \in Spaces : DOMAIN u.t[y] = Directions
  BY DEF UpdateOK, TableOK
<1>2. \/ v = [MapTo(u, z, d, Min(found), e) EXCEPT !.last = Min(found)]
      \/ v = [u EXCEPT !.full = TRUE]
      \/ v = [MapTo(a, z, d, Len(u.b) + 1, e) EXCEPT !.last = Len(u.b) + 1]
  BY DEF MapBank
<1>3. DOMAIN a = UpdateFields /\ a.t = u.t /\ a.full = u.full
  BY <1>1 DEF UpdateFields
<1> HIDE DEF a, found
<1>4. CASE v = [MapTo(u, z, d, Min(found), e) EXCEPT !.last = Min(found)]
  BY <1>1, <1>4, MapToPuts
<1>5. CASE v = [u EXCEPT !.full = TRUE]
  <2>1. v.t = u.t
    BY <1>1, <1>5 DEF UpdateFields
  <2>2. QED BY <2>1 DEF Puts
<1>6. CASE v = [MapTo(a, z, d, Len(u.b) + 1, e) EXCEPT !.last = Len(u.b) + 1]
  <2>1. Puts(a, v, z, e)
    BY <1>1, <1>3, <1>6, MapToPuts
  <2>2. QED BY <1>3, <2>1 DEF Puts
<1>7. QED BY <1>2, <1>4, <1>5, <1>6

(* And for RAM, whatever memory it gets.                                   *)
LEMMA InstallRamPuts ==
  ASSUME NEW u, UpdateOK(u), NEW z \in Spaces, NEW d \in Directions, NEW e, ~u.full,
         NEW v, v = InstallRam(u, z, d, e, None)
  PROVE  Puts(u, v, z, e)
<1> DEFINE w == MapBank(u, z, d, None, e)
<1>1. Puts(u, w, z, e) /\ Mapped(u, w, z, None, e)
  BY MapBankPuts, MapBankIs
<1>2. v = w \/ (~w.full /\ \E p : v = set_base(w, w.last, p))
  BY DEF InstallRam
<1> HIDE DEF w
<1>3. CASE v = w
  BY <1>1, <1>3
<1>4. ASSUME ~w.full, NEW p, v = set_base(w, w.last, p) PROVE Puts(u, v, z, e)
  <2>1. UpdateOK(w) /\ w.last \in DOMAIN w.b
    BY <1>1, <1>4 DEF Mapped
  <2>2. v.t = w.t /\ v.last = w.last /\ v.full = w.full
    BY <1>4, <2>1, SetBaseIs
  <2>3. QED BY <1>1, <2>2 DEF Puts
<1>5. QED BY <1>2, <1>3, <1>4

(* Banks that keep their ranges show what they showed.                     *)
LEMMA ShownStays ==
  ASSUME NEW k, NEW j, k.start = j.start, k.end = j.end,
         NEW es, NEW fs, DOMAIN fs = DOMAIN es,
         \A i \in DOMAIN es : /\ fs[i].start = es[i].start /\ fs[i].end = es[i].end
                              /\ fs[i].mirror = es[i].mirror,
         NEW x, Shown(j, es, x)
  PROVE  Shown(k, fs, x)
<1>1. PICK i \in DOMAIN es : es[i].start = j.start /\ es[i].end = j.end /\ x \in Copies(es[i])
  BY DEF Shown
<1>2. Copies(fs[i]) = Copies(es[i])
  BY CopiesAre
<1>3. QED BY <1>1, <1>2 DEF Shown

(* What is mapped for an entry is a copy of it.                            *)
LEMMA MappedImaged ==
  ASSUME NEW u, UpdateOK(u), NEW v, NEW z \in Spaces, NEW tag, NEW m, NEW i \in DOMAIN m[z],
         NEW e, e = m[z][i], Mapped(u, v, z, tag, e), Puts(u, v, z, e), Imaged(u.b, u.t, m)
  PROVE  Imaged(v.b, v.t, m)
<1> SUFFICES ASSUME NEW y \in Spaces, NEW d \in Directions, NEW x \in Addresses,
                    NEW n, n = v.t[y][d][x], n # 0, v.b[n].tag = None
             PROVE  Shown(v.b[n], m[y], x)
  BY DEF Imaged
<1>1. CASE n = u.t[y][d][x]
  <2>1. MappedOK(u.b, u.t, y, d, x)
    BY DEF UpdateOK, TableOK
  <2>2. n \in DOMAIN u.b
    BY <1>1, <2>1 DEF MappedOK
  <2>3. Extends(v.b[n], u.b[n])
    BY <2>2 DEF Mapped
  <2>4. v.b[n].tag = u.b[n].tag /\ v.b[n].start = u.b[n].start /\ v.b[n].end = u.b[n].end
    BY <2>3 DEF Extends
  <2>5. Shown(u.b[n], m[y], x)
    BY <1>1, <2>4 DEF Imaged
  <2>6. QED BY <2>4, <2>5, ShownStays
<1>2. CASE ~v.full /\ y = z /\ x \in Copies(e) /\ n = v.last
  <2>1. Matches(v.b[n], z, tag, e)
    BY <1>2 DEF Mapped
  <2>2. v.b[n].start = e.start /\ v.b[n].end = e.end
    BY <2>1 DEF Matches
  <2>3. QED BY <1>2, <2>2 DEF Shown
<1>3. QED BY <1>1, <1>2 DEF Puts

(* No bank has memory it had not.                                          *)
SameBases(u, v) ==
  \A n \in DOMAIN v.b : v.b[n].base = IF n \in DOMAIN u.b THEN u.b[n].base ELSE None

(* Mapping to a bank gives it no memory.                                   *)
LEMMA MapBankBases ==
  ASSUME NEW u, UpdateOK(u), NEW z \in Spaces, NEW d \in Directions, NEW tag, NEW e, ~u.full,
         NEW v, v = MapBank(u, z, d, tag, e)
  PROVE  SameBases(u, v)
<1> DEFINE found == BankNumbers(u, z, tag, e)
<1>1. /\ found = {m \in DOMAIN u.b : Matches(u.b[m], z, tag, e)} /\ found \subseteq Nat
      /\ 0 \notin DOMAIN u.b /\ Len(u.b) \in Nat /\ DOMAIN u.b = 1 .. Len(u.b)
  BY NumbersAre DEF UpdateOK, TableOK
<1>2. CASE found # {}
  <2> DEFINE n == Min(found)
             w == MapTo(u, z, d, n, e)
  <2>1. v = [w EXCEPT !.last = n]
    BY <1>2 DEF MapBank
  <2>2. n \in found
    <3> HIDE DEF found
    <3>1. QED BY <1>1, <1>2, MinIsLeast
  <2> HIDE DEF n, found
  <2>3. n \in DOMAIN u.b /\ n # 0 /\ Matches(u.b[n], z, tag, e) /\ BankOK(u.b[n])
    BY <1>1, <2>2 DEF UpdateOK, TableOK
  <2>4. u.b[n].tag = None => /\ u.b[n].start = e.start /\ u.b[n].end = e.end
                             /\ \A y \in Spaces : References(u.b[n], y) => y = z
    BY <2>3 DEF Matches, BankOK
  <2>5. /\ UpdateOK(w) /\ DOMAIN w.b = DOMAIN u.b
        /\ \A m \in DOMAIN u.b : m # n => w.b[m] = u.b[m]
        /\ w.b[n].base = u.b[n].base
    BY <2>3, <2>4, MapToIs
  <2> HIDE DEF w
  <2>6. v.b = w.b
    BY <2>1, <2>5 DEF UpdateOK, UpdateFields
  <2>7. QED BY <2>5, <2>6 DEF SameBases
<1>3. CASE found = {} /\ Len(u.b) = STATIC_BANKMAX
  <2>1. v = [u EXCEPT !.full = TRUE]
    BY <1>3 DEF MapBank
  <2>2. v.b = u.b
    BY <2>1 DEF UpdateOK, UpdateFields
  <2>3. QED BY <2>2 DEF SameBases
<1>4. CASE found = {} /\ Len(u.b) # STATIC_BANKMAX
  <2> DEFINE k == NewBank(tag, e)
             n == Len(u.b) + 1
             s == Append(u.b, k)
             a == [u EXCEPT !.b = s]
             w == MapTo(a, z, d, n, e)
  <2>1. v = [w EXCEPT !.last = n]
    BY <1>4 DEF MapBank
  <2>2. n \notin DOMAIN u.b /\ n # 0 /\ \A m \in 1 .. n : m = n \/ m \in DOMAIN u.b
    BY <1>1
  <2>3. DOMAIN s = 1 .. n /\ s[n] = k /\ \A i \in DOMAIN u.b : s[i] = u.b[i]
    <3>1. Appended(s, u.b, k)
      <4> HIDE DEF k
      <4>1. QED BY AppendIs DEF UpdateOK, TableOK
    <3> HIDE DEF k, s
    <3>2. QED BY <3>1 DEF Appended
  <2>4. k.base = None
    BY DEF NewBank
  <2> HIDE DEF k, s
  <2>5. a.b = s /\ DOMAIN a = UpdateFields
    BY DEF UpdateOK, UpdateFields
  <2>6. w = [a EXCEPT !.t[z][d] = [x \in Addresses |-> IF x \in Copies(e) THEN n ELSE a.t[z][d][x]],
                      !.b[n] = [a.b[n] EXCEPT !.handler[z][d] = [start |-> e.start, size |-> RoundedUp(e)],
                                              !.reflist = a.b[n].reflist \cup {<<z, d>>}]]
    BY Zenon DEF MapTo
  <2> HIDE DEF a, n
  <2>7. DOMAIN k = BankFields
    BY DEF k, NewBank, BankFields
  <2>8. DOMAIN w = UpdateFields /\ DOMAIN w.b = DOMAIN s /\ \A m \in DOMAIN s : w.b[m].base = s[m].base
    <3> DEFINE j == [a.b[n] EXCEPT !.handler[z][d] = [start |-> e.start, size |-> RoundedUp(e)],
                                   !.reflist = a.b[n].reflist \cup {<<z, d>>}]
    <3>1. a.b[n] = k
      BY <2>3, <2>5
    <3>2. j.base = k.base
      BY <2>7, <3>1 DEF BankFields
    <3> HIDE DEF j
    <3>3. DOMAIN w = UpdateFields /\ w.b = [a.b EXCEPT ![n] = j]
      BY <2>5, <2>6 DEF UpdateFields, j
    <3>4. QED BY <2>3, <2>5, <3>2, <3>3
  <2> HIDE DEF w
  <2>9. v.b = w.b
    BY <2>1, <2>8 DEF UpdateFields
  <2>10. QED BY <2>2, <2>3, <2>4, <2>8, <2>9 DEF SameBases
<1>5. QED BY <1>2, <1>3, <1>4

(* Nor does mapping RAM where nothing has memory yet.                      *)
LEMMA InstallRamBases ==
  ASSUME NEW u, UpdateOK(u), NEW z \in Spaces, NEW d \in Directions, NEW e, ~u.full,
         find_backing_memory(z, e) = None,
         NEW v, v = InstallRam(u, z, d, e, None)
  PROVE  SameBases(u, v)
<1> DEFINE w == MapBank(u, z, d, None, e)
<1>1. SameBases(u, w) /\ Mapped(u, w, z, None, e)
  BY MapBankBases, MapBankIs
<1>2. v = w \/ (~w.full /\ w.b[w.last].base = None /\ v = set_base(w, w.last, None))
  BY DEF InstallRam
<1> HIDE DEF w
<1>3. CASE v = w
  BY <1>1, <1>3
<1>4. CASE ~w.full /\ w.b[w.last].base = None /\ v = set_base(w, w.last, None)
  <2>1. UpdateOK(w) /\ w.last \in DOMAIN w.b
    BY <1>1, <1>4 DEF Mapped
  <2>2. /\ DOMAIN v.b = DOMAIN w.b /\ \A m \in DOMAIN w.b : m # w.last => v.b[m] = w.b[m]
        /\ v.b[w.last].base = None
    BY <1>4, <2>1, SetBaseIs
  <2>3. QED BY <1>1, <1>4, <2>2 DEF SameBases
<1>5. QED BY <1>2, <1>3, <1>4

(* A bank made for an entry is rooted in it, and the others stay rooted.   *)
LEMMA MappedBacked ==
  ASSUME NEW u, NEW v, NEW z \in Spaces, NEW tag, NEW m, NEW i \in DOMAIN m[z], NEW e, e = m[z][i],
         Mapped(u, v, z, tag, e), Backed(u.b, m),
         tag = None => e.write = "RAM" \/ e.read \in {"RAM", "ROM"},
         tag = None /\ PlainIn(z, m[z]) => SameBases(u, v)
  PROVE  Backed(v.b, m)
<1> SUFFICES ASSUME NEW n \in DOMAIN v.b, NEW y \in Spaces, v.b[n].tag = None, References(v.b[n], y)
             PROVE  Rooted(v.b[n], y, m[y])
  BY DEF Backed
<1>1. BankOK(v.b[n])
  BY DEF Mapped, UpdateOK, TableOK
<1>2. ASSUME References(v.b[n], z) PROVE y = z
  BY <1>1, <1>2 DEF BankOK
<1>3. CASE n \in DOMAIN u.b /\ v.b[n] = u.b[n]
  BY <1>3 DEF Backed
<1>4. CASE n \in DOMAIN u.b /\ v.b[n] # u.b[n]
  <2>1. Extends(v.b[n], u.b[n]) /\ Matches(u.b[n], z, tag, e)
    BY <1>4 DEF Mapped
  <2>2. u.b[n].tag = None /\ tag = None /\ References(u.b[n], z)
    BY <2>1 DEF Extends, Matches
  <2>3. y = z
    BY <1>2, <2>1, <2>2 DEF Extends, References
  <2>4. Rooted(u.b[n], z, m[z])
    BY <1>4, <2>2 DEF Backed
  <2>5. PICK j \in DOMAIN m[z] : Origin(u.b[n], z, m[z][j])
    BY <2>4 DEF Rooted
  <2>6. Origin(v.b[n], z, m[z][j])
    BY <2>1, <2>5, OriginExtends
  <2>7. ASSUME PlainIn(z, m[z]), v.b[n].base # None
        PROVE  \E k \in DOMAIN m[z] : m[z][k].start = v.b[n].start /\ m[z][k].memory = v.b[n].base
    <3>1. v.b[n].base = u.b[n].base
      BY <1>4, <2>2, <2>7 DEF SameBases
    <3>2. v.b[n].start = u.b[n].start
      BY <2>1 DEF Extends
    <3>3. QED BY <2>4, <2>7, <3>1, <3>2 DEF Rooted
  <2>8. QED BY <2>3, <2>6, <2>7 DEF Rooted
<1>5. CASE n \notin DOMAIN u.b
  <2>1. Matches(v.b[n], z, tag, e)
    BY <1>5 DEF Mapped
  <2>2. tag = None /\ References(v.b[n], z)
    BY <2>1 DEF Matches
  <2>3. y = z
    BY <1>2, <2>2
  <2>4. Origin(v.b[n], z, e)
    BY <2>1, <2>2 DEF Matches, Origin
  <2>5. PlainIn(z, m[z]) => v.b[n].base = None
    BY <1>5, <2>2 DEF SameBases
  <2>6. QED BY <2>3, <2>4, <2>5 DEF Rooted
<1>6. QED BY <1>3, <1>4, <1>5

(* In a plain space that has no blocks and no memory, there is none to     *)
(* find.                                                                   *)
LEMMA NoneToFind ==
  ASSUME NEW z, Empty(entries[z]), DOMAIN blocklist = {}, NEW e
  PROVE  find_backing_memory(z, e) = None
BY DEF Empty, find_backing_memory

(* Populating from one entry keeps the banks rooted.                       *)
LEMMA PopulateEntryBacked ==
  ASSUME NEW u, UpdateOK(u), Sourced(u.b, entries, {}),
         Backed(u.b, entries), Imaged(u.b, u.t, entries),
         NEW z \in Spaces, NEW i \in DOMAIN entries[z],
         NEW e, e = entries[z][i], EntryOK(e), NEW d \in Directions,
         PlainIn(z, entries[z]) => Empty(entries[z]), DOMAIN blocklist = {},
         NEW v, v = PopulateEntry(u, z, d, e)
  PROVE  /\ UpdateOK(v) /\ Sourced(v.b, entries, {})
         /\ Backed(v.b, entries) /\ Imaged(v.b, v.t, entries)
<1> DEFINE type == IF d = "read" THEN e.read ELSE e.write
           row == [x \in Addresses |-> IF x \in Copies(e) THEN 0 ELSE u.t[z][d][x]]
<1>1. UpdateOK(v) /\ Sourced(v.b, entries, {})
  <2>1. z \notin {}
    OBVIOUS
  <2>2. QED BY <2>1, PopulateEntryIs
<1>2. \/ v = u
      \/ /\ ~u.full /\ (type = "RAM" \/ (type = "ROM" /\ d = "read"))
         /\ v = InstallRam(u, z, d, e, None)
      \/ ~u.full /\ type = "BANK" /\ v = MapBank(u, z, d, e.tag, e)
      \/ v = [u EXCEPT !.t[z][d] = row]
  BY DEF PopulateEntry
<1>3. CASE v = u
  BY <1>3
<1>4. CASE /\ ~u.full /\ (type = "RAM" \/ (type = "ROM" /\ d = "read"))
           /\ v = InstallRam(u, z, d, e, None)
  <2>1. Mapped(u, v, z, None, e) /\ Puts(u, v, z, e)
    BY <1>4, InstallRamIs, InstallRamPuts
  <2>2. e.write = "RAM" \/ e.read \in {"RAM", "ROM"}
    BY <1>4
  <2>3. PlainIn(z, entries[z]) => SameBases(u, v)
    BY <1>4, NoneToFind, InstallRamBases
  <2>4. QED BY <1>1, <2>1, <2>2, <2>3, MappedBacked, MappedImaged
<1>5. CASE ~u.full /\ type = "BANK" /\ v = MapBank(u, z, d, e.tag, e)
  <2>1. Mapped(u, v, z, e.tag, e) /\ Puts(u, v, z, e)
    BY <1>5, MapBankIs, MapBankPuts
  <2>2. e.tag # None
    BY <1>5 DEF EntryOK
  <2>3. QED BY <1>1, <2>1, <2>2, MappedBacked, MappedImaged
<1>6. CASE v = [u EXCEPT !.t[z][d] = row]
  <2>1. \A x \in Addresses : row[x] \in {0, u.t[z][d][x]}
    OBVIOUS
  <2> HIDE DEF row
  <2>2. v.b = u.b /\ v.t = [u.t EXCEPT ![z][d] = row]
    BY <1>6 DEF UpdateOK, UpdateFields
  <2>3. ASSUME NEW y \in Spaces, NEW c \in Directions, NEW x \in Addresses, v.t[y][c][x] # 0
        PROVE  v.t[y][c][x] = u.t[y][c][x]
    <3>1. DOMAIN u.t = Spaces /\ DOMAIN u.t[z] = Directions
      BY DEF UpdateOK, TableOK
    <3>2. v.t[y][c] = IF y = z /\ c = d THEN row ELSE u.t[y][c]
      BY <2>2, <3>1
    <3>3. QED BY <2>1, <2>3, <3>2
  <2>4. Imaged(v.b, v.t, entries)
    BY <2>2, <2>3 DEF Imaged
  <2>5. QED BY <1>1, <2>2, <2>4
<1>7. QED BY <1>2, <1>3, <1>4, <1>5, <1>6

(* And populating from all of them.                                        *)
LEMMA PopulateBacked ==
  ASSUME NEW u, UpdateOK(u), Sourced(u.b, entries, {}),
         Backed(u.b, entries), Imaged(u.b, u.t, entries),
         NEW z \in Spaces, EntryList(entries[z]),
         PlainIn(z, entries[z]) => Empty(entries[z]), DOMAIN blocklist = {},
         NEW v, v = PopulateFold!Fold(z, 0, 0, 0, u, entries[z])
  PROVE  Backed(v.b, entries) /\ Imaged(v.b, v.t, entries)
<1>1. PICK n \in Nat : DOMAIN entries[z] = 1 .. n
  BY DEF EntryList, IsList
<1>2. PopulateFold!Induction(n)
  BY LoopInduction DEF PopulateFold!Induction
<1>3. PICK g : PopulateFold!Passes(z, 0, 0, 0, u, entries[z], n, g) /\ g[n] = v
  BY <1>1, <1>2, PopulateFold!FoldPasses
<1> DEFINE J(w) == /\ UpdateOK(w) /\ Sourced(w.b, entries, {})
                   /\ Backed(w.b, entries) /\ Imaged(w.b, w.t, entries)
           P == {k \in 0 .. n : J(g[k])}
<1>4. 0 \in P
  BY <1>3 DEF PopulateFold!Passes
<1>5. ASSUME NEW k \in 0 .. (n - 1), k \in P PROVE k + 1 \in P
  <2> DEFINE m == k + 1
             e == entries[z][m]
             h == PopulateEntry(g[k], z, "read", e)
  <2>1. m \in 1 .. n /\ m \in 0 .. n /\ m - 1 = k
    OBVIOUS
  <2>2. J(g[k])
    BY <1>5
  <2> HIDE DEF m
  <2>3. g[m] = PopulateEntry(h, z, "write", e)
    BY <1>3, <2>1 DEF PopulateFold!Passes, PopulateStep
  <2>4. "read" \in Directions /\ "write" \in Directions /\ m \in DOMAIN entries[z] /\ EntryOK(e)
    BY <1>1, <2>1 DEF Directions, EntryList
  <2>5. J(h)
    BY <2>2, <2>4, PopulateEntryBacked
  <2> HIDE DEF h
  <2>6. J(g[m])
    BY <2>3, <2>4, <2>5, PopulateEntryBacked
  <2>7. QED BY <2>1, <2>6 DEF m
<1>6. n \in P
  <2> HIDE DEF P
  <2>1. QED BY <1>4, <1>5, LoopInduction
<1>7. QED BY <1>3, <1>6

(* populate_from_map.                                                      *)
LEMMA PopulatedBacked ==
  ASSUME SetupInv, BanksInv, PlainInv, BackedInv, PopulateFromMap
  PROVE  BackedInv'
<1> DEFINE u == FoldLeft(LAMBDA v, e : PopulateEntry(PopulateEntry(v, space, "read", e), space, "write", e),
                         Current, entries[space])
<1>1. stage = "populate" /\ banklist' = u.b /\ table' = u.t /\ UNCHANGED <<entries, installed>>
  BY DEF PopulateFromMap
<1>2. u = PopulateFold!Fold(space, 0, 0, 0, Current, entries[space])
  BY DEF FoldLeft, MapThenFoldSet, PopulateFold!Fold, PopulateFold!Last, PopulateStep, Max
<1> HIDE DEF u
<1>3. UpdateOK(Current) /\ Current.b = banklist /\ Current.t = table
  <2>1. DOMAIN Current = UpdateFields /\ Current.b = banklist /\ Current.t = table
    BY DEF Current, UpdateFields
  <2>2. QED BY <1>1, <2>1 DEF UpdateOK, BanksInv
<1>4. Done = {} /\ Sourced(Current.b, entries, {})
  BY <1>1, <1>3, NoneDone DEF BanksInv
<1>5. space \in Spaces /\ EntryList(entries[space])
  BY <1>1 DEF SetupInv, StageInv, EntriesOK, EntryList
<1>6. ASSUME installed = << >> PROVE Backed(u.b, entries) /\ Imaged(u.b, u.t, entries)
  <2>1. Backed(Current.b, entries) /\ Imaged(Current.b, Current.t, entries)
    BY <1>1, <1>3, <1>6 DEF BackedInv
  <2>2. DOMAIN blocklist = {}
    BY <1>1, <1>6 DEF PlainInv, Begun, NotYet
  <2>3. PlainIn(space, entries[space]) => Empty(entries[space])
    BY <1>1, <1>5, PlainAreEmpty
  <2>4. QED BY <1>2, <1>3, <1>4, <1>5, <2>1, <2>2, <2>3, PopulateBacked
<1>7. QED BY <1>1, <1>6 DEF BackedInv

(* Memory given to entries that have none.                                 *)
LEMMA AllocatedBacked ==
  ASSUME BackedInv, stage # "failed", EntriesGrew, UNCHANGED <<banklist, table, installed>>
  PROVE  BackedInv'
<1>a. ASSUME installed = << >> PROVE Imaged(banklist, table, entries')
  <2> SUFFICES ASSUME NEW z \in Spaces, NEW d \in Directions, NEW x \in Addresses,
                      NEW n, n = table[z][d][x], n # 0, banklist[n].tag = None
               PROVE  Shown(banklist[n], entries'[z], x)
    BY DEF Imaged
  <2>1. Shown(banklist[n], entries[z], x)
    BY <1>a DEF BackedInv, Imaged
  <2>2. /\ DOMAIN entries'[z] = DOMAIN entries[z]
        /\ \A i \in DOMAIN entries[z] : Assigns(entries'[z][i], entries[z][i])
    BY DEF EntriesGrew
  <2>3. QED BY <2>1, <2>2, ShownStays DEF Assigns
<1> SUFFICES ASSUME installed = << >>, NEW n \in DOMAIN banklist, NEW z \in Spaces,
                    banklist[n].tag = None, References(banklist[n], z)
             PROVE  Rooted(banklist[n], z, entries'[z])
  BY <1>a DEF BackedInv, Backed
<1> DEFINE k == banklist[n]
           es == entries[z]
           fs == entries'[z]
<1>1. Rooted(k, z, es)
  BY DEF BackedInv, Backed
<1>2. DOMAIN fs = DOMAIN es /\ \A i \in DOMAIN es : Assigns(fs[i], es[i])
  BY DEF EntriesGrew
<1> HIDE DEF k, es, fs
<1>3. PICK i \in DOMAIN es : Origin(k, z, es[i])
  BY <1>1 DEF Rooted
<1>4. Origin(k, z, fs[i])
  BY <1>2, <1>3 DEF Origin, Assigns
<1>5. ASSUME PlainIn(z, fs), k.base # None
      PROVE  \E j \in DOMAIN fs : fs[j].start = k.start /\ fs[j].memory = k.base
  <2>1. PlainIn(z, es)
    BY <1>2, <1>5, PlainStays
  <2>2. PICK j \in DOMAIN es : es[j].start = k.start /\ es[j].memory = k.base
    BY <1>1, <1>5, <2>1 DEF Rooted
  <2>3. Assigns(fs[j], es[j])
    BY <1>2
  <2>4. QED BY <1>2, <1>5, <2>2, <2>3 DEF Assigns
<1>6. Rooted(k, z, fs)
  BY <1>2, <1>4, <1>5 DEF Rooted
<1>7. QED BY <1>6 DEF k, fs

(* locate_memory: the memory is that of an entry that starts with the bank.*)
LEMMA LocatedBacked ==
  ASSUME NEW k, BankOK(k), NEW z \in Spaces, EntryList(entries[z]), NEW j, j = Located(z, k),
         NEW y \in Spaces, j.tag = None, References(j, y),
         k.tag = None /\ References(k, y) => Rooted(k, y, entries[y])
  PROVE  Rooted(j, y, entries[y])
<1> DEFINE es   == entries[z]
           here == {i \in DOMAIN es : es[i].start = k.start /\ es[i].memory # None}
<1>1. Extends(j, k) /\ j.reflist = k.reflist /\ DOMAIN k = BankFields
  BY LocatedIs DEF BankOK
<1>2. k.tag = None /\ References(k, y) /\ j.start = k.start
  BY <1>1 DEF Extends, References
<1>3. PICK i \in DOMAIN entries[y] : Origin(k, y, entries[y][i])
  BY <1>2 DEF Rooted
<1>4. Origin(j, y, entries[y][i])
  BY <1>1, <1>3, OriginExtends
<1>5. ASSUME PlainIn(y, entries[y]), j.base # None
      PROVE  \E o \in DOMAIN entries[y] : entries[y][o].start = j.start /\ entries[y][o].memory = j.base
  <2>1. CASE k.base = None /\ References(k, z) /\ here # {}
    <3>1. j = [k EXCEPT !.base = es[Min(here)].memory]
      BY <2>1 DEF Located
    <3>2. Min(here) \in here
      <4>1. here \in SUBSET Nat /\ here # {}
        BY <2>1 DEF EntryList, IsList
      <4> HIDE DEF here
      <4>2. QED BY <4>1, MinIsLeast
    <3>3. y = z
      BY <1>2, <2>1 DEF BankOK
    <3>4. Min(here) \in DOMAIN es /\ es[Min(here)].start = k.start
      BY <3>2
    <3> HIDE DEF here
    <3>5. j.base = es[Min(here)].memory
      BY <1>1, <3>1 DEF BankFields
    <3>6. QED BY <1>2, <3>3, <3>4, <3>5
  <2>2. CASE ~(k.base = None /\ References(k, z) /\ here # {})
    <3>1. j = k
      BY <2>2 DEF Located
    <3>2. QED BY <1>2, <1>5, <3>1 DEF Rooted
  <2>3. QED BY <2>1, <2>2
<1>6. QED BY <1>4, <1>5 DEF Rooted

(* Without a bank nothing is mapped.                                       *)
LEMMA NothingBacked ==
  ASSUME NEW b, NEW t, DOMAIN b = {}, TableOK(b, t), NEW m
  PROVE  Backed(b, m) /\ Imaged(b, t, m)
<1>1. \A z \in Spaces, d \in Directions, x \in Addresses : t[z][d][x] = 0
  BY DEF TableOK, MappedOK
<1>2. QED BY <1>1 DEF Backed, Imaged

(* Every step keeps the banks rooted, until more is installed.             *)
LEMMA BackedStep ==
  ASSUME SetupInv, BanksInv, PlainInv, BackedInv, [Next]_vars
  PROVE  BackedInv'
<1>1. CASE UNCHANGED vars
  BY <1>1 DEF vars, BackedInv
<1>2. CASE PrepareMap
  <2>1. stage = "prepare" /\ UNCHANGED <<banklist, table>>
    BY <1>2 DEF PrepareMap
  <2>2. DOMAIN banklist = {} /\ TableOK(banklist, table)
    BY <2>1 DEF BanksInv
  <2>3. QED BY <2>1, <2>2, NothingBacked DEF BackedInv
<1>3. CASE RegionError
  BY <1>3 DEF RegionError, BackedInv
<1>4. CASE PopulateFromMap
  BY <1>4, PopulatedBacked
<1>5. CASE AllocateHardcoded
  <2>1. stage = "allocate" /\ UNCHANGED <<banklist, table, installed>>
    BY Zenon, <1>5 DEF AllocateHardcoded, Assigned
  <2>2. EntriesGrew
    BY <1>5, HardcodedStepKeeps
  <2>3. QED BY <2>1, <2>2, AllocatedBacked
<1>6. CASE AllocateBlock
  <2>1. stage = "allocate" /\ UNCHANGED <<banklist, table, installed>>
    BY <1>6 DEF AllocateBlock, Assigned
  <2>2. EntriesGrew
    BY <1>6, BlockStepKeeps
  <2>3. QED BY <2>1, <2>2, AllocatedBacked
<1>7. CASE LocateMemory
  <2>1. /\ stage = "locate" /\ UNCHANGED <<entries, table, installed>>
        /\ banklist' = [n \in DOMAIN banklist |-> Located(space, banklist[n])]
    BY <1>7 DEF LocateMemory
  <2>a. ASSUME installed = << >> PROVE Imaged(banklist', table, entries)
    <3> SUFFICES ASSUME NEW z \in Spaces, NEW d \in Directions, NEW x \in Addresses,
                        NEW n, n = table[z][d][x], n # 0, banklist'[n].tag = None
                 PROVE  Shown(banklist'[n], entries[z], x)
      BY DEF Imaged
    <3>1. MappedOK(banklist, table, z, d, x)
      BY <2>1 DEF BanksInv, TableOK
    <3>2. n \in DOMAIN banklist
      BY <3>1 DEF MappedOK
    <3>3. BankOK(banklist[n]) /\ banklist'[n] = Located(space, banklist[n])
      BY <2>1, <3>2 DEF BanksInv, TableOK
    <3>4. Extends(banklist'[n], banklist[n])
      <4>1. space \in Spaces /\ EntryList(entries[space])
        BY <2>1 DEF SetupInv, StageInv, EntriesOK, EntryList
      <4>2. QED BY <3>3, <4>1, LocatedIs
    <3>5. Shown(banklist[n], entries[z], x)
      BY <2>1, <2>a, <3>4 DEF BackedInv, Imaged, Extends
    <3>6. QED BY <3>4, <3>5, ShownStays DEF Extends
  <2> SUFFICES ASSUME installed = << >>, NEW n \in DOMAIN banklist, NEW y \in Spaces,
                      banklist'[n].tag = None, References(banklist'[n], y)
               PROVE  Rooted(banklist'[n], y, entries[y])
    BY <2>1, <2>a DEF BackedInv, Backed
  <2>2. banklist'[n] = Located(space, banklist[n])
    BY <2>1
  <2>3. BankOK(banklist[n]) /\ space \in Spaces /\ EntryList(entries[space])
    BY <2>1 DEF BanksInv, TableOK, SetupInv, StageInv, EntriesOK, EntryList
  <2>4. banklist[n].tag = None /\ References(banklist[n], y) => Rooted(banklist[n], y, entries[y])
    BY <2>1 DEF BackedInv, Backed
  <2>5. QED BY <2>2, <2>3, <2>4, LocatedBacked
<1>8. ASSUME NEW z \in Spaces, NEW ds \in {{"read"}, {"write"}, Directions}, NEW e \in Installs,
             NEW given \in {None, Place(Given, 0)}, Install(z, ds, e, given)
      PROVE  BackedInv'
  <2>1. installed' = Append(installed, <<z, e>>)
    BY <1>8 DEF Install
  <2>2. installed' # << >>
    BY <2>1, AppendIsMore DEF BanksInv
  <2>3. QED BY <2>2 DEF BackedInv
<1>9. QED BY <1>1, <1>2, <1>3, <1>4, <1>5, <1>6, <1>7, <1>8 DEF Next

(* And throughout.                                                         *)
LEMMA BackedAlways == Spec => []BackedInv
<1>1. Init => BackedInv
  <2> SUFFICES ASSUME Init PROVE BackedInv
    OBVIOUS
  <2>1. DOMAIN banklist = {}
    <3>1. DOMAIN << >> = {}
      OBVIOUS
    <3>2. QED BY <3>1 DEF Init
  <2>2. TableOK(banklist, table)
    BY BanksStart DEF BanksInv, Init
  <2>3. QED BY <2>1, <2>2, NothingBacked DEF BackedInv
<1>2. SetupInv /\ BanksInv /\ PlainInv /\ BackedInv /\ [Next]_vars => BackedInv'
  BY BackedStep
<1>3. QED BY <1>1, <1>2, SetupAlways, BanksAlways, PlainAlways, PTL DEF Spec

---------------------------------------------------------------------------------
(* Where an access to a plain space ends up: in the block around it.       *)

(* An address is in one block of its space only.                           *)
LEMMA OneBlock ==
  ASSUME NEW bl, NEW z, NEW es, PlainOK(bl, z, es), NEW j \in BlocksOf(bl, z), NEW k \in BlocksOf(bl, z),
         NEW x \in Nat, bl[j].start <= x, x <= bl[j].end, bl[k].start <= x, x <= bl[k].end
  PROVE  j = k
<1> SUFFICES ASSUME j # k PROVE FALSE
  OBVIOUS
<1>1. PlainBlock(bl, z, es, j) /\ PlainBlock(bl, z, es, k)
  BY DEF PlainOK
<1>2. /\ bl[j].start \in Nat /\ bl[j].end \in Nat /\ bl[k].start \in Nat /\ bl[k].end \in Nat
      /\ Far(Chunked(bl[j]), Chunked(bl[k]))
  BY <1>1 DEF PlainBlock
<1>3. /\ Chunk(bl[j].start) \in Nat /\ Chunk(bl[j].end) \in Nat /\ Chunk(bl[k].start) \in Nat
      /\ Chunk(bl[k].end) \in Nat /\ Chunk(x) \in Nat
      /\ Chunk(bl[j].start) <= Chunk(x) /\ Chunk(x) <= Chunk(bl[j].end)
      /\ Chunk(bl[k].start) <= Chunk(x) /\ Chunk(x) <= Chunk(bl[k].end)
  BY <1>2, ChunksAre
<1>4. Chunk(bl[j].end) + 1 < Chunk(bl[k].start) \/ Chunk(bl[k].end) + 1 < Chunk(bl[j].start)
  BY <1>2 DEF Far, Chunked
<1>5. QED BY <1>3, <1>4

(* The place of an address in the block around it.                         *)
InBlock(z, x, p) ==
  \E k \in BlocksOf(blocklist, z) : /\ blocklist[k].start <= x /\ x <= blocklist[k].end
                                    /\ p = Place(k, x - blocklist[k].start)

(* The address an entry of the space shows at x.                           *)
Images(z, x, y) == \E e \in Range(entries[z]) : x \in Copies(e) /\ y = Unmirrored(e, x)

(* Whichever the direction, and whichever bank is mapped at the address.   *)
LEMMA ReachPlain ==
  ASSUME SetupInv, BanksInv, RoomInv, ReachInv, PlainInv, BackedInv,
         stage = "initialized", installed = << >>,
         NEW z \in Spaces, PlainIn(z, entries[z]), NEW d \in Directions, NEW x \in Addresses,
         Reach(z, d, x) # None
  PROVE  \E y \in Nat : Images(z, x, y) /\ InBlock(z, y, Reach(z, d, x))
<1> DEFINE n    == table[z][d][x]
           bank == banklist[n]
           h    == bank.handler[z][d]
           o    == (x - h.start) % h.size
           es   == entries[z]
<1>1. n # 0 /\ bank.base # None /\ Reach(z, d, x) = Beyond(bank.base, o)
  BY Zenon DEF Reach
<1>2. n \in DOMAIN banklist /\ Covers(entries, bank, z, x) /\ Configured(entries, bank, z, h)
  <2>1. HandledOK(entries, banklist, table, z, d, x)
    BY DEF ReachInv, TableRoom
  <2>2. QED BY Zenon, <1>1, <2>1 DEF HandledOK
<1>3. References(bank, z)
  <2>1. MappedOK(banklist, table, z, d, x)
    BY DEF BanksInv, TableOK
  <2>2. QED BY Zenon, <1>1, <2>1 DEF MappedOK, References
<1>4. bank.tag = None => Rooted(bank, z, es) /\ Shown(bank, es, x)
  <2>1. bank.tag = None => Rooted(bank, z, es)
    BY <1>2, <1>3 DEF BackedInv, Backed
  <2>2. Imaged(banklist, table, entries)
    BY DEF BackedInv
  <2>3. QED BY <1>1, <2>1, <2>2 DEF Imaged
<1>5. /\ \A i \in DOMAIN es : PlainEntry(z, es[i])
      /\ \A i \in DOMAIN es : EntryOK(es[i]) /\ EntryInv(z, es[i])
      /\ PlainOK(blocklist, z, es)
  BY DEF PlainIn, SetupInv, EntriesOK, PlainInv, PlainAt
<1> HIDE DEF n
<1> HIDE DEF bank
<1> HIDE DEF h
<1>6. bank.tag = None
  <2> SUFFICES ASSUME bank.tag # None PROVE FALSE
    OBVIOUS
  <2>1. PICK e : RangeOf(entries, bank, z, e)
    BY <1>2 DEF Covers
  <2>2. PICK i \in DOMAIN es : es[i].tag = bank.tag
    BY <2>1 DEF RangeOf, Namers, Range
  <2>3. QED BY <1>5, <2>2 DEF PlainEntry
<1>7. PICK l \in DOMAIN es : es[l].start = bank.start /\ es[l].end = bank.end /\ x \in Copies(es[l])
  BY <1>4, <1>6 DEF Shown
<1> DEFINE f == es[l]
           y == Unmirrored(f, x)
<1>8. h.start = f.start /\ h.size = RoundedUp(f)
  <2>1. PICK g : RangeOf(entries, bank, z, g) /\ h = [start |-> g.start, size |-> RoundedUp(g)]
    BY <1>2 DEF Configured
  <2>2. g.start = f.start /\ g.end = f.end
    BY <1>6, <1>7, <2>1 DEF RangeOf
  <2> HIDE DEF f
  <2>3. RoundedUp(g) = RoundedUp(f)
    BY <2>2, CopiesAre
  <2>4. QED BY <2>1, <2>2, <2>3
<1>9. /\ bank.start \in Nat /\ bank.end \in Nat /\ y \in Nat /\ bank.start <= y /\ y <= bank.end
      /\ o = y - bank.start
  <2>1. EntryOK(f)
    BY <1>5, <1>7
  <2>2. RangeOK(f) /\ x \in Copies(f) /\ f.start = bank.start /\ f.end = bank.end
    BY <1>7, <2>1 DEF EntryOK
  <2>3. bank.start \in Nat /\ bank.end \in Nat
    BY <2>2, RangesOK, RangesAre
  <2>4. o = (x - f.start) % RoundedUp(f)
    BY <1>8
  <2> HIDE DEF f, o
  <2>5. y \in Int /\ f.start <= y /\ y <= f.end /\ (x - f.start) % RoundedUp(f) = y - f.start
    BY <2>2, OffsetIs
  <2> HIDE DEF y
  <2>6. QED BY <2>2, <2>3, <2>4, <2>5
<1>10. Images(z, x, y)
  BY <1>7 DEF Images, Range
<1> HIDE DEF o, y, f
<1>11. PICK i \in DOMAIN es : Origin(bank, z, es[i])
  BY <1>4, <1>6 DEF Rooted
<1>12. PICK j \in DOMAIN es : es[j].start = bank.start /\ es[j].memory = bank.base
  BY <1>1, <1>4, <1>5, <1>6 DEF Rooted
<1>13. es[i].memory # None
  <2>1. HasPrepared(z) /\ HasSettled(z)
    BY DEF HasPrepared, HasSettled
  <2>2. EntryOK(es[i]) /\ EntryInv(z, es[i]) /\ ~Straddles(z, es[i])
    BY <1>5 DEF PlainEntry
  <2>3. QED BY <1>11, <2>1, <2>2, NoneStraddles DEF Origin
<1>14. es[j].start <= es[j].end
  BY PlainListIs DEF PlainList
<1>15. IsIn(blocklist, z, es[i]) /\ IsIn(blocklist, z, es[j])
  BY <1>1, <1>5, <1>12, <1>13 DEF PlainOK
<1>16. EntryOK(es[j])
  BY <1>5
<1> HIDE DEF es
<1>17. PICK a \in BlocksOf(blocklist, z) : blocklist[a].start <= bank.start /\ bank.end <= blocklist[a].end
  BY <1>11, <1>15 DEF IsIn, Origin
<1>18. PICK b \in BlocksOf(blocklist, z) :
          /\ blocklist[b].start <= bank.start /\ es[j].end <= blocklist[b].end
          /\ bank.base = Place(b, bank.start - blocklist[b].start)
  BY <1>12, <1>15 DEF IsIn
<1>19. /\ blocklist[a].start \in Nat /\ blocklist[a].end \in Nat
       /\ blocklist[b].start \in Nat /\ blocklist[b].end \in Nat
  BY <1>5 DEF PlainOK, PlainBlock
<1>20. a = b
  <2>1. bank.start <= blocklist[a].end
    BY <1>9, <1>17, <1>19
  <2>2. bank.start <= blocklist[b].end
    BY <1>9, <1>12, <1>14, <1>16, <1>18, <1>19 DEF EntryOK
  <2>3. QED BY <1>5, <1>9, <1>17, <1>18, <2>1, <2>2, OneBlock
<1> DEFINE s == blocklist[a].start
<1>21. Beyond(Place(a, bank.start - s), o) = Place(a, (bank.start - s) + o)
  BY DEF Beyond, Place
<1>22. (bank.start - s) + o = y - s
  <2>1. bank.start \in Int /\ s \in Int /\ y \in Int
    BY <1>9, <1>19
  <2>2. \A p, q, r \in Int : (p - q) + (r - p) = r - q
    OBVIOUS
  <2>3. QED BY <1>9, <2>1, <2>2
<1>23. Reach(z, d, x) = Place(a, y - s)
  BY <1>1, <1>18, <1>20, <1>21, <1>22
<1>24. s <= y /\ y <= blocklist[a].end
  BY <1>9, <1>17, <1>19
<1>25. InBlock(z, y, Reach(z, d, x))
  BY <1>23, <1>24 DEF InBlock
<1>26. QED BY <1>9, <1>10, <1>25

(* RAM that is read at an address of a plain space is what is written      *)
(* there, however the entries overlap, unless the address is a copy of two *)
(* others: memory is in blocks of whole chunks and all that lies in a      *)
(* block shares it, so that both banks reach the block the address, or     *)
(* what it is a copy of, is in.                                            *)
THEOREM WritesHold == Spec => []WritesAreRead
<1>1. SetupInv /\ BanksInv /\ RoomInv /\ ReachInv /\ PlainInv /\ BackedInv => WritesAreRead
  <2> SUFFICES ASSUME SetupInv, BanksInv, RoomInv, ReachInv, PlainInv, BackedInv,
                      stage = "initialized", installed = << >>,
                      NEW z \in Spaces, Plain(z), NEW x \in Addresses, OneImage(z, x),
                      Reach(z, "read", x) # None, Reach(z, "write", x) # None
               PROVE  Reach(z, "read", x) = Reach(z, "write", x)
    BY DEF WritesAreRead
  <2>1. PlainIn(z, entries[z])
    BY DEF Plain, PlainIn, PlainEntry
  <2>2. "read" \in Directions /\ "write" \in Directions
    BY DEF Directions
  <2>3. PICK y \in Nat : Images(z, x, y) /\ InBlock(z, y, Reach(z, "read", x))
    BY <2>1, <2>2, ReachPlain
  <2>4. PICK w \in Nat : Images(z, x, w) /\ InBlock(z, w, Reach(z, "write", x))
    BY <2>1, <2>2, ReachPlain
  <2>5. w = y
    BY <2>3, <2>4 DEF OneImage, Images
  <2>6. PlainOK(blocklist, z, entries[z])
    BY <2>1 DEF PlainInv, PlainAt
  <2>7. QED BY <2>3, <2>4, <2>5, <2>6, OneBlock DEF InBlock
<1>2. QED BY <1>1, SetupAlways, BanksAlways, RoomAlways, PlainAlways, BackedAlways, PTL

=============================================================================
