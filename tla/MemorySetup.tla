------------------------------- MODULE MemorySetup -------------------------------
(***************************************************************************)
(* How the address spaces of a machine get their memory: the stages of     *)
(* memory_manager::initialize, each run over all the spaces, and RAM       *)
(* installed afterwards (source/emucore/memory/emumem.cpp, memory_bank.h,  *)
(* memory_block.h).                                                        *)
(*                                                                         *)
(* An address map is a list of entries, of which a later one overrides an  *)
(* earlier one.  RAM and ROM are banks, found by tag or, anonymous, by     *)
(* their range; where the memory of a bank is comes out of the entries, of *)
(* the regions and shares they name, and of blocks allocated for those     *)
(* that have none.  An address is a byte, and the table of a space is the  *)
(* map AddressTable implements: an entry takes all copies of its range,    *)
(* while its memory is that of the range alone.                            *)
(***************************************************************************)
EXTENDS Integers, AddressBits, SequencesExt, Subsequences

CONSTANTS
  Spaces,          \* 1 .. n, in the order of the devices
  First,           \* the spaces that are space 0 of their device
  Regions,         \* region -> bytes
  OwnRegion,       \* space -> the region with the tag of its device, or None
  Maps,            \* the address maps the spaces may have: space -> map
  Installs,        \* ranges in which RAM is installed after initialization
  MEMORY_BLOCK_CHUNK, STATIC_BANKMAX,
  None, Given,     \* nothing; memory that is the caller's
  MaxInstalls      \* bound: RAM installed after initialization

(* The maps as adjust_addresses leaves them.  Whatever check_optimize_all  *)
(* and check_optimize_mirror end with a fatal error is left out; they are  *)
(* called for each entry (install_setoffset_handler) and for each install. *)
Buckets == UNION {Range(m[z]) : m \in Maps, z \in Spaces}
Length(e) == e.end - e.start + 1

(* The addresses of an entry: those of its range and their mirrors.        *)
Mirrors(e, y, x) == SetBits(y) = SetBits(x) \ e.mirror
Copies(e)        == {x \in Addresses : \E y \in e.start .. e.end : Mirrors(e, y, x)}
Unmirrored(e, x) == CHOOSE y \in e.start .. e.end : Mirrors(e, y, x)

Fields    == {"start", "end", "mirror", "read", "write", "share", "region", "offset", "tag", "memory"}

ASSUME MemorySetupAssumption ==
  /\ First \subseteq Spaces
  /\ Spaces # {} /\ IsFiniteSet(Spaces) /\ Spaces = 1 .. Cardinality(Spaces)
  /\ MEMORY_BLOCK_CHUNK \in Nat \ {0} /\ STATIC_BANKMAX \in Nat /\ MaxInstalls \in Nat
  /\ Maps \subseteq [Spaces -> Seq(Buckets)]
  /\ OwnRegion \in [Spaces -> DOMAIN Regions \cup {None}]
  /\ \A e \in Buckets :
       /\ DOMAIN e = Fields /\ {e.start, e.end, e.offset} \subseteq Nat /\ e.memory = None
       /\ "BANK" \in {e.read, e.write} => e.tag # None
  /\ Regions \in [DOMAIN Regions -> Nat] /\ None \notin DOMAIN Regions
  /\ \A e \in Buckets \cup Installs :
       {e.start, e.end} \subseteq Addresses /\ e.mirror \subseteq Bits /\ ValidRequest(e)
  /\ \A r \in DOMAIN Regions \cup {Given} : r \notin Nat
  /\ Given \notin DOMAIN Regions
  /\ None \notin [memory : DOMAIN Regions \cup {Given} \cup Nat, offset : Nat]

VARIABLES
  stage, space,    \* what initialize is at, and for which space
  entries,         \* space -> its map: m_map->m_entrylist
  sharelist,       \* share -> the memory behind it (m_sharelist)
  blocklist,       \* m_blocklist
  unassigned,      \* of allocate_memory, the number of an entry; 0 for none
  banklist,        \* bank number -> bank (m_banklist)
  table,           \* space -> direction -> address -> bank number; 0 for none
  installed        \* where RAM was installed after initialization

vars == <<stage, space, entries, sharelist, blocklist, unassigned, banklist, table, installed>>

(* Memory and a place in it.                                               *)
Place(m, k)    == [memory |-> m, offset |-> k]
Beyond(p, k)   == [p EXCEPT !.offset = @ + k]
Directions     == {"read", "write"}

---------------------------------------------------------------------------------
(* prepare_map.                                                            *)

(* ROM of a space 0 is in the region of the device, when it fits.          *)
Attach(z, e) ==
  IF /\ z \in First /\ e.read = "ROM" /\ e.region = None
     /\ OwnRegion[z] # None /\ e.end < Regions[OwnRegion[z]]
  THEN [e EXCEPT !.region = OwnRegion[z], !.offset = e.start]
  ELSE e

(* An entry that names a region but no share has to be inside the region.  *)
(* With a share it is not asked; when the region is not there the program  *)
(* ends all the same, at a null pointer.                                   *)
Fits(e) ==
  e.region # None =>
    /\ e.region \in DOMAIN Regions
    /\ e.share = None => e.offset + Length(e) <= Regions[e.region]

Prepared(z, e) ==
  LET a == Attach(z, e)
  IN  [a EXCEPT !.memory = IF a.region = None THEN None ELSE Place(a.region, a.offset)]

NewShares(z) ==
  {entries[z][i].share : i \in DOMAIN entries[z]} \ (DOMAIN sharelist \cup {None})

(* Each stage is run for all the spaces before the next.                   *)
Stages == <<"prepare", "populate", "allocate", "locate", "initialized">>
After(s) == Stages[CHOOSE k \in 2 .. Len(Stages) : Stages[k - 1] = s]
Advance ==
  IF space = Cardinality(Spaces) THEN stage' = After(stage) /\ space' = 1
                                 ELSE stage' = stage /\ space' = space + 1

PrepareMap ==
  LET ready == [i \in DOMAIN entries[space] |-> Prepared(space, entries[space][i])]
  IN  /\ stage = "prepare"
      /\ \A i \in DOMAIN ready : Fits(ready[i])
      /\ entries' = [entries EXCEPT ![space] = ready]
      /\ sharelist' = [s \in NewShares(space) \cup DOMAIN sharelist |->
                         IF s \in DOMAIN sharelist THEN sharelist[s] ELSE None]
      /\ Advance
      /\ UNCHANGED <<blocklist, unassigned, banklist, table, installed>>

(* "Extends beyond region", or a region that does not exist.               *)
RegionError ==
  /\ stage = "prepare"
  /\ \E i \in DOMAIN entries[space] : ~Fits(Attach(space, entries[space][i]))
  /\ stage' = "failed"
  /\ UNCHANGED <<space, entries, sharelist, blocklist, unassigned, banklist, table, installed>>

---------------------------------------------------------------------------------
(* Banks, and the tables that map to them: b and t in a record u.          *)

References(bank, z) == \E d \in Directions : <<z, d>> \in bank.reflist

(* Mutant: an anonymous bank is found by where it starts.                  *)
BankNumbersByStart(u, z, tag, e) ==
  {n \in DOMAIN u.b :
     IF tag # None THEN u.b[n].tag = tag
     ELSE /\ u.b[n].tag = None /\ References(u.b[n], z)
          /\ u.b[n].start = e.start}

BankNumbers(u, z, tag, e) ==
  {n \in DOMAIN u.b :
     IF tag # None THEN u.b[n].tag = tag
     ELSE /\ u.b[n].tag = None /\ References(u.b[n], z)
          /\ u.b[n].start = e.start /\ u.b[n].end = e.end}

NewBank(tag, e) ==
  [tag |-> tag, start |-> e.start, end |-> e.end, base |-> None, reflist |-> {},
   handler |-> [z \in Spaces |-> [d \in Directions |-> [start |-> 0, size |-> 1]]]]

(* The handler entry of a bank is one for each table: it is configured     *)
(* with the last range, and with its length rounded up to a power of two.  *)
RoundedUp(e) ==
  CHOOSE n \in {2^k : k \in 0 .. AddrBits} :
    /\ e.start \div n = e.end \div n
    /\ n = 1 \/ e.start \div (n \div 2) # e.end \div (n \div 2)

MapTo(u, z, d, n, e) ==
  LET bank == u.b[n]
      at   == Copies(e)
  IN  [u EXCEPT
         !.t[z][d] = [x \in Addresses |-> IF x \in at THEN n ELSE @[x]],
         !.b[n] = [bank EXCEPT !.handler[z][d] = [start |-> e.start, size |-> RoundedUp(e)],
                               !.reflist = bank.reflist \cup {<<z, d>>}]]

(* bank_find_or_allocate, and map_range with what it found.                *)
MapBank(u, z, d, tag, e) ==
  LET found == BankNumbers(u, z, tag, e)
  IN  IF found # {} THEN LET n == Min(found) IN [MapTo(u, z, d, n, e) EXCEPT !.last = n]
      ELSE IF Len(u.b) = STATIC_BANKMAX THEN [u EXCEPT !.full = TRUE]
      ELSE LET n == Len(u.b) + 1
           IN  [MapTo([u EXCEPT !.b = Append(@, NewBank(tag, e))], z, d, n, e)
                  EXCEPT !.last = n]

find_backing_memory(z, e) ==
  LET es   == entries[z]
      over == {i \in DOMAIN es : es[i].memory # None /\ es[i].start <= e.start /\ e.end <= es[i].end}
      held == {k \in DOMAIN blocklist : /\ blocklist[k].space = z
                                        /\ blocklist[k].start <= e.start /\ e.end <= blocklist[k].end}
  IN  IF over # {} THEN LET i == Max(over) IN Beyond(es[i].memory, e.start - es[i].start)
      ELSE IF held # {} THEN LET k == Min(held) IN Beyond(blocklist[k].data, e.start - blocklist[k].start)
      ELSE None

set_base(u, n, p) == [u EXCEPT !.b[n].base = p]

(* install_ram_generic for one direction, but for the new block.           *)
InstallRam(u, z, d, e, given) ==
  LET v == MapBank(u, z, d, None, e)
      n == v.last
  IN  IF v.full THEN v
      ELSE IF given # None THEN set_base(v, n, given)
      ELSE IF v.b[n].base = None THEN set_base(v, n, find_backing_memory(z, e))
      ELSE v

(* populate_map_entry.  Writes to ROM are left as they are; handlers,      *)
(* ports, and addresses without any, are all the same here.                *)
PopulateEntry(u, z, d, e) ==
  LET type == IF d = "read" THEN e.read ELSE e.write
  IN  CASE u.full -> u
      []   ~u.full /\ (type = "RAM" \/ (type = "ROM" /\ d = "read")) -> InstallRam(u, z, d, e, None)
      []   ~u.full /\ type = "BANK" -> MapBank(u, z, d, e.tag, e)
      []   ~u.full /\ type = "HANDLER" ->
             LET at == Copies(e)
             IN  [u EXCEPT !.t[z][d] = [x \in Addresses |-> IF x \in at THEN 0 ELSE @[x]]]
      []   OTHER -> u

Current == [b |-> banklist, t |-> table, last |-> 0, full |-> FALSE]

PopulateFromMap ==
  LET u == FoldLeft(LAMBDA v, e : PopulateEntry(PopulateEntry(v, space, "read", e), space, "write", e),
                    Current, entries[space])
  IN  /\ stage = "populate"
      /\ banklist' = u.b /\ table' = u.t
      /\ IF u.full THEN stage' = "failed" /\ space' = space ELSE Advance
      /\ UNCHANGED <<entries, sharelist, blocklist, unassigned, installed>>

---------------------------------------------------------------------------------
(* allocate_memory.                                                        *)

(* Mutant: ROM is left to the regions.                                     *)
NeedsForWrites(z, e, shares) ==
  \/ e.share # None /\ shares[e.share] = None
  \/ e.write \in {"BANK", "RAM"}
  \/ e.read = "RAM"

(* ROM needs memory outside of space 0 or beyond the region of its device. *)
NeedsBackingStore(z, e, shares) ==
  \/ e.share # None /\ shares[e.share] = None
  \/ e.write \in {"BANK", "RAM"}
  \/ e.read = "RAM"
  \/ e.read = "ROM" /\ (z \notin First \/ OwnRegion[z] = None \/ e.start >= Regions[OwnRegion[z]])

(* Mutant: the block is looked at before the share.                        *)
AssignBlockFirst(w, z, i, lo, hi, data) ==
  LET e     == w.es[i]
      block == IF e.start >= lo /\ e.end <= hi THEN Beyond(data, e.start - lo) ELSE None
      share == IF e.share = None THEN None ELSE w.shares[e.share]
      p     == IF e.memory # None THEN e.memory ELSE IF block # None THEN block ELSE share
  IN  [w EXCEPT !.es[i].memory = p,
                !.shares = IF e.share # None /\ share = None THEN [@ EXCEPT ![e.share] = p] ELSE @,
                !.left = IF @ = 0 /\ p = None /\ NeedsBackingStore(z, e, w.shares) THEN i ELSE @]

(* An entry takes the memory of its share, or its part of the block; the   *)
(* first entry of a share gives its memory to it.                          *)
AssignEntry(w, z, i, lo, hi, data) ==
  LET e     == w.es[i]
      block == IF e.start >= lo /\ e.end <= hi THEN Beyond(data, e.start - lo) ELSE None
      share == IF e.share = None THEN None ELSE w.shares[e.share]
      p     == IF e.memory # None THEN e.memory ELSE IF share # None THEN share ELSE block
  IN  [w EXCEPT !.es[i].memory = p,
                !.shares = IF e.share # None /\ share = None THEN [@ EXCEPT ![e.share] = p] ELSE @,
                !.left = IF @ = 0 /\ p = None /\ NeedsBackingStore(z, e, w.shares) THEN i ELSE @]

block_assign_intersecting(w, z, lo, hi, data) ==
  FoldLeft(LAMBDA v, i : AssignEntry(v, z, i, lo, hi, data),
           [w EXCEPT !.left = 0], [i \in DOMAIN w.es |-> i])

(* The range of no address at all: only shares are looked at.              *)
AssignShares(w, z) == block_assign_intersecting(w, z, 2^AddrBits, 0, Place(None, 0))

Assigned(w) ==
  /\ entries' = [entries EXCEPT ![space] = w.es]
  /\ sharelist' = w.shares
  /\ unassigned' = w.left
  /\ IF w.left = 0 THEN Advance ELSE UNCHANGED <<stage, space>>
  /\ UNCHANGED <<banklist, table, installed>>

Block(lo, hi, p) == [space |-> space, start |-> lo, end |-> hi, data |-> p]

(* First the entries that have memory become blocks, the last one first.   *)
AllocateHardcoded ==
  LET es     == entries[space]
      having == Keep([i \in DOMAIN es |-> i], {i \in DOMAIN es : es[i].memory # None})
      blocks == [k \in DOMAIN having |->
                   LET e == es[having[Len(having) + 1 - k]] IN Block(e.start, e.end, e.memory)]
      w == FoldLeft(LAMBDA v, b : block_assign_intersecting(v, space, b.start, b.end, b.data),
                    [es |-> es, shares |-> sharelist, left |-> 0], blocks)
  IN  /\ stage = "allocate" /\ unassigned = 0
      /\ blocklist' = blocklist \o blocks
      /\ Assigned(IF w.left = 0 THEN AssignShares(w, space) ELSE w)

(* Mutant: no other entry is looked at.                                    *)
SpanOfOne(es) ==
  [lo |-> es[unassigned].start \div MEMORY_BLOCK_CHUNK, hi |-> es[unassigned].end \div MEMORY_BLOCK_CHUNK]

(* The chunks of the first unassigned entry and of the entries in or next  *)
(* to them, found in passes over the entries.  A block at chunk 0 takes in *)
(* no more: the number before its first chunk wraps around.                *)
Takes(c, e) ==
  /\ e.start \div MEMORY_BLOCK_CHUNK <= c.hi + 1
  /\ c.lo > 0 /\ e.end \div MEMORY_BLOCK_CHUNK >= c.lo - 1

Span(es) ==
  LET first == es[unassigned]
      wants(e) == e.memory = None /\ NeedsBackingStore(space, e, sharelist)
      take(c, e) == IF wants(e) /\ Takes(c, e)
                    THEN [lo |-> Min({c.lo, e.start \div MEMORY_BLOCK_CHUNK}),
                          hi |-> Max({c.hi, e.end \div MEMORY_BLOCK_CHUNK})]
                    ELSE c
  IN  FoldLeft(LAMBDA c, i : FoldLeft(take, c, es),
               [lo |-> first.start \div MEMORY_BLOCK_CHUNK, hi |-> first.end \div MEMORY_BLOCK_CHUNK],
               es)

AllocateBlock ==
  LET c    == Span(entries[space])
      lo   == c.lo * MEMORY_BLOCK_CHUNK
      hi   == (c.hi + 1) * MEMORY_BLOCK_CHUNK - 1
      data == Place(Len(blocklist) + 1, 0)
  IN  /\ stage = "allocate" /\ unassigned # 0
      /\ blocklist' = Append(blocklist, Block(lo, hi, data))
      /\ Assigned(block_assign_intersecting(
                    [es |-> entries[space], shares |-> sharelist, left |-> 0], space, lo, hi, data))

---------------------------------------------------------------------------------
(* locate_memory: the first entry with memory that starts where the bank   *)
(* does.  No entry of a bank is selected yet.                              *)
Located(z, bank) ==
  LET es   == entries[z]
      here == {i \in DOMAIN es : es[i].start = bank.start /\ es[i].memory # None}
  IN  IF bank.base = None /\ References(bank, z) /\ here # {}
      THEN [bank EXCEPT !.base = es[Min(here)].memory] ELSE bank

LocateMemory ==
  /\ stage = "locate"
  /\ banklist' = [n \in DOMAIN banklist |-> Located(space, banklist[n])]
  /\ Advance
  /\ UNCHANGED <<entries, sharelist, blocklist, unassigned, table, installed>>

---------------------------------------------------------------------------------
(* install_ram, install_rom and install_writeonly of the drivers, before   *)
(* the first reset: with memory of the caller, or with what is there, or   *)
(* with a new block.                                                       *)
Install(z, ds, e, given) ==
  LET put(u, d) == IF d \in ds /\ ~u.full THEN InstallRam(u, z, d, e, given) ELSE u
      u   == put(put(Current, "read"), "write")
      new == ~u.full /\ u.b[u.last].base = None
      p   == Place(Len(blocklist) + 1, 0)
  IN  /\ stage = "initialized" /\ Len(installed) < MaxInstalls
      /\ installed' = Append(installed, <<z, e>>)
      /\ banklist' = IF new THEN set_base(u, u.last, p).b ELSE u.b
      /\ table' = u.t
      /\ blocklist' = IF new THEN Append(blocklist, [space |-> z, start |-> e.start, end |-> e.end, data |-> p])
                             ELSE blocklist
      /\ stage' = IF u.full THEN "failed" ELSE stage
      /\ UNCHANGED <<space, entries, sharelist, unassigned>>

---------------------------------------------------------------------------------
Init ==
  /\ stage = "prepare" /\ space = 1
  /\ entries \in Maps
  /\ sharelist = << >> /\ blocklist = << >> /\ unassigned = 0 /\ banklist = << >>
  /\ table = [z \in Spaces |-> [d \in Directions |-> [x \in Addresses |-> 0]]]
  /\ installed = << >>

Next ==
  \/ PrepareMap \/ RegionError \/ PopulateFromMap \/ AllocateHardcoded \/ AllocateBlock \/ LocateMemory
  \/ \E z \in Spaces, ds \in {{"read"}, {"write"}, Directions}, e \in Installs,
        given \in {None, Place(Given, 0)} : Install(z, ds, e, given)

Spec == Init /\ [][Next]_vars
---------------------------------------------------------------------------------
(* Where an access ends up: the place behind an address, or None.          *)
Reach(z, d, x) ==
  LET bank == banklist[table[z][d][x]]
      h    == bank.handler[z][d]
  IN  IF table[z][d][x] = 0 \/ bank.base = None THEN None
      ELSE Beyond(bank.base, (x - h.start) % h.size)

Inside(p) ==
  CASE p.memory \in DOMAIN Regions   -> p.offset < Regions[p.memory]
  []   p.memory \in DOMAIN blocklist -> p.offset < Length(blocklist[p.memory])
  []   OTHER                         -> TRUE

(* No access leaves the block or the region the memory of its bank is in,  *)
(* with exceptions that no check of the code excludes.  An entry that      *)
(* starts where the bank does may be shorter: it is taken for the entry of *)
(* the bank (locate_memory).  Entries of a space that name one bank may be *)
(* longer than the range the bank was made for, or of another alignment:   *)
(* the handler is configured for the last of them.  And memory may be too  *)
(* short from the start: that of a share for an entry of another length,   *)
(* that of a region for an entry with a share, which may reach beyond it.  *)
ShorterEntryAt(bank) ==
  \E z \in Spaces : \E i \in DOMAIN entries[z] :
    entries[z][i].start = bank.start /\ entries[z][i].end < bank.end

Naming(z, tag) ==
  {e \in Range(entries[z]) : e.tag = tag /\ "BANK" \in {e.read, e.write}}

Misfits(z, bank) ==
  /\ bank.tag # None
  /\ \E e, f \in Naming(z, bank.tag) :
       \/ Length(e) > Length(bank)
       \/ \E x \in Copies(e) : (x - f.start) % RoundedUp(f) # Unmirrored(e, x) - e.start

OtherLength(e, f)  == e.share = f.share /\ Length(e) # Length(f)
BeyondRegion(e)    == e.region # None /\ e.offset + Length(e) > Regions[e.region]

TooShort(memory) ==
  \E z, y \in Spaces : \E e \in Range(entries[z]), f \in Range(entries[y]) :
    /\ e.share # None /\ e.memory # None /\ e.memory.memory = memory
    /\ OtherLength(e, f) \/ BeyondRegion(e)

AccessesStayInside ==
  \A z \in Spaces, d \in Directions, x \in Addresses :
    LET p    == Reach(z, d, x)
        bank == banklist[table[z][d][x]]
    IN  p # None =>
          Inside(p) \/ ShorterEntryAt(bank) \/ Misfits(z, bank) \/ TooShort(p.memory)

(* AM_RAM, AM_ROM: "memory is allocated to back each bucket", except for   *)
(* ROM that starts in the region of its device and ends beyond it, which   *)
(* gets neither the region nor a block (prepare_map, needs_backing_store). *)
Straddles(z, e) ==
  /\ z \in First /\ e.read = "ROM" /\ e.region = None /\ OwnRegion[z] # None
  /\ e.start < Regions[OwnRegion[z]] /\ e.end >= Regions[OwnRegion[z]]

Straddled(bank) ==
  \E z \in Spaces : \E i \in DOMAIN entries[z] :
    LET e == entries[z][i]
    IN  e.start = bank.start /\ e.end = bank.end /\ Straddles(z, e)

RamIsBacked ==
  stage = "initialized" =>
    \A n \in DOMAIN banklist :
      banklist[n].tag = None => banklist[n].base # None \/ Straddled(banklist[n])

(* AM_SHARE: "the first bucket to specify the share tag will use its       *)
(* memory as backing for all future buckets", in whatever space, unless a  *)
(* bucket has a region of its own.                                         *)
SharesAgree ==
  stage \in {"locate", "initialized"} =>
    \A z \in Spaces : \A i \in DOMAIN entries[z] :
      LET e == entries[z][i]
      IN  e.share # None /\ e.region = None =>
            e.memory = sharelist[e.share] /\ e.memory # None

(* RAM that is read at an address is what is written there, however the    *)
(* entries overlap: those that intersect have their memory in one block.   *)
(* Not so where an entry starts in the first chunk (allocate_memory), or   *)
(* where ROM without memory finds that of another entry (locate_memory).   *)
(* Nor can it be where x is a copy of one address for one entry and of     *)
(* another, or itself, for a second one.                                   *)
Plain(z) ==
  \A i \in DOMAIN entries[z] :
    LET e == entries[z][i]
    IN  /\ e.region = None /\ e.share = None /\ e.tag = None
        /\ e.start >= MEMORY_BLOCK_CHUNK /\ ~Straddles(z, e)

OneImage(z, x) ==
  \A e, f \in Range(entries[z]) :
    x \in Copies(e) \cap Copies(f) => Unmirrored(e, x) = Unmirrored(f, x)

WritesAreRead ==
  stage = "initialized" /\ installed = << >> =>
    \A z \in Spaces : Plain(z) =>
      \A x \in Addresses : \A d \in Directions : table[z][d][x] # 0 =>
        \/ Reach(z, "read", x) \in {None, Reach(z, "write", x)} \/ Reach(z, "write", x) = None
        \/ ~OneImage(z, x)

(* RAM installed by a driver changes what is behind the addresses it is    *)
(* installed at and their mirrors, and no other, although banks are looked *)
(* for among those that are there.  Only a bank without tag that is of the *)
(* very same range may have further copies, from a map or an install with  *)
(* other mirrors: they go where the bank goes (bank_find_anonymous).       *)
CopyOf(z, d, x, e) ==
  LET n == table[z][d][x]
  IN  /\ n # 0 /\ banklist[n].tag = None
      /\ banklist[n].start = e.start /\ banklist[n].end = e.end

InstallsStayInside ==
  [][installed' # installed =>
       LET at == Last(installed')
       IN  \A z \in Spaces, d \in Directions, x \in Addresses :
             \/ Reach(z, d, x)' = Reach(z, d, x)
             \/ z = at[1] /\ (x \in Copies(at[2]) \/ CopyOf(z, d, x, at[2]))]_vars
=================================================================================
