------------------------------- MODULE DirectRead -------------------------------
(***************************************************************************)
(* Opcode fetches: direct_read_data, the memory banks, and the calls of    *)
(* address_space that invalidate what direct_read_data caches              *)
(* (source/emucore/memory/emumem.cpp, direct_read_data.h, memory_bank.h).  *)
(*                                                                         *)
(* A CPU fetches through a window: a range of addresses and a pointer to   *)
(* the memory behind them, valid until force_update empties it.  Behind    *)
(* the window there is, for every entry, a list of ranges computed before. *)
(* Both are caches of the read table (here the flat map that AddressTable  *)
(* implements) and of the base pointers of the banks.  A pointer stands    *)
(* for the memory it leads to: the offset that is subtracted from it when  *)
(* the window opens is left out, and so are the ranges cached for entries  *)
(* that are not banks, whose window is always empty, and the order in      *)
(* which the ranges of an entry are searched.                              *)
(***************************************************************************)
EXTENDS AddressBits

CONSTANTS
  LEVEL2_BITS,      \* a block of the table has 2^LEVEL2_BITS addresses
  Spaces, Banks,    \* address spaces; named memory banks
  Other,            \* every entry that is not a bank: unmapped, nop, handlers
  Pointers, NULL,   \* what a bank base points to
  Slots,            \* entry numbers of a bank, from 0
  Unspecified,      \* BANK_ENTRY_UNSPECIFIED
  CallRequests,     \* space -> the ranges that are mapped, with their mirrors
  PointerSpaces,    \* spaces where banks are installed by pointer
  NarrowSpaces      \* spaces where handlers narrower than the bus are installed

ASSUME DirectReadAssumption ==
  /\ LEVEL2_BITS \in Nat
  /\ Other \notin Banks /\ NULL \notin Pointers /\ Unspecified \notin Slots
  /\ Slots \subseteq Nat
  /\ CallRequests \in [Spaces -> SUBSET Requests]
  /\ PointerSpaces \subseteq Spaces /\ NarrowSpaces \subseteq Spaces

VARIABLES
  map,        \* space -> address -> entry of the read table
  conf,       \* space -> bank -> range the bank's handler entry was configured with
  window,     \* space -> the live window (m_addrstart, m_addrend, m_entry, m_ptr)
  ranges,     \* space -> bank -> ranges of m_rangelist
  base,       \* bank -> *m_baseptr
  slots,      \* bank -> entry number -> pointer (m_entry)
  curentry,   \* bank -> m_curentry
  refs        \* bank -> spaces of m_reflist

mapVars  == <<map, conf>>
bankVars == <<base, slots, curentry, refs>>
readVars     == <<map, conf, window, ranges, base, slots, curentry, refs>>

ReadEntries  == Banks \cup {Other}
Ranges   == {[start |-> lo, end |-> hi] : lo, hi \in Addresses}

Windows  == [start : Nat, end : Nat, entry : ReadEntries, ptr : Pointers \cup {NULL}]

Closed(w)    == [w EXCEPT !.start = 1, !.end = 0]
InWindow(w)  == w.start .. w.end

---------------------------------------------------------------------------------
(* Ranges of equal entries.                                                *)

L2Size == 2^LEVEL2_BITS

(* The extent of the copy of range c that address a is in.  An address     *)
(* below the start makes the difference wrap around: above every address.  *)
MirroredStart(c, a) ==
  IF a < c.start THEN 2^AddrBits
  ELSE ValueOf(SetBits(c.start) \cup (SetBits(a - c.start) \ c.mask))
MirroredEnd(c, a) ==
  IF a < c.start THEN 2^AddrBits
  ELSE ValueOf(SetBits(c.end) \cup (SetBits(a - c.start) \ c.mask))

(* Mutant: the cell under the scan is compared, not the one ahead of it.   *)
ScanPast(m, c, a) ==
  {x \in a .. (2^AddrBits - 1) : \A y \in a .. (x - 1) : m[y] = m[a]}

(* The scan from a stops where the entry changes, and at the first edge of *)
(* a block at or beyond the extent of the copy.                            *)
ScanBack(m, c, a) ==
  {x \in 0 .. a :
    /\ \A y \in x .. a : m[y] = m[a]
    /\ \A y \in (x + 1) .. a : y % L2Size = 0 => y > MirroredStart(c, a)}

ScanAhead(m, c, a) ==
  {x \in a .. (2^AddrBits - 1) :
    /\ \A y \in a .. x : m[y] = m[a]
    /\ \A y \in a .. (x - 1) : (y + 1) % L2Size = 0 => y < MirroredEnd(c, a)}

derive_range(m, c, a) ==
  [start |-> Min(ScanBack(m, c, a)), end |-> Max(ScanAhead(m, c, a))]

Intersects(g, lo, hi) == lo <= g.end /\ hi >= g.start

(* The offsets of the copies a mirror makes.                               *)
Copies(r) == {k \in Addresses : SetBits(k) \subseteq r.mirror}

(* remove_intersecting_ranges, once for every copy.                        *)
Unmirrored(r, g) == ~Intersects(g, r.start, r.end)    \* mutant: no copies

Untouched(r, g) ==
  \A k \in Copies(r) : ~Intersects(g, r.start + k, r.end + k)
RemoveIntersecting(rl, r) ==
  [b \in Banks |-> {g \in rl[b] : Untouched(r, g)}]

---------------------------------------------------------------------------------
(* Mapping.                                                                *)

(* The addresses a call maps: start..end and its copies.                   *)
Region(r) == UNION {(r.start + k) .. (r.end + k) : k \in Copies(r)}

PopulateFlat(s, r, e) ==
  map' = [map EXCEPT ![s] = [x \in Addresses |-> IF x \in Region(r) THEN e ELSE @[x]]]

(* force_update(entry) is a match on the live entry only.                  *)
InvalidateCaches(s, r, e) ==
  /\ ranges' = [ranges EXCEPT ![s] = RemoveIntersecting(@, r)]
  /\ window' = [window EXCEPT ![s] = IF @.entry = e THEN Closed(@) ELSE @]

Configure(s, r, b) ==
  conf' = [conf EXCEPT ![s][b] =
             LET o == OptimizeMirror(r)
             IN  [start |-> o.start, end |-> o.end,
                  mask |-> ChangingBits(r.start, r.end)]]

MapBank(s, r, b) ==
  /\ PopulateFlat(s, OptimizeMirror(r), b)
  /\ Configure(s, r, b)
  /\ InvalidateCaches(s, OptimizeMirror(r), b)
  /\ UNCHANGED <<base, slots, curentry>>

(* install_bank_generic with a tag: bank_find_or_allocate adds a reference.*)
InstallBankTag(s, r, b) ==
  /\ MapBank(s, r, b)
  /\ refs' = [refs EXCEPT ![b] = @ \cup {s}]

(* install_bank_generic with a memory_bank pointer.                        *)
InstallBankPointer(s, r, b) ==
  /\ s \in PointerSpaces
  /\ MapBank(s, r, b)
  /\ UNCHANGED refs

(* The write side of a bank: the write table is another one, but its       *)
(* map_range invalidates the read caches of the space just the same.       *)
InstallBankWrite(s, r, b) ==
  /\ InvalidateCaches(s, OptimizeMirror(r), b)
  /\ refs' = [refs EXCEPT ![b] = @ \cup {s}]
  /\ UNCHANGED <<map, conf, base, slots, curentry>>

(* unmap_generic, or a handler of the full width.                          *)
MapOther(s, r) ==
  /\ PopulateFlat(s, OptimizeMirror(r), Other)
  /\ InvalidateCaches(s, OptimizeMirror(r), Other)
  /\ UNCHANGED <<conf, base, slots, curentry, refs>>

(* A handler narrower than the bus over more than one range: the new       *)
(* handlers are populated directly, and their numbers are not the live one.*)
InstallMasked(s, r) ==
  /\ s \in NarrowSpaces
  /\ LET o == OptimizeMirror(r)
         first == map[s][o.start]
     IN  /\ first \in Banks =>
              derive_range(map[s], conf[s][first], o.start).end
                < ValueOf(SetBits(o.end) \cup o.mirror)
         /\ PopulateFlat(s, o, Other)
  /\ UNCHANGED <<conf, window, ranges, base, slots, curentry, refs>>

---------------------------------------------------------------------------------
(* Banks.                                                                  *)

Flush(bs) ==
  window' = [s \in Spaces |-> IF \E b \in bs : s \in refs[b] THEN Closed(window[s])
                                                             ELSE window[s]]

set_base(b, p) ==
  /\ base' = [base EXCEPT ![b] = p]
  /\ Flush({b})
  /\ UNCHANGED <<map, conf, ranges, slots, curentry, refs>>

(* Mutant: the spaces that refer to the bank are not told.                 *)
SelectSilently(b, n) ==
  /\ slots[b][n] # NULL
  /\ curentry' = [curentry EXCEPT ![b] = n]
  /\ base' = [base EXCEPT ![b] = slots[b][n]]
  /\ UNCHANGED <<map, conf, window, ranges, slots, refs>>

set_entry(b, n) ==
  /\ slots[b][n] # NULL
  /\ curentry' = [curentry EXCEPT ![b] = n]
  /\ base' = [base EXCEPT ![b] = slots[b][n]]
  /\ Flush({b})
  /\ UNCHANGED <<map, conf, ranges, slots, refs>>

configure_entry(b, n, p) ==
  /\ slots' = [slots EXCEPT ![b][n] = p]
  /\ base' = [base EXCEPT ![b] = IF @ = NULL /\ n = 0 THEN p ELSE @]
  /\ UNCHANGED <<map, conf, window, ranges, curentry, refs>>

(* A state load overwrites m_curentry; bank_reattach, called after it,     *)
(* selects the loaded entries again.                                       *)
Reattached(b, loaded) ==
  IF loaded[b] = Unspecified THEN base[b] ELSE slots[b][loaded[b]]

bank_reattach(loaded) ==
  /\ \A b \in Banks : loaded[b] # Unspecified => slots[b][loaded[b]] # NULL
  /\ curentry' = loaded
  /\ base' = [b \in Banks |-> Reattached(b, loaded)]
  /\ Flush({b \in Banks : loaded[b] # Unspecified})
  /\ UNCHANGED <<map, conf, ranges, slots, refs>>

---------------------------------------------------------------------------------
(* Fetches.                                                                *)

Covering(rl, a) == {g \in rl : g.start <= a /\ a <= g.end}

(* A cached range of the entry at a, or a new one.                         *)
find_range(s, b, a) ==
  LET hits == Covering(ranges[s][b], a)
  IN  IF hits # {} THEN hits ELSE {derive_range(map[s], conf[s][b], a)}

OpenWindow(s, b, a) ==
  \E g \in find_range(s, b, a) :
    /\ ranges' = [ranges EXCEPT ![s][b] = @ \cup {g}]
    /\ window' = [window EXCEPT ![s] = [start |-> g.start, end |-> g.end,
                                       entry |-> b, ptr |-> base[b]]]

set_direct_region(s, a) ==
  \/ /\ map[s][a] \in Banks
     /\ OpenWindow(s, map[s][a], a)
  \/ /\ map[s][a] \notin Banks
     /\ window' = [window EXCEPT ![s] = Closed([@ EXCEPT !.entry = map[s][a]])]
     /\ UNCHANGED ranges

(* read_byte and its kin; inside the window nothing changes.               *)
Fetch(s, a) ==
  /\ a \notin InWindow(window[s])
  /\ set_direct_region(s, a)
  /\ UNCHANGED <<map, conf, base, slots, curentry, refs>>

---------------------------------------------------------------------------------
ReadInit ==
  /\ map      = [s \in Spaces |-> [x \in Addresses |-> Other]]
  /\ conf     = [s \in Spaces |-> [b \in Banks |-> [start |-> 0, end |-> 0, mask |-> Bits]]]
  /\ window   = [s \in Spaces |-> [start |-> 1, end |-> 0, entry |-> Other, ptr |-> NULL]]
  /\ ranges   = [s \in Spaces |-> [b \in Banks |-> {}]]
  /\ base     = [b \in Banks |-> NULL]
  /\ slots    = [b \in Banks |-> [n \in Slots |-> NULL]]
  /\ curentry = [b \in Banks |-> Unspecified]
  /\ refs     = [b \in Banks |-> {}]

Mapping(s) ==
  \E r \in CallRequests[s] :
    \/ MapOther(s, r)
    \/ InstallMasked(s, r)
    \/ \E b \in Banks : \/ InstallBankTag(s, r, b)
                        \/ InstallBankPointer(s, r, b)
                        \/ InstallBankWrite(s, r, b)

Banking ==
  \/ \E b \in Banks :
       \/ \E p \in Pointers : set_base(b, p)
       \/ \E n \in Slots : set_entry(b, n)
       \/ \E n \in Slots, p \in Pointers : configure_entry(b, n, p)
  \/ \E loaded \in [Banks -> Slots \cup {Unspecified}] : bank_reattach(loaded)

ReadNext ==
  \/ Banking
  \/ \E s \in Spaces : Mapping(s) \/ \E a \in Addresses : Fetch(s, a)

ReadSpec == ReadInit /\ [][ReadNext]_readVars

---------------------------------------------------------------------------------
TypeOK ==
  /\ map \in [Spaces -> [Addresses -> ReadEntries]]
  /\ window \in [Spaces -> Windows]
  /\ ranges \in [Spaces -> [Banks -> SUBSET Ranges]]
  /\ base \in [Banks -> Pointers \cup {NULL}]
  /\ slots \in [Banks -> [Slots -> Pointers \cup {NULL}]]
  /\ curentry \in [Banks -> Slots \cup {Unspecified}]
  /\ refs \in [Banks -> SUBSET Spaces]

(* A fetch inside a live window reads through its pointer unasked.         *)
Live(s)     == InWindow(window[s]) # {}
Truthful(s) == \A x \in InWindow(window[s]) : map[s][x] = window[s].entry

(* A fetch never reads through the pointer a bank had before it was        *)
(* switched: a live window of a space that refers to its bank holds the    *)
(* bank's base (or none: the bank had no memory yet when it was opened).   *)
NoStaleBase ==
  \A s \in Spaces :
    LET w == window[s]
    IN  (Live(s) /\ s \in refs[w.entry]) => w.ptr \in {base[w.entry], NULL}

(* A space whose handlers all have the full width of the bus: every cached *)
(* range still maps to the bank it is cached for, whatever was mapped      *)
(* since: mapping over a part of it removed it (populate_range_mirrored).  *)
WideSpaces == Spaces \ NarrowSpaces

CachedRangesTruthful ==
  \A s \in WideSpaces, b \in Banks :
    \A g \in ranges[s][b] : \A x \in g.start .. g.end : map[s][x] = b

(* There a window only goes wrong by a change of the map: fetching,        *)
(* switching banks and reloading them never open one that reaches beyond   *)
(* its bank (set_direct_region).                                           *)
WindowGoesWrongOnlyByMapping ==
  [][\A s \in WideSpaces : Truthful(s) /\ map'[s] = map[s] => Truthful(s)']_readVars

================================================================================
