------------------------------ MODULE AddressTable ------------------------------
(***************************************************************************)
(* class address_table of source/emucore/memory/emumem.cpp: the two-level  *)
(* lookup table of one access direction (read, write or setoffset) of an   *)
(* address space, the subtables its level 1 entries share, and the         *)
(* reference-counted handler entries it hands out.                         *)
(*                                                                         *)
(* Entries are numbered as in the code: below STATIC_COUNT they are static *)
(* (banks, nop, unmapped, watchpoint), from STATIC_COUNT they are handlers *)
(* installed at run time, and from SUBTABLE_BASE a level 1 cell names a    *)
(* subtable.  The table is a record t, and an operator named after a       *)
(* member function is what that function makes of t.                       *)
(***************************************************************************)
EXTENDS AddressBits, SequencesExt

CONSTANTS
  LEVEL2_BITS,     \* address bits resolved by a subtable; 0 in a small table
  STATIC_COUNT,    \* first handler that is not static
  SUBTABLE_BASE,   \* first index of a subtable
  SUBTABLE_COUNT,  \* slots reserved for subtables
  STATIC_UNMAP,    \* the static entry of unmapped addresses
  STATIC_BANK1,    \* a static entry with a bank behind it
  CallRequests,    \* the ranges that are mapped, with their mirrors
  MaxCalls         \* bound: mapping calls made

STATIC_INVALID == 0

ASSUME AddressTableAssumption ==
  /\ LEVEL2_BITS \in 0 .. AddrBits
  /\ STATIC_COUNT \in Nat /\ SUBTABLE_BASE \in Nat /\ SUBTABLE_COUNT \in Nat
  /\ STATIC_BANK1 \in Nat /\ STATIC_UNMAP \in Nat
  /\ STATIC_INVALID < STATIC_BANK1 /\ STATIC_BANK1 < STATIC_UNMAP
  /\ STATIC_UNMAP < STATIC_COUNT /\ STATIC_COUNT < SUBTABLE_BASE
  /\ CallRequests \subseteq Requests
  /\ MaxCalls \in Nat

StaticMapped == {STATIC_BANK1, STATIC_UNMAP}
Static    == 0 .. (STATIC_COUNT - 1)
Dynamic   == STATIC_COUNT .. (SUBTABLE_BASE - 1)
Entries   == Static \cup Dynamic
Subtables == SUBTABLE_BASE .. (SUBTABLE_BASE + SUBTABLE_COUNT - 1)

L2Size  == 2^LEVEL2_BITS
L1Size  == 2^(AddrBits - LEVEL2_BITS)
L1Index == 0 .. (L1Size - 1)
L2Index == 0 .. (L2Size - 1)

level1_index(a) == a \div L2Size
level2_index(a) == a % L2Size

Interval(lo, hi) == [k \in 1 .. (hi - lo + 1) |-> lo + k - 1]

VARIABLES
  t,         \* the table
  calls      \* mapping calls made so far

vars == <<t, calls>>

(* Nothing more happens to a table once an exception was thrown.           *)
OK(u)         == u.error = "none"
Bind(u, F(_)) == IF OK(u) THEN F(u) ELSE u
Throw(u, why) == [u EXCEPT !.error = why]

lookup(u, a) ==
  LET entry == u.m_table[level1_index(a)]
  IN  IF entry \in Subtables THEN u.cells[entry][level2_index(a)] ELSE entry

---------------------------------------------------------------------------------
(* Reference counts of the handlers.  The free list is a stack.            *)

handler_ref(u, entry, count) ==
  IF entry \in Dynamic THEN [u EXCEPT !.handler_refcount[entry] = @ + count] ELSE u

(* Mutant: a handler that lost its last reference is not put back.         *)
LeakingUnref(u, entry) ==
  IF entry \notin Dynamic THEN u ELSE [u EXCEPT !.handler_refcount[entry] = @ - 1]

handler_unref(u, entry) ==
  IF entry \notin Dynamic THEN u
  ELSE [u EXCEPT
          !.handler_refcount[entry] = @ - 1,
          !.handler_free = IF u.handler_refcount[entry] = 1 THEN <<entry>> \o @ ELSE @]

---------------------------------------------------------------------------------
(* Subtables.                                                              *)

subtable_realloc(u, s) ==
  IF u.m_usecount[s] = 0
  THEN Throw(u, "Called subtable_realloc on a table with a usecount of 0")
  ELSE [u EXCEPT !.m_usecount[s] = @ + 1]

UnrefCell(s, w, c) == handler_unref(w, w.cells[s][c])

subtable_release(u, s) ==
  IF u.m_usecount[s] = 0
  THEN Throw(u, "Called subtable_release on a table with a usecount of 0")
  ELSE LET v == [u EXCEPT !.m_usecount[s] = @ - 1]
       IN  IF v.m_usecount[s] # 0 THEN v
           ELSE FoldLeft(LAMBDA w, c : UnrefCell(s, w, c),
                         [v EXCEPT !.m_checksum[s] = 0], Interval(0, L2Size - 1))

(* The checksum is taken over the first half of the cells (the loop counts *)
(* 32-bit words up to a quarter of the 16-bit cells).                      *)
Checksum(cells) ==
  FoldFunctionOnSet(LAMBDA x, y : x + y, 0, cells, 0 .. (2 * (L2Size \div 4) - 1))

UpdateChecksums(u) ==
  LET stale == {s \in Subtables : ~u.m_checksum_valid[s] /\ u.m_usecount[s] # 0}
  IN  [u EXCEPT
         !.m_checksum = [s \in Subtables |->
                           IF s \in stale THEN Checksum(u.cells[s]) ELSE @[s]],
         !.m_checksum_valid = [s \in Subtables |-> s \in stale \/ @[s]]]

Mergeable(u, s, d) ==
  /\ u.m_usecount[s] # 0 /\ u.m_usecount[d] # 0
  /\ u.m_checksum[s] = u.m_checksum[d]
  /\ u.cells[s] = u.cells[d]

(* Every level 1 cell that names d now names s.                            *)
RepointCell(s, d, v, i) ==
  IF v.m_table[i] # d THEN v
  ELSE [subtable_realloc(subtable_release(v, d), s) EXCEPT !.m_table[i] = s]

Repoint(u, s, d) ==
  FoldLeft(LAMBDA v, i : RepointCell(s, d, v, i), u, Interval(0, L1Size - 1))

(* The duplicates d of s, then of the next subtable, in ascending order.   *)
MergePair(s, w, d) == IF d > s /\ Mergeable(w, s, d) THEN Repoint(w, s, d) ELSE w

Slots == Interval(SUBTABLE_BASE, SUBTABLE_BASE + SUBTABLE_COUNT - 1)

MergeInto(v, s) == FoldLeft(LAMBDA w, d : MergePair(s, w, d), v, Slots)

(* Mutant: the neighbour of a subtable is never compared with it.          *)
MergeOffByOne(u) ==
  LET Into(v, s) == FoldLeft(LAMBDA w, d : IF d = s + 1 THEN w ELSE MergePair(s, w, d),
                             v, Slots)
  IN  FoldLeft(Into, UpdateChecksums(u), Slots)

subtable_merge(u) == FoldLeft(LAMBDA v, s : MergeInto(v, s), UpdateChecksums(u), Slots)

Unused(u) == {s \in Subtables : u.m_usecount[s] = 0}

(* Merging changes a level 1 cell or nothing; it is tried once, because a  *)
(* subtable that was merged away is unused.                                *)
PrepareAlloc(u) == IF Unused(u) # {} THEN u ELSE subtable_merge(u)

subtable_alloc(u) ==
  LET v == PrepareAlloc(u)
  IN  IF Unused(v) = {}
      THEN Throw(v, "Ran out of subtables!")
      ELSE [v EXCEPT !.m_usecount[Min(Unused(v))] = 1,
                     !.opened = Min(Unused(v))]

(* The subtable is written to: its checksum no longer holds.               *)
MarkDirty(u, s) == [u EXCEPT !.m_checksum_valid[s] = FALSE, !.opened = s]

(* The subtable just allocated, filled with the entry that the whole block *)
(* had: L2Size places instead of one.                                      *)
FillNew(u, i) ==
  LET s   == u.opened
      old == u.m_table[i]
  IN  [handler_ref(u, old, L2Size - 1) EXCEPT
         !.cells[s] = [c \in L2Index |-> old],
         !.m_table[i] = s,
         !.m_checksum[s] = old * (L2Size \div 4)]    \* subkey; never read, as it is dirty

(* A cell copied refers to its handler once more.                          *)
RefCell(row, v, c) == handler_ref(v, row[c], 1)

(* The subtable just allocated, made a copy of the one that i shares.      *)
CopyShared(u, i) ==
  LET s      == u.opened
      shared == u.m_table[i]
      refs   == FoldLeft(LAMBDA v, c : RefCell(u.cells[shared], v, c),
                         u, Interval(0, L2Size - 1))
  IN  [subtable_release([refs EXCEPT !.cells[s] = u.cells[shared]], shared) EXCEPT
         !.m_table[i] = s,
         !.m_checksum[s] = u.m_checksum[shared]]

(* A subtable for the level 1 cell i that no other cell shares.  A shared  *)
(* one is looked up again after the allocation, which may have moved it.   *)
subtable_open(u, i) ==
  LET old == u.m_table[i]
  IN  IF old \notin Subtables
      THEN Bind(subtable_alloc(u), LAMBDA v : MarkDirty(FillNew(v, i), v.opened))
      ELSE IF u.m_usecount[old] > 1
      THEN Bind(subtable_alloc(u), LAMBDA v : MarkDirty(CopyShared(v, i), v.opened))
      ELSE MarkDirty(u, old)

---------------------------------------------------------------------------------
(* Population.                                                             *)

FillCell(s, entry, w, c) ==
  [handler_unref(w, w.cells[s][c]) EXCEPT !.cells[s][c] = entry]

(* Cells lo..hi of the block of level 1 cell i get entry.                  *)
PopulateBlock(u, i, lo, hi, entry) ==
  LET Fill(v) == FoldLeft(LAMBDA w, c : FillCell(v.opened, entry, w, c),
                          handler_ref(v, entry, hi - lo + 1), Interval(lo, hi))
  IN  Bind(subtable_open(u, i), Fill)

(* Level 1 cell i gives up what it has.                                    *)
ReleaseCell(v, i) ==
  IF v.m_table[i] \in Subtables THEN subtable_release(v, v.m_table[i])
                                ELSE handler_unref(v, v.m_table[i])

FillBlock(entry, v, i) == [ReleaseCell(v, i) EXCEPT !.m_table[i] = entry]

(* Whole blocks first..last get entry; the subtables they had are released.*)
PopulateMiddle(u, first, last, entry) ==
  FoldLeft(LAMBDA v, i : FillBlock(entry, v, i),
           handler_ref(u, entry, last - first + 1), Interval(first, last))

populate_range(u, start, end, entry) ==
  LET l1start == level1_index(start)
      l2start == level2_index(start)
      l1stop  == level1_index(end)
      l2stop  == level2_index(end)
      l2mask  == L2Size - 1
      first   == IF l2start = 0 THEN l1start ELSE l1start + 1
      last    == IF l2stop = l2mask THEN l1stop ELSE l1stop - 1
      Leading(v)  == IF l2start = 0 THEN v
                     ELSE PopulateBlock(v, l1start, l2start, l2mask, entry)
      Trailing(v) == IF l2stop = l2mask THEN v
                     ELSE PopulateBlock(v, l1stop, 0, l2stop, entry)
      Middle(v)   == IF first > last THEN v ELSE PopulateMiddle(v, first, last, entry)
  IN  IF l2start # 0 /\ l1start = l1stop
      THEN PopulateBlock(u, l1start, l2start, l2stop, entry)
      ELSE Bind(Bind(Leading(u), Trailing), Middle)

LowBits(r)  == {k \in r.mirror : k < LEVEL2_BITS}
HighBits(r) == r.mirror \ LowBits(r)

(* The offset of a copy that mirror bits make: the n-th of the bits is set *)
(* where the count has bit n.                                              *)
MirrorBase(bits, count) ==
  ValueOf({b \in bits : Cardinality({k \in bits : k < b}) \in SetBits(count)})

Copies(bits) == Interval(0, 2^Cardinality(bits) - 1)

(* Level 1 cell cur held what cell prev held before prev was populated:    *)
(* it takes over what prev holds now.                                      *)
QuickMap(u, cur, prev) ==
  LET new == u.m_table[prev]
      v   == ReleaseCell(u, cur)
      w   == IF new \in Subtables THEN subtable_realloc(v, new) ELSE handler_ref(v, new, 1)
  IN  [w EXCEPT !.m_table[cur] = new]

PopulateCopy(r, start, end, entry, v, count) ==
  LET base == MirrorBase(LowBits(r), count)
  IN  Bind(v, LAMBDA x : populate_range(x, start + base, end + base, entry))

PopulateCopies(u, r, hbase, entry) ==
  FoldLeft(LAMBDA v, count : PopulateCopy(r, r.start + hbase, r.end + hbase, entry, v, count),
           u, Copies(LowBits(r)))

MirrorTo(r, entry, m, count) ==
  LET hbase  == MirrorBase(HighBits(r), count)
      cur    == level1_index(r.start + hbase)
      single == cur = level1_index(r.end + hbase)
      held   == m.u.m_table[cur]
  IN  IF ~OK(m.u) THEN m
      ELSE IF single /\ count # 0 /\ m.prev_entry = held
      THEN [m EXCEPT !.u = QuickMap(m.u, cur, m.prev_index)]
      ELSE [u          |-> PopulateCopies(m.u, r, hbase, entry),
            prev_entry |-> IF single THEN held ELSE m.prev_entry,
            prev_index |-> IF single THEN cur ELSE m.prev_index]

populate_range_mirrored(u, r, entry) ==
  FoldLeft(LAMBDA m, count : MirrorTo(r, entry, m, count),
           [u |-> u, prev_entry |-> STATIC_INVALID, prev_index |-> 0],
           Copies(HighBits(r))).u

(* Mutant: the handler stays on the free list.                             *)
PeekFreeHandler(u) ==
  IF u.handler_free = <<>>
  THEN Throw(u, "Out of handler entries in address table")
  ELSE u

get_free_handler(u) ==
  IF u.handler_free = <<>>
  THEN Throw(u, "Out of handler entries in address table")
  ELSE [u EXCEPT !.handler_free = Tail(@)]

---------------------------------------------------------------------------------
(* The calls the address space makes.  `opened' is the subtable that the   *)
(* last open returned: a local of the code, forgotten between the calls.   *)

Init ==
  /\ calls = 0
  /\ t = [m_table          |-> [i \in L1Index |-> STATIC_UNMAP],
          cells            |-> [s \in Subtables |-> [c \in L2Index |-> STATIC_INVALID]],
          m_usecount       |-> [s \in Subtables |-> 0],
          m_checksum       |-> [s \in Subtables |-> 0],
          m_checksum_valid |-> [s \in Subtables |-> FALSE],
          handler_refcount |-> [h \in Dynamic |-> 0],
          handler_free     |-> Interval(STATIC_COUNT, SUBTABLE_BASE - 1),
          opened           |-> 0,
          error            |-> "none"]

MapRange(u, r, entry) ==
  [populate_range_mirrored(u, OptimizeMirror(r), entry) EXCEPT !.opened = 0]

CanCall == OK(t) /\ calls < MaxCalls /\ calls' = calls + 1

(* unmap_generic, install_bank_generic: map a static entry.                *)
MapStatic(r, entry) ==
  /\ CanCall
  /\ t' = MapRange(t, r, entry)

(* install_read_handler and its kin with a handler of the full width.      *)
SetupRangeSolid(r) ==
  /\ CanCall
  /\ LET u == get_free_handler(t)
     IN  t' = Bind(u, LAMBDA v : MapRange(v, r, Head(t.handler_free)))

Next ==
  \E r \in CallRequests :
    \/ SetupRangeSolid(r)
    \/ \E entry \in StaticMapped : MapStatic(r, entry)

Spec == Init /\ [][Next]_vars

---------------------------------------------------------------------------------
InUse == {t.m_table[i] : i \in L1Index} \cap Subtables

(* The places of the table that hold entry h: level 1 cells, and cells of  *)
(* the subtables in use, a shared one counted once.                        *)
References(h) ==
  Cardinality({i \in L1Index : t.m_table[i] = h})
    + Cardinality({p \in InUse \X L2Index : t.cells[p[1]][p[2]] = h})

(* verify_reference_counts, which the code no longer calls: the reference  *)
(* count of every handler is the number of places that hold it.  A count   *)
(* too low frees a handler that addresses still reach; one too high leaks. *)
RefcountsExact ==
  \A h \in Dynamic : t.handler_refcount[h] = References(h)

(* The use count of a subtable is the number of level 1 cells that name it,*)
(* so that a shared subtable is copied before it is written and a subtable *)
(* is reused only when nobody can reach it.                                *)
UsecountsExact ==
  \A s \in Subtables :
    t.m_usecount[s] = Cardinality({i \in L1Index : t.m_table[i] = s})

(* Between two calls every handler is either free, once, or mapped: none   *)
(* is handed out twice and none is lost.                                   *)
FreeListExact ==
  /\ \A i, j \in DOMAIN t.handler_free :
       t.handler_free[i] = t.handler_free[j] => i = j
  /\ OK(t) => {t.handler_free[i] : i \in DOMAIN t.handler_free}
                = {h \in Dynamic : References(h) = 0}

(* Whatever is shared, copied, merged or runs out, the counts say who is   *)
(* still reached from where.                                               *)
CountsExact == RefcountsExact /\ UsecountsExact /\ FreeListExact

(* "Ran out of subtables!" is only ever said of a table whose subtables    *)
(* are all in use and pairwise different: merging missed none.             *)
ExhaustionGenuine ==
  t.error = "Ran out of subtables!" =>
    /\ InUse = Subtables
    /\ \A s, d \in Subtables : t.cells[s] = t.cells[d] => s = d

(* The table implements the map: every lookup, after every call, is what   *)
(* the calls asked for.                                                    *)
Regions == {Selected(r) : r \in CallRequests}

Map == INSTANCE AddressMap WITH
  Regions        <- Regions,
  StaticEntries  <- StaticMapped,
  DynamicEntries <- Dynamic,
  UnmappedEntry  <- STATIC_UNMAP,
  mapping        <- [x \in Addresses |-> lookup(t, x)],
  failed         <- CASE OK(t) -> "no"
                    []   t.error = "Out of handler entries in address table" -> "out of handlers"
                    []   OTHER -> "interrupted"

ImplementsMap == Map!MapSpec

=================================================================================
