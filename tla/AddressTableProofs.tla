--------------------------- MODULE AddressTableProofs ---------------------------
(***************************************************************************)
(* What holds of an address table of any size.  First what a call leaves   *)
(* in order: the counts of references and of users of the subtables, the   *)
(* free list and the checksums that merging relies on.  Then what it maps: *)
(* the cells of every copy that its mirror bits ask for, among them those  *)
(* mapped the quick way, by naming the subtable of an earlier copy.  Both  *)
(* go through the calls from the innermost loop outwards, and give the     *)
(* table's invariants and its refinement of AddressMap at the end.         *)
(***************************************************************************)
EXTENDS AddressTable, ExtremeLemmas

--------------------------------------------------------------------------------
(* What is counted: the level 1 cells that hold x, the cells of subtables  *)
(* in use that do, and those of one row of cells.                          *)
Level1(T, x)    == Cardinality({i \in L1Index : T[i] = x})
Level2(U, C, x) == Cardinality({p \in Subtables \X L2Index : U[p[1]] # 0 /\ C[p[1]][p[2]] = x})
InRow(R, x)     == Cardinality({c \in L2Index : R[c] = x})

Fields == {"m_table", "cells", "m_usecount", "m_checksum", "m_checksum_valid",
           "handler_refcount", "handler_free", "opened", "error"}

Typed(u) ==
  /\ DOMAIN u = Fields
  /\ u.m_table \in [L1Index -> Entries \cup Subtables]
  /\ u.cells \in [Subtables -> [L2Index -> Entries]]
  /\ u.m_usecount \in [Subtables -> Nat]
  /\ DOMAIN u.m_checksum = Subtables
  /\ u.m_checksum_valid \in [Subtables -> BOOLEAN]
  /\ u.handler_refcount \in [Dynamic -> Nat]
  /\ u.handler_free \in Seq(Dynamic)

(* The references a handler has beyond the places that hold it, and the    *)
(* users a subtable has beyond the level 1 cells that name it.             *)
Owed(u, h) ==
  u.handler_refcount[h] - Level1(u.m_table, h) - Level2(u.m_usecount, u.cells, h)
Claimed(u, s) == u.m_usecount[s] - Level1(u.m_table, s)

IsFree(u, h) == \E i \in DOMAIN u.handler_free : u.handler_free[i] = h

(* Every handler without references is on the free list, once, but for     *)
(* those in X, which were taken for a call and have none yet.              *)
FreeKept(u, X) ==
  /\ \A i, j \in DOMAIN u.handler_free : u.handler_free[i] = u.handler_free[j] => i = j
  /\ \A h \in Dynamic : IsFree(u, h) <=> u.handler_refcount[h] = 0 /\ h \notin X
  /\ \A h \in Dynamic : h \in X => u.handler_refcount[h] = 0

ChecksumsHold(u) ==
  \A s \in Subtables : u.m_checksum_valid[s] /\ u.m_usecount[s] # 0 =>
    u.m_checksum[s] = Checksum(u.cells[s])

(* The books balance, but that e is owed n places it was counted for.      *)
Books(u, X, e, n) ==
  /\ Typed(u) /\ FreeKept(u, X) /\ ChecksumsHold(u)
  /\ \A h \in Dynamic : Owed(u, h) = IF h = e THEN n ELSE 0
  /\ \A s \in Subtables : Claimed(u, s) = 0

Kept(u, X) == Books(u, X, STATIC_INVALID, 0)

(* What an address finds: cell c of the block of level 1 cell i.           *)
Cell(u, i, c) == IF u.m_table[i] \in Subtables THEN u.cells[u.m_table[i]][c] ELSE u.m_table[i]

(* Everything but the handlers' counts and the free list is as it was.     *)
Unmoved(u, w) ==
  /\ w.m_table = u.m_table /\ w.cells = u.cells /\ w.m_usecount = u.m_usecount
  /\ w.m_checksum = u.m_checksum /\ w.m_checksum_valid = u.m_checksum_valid
  /\ w.opened = u.opened /\ w.error = u.error

Hit(x, y) == IF x = y THEN 1 ELSE 0

--------------------------------------------------------------------------------
(* Numbers of the table.                                                   *)
LEMMA Numbers ==
  /\ STATIC_COUNT \in Nat /\ SUBTABLE_BASE \in Nat /\ SUBTABLE_COUNT \in Nat
  /\ STATIC_UNMAP \in Entries \ Dynamic /\ STATIC_BANK1 \in Entries \ Dynamic
  /\ 0 \in Entries \ Dynamic
  /\ Entries \cap Subtables = {}
  /\ Dynamic \subseteq Entries
<1>1. /\ STATIC_COUNT \in Nat /\ SUBTABLE_BASE \in Nat /\ SUBTABLE_COUNT \in Nat
      /\ 0 < STATIC_BANK1 /\ STATIC_BANK1 < STATIC_UNMAP
      /\ STATIC_UNMAP < STATIC_COUNT /\ STATIC_COUNT < SUBTABLE_BASE
  BY AddressTableAssumption DEF STATIC_INVALID
<1>2. STATIC_UNMAP \in Nat /\ STATIC_BANK1 \in Nat
  BY AddressTableAssumption DEF STATIC_INVALID
<1>3. QED BY <1>1, <1>2 DEF Entries, Static, Dynamic, Subtables

(* A handler put at the head of the free list is there once more and moves *)
(* the others up by one.                                                   *)
LEMMA FreeGrows ==
  ASSUME NEW q \in Seq(Dynamic), NEW e \in Dynamic
  PROVE  LET r == <<e>> \o q
         IN  /\ r \in Seq(Dynamic) /\ Len(r) = Len(q) + 1 /\ r[1] = e
             /\ \A i \in 1 .. Len(q) : r[i + 1] = q[i]
             /\ DOMAIN r = 1 .. (Len(q) + 1) /\ DOMAIN q = 1 .. Len(q)
OBVIOUS

(* More references for a handler that is not free.                         *)
LEMMA RefIs ==
  ASSUME NEW u, NEW X, Typed(u), FreeKept(u, X), NEW e \in Entries, NEW n \in Nat,
         n = 0 \/ ~IsFree(u, e)
  PROVE  LET w == handler_ref(u, e, n)
         IN  /\ Typed(w) /\ Unmoved(u, w) /\ w.handler_free = u.handler_free
             /\ (n = 0 => FreeKept(w, X)) /\ (n # 0 => FreeKept(w, X \ {e}))
             /\ \A h \in Dynamic : w.handler_refcount[h] =
                                     u.handler_refcount[h] + (IF h = e THEN n ELSE 0)
<1> DEFINE w == handler_ref(u, e, n)
<1>1. CASE e \notin Dynamic
  <2>1. w = u
    BY <1>1 DEF handler_ref
  <2>2. \A h \in Dynamic : h # e /\ u.handler_refcount[h] \in Nat
    BY <1>1 DEF Typed
  <2>3. (n = 0 => FreeKept(w, X)) /\ (n # 0 => FreeKept(w, X \ {e}))
    BY <2>1, <2>2 DEF FreeKept
  <2>4. QED BY <2>1, <2>2, <2>3 DEF Unmoved
<1>2. CASE e \in Dynamic
  <2>1. w = [u EXCEPT !.handler_refcount[e] = @ + n]
    BY <1>2 DEF handler_ref
  <2>2. /\ DOMAIN w = Fields /\ Unmoved(u, w) /\ w.handler_free = u.handler_free
        /\ w.handler_refcount = [u.handler_refcount EXCEPT ![e] = @ + n]
    BY <2>1 DEF Typed, Fields, Unmoved
  <2> HIDE DEF w
  <2>3. /\ w.handler_refcount \in [Dynamic -> Nat]
        /\ \A h \in Dynamic : w.handler_refcount[h] =
                                u.handler_refcount[h] + (IF h = e THEN n ELSE 0)
    BY <1>2, <2>2 DEF Typed
  <2>4. Typed(w)
    BY <2>2, <2>3 DEF Typed, Unmoved
  <2>5. (n = 0 => FreeKept(w, X)) /\ (n # 0 => FreeKept(w, X \ {e}))
    <3>1. \A h \in Dynamic : IsFree(w, h) <=> IsFree(u, h)
      BY <2>2 DEF IsFree
    <3>2. \A h \in Dynamic : u.handler_refcount[h] \in Nat
      BY DEF Typed
    <3>3. QED BY <1>2, <2>2, <2>3, <3>1, <3>2 DEF FreeKept
  <2>6. QED BY <2>2, <2>3, <2>4, <2>5 DEF w
<1>3. QED BY <1>1, <1>2

(* One reference less for a handler that has one.                          *)
LEMMA UnrefIs ==
  ASSUME NEW u, NEW X, Typed(u), FreeKept(u, X), NEW e \in Entries,
         e \in Dynamic => u.handler_refcount[e] # 0
  PROVE  LET w == handler_unref(u, e)
         IN  /\ Typed(w) /\ Unmoved(u, w) /\ FreeKept(w, X)
             /\ \A h \in Dynamic : w.handler_refcount[h] = u.handler_refcount[h] - Hit(h, e)
<1> DEFINE w == handler_unref(u, e)
<1>1. CASE e \notin Dynamic
  <2>1. w = u
    BY <1>1 DEF handler_unref
  <2>2. \A h \in Dynamic : h # e /\ u.handler_refcount[h] \in Nat
    BY <1>1 DEF Typed
  <2>3. QED BY <2>1, <2>2 DEF Unmoved, Hit
<1>2. CASE e \in Dynamic
  <2> DEFINE last == u.handler_refcount[e] = 1
             q == IF last THEN <<e>> \o u.handler_free ELSE u.handler_free
  <2>1. w = [u EXCEPT !.handler_refcount[e] = @ - 1, !.handler_free = q]
    BY <1>2 DEF handler_unref
  <2>2. /\ DOMAIN w = Fields /\ Unmoved(u, w) /\ w.handler_free = q
        /\ w.handler_refcount = [u.handler_refcount EXCEPT ![e] = @ - 1]
    <3> HIDE DEF q
    <3>1. QED BY <2>1 DEF Typed, Fields, Unmoved
  <2> HIDE DEF w
  <2>3. /\ w.handler_refcount \in [Dynamic -> Nat]
        /\ \A h \in Dynamic : w.handler_refcount[h] = u.handler_refcount[h] - Hit(h, e)
    <3>1. u.handler_refcount[e] \in Nat \ {0}
      BY <1>2 DEF Typed
    <3>2. QED BY <1>2, <2>2, <3>1 DEF Typed, Hit
  <2>4. Typed(w)
    <3>1. q \in Seq(Dynamic)
      BY <1>2, FreeGrows DEF Typed
    <3>2. QED BY <2>2, <2>3, <3>1 DEF Typed, Unmoved
  <2>5. FreeKept(w, X)
    <3>1. CASE ~last
      <4>1. \A h \in Dynamic : IsFree(w, h) <=> IsFree(u, h)
        BY <2>2, <3>1 DEF IsFree
      <4>2. \A h \in Dynamic : u.handler_refcount[h] \in Nat
        BY DEF Typed
      <4>3. w.handler_free = u.handler_free
        BY <2>2, <3>1
      <4>4. QED BY <1>2, <2>3, <3>1, <4>1, <4>2, <4>3 DEF FreeKept, Hit
    <3>2. CASE last
      <4>1. /\ u.handler_free \in Seq(Dynamic)
            /\ w.handler_free = <<e>> \o u.handler_free
        BY <2>2, <3>2 DEF Typed
      <4> DEFINE f == u.handler_free
                 g == w.handler_free
      <4>2. /\ g[1] = e /\ DOMAIN g = 1 .. (Len(f) + 1) /\ DOMAIN f = 1 .. Len(f)
            /\ \A i \in 1 .. Len(f) : g[i + 1] = f[i]
            /\ Len(f) \in Nat
        BY <1>2, <4>1, FreeGrows
      <4> HIDE DEF f, g
      <4>3. \A i \in DOMAIN g : i = 1 \/ (i - 1 \in DOMAIN f /\ g[i] = f[i - 1])
        <5>1. ASSUME NEW i \in DOMAIN g, i # 1 PROVE i - 1 \in DOMAIN f /\ g[i] = f[i - 1]
          <6>1. i - 1 \in 1 .. Len(f) /\ (i - 1) + 1 = i
            BY <4>2, <5>1
          <6>2. QED BY <4>2, <6>1
        <5>2. QED BY <5>1
      <4>4. \A h \in Dynamic : IsFree(w, h) <=> h = e \/ IsFree(u, h)
        <5>1. \A h : (\E i \in DOMAIN f : f[i] = h) => \E i \in DOMAIN g : g[i] = h
          <6>1. \A i \in DOMAIN f : i + 1 \in DOMAIN g /\ g[i + 1] = f[i]
            BY <4>2
          <6>2. QED BY <6>1
        <5>2. 1 \in DOMAIN g /\ g[1] = e
          BY <4>2
        <5>3. QED BY <4>3, <5>1, <5>2 DEF IsFree, f, g
      <4>5. ~IsFree(u, e)
        BY <1>2, <3>2 DEF FreeKept
      <4>6. \A i, j \in DOMAIN g : g[i] = g[j] => i = j
        <5>1. SUFFICES ASSUME NEW i \in DOMAIN g, NEW j \in DOMAIN g, g[i] = g[j] PROVE i = j
          OBVIOUS
        <5>2. \A k \in DOMAIN f : f[k] # e
          BY <4>5 DEF IsFree, f
        <5>3. CASE i = 1 /\ j # 1
          BY <4>2, <4>3, <5>1, <5>2, <5>3
        <5>4. CASE i # 1 /\ j = 1
          BY <4>2, <4>3, <5>1, <5>2, <5>4
        <5>5. CASE i # 1 /\ j # 1
          <6>1. f[i - 1] = f[j - 1] /\ i - 1 \in DOMAIN f /\ j - 1 \in DOMAIN f
            BY <4>3, <5>1, <5>5
          <6>2. i - 1 = j - 1
            BY <6>1 DEF FreeKept, f
          <6>3. QED BY <4>2, <6>2
        <5>6. QED BY <5>3, <5>4, <5>5
      <4>7. \A h \in Dynamic : u.handler_refcount[h] \in Nat
        BY DEF Typed
      <4>8. e \notin X
        BY <1>2, <3>2 DEF FreeKept
      <4>9. \A h \in Dynamic : w.handler_refcount[h] = IF h = e THEN 0 ELSE u.handler_refcount[h]
        BY <2>3, <3>2, <4>7 DEF Hit
      <4>10. \A h \in Dynamic : IsFree(w, h) <=> w.handler_refcount[h] = 0 /\ h \notin X
        BY <4>4, <4>8, <4>9 DEF FreeKept
      <4>11. \A h \in Dynamic : h \in X => w.handler_refcount[h] = 0
        BY <4>9 DEF FreeKept
      <4>12. QED BY <4>6, <4>10, <4>11 DEF FreeKept, g
    <3>3. QED BY <3>1, <3>2
  <2>6. QED BY <2>2, <2>3, <2>4, <2>5 DEF w
<1>3. QED BY <1>1, <1>2

--------------------------------------------------------------------------------
(* Counting.                                                               *)
LEMMA Sizes ==
  /\ L1Size \in Nat \ {0} /\ L2Size \in Nat \ {0}
  /\ IsFiniteSet(L1Index) /\ IsFiniteSet(L2Index) /\ IsFiniteSet(Subtables)
  /\ IsFiniteSet(Subtables \X L2Index)
  /\ Cardinality(L2Index) = L2Size
<1>1. AddrBits \in Nat /\ LEVEL2_BITS \in Nat /\ AddrBits - LEVEL2_BITS \in Nat
  BY AddrBitsAssumption, AddressTableAssumption
<1>2. L1Size \in Nat \ {0} /\ L2Size \in Nat \ {0}
  BY <1>1, PowersOfTwo DEF L1Size, L2Size
<1>3. \A a, b \in Int : IsFiniteSet(a .. b) /\ Cardinality(a .. b) = IF a > b THEN 0 ELSE b - a + 1
  BY FS_Interval
<1>4. 0 \in Int /\ L1Size - 1 \in Int /\ L2Size - 1 \in Int /\ SUBTABLE_BASE \in Int
      /\ SUBTABLE_BASE + SUBTABLE_COUNT - 1 \in Int
  BY <1>2, Numbers
<1>5. IsFiniteSet(L1Index) /\ IsFiniteSet(L2Index) /\ IsFiniteSet(Subtables)
  BY <1>3, <1>4 DEF L1Index, L2Index, Subtables
<1>6. Cardinality(L2Index) = L2Size
  <2>1. ~(0 > L2Size - 1) /\ L2Size - 1 - 0 + 1 = L2Size
    BY <1>2
  <2>2. QED BY <1>3, <1>4, <2>1 DEF L2Index
<1>7. QED BY <1>2, <1>5, <1>6, FS_Product

(* The level 1 cells are the same, but for i.                              *)
SameBut(T, V, i) == \A j \in L1Index : j # i => V[j] = T[j]

(* Level 1 cell i changes: what it had is counted once less, what it has   *)
(* once more.                                                              *)
LEMMA Level1Changes ==
  ASSUME NEW T, NEW V, NEW i \in L1Index, SameBut(T, V, i), NEW x
  PROVE  /\ Level1(T, x) \in Nat
         /\ Level1(V, x) = Level1(T, x) - Hit(T[i], x) + Hit(V[i], x)
<1>1. /\ Count(T, L1Index, x) \in Nat
      /\ Count(V, L1Index, x) = Count(T, L1Index, x) - (IF T[i] = x THEN 1 ELSE 0)
                                                    + (IF V[i] = x THEN 1 ELSE 0)
  BY Sizes, CountChanges DEF SameBut
<1>2. QED BY <1>1 DEF Level1, Hit, Count

(* What is counted in level 1 is there: the count is zero just when no     *)
(* cell has it.                                                            *)
LEMMA Level1Has ==
  ASSUME NEW T, NEW x
  PROVE  Level1(T, x) \in Nat /\ (Level1(T, x) # 0 <=> \E i \in L1Index : T[i] = x)
<1> DEFINE H == {i \in L1Index : T[i] = x}
<1>1. IsFiniteSet(H) /\ Cardinality(H) \in Nat
  <2>1. H \subseteq L1Index
    OBVIOUS
  <2>2. QED BY <2>1, Sizes, FS_Subset, FS_CardinalityType
<1>2. Cardinality(H) = 0 <=> H = {}
  BY <1>1, FS_EmptySet
<1>3. QED BY <1>1, <1>2 DEF Level1

(* What is counted in the subtables is in some cell of one in use, and the *)
(* other way round.                                                        *)
LEMMA Level2Has ==
  ASSUME NEW U, NEW C, NEW x
  PROVE  /\ Level2(U, C, x) \in Nat
         /\ Level2(U, C, x) # 0 <=> \E s \in Subtables, c \in L2Index : U[s] # 0 /\ C[s][c] = x
<1> DEFINE H == {p \in Subtables \X L2Index : U[p[1]] # 0 /\ C[p[1]][p[2]] = x}
<1>1. IsFiniteSet(H) /\ Cardinality(H) \in Nat
  <2>1. H \subseteq Subtables \X L2Index
    OBVIOUS
  <2>2. QED BY <2>1, Sizes, FS_Subset, FS_CardinalityType
<1>2. Cardinality(H) = 0 <=> H = {}
  BY <1>1, FS_EmptySet
<1>3. H # {} <=> \E s \in Subtables, c \in L2Index : U[s] # 0 /\ C[s][c] = x
  <2>1. ASSUME NEW p \in H PROVE \E s \in Subtables, c \in L2Index : U[s] # 0 /\ C[s][c] = x
    <3>1. p[1] \in Subtables /\ p[2] \in L2Index /\ U[p[1]] # 0 /\ C[p[1]][p[2]] = x
      OBVIOUS
    <3>2. QED BY <3>1
  <2>2. ASSUME NEW s \in Subtables, NEW c \in L2Index, U[s] # 0, C[s][c] = x PROVE <<s, c>> \in H
    BY <2>2
  <2>3. QED BY <2>1, <2>2
<1>4. QED BY <1>1, <1>2, <1>3 DEF Level2

(* A cell of a subtable in use changes.                                    *)
SameButAt(s, c, C, D) ==
  \A r \in Subtables : \A k \in L2Index : r # s \/ k # c => D[r][k] = C[r][k]

(* A cell of a subtable in use changes, and only its old and its new entry *)
(* are counted differently.                                                *)
LEMMA Level2Changes ==
  ASSUME NEW U, NEW C, NEW D, NEW s \in Subtables, NEW c \in L2Index, U[s] # 0,
         SameButAt(s, c, C, D), NEW x, x # 0
  PROVE  Level2(U, D, x) = Level2(U, C, x) - Hit(C[s][c], x) + Hit(D[s][c], x)
<1> DEFINE f == [p \in Subtables \X L2Index |-> IF U[p[1]] # 0 THEN C[p[1]][p[2]] ELSE 0]
           g == [p \in Subtables \X L2Index |-> IF U[p[1]] # 0 THEN D[p[1]][p[2]] ELSE 0]
           q == <<s, c>>
           S == Subtables \X L2Index
<1>1. {p \in S : f[p] = x} = {p \in S : U[p[1]] # 0 /\ C[p[1]][p[2]] = x}
  OBVIOUS
<1>2. {p \in S : g[p] = x} = {p \in S : U[p[1]] # 0 /\ D[p[1]][p[2]] = x}
  OBVIOUS
<1>3. q \in S /\ f[q] = C[s][c] /\ g[q] = D[s][c]
  OBVIOUS
<1>4. ASSUME NEW p \in S, p # q PROVE g[p] = f[p]
  <2>1. p[1] \in Subtables /\ p[2] \in L2Index /\ p = <<p[1], p[2]>>
    OBVIOUS
  <2>2. p[1] # s \/ p[2] # c
    BY <1>4, <2>1
  <2>3. D[p[1]][p[2]] = C[p[1]][p[2]]
    BY <2>1, <2>2 DEF SameButAt
  <2>4. QED BY <2>3
<1> HIDE DEF f, g, q
<1>5. Count(g, S, x) =
        Count(f, S, x) - (IF f[q] = x THEN 1 ELSE 0) + (IF g[q] = x THEN 1 ELSE 0)
  <2>1. IsFiniteSet(S)
    BY Sizes
  <2>2. q \in S /\ \A p \in S : p # q => g[p] = f[p]
    BY <1>3, <1>4
  <2> HIDE DEF S
  <2>3. QED BY <2>1, <2>2, CountChanges
<1>6. QED BY <1>1, <1>2, <1>3, <1>5 DEF Level2, Hit, Count

(* The cells of a row before the n-th.                                     *)
Part(R, n, x) == Cardinality({c \in L2Index : c < n /\ R[c] = x})

(* The entries of a row can be counted one cell after the other.           *)
LEMMA PartGrows ==
  ASSUME NEW R, NEW x
  PROVE  /\ Part(R, 0, x) = 0 /\ Part(R, L2Size, x) = InRow(R, x)
         /\ \A n \in L2Index : Part(R, n, x) \in Nat
                               /\ Part(R, n + 1, x) = Part(R, n, x) + Hit(R[n], x)
<1> DEFINE P(n) == {c \in L2Index : c < n /\ R[c] = x}
<1>1. P(0) = {} /\ P(L2Size) = {c \in L2Index : R[c] = x}
  BY Sizes DEF L2Index
<1>2. ASSUME NEW n \in L2Index
      PROVE  Cardinality(P(n)) \in Nat /\ Cardinality(P(n + 1)) = Cardinality(P(n)) + Hit(R[n], x)
  <2>1. IsFiniteSet(P(n))
    <3>1. P(n) \subseteq L2Index
      OBVIOUS
    <3>2. QED BY <3>1, Sizes, FS_Subset
  <2>2. P(n + 1) = IF R[n] = x THEN P(n) \cup {n} ELSE P(n)
    BY Sizes DEF L2Index
  <2>3. n \notin P(n)
    BY Sizes DEF L2Index
  <2> HIDE DEF P
  <2>4. Cardinality(P(n)) \in Nat /\ Cardinality(P(n) \cup {n}) = Cardinality(P(n)) + 1
    BY <2>1, <2>3, FS_AddElement, FS_CardinalityType
  <2>5. QED BY <2>2, <2>4 DEF Hit
<1>3. QED BY <1>1, <1>2, FS_EmptySet DEF Part, InRow

(* A part of a row has an entry at most as often as the row.               *)
LEMMA PartIsLess ==
  ASSUME NEW R, NEW x, NEW n \in Nat
  PROVE  Part(R, n, x) <= InRow(R, x)
<1> DEFINE A == {c \in L2Index : c < n /\ R[c] = x}
           B == {c \in L2Index : R[c] = x}
<1>1. A \subseteq B /\ B \subseteq L2Index
  OBVIOUS
<1> HIDE DEF A, B
<1>2. IsFiniteSet(B)
  BY <1>1, Sizes, FS_Subset
<1>3. Cardinality(A) <= Cardinality(B)
  BY <1>1, <1>2, FS_Subset
<1>4. QED BY <1>3 DEF Part, InRow, A, B

(* A row with the same entry all over.                                     *)
LEMMA EvenRow ==
  ASSUME NEW e, NEW x
  PROVE  InRow([c \in L2Index |-> e], x) = IF x = e THEN L2Size ELSE 0
<1> DEFINE R == [c \in L2Index |-> e]
<1>1. {c \in L2Index : R[c] = x} = IF x = e THEN L2Index ELSE {}
  OBVIOUS
<1>2. QED BY <1>1, Sizes, FS_EmptySet DEF InRow

(* The cells a loop passes, by the number of the pass.                     *)
LEMMA IntervalIs ==
  ASSUME NEW lo \in Int, NEW hi \in Int
  PROVE  /\ DOMAIN Interval(lo, hi) = 1 .. (hi - lo + 1)
         /\ \A k \in 1 .. (hi - lo + 1) : Interval(lo, hi)[k] = lo + (k - 1)
BY DEF Interval

(* The subtables in use are the same, but for s, and their rows are.       *)
SameButFor(s, U, V, C, D) ==
  \A r \in Subtables : r # s => (U[r] # 0 <=> V[r] # 0) /\ (U[r] # 0 => C[r] = D[r])

(* Counts do not change with what happens to a subtable that stays out of  *)
(* use, or keeps its cells.                                                *)
LEMMA SameRows ==
  ASSUME NEW U, NEW V, NEW C, NEW D, NEW s, SameButFor(s, U, V, C, D),
         (U[s] # 0 <=> V[s] # 0) /\ (U[s] # 0 => C[s] = D[s]), NEW x
  PROVE  Level2(U, C, x) = Level2(V, D, x)
<1>1. {p \in Subtables \X L2Index : U[p[1]] # 0 /\ C[p[1]][p[2]] = x}
        = {p \in Subtables \X L2Index : V[p[1]] # 0 /\ D[p[1]][p[2]] = x}
  BY DEF SameButFor
<1>2. QED BY <1>1 DEF Level2

(* A subtable comes into use, or goes out of it.                           *)
LEMMA RowJoins ==
  ASSUME NEW U, NEW V, NEW C, NEW D, NEW s \in Subtables, SameButFor(s, U, V, C, D),
         U[s] = 0, V[s] # 0, NEW x
  PROVE  Level2(V, D, x) = Level2(U, C, x) + InRow(D[s], x) /\ InRow(D[s], x) \in Nat
<1> DEFINE S == Subtables \X L2Index
           A == {p \in S : U[p[1]] # 0 /\ C[p[1]][p[2]] = x}
           B == {p \in S : V[p[1]] # 0 /\ D[p[1]][p[2]] = x}
           R == {c \in L2Index : D[s][c] = x}
           Q == {p \in S : p[1] = s /\ D[p[1]][p[2]] = x}
           f == [c \in R |-> <<s, c>>]
<1>1. IsFiniteSet(A) /\ IsFiniteSet(R) /\ Cardinality(A) \in Nat /\ Cardinality(R) \in Nat
  <2>1. A \subseteq S /\ R \subseteq L2Index
    OBVIOUS
  <2>2. QED BY <2>1, Sizes, FS_Subset, FS_CardinalityType
<1>2. IsFiniteSet(Q) /\ Cardinality(Q) = Cardinality(R)
  <2>1. f \in [R -> Q] /\ \A x_1, y_1 \in R : f[x_1] = f[y_1] => x_1 = y_1
    OBVIOUS
  <2>2. ASSUME NEW p \in Q PROVE \E c \in R : f[c] = p
    <3>1. p[2] \in R /\ f[p[2]] = p
      OBVIOUS
    <3>2. QED BY <3>1
  <2> HIDE DEF f, R, Q
  <2>3. QED BY <1>1, <2>1, <2>2, SameSize
<1>3. B = A \cup Q /\ A \cap Q = {}
  BY DEF SameButFor
<1>4. Cardinality(A \cup Q) = Cardinality(A) + Cardinality(Q) - 0
  <2> HIDE DEF A, Q
  <2>1. QED BY <1>1, <1>2, <1>3, FS_Union, FS_EmptySet
<1>5. Cardinality(B) = Cardinality(A) + Cardinality(R)
  <2> HIDE DEF A, B, Q, R
  <2>1. QED BY <1>1, <1>2, <1>3, <1>4
<1>6. QED BY <1>1, <1>5 DEF Level2, InRow

--------------------------------------------------------------------------------
(* Giving up a subtable: one user less, and with the last of them its cells*)
(* give up their handlers.                                                 *)

NeverOwing(u) == \A h \in Dynamic : Owed(u, h) \in Nat

Released(u, s, w) ==
  /\ w.m_table = u.m_table /\ w.cells = u.cells
  /\ w.m_usecount = [u.m_usecount EXCEPT ![s] = @ - 1]
  /\ w.m_checksum_valid = u.m_checksum_valid
  /\ \A r \in Subtables : w.m_usecount[r] # 0 => w.m_checksum[r] = u.m_checksum[r]
  /\ w.opened = u.opened /\ w.error = u.error
  /\ \A h \in Dynamic : Owed(w, h) = Owed(u, h)

UnrefCellStep(s, b, c, d, w, k) == UnrefCell(s, w, k)

ReleaseFold == INSTANCE FoldInduction WITH Op <- UnrefCellStep

(* subtable_release takes one user from a subtable, and whatever it does   *)
(* to the counts of the handlers nobody comes to be owed a reference.      *)
LEMMA ReleaseIs ==
  ASSUME NEW u, NEW X, Typed(u), FreeKept(u, X), NeverOwing(u),
         NEW s \in Subtables, u.m_usecount[s] # 0
  PROVE  LET w == subtable_release(u, s)
         IN  Typed(w) /\ FreeKept(w, X) /\ Released(u, s, w)
<1> DEFINE w == subtable_release(u, s)
           v == [u EXCEPT !.m_usecount[s] = @ - 1]
           base == [v EXCEPT !.m_checksum[s] = 0]
           U == u.m_usecount
           V == [U EXCEPT ![s] = @ - 1]
<1>1. /\ DOMAIN v = Fields /\ v.m_usecount = V
      /\ v.m_table = u.m_table /\ v.cells = u.cells /\ v.m_checksum_valid = u.m_checksum_valid
      /\ v.opened = u.opened /\ v.error = u.error /\ v.m_checksum = u.m_checksum
      /\ v.handler_refcount = u.handler_refcount /\ v.handler_free = u.handler_free
  BY DEF Typed, Fields
<1>2. U[s] \in Nat \ {0} /\ V \in [Subtables -> Nat] /\ V[s] = U[s] - 1
      /\ \A r \in Subtables : r # s => V[r] = U[r]
  BY DEF Typed
<1>3. Typed(v) /\ FreeKept(v, X)
  BY <1>1, <1>2 DEF Typed, FreeKept, IsFree
<1>4. w = IF V[s] # 0 THEN v ELSE ReleaseFold!Fold(s, 0, 0, 0, base, Interval(0, L2Size - 1))
  <2>1. v.m_usecount[s] = V[s]
    BY <1>1
  <2> HIDE DEF v
  <2>2. w = IF v.m_usecount[s] # 0 THEN v
            ELSE ReleaseFold!Fold(s, 0, 0, 0, base, Interval(0, L2Size - 1))
    BY DEF subtable_release, ReleaseFold!Fold, UnrefCellStep, v,
           FoldLeft, MapThenFoldSet, Max,
           ReleaseFold!Last
  <2>3. QED BY <2>1, <2>2
<1> HIDE DEF v, w
<1>5. CASE V[s] # 0
  <2>1. ASSUME NEW h \in Dynamic PROVE Owed(v, h) = Owed(u, h)
    <3>1. Level2(V, u.cells, h) = Level2(U, u.cells, h)
      <4>1. SameButFor(s, V, U, u.cells, u.cells) /\ V[s] # 0 /\ U[s] # 0
        BY <1>2, <1>5 DEF SameButFor
      <4> HIDE DEF U, V
      <4>2. QED BY <4>1, SameRows
    <3>2. QED BY <1>1, <3>1 DEF Owed
  <2>2. Released(u, s, v)
    BY <1>1, <2>1 DEF Released
  <2>3. QED BY <1>3, <1>4, <1>5, <2>2 DEF w
<1>6. CASE V[s] = 0
  <2>1. /\ DOMAIN base = Fields /\ base.m_usecount = V
        /\ base.m_table = u.m_table /\ base.cells = u.cells
        /\ base.m_checksum_valid = u.m_checksum_valid
        /\ base.opened = u.opened /\ base.error = u.error
        /\ base.m_checksum = [u.m_checksum EXCEPT ![s] = 0]
        /\ base.handler_refcount = u.handler_refcount /\ base.handler_free = u.handler_free
    <3> HIDE DEF V
    <3>1. QED BY <1>1 DEF Fields
  <2> HIDE DEF base
  <2>2. Typed(base) /\ FreeKept(base, X)
    BY <1>2, <2>1 DEF Typed, FreeKept, IsFree
  <2> DEFINE R == u.cells[s]
             n == L2Size
  <2>3. n \in Nat /\ DOMAIN Interval(0, n - 1) = 1 .. n
        /\ \A k \in 1 .. n : Interval(0, n - 1)[k] = k - 1
    <3>1. n \in Nat \ {0} /\ n - 1 \in Int /\ 0 \in Int
      BY Sizes
    <3> HIDE DEF n
    <3>2. /\ DOMAIN Interval(0, n - 1) = 1 .. ((n - 1) - 0 + 1)
          /\ \A k \in 1 .. ((n - 1) - 0 + 1) : Interval(0, n - 1)[k] = 0 + (k - 1)
      BY <3>1, IntervalIs
    <3>3. (n - 1) - 0 + 1 = n
      BY <3>1
    <3>4. QED BY <3>1, <3>2, <3>3
  <2>a. ReleaseFold!Induction(n)
    BY <1>4, <1>6, <2>3, LoopInduction DEF ReleaseFold!Induction
  <2>4. PICK g : /\ ReleaseFold!Passes(s, 0, 0, 0, base, Interval(0, n - 1), n, g)
                 /\ g[n] = w
    BY <1>4, <1>6, <2>3, <2>a, ReleaseFold!FoldPasses
  <2>5. ASSUME NEW h \in Dynamic
        PROVE  /\ Level2(U, u.cells, h) = Level2(V, u.cells, h) + InRow(R, h)
               /\ InRow(R, h) \in Nat
               /\ u.handler_refcount[h] \in Nat /\ u.handler_refcount[h] >= InRow(R, h)
    <3>1. /\ Level2(U, u.cells, h) = Level2(V, u.cells, h) + InRow(R, h)
          /\ InRow(R, h) \in Nat
      <4>1. /\ V[s] = 0 /\ U[s] # 0
            /\ SameButFor(s, V, U, u.cells, u.cells)
        BY <1>2, <1>6 DEF SameButFor
      <4> HIDE DEF U, V
      <4>2. QED BY <4>1, RowJoins
    <3>2. /\ Level2(V, u.cells, h) \in Nat /\ Level1(u.m_table, h) \in Nat
          /\ u.handler_refcount[h] \in Nat /\ Owed(u, h) \in Nat
      BY Level1Has, Level2Has DEF Typed, NeverOwing
    <3>3. QED BY <3>1, <3>2 DEF Owed
  <2> DEFINE Good(j) == /\ Typed(g[j]) /\ Unmoved(base, g[j]) /\ FreeKept(g[j], X)
                        /\ \A h \in Dynamic : g[j].handler_refcount[h] =
                                                u.handler_refcount[h] - Part(R, j, h)
             P == {j \in 0 .. n : Good(j)}
  <2>6. 0 \in P
    <3>1. g[0] = base
      BY <2>4 DEF ReleaseFold!Passes
    <3>2. \A h \in Dynamic : Part(R, 0, h) = 0 /\ u.handler_refcount[h] \in Nat
      BY PartGrows DEF Typed
    <3>3. Good(0)
      BY <2>1, <2>2, <3>1, <3>2 DEF Unmoved
    <3>4. QED BY <2>3, <3>3
  <2>7. ASSUME NEW j \in 0 .. (n - 1), j \in P PROVE j + 1 \in P
    <3>1. j \in L2Index /\ j + 1 \in 1 .. n /\ (j + 1) - 1 = j /\ j + 1 \in 0 .. n
      BY <2>3 DEF L2Index
    <3>2. g[j + 1] = UnrefCell(s, g[j], j)
      BY <2>3, <2>4, <3>1 DEF ReleaseFold!Passes, UnrefCellStep
    <3> DEFINE e == R[j]
    <3>3. Good(j)
      BY <2>7
    <3>4. g[j + 1] = handler_unref(g[j], e) /\ e \in Entries
      <4>1. g[j].cells = u.cells
        BY <2>1, <3>3 DEF Unmoved
      <4>2. QED BY <3>1, <3>2, <4>1 DEF UnrefCell, Typed
    <3>5. \A h \in Dynamic : /\ Part(R, j, h) \in Nat
                             /\ Part(R, j + 1, h) = Part(R, j, h) + Hit(e, h)
      <4> HIDE DEF R
      <4>1. QED BY <3>1, PartGrows DEF Hit
    <3>6. e \in Dynamic => g[j].handler_refcount[e] # 0
      <4>1. SUFFICES ASSUME e \in Dynamic PROVE Part(R, j, e) < u.handler_refcount[e]
        BY <2>5, <3>3, <3>5
      <4>2. Part(R, j + 1, e) = Part(R, j, e) + 1
        BY <3>5, <4>1 DEF Hit
      <4>3. Part(R, j + 1, e) <= InRow(R, e)
        BY <3>1, PartIsLess
      <4>4. QED BY <2>5, <3>5, <4>1, <4>2, <4>3
    <3>7. /\ Typed(g[j + 1]) /\ Unmoved(g[j], g[j + 1]) /\ FreeKept(g[j + 1], X)
          /\ \A h \in Dynamic : g[j + 1].handler_refcount[h] =
                                  g[j].handler_refcount[h] - Hit(h, e)
      <4> HIDE DEF e
      <4>1. QED BY <3>3, <3>4, <3>6, UnrefIs
    <3>8. \A h \in Dynamic : g[j + 1].handler_refcount[h] =
                               u.handler_refcount[h] - Part(R, j + 1, h)
      BY <2>5, <3>3, <3>5, <3>7 DEF Hit
    <3>9. Unmoved(base, g[j + 1])
      BY <3>3, <3>7 DEF Unmoved
    <3>10. QED BY <3>1, <3>7, <3>8, <3>9
  <2>8. Good(n)
    <3> HIDE DEF Good
    <3>1. n \in P
      <4> HIDE DEF P, n
      <4>1. QED BY <2>3, <2>6, <2>7, LoopInduction
    <3>2. QED BY <3>1
  <2>9. /\ Typed(w) /\ Unmoved(base, w) /\ FreeKept(w, X)
        /\ \A h \in Dynamic : w.handler_refcount[h] = u.handler_refcount[h] - InRow(R, h)
    BY <2>4, <2>8, PartGrows
  <2>10. ASSUME NEW h \in Dynamic PROVE Owed(w, h) = Owed(u, h)
    <3>1. /\ Level2(V, u.cells, h) \in Nat /\ Level1(u.m_table, h) \in Nat
      BY Level1Has, Level2Has
    <3>2. w.m_table = u.m_table /\ w.cells = u.cells /\ w.m_usecount = V
      BY <2>1, <2>9 DEF Unmoved
    <3>3. Owed(w, h) = u.handler_refcount[h] - InRow(R, h)
                         - Level1(u.m_table, h) - Level2(V, u.cells, h)
      BY <2>9, <3>2 DEF Owed
    <3>4. Owed(u, h) = u.handler_refcount[h] - Level1(u.m_table, h)
                         - (Level2(V, u.cells, h) + InRow(R, h))
      BY <2>5 DEF Owed
    <3>5. QED BY <2>5, <3>1, <3>3, <3>4
  <2>11. Released(u, s, w)
    <3>1. \A r \in Subtables : V[r] # 0 => base.m_checksum[r] = u.m_checksum[r]
      BY <1>2, <1>6, <2>1 DEF Typed
    <3>2. QED BY <2>1, <2>9, <2>10, <3>1 DEF Released, Unmoved
  <2>12. QED BY <2>9, <2>11 DEF w
<1>7. QED BY <1>5, <1>6

--------------------------------------------------------------------------------
(* Level 1 cells.                                                          *)

(* Another entry in a level 1 cell.                                        *)
LEMMA CellMoves ==
  ASSUME NEW u, Typed(u), NEW i \in L1Index, NEW x \in Entries \cup Subtables
  PROVE  LET w == [u EXCEPT !.m_table[i] = x]
         IN  /\ Typed(w)
             /\ w.m_table = [u.m_table EXCEPT ![i] = x] /\ w.cells = u.cells
             /\ w.m_usecount = u.m_usecount /\ w.m_checksum = u.m_checksum
             /\ w.m_checksum_valid = u.m_checksum_valid
             /\ w.handler_refcount = u.handler_refcount /\ w.handler_free = u.handler_free
             /\ w.opened = u.opened /\ w.error = u.error
             /\ \A h \in Dynamic :
                  Owed(w, h) = Owed(u, h) + Hit(u.m_table[i], h) - Hit(x, h)
             /\ \A s \in Subtables :
                  Claimed(w, s) = Claimed(u, s) + Hit(u.m_table[i], s) - Hit(x, s)
<1> DEFINE w == [u EXCEPT !.m_table[i] = x]
           T == u.m_table
           V == [T EXCEPT ![i] = x]
<1>1. /\ DOMAIN w = Fields
      /\ w.m_table = V /\ w.cells = u.cells
      /\ w.m_usecount = u.m_usecount /\ w.m_checksum = u.m_checksum
      /\ w.m_checksum_valid = u.m_checksum_valid
      /\ w.handler_refcount = u.handler_refcount /\ w.handler_free = u.handler_free
      /\ w.opened = u.opened /\ w.error = u.error
  BY DEF Typed, Fields
<1> HIDE DEF w
<1>2. V \in [L1Index -> Entries \cup Subtables] /\ V[i] = x /\ SameBut(T, V, i)
  BY DEF Typed, SameBut
<1>3. Typed(w)
  BY <1>1, <1>2 DEF Typed
<1>4. ASSUME NEW y
      PROVE  /\ Level1(T, y) \in Nat
             /\ Level1(V, y) = Level1(T, y) - Hit(T[i], y) + Hit(x, y)
  <2> HIDE DEF T, V
  <2>1. QED BY <1>2, Level1Changes
<1>5. \A y : Hit(T[i], y) \in Int /\ Hit(x, y) \in Int
  BY DEF Hit
<1>6. ASSUME NEW h \in Dynamic
      PROVE  Owed(w, h) = Owed(u, h) + Hit(u.m_table[i], h) - Hit(x, h)
  <2>1. u.handler_refcount[h] \in Nat /\ Level2(u.m_usecount, u.cells, h) \in Nat
    BY Level2Has DEF Typed
  <2> HIDE DEF V
  <2>2. QED BY <1>1, <1>4, <1>5, <2>1 DEF Owed
<1>7. ASSUME NEW s \in Subtables
      PROVE  Claimed(w, s) = Claimed(u, s) + Hit(u.m_table[i], s) - Hit(x, s)
  <2>1. u.m_usecount[s] \in Nat
    BY DEF Typed
  <2> HIDE DEF V
  <2>2. QED BY <1>1, <1>4, <1>5, <2>1 DEF Claimed
<1>8. QED BY <1>1, <1>3, <1>6, <1>7 DEF w

(* A level 1 cell gives up what it has, and is still there.                *)
GivenUp(u, i, w) ==
  /\ w.m_table = u.m_table /\ w.cells = u.cells
  /\ \A r \in Subtables : w.m_usecount[r] = u.m_usecount[r] - Hit(u.m_table[i], r)
  /\ w.m_checksum_valid = u.m_checksum_valid
  /\ \A r \in Subtables : w.m_usecount[r] # 0 => w.m_checksum[r] = u.m_checksum[r]
  /\ w.opened = u.opened /\ w.error = u.error
  /\ \A h \in Dynamic : Owed(w, h) = Owed(u, h) - Hit(u.m_table[i], h)

(* Giving up what a level 1 cell has, a subtable or a handler, leaves the  *)
(* counts one short of what the cell still shows.                          *)
LEMMA ReleaseCellIs ==
  ASSUME NEW u, NEW X, Typed(u), FreeKept(u, X), NeverOwing(u),
         \A s \in Subtables : Claimed(u, s) \in Nat, NEW i \in L1Index
  PROVE  LET w == ReleaseCell(u, i)
         IN  Typed(w) /\ FreeKept(w, X) /\ GivenUp(u, i, w)
<1> DEFINE w == ReleaseCell(u, i)
           x == u.m_table[i]
<1>1. x \in Entries \cup Subtables /\ Level1(u.m_table, x) \in Nat \ {0}
  BY Level1Has DEF Typed
<1>2. \A r \in Subtables : u.m_usecount[r] \in Nat
  BY DEF Typed
<1>3. \A h \in Dynamic : u.handler_refcount[h] \in Nat /\ Owed(u, h) \in Nat
  BY DEF Typed, NeverOwing
<1>4. CASE x \in Subtables
  <2>1. u.m_usecount[x] # 0
    BY <1>1, <1>2, <1>4 DEF Claimed
  <2>2. w = subtable_release(u, x)
    BY <1>4 DEF ReleaseCell
  <2> HIDE DEF w, x
  <2>3. Typed(w) /\ FreeKept(w, X) /\ Released(u, x, w)
    BY <1>4, <2>1, <2>2, ReleaseIs
  <2>4. \A h \in Dynamic : Hit(x, h) = 0
    BY <1>4, Numbers DEF Hit
  <2>5. \A r \in Subtables : w.m_usecount[r] = u.m_usecount[r] - Hit(x, r)
    BY <1>2, <1>4, <2>3 DEF Released, Hit, Typed
  <2>6. GivenUp(u, i, w)
    BY <1>3, <2>3, <2>4, <2>5 DEF Released, GivenUp, x
  <2>7. QED BY <2>3, <2>6 DEF w
<1>5. CASE x \notin Subtables
  <2>1. x \in Dynamic => u.handler_refcount[x] # 0
    <3>1. SUFFICES ASSUME x \in Dynamic, u.handler_refcount[x] = 0 PROVE FALSE
      OBVIOUS
    <3>2. Level2(u.m_usecount, u.cells, x) \in Nat /\ Owed(u, x) \in Nat
      BY <3>1, Level2Has DEF NeverOwing
    <3> HIDE DEF x
    <3>3. QED BY <1>1, <3>1, <3>2 DEF Owed
  <2>2. w = handler_unref(u, x) /\ x \in Entries
    BY <1>1, <1>5 DEF ReleaseCell
  <2> HIDE DEF w, x
  <2>3. /\ Typed(w) /\ Unmoved(u, w) /\ FreeKept(w, X)
        /\ \A h \in Dynamic : w.handler_refcount[h] = u.handler_refcount[h] - Hit(h, x)
    BY <2>1, <2>2, UnrefIs
  <2>4. \A r \in Subtables : w.m_usecount[r] = u.m_usecount[r] - Hit(x, r)
    BY <1>2, <1>5, <2>3 DEF Unmoved, Hit
  <2>5. ASSUME NEW h \in Dynamic PROVE Owed(w, h) = Owed(u, h) - Hit(x, h)
    <3>1. /\ Level1(u.m_table, h) \in Nat /\ Level2(u.m_usecount, u.cells, h) \in Nat
          /\ Hit(h, x) = Hit(x, h) /\ Hit(x, h) \in Int
      BY Level1Has, Level2Has DEF Hit
    <3>2. QED BY <1>3, <2>3, <3>1 DEF Unmoved, Owed
  <2>6. GivenUp(u, i, w)
    BY <2>3, <2>4, <2>5 DEF Unmoved, GivenUp, x
  <2>7. QED BY <2>3, <2>6 DEF w
<1>6. QED BY <1>4, <1>5

(* Books that balance up to places counted ahead owe nobody less than      *)
(* nothing.                                                                *)
LEMMA BooksAreSound ==
  ASSUME NEW u, NEW X, NEW e, NEW n \in Nat, Books(u, X, e, n)
  PROVE  /\ Typed(u) /\ FreeKept(u, X) /\ NeverOwing(u)
         /\ \A s \in Subtables : Claimed(u, s) \in Nat
BY DEF Books, NeverOwing

(* A whole block gets an entry that was counted for it.                    *)
LEMMA FillBlockIs ==
  ASSUME NEW u, NEW X, NEW e \in Entries, NEW n \in Nat, Books(u, X, e, n + 1), NEW i \in L1Index
  PROVE  LET w == FillBlock(e, u, i)
         IN  /\ Books(w, X, e, n) /\ w.error = u.error
             /\ w.m_table = [u.m_table EXCEPT ![i] = e] /\ w.cells = u.cells
<1> DEFINE v == ReleaseCell(u, i)
           w == [v EXCEPT !.m_table[i] = e]
           x == u.m_table[i]
<1>1. Typed(v) /\ FreeKept(v, X) /\ GivenUp(u, i, v)
  BY BooksAreSound, ReleaseCellIs
<1> HIDE DEF v
<1>2. /\ Typed(w)
      /\ w.m_table = [v.m_table EXCEPT ![i] = e] /\ w.cells = v.cells
      /\ w.m_usecount = v.m_usecount /\ w.m_checksum = v.m_checksum
      /\ w.m_checksum_valid = v.m_checksum_valid
      /\ w.handler_refcount = v.handler_refcount /\ w.handler_free = v.handler_free
      /\ w.opened = v.opened /\ w.error = v.error
      /\ \A h \in Dynamic : Owed(w, h) = Owed(v, h) + Hit(v.m_table[i], h) - Hit(e, h)
      /\ \A s \in Subtables : Claimed(w, s) = Claimed(v, s) + Hit(v.m_table[i], s) - Hit(e, s)
  BY <1>1, CellMoves
<1> HIDE DEF w
<1>3. v.m_table[i] = x
  BY <1>1 DEF GivenUp
<1>4. ASSUME NEW h \in Dynamic PROVE Owed(w, h) = IF h = e THEN n ELSE 0
  <2>1. Owed(u, h) = IF h = e THEN n + 1 ELSE 0
    BY DEF Books
  <2>2. Owed(v, h) = Owed(u, h) - Hit(x, h)
    BY <1>1 DEF GivenUp
  <2>3. Hit(x, h) \in Int /\ Hit(e, h) = IF h = e THEN 1 ELSE 0
    BY DEF Hit
  <2>4. Owed(w, h) = Owed(v, h) + Hit(x, h) - Hit(e, h)
    BY <1>2, <1>3
  <2>5. QED BY <2>1, <2>2, <2>3, <2>4
<1>5. ASSUME NEW s \in Subtables PROVE Claimed(w, s) = 0
  <2>1. Claimed(u, s) = 0
    BY DEF Books
  <2>2. Claimed(v, s) = Claimed(u, s) - Hit(x, s)
    <3>1. u.m_usecount[s] \in Nat /\ Level1(u.m_table, s) \in Nat /\ Hit(x, s) \in Int
      BY Level1Has DEF Books, Typed, Hit
    <3>2. v.m_usecount[s] = u.m_usecount[s] - Hit(x, s) /\ v.m_table = u.m_table
      BY <1>1 DEF GivenUp
    <3>3. QED BY <3>1, <3>2 DEF Claimed
  <2>3. Hit(x, s) \in Int /\ Hit(e, s) = 0
    BY Numbers DEF Hit
  <2>4. QED BY <1>2, <1>3, <2>1, <2>2, <2>3
<1>6. FreeKept(w, X)
  BY <1>1, <1>2 DEF FreeKept, IsFree
<1>7. ChecksumsHold(w)
  <2>1. SUFFICES ASSUME NEW s \in Subtables, w.m_checksum_valid[s], w.m_usecount[s] # 0
                 PROVE  w.m_checksum[s] = Checksum(w.cells[s])
    BY DEF ChecksumsHold
  <2>2. u.m_usecount[s] # 0
    <3>1. u.m_usecount[s] \in Nat /\ v.m_usecount[s] \in Nat
      BY <1>1 DEF Books, Typed
    <3>2. QED BY <1>1, <1>2, <2>1, <3>1 DEF GivenUp, Hit
  <2>3. /\ w.m_checksum[s] = u.m_checksum[s] /\ w.cells = u.cells
        /\ u.m_checksum_valid[s]
    BY <1>1, <1>2, <2>1 DEF GivenUp
  <2>4. QED BY <2>2, <2>3 DEF Books, ChecksumsHold
<1>8. Books(w, X, e, n)
  BY <1>2, <1>4, <1>5, <1>6, <1>7 DEF Books
<1>9. w = FillBlock(e, u, i)
  BY DEF FillBlock, w, v
<1>10. QED BY <1>1, <1>2, <1>8, <1>9 DEF GivenUp

(* An entry can be counted for places it is going to get.                  *)
Countable(u, X, e) == e \in Entries /\ X \subseteq {e} /\ ~IsFree(u, e)

(* handler_ref by n puts the books ahead by n for that entry and touches   *)
(* nothing else.                                                           *)
LEMMA CountedAhead ==
  ASSUME NEW u, NEW X, NEW e, Kept(u, X), Countable(u, X, e), NEW n \in Nat, n # 0
  PROVE  LET w == handler_ref(u, e, n) IN Books(w, {}, e, n) /\ Unmoved(u, w)
<1> DEFINE w == handler_ref(u, e, n)
<1>1. /\ Typed(w) /\ Unmoved(u, w) /\ w.handler_free = u.handler_free
      /\ (n = 0 => FreeKept(w, X)) /\ (n # 0 => FreeKept(w, X \ {e}))
      /\ \A h \in Dynamic : w.handler_refcount[h] =
                              u.handler_refcount[h] + (IF h = e THEN n ELSE 0)
  BY RefIs DEF Kept, Books, Countable
<1> HIDE DEF w
<1>2. FreeKept(w, {})
  <2>1. X \ {e} = {}
    BY DEF Countable
  <2>2. QED BY <1>1, <2>1
<1>3. ASSUME NEW h \in Dynamic PROVE Owed(w, h) = IF h = e THEN n ELSE 0
  <2>1. /\ u.handler_refcount[h] \in Nat /\ Level1(u.m_table, h) \in Nat
        /\ Level2(u.m_usecount, u.cells, h) \in Nat
    BY Level1Has, Level2Has DEF Kept, Books, Typed
  <2>2. Owed(u, h) = 0
    BY DEF Kept, Books
  <2>3. QED BY <1>1, <2>1, <2>2 DEF Owed, Unmoved
<1>4. \A s \in Subtables : Claimed(w, s) = 0
  BY <1>1 DEF Kept, Books, Claimed, Unmoved
<1>5. ChecksumsHold(w)
  BY <1>1 DEF Kept, Books, ChecksumsHold, Unmoved
<1>6. Books(w, {}, e, n)
  BY <1>1, <1>2, <1>3, <1>4, <1>5 DEF Books
<1>7. QED BY <1>1, <1>6 DEF w

(* When the places counted for have been filled the books balance.         *)
LEMMA BooksBalance ==
  ASSUME NEW u, NEW X, NEW e, Books(u, X, e, 0)
  PROVE  Kept(u, X)
BY DEF Kept, Books

(* Whole blocks.                                                           *)
FillBlockStep(entry, b, c, d, v, i) == FillBlock(entry, v, i)

MiddleFold == INSTANCE FoldInduction WITH Op <- FillBlockStep

(* A run of whole blocks gets an entry: each of them has it afterwards,    *)
(* and the books balance.                                                  *)
LEMMA MiddleIs ==
  ASSUME NEW u, NEW X, NEW e, Kept(u, X), Countable(u, X, e),
         NEW first \in L1Index, NEW last \in L1Index, first <= last
  PROVE  LET w == PopulateMiddle(u, first, last, e)
         IN  /\ Kept(w, {}) /\ w.error = u.error /\ w.cells = u.cells
             /\ \A i \in L1Index : w.m_table[i] =
                  IF i \in first .. last THEN e ELSE u.m_table[i]
<1> DEFINE w == PopulateMiddle(u, first, last, e)
           n == last - first + 1
           base == handler_ref(u, e, n)
<1>1. /\ n \in Nat /\ n # 0 /\ first \in Int /\ last \in Int /\ e \in Entries
      /\ n \in Int
  BY Sizes DEF L1Index, Countable
<1>2. Books(base, {}, e, n) /\ Unmoved(u, base)
  <2> HIDE DEF n
  <2>1. QED BY <1>1, CountedAhead
<1>3. w = MiddleFold!Fold(e, 0, 0, 0, base, Interval(first, last))
  BY DEF PopulateMiddle, MiddleFold!Fold, FillBlockStep,
         FoldLeft, MapThenFoldSet, Max,
         MiddleFold!Last
<1> HIDE DEF w, base
<1>4. /\ DOMAIN Interval(first, last) = 1 .. n
      /\ \A k \in 1 .. n : Interval(first, last)[k] = first + (k - 1)
  BY <1>1, IntervalIs
<1> HIDE DEF n
<1>a. MiddleFold!Induction(n)
  BY <1>1, <1>3, <1>4, LoopInduction DEF MiddleFold!Induction
<1>5. PICK g : MiddleFold!Passes(e, 0, 0, 0, base, Interval(first, last), n, g) /\ g[n] = w
  BY <1>1, <1>3, <1>4, <1>a, MiddleFold!FoldPasses
<1> DEFINE Good(j) ==
             /\ Books(g[j], {}, e, n - j) /\ g[j].error = u.error /\ g[j].cells = u.cells
             /\ \A i \in L1Index : g[j].m_table[i] =
                  IF i \in first .. (first + j - 1) THEN e ELSE u.m_table[i]
           P == {j \in 0 .. n : Good(j)}
<1>6. 0 \in P
  <2>1. g[0] = base /\ n - 0 = n /\ first .. (first + 0 - 1) = {}
    BY <1>1, <1>5 DEF MiddleFold!Passes
  <2>2. QED BY <1>1, <1>2, <2>1 DEF Unmoved
<1>7. ASSUME NEW j \in 0 .. (n - 1), j \in P PROVE j + 1 \in P
  <2> DEFINE i == first + j
  <2>1. /\ j + 1 \in 1 .. n /\ j + 1 \in 0 .. n /\ (j + 1) - 1 = j
        /\ n - j = (n - (j + 1)) + 1 /\ n - (j + 1) \in Nat
    BY <1>1
  <2>2. i \in L1Index
    BY <1>1, Sizes DEF L1Index, n
  <2>3. g[j + 1] = FillBlock(e, g[j], i)
    <3>1. Interval(first, last)[j + 1] = i
      BY <1>4, <2>1
    <3>2. QED BY <1>5, <2>1, <3>1 DEF MiddleFold!Passes, FillBlockStep
  <2>4. Good(j)
    BY <1>7
  <2>5. /\ Books(g[j + 1], {}, e, n - (j + 1)) /\ g[j + 1].error = g[j].error
        /\ g[j + 1].m_table = [g[j].m_table EXCEPT ![i] = e] /\ g[j + 1].cells = g[j].cells
    <3> DEFINE m == n - (j + 1)
    <3>1. Books(g[j], {}, e, m + 1) /\ m \in Nat
      BY <2>1, <2>4
    <3> HIDE DEF m, i
    <3>2. /\ Books(FillBlock(e, g[j], i), {}, e, m)
          /\ FillBlock(e, g[j], i).error = g[j].error
          /\ FillBlock(e, g[j], i).m_table = [g[j].m_table EXCEPT ![i] = e]
          /\ FillBlock(e, g[j], i).cells = g[j].cells
      BY <1>1, <2>2, <3>1, FillBlockIs
    <3>3. QED BY <2>3, <3>2 DEF m
  <2>6. ASSUME NEW k \in L1Index
        PROVE  g[j + 1].m_table[k] =
                 IF k \in first .. (first + (j + 1) - 1) THEN e ELSE u.m_table[k]
    <3>1. g[j].m_table[k] = IF k \in first .. (first + j - 1) THEN e ELSE u.m_table[k]
      BY <2>4
    <3>2. k \in Int /\ k \in DOMAIN g[j].m_table
      BY <2>4, Sizes DEF L1Index, Books, Typed
    <3>3. g[j + 1].m_table[k] = IF k = i THEN e ELSE g[j].m_table[k]
      BY <2>5, <3>2
    <3>4. QED BY <1>1, <3>1, <3>2, <3>3
  <2>7. QED BY <2>1, <2>4, <2>5, <2>6
<1>8. Good(n)
  <2>1. n \in P
    <3> HIDE DEF P
    <3>1. QED BY <1>1, <1>6, <1>7, LoopInduction
  <2>2. QED BY <2>1
<1>9. n - n = 0 /\ first + n - 1 = last
  BY <1>1 DEF n
<1>10. Kept(w, {})
  BY <1>5, <1>8, <1>9, BooksBalance
<1>11. QED BY <1>5, <1>8, <1>9, <1>10 DEF w

--------------------------------------------------------------------------------
(* Merging subtables with the same cells.                                  *)

(* What merging may change: level 1 cells move to a subtable with the same *)
(* cells, and subtables go out of use.                                     *)
Merged(u, w) ==
  /\ w.cells = u.cells /\ w.error = u.error /\ w.opened = u.opened
  /\ \A i \in L1Index :
       \/ w.m_table[i] = u.m_table[i]
       \/ /\ w.m_table[i] \in Subtables /\ u.m_table[i] \in Subtables
          /\ u.cells[w.m_table[i]] = u.cells[u.m_table[i]]
  /\ \A r \in Subtables : w.m_usecount[r] # 0 => u.m_usecount[r] # 0

(* What two steps of merging change, one after the other, merging may      *)
(* change.                                                                 *)
LEMMA MergedMore ==
  ASSUME NEW u, NEW v, NEW w, Merged(u, v), Merged(v, w)
  PROVE  Merged(u, w)
BY DEF Merged

(* The users of a subtable are the level 1 cells that name it.             *)
LEMMA UsersAreCells ==
  ASSUME NEW u, NEW X, Kept(u, X), NEW s \in Subtables
  PROVE  /\ u.m_usecount[s] = Level1(u.m_table, s) /\ u.m_usecount[s] \in Nat
         /\ u.m_usecount[s] # 0 <=> \E i \in L1Index : u.m_table[i] = s
<1>1. u.m_usecount[s] \in Nat /\ Level1(u.m_table, s) \in Nat /\ Claimed(u, s) = 0
  BY Level1Has DEF Kept, Books, Typed
<1>2. u.m_usecount[s] = Level1(u.m_table, s)
  BY <1>1 DEF Claimed
<1>3. QED BY <1>1, <1>2, Level1Has

(* One user more for a subtable in use.                                    *)
LEMMA ReallocIs ==
  ASSUME NEW u, Typed(u), NEW s \in Subtables, u.m_usecount[s] # 0
  PROVE  LET w == subtable_realloc(u, s)
         IN  /\ Typed(w)
             /\ w.m_table = u.m_table /\ w.cells = u.cells
             /\ w.m_usecount = [u.m_usecount EXCEPT ![s] = @ + 1]
             /\ w.m_checksum = u.m_checksum /\ w.m_checksum_valid = u.m_checksum_valid
             /\ w.handler_refcount = u.handler_refcount /\ w.handler_free = u.handler_free
             /\ w.opened = u.opened /\ w.error = u.error
             /\ \A h \in Dynamic : Owed(w, h) = Owed(u, h)
<1> DEFINE w == subtable_realloc(u, s)
           V == [u.m_usecount EXCEPT ![s] = @ + 1]
<1>1. w = [u EXCEPT !.m_usecount[s] = @ + 1]
  BY DEF subtable_realloc
<1>2. /\ DOMAIN w = Fields
      /\ w.m_table = u.m_table /\ w.cells = u.cells /\ w.m_usecount = V
      /\ w.m_checksum = u.m_checksum /\ w.m_checksum_valid = u.m_checksum_valid
      /\ w.handler_refcount = u.handler_refcount /\ w.handler_free = u.handler_free
      /\ w.opened = u.opened /\ w.error = u.error
  BY <1>1 DEF Typed, Fields
<1> HIDE DEF w
<1>3. V \in [Subtables -> Nat] /\ V[s] # 0 /\ \A r \in Subtables : r # s => V[r] = u.m_usecount[r]
  BY DEF Typed
<1>4. Typed(w)
  BY <1>2, <1>3 DEF Typed
<1>5. ASSUME NEW h \in Dynamic PROVE Owed(w, h) = Owed(u, h)
  <2>1. Level2(V, u.cells, h) = Level2(u.m_usecount, u.cells, h)
    <3>1. SameButFor(s, V, u.m_usecount, u.cells, u.cells)
      BY <1>3 DEF SameButFor
    <3> HIDE DEF V
    <3>2. QED BY <1>3, <3>1, SameRows
  <2>2. QED BY <1>2, <2>1 DEF Owed
<1>6. QED BY <1>2, <1>4, <1>5 DEF w

(* One level 1 cell is moved from subtable d to subtable s of the same     *)
(* cells, the users and the handlers following.                            *)
LEMMA RepointCellIs ==
  ASSUME NEW u, NEW X, Kept(u, X), NEW s \in Subtables, NEW d \in Subtables, s # d,
         u.m_usecount[s] # 0, NEW i \in L1Index
  PROVE  LET w == RepointCell(s, d, u, i)
         IN  /\ Kept(w, X) /\ w.m_usecount[s] # 0
             /\ w.cells = u.cells /\ w.error = u.error /\ w.opened = u.opened
             /\ w.m_checksum_valid = u.m_checksum_valid
             /\ w.m_table = [u.m_table EXCEPT ![i] = IF @ = d THEN s ELSE @]
             /\ \A r \in Subtables : w.m_usecount[r] # 0 => u.m_usecount[r] # 0
<1> DEFINE w == RepointCell(s, d, u, i)
<1>1. CASE u.m_table[i] # d
  <2>1. w = u
    BY <1>1 DEF RepointCell
  <2>2. u.m_table = [u.m_table EXCEPT ![i] = IF @ = d THEN s ELSE @]
    BY <1>1 DEF Kept, Books, Typed
  <2>3. QED BY <2>1, <2>2
<1>2. CASE u.m_table[i] = d
  <2> DEFINE v == subtable_release(u, d)
             x == subtable_realloc(v, s)
  <2>1. w = [x EXCEPT !.m_table[i] = s]
    BY <1>2 DEF RepointCell
  <2>2. u.m_usecount[d] \in Nat \ {0} /\ \A r \in Subtables : u.m_usecount[r] \in Nat
    BY <1>2, UsersAreCells
  <2>3. Typed(v) /\ FreeKept(v, X) /\ Released(u, d, v)
    BY <2>2, BooksAreSound, ReleaseIs DEF Kept
  <2> HIDE DEF v
  <2>4. v.m_usecount[s] # 0
    BY <2>3 DEF Released, Kept, Books, Typed
  <2>5. /\ Typed(x)
        /\ x.m_table = v.m_table /\ x.cells = v.cells
        /\ x.m_usecount = [v.m_usecount EXCEPT ![s] = @ + 1]
        /\ x.m_checksum = v.m_checksum /\ x.m_checksum_valid = v.m_checksum_valid
        /\ x.handler_refcount = v.handler_refcount /\ x.handler_free = v.handler_free
        /\ x.opened = v.opened /\ x.error = v.error
        /\ \A h \in Dynamic : Owed(x, h) = Owed(v, h)
    BY <2>3, <2>4, ReallocIs
  <2> HIDE DEF x, w
  <2>6. /\ Typed(w)
        /\ w.m_table = [x.m_table EXCEPT ![i] = s] /\ w.cells = x.cells
        /\ w.m_usecount = x.m_usecount /\ w.m_checksum = x.m_checksum
        /\ w.m_checksum_valid = x.m_checksum_valid
        /\ w.handler_refcount = x.handler_refcount /\ w.handler_free = x.handler_free
        /\ w.opened = x.opened /\ w.error = x.error
        /\ \A h \in Dynamic : Owed(w, h) = Owed(x, h) + Hit(x.m_table[i], h) - Hit(s, h)
        /\ \A r \in Subtables : Claimed(w, r) = Claimed(x, r) + Hit(x.m_table[i], r) - Hit(s, r)
    BY <2>1, <2>5, CellMoves
  <2>7. x.m_table = u.m_table /\ x.m_table[i] = d
    BY <1>2, <2>3, <2>5 DEF Released
  <2>8. ASSUME NEW r \in Subtables
        PROVE  w.m_usecount[r] = u.m_usecount[r] - Hit(d, r) + Hit(s, r)
    <3>1. v.m_usecount[r] = u.m_usecount[r] - Hit(d, r) /\ v.m_usecount \in [Subtables -> Nat]
      BY <2>2, <2>3 DEF Released, Kept, Books, Typed, Hit
    <3>2. QED BY <2>2, <2>5, <2>6, <3>1 DEF Hit
  <2>9. ASSUME NEW h \in Dynamic PROVE Owed(w, h) = 0
    <3>1. Hit(d, h) = 0 /\ Hit(s, h) = 0
      BY Numbers DEF Hit
    <3>2. Owed(u, h) = 0
      BY DEF Kept, Books
    <3>3. QED BY <2>3, <2>5, <2>6, <2>7, <3>1, <3>2 DEF Released
  <2>10. ASSUME NEW r \in Subtables PROVE Claimed(w, r) = 0
    <3>1. Claimed(x, r) = Claimed(u, r) - Hit(d, r) + Hit(s, r)
      <4>1. Level1(u.m_table, r) \in Nat /\ Hit(d, r) \in Int /\ Hit(s, r) \in Int
        BY Level1Has DEF Hit
      <4>2. QED BY <2>2, <2>6, <2>7, <2>8, <4>1 DEF Claimed
    <3>2. Claimed(u, r) = 0 /\ Hit(d, r) \in Int /\ Hit(s, r) \in Int
      BY DEF Kept, Books, Hit
    <3>3. QED BY <2>6, <2>7, <3>1, <3>2
  <2>11. FreeKept(w, X)
    BY <2>3, <2>5, <2>6 DEF FreeKept, IsFree
  <2>12. ASSUME NEW r \in Subtables PROVE w.m_usecount[r] # 0 => u.m_usecount[r] # 0
    <3>1. w.m_usecount[r] = u.m_usecount[r] - Hit(d, r) + Hit(s, r)
      BY <2>8
    <3>2. r # d => Hit(d, r) = 0
      BY DEF Hit
    <3>3. r # s => Hit(s, r) = 0
      BY DEF Hit
    <3>4. QED BY <2>2, <3>1, <3>2, <3>3
  <2>13. ChecksumsHold(w)
    <3>1. SUFFICES ASSUME NEW r \in Subtables, w.m_checksum_valid[r], w.m_usecount[r] # 0
                   PROVE  w.m_checksum[r] = Checksum(w.cells[r])
      BY DEF ChecksumsHold
    <3>2. v.m_usecount[r] # 0
      BY <2>2, <2>4, <2>5, <2>6, <3>1
    <3>3. w.m_checksum[r] = u.m_checksum[r] /\ w.cells = u.cells /\ u.m_checksum_valid[r]
      BY <2>3, <2>5, <2>6, <3>1, <3>2 DEF Released
    <3>4. u.m_usecount[r] # 0
      BY <2>12, <3>1
    <3>5. QED BY <3>3, <3>4 DEF Kept, Books, ChecksumsHold
  <2>14. Kept(w, X)
    BY <2>6, <2>9, <2>10, <2>11, <2>13 DEF Kept, Books
  <2>15. /\ w.cells = u.cells /\ w.error = u.error /\ w.opened = u.opened
         /\ w.m_checksum_valid = u.m_checksum_valid
    BY <2>3, <2>5, <2>6 DEF Released
  <2>16. w.m_table = [u.m_table EXCEPT ![i] = IF @ = d THEN s ELSE @]
    BY <1>2, <2>6, <2>7
  <2>17. w.m_usecount[s] # 0
    BY <2>2, <2>8 DEF Hit
  <2>18. QED BY <2>12, <2>14, <2>15, <2>16, <2>17 DEF w
<1>3. QED BY <1>1, <1>2

(* The passes of a loop over the level 1 cells, or over the subtables.     *)
LEMMA LoopsAre ==
  /\ L1Size \in Nat /\ DOMAIN Interval(0, L1Size - 1) = 1 .. L1Size
  /\ \A k \in 1 .. L1Size : Interval(0, L1Size - 1)[k] = k - 1
  /\ L2Size \in Nat /\ DOMAIN Interval(0, L2Size - 1) = 1 .. L2Size
  /\ \A k \in 1 .. L2Size : Interval(0, L2Size - 1)[k] = k - 1
  /\ SUBTABLE_COUNT \in Nat /\ DOMAIN Slots = 1 .. SUBTABLE_COUNT
  /\ \A k \in 1 .. SUBTABLE_COUNT : Slots[k] = SUBTABLE_BASE + (k - 1)
<1>1. ASSUME NEW n \in Nat, NEW b \in Nat
      PROVE  /\ DOMAIN Interval(b, b + n - 1) = 1 .. n
             /\ \A k \in 1 .. n : Interval(b, b + n - 1)[k] = b + (k - 1)
  <2>1. b \in Int /\ b + n - 1 \in Int /\ (b + n - 1) - b + 1 = n
    OBVIOUS
  <2> DEFINE m == b + n - 1
  <2>2. m \in Int /\ m - b + 1 = n
    BY <2>1
  <2> HIDE DEF m
  <2>3. /\ DOMAIN Interval(b, m) = 1 .. (m - b + 1)
        /\ \A k \in 1 .. (m - b + 1) : Interval(b, m)[k] = b + (k - 1)
    BY <2>2, IntervalIs
  <2>4. QED BY <2>2, <2>3 DEF m
<1>2. L1Size \in Nat /\ L2Size \in Nat /\ 0 + L1Size - 1 = L1Size - 1 /\ 0 + L2Size - 1 = L2Size - 1
  BY Sizes
<1>3. /\ DOMAIN Interval(0, L1Size - 1) = 1 .. L1Size
      /\ \A k \in 1 .. L1Size : Interval(0, L1Size - 1)[k] = 0 + (k - 1)
  BY <1>1, <1>2
<1>4. /\ DOMAIN Interval(0, L2Size - 1) = 1 .. L2Size
      /\ \A k \in 1 .. L2Size : Interval(0, L2Size - 1)[k] = 0 + (k - 1)
  BY <1>1, <1>2
<1>5. /\ DOMAIN Slots = 1 .. SUBTABLE_COUNT
      /\ \A k \in 1 .. SUBTABLE_COUNT : Slots[k] = SUBTABLE_BASE + (k - 1)
  BY <1>1, Numbers DEF Slots
<1>6. QED BY <1>2, <1>3, <1>4, <1>5, Numbers

RepointCellStep(s, d, b, c, v, i) == RepointCell(s, d, v, i)

RepointFold == INSTANCE FoldInduction WITH Op <- RepointCellStep

(* All cells of d are moved to s: no address finds anything else, and d is *)
(* out of use.                                                             *)
LEMMA RepointIs ==
  ASSUME NEW u, NEW X, Kept(u, X), NEW s \in Subtables, NEW d \in Subtables, s # d,
         u.m_usecount[s] # 0, u.cells[s] = u.cells[d]
  PROVE  LET w == Repoint(u, s, d)
         IN  /\ Kept(w, X) /\ Merged(u, w) /\ w.m_usecount[d] = 0
             /\ w.m_checksum_valid = u.m_checksum_valid
<1> DEFINE w == Repoint(u, s, d)
           n == L1Size
<1>1. w = RepointFold!Fold(s, d, 0, 0, u, Interval(0, n - 1))
  BY DEF Repoint, RepointFold!Fold, RepointCellStep,
         FoldLeft, MapThenFoldSet, Max,
         RepointFold!Last
<1> HIDE DEF w
<1>2. /\ n \in Nat /\ DOMAIN Interval(0, n - 1) = 1 .. n
      /\ \A k \in 1 .. n : Interval(0, n - 1)[k] = k - 1
  BY LoopsAre
<1>a. RepointFold!Induction(n)
  BY <1>1, <1>2, LoopInduction DEF RepointFold!Induction
<1>3. PICK g : RepointFold!Passes(s, d, 0, 0, u, Interval(0, n - 1), n, g) /\ g[n] = w
  BY <1>1, <1>2, <1>a, RepointFold!FoldPasses
<1> DEFINE Good(j) ==
             /\ Kept(g[j], X) /\ g[j].m_usecount[s] # 0
             /\ g[j].cells = u.cells /\ g[j].error = u.error /\ g[j].opened = u.opened
             /\ g[j].m_checksum_valid = u.m_checksum_valid
             /\ \A i \in L1Index : g[j].m_table[i] =
                  IF i < j /\ u.m_table[i] = d THEN s ELSE u.m_table[i]
             /\ \A r \in Subtables : g[j].m_usecount[r] # 0 => u.m_usecount[r] # 0
           P == {j \in 0 .. n : Good(j)}
<1>4. 0 \in P
  <2>1. g[0] = u
    BY <1>3 DEF RepointFold!Passes
  <2>2. \A i \in L1Index : ~(i < 0)
    BY Sizes DEF L1Index
  <2>3. QED BY <1>2, <2>1, <2>2
<1>5. ASSUME NEW j \in 0 .. (n - 1), j \in P PROVE j + 1 \in P
  <2>1. j + 1 \in 1 .. n /\ j + 1 \in 0 .. n /\ (j + 1) - 1 = j /\ j \in L1Index
    BY <1>2 DEF L1Index
  <2>2. g[j + 1] = RepointCell(s, d, g[j], j)
    BY <1>2, <1>3, <2>1 DEF RepointFold!Passes, RepointCellStep
  <2>3. Good(j)
    BY <1>5
  <2>4. /\ Kept(g[j + 1], X) /\ g[j + 1].m_usecount[s] # 0
        /\ g[j + 1].cells = g[j].cells /\ g[j + 1].error = g[j].error
        /\ g[j + 1].opened = g[j].opened
        /\ g[j + 1].m_checksum_valid = g[j].m_checksum_valid
        /\ g[j + 1].m_table = [g[j].m_table EXCEPT ![j] = IF @ = d THEN s ELSE @]
        /\ \A r \in Subtables : g[j + 1].m_usecount[r] # 0 => g[j].m_usecount[r] # 0
    BY <2>1, <2>2, <2>3, RepointCellIs
  <2>5. ASSUME NEW i \in L1Index
        PROVE  g[j + 1].m_table[i] = IF i < j + 1 /\ u.m_table[i] = d THEN s ELSE u.m_table[i]
    <3>1. g[j].m_table[i] = IF i < j /\ u.m_table[i] = d THEN s ELSE u.m_table[i]
      BY <2>3
    <3>2. i \in DOMAIN g[j].m_table /\ j \in DOMAIN g[j].m_table
      BY <2>1, <2>3 DEF Kept, Books, Typed
    <3>3. g[j + 1].m_table[i] =
            IF i = j THEN (IF g[j].m_table[i] = d THEN s ELSE g[j].m_table[i]) ELSE g[j].m_table[i]
      BY <2>4, <3>2
    <3>4. i \in Int /\ j \in Int /\ (i < j + 1 <=> i < j \/ i = j)
      BY <2>1, Sizes DEF L1Index
    <3>5. QED BY <3>1, <3>3, <3>4
  <2>6. QED BY <2>1, <2>3, <2>4, <2>5
<1>6. Good(n)
  <2>1. n \in P
    <3> HIDE DEF P, n
    <3>1. QED BY <1>2, <1>4, <1>5, LoopInduction
  <2>2. QED BY <2>1
<1>7. \A i \in L1Index : w.m_table[i] = IF u.m_table[i] = d THEN s ELSE u.m_table[i]
  <2>1. \A i \in L1Index : i < n
    BY Sizes DEF L1Index
  <2>2. QED BY <1>3, <1>6, <2>1
<1>8. Kept(w, X) /\ w.m_checksum_valid = u.m_checksum_valid
  BY <1>3, <1>6
<1>9. w.m_usecount[d] = 0
  <2>1. \A i \in L1Index : w.m_table[i] # d
    BY <1>7
  <2>2. QED BY <1>8, <2>1, UsersAreCells
<1>10. Merged(u, w)
  BY <1>3, <1>6, <1>7 DEF Merged
<1>11. QED BY <1>8, <1>9, <1>10 DEF w

(* All checksums of subtables in use hold.                                 *)
AllSummed(u) == \A r \in Subtables : u.m_usecount[r] # 0 => u.m_checksum_valid[r]

(* s and d are not both in use with the same cells.                        *)
ToldApart(u, s, d) ==
  ~(u.m_usecount[s] # 0 /\ u.m_usecount[d] # 0 /\ u.cells[s] = u.cells[d])

(* Subtables told apart stay so while others are merged: no cells change   *)
(* and none comes into use.                                                *)
LEMMA StillApart ==
  ASSUME NEW u, NEW w, Merged(u, w), NEW s \in Subtables, NEW d \in Subtables,
         ToldApart(u, s, d)
  PROVE  ToldApart(w, s, d)
BY DEF Merged, ToldApart

(* The checksums are brought up to date and nothing else changes.          *)
LEMMA SumsAre ==
  ASSUME NEW u, NEW X, Kept(u, X)
  PROVE  LET w == UpdateChecksums(u) IN Kept(w, X) /\ Merged(u, w) /\ AllSummed(w)
<1> DEFINE w == UpdateChecksums(u)
           stale == {s \in Subtables : ~u.m_checksum_valid[s] /\ u.m_usecount[s] # 0}
           sums == [s \in Subtables |->
                      IF s \in stale THEN Checksum(u.cells[s]) ELSE u.m_checksum[s]]
           valid == [s \in Subtables |-> s \in stale \/ u.m_checksum_valid[s]]
<1>1. w = [u EXCEPT !.m_checksum = sums, !.m_checksum_valid = valid]
  BY DEF UpdateChecksums
<1>2. /\ DOMAIN w = Fields
      /\ w.m_table = u.m_table /\ w.cells = u.cells /\ w.m_usecount = u.m_usecount
      /\ w.m_checksum = sums /\ w.m_checksum_valid = valid
      /\ w.handler_refcount = u.handler_refcount /\ w.handler_free = u.handler_free
      /\ w.opened = u.opened /\ w.error = u.error
  <2> HIDE DEF sums, valid
  <2>1. QED BY <1>1 DEF Kept, Books, Typed, Fields
<1> HIDE DEF w
<1>3. valid \in [Subtables -> BOOLEAN] /\ DOMAIN sums = Subtables
  BY DEF Kept, Books, Typed
<1>4. Typed(w)
  BY <1>2, <1>3 DEF Kept, Books, Typed
<1>5. FreeKept(w, X)
  BY <1>2 DEF Kept, Books, FreeKept, IsFree
<1>6. ChecksumsHold(w) /\ AllSummed(w)
  <2>1. ASSUME NEW s \in Subtables, w.m_usecount[s] # 0
        PROVE  w.m_checksum_valid[s] /\ w.m_checksum[s] = Checksum(w.cells[s])
    <3>1. CASE s \in stale
      BY <1>2, <3>1
    <3>2. CASE s \notin stale
      <4>1. u.m_checksum_valid[s] /\ u.m_usecount[s] # 0
        BY <1>2, <2>1, <3>2 DEF Kept, Books, Typed
      <4>2. u.m_checksum[s] = Checksum(u.cells[s])
        BY <4>1 DEF Kept, Books, ChecksumsHold
      <4>3. QED BY <1>2, <3>2, <4>1, <4>2
    <3>3. QED BY <3>1, <3>2
  <2>2. QED BY <2>1 DEF ChecksumsHold, AllSummed
<1>7. /\ \A h \in Dynamic : Owed(w, h) = Owed(u, h)
      /\ \A s \in Subtables : Claimed(w, s) = Claimed(u, s)
  BY <1>2 DEF Owed, Claimed
<1>8. Kept(w, X)
  BY <1>4, <1>5, <1>6, <1>7 DEF Kept, Books
<1>9. Merged(u, w)
  BY <1>2 DEF Merged
<1>10. QED BY <1>6, <1>8, <1>9 DEF w

(* After a pair is compared it is told apart: by checksums that differ, by *)
(* cells that differ, or because it was merged.                            *)
LEMMA PairIs ==
  ASSUME NEW u, NEW X, Kept(u, X), AllSummed(u), NEW s \in Subtables, NEW d \in Subtables
  PROVE  LET w == MergePair(s, u, d)
         IN  /\ Kept(w, X) /\ Merged(u, w) /\ AllSummed(w)
             /\ d > s => ToldApart(w, s, d)
<1> DEFINE w == MergePair(s, u, d)
<1>1. CASE ~(d > s)
  BY <1>1 DEF MergePair, Merged
<1>2. CASE d > s /\ ~Mergeable(u, s, d)
  <2>1. w = u
    BY <1>2 DEF MergePair
  <2>2. ToldApart(u, s, d)
    <3>1. SUFFICES ASSUME u.m_usecount[s] # 0, u.m_usecount[d] # 0, u.cells[s] = u.cells[d]
                   PROVE  FALSE
      BY DEF ToldApart
    <3>2. u.m_checksum[s] = Checksum(u.cells[s]) /\ u.m_checksum[d] = Checksum(u.cells[d])
      BY <3>1 DEF AllSummed, Kept, Books, ChecksumsHold
    <3>3. QED BY <1>2, <3>1, <3>2 DEF Mergeable
  <2>3. QED BY <2>1, <2>2 DEF Merged
<1>3. CASE d > s /\ Mergeable(u, s, d)
  <2>1. /\ w = Repoint(u, s, d) /\ s # d
        /\ u.m_usecount[s] # 0 /\ u.cells[s] = u.cells[d]
    BY <1>3, Numbers DEF MergePair, Mergeable, Subtables
  <2>2. /\ Kept(w, X) /\ Merged(u, w) /\ w.m_usecount[d] = 0
        /\ w.m_checksum_valid = u.m_checksum_valid
    BY <2>1, RepointIs
  <2> HIDE DEF w
  <2>3. AllSummed(w)
    BY <2>2 DEF AllSummed, Merged
  <2>4. QED BY <2>2, <2>3 DEF ToldApart, w
<1>4. QED BY <1>1, <1>2, <1>3

MergePairStep(s, b, c, e, w, d) == MergePair(s, w, d)

PairFold == INSTANCE FoldInduction WITH Op <- MergePairStep

(* The subtables of the first passes of a loop over them.                  *)
FirstSlots(j) == {s \in Subtables : s < SUBTABLE_BASE + j}

(* Passing the slots one by one passes them all.                           *)
LEMMA SlotsPassed ==
  /\ FirstSlots(0) = {} /\ FirstSlots(SUBTABLE_COUNT) = Subtables
  /\ \A j \in 0 .. (SUBTABLE_COUNT - 1) :
       SUBTABLE_BASE + j \in Subtables /\ FirstSlots(j + 1) = FirstSlots(j) \cup {SUBTABLE_BASE + j}
<1>1. SUBTABLE_BASE \in Nat /\ SUBTABLE_COUNT \in Nat
  BY Numbers
<1>2. FirstSlots(0) = {} /\ FirstSlots(SUBTABLE_COUNT) = Subtables
  BY <1>1 DEF FirstSlots, Subtables
<1>3. ASSUME NEW j \in 0 .. (SUBTABLE_COUNT - 1)
      PROVE  /\ SUBTABLE_BASE + j \in Subtables
             /\ FirstSlots(j + 1) = FirstSlots(j) \cup {SUBTABLE_BASE + j}
  BY <1>1 DEF FirstSlots, Subtables
<1>4. QED BY <1>2, <1>3

(* All that can be merged into s is, and s is told apart from each         *)
(* subtable after it.                                                      *)
LEMMA MergeIntoIs ==
  ASSUME NEW u, NEW X, Kept(u, X), AllSummed(u), NEW s \in Subtables
  PROVE  LET w == MergeInto(u, s)
         IN  /\ Kept(w, X) /\ Merged(u, w) /\ AllSummed(w)
             /\ \A d \in Subtables : d > s => ToldApart(w, s, d)
<1> DEFINE w == MergeInto(u, s)
           n == SUBTABLE_COUNT
<1>1. w = PairFold!Fold(s, 0, 0, 0, u, Slots)
  BY DEF MergeInto, PairFold!Fold, MergePairStep,
         FoldLeft, MapThenFoldSet, Max,
         PairFold!Last
<1> HIDE DEF w
<1>2. n \in Nat /\ DOMAIN Slots = 1 .. n /\ \A k \in 1 .. n : Slots[k] = SUBTABLE_BASE + (k - 1)
  BY LoopsAre
<1>a. PairFold!Induction(n)
  BY <1>1, <1>2, LoopInduction DEF PairFold!Induction
<1>3. PICK g : PairFold!Passes(s, 0, 0, 0, u, Slots, n, g) /\ g[n] = w
  BY <1>1, <1>2, <1>a, PairFold!FoldPasses
<1> DEFINE Good(j) ==
             /\ Kept(g[j], X) /\ Merged(u, g[j]) /\ AllSummed(g[j])
             /\ \A d \in FirstSlots(j) : d > s => ToldApart(g[j], s, d)
           P == {j \in 0 .. n : Good(j)}
<1>4. 0 \in P
  <2>1. g[0] = u /\ Merged(u, u)
    BY <1>3 DEF PairFold!Passes, Merged
  <2>2. QED BY <1>2, <2>1, SlotsPassed
<1>5. ASSUME NEW j \in 0 .. (n - 1), j \in P PROVE j + 1 \in P
  <2> DEFINE d == SUBTABLE_BASE + j
  <2>1. /\ j + 1 \in 1 .. n /\ j + 1 \in 0 .. n /\ (j + 1) - 1 = j
        /\ d \in Subtables /\ FirstSlots(j + 1) = FirstSlots(j) \cup {d}
    BY <1>2, SlotsPassed
  <2>2. g[j + 1] = MergePair(s, g[j], d)
    BY <1>2, <1>3, <2>1 DEF PairFold!Passes, MergePairStep
  <2>3. Good(j)
    BY <1>5
  <2> HIDE DEF d
  <2>4. /\ Kept(g[j + 1], X) /\ Merged(g[j], g[j + 1]) /\ AllSummed(g[j + 1])
        /\ d > s => ToldApart(g[j + 1], s, d)
    BY <2>1, <2>2, <2>3, PairIs
  <2>5. Merged(u, g[j + 1])
    BY <2>3, <2>4, MergedMore
  <2>6. ASSUME NEW r \in FirstSlots(j), r > s PROVE ToldApart(g[j + 1], s, r)
    <3>1. r \in Subtables /\ ToldApart(g[j], s, r)
      BY <2>3, <2>6 DEF FirstSlots
    <3>2. QED BY <2>4, <3>1, StillApart
  <2>7. QED BY <2>1, <2>4, <2>5, <2>6
<1>6. Good(n)
  <2>1. n \in P
    <3> HIDE DEF P
    <3>1. QED BY <1>2, <1>4, <1>5, LoopInduction
  <2>2. QED BY <2>1
<1>7. QED BY <1>3, <1>6, SlotsPassed DEF w

MergeIntoStep(a, b, c, d, v, s) == MergeInto(v, s)

MergeFold == INSTANCE FoldInduction WITH Op <- MergeIntoStep

(* Merging leaves no two subtables in use with the same cells.             *)
LEMMA MergeIs ==
  ASSUME NEW u, NEW X, Kept(u, X)
  PROVE  LET w == subtable_merge(u)
         IN  /\ Kept(w, X) /\ Merged(u, w)
             /\ \A s, d \in Subtables : d > s => ToldApart(w, s, d)
<1> DEFINE w == subtable_merge(u)
           base == UpdateChecksums(u)
           n == SUBTABLE_COUNT
<1>1. w = MergeFold!Fold(0, 0, 0, 0, base, Slots)
  BY DEF subtable_merge, MergeFold!Fold, MergeIntoStep,
         FoldLeft, MapThenFoldSet, Max,
         MergeFold!Last
<1>2. Kept(base, X) /\ Merged(u, base) /\ AllSummed(base)
  BY SumsAre
<1> HIDE DEF w, base
<1>3. n \in Nat /\ DOMAIN Slots = 1 .. n /\ \A k \in 1 .. n : Slots[k] = SUBTABLE_BASE + (k - 1)
  BY LoopsAre
<1>a. MergeFold!Induction(n)
  BY <1>1, <1>3, LoopInduction DEF MergeFold!Induction
<1>4. PICK g : MergeFold!Passes(0, 0, 0, 0, base, Slots, n, g) /\ g[n] = w
  BY <1>1, <1>3, <1>a, MergeFold!FoldPasses
<1> DEFINE Good(j) ==
             /\ Kept(g[j], X) /\ Merged(u, g[j]) /\ AllSummed(g[j])
             /\ \A s \in FirstSlots(j) : \A d \in Subtables : d > s => ToldApart(g[j], s, d)
           P == {j \in 0 .. n : Good(j)}
<1>5. 0 \in P
  <2>1. g[0] = base
    BY <1>4 DEF MergeFold!Passes
  <2>2. QED BY <1>2, <1>3, <2>1, SlotsPassed
<1>6. ASSUME NEW j \in 0 .. (n - 1), j \in P PROVE j + 1 \in P
  <2> DEFINE s == SUBTABLE_BASE + j
  <2>1. /\ j + 1 \in 1 .. n /\ j + 1 \in 0 .. n /\ (j + 1) - 1 = j
        /\ s \in Subtables /\ FirstSlots(j + 1) = FirstSlots(j) \cup {s}
    BY <1>3, SlotsPassed
  <2>2. g[j + 1] = MergeInto(g[j], s)
    BY <1>3, <1>4, <2>1 DEF MergeFold!Passes, MergeIntoStep
  <2>3. Good(j)
    BY <1>6
  <2> HIDE DEF s
  <2>4. /\ Kept(g[j + 1], X) /\ Merged(g[j], g[j + 1]) /\ AllSummed(g[j + 1])
        /\ \A d \in Subtables : d > s => ToldApart(g[j + 1], s, d)
    BY <2>1, <2>2, <2>3, MergeIntoIs
  <2>5. Merged(u, g[j + 1])
    BY <2>3, <2>4, MergedMore
  <2>6. ASSUME NEW r \in FirstSlots(j), NEW d \in Subtables, d > r
        PROVE  ToldApart(g[j + 1], r, d)
    <3>1. r \in Subtables /\ ToldApart(g[j], r, d)
      BY <2>3, <2>6 DEF FirstSlots
    <3>2. QED BY <2>4, <3>1, StillApart
  <2>7. QED BY <2>1, <2>4, <2>5, <2>6
<1>7. Good(n)
  <2>1. n \in P
    <3> HIDE DEF P
    <3>1. QED BY <1>3, <1>5, <1>6, LoopInduction
  <2>2. QED BY <2>1
<1>8. QED BY <1>4, <1>7, SlotsPassed DEF w

(* All subtables are in use, and no two of them have the same cells.       *)
AllDiffer(u) ==
  /\ \A s \in Subtables : u.m_usecount[s] # 0
  /\ \A s, d \in Subtables : u.cells[s] = u.cells[d] => s = d

(* Before an allocation: a subtable is unused, or all are needed.          *)
LEMMA PrepareIs ==
  ASSUME NEW u, NEW X, Kept(u, X)
  PROVE  LET v == PrepareAlloc(u)
         IN  Kept(v, X) /\ Merged(u, v) /\ (Unused(v) = {} => AllDiffer(v))
<1> DEFINE v == PrepareAlloc(u)
<1>1. CASE Unused(u) # {}
  BY <1>1 DEF PrepareAlloc, Merged
<1>2. CASE Unused(u) = {}
  <2>1. v = subtable_merge(u)
    BY <1>2 DEF PrepareAlloc
  <2> HIDE DEF v
  <2>2. /\ Kept(v, X) /\ Merged(u, v)
        /\ \A s, d \in Subtables : d > s => ToldApart(v, s, d)
    BY <2>1, MergeIs
  <2>3. ASSUME Unused(v) = {} PROVE AllDiffer(v)
    <3>1. \A s \in Subtables : v.m_usecount[s] # 0
      BY <2>3 DEF Unused
    <3>2. \A s, d \in Subtables : d > s \/ s > d \/ s = d
      BY Numbers DEF Subtables
    <3>3. QED BY <2>2, <3>1, <3>2 DEF AllDiffer, ToldApart
  <2>4. QED BY <2>2, <2>3 DEF v
<1>3. QED BY <1>1, <1>2

--------------------------------------------------------------------------------
(* Opening a subtable for one level 1 cell.                                *)

(* A subtable that was unused gets a row of cells and a first user.        *)
LEMMA Joins ==
  ASSUME NEW v, NEW X, Kept(v, X), NEW s \in Subtables, v.m_usecount[s] = 0,
         NEW row, NEW w,
         w.m_table = v.m_table, w.m_usecount = [v.m_usecount EXCEPT ![s] = 1],
         w.cells = [v.cells EXCEPT ![s] = row],
         \A h \in Dynamic : w.handler_refcount[h] \in Nat
  PROVE  /\ \A h \in Dynamic :
              /\ InRow(row, h) \in Nat
              /\ Owed(w, h) = w.handler_refcount[h] - v.handler_refcount[h] - InRow(row, h)
         /\ \A r \in Subtables : Claimed(w, r) = Hit(s, r)
<1> DEFINE U == v.m_usecount
           V == [U EXCEPT ![s] = 1]
           C == v.cells
           D == [C EXCEPT ![s] = row]
<1>1. V[s] = 1 /\ D[s] = row /\ U[s] = 0 /\ SameButFor(s, U, V, C, D)
      /\ \A r \in Subtables : V[r] = IF r = s THEN 1 ELSE U[r]
  BY DEF Kept, Books, Typed, SameButFor
<1>2. w.m_usecount = V /\ w.cells = D
  OBVIOUS
<1>3. ASSUME NEW h \in Dynamic
      PROVE  Level2(V, D, h) = Level2(U, C, h) + InRow(row, h) /\ InRow(row, h) \in Nat
  <2> HIDE DEF U, V, C, D
  <2>1. V[s] # 0
    BY <1>1
  <2>2. Level2(V, D, h) = Level2(U, C, h) + InRow(D[s], h) /\ InRow(D[s], h) \in Nat
    BY <1>1, <2>1, RowJoins
  <2>3. QED BY <1>1, <2>2
<1>4. ASSUME NEW h \in Dynamic
      PROVE  Owed(w, h) = w.handler_refcount[h] - v.handler_refcount[h] - InRow(row, h)
  <2>1. /\ Level1(v.m_table, h) \in Nat /\ Level2(U, C, h) \in Nat
        /\ v.handler_refcount[h] \in Nat /\ Owed(v, h) = 0
    BY Level1Has, Level2Has DEF Kept, Books, Typed
  <2> HIDE DEF V, D
  <2>2. w.handler_refcount[h] \in Nat
    OBVIOUS
  <2>3. QED BY <1>2, <1>3, <2>1, <2>2 DEF Owed
<1>5. ASSUME NEW r \in Subtables PROVE Claimed(w, r) = Hit(s, r)
  <2>1. U[r] \in Nat /\ Level1(v.m_table, r) \in Nat /\ U[r] = Level1(v.m_table, r)
    BY UsersAreCells, Level1Has
  <2>2. w.m_usecount[r] = IF r = s THEN 1 ELSE U[r]
    BY <1>1, <1>2
  <2> HIDE DEF V, D
  <2>3. Claimed(w, r) = IF r = s THEN 1 ELSE 0
    BY <1>1, <2>1, <2>2 DEF Claimed
  <2>4. QED BY <2>3 DEF Hit
<1>6. QED BY <1>3, <1>4, <1>5

(* A subtable about to be written to has no checksum that could be wrong.  *)
Settled(z) ==
  (\A h \in Dynamic : Owed(z, h) = 0) /\ (\A r \in Subtables : Claimed(z, r) = 0)

SummedBut(z, s) ==
  \A r \in Subtables : r # s /\ z.m_checksum_valid[r] /\ z.m_usecount[r] # 0 =>
                         z.m_checksum[r] = Checksum(z.cells[r])

Dirtied(z, s, w) ==
  /\ DOMAIN w = Fields
  /\ w.m_table = z.m_table /\ w.cells = z.cells /\ w.m_usecount = z.m_usecount
  /\ w.handler_refcount = z.handler_refcount /\ w.handler_free = z.handler_free
  /\ DOMAIN w.m_checksum = Subtables
  /\ \A r \in Subtables : r # s => w.m_checksum[r] = z.m_checksum[r]
  /\ w.m_checksum_valid = [z.m_checksum_valid EXCEPT ![s] = FALSE]

(* Books that balance but for the checksum of s balance when the checksum  *)
(* is no longer valid.                                                     *)
LEMMA DirtyIs ==
  ASSUME NEW z, NEW X, Typed(z), FreeKept(z, X), NEW s \in Subtables,
         Settled(z), SummedBut(z, s), NEW w, Dirtied(z, s, w)
  PROVE  Kept(w, X) /\ ~w.m_checksum_valid[s]
<1> USE DEF Settled, SummedBut, Dirtied
<1>1. ~w.m_checksum_valid[s] /\ Typed(w)
  BY DEF Typed
<1>2. FreeKept(w, X)
  BY DEF FreeKept, IsFree
<1>3. ChecksumsHold(w)
  <2>1. SUFFICES ASSUME NEW r \in Subtables, w.m_checksum_valid[r], w.m_usecount[r] # 0
                 PROVE  w.m_checksum[r] = Checksum(w.cells[r])
    BY DEF ChecksumsHold
  <2>2. r # s /\ z.m_checksum_valid[r]
    BY <1>1, <2>1 DEF Typed
  <2>3. QED BY <2>1, <2>2
<1>4. /\ \A h \in Dynamic : Owed(w, h) = 0
      /\ \A r \in Subtables : Claimed(w, r) = 0
  BY DEF Owed, Claimed
<1>5. QED BY <1>1, <1>2, <1>3, <1>4 DEF Kept, Books

(* Level 1 cell i has a subtable of its own, and every address finds what  *)
(* it found before.                                                        *)
Opened(v, i, w) ==
  /\ w.m_table[i] = w.opened /\ w.opened \in Subtables
  /\ w.m_usecount[w.opened] = 1 /\ ~w.m_checksum_valid[w.opened]
  /\ w.error = v.error
  /\ \A k \in L1Index, c \in L2Index : Cell(w, k, c) = Cell(v, k, c)

(* The other level 1 cells name what they named.                           *)
OthersStay(v, i, w) == \A k \in L1Index : k # i => w.m_table[k] = v.m_table[k]

(* The state in which subtable_alloc leaves v.                             *)
Allocated(v, s) == [v EXCEPT !.m_usecount[s] = 1, !.opened = s]

(* What subtable_alloc sets: one user for the subtable taken, and nothing  *)
(* else.                                                                   *)
LEMMA AllocatedIs ==
  ASSUME NEW v, NEW X, Kept(v, X), NEW s \in Subtables
  PROVE  LET u == Allocated(v, s)
         IN  /\ Typed(u) /\ FreeKept(u, X) /\ u.m_usecount = [v.m_usecount EXCEPT ![s] = 1]
             /\ u.opened = s /\ u.error = v.error /\ u.m_table = v.m_table /\ u.cells = v.cells
             /\ u.m_checksum = v.m_checksum /\ u.m_checksum_valid = v.m_checksum_valid
             /\ u.handler_refcount = v.handler_refcount /\ u.handler_free = v.handler_free
<1> DEFINE u == Allocated(v, s)
           V == [v.m_usecount EXCEPT ![s] = 1]
<1>1. /\ DOMAIN u = Fields /\ u.m_usecount = V
      /\ u.opened = s /\ u.error = v.error /\ u.m_table = v.m_table /\ u.cells = v.cells
      /\ u.m_checksum = v.m_checksum /\ u.m_checksum_valid = v.m_checksum_valid
      /\ u.handler_refcount = v.handler_refcount /\ u.handler_free = v.handler_free
  BY DEF Allocated, Kept, Books, Typed, Fields
<1> HIDE DEF u
<1>2. V \in [Subtables -> Nat]
  BY DEF Kept, Books, Typed
<1>3. Typed(u) /\ FreeKept(u, X)
  BY <1>1, <1>2 DEF Kept, Books, Typed, FreeKept, IsFree
<1>4. QED BY <1>1, <1>3 DEF u

(* A handler that some place holds is not free, and not one being taken.   *)
LEMMA HeldIsBusy ==
  ASSUME NEW u, NEW X, Kept(u, X), NEW e \in Entries,
         \/ \E i \in L1Index : u.m_table[i] = e
         \/ \E s \in Subtables, c \in L2Index : u.m_usecount[s] # 0 /\ u.cells[s][c] = e
  PROVE  ~IsFree(u, e) /\ (e \in Dynamic => u.handler_refcount[e] # 0 /\ e \notin X)
<1>1. CASE e \in Dynamic
  <2>1. /\ Level1(u.m_table, e) \in Nat /\ Level2(u.m_usecount, u.cells, e) \in Nat
        /\ Level1(u.m_table, e) # 0 \/ Level2(u.m_usecount, u.cells, e) # 0
    BY Level1Has, Level2Has
  <2>2. Owed(u, e) = 0 /\ u.handler_refcount[e] \in Nat
    BY <1>1 DEF Kept, Books, Typed
  <2>3. u.handler_refcount[e] # 0
    BY <2>1, <2>2 DEF Owed
  <2>4. QED BY <1>1, <2>3 DEF Kept, Books, FreeKept
<1>2. CASE e \notin Dynamic
  BY <1>2 DEF Kept, Books, Typed, IsFree
<1>3. QED BY <1>1, <1>2

(* The new subtable is filled with the entry that the whole block had.     *)
LEMMA FillNewIs ==
  ASSUME NEW v, NEW X, Kept(v, X), NEW s \in Subtables, v.m_usecount[s] = 0,
         NEW i \in L1Index, v.m_table[i] \notin Subtables
  PROVE  LET w == MarkDirty(FillNew(Allocated(v, s), i), s)
         IN  Kept(w, X) /\ Opened(v, i, w) /\ OthersStay(v, i, w)
<1> DEFINE u == Allocated(v, s)
           old == v.m_table[i]
           row == [c \in L2Index |-> old]
           n == L2Size - 1
           r == handler_ref(u, old, n)
           y == [r EXCEPT !.cells[s] = row]
           z == [y EXCEPT !.m_table[i] = s]
           w == MarkDirty(FillNew(u, i), s)
<1>1. /\ Typed(u) /\ FreeKept(u, X) /\ u.m_usecount = [v.m_usecount EXCEPT ![s] = 1]
      /\ u.opened = s /\ u.error = v.error /\ u.m_table = v.m_table /\ u.cells = v.cells
      /\ u.m_checksum = v.m_checksum /\ u.m_checksum_valid = v.m_checksum_valid
      /\ u.handler_refcount = v.handler_refcount /\ u.handler_free = v.handler_free
  BY AllocatedIs
<1> HIDE DEF u
<1>2. old \in Entries /\ L2Size - 1 \in Nat
  BY Sizes DEF Kept, Books, Typed
<1>3. ~IsFree(u, old) /\ (old \notin X \/ old \notin Dynamic)
  <2>1. ~IsFree(v, old) /\ (old \in Dynamic => old \notin X)
    BY <1>2, HeldIsBusy
  <2>2. QED BY <1>1, <2>1 DEF IsFree
<1>4. L2Size - 1 = 0 \/ ~IsFree(u, old)
  <2>1. old \notin Dynamic => ~IsFree(u, old)
    BY <1>1 DEF Typed, IsFree
  <2>2. QED BY <1>3, <2>1
<1>5. /\ Typed(r) /\ Unmoved(u, r) /\ r.handler_free = u.handler_free
      /\ (n = 0 => FreeKept(r, X)) /\ (n # 0 => FreeKept(r, X \ {old}))
      /\ \A h \in Dynamic : r.handler_refcount[h] =
                              u.handler_refcount[h] + (IF h = old THEN L2Size - 1 ELSE 0)
  <2>1. n \in Nat /\ old \in Entries /\ (n = 0 \/ ~IsFree(u, old)) /\ Typed(u) /\ FreeKept(u, X)
    BY <1>1, <1>2, <1>4
  <2> HIDE DEF n, old
  <2>2. /\ Typed(r) /\ Unmoved(u, r) /\ r.handler_free = u.handler_free
        /\ (n = 0 => FreeKept(r, X)) /\ (n # 0 => FreeKept(r, X \ {old}))
        /\ \A h \in Dynamic : r.handler_refcount[h] =
                                u.handler_refcount[h] + (IF h = old THEN n ELSE 0)
    BY <2>1, RefIs
  <2>3. QED BY <2>2 DEF n
<1>6. w = [[FillNew(u, i) EXCEPT !.m_checksum_valid[s] = FALSE] EXCEPT !.opened = s]
  BY DEF MarkDirty
<1>7. FillNew(u, i) = [r EXCEPT !.cells[s] = row, !.m_table[i] = s,
                                !.m_checksum[s] = old * (L2Size \div 4)]
  BY <1>1 DEF FillNew
<1> HIDE DEF r, w
<1>8. FreeKept(r, X)
  <2>1. CASE old \in Dynamic
    <3>1. old \notin X
      BY <1>3, <2>1
    <3>2. X \ {old} = X
      BY <3>1
    <3>3. QED BY <1>5, <3>2
  <2>2. CASE old \notin Dynamic
    BY <1>5, <2>2 DEF FreeKept
  <2>3. QED BY <2>1, <2>2
<1>9. /\ DOMAIN y = Fields
      /\ y.m_table = v.m_table /\ y.cells = [v.cells EXCEPT ![s] = row]
      /\ y.m_usecount = [v.m_usecount EXCEPT ![s] = 1]
      /\ y.m_checksum = v.m_checksum /\ y.m_checksum_valid = v.m_checksum_valid
      /\ y.handler_refcount = r.handler_refcount /\ y.handler_free = r.handler_free
      /\ y.opened = s /\ y.error = v.error
  <2> HIDE DEF row
  <2>1. QED BY <1>1, <1>5 DEF Unmoved, Typed, Fields
<1>10. /\ DOMAIN w = Fields
       /\ w.m_table = [v.m_table EXCEPT ![i] = s] /\ w.cells = [v.cells EXCEPT ![s] = row]
       /\ w.m_usecount = [v.m_usecount EXCEPT ![s] = 1]
       /\ w.m_checksum = [v.m_checksum EXCEPT ![s] = old * (L2Size \div 4)]
       /\ w.m_checksum_valid = [v.m_checksum_valid EXCEPT ![s] = FALSE]
       /\ w.handler_refcount = r.handler_refcount /\ w.handler_free = r.handler_free
       /\ w.opened = s /\ w.error = v.error
  <2> DEFINE f == FillNew(u, i)
             k == old * (L2Size \div 4)
  <2> HIDE DEF row, old, k
  <2>1. f = [r EXCEPT !.cells[s] = row, !.m_table[i] = s, !.m_checksum[s] = k]
    BY <1>7 DEF k
  <2>0. /\ r.m_table = v.m_table /\ r.cells = v.cells /\ r.error = v.error
        /\ r.m_usecount = [v.m_usecount EXCEPT ![s] = 1] /\ r.m_checksum = v.m_checksum
        /\ r.m_checksum_valid = v.m_checksum_valid /\ DOMAIN r = Fields
    BY <1>1, <1>5 DEF Unmoved, Typed
  <2>2. /\ DOMAIN f = Fields
        /\ f.m_table = [v.m_table EXCEPT ![i] = s] /\ f.cells = [v.cells EXCEPT ![s] = row]
        /\ f.m_usecount = [v.m_usecount EXCEPT ![s] = 1]
        /\ f.m_checksum = [v.m_checksum EXCEPT ![s] = k]
        /\ f.m_checksum_valid = v.m_checksum_valid
        /\ f.handler_refcount = r.handler_refcount /\ f.handler_free = r.handler_free
        /\ f.error = v.error
    BY <2>0, <2>1 DEF Fields
  <2> HIDE DEF f
  <2>3. w = [[f EXCEPT !.m_checksum_valid[s] = FALSE] EXCEPT !.opened = s]
    BY <1>6 DEF f
  <2>4. QED BY <2>2, <2>3 DEF Fields, k
<1> HIDE DEF y
<1>11. Typed(y)
  <2>1. row \in [L2Index -> Entries]
    BY <1>2
  <2>2. y.cells \in [Subtables -> [L2Index -> Entries]]
    <3> HIDE DEF row
    <3>1. QED BY <1>9, <2>1 DEF Kept, Books, Typed
  <2>3. y.m_usecount \in [Subtables -> Nat]
    BY <1>1, <1>9 DEF Typed
  <2>4. QED BY <1>5, <1>9, <2>2, <2>3 DEF Kept, Books, Typed
<1>12. FreeKept(y, X)
  BY <1>8, <1>9 DEF FreeKept, IsFree
<1>13. /\ \A h \in Dynamic :
            /\ InRow(row, h) \in Nat
            /\ Owed(y, h) = y.handler_refcount[h] - v.handler_refcount[h] - InRow(row, h)
       /\ \A q \in Subtables : Claimed(y, q) = Hit(s, q)
  <2>1. \A h \in Dynamic : y.handler_refcount[h] \in Nat
    BY <1>11 DEF Typed
  <2> HIDE DEF row
  <2>2. QED BY <1>9, <2>1, Joins
<1>14. /\ Typed(z)
       /\ z.m_table = [y.m_table EXCEPT ![i] = s] /\ z.cells = y.cells
       /\ z.m_usecount = y.m_usecount /\ z.m_checksum = y.m_checksum
       /\ z.m_checksum_valid = y.m_checksum_valid
       /\ z.handler_refcount = y.handler_refcount /\ z.handler_free = y.handler_free
       /\ z.opened = y.opened /\ z.error = y.error
       /\ \A h \in Dynamic : Owed(z, h) = Owed(y, h) + Hit(y.m_table[i], h) - Hit(s, h)
       /\ \A q \in Subtables : Claimed(z, q) = Claimed(y, q) + Hit(y.m_table[i], q) - Hit(s, q)
  <2>1. z = [y EXCEPT !.m_table[i] = s] /\ s \in Entries \cup Subtables
    OBVIOUS
  <2> HIDE DEF z
  <2>2. QED BY <1>11, <2>1, CellMoves
<1> HIDE DEF z
<1>15. y.m_table[i] = old
  BY <1>9
<1>16. ASSUME NEW h \in Dynamic PROVE Owed(z, h) = 0
  <2>1. v.handler_refcount[h] \in Nat
    BY DEF Kept, Books, Typed
  <2>2. InRow(row, h) = IF h = old THEN L2Size ELSE 0
    BY EvenRow
  <2>3. y.handler_refcount[h] = v.handler_refcount[h] + (IF h = old THEN L2Size - 1 ELSE 0)
    BY <1>1, <1>5, <1>9
  <2>4. Hit(s, h) = 0 /\ Hit(old, h) = IF h = old THEN 1 ELSE 0
    BY Numbers DEF Hit
  <2>5. Owed(y, h) = y.handler_refcount[h] - v.handler_refcount[h] - InRow(row, h)
    BY <1>13
  <2>6. Owed(z, h) = Owed(y, h) + Hit(old, h) - Hit(s, h)
    BY <1>14, <1>15
  <2> HIDE DEF row, old
  <2>7. QED BY <2>1, <2>2, <2>3, <2>4, <2>5, <2>6, Sizes
<1>17. ASSUME NEW q \in Subtables PROVE Claimed(z, q) = 0
  <2>1. Hit(old, q) = 0 /\ Hit(s, q) \in Int
    BY DEF Hit
  <2>2. Claimed(y, q) = Hit(s, q)
    BY <1>13
  <2>3. Claimed(z, q) = Claimed(y, q) + Hit(old, q) - Hit(s, q)
    BY <1>14, <1>15
  <2>4. QED BY <2>1, <2>2, <2>3
<1>18. FreeKept(z, X)
  BY <1>12, <1>14 DEF FreeKept, IsFree
<1>19. \A q \in Subtables : q # s /\ z.m_checksum_valid[q] /\ z.m_usecount[q] # 0 =>
                              z.m_checksum[q] = Checksum(z.cells[q])
  <2> HIDE DEF row
  <2>1. \A q \in Subtables : q # s => z.cells[q] = v.cells[q] /\ z.m_usecount[q] = v.m_usecount[q]
    BY <1>9, <1>14 DEF Kept, Books, Typed
  <2>2. z.m_checksum = v.m_checksum /\ z.m_checksum_valid = v.m_checksum_valid
    BY <1>9, <1>14
  <2>3. QED BY <2>1, <2>2 DEF Kept, Books, ChecksumsHold
<1>20. Kept(w, X) /\ ~w.m_checksum_valid[s]
  <2>1. /\ DOMAIN w.m_checksum = Subtables
        /\ \A q \in Subtables : q # s => w.m_checksum[q] = z.m_checksum[q]
    BY <1>9, <1>10, <1>14 DEF Kept, Books, Typed
  <2>2. /\ w.m_table = z.m_table /\ w.cells = z.cells /\ w.m_usecount = z.m_usecount
        /\ w.handler_refcount = z.handler_refcount /\ w.handler_free = z.handler_free
        /\ w.m_checksum_valid = [z.m_checksum_valid EXCEPT ![s] = FALSE]
    BY <1>9, <1>10, <1>14
  <2>3. Settled(z) /\ SummedBut(z, s) /\ Dirtied(z, s, w)
    BY <1>10, <1>16, <1>17, <1>19, <2>1, <2>2 DEF Settled, SummedBut, Dirtied
  <2>4. QED BY <1>14, <1>18, <2>3, DirtyIs
<1>21. ASSUME NEW k \in L1Index, NEW c \in L2Index PROVE Cell(w, k, c) = Cell(v, k, c)
  <2>1. CASE k = i
    <3>1. w.m_table[k] = s /\ w.cells[s] = row
      BY <1>10, <2>1 DEF Kept, Books, Typed
    <3>2. QED BY <2>1, <3>1 DEF Cell
  <2>2. CASE k # i
    <3>1. w.m_table[k] = v.m_table[k]
      BY <1>10, <2>2 DEF Kept, Books, Typed
    <3>2. v.m_table[k] \in Subtables => v.m_table[k] # s
      BY UsersAreCells
    <3>3. v.m_table[k] \in Subtables => w.cells[v.m_table[k]] = v.cells[v.m_table[k]]
      BY <1>10, <3>2 DEF Kept, Books, Typed
    <3>4. QED BY <3>1, <3>3 DEF Cell
  <2>3. QED BY <2>1, <2>2
<1>22. w.m_table[i] = s /\ w.m_usecount[s] = 1
  BY <1>10 DEF Kept, Books, Typed
<1>23. Opened(v, i, w)
  BY <1>10, <1>20, <1>21, <1>22 DEF Opened
<1>24. OthersStay(v, i, w)
  BY <1>10 DEF OthersStay, Kept, Books, Typed
<1>25. QED BY <1>20, <1>23, <1>24 DEF w, u

(* The handlers of a row each get a reference for every cell of it.        *)
BusyRow(u, X, row) ==
  \A c \in L2Index : ~IsFree(u, row[c]) /\ (row[c] \in Dynamic => row[c] \notin X)

RefCellStep(row, b, c, d, v, k) == RefCell(row, v, k)

RefFold == INSTANCE FoldInduction WITH Op <- RefCellStep

RefRow(u, row) == RefFold!Fold(row, 0, 0, 0, u, Interval(0, L2Size - 1))

(* Copying a row counts every handler once for each cell of the row that   *)
(* has it.                                                                 *)
LEMMA RefRowIs ==
  ASSUME NEW u, NEW X, Typed(u), FreeKept(u, X), NEW row \in [L2Index -> Entries],
         BusyRow(u, X, row)
  PROVE  LET w == RefRow(u, row)
         IN  /\ Typed(w) /\ FreeKept(w, X) /\ Unmoved(u, w)
             /\ \A h \in Dynamic : w.handler_refcount[h] = u.handler_refcount[h] + InRow(row, h)
<1> DEFINE w == RefRow(u, row)
           n == L2Size
<1>1. w = RefFold!Fold(row, 0, 0, 0, u, Interval(0, n - 1))
  BY DEF RefRow
<1> HIDE DEF w
<1>2. /\ n \in Nat /\ DOMAIN Interval(0, n - 1) = 1 .. n
      /\ \A k \in 1 .. n : Interval(0, n - 1)[k] = k - 1
  BY LoopsAre
<1>a. RefFold!Induction(n)
  BY <1>1, <1>2, LoopInduction DEF RefFold!Induction
<1>3. PICK g : RefFold!Passes(row, 0, 0, 0, u, Interval(0, n - 1), n, g) /\ g[n] = w
  BY <1>1, <1>2, <1>a, RefFold!FoldPasses
<1> DEFINE Good(j) ==
             /\ Typed(g[j]) /\ FreeKept(g[j], X) /\ Unmoved(u, g[j])
             /\ g[j].handler_free = u.handler_free
             /\ \A h \in Dynamic : g[j].handler_refcount[h] =
                                     u.handler_refcount[h] + Part(row, j, h)
           P == {j \in 0 .. n : Good(j)}
<1>4. 0 \in P
  <2>1. g[0] = u
    BY <1>3 DEF RefFold!Passes
  <2>2. \A h \in Dynamic : Part(row, 0, h) = 0 /\ u.handler_refcount[h] \in Nat
    BY PartGrows DEF Typed
  <2>3. QED BY <1>2, <2>1, <2>2 DEF Unmoved
<1>5. ASSUME NEW j \in 0 .. (n - 1), j \in P PROVE j + 1 \in P
  <2> DEFINE e == row[j]
             one == 1
             v == handler_ref(g[j], e, one)
  <2>1. j + 1 \in 1 .. n /\ j + 1 \in 0 .. n /\ (j + 1) - 1 = j /\ j \in L2Index /\ e \in Entries
    BY <1>2 DEF L2Index
  <2>2. g[j + 1] = v
    BY <1>2, <1>3, <2>1 DEF RefFold!Passes, RefCellStep, RefCell
  <2>3. Good(j)
    BY <1>5
  <2>4. ~IsFree(g[j], e) /\ (e \in Dynamic => e \notin X)
    BY <2>1, <2>3 DEF BusyRow, IsFree
  <2>5. \A h \in Dynamic : /\ Part(row, j, h) \in Nat
                           /\ Part(row, j + 1, h) = Part(row, j, h) + Hit(e, h)
    BY <2>1, PartGrows
  <2> HIDE DEF e
  <2>6. /\ Typed(v) /\ Unmoved(g[j], v) /\ v.handler_free = g[j].handler_free
        /\ FreeKept(v, X \ {e})
        /\ \A h \in Dynamic : v.handler_refcount[h] =
                                g[j].handler_refcount[h] + (IF h = e THEN 1 ELSE 0)
    <3>1. /\ Typed(g[j]) /\ FreeKept(g[j], X) /\ e \in Entries
          /\ one \in Nat /\ one # 0 /\ ~IsFree(g[j], e)
      BY <2>1, <2>3, <2>4
    <3> HIDE DEF one, Good
    <3>2. /\ Typed(v) /\ Unmoved(g[j], v) /\ v.handler_free = g[j].handler_free
          /\ (one = 0 => FreeKept(v, X)) /\ (one # 0 => FreeKept(v, X \ {e}))
          /\ \A h \in Dynamic : v.handler_refcount[h] =
                                  g[j].handler_refcount[h] + (IF h = e THEN one ELSE 0)
      BY <3>1, RefIs
    <3>3. QED BY <3>1, <3>2 DEF one
  <2> HIDE DEF v
  <2>7. FreeKept(v, X)
    BY <2>4, <2>6 DEF FreeKept
  <2>8. ASSUME NEW h \in Dynamic
        PROVE  v.handler_refcount[h] = u.handler_refcount[h] + Part(row, j + 1, h)
    <3>1. g[j].handler_refcount[h] = u.handler_refcount[h] + Part(row, j, h)
          /\ u.handler_refcount[h] \in Nat
      BY <2>3 DEF Typed
    <3>2. v.handler_refcount[h] = g[j].handler_refcount[h] + (IF h = e THEN 1 ELSE 0)
      BY <2>6
    <3>3. /\ Part(row, j, h) \in Nat
          /\ Part(row, j + 1, h) = Part(row, j, h) + (IF h = e THEN 1 ELSE 0)
      BY <2>5 DEF Hit
    <3>4. QED BY <3>1, <3>2, <3>3
  <2>9. Unmoved(u, v) /\ v.handler_free = u.handler_free
    BY <2>3, <2>6 DEF Unmoved
  <2>10. QED BY <2>1, <2>2, <2>6, <2>7, <2>8, <2>9
<1>6. Good(n)
  <2>1. n \in P
    <3> HIDE DEF P, n
    <3>1. QED BY <1>2, <1>4, <1>5, LoopInduction
  <2>2. QED BY <2>1
<1>7. \A h \in Dynamic : Part(row, n, h) = InRow(row, h)
  BY PartGrows
<1>8. QED BY <1>3, <1>6, <1>7 DEF w

(* The new subtable becomes a copy of the one that level 1 cell i shares.  *)
LEMMA CopySharedIs ==
  ASSUME NEW v, NEW X, Kept(v, X), NEW s \in Subtables, v.m_usecount[s] = 0,
         NEW i \in L1Index, v.m_table[i] \in Subtables
  PROVE  LET w == MarkDirty(CopyShared(Allocated(v, s), i), s)
         IN  Kept(w, X) /\ Opened(v, i, w) /\ OthersStay(v, i, w)
<1> DEFINE u == Allocated(v, s)
           old == v.m_table[i]
           row == v.cells[old]
           r == RefRow(u, row)
           y == [r EXCEPT !.cells[s] = row]
           x == subtable_release(y, old)
           z == [x EXCEPT !.m_table[i] = s]
           k == v.m_checksum[old]
           f == CopyShared(u, i)
           w == MarkDirty(f, s)
<1>1. /\ Typed(u) /\ FreeKept(u, X) /\ u.m_usecount = [v.m_usecount EXCEPT ![s] = 1]
      /\ u.opened = s /\ u.error = v.error /\ u.m_table = v.m_table /\ u.cells = v.cells
      /\ u.m_checksum = v.m_checksum /\ u.m_checksum_valid = v.m_checksum_valid
      /\ u.handler_refcount = v.handler_refcount /\ u.handler_free = v.handler_free
  BY AllocatedIs
<1> HIDE DEF u
<1>2. v.m_usecount[old] # 0 /\ old # s
  BY UsersAreCells
<1>3. row \in [L2Index -> Entries]
  BY DEF Kept, Books, Typed
<1>4. BusyRow(u, X, row)
  <2>1. ASSUME NEW c \in L2Index
        PROVE  ~IsFree(u, row[c]) /\ (row[c] \in Dynamic => row[c] \notin X)
    <3>1. /\ row[c] \in Entries
          /\ \E q \in Subtables, d \in L2Index : v.m_usecount[q] # 0 /\ v.cells[q][d] = row[c]
      BY <1>2, <1>3
    <3>2. ~IsFree(v, row[c]) /\ (row[c] \in Dynamic => row[c] \notin X)
      BY <3>1, HeldIsBusy
    <3>3. QED BY <1>1, <3>2 DEF IsFree
  <2>2. QED BY <2>1 DEF BusyRow
<1>5. /\ Typed(r) /\ FreeKept(r, X) /\ Unmoved(u, r)
      /\ \A h \in Dynamic : r.handler_refcount[h] = u.handler_refcount[h] + InRow(row, h)
  <2> HIDE DEF row
  <2>1. QED BY <1>1, <1>3, <1>4, RefRowIs
<1>6. f = [[x EXCEPT !.m_table[i] = s] EXCEPT !.m_checksum[s] = k]
  <2>1. u.m_table[i] = old /\ u.cells[u.m_table[i]] = row /\ u.opened = s
        /\ u.m_checksum[u.m_table[i]] = k
    BY <1>1
  <2>2. f = [subtable_release([RefRow(u, u.cells[u.m_table[i]]) EXCEPT
                                 !.cells[u.opened] = u.cells[u.m_table[i]]], u.m_table[i]) EXCEPT
               !.m_table[i] = u.opened,
               !.m_checksum[u.opened] = u.m_checksum[u.m_table[i]]]
    BY DEF CopyShared, RefRow, RefFold!Fold, RefCellStep, FoldLeft, MapThenFoldSet, Max,
           RefFold!Last
  <2>3. QED BY <2>1, <2>2
<1> HIDE DEF r
<1>7. /\ DOMAIN y = Fields
      /\ y.m_table = v.m_table /\ y.cells = [v.cells EXCEPT ![s] = row]
      /\ y.m_usecount = [v.m_usecount EXCEPT ![s] = 1]
      /\ y.m_checksum = v.m_checksum /\ y.m_checksum_valid = v.m_checksum_valid
      /\ y.handler_refcount = r.handler_refcount /\ y.handler_free = r.handler_free
      /\ y.opened = s /\ y.error = v.error
  <2> HIDE DEF row
  <2>1. QED BY <1>1, <1>5 DEF Unmoved, Typed, Fields
<1> HIDE DEF y
<1>8. Typed(y)
  <2>1. y.cells \in [Subtables -> [L2Index -> Entries]]
    <3> HIDE DEF row
    <3>1. QED BY <1>3, <1>7 DEF Kept, Books, Typed
  <2>2. y.m_usecount \in [Subtables -> Nat]
    BY <1>1, <1>7 DEF Typed
  <2>3. QED BY <1>5, <1>7, <2>1, <2>2 DEF Kept, Books, Typed
<1>9. FreeKept(y, X)
  BY <1>5, <1>7 DEF FreeKept, IsFree
<1>10. /\ \A h \in Dynamic :
            /\ InRow(row, h) \in Nat
            /\ Owed(y, h) = y.handler_refcount[h] - v.handler_refcount[h] - InRow(row, h)
       /\ \A q \in Subtables : Claimed(y, q) = Hit(s, q)
  <2>1. \A h \in Dynamic : y.handler_refcount[h] \in Nat
    BY <1>8 DEF Typed
  <2> HIDE DEF row
  <2>2. QED BY <1>7, <2>1, Joins
<1>11. \A h \in Dynamic : Owed(y, h) = 0
  <2>1. \A h \in Dynamic : v.handler_refcount[h] \in Nat
    BY DEF Kept, Books, Typed
  <2>2. \A h \in Dynamic : y.handler_refcount[h] = v.handler_refcount[h] + InRow(row, h)
    BY <1>1, <1>5, <1>7
  <2> HIDE DEF row
  <2>3. QED BY <1>10, <2>1, <2>2
<1>12. /\ y.m_usecount[old] # 0 /\ NeverOwing(y)
  BY <1>2, <1>7, <1>11 DEF NeverOwing
<1>13. Typed(x) /\ FreeKept(x, X) /\ Released(y, old, x)
  <2> HIDE DEF old
  <2>1. QED BY <1>8, <1>9, <1>12, ReleaseIs DEF old
<1> HIDE DEF x
<1>14. /\ Typed(z)
       /\ z.m_table = [x.m_table EXCEPT ![i] = s] /\ z.cells = x.cells
       /\ z.m_usecount = x.m_usecount /\ z.m_checksum = x.m_checksum
       /\ z.m_checksum_valid = x.m_checksum_valid
       /\ z.handler_refcount = x.handler_refcount /\ z.handler_free = x.handler_free
       /\ z.opened = x.opened /\ z.error = x.error
       /\ \A h \in Dynamic : Owed(z, h) = Owed(x, h) + Hit(x.m_table[i], h) - Hit(s, h)
       /\ \A q \in Subtables : Claimed(z, q) = Claimed(x, q) + Hit(x.m_table[i], q) - Hit(s, q)
  <2>1. z = [x EXCEPT !.m_table[i] = s] /\ s \in Entries \cup Subtables
    OBVIOUS
  <2> HIDE DEF z
  <2>2. QED BY <1>13, <2>1, CellMoves
<1>15. f = [z EXCEPT !.m_checksum[s] = k]
  BY <1>6
<1> HIDE DEF z, f
<1>16. x.m_table = v.m_table /\ x.m_table[i] = old /\ x.cells = [v.cells EXCEPT ![s] = row]
  BY <1>7, <1>13 DEF Released
<1>17. \A h \in Dynamic : Owed(z, h) = 0
  <2>1. \A h \in Dynamic : Hit(old, h) = 0 /\ Hit(s, h) = 0
    BY Numbers DEF Hit
  <2>2. QED BY <1>11, <1>13, <1>14, <1>16, <2>1 DEF Released
<1>18. ASSUME NEW q \in Subtables
       PROVE  x.m_usecount[q] = y.m_usecount[q] - Hit(old, q) /\ y.m_usecount[q] \in Nat
  BY <1>8, <1>13 DEF Released, Typed, Hit
<1>19. ASSUME NEW q \in Subtables PROVE Claimed(z, q) = 0
  <2>1. Hit(old, q) \in Int /\ Hit(s, q) \in Int /\ Level1(v.m_table, q) \in Nat
    BY Level1Has DEF Hit
  <2>2. Claimed(x, q) = Claimed(y, q) - Hit(old, q)
    BY <1>7, <1>16, <1>18, <2>1 DEF Claimed
  <2>3. Claimed(y, q) = Hit(s, q)
    BY <1>10
  <2>4. Claimed(z, q) = Claimed(x, q) + Hit(old, q) - Hit(s, q)
    BY <1>14, <1>16
  <2>5. QED BY <2>1, <2>2, <2>3, <2>4
<1>20. FreeKept(z, X)
  BY <1>13, <1>14 DEF FreeKept, IsFree
<1>21. SummedBut(z, s)
  <2>1. SUFFICES ASSUME NEW q \in Subtables, q # s, z.m_checksum_valid[q], z.m_usecount[q] # 0
                 PROVE  z.m_checksum[q] = Checksum(z.cells[q])
    BY DEF SummedBut
  <2>2. x.m_usecount[q] # 0 /\ y.m_usecount[q] # 0
    <3>1. x.m_usecount[q] \in Nat /\ x.m_usecount[q] # 0
      BY <1>13, <1>14, <2>1 DEF Typed
    <3>2. QED BY <1>18, <3>1 DEF Hit
  <2>3. z.m_checksum[q] = v.m_checksum[q] /\ v.m_checksum_valid[q]
    BY <1>7, <1>13, <1>14, <2>1, <2>2 DEF Released
  <2>4. z.cells[q] = v.cells[q] /\ v.m_usecount[q] # 0
    BY <1>7, <1>14, <1>16, <2>1, <2>2 DEF Kept, Books, Typed
  <2>5. QED BY <2>3, <2>4 DEF Kept, Books, ChecksumsHold
<1>22. w = [[f EXCEPT !.m_checksum_valid[s] = FALSE] EXCEPT !.opened = s]
  BY DEF MarkDirty
<1>23. /\ DOMAIN w = Fields
       /\ w.m_table = z.m_table /\ w.cells = z.cells /\ w.m_usecount = z.m_usecount
       /\ w.m_checksum = [z.m_checksum EXCEPT ![s] = k]
       /\ w.m_checksum_valid = [z.m_checksum_valid EXCEPT ![s] = FALSE]
       /\ w.handler_refcount = z.handler_refcount /\ w.handler_free = z.handler_free
       /\ w.opened = s /\ w.error = z.error
  <2> HIDE DEF w, k
  <2>1. QED BY <1>14, <1>15, <1>22 DEF Typed, Fields
<1> HIDE DEF w
<1>24. Kept(w, X) /\ ~w.m_checksum_valid[s]
  <2>1. DOMAIN z.m_checksum = Subtables
    BY <1>14 DEF Typed
  <2>2. Settled(z) /\ Dirtied(z, s, w)
    BY <1>17, <1>19, <1>23, <2>1 DEF Settled, Dirtied
  <2>3. QED BY <1>14, <1>20, <1>21, <2>2, DirtyIs
<1>25. w.m_table = [v.m_table EXCEPT ![i] = s] /\ w.cells = [v.cells EXCEPT ![s] = row]
       /\ w.error = v.error
  BY <1>7, <1>13, <1>14, <1>16, <1>23 DEF Released
<1>26. ASSUME NEW j \in L1Index, NEW c \in L2Index PROVE Cell(w, j, c) = Cell(v, j, c)
  <2>1. CASE j = i
    <3>1. w.m_table[j] = s /\ w.cells[s] = row
      BY <1>25, <2>1 DEF Kept, Books, Typed
    <3>2. QED BY <2>1, <3>1 DEF Cell
  <2>2. CASE j # i
    <3>1. w.m_table[j] = v.m_table[j]
      BY <1>25, <2>2 DEF Kept, Books, Typed
    <3>2. v.m_table[j] \in Subtables => v.m_table[j] # s
      BY UsersAreCells
    <3>3. v.m_table[j] \in Subtables => w.cells[v.m_table[j]] = v.cells[v.m_table[j]]
      BY <1>25, <3>2 DEF Kept, Books, Typed
    <3>4. QED BY <3>1, <3>3 DEF Cell
  <2>3. QED BY <2>1, <2>2
<1>27. w.m_table[i] = s /\ w.m_usecount[s] = 1
  <2>1. w.m_table[i] = s
    BY <1>25 DEF Kept, Books, Typed
  <2>2. y.m_usecount[s] = 1 /\ Hit(old, s) = 0
    BY <1>2, <1>7 DEF Kept, Books, Typed, Hit
  <2>3. QED BY <1>14, <1>18, <1>23, <2>1, <2>2
<1>28. Opened(v, i, w)
  BY <1>23, <1>24, <1>25, <1>26, <1>27 DEF Opened
<1>29. OthersStay(v, i, w)
  BY <1>25 DEF OthersStay, Kept, Books, Typed
<1>30. QED BY <1>24, <1>28, <1>29 DEF w, f, u

SameCells(u, w) == \A i \in L1Index, c \in L2Index : Cell(w, i, c) = Cell(u, i, c)

(* Merging changes nothing that an address finds.                          *)
LEMMA MergedCells ==
  ASSUME NEW u, NEW w, Merged(u, w)
  PROVE  SameCells(u, w)
<1>1. ASSUME NEW i \in L1Index, NEW c \in L2Index PROVE Cell(w, i, c) = Cell(u, i, c)
  BY DEF Merged, Cell
<1>2. QED BY <1>1 DEF SameCells

(* The table ran out of subtables: rightly so.                             *)
RanOut(w) == w.error = "Ran out of subtables!" /\ AllDiffer(w)

(* An error is noted and the table stays as it was.                        *)
LEMMA ThrowIs ==
  ASSUME NEW v, NEW X, Kept(v, X), NEW why
  PROVE  LET w == Throw(v, why)
         IN  /\ Kept(w, X) /\ w.error = why
             /\ w.m_table = v.m_table /\ w.cells = v.cells /\ w.m_usecount = v.m_usecount
             /\ w.handler_refcount = v.handler_refcount /\ w.handler_free = v.handler_free
<1> DEFINE w == Throw(v, why)
<1>1. /\ DOMAIN w = Fields /\ w.error = why
      /\ w.m_table = v.m_table /\ w.cells = v.cells /\ w.m_usecount = v.m_usecount
      /\ w.m_checksum = v.m_checksum /\ w.m_checksum_valid = v.m_checksum_valid
      /\ w.handler_refcount = v.handler_refcount /\ w.handler_free = v.handler_free
  BY DEF Throw, Kept, Books, Typed, Fields
<1> HIDE DEF w
<1>2. Typed(w) /\ FreeKept(w, X) /\ ChecksumsHold(w)
  BY <1>1 DEF Kept, Books, Typed, FreeKept, IsFree, ChecksumsHold
<1>3. /\ \A h \in Dynamic : Owed(w, h) = Owed(v, h)
      /\ \A s \in Subtables : Claimed(w, s) = Claimed(v, s)
  BY <1>1 DEF Owed, Claimed
<1>4. Kept(w, X)
  BY <1>2, <1>3 DEF Kept, Books
<1>5. QED BY <1>1, <1>4 DEF w

(* An allocation: of a subtable nobody uses, or none is left.              *)
LEMMA AllocIs ==
  ASSUME NEW u, NEW X, Kept(u, X), OK(u)
  PROVE  LET w == subtable_alloc(u)
         IN  \E v : /\ Kept(v, X) /\ Merged(u, v)
                    /\ \/ \E s \in Subtables : /\ v.m_usecount[s] = 0 /\ w = Allocated(v, s)
                                               /\ OK(w) /\ w.opened = s
                       \/ /\ w = Throw(v, "Ran out of subtables!") /\ ~OK(w)
                          /\ Kept(w, X) /\ SameCells(u, w) /\ RanOut(w)
<1> DEFINE w == subtable_alloc(u)
           v == PrepareAlloc(u)
<1>1. Kept(v, X) /\ Merged(u, v) /\ (Unused(v) = {} => AllDiffer(v))
  BY PrepareIs
<1>2. w = IF Unused(v) = {} THEN Throw(v, "Ran out of subtables!") ELSE Allocated(v, Min(Unused(v)))
  BY DEF subtable_alloc, Allocated
<1> HIDE DEF v, w
<1>3. CASE Unused(v) = {}
  <2>1. w = Throw(v, "Ran out of subtables!")
    BY <1>2, <1>3
  <2>2. /\ Kept(w, X) /\ w.error = "Ran out of subtables!"
        /\ w.m_table = v.m_table /\ w.cells = v.cells /\ w.m_usecount = v.m_usecount
    <3> DEFINE why == "Ran out of subtables!"
               z == Throw(v, why)
    <3> HIDE DEF why
    <3>1. /\ Kept(z, X) /\ z.error = why
          /\ z.m_table = v.m_table /\ z.cells = v.cells /\ z.m_usecount = v.m_usecount
      BY <1>1, ThrowIs
    <3>2. QED BY <2>1, <3>1 DEF why
  <2>3. RanOut(w) /\ ~OK(w)
    BY <1>1, <1>3, <2>2 DEF RanOut, AllDiffer, OK
  <2>4. SameCells(u, w)
    <3>1. SameCells(u, v)
      BY <1>1, MergedCells
    <3>2. QED BY <2>2, <3>1 DEF SameCells, Cell
  <2>5. QED BY <1>1, <2>1, <2>2, <2>3, <2>4 DEF w
<1>4. CASE Unused(v) # {}
  <2> DEFINE s == Min(Unused(v))
  <2>1. s \in Unused(v)
    <3>1. Unused(v) \in SUBSET Nat
      BY Numbers DEF Unused, Subtables
    <3>2. QED BY <1>4, <3>1, MinIsLeast
  <2>2. s \in Subtables /\ v.m_usecount[s] = 0
    BY <2>1 DEF Unused
  <2>3. w = Allocated(v, s)
    BY <1>2, <1>4
  <2> HIDE DEF s
  <2>4. w.opened = s /\ w.error = v.error
    <3> DEFINE a == Allocated(v, s)
    <3>1. Kept(v, X) /\ s \in Subtables
      BY <1>1, <2>2
    <3>2. /\ Typed(a) /\ FreeKept(a, X) /\ a.m_usecount = [v.m_usecount EXCEPT ![s] = 1]
          /\ a.opened = s /\ a.error = v.error /\ a.m_table = v.m_table /\ a.cells = v.cells
          /\ a.m_checksum = v.m_checksum /\ a.m_checksum_valid = v.m_checksum_valid
          /\ a.handler_refcount = v.handler_refcount /\ a.handler_free = v.handler_free
      BY <3>1, AllocatedIs
    <3>3. QED BY <2>3, <3>2
  <2>5. OK(w)
    BY <1>1, <2>4 DEF OK, Merged
  <2>6. QED BY <1>1, <2>2, <2>3, <2>4, <2>5 DEF w
<1>5. QED BY <1>3, <1>4

(* The subtable opened is the cell's own, or the table ran out.            *)
LEMMA OpenIs ==
  ASSUME NEW u, NEW X, Kept(u, X), OK(u), NEW i \in L1Index
  PROVE  LET w == subtable_open(u, i)
         IN  /\ Kept(w, X) /\ SameCells(u, w)
             /\ (OK(w) /\ Opened(u, i, w)) \/ (~OK(w) /\ RanOut(w))
             /\ OK(w) => \E v : Kept(v, X) /\ Merged(u, v) /\ OthersStay(v, i, w)
<1> DEFINE w == subtable_open(u, i)
           old == u.m_table[i]
           a == subtable_alloc(u)
<1>1. PICK v : /\ Kept(v, X) /\ Merged(u, v)
               /\ \/ \E s \in Subtables : /\ v.m_usecount[s] = 0 /\ a = Allocated(v, s)
                                          /\ OK(a) /\ a.opened = s
                  \/ /\ a = Throw(v, "Ran out of subtables!") /\ ~OK(a)
                     /\ Kept(a, X) /\ SameCells(u, a) /\ RanOut(a)
  BY AllocIs
<1> HIDE DEF a
<1>2. v.m_table[i] \in Subtables <=> old \in Subtables
  BY <1>1 DEF Merged
<1>3. SameCells(u, v) /\ v.error = u.error
  <2>1. Merged(u, v)
    BY <1>1
  <2>2. SameCells(u, v)
    BY <2>1, MergedCells
  <2>3. v.error = u.error
    BY <2>1 DEF Merged
  <2>4. QED BY <2>2, <2>3
<1>4. ASSUME NEW z, Opened(v, i, z) PROVE OK(z) /\ Opened(u, i, z) /\ SameCells(u, z)
  <2>1. \A k \in L1Index, c \in L2Index : Cell(z, k, c) = Cell(u, k, c)
    BY <1>3, <1>4 DEF Opened, SameCells
  <2>2. QED BY <1>3, <1>4, <2>1 DEF Opened, SameCells, OK
<1>5. CASE old \notin Subtables
  <2>1. w = IF OK(a) THEN MarkDirty(FillNew(a, i), a.opened) ELSE a
    BY <1>5 DEF subtable_open, Bind, a
  <2> HIDE DEF w
  <2>2. CASE OK(a)
    <3>1. PICK s \in Subtables : v.m_usecount[s] = 0 /\ a = Allocated(v, s) /\ a.opened = s
      BY <1>1, <2>2
    <3>2. w = MarkDirty(FillNew(Allocated(v, s), i), s)
      BY <2>1, <2>2, <3>1
    <3>3. Kept(w, X) /\ Opened(v, i, w) /\ OthersStay(v, i, w)
      BY <1>1, <1>2, <1>5, <3>1, <3>2, FillNewIs
    <3>4. QED BY <1>1, <1>4, <3>3 DEF w
  <2>3. CASE ~OK(a)
    BY <1>1, <2>1, <2>3 DEF w
  <2>4. QED BY <2>2, <2>3
<1>6. CASE old \in Subtables /\ u.m_usecount[old] > 1
  <2>1. w = IF OK(a) THEN MarkDirty(CopyShared(a, i), a.opened) ELSE a
    BY <1>6 DEF subtable_open, Bind, a
  <2> HIDE DEF w
  <2>2. CASE OK(a)
    <3>1. PICK s \in Subtables : v.m_usecount[s] = 0 /\ a = Allocated(v, s) /\ a.opened = s
      BY <1>1, <2>2
    <3>2. w = MarkDirty(CopyShared(Allocated(v, s), i), s)
      BY <2>1, <2>2, <3>1
    <3>3. Kept(w, X) /\ Opened(v, i, w) /\ OthersStay(v, i, w)
      BY <1>1, <1>2, <1>6, <3>1, <3>2, CopySharedIs
    <3>4. QED BY <1>1, <1>4, <3>3 DEF w
  <2>3. CASE ~OK(a)
    BY <1>1, <2>1, <2>3 DEF w
  <2>4. QED BY <2>2, <2>3
<1>7. CASE old \in Subtables /\ ~(u.m_usecount[old] > 1)
  <2>1. w = [[u EXCEPT !.m_checksum_valid[old] = FALSE] EXCEPT !.opened = old]
    BY <1>7 DEF subtable_open, MarkDirty
  <2> HIDE DEF w
  <2>2. u.m_usecount[old] = 1
    <3>1. u.m_usecount[old] \in Nat /\ u.m_usecount[old] # 0
      BY <1>7, UsersAreCells
    <3>2. QED BY <1>7, <3>1
  <2>3. /\ DOMAIN w = Fields
        /\ w.m_table = u.m_table /\ w.cells = u.cells /\ w.m_usecount = u.m_usecount
        /\ w.m_checksum = u.m_checksum
        /\ w.m_checksum_valid = [u.m_checksum_valid EXCEPT ![old] = FALSE]
        /\ w.handler_refcount = u.handler_refcount /\ w.handler_free = u.handler_free
        /\ w.opened = old /\ w.error = u.error
    <3> HIDE DEF old
    <3>1. QED BY <2>1 DEF Kept, Books, Typed, Fields
  <2>4. Typed(u) /\ FreeKept(u, X) /\ Settled(u) /\ SummedBut(u, old) /\ Dirtied(u, old, w)
    BY <2>3 DEF Kept, Books, Settled, SummedBut, Dirtied, Typed, ChecksumsHold
  <2>5. Kept(w, X) /\ ~w.m_checksum_valid[old]
    BY <1>7, <2>4, DirtyIs
  <2>6. SameCells(u, w)
    BY <2>3 DEF SameCells, Cell
  <2>7. Opened(u, i, w) /\ OK(w)
    BY <1>7, <2>2, <2>3, <2>5, <2>6 DEF Opened, SameCells, OK
  <2>8. Kept(u, X) /\ Merged(u, u) /\ OthersStay(u, i, w)
    BY <2>3 DEF Merged, OthersStay
  <2>9. QED BY <2>5, <2>6, <2>7, <2>8 DEF w
<1>8. QED BY <1>5, <1>6, <1>7

--------------------------------------------------------------------------------
(* A handler has references just when some address finds it.               *)
LEMMA ReachedIsCounted ==
  ASSUME NEW u, NEW X, Kept(u, X), NEW e \in Dynamic
  PROVE  u.handler_refcount[e] # 0 <=> \E i \in L1Index, c \in L2Index : Cell(u, i, c) = e
<1>1. /\ Level1(u.m_table, e) \in Nat /\ Level2(u.m_usecount, u.cells, e) \in Nat
      /\ Level1(u.m_table, e) # 0 <=> \E i \in L1Index : u.m_table[i] = e
      /\ Level2(u.m_usecount, u.cells, e) # 0 <=>
           \E s \in Subtables, c \in L2Index : u.m_usecount[s] # 0 /\ u.cells[s][c] = e
  BY Level1Has, Level2Has
<1>2. u.handler_refcount[e] # 0 <=>
        Level1(u.m_table, e) # 0 \/ Level2(u.m_usecount, u.cells, e) # 0
  <2>1. Owed(u, e) = 0 /\ u.handler_refcount[e] \in Nat
    BY DEF Kept, Books, Typed
  <2>2. u.handler_refcount[e] = Level1(u.m_table, e) + Level2(u.m_usecount, u.cells, e)
    BY <1>1, <2>1 DEF Owed
  <2>3. \A a, b \in Nat : a + b # 0 <=> a # 0 \/ b # 0
    OBVIOUS
  <2>4. QED BY <1>1, <2>2, <2>3
<1>3. ASSUME NEW i \in L1Index, NEW c \in L2Index, Cell(u, i, c) = e
      PROVE  u.handler_refcount[e] # 0
  <2>1. CASE u.m_table[i] \in Subtables
    <3>1. u.m_usecount[u.m_table[i]] # 0 /\ u.cells[u.m_table[i]][c] = e
      BY <1>3, <2>1, UsersAreCells DEF Cell
    <3>2. QED BY <1>1, <1>2, <2>1, <3>1
  <2>2. CASE u.m_table[i] \notin Subtables
    BY <1>1, <1>2, <1>3, <2>2 DEF Cell
  <2>3. QED BY <2>1, <2>2
<1>4. ASSUME u.handler_refcount[e] # 0
      PROVE  \E i \in L1Index, c \in L2Index : Cell(u, i, c) = e
  <2>1. CASE \E i \in L1Index : u.m_table[i] = e
    <3>1. PICK i \in L1Index : u.m_table[i] = e
      BY <2>1
    <3>2. e \notin Subtables /\ 0 \in L2Index
      BY Numbers, Sizes DEF L2Index
    <3>3. Cell(u, i, 0) = e
      BY <3>1, <3>2 DEF Cell
    <3>4. QED BY <3>2, <3>3
  <2>2. CASE \E s \in Subtables, c \in L2Index : u.m_usecount[s] # 0 /\ u.cells[s][c] = e
    <3>1. PICK s \in Subtables, c \in L2Index : u.m_usecount[s] # 0 /\ u.cells[s][c] = e
      BY <2>2
    <3>2. PICK i \in L1Index : u.m_table[i] = s
      BY <3>1, UsersAreCells
    <3>3. Cell(u, i, c) = e
      BY <3>1, <3>2 DEF Cell
    <3>4. QED BY <3>3
  <2>3. QED BY <1>1, <1>2, <1>4, <2>1, <2>2
<1>5. QED BY <1>3, <1>4

(* An entry that some address finds is not on the free list.               *)
LEMMA ReachedIsBusy ==
  ASSUME NEW u, NEW X, Kept(u, X), NEW e \in Entries,
         \E i \in L1Index, c \in L2Index : Cell(u, i, c) = e
  PROVE  ~IsFree(u, e)
<1>1. CASE e \in Dynamic
  <2>1. u.handler_refcount[e] # 0
    BY <1>1, ReachedIsCounted
  <2>2. QED BY <1>1, <2>1 DEF Kept, Books, FreeKept
<1>2. CASE e \notin Dynamic
  BY <1>2 DEF Kept, Books, Typed, IsFree
<1>3. QED BY <1>1, <1>2

(* An entry that can be counted still can be after a step that no address  *)
(* notices.                                                                *)
LEMMA StillCountable ==
  ASSUME NEW u, NEW w, NEW X, NEW e, Kept(u, X), Kept(w, X), SameCells(u, w), Countable(u, X, e)
  PROVE  Countable(w, X, e)
<1>1. SUFFICES ~IsFree(w, e)
  BY DEF Countable
<1>2. CASE e \notin Dynamic
  BY <1>2 DEF Kept, Books, Typed, IsFree
<1>3. CASE e \in X /\ e \in Dynamic
  BY <1>3 DEF Kept, Books, FreeKept
<1>4. CASE e \notin X /\ e \in Dynamic
  <2>1. u.handler_refcount[e] # 0
    BY <1>4 DEF Kept, Books, FreeKept, Countable
  <2>2. \E i \in L1Index, c \in L2Index : Cell(w, i, c) = e
    BY <1>4, <2>1, ReachedIsCounted DEF SameCells
  <2>3. e \in Entries
    BY DEF Countable
  <2>4. QED BY <2>2, <2>3, ReachedIsBusy
<1>5. QED BY <1>2, <1>3, <1>4

(* A cell of a subtable that one level 1 cell has to itself.               *)
LEMMA FillCellIs ==
  ASSUME NEW u, NEW X, NEW e \in Entries, NEW n \in Nat, Books(u, X, e, n + 1),
         NEW s \in Subtables, u.m_usecount[s] # 0, ~u.m_checksum_valid[s], NEW c \in L2Index
  PROVE  LET w == FillCell(s, e, u, c)
         IN  /\ Books(w, X, e, n)
             /\ w.m_table = u.m_table /\ w.m_usecount = u.m_usecount
             /\ w.cells = [u.cells EXCEPT ![s][c] = e]
             /\ w.m_checksum_valid = u.m_checksum_valid
             /\ w.opened = u.opened /\ w.error = u.error
<1> DEFINE x == u.cells[s][c]
           v == handler_unref(u, x)
           D == [u.cells EXCEPT ![s][c] = e]
           w == FillCell(s, e, u, c)
<1>1. x \in Entries /\ Typed(u) /\ FreeKept(u, X) /\ NeverOwing(u)
  <2>1. n + 1 \in Nat /\ Typed(u) /\ FreeKept(u, X)
    BY DEF Books
  <2>2. NeverOwing(u)
    BY <2>1, BooksAreSound
  <2>3. QED BY <2>1, <2>2 DEF Typed
<1>2. x \in Dynamic => u.handler_refcount[x] # 0
  <2>1. SUFFICES ASSUME x \in Dynamic, u.handler_refcount[x] = 0 PROVE FALSE
    OBVIOUS
  <2>2. Level2(u.m_usecount, u.cells, x) \in Nat /\ Level2(u.m_usecount, u.cells, x) # 0
    BY Level2Has
  <2>3. Level1(u.m_table, x) \in Nat /\ Owed(u, x) \in Nat
    BY <1>1, <2>1, Level1Has DEF NeverOwing
  <2> HIDE DEF x
  <2>4. QED BY <2>1, <2>2, <2>3 DEF Owed
<1>3. w = [v EXCEPT !.cells[s][c] = e]
  BY DEF FillCell
<1> HIDE DEF x, w
<1>4. /\ Typed(v) /\ Unmoved(u, v) /\ FreeKept(v, X)
      /\ \A h \in Dynamic : v.handler_refcount[h] = u.handler_refcount[h] - Hit(h, x)
  BY <1>1, <1>2, UnrefIs
<1> HIDE DEF v
<1>5. /\ DOMAIN w = Fields
      /\ w.m_table = u.m_table /\ w.cells = D /\ w.m_usecount = u.m_usecount
      /\ w.m_checksum = u.m_checksum /\ w.m_checksum_valid = u.m_checksum_valid
      /\ w.handler_refcount = v.handler_refcount /\ w.handler_free = v.handler_free
      /\ w.opened = u.opened /\ w.error = u.error
  BY <1>3, <1>4 DEF Unmoved, Typed, Fields
<1>6. /\ D \in [Subtables -> [L2Index -> Entries]] /\ D[s][c] = e
      /\ SameButAt(s, c, u.cells, D)
      /\ \A r \in Subtables : r # s => D[r] = u.cells[r]
  BY <1>1 DEF Typed, SameButAt
<1> HIDE DEF D
<1>7. Typed(w)
  BY <1>4, <1>5, <1>6 DEF Unmoved, Typed
<1>8. FreeKept(w, X)
  BY <1>4, <1>5 DEF FreeKept, IsFree
<1>9. ASSUME NEW h \in Dynamic PROVE Owed(w, h) = IF h = e THEN n ELSE 0
  <2>1. Level2(u.m_usecount, D, h) =
          Level2(u.m_usecount, u.cells, h) - Hit(x, h) + Hit(e, h)
    <3>1. h # 0
      BY Numbers
    <3> DEFINE U == u.m_usecount
               C == u.cells
    <3>2. U[s] # 0 /\ SameButAt(s, c, C, D)
      BY <1>6
    <3> HIDE DEF U, C
    <3>3. Level2(U, D, h) = Level2(U, C, h) - Hit(C[s][c], h) + Hit(D[s][c], h)
      BY <3>1, <3>2, Level2Changes
    <3>4. QED BY <1>6, <3>3 DEF x, U, C
  <2>2. /\ Level1(u.m_table, h) \in Nat /\ Level2(u.m_usecount, u.cells, h) \in Nat
        /\ u.handler_refcount[h] \in Nat
    BY <1>1, Level1Has, Level2Has DEF Typed
  <2>3. Hit(x, h) \in Int /\ Hit(h, x) = Hit(x, h) /\ Hit(e, h) = IF h = e THEN 1 ELSE 0
    BY DEF Hit
  <2>4. Owed(u, h) = IF h = e THEN n + 1 ELSE 0
    BY DEF Books
  <2>5. w.handler_refcount[h] = u.handler_refcount[h] - Hit(x, h)
    BY <1>4, <1>5, <2>3
  <2>6. Owed(w, h) = Owed(u, h) - Hit(e, h)
    BY <1>5, <2>1, <2>2, <2>3, <2>5 DEF Owed
  <2>7. QED BY <2>3, <2>4, <2>6
<1>10. \A r \in Subtables : Claimed(w, r) = 0
  BY <1>5 DEF Books, Claimed
<1>11. ChecksumsHold(w)
  BY <1>5, <1>6 DEF Books, ChecksumsHold
<1>12. Books(w, X, e, n)
  BY <1>7, <1>8, <1>9, <1>10, <1>11 DEF Books
<1>13. QED BY <1>5, <1>12 DEF w, D

(* Cells of a subtable, one after the other.                               *)
FillCellStep(s, entry, b, d, w, c) == FillCell(s, entry, w, c)

FillFold == INSTANCE FoldInduction WITH Op <- FillCellStep

FillCells(v, s, lo, hi, entry) ==
  FillFold!Fold(s, entry, 0, 0, handler_ref(v, entry, hi - lo + 1), Interval(lo, hi))

(* A run of cells of a subtable with one user gets an entry, and the books *)
(* balance.                                                                *)
LEMMA FillIs ==
  ASSUME NEW v, NEW X, NEW e, Kept(v, X), Countable(v, X, e),
         NEW s \in Subtables, v.m_usecount[s] # 0, ~v.m_checksum_valid[s],
         NEW lo \in L2Index, NEW hi \in L2Index, lo <= hi
  PROVE  LET w == FillCells(v, s, lo, hi, e)
         IN  /\ Kept(w, {}) /\ w.error = v.error /\ w.m_table = v.m_table
             /\ \A r \in Subtables : r # s => w.cells[r] = v.cells[r]
             /\ \A c \in L2Index : w.cells[s][c] = IF c \in lo .. hi THEN e ELSE v.cells[s][c]
<1> DEFINE w == FillCells(v, s, lo, hi, e)
           n == hi - lo + 1
           base == handler_ref(v, e, n)
<1>1. n \in Nat /\ n # 0 /\ lo \in Int /\ hi \in Int /\ e \in Entries /\ n \in Int
  BY Sizes DEF L2Index, Countable
<1>2. Books(base, {}, e, n) /\ Unmoved(v, base)
  <2> HIDE DEF n
  <2>1. QED BY <1>1, CountedAhead
<1>3. w = FillFold!Fold(s, e, 0, 0, base, Interval(lo, hi))
  BY DEF FillCells
<1> HIDE DEF w, base
<1>4. /\ DOMAIN Interval(lo, hi) = 1 .. n
      /\ \A k \in 1 .. n : Interval(lo, hi)[k] = lo + (k - 1)
  BY <1>1, IntervalIs
<1> HIDE DEF n
<1>a. FillFold!Induction(n)
  BY <1>1, <1>3, <1>4, LoopInduction DEF FillFold!Induction
<1>5. PICK g : FillFold!Passes(s, e, 0, 0, base, Interval(lo, hi), n, g) /\ g[n] = w
  BY <1>1, <1>3, <1>4, <1>a, FillFold!FoldPasses
<1> DEFINE Good(j) ==
             /\ Books(g[j], {}, e, n - j) /\ g[j].error = v.error /\ g[j].m_table = v.m_table
             /\ g[j].m_usecount = v.m_usecount /\ g[j].m_checksum_valid = v.m_checksum_valid
             /\ \A r \in Subtables : r # s => g[j].cells[r] = v.cells[r]
             /\ \A c \in L2Index : g[j].cells[s][c] =
                  IF c \in lo .. (lo + j - 1) THEN e ELSE v.cells[s][c]
           P == {j \in 0 .. n : Good(j)}
<1>6. 0 \in P
  <2>1. g[0] = base /\ n - 0 = n /\ lo .. (lo + 0 - 1) = {}
    BY <1>1, <1>5 DEF FillFold!Passes
  <2>2. QED BY <1>1, <1>2, <2>1 DEF Unmoved
<1>7. ASSUME NEW j \in 0 .. (n - 1), j \in P PROVE j + 1 \in P
  <2> DEFINE c == lo + j
             m == n - (j + 1)
  <2>1. /\ j + 1 \in 1 .. n /\ j + 1 \in 0 .. n /\ (j + 1) - 1 = j
        /\ n - j = m + 1 /\ m \in Nat
    BY <1>1
  <2>2. c \in L2Index
    BY <1>1, Sizes DEF L2Index, n
  <2>3. g[j + 1] = FillCell(s, e, g[j], c)
    <3>1. Interval(lo, hi)[j + 1] = c
      BY <1>4, <2>1
    <3>2. QED BY <1>5, <2>1, <3>1 DEF FillFold!Passes, FillCellStep
  <2>4. Good(j)
    BY <1>7
  <2>5. /\ Books(g[j + 1], {}, e, m)
        /\ g[j + 1].m_table = g[j].m_table /\ g[j + 1].m_usecount = g[j].m_usecount
        /\ g[j + 1].cells = [g[j].cells EXCEPT ![s][c] = e]
        /\ g[j + 1].m_checksum_valid = g[j].m_checksum_valid
        /\ g[j + 1].opened = g[j].opened /\ g[j + 1].error = g[j].error
    <3>1. /\ Books(g[j], {}, e, m + 1) /\ m \in Nat
          /\ g[j].m_usecount[s] # 0 /\ ~g[j].m_checksum_valid[s]
      BY <2>1, <2>4
    <3> DEFINE y == g[j]
               x == FillCell(s, e, y, c)
    <3>2. /\ Books(y, {}, e, m + 1) /\ m \in Nat /\ e \in Entries /\ c \in L2Index
          /\ y.m_usecount[s] # 0 /\ ~y.m_checksum_valid[s]
      BY <1>1, <2>2, <3>1
    <3> HIDE DEF m, c, y
    <3>3. /\ Books(x, {}, e, m)
          /\ x.m_table = y.m_table /\ x.m_usecount = y.m_usecount
          /\ x.cells = [y.cells EXCEPT ![s][c] = e]
          /\ x.m_checksum_valid = y.m_checksum_valid
          /\ x.opened = y.opened /\ x.error = y.error
      BY <3>2, FillCellIs
    <3>4. QED BY <2>3, <3>3 DEF y
  <2>6. g[j].cells \in [Subtables -> [L2Index -> Entries]]
    BY <2>4 DEF Books, Typed
  <2>7. \A r \in Subtables : r # s => g[j + 1].cells[r] = v.cells[r]
    BY <2>4, <2>5, <2>6
  <2>8. ASSUME NEW k \in L2Index
        PROVE  g[j + 1].cells[s][k] = IF k \in lo .. (lo + (j + 1) - 1) THEN e ELSE v.cells[s][k]
    <3>1. g[j].cells[s][k] = IF k \in lo .. (lo + j - 1) THEN e ELSE v.cells[s][k]
      BY <2>4
    <3>2. g[j + 1].cells[s][k] = IF k = c THEN e ELSE g[j].cells[s][k]
      BY <2>2, <2>5, <2>6
    <3>3. k \in Int
      BY Sizes DEF L2Index
    <3>4. QED BY <1>1, <3>1, <3>2, <3>3
  <2>9. Good(j + 1)
    BY <2>4, <2>5, <2>7, <2>8
  <2>10. QED BY <2>1, <2>9
<1>8. Good(n)
  <2>1. n \in P
    <3> HIDE DEF P
    <3>1. QED BY <1>1, <1>6, <1>7, LoopInduction
  <2>2. QED BY <2>1
<1>9. n - n = 0 /\ lo + n - 1 = hi
  BY <1>1 DEF n
<1>10. Kept(w, {})
  BY <1>5, <1>8, <1>9, BooksBalance
<1>11. QED BY <1>5, <1>8, <1>9, <1>10 DEF w

(* The only user of a subtable with one user.                              *)
LEMMA OnlyUser ==
  ASSUME NEW u, NEW X, Kept(u, X), NEW s \in Subtables, u.m_usecount[s] = 1,
         NEW i \in L1Index, u.m_table[i] = s, NEW k \in L1Index, u.m_table[k] = s
  PROVE  k = i
<1> DEFINE T == u.m_table
           V == [T EXCEPT ![i] = 0]
<1>1. V[i] = 0 /\ SameBut(T, V, i) /\ (k # i => V[k] = s)
  BY DEF Kept, Books, Typed, SameBut
<1>2. Hit(T[i], s) = 1 /\ Hit(V[i], s) = 0
  BY <1>1, Numbers DEF Hit
<1>3. Level1(T, s) = 1
  BY UsersAreCells
<1> HIDE DEF V, T
<1>4. Level1(V, s) = Level1(T, s) - Hit(T[i], s) + Hit(V[i], s)
  BY <1>1, Level1Changes
<1>5. Level1(V, s) = 0
  BY <1>2, <1>3, <1>4
<1>6. QED BY <1>1, <1>5, Level1Has

(* Some cells of one block get an entry, or the table ran out.             *)
LEMMA BlockIs ==
  ASSUME NEW u, NEW X, NEW e, Kept(u, X), Countable(u, X, e), OK(u), NEW i \in L1Index,
         NEW lo \in L2Index, NEW hi \in L2Index, lo <= hi
  PROVE  LET w == PopulateBlock(u, i, lo, hi, e)
         IN  \/ /\ OK(w) /\ Kept(w, {})
                /\ OK(subtable_open(u, i)) /\ w.m_table = subtable_open(u, i).m_table
                /\ \A k \in L1Index, c \in L2Index : Cell(w, k, c) =
                     IF k = i /\ c \in lo .. hi THEN e ELSE Cell(u, k, c)
             \/ ~OK(w) /\ RanOut(w) /\ Kept(w, X) /\ SameCells(u, w)
<1> DEFINE v == subtable_open(u, i)
           s == v.opened
           w == PopulateBlock(u, i, lo, hi, e)
<1>1. /\ Kept(v, X) /\ SameCells(u, v)
      /\ (OK(v) /\ Opened(u, i, v)) \/ (~OK(v) /\ RanOut(v))
  BY OpenIs
<1>2. w = IF OK(v) THEN FillCells(v, s, lo, hi, e) ELSE v
  BY DEF PopulateBlock, Bind, FillCells, FillFold!Fold, FillCellStep,
         FoldLeft, MapThenFoldSet, Max,
         FillFold!Last
<1> HIDE DEF v, w
<1>3. CASE OK(v)
  <2>1. /\ v.m_table[i] = s /\ s \in Subtables /\ v.m_usecount[s] = 1 /\ ~v.m_checksum_valid[s]
    BY <1>1, <1>3 DEF Opened
  <2>2. Countable(v, X, e) /\ v.m_usecount[s] # 0 /\ Kept(v, X)
    BY <1>1, <2>1, StillCountable
  <2> DEFINE x == FillCells(v, s, lo, hi, e)
  <2>3. /\ Kept(x, {}) /\ x.error = v.error /\ x.m_table = v.m_table
        /\ \A r \in Subtables : r # s => x.cells[r] = v.cells[r]
        /\ \A c \in L2Index : x.cells[s][c] = IF c \in lo .. hi THEN e ELSE v.cells[s][c]
    <3> HIDE DEF s
    <3>1. QED BY <2>1, <2>2, FillIs
  <2>4. w = x
    BY <1>2, <1>3
  <2> HIDE DEF x
  <2>5. ASSUME NEW k \in L1Index, NEW c \in L2Index
        PROVE  Cell(w, k, c) = IF k = i /\ c \in lo .. hi THEN e ELSE Cell(u, k, c)
    <3>1. Cell(v, k, c) = Cell(u, k, c)
      BY <1>1 DEF SameCells
    <3>2. CASE k = i
      BY <2>1, <2>3, <2>4, <3>1, <3>2 DEF Cell
    <3>3. CASE k # i
      <4>1. v.m_table[k] # s
        BY <2>1, <2>2, <3>3, OnlyUser
      <4>2. QED BY <2>3, <2>4, <3>1, <3>3, <4>1 DEF Cell
    <3>4. QED BY <3>2, <3>3
  <2>6. QED BY <1>3, <2>3, <2>4, <2>5 DEF OK, w, v
<1>4. CASE ~OK(v)
  BY <1>1, <1>2, <1>4 DEF w
<1>5. QED BY <1>3, <1>4

--------------------------------------------------------------------------------
(* Addresses and cells.                                                    *)

(* A quotient and its rest.                                                *)
LEMMA Divides ==
  ASSUME NEW n \in Nat, NEW d \in Nat \ {0}
  PROVE  n \div d \in Nat /\ n % d \in 0 .. (d - 1) /\ n = d * (n \div d) + (n % d)
OBVIOUS

(* A number given as a quotient and a rest has them.                       *)
LEMMA QuotientIs ==
  ASSUME NEW q \in Nat, NEW r \in Nat, NEW d \in Nat \ {0}, r < d
  PROVE  (d * q + r) \div d = q /\ (d * q + r) % d = r
OBVIOUS

(* The order of numbers is that of their quotients, then of their rests.   *)
LEMMA QuotientsOrder ==
  ASSUME NEW q \in Int, NEW r \in Nat, NEW p \in Int, NEW s \in Nat, NEW d \in Nat \ {0},
         r < d, s < d
  PROVE  d * q + r <= d * p + s <=> q < p \/ (q = p /\ r <= s)
<1>1. ASSUME q < p PROVE d * q + r < d * p + s
  BY <1>1
<1>2. ASSUME p < q PROVE d * p + s < d * q + r
  BY <1>2
<1>3. d * q + r \in Int /\ d * p + s \in Int
  OBVIOUS
<1>4. CASE q < p
  BY <1>1, <1>3, <1>4
<1>5. CASE p < q
  BY <1>2, <1>3, <1>5
<1>6. CASE p = q
  BY <1>6
<1>7. QED BY <1>4, <1>5, <1>6

(* The power of a sum is the product of the powers.                        *)
LEMMA PowersAdd ==
  ASSUME NEW a \in Nat, NEW b \in Nat
  PROVE  2^(a + b) = 2^a * 2^b
<1> DEFINE S == {n \in Nat : 2^(a + n) = 2^a * 2^n}
<1>1. 0 \in S
  BY PowersOfTwo
<1>2. ASSUME NEW n \in S PROVE n + 1 \in S
  <2>1. a + n \in Nat /\ a + (n + 1) = (a + n) + 1
    OBVIOUS
  <2>2. 2^(a + (n + 1)) = 2 * 2^(a + n) /\ 2^(n + 1) = 2 * 2^n /\ 2^a \in Nat /\ 2^n \in Nat
    BY <2>1, PowersOfTwo
  <2>3. 2^(a + n) = 2^a * 2^n
    OBVIOUS
  <2>4. \A x, y \in Nat : 2 * (x * y) = x * (2 * y)
    OBVIOUS
  <2>5. QED BY <2>2, <2>3, <2>4
<1>3. b \in S
  <2> HIDE DEF S
  <2>1. S \in SUBSET Nat
    BY DEF S
  <2>2. QED BY <1>1, <1>2, <2>1, SetInduction
<1>4. QED BY <1>3

(* Every address is in one cell of one block, and every cell has one.      *)
LEMMA AddressesSplit ==
  /\ L2Size \in Nat \ {0} /\ L1Size \in Nat \ {0}
  /\ \A a \in Addresses :
       /\ level1_index(a) \in L1Index /\ level2_index(a) \in L2Index
       /\ a = L2Size * level1_index(a) + level2_index(a)
  /\ \A i \in L1Index, c \in L2Index :
       /\ L2Size * i + c \in Addresses
       /\ level1_index(L2Size * i + c) = i /\ level2_index(L2Size * i + c) = c
<1>1. L2Size \in Nat \ {0} /\ L1Size \in Nat \ {0}
  BY Sizes
<1>2. 2^AddrBits = L2Size * L1Size
  <2>1. LEVEL2_BITS \in Nat /\ AddrBits - LEVEL2_BITS \in Nat
        /\ LEVEL2_BITS + (AddrBits - LEVEL2_BITS) = AddrBits
    BY AddrBitsAssumption, AddressTableAssumption
  <2>2. QED BY <2>1, PowersAdd DEF L1Size, L2Size
<1>3. ASSUME NEW a \in Addresses
      PROVE  /\ level1_index(a) \in L1Index /\ level2_index(a) \in L2Index
             /\ a = L2Size * level1_index(a) + level2_index(a)
  <2> DEFINE q == a \div L2Size
             r == a % L2Size
  <2>1. a \in Nat /\ a < L2Size * L1Size + 0
    BY <1>1, <1>2 DEF Addresses
  <2>2. q \in Nat /\ r \in 0 .. (L2Size - 1) /\ a = L2Size * q + r
    BY <1>1, <2>1, Divides
  <2> HIDE DEF q, r
  <2>3. q < L1Size
    <3>1. ~(L2Size * L1Size + 0 <= L2Size * q + r)
      BY <1>1, <2>1, <2>2
    <3>2. ~(L1Size < q \/ (L1Size = q /\ 0 <= r))
      BY <1>1, <2>2, <3>1, QuotientsOrder
    <3>3. QED BY <1>1, <2>2, <3>2
  <2>4. q \in L1Index /\ r \in L2Index
    BY <1>1, <2>2, <2>3 DEF L1Index, L2Index
  <2>5. QED BY <2>2, <2>4 DEF level1_index, level2_index, q, r
<1>4. ASSUME NEW i \in L1Index, NEW c \in L2Index
      PROVE  /\ L2Size * i + c \in Addresses
             /\ level1_index(L2Size * i + c) = i /\ level2_index(L2Size * i + c) = c
  <2>1. i \in Nat /\ c \in Nat /\ i < L1Size /\ c < L2Size
    BY <1>1 DEF L1Index, L2Index
  <2>2. L2Size * i + c \in Nat /\ L2Size * L1Size + 0 \in Nat
    BY <1>1, <2>1
  <2>3. ~(L2Size * L1Size + 0 <= L2Size * i + c)
    BY <1>1, <2>1, QuotientsOrder
  <2>4. L2Size * i + c \in Addresses
    BY <1>1, <1>2, <2>2, <2>3 DEF Addresses
  <2>5. QED BY <1>1, <2>1, <2>4, QuotientIs DEF level1_index, level2_index
<1>5. QED BY <1>1, <1>3, <1>4

--------------------------------------------------------------------------------
(* A call on its way: from u, where e may have no references yet (it is in *)
(* X), the cells of A got entry e and no other cell changed; or the table  *)
(* ran out of subtables on the way.                                        *)
CellsOfAll == L1Index \X L2Index

Put(u, e, A, w) ==
  \A i \in L1Index, c \in L2Index :
    Cell(w, i, c) = IF <<i, c>> \in A THEN e ELSE Cell(u, i, c)

Reached(u, X, e, A, w) ==
  \/ /\ OK(w) /\ Put(u, e, A, w)
     /\ \/ A = {} /\ Kept(w, X) /\ Countable(w, X, e)
        \/ A # {} /\ Kept(w, {}) /\ Countable(w, {}, e)
  \/ /\ ~OK(w) /\ RanOut(w) /\ (Kept(w, X) \/ Kept(w, {}))
     /\ \E B \in SUBSET A : Put(u, e, B, w)

(* A call that has not begun has reached nothing.                          *)
LEMMA ReachedFirst ==
  ASSUME NEW u, NEW X, NEW e, OK(u), Kept(u, X), Countable(u, X, e)
  PROVE  Reached(u, X, e, {}, u)
BY DEF Reached, Put

(* A call that failed may have reached a part of any more that it was      *)
(* asked for.                                                              *)
LEMMA ReachedFailed ==
  ASSUME NEW u, NEW X, NEW e, NEW A, NEW w, Reached(u, X, e, A, w), ~OK(w), NEW B
  PROVE  Reached(u, X, e, A \cup B, w)
<1>1. PICK C \in SUBSET A : Put(u, e, C, w)
  BY DEF Reached
<1>2. C \in SUBSET (A \cup B)
  OBVIOUS
<1>3. QED BY <1>1, <1>2 DEF Reached

(* The same entry put in the cells of A and then in those of B is in both. *)
LEMMA PutMore ==
  ASSUME NEW u, NEW e, NEW A, NEW B, NEW v, NEW w, Put(u, e, A, v), Put(v, e, B, w)
  PROVE  Put(u, e, A \cup B, w)
BY DEF Put

(* Another step of the call that went well.                                *)
LEMMA ReachedMore ==
  ASSUME NEW u, NEW X, NEW e, NEW A, NEW v, Reached(u, X, e, A, v), OK(v),
         NEW B \in SUBSET CellsOfAll, B # {}, NEW w, OK(w), Kept(w, {}), Put(v, e, B, w)
  PROVE  Reached(u, X, e, A \cup B, w)
<1>1. Put(u, e, A, v) /\ e \in Entries
  BY DEF Reached, Countable
<1>2. Put(u, e, A \cup B, w)
  BY <1>1, PutMore
<1>3. \E i \in L1Index, c \in L2Index : Cell(w, i, c) = e
  <2>1. PICK p \in B : p \in CellsOfAll
    OBVIOUS
  <2>2. PICK i \in L1Index, c \in L2Index : p = <<i, c>>
    BY <2>1 DEF CellsOfAll
  <2>3. Cell(w, i, c) = e
    BY <2>1, <2>2 DEF Put
  <2>4. QED BY <2>3
<1>4. Countable(w, {}, e)
  <2>1. ~IsFree(w, e)
    BY <1>1, <1>3, ReachedIsBusy
  <2>2. QED BY <1>1, <2>1 DEF Countable
<1>5. A \cup B # {}
  OBVIOUS
<1>6. QED BY <1>2, <1>4, <1>5 DEF Reached

(* What is known of the state a step starts from.                          *)
LEMMA ReachedIsSound ==
  ASSUME NEW u, NEW X, NEW e, NEW A, NEW v, Reached(u, X, e, A, v), OK(v)
  PROVE  /\ e \in Entries
         /\ \E Y \in {X, {}} : Kept(v, Y) /\ Countable(v, Y, e)
BY DEF Reached, Countable

BlockCells(i, lo, hi)  == {p \in CellsOfAll : p[1] = i /\ p[2] \in lo .. hi}
WholeBlocks(lo, hi)    == {p \in CellsOfAll : p[1] \in lo .. hi}

(* A call goes on with some cells of one block.                            *)
LEMMA ReachedBlock ==
  ASSUME NEW u, NEW X, NEW e, NEW A, NEW v, Reached(u, X, e, A, v), OK(v),
         NEW i \in L1Index, NEW lo \in L2Index, NEW hi \in L2Index, lo <= hi
  PROVE  Reached(u, X, e, A \cup BlockCells(i, lo, hi), PopulateBlock(v, i, lo, hi, e))
<1> DEFINE w == PopulateBlock(v, i, lo, hi, e)
           B == BlockCells(i, lo, hi)
<1>1. PICK Y \in {X, {}} : Kept(v, Y) /\ Countable(v, Y, e)
  BY ReachedIsSound
<1>2. \/ /\ OK(w) /\ Kept(w, {})
         /\ \A k \in L1Index, c \in L2Index : Cell(w, k, c) =
              IF k = i /\ c \in lo .. hi THEN e ELSE Cell(v, k, c)
      \/ ~OK(w) /\ RanOut(w) /\ Kept(w, Y) /\ SameCells(v, w)
  BY <1>1, BlockIs
<1> HIDE DEF w
<1>3. B \in SUBSET CellsOfAll /\ <<i, lo>> \in B
  <2>1. lo \in lo .. hi
    BY Sizes DEF L2Index
  <2>2. QED BY <2>1 DEF BlockCells, CellsOfAll
<1>4. CASE OK(w)
  <2>1. Put(v, e, B, w)
    <3>1. \A k \in L1Index, c \in L2Index : <<k, c>> \in B <=> k = i /\ c \in lo .. hi
      BY DEF BlockCells, CellsOfAll
    <3> HIDE DEF B
    <3>2. QED BY <1>2, <1>4, <3>1 DEF Put
  <2> HIDE DEF B
  <2>2. B # {}
    BY <1>3
  <2>3. Reached(u, X, e, A \cup B, w)
    BY <1>2, <1>3, <1>4, <2>1, <2>2, ReachedMore
  <2>4. QED BY <2>3 DEF B, w
<1>5. CASE ~OK(w)
  <2>1. Put(u, e, A, v)
    BY DEF Reached
  <2>2. Put(u, e, A, w)
    BY <1>2, <1>5, <2>1 DEF Put, SameCells
  <2>3. A \in SUBSET (A \cup B)
    OBVIOUS
  <2> HIDE DEF B
  <2>4. Reached(u, X, e, A \cup B, w)
    BY <1>1, <1>2, <1>5, <2>2, <2>3 DEF Reached
  <2>5. QED BY <2>4 DEF B, w
<1>6. QED BY <1>4, <1>5

(* A call goes on with whole blocks.                                       *)
LEMMA ReachedMiddle ==
  ASSUME NEW u, NEW X, NEW e, NEW A, NEW v, Reached(u, X, e, A, v), OK(v),
         NEW first \in L1Index, NEW last \in L1Index, first <= last
  PROVE  Reached(u, X, e, A \cup WholeBlocks(first, last), PopulateMiddle(v, first, last, e))
<1> DEFINE w == PopulateMiddle(v, first, last, e)
           B == WholeBlocks(first, last)
<1>1. PICK Y \in {X, {}} : Kept(v, Y) /\ Countable(v, Y, e)
  BY ReachedIsSound
<1>2. /\ Kept(w, {}) /\ w.error = v.error /\ w.cells = v.cells
      /\ \A i \in L1Index : w.m_table[i] = IF i \in first .. last THEN e ELSE v.m_table[i]
  BY <1>1, MiddleIs
<1> HIDE DEF w
<1>3. OK(w)
  BY <1>2 DEF OK
<1>4. B \in SUBSET CellsOfAll /\ <<first, 0>> \in B
  <2>1. first \in first .. last /\ 0 \in L2Index
    BY Sizes DEF L1Index, L2Index
  <2>2. QED BY <2>1 DEF WholeBlocks, CellsOfAll
<1>5. Put(v, e, B, w)
  <2>1. ASSUME NEW i \in L1Index, NEW c \in L2Index
        PROVE  Cell(w, i, c) = IF <<i, c>> \in B THEN e ELSE Cell(v, i, c)
    <3>1. <<i, c>> \in B <=> i \in first .. last
      BY DEF WholeBlocks, CellsOfAll
    <3>2. e \notin Subtables
      BY <1>1, Numbers DEF Countable
    <3> HIDE DEF B
    <3>3. QED BY <1>2, <3>1, <3>2 DEF Cell
  <2>2. QED BY <2>1 DEF Put
<1> HIDE DEF B
<1>6. B # {}
  BY <1>4
<1>7. Reached(u, X, e, A \cup B, w)
  BY <1>2, <1>3, <1>4, <1>5, <1>6, ReachedMore
<1>8. QED BY <1>7 DEF B, w

(* The cells of a range of addresses.                                      *)
Span(lo, hi) == {p \in CellsOfAll : L2Size * p[1] + p[2] \in lo .. hi}

(* The cells of a range are those between its ends, block by block.        *)
LEMMA SpanIs ==
  ASSUME NEW start \in Addresses, NEW end \in Addresses, NEW i \in L1Index, NEW c \in L2Index
  PROVE  <<i, c>> \in Span(start, end) <=>
           /\ level1_index(start) < i \/ (level1_index(start) = i /\ level2_index(start) <= c)
           /\ i < level1_index(end) \/ (i = level1_index(end) /\ c <= level2_index(end))
<1> DEFINE s1 == level1_index(start)
           s2 == level2_index(start)
           e1 == level1_index(end)
           e2 == level2_index(end)
           a == L2Size * i + c
<1>1. /\ s1 \in L1Index /\ s2 \in L2Index /\ start = L2Size * s1 + s2
      /\ e1 \in L1Index /\ e2 \in L2Index /\ end = L2Size * e1 + e2
      /\ L2Size \in Nat \ {0} /\ a \in Int /\ start \in Int /\ end \in Int
  BY AddressesSplit DEF Addresses
<1> HIDE DEF s1, s2, e1, e2, a
<1>2. /\ s1 \in Int /\ s2 \in Nat /\ s2 < L2Size /\ e1 \in Int /\ e2 \in Nat /\ e2 < L2Size
      /\ i \in Int /\ c \in Nat /\ c < L2Size
  BY <1>1, Sizes DEF L1Index, L2Index
<1>3. start <= a <=> s1 < i \/ (s1 = i /\ s2 <= c)
  BY <1>1, <1>2, QuotientsOrder DEF a
<1>4. a <= end <=> i < e1 \/ (i = e1 /\ c <= e2)
  BY <1>1, <1>2, QuotientsOrder DEF a
<1>5. <<i, c>> \in Span(start, end) <=> a \in start .. end
  BY DEF Span, CellsOfAll, a
<1>6. a \in start .. end <=> start <= a /\ a <= end
  BY <1>1
<1>7. QED BY <1>3, <1>4, <1>5, <1>6 DEF s1, s2, e1, e2

(* A call goes on with a range of addresses: the part of the first block,  *)
(* the blocks between, the part of the last.                               *)
LEMMA ReachedRange ==
  ASSUME NEW u, NEW X, NEW e, NEW A, NEW v, Reached(u, X, e, A, v), OK(v),
         NEW start \in Addresses, NEW end \in Addresses, start <= end
  PROVE  Reached(u, X, e, A \cup Span(start, end), populate_range(v, start, end, e))
<1> DEFINE s1 == level1_index(start)
           s2 == level2_index(start)
           e1 == level1_index(end)
           e2 == level2_index(end)
           mask == L2Size - 1
           w == populate_range(v, start, end, e)
           S == Span(start, end)
<1>1. /\ s1 \in L1Index /\ s2 \in L2Index /\ e1 \in L1Index /\ e2 \in L2Index
      /\ start = L2Size * s1 + s2 /\ end = L2Size * e1 + e2 /\ L2Size \in Nat \ {0}
  BY AddressesSplit
<1>2. \A i \in L1Index, c \in L2Index : <<i, c>> \in S <=>
        /\ s1 < i \/ (s1 = i /\ s2 <= c)
        /\ i < e1 \/ (i = e1 /\ c <= e2)
  BY SpanIs
<1>3. S \in SUBSET CellsOfAll
  BY DEF Span
<1> HIDE DEF S, s1, s2, e1, e2
<1>4. /\ s1 \in Int /\ e1 \in Int /\ s2 \in Nat /\ e2 \in Nat /\ s2 <= mask /\ e2 <= mask
      /\ mask \in L2Index /\ 0 \in L2Index /\ mask \in Nat
  BY <1>1, Sizes DEF L1Index, L2Index
<1>5. s1 < e1 \/ (s1 = e1 /\ s2 <= e2)
  <2>1. s2 < L2Size /\ e2 < L2Size
    BY <1>1, <1>4
  <2>2. L2Size * s1 + s2 <= L2Size * e1 + e2 <=> s1 < e1 \/ (s1 = e1 /\ s2 <= e2)
    BY <1>1, <1>4, <2>1, QuotientsOrder
  <2>3. QED BY <1>1, <2>2
<1>6. \A i \in L1Index : i \in Int
  BY Sizes DEF L1Index
<1>7. \A c \in L2Index : c \in Nat /\ c <= mask
  BY Sizes DEF L2Index
<1> HIDE DEF mask
<1>8. CASE s2 # 0 /\ s1 = e1
  <2>1. w = PopulateBlock(v, s1, s2, e2, e)
    BY <1>8 DEF populate_range, s1, s2, e1, e2
  <2>2. S = BlockCells(s1, s2, e2)
    <3>1. ASSUME NEW i \in L1Index, NEW c \in L2Index
          PROVE  <<i, c>> \in S <=> <<i, c>> \in BlockCells(s1, s2, e2)
      BY <1>2, <1>4, <1>6, <1>7, <1>8 DEF BlockCells, CellsOfAll
    <3>2. QED BY <1>3, <3>1 DEF BlockCells, CellsOfAll
  <2> HIDE DEF w
  <2>3. Reached(u, X, e, A \cup BlockCells(s1, s2, e2), w)
    <3>1. s2 <= e2
      BY <1>1, <1>4, <1>5, <1>8
    <3>2. Reached(u, X, e, A \cup BlockCells(s1, s2, e2), PopulateBlock(v, s1, s2, e2, e))
      BY <1>1, <3>1, ReachedBlock
    <3>3. QED BY <2>1, <3>2
  <2>4. QED BY <2>2, <2>3 DEF w, S
<1>9. CASE ~(s2 # 0 /\ s1 = e1)
  <2> DEFINE first == IF s2 = 0 THEN s1 ELSE s1 + 1
             last  == IF e2 = mask THEN e1 ELSE e1 - 1
             x == IF s2 = 0 THEN v ELSE PopulateBlock(v, s1, s2, mask, e)
             y == IF OK(x) THEN (IF e2 = mask THEN x ELSE PopulateBlock(x, e1, 0, e2, e)) ELSE x
             z == IF OK(y) THEN (IF first > last THEN y ELSE PopulateMiddle(y, first, last, e)) ELSE y
             A1 == IF s2 = 0 THEN {} ELSE BlockCells(s1, s2, mask)
             A2 == IF e2 = mask THEN {} ELSE BlockCells(e1, 0, e2)
             A3 == IF first > last THEN {} ELSE WholeBlocks(first, last)
  <2>1. w = z
    BY <1>9 DEF populate_range, Bind, s1, s2, e1, e2, mask
  <2>2. Reached(u, X, e, A \cup A1, x)
    <3>1. CASE s2 = 0
      <4>1. A \cup A1 = A /\ x = v
        BY <3>1
      <4>2. QED BY <4>1
    <3>2. CASE s2 # 0
      <4>1. x = PopulateBlock(v, s1, s2, mask, e) /\ A1 = BlockCells(s1, s2, mask)
        BY <3>2
      <4> HIDE DEF x, A1
      <4>2. QED BY <1>1, <1>4, <4>1, ReachedBlock
    <3>3. QED BY <3>1, <3>2
  <2> HIDE DEF x, A1
  <2> DEFINE B1 == A \cup A1
  <2>3. Reached(u, X, e, B1 \cup A2, y)
    <3>1. CASE ~OK(x)
      <4>1. y = x
        BY <3>1
      <4> HIDE DEF A2, y
      <4>2. QED BY <2>2, <3>1, <4>1, ReachedFailed
    <3>2. CASE OK(x) /\ e2 = mask
      <4>1. B1 \cup A2 = B1 /\ y = x
        BY <3>2
      <4>2. QED BY <2>2, <4>1
    <3>3. CASE OK(x) /\ e2 # mask
      <4>1. y = PopulateBlock(x, e1, 0, e2, e) /\ A2 = BlockCells(e1, 0, e2)
        BY <3>3
      <4> HIDE DEF A2, y
      <4>2. 0 <= e2 /\ Reached(u, X, e, B1, x)
        BY <1>4, <2>2
      <4> HIDE DEF B1
      <4>3. QED BY <1>1, <1>4, <3>3, <4>1, <4>2, ReachedBlock
    <3>4. QED BY <3>1, <3>2, <3>3
  <2> HIDE DEF y, A2, B1
  <2> DEFINE B2 == B1 \cup A2
  <2>4. ~(first > last) => first \in L1Index /\ last \in L1Index /\ first <= last
                           /\ first \in Int /\ last \in Int
    BY <1>1, <1>4, <1>6, Sizes DEF L1Index
  <2>5. Reached(u, X, e, B2 \cup A3, z)
    <3>1. CASE ~OK(y)
      <4>1. z = y
        BY <3>1
      <4> HIDE DEF A3, z
      <4>2. QED BY <2>3, <3>1, <4>1, ReachedFailed
    <3>2. CASE OK(y) /\ first > last
      <4>1. B2 \cup A3 = B2 /\ z = y
        BY <3>2
      <4>2. QED BY <2>3, <4>1
    <3>3. CASE OK(y) /\ ~(first > last)
      <4>1. z = PopulateMiddle(y, first, last, e) /\ A3 = WholeBlocks(first, last)
        BY <3>3
      <4>2. first \in L1Index /\ last \in L1Index /\ first <= last /\ Reached(u, X, e, B2, y)
        BY <2>3, <2>4, <3>3
      <4> HIDE DEF A3, z, B2, first, last
      <4>3. QED BY <3>3, <4>1, <4>2, ReachedMiddle
    <3>4. QED BY <3>1, <3>2, <3>3
  <2> HIDE DEF z
  <2>6. A1 \cup A2 \cup A3 = S
    <3>1. ASSUME NEW i \in L1Index, NEW c \in L2Index
          PROVE  <<i, c>> \in A1 \cup A2 \cup A3 <=> <<i, c>> \in S
      <4>1. /\ i \in Int /\ c \in Nat /\ c <= mask
            /\ <<i, c>> \in S <=> /\ s1 < i \/ (s1 = i /\ s2 <= c)
                                  /\ i < e1 \/ (i = e1 /\ c <= e2)
        BY <1>2, <1>6, <1>7
      <4>2. <<i, c>> \in A1 <=> s2 # 0 /\ i = s1 /\ s2 <= c
        BY <1>4, <4>1 DEF A1, BlockCells, CellsOfAll
      <4>3. <<i, c>> \in A2 <=> e2 # mask /\ i = e1 /\ c <= e2
        BY <1>4, <4>1 DEF A2, BlockCells, CellsOfAll
      <4>4. <<i, c>> \in A3 <=> first <= i /\ i <= last
        BY <1>4, <4>1 DEF WholeBlocks, CellsOfAll
      <4> HIDE DEF A3, S
      <4>5. QED BY <1>4, <1>5, <1>9, <4>1, <4>2, <4>3, <4>4
    <3>2. A1 \cup A2 \cup A3 \subseteq CellsOfAll
      BY DEF A1, A2, BlockCells, WholeBlocks
    <3> HIDE DEF A3
    <3> DEFINE D == A1 \cup A2 \cup A3
    <3>3. \A p \in CellsOfAll : p \in D <=> p \in S
      <4> HIDE DEF D, S
      <4>1. \A i \in L1Index, c \in L2Index : <<i, c>> \in D <=> <<i, c>> \in S
        BY <3>1 DEF D
      <4>2. QED BY <4>1 DEF CellsOfAll
    <3>4. D \subseteq CellsOfAll
      BY <3>2
    <3> HIDE DEF D
    <3>5. D = S
      BY <1>3, <3>3, <3>4
    <3>6. QED BY <3>5 DEF D
  <2>7. B2 \cup A3 = A \cup S
    BY <2>6 DEF B1
  <2>8. Reached(u, X, e, A \cup S, w)
    BY <2>1, <2>5, <2>7
  <2>9. QED BY <2>8 DEF w, S
<1>10. QED BY <1>8, <1>9

--------------------------------------------------------------------------------
(* Bits.                                                                   *)
Bit(a, k) == (a \div 2^k) % 2

(* What a bit and the powers around it are.                                *)
LEMMA BitIs ==
  ASSUME NEW a \in Nat, NEW k \in Nat
  PROVE  /\ 2^k \in Nat \ {0} /\ a \div 2^k \in Nat /\ a % 2^k \in 0 .. (2^k - 1)
         /\ Bit(a, k) \in {0, 1}
         /\ a = 2^k * (a \div 2^k) + (a % 2^k)
<1> DEFINE d == 2^k
           q == a \div d
<1>1. d \in Nat \ {0}
  BY PowersOfTwo
<1> HIDE DEF d
<1>2. q \in Nat /\ a % d \in 0 .. (d - 1) /\ a = d * q + (a % d)
  BY <1>1, Divides
<1> HIDE DEF q
<1>3. q % 2 \in {0, 1}
  BY <1>2
<1>4. QED BY <1>1, <1>2, <1>3 DEF Bit, d, q

(* A number below a power of two has no bits from there on.                *)
LEMMA SmallHasNoBits ==
  ASSUME NEW a \in Nat, NEW k \in Nat, a < 2^k
  PROVE  a \div 2^k = 0 /\ a % 2^k = a /\ Bit(a, k) = 0
<1> DEFINE d == 2^k
<1>1. d \in Nat \ {0} /\ a = d * 0 + a
  BY PowersOfTwo
<1> HIDE DEF d
<1>2. a \div d = 0 /\ a % d = a
  BY <1>1, QuotientIs DEF d
<1>3. QED BY <1>2 DEF Bit, d

(* One more bit of a number.                                               *)
LEMMA OneBitMore ==
  ASSUME NEW a \in Nat, NEW k \in Nat
  PROVE  a % 2^(k + 1) = (a % 2^k) + 2^k * Bit(a, k)
<1> DEFINE d == 2^k
           q == a \div d
           r == a % d
           h == q \div 2
           b == q % 2
<1>1. /\ d \in Nat \ {0} /\ q \in Nat /\ r \in 0 .. (d - 1) /\ b \in {0, 1}
      /\ a = d * q + r
  BY BitIs DEF Bit
<1>2. 2^(k + 1) = 2 * d
  BY PowersOfTwo
<1> HIDE DEF d, q, r
<1>3. h \in Nat /\ q = 2 * h + b
  BY <1>1, Divides
<1> HIDE DEF h, b
<1>4. a = (2 * d) * h + (r + d * b)
  <2>1. \A x, y, z \in Nat : x * (2 * y + z) = (2 * x) * y + x * z
    OBVIOUS
  <2>2. d * q = (2 * d) * h + d * b
    BY <1>1, <1>3, <2>1
  <2>3. d * q \in Nat /\ (2 * d) * h \in Nat /\ d * b \in Nat
    BY <1>1, <1>3
  <2>4. QED BY <1>1, <2>2, <2>3
<1>5. r + d * b \in Nat /\ r + d * b < 2 * d /\ 2 * d \in Nat \ {0}
  BY <1>1
<1>6. a % (2 * d) = r + d * b
  BY <1>3, <1>4, <1>5, QuotientIs
<1>7. QED BY <1>2, <1>6 DEF Bit, d, q, r, b

(* Fewer bits make a smaller number.                                       *)
LEMMA FewerBitsAreLess ==
  ASSUME NEW a \in Nat, NEW b \in Nat, NEW n \in Nat,
         \A k \in 0 .. (n - 1) : Bit(a, k) = 1 => Bit(b, k) = 1
  PROVE  a % 2^n <= b % 2^n
<1> DEFINE S == {j \in Nat : j <= n => a % 2^j <= b % 2^j}
<1>1. 0 \in S
  <2>1. a % 2^0 \in 0 .. (2^0 - 1) /\ b % 2^0 \in 0 .. (2^0 - 1) /\ 2^0 = 1
    BY BitIs, PowersOfTwo
  <2>2. QED BY <2>1
<1>2. ASSUME NEW j \in S PROVE j + 1 \in S
  <2>1. SUFFICES ASSUME j + 1 <= n PROVE a % 2^(j + 1) <= b % 2^(j + 1)
    OBVIOUS
  <2> DEFINE x == Bit(a, j)
             y == Bit(b, j)
             d == 2^j
             p == a % 2^j
             q == b % 2^j
  <2>2. /\ x \in {0, 1} /\ y \in {0, 1} /\ (x = 1 => y = 1)
        /\ d \in Nat /\ p \in Nat /\ q \in Nat /\ p <= q
    <3>1. j \in 0 .. (n - 1)
      BY <2>1
    <3>2. QED BY <3>1, BitIs
  <2>3. a % 2^(j + 1) = p + d * x /\ b % 2^(j + 1) = q + d * y
    BY OneBitMore
  <2> HIDE DEF x, y, d, p, q
  <2>4. p + d * x <= q + d * y
    BY <2>2
  <2>5. QED BY <2>3, <2>4
<1>3. n \in S
  <2> HIDE DEF S
  <2>1. S \in SUBSET Nat
    BY DEF S
  <2>2. QED BY <1>1, <1>2, <2>1, SetInduction
<1>4. QED BY <1>3

(* Numbers without a common bit below n add up without a carry.            *)
Apart(a, b, n) == \A k \in 0 .. (n - 1) : Bit(a, k) = 0 \/ Bit(b, k) = 0

(* Without a common bit neither the low parts nor the quotients carry.     *)
LEMMA NoCarry ==
  ASSUME NEW a \in Nat, NEW b \in Nat, NEW n \in Nat, Apart(a, b, n)
  PROVE  /\ (a % 2^n) + (b % 2^n) < 2^n
         /\ (a + b) \div 2^n = (a \div 2^n) + (b \div 2^n)
         /\ (a + b) % 2^n = (a % 2^n) + (b % 2^n)
<1> DEFINE S == {j \in Nat : j <= n => (a % 2^j) + (b % 2^j) < 2^j}
<1>1. 0 \in S
  <2>1. a % 2^0 \in 0 .. (2^0 - 1) /\ b % 2^0 \in 0 .. (2^0 - 1) /\ 2^0 = 1
    BY BitIs, PowersOfTwo
  <2>2. QED BY <2>1
<1>2. ASSUME NEW j \in S PROVE j + 1 \in S
  <2>1. SUFFICES ASSUME j + 1 <= n PROVE (a % 2^(j + 1)) + (b % 2^(j + 1)) < 2^(j + 1)
    OBVIOUS
  <2> DEFINE x == Bit(a, j)
             y == Bit(b, j)
             d == 2^j
             p == a % 2^j
             q == b % 2^j
  <2>2. /\ x \in {0, 1} /\ y \in {0, 1} /\ (x = 0 \/ y = 0)
        /\ d \in Nat /\ p \in Nat /\ q \in Nat /\ p + q < d
    <3>1. j \in 0 .. (n - 1)
      BY <2>1
    <3>2. Bit(a, j) = 0 \/ Bit(b, j) = 0
      BY <3>1 DEF Apart
    <3>3. /\ x \in {0, 1} /\ y \in {0, 1} /\ d \in Nat /\ p \in Nat /\ q \in Nat
      BY BitIs
    <3>4. p + q < d
      BY <2>1
    <3>5. QED BY <3>2, <3>3, <3>4
  <2>3. a % 2^(j + 1) = p + d * x /\ b % 2^(j + 1) = q + d * y /\ 2^(j + 1) = 2 * d
    BY OneBitMore, PowersOfTwo
  <2> HIDE DEF x, y, d, p, q
  <2>4. (p + d * x) + (q + d * y) < 2 * d
    BY <2>2
  <2>5. QED BY <2>3, <2>4
<1>3. n \in S
  <2> HIDE DEF S
  <2>1. S \in SUBSET Nat
    BY DEF S
  <2>2. QED BY <1>1, <1>2, <2>1, SetInduction
<1> DEFINE d == 2^n
           p == a \div d
           q == b \div d
           r == a % d
           s == b % d
<1>4. r + s < d
  BY <1>3
<1>5. /\ d \in Nat \ {0} /\ p \in Nat /\ q \in Nat /\ r \in Nat /\ s \in Nat
      /\ a = d * p + r /\ b = d * q + s
  BY BitIs
<1> HIDE DEF d, p, q, r, s
<1>6. a + b = d * (p + q) + (r + s)
  BY <1>5
<1>7. (a + b) \div d = p + q /\ (a + b) % d = r + s
  <2> DEFINE m == p + q
             z == r + s
  <2>1. a + b \in Nat /\ m \in Nat /\ z \in Nat /\ z < d /\ a + b = d * m + z
    BY <1>4, <1>5, <1>6
  <2> HIDE DEF m, z
  <2>2. (a + b) \div d = m /\ (a + b) % d = z
    BY <1>5, <2>1, QuotientIs
  <2>3. QED BY <2>2 DEF m, z
<1>8. QED BY <1>4, <1>7 DEF d, p, q, r, s

(* A bit of the sum is that of the one or of the other.                    *)
LEMMA BitsAdd ==
  ASSUME NEW a \in Nat, NEW b \in Nat, NEW n \in Nat, Apart(a, b, n + 1)
  PROVE  Bit(a + b, n) = Bit(a, n) + Bit(b, n)
<1> DEFINE p == a \div 2^n
           q == b \div 2^n
<1>1. Apart(a, b, n) /\ (p % 2 = 0 \/ q % 2 = 0)
  <2>1. n \in 0 .. (n + 1 - 1)
    OBVIOUS
  <2>2. QED BY <2>1 DEF Apart, Bit
<1>2. (a + b) \div 2^n = p + q
  BY <1>1, NoCarry
<1>3. p \in Nat /\ q \in Nat
  BY BitIs
<1> HIDE DEF p, q
<1>4. (p + q) % 2 = (p % 2) + (q % 2)
  BY <1>1, <1>3
<1>5. QED BY <1>2, <1>4 DEF Bit, p, q

(* Powers of two grow with the exponent.                                   *)
LEMMA PowersGrow ==
  ASSUME NEW j \in Nat, NEW k \in Nat, j <= k
  PROVE  2^j <= 2^k
<1> DEFINE x == 2^j
           y == 2^(k - j)
<1>1. k - j \in Nat /\ j + (k - j) = k
  OBVIOUS
<1>2. 2^k = x * y
  BY <1>1, PowersAdd
<1>3. x \in Nat \ {0} /\ y \in Nat \ {0}
  BY <1>1, PowersOfTwo
<1> HIDE DEF x, y
<1>4. x <= x * y
  BY <1>3
<1>5. QED BY <1>2, <1>4 DEF x

(* The bits of the quotient by a power of two are the higher bits.         *)
LEMMA BitsAbove ==
  ASSUME NEW a \in Nat, NEW j \in Nat, NEW k \in Nat
  PROVE  /\ (a \div 2^j) \div 2^k = a \div 2^(j + k)
         /\ Bit(a \div 2^j, k) = Bit(a, j + k)
<1> DEFINE d == 2^j
           e == 2^k
           q == a \div d
           r == a % d
           p == q \div e
           s == q % e
<1>1. /\ d \in Nat \ {0} /\ e \in Nat \ {0} /\ 2^(j + k) = d * e
      /\ q \in Nat /\ r \in 0 .. (d - 1) /\ a = d * q + r
  BY BitIs, PowersAdd, PowersOfTwo
<1>2. p \in Nat /\ s \in 0 .. (e - 1) /\ q = e * p + s
  <2> HIDE DEF d, e, q
  <2>1. QED BY <1>1, Divides
<1> DEFINE m == d * e
           z == d * s + r
<1> HIDE DEF d, e, q, r, p, s
<1>3. a = m * p + z
  <2>1. \A x, y, w, v \in Nat : x * (y * w + v) = (x * y) * w + x * v
    OBVIOUS
  <2>2. d * q = m * p + d * s
    BY <1>1, <1>2, <2>1
  <2>3. d * q \in Nat /\ m * p \in Nat /\ d * s \in Nat /\ r \in Nat
    BY <1>1, <1>2
  <2> DEFINE x == d * q
             y == m * p
             w == d * s
  <2>4. a = x + r /\ x = y + w /\ x \in Nat /\ y \in Nat /\ w \in Nat /\ r \in Nat /\ z = w + r
    BY <1>1, <2>2, <2>3
  <2> HIDE DEF x, y, w, z
  <2>5. a = y + z
    BY <2>4
  <2>6. QED BY <2>5 DEF y
<1>4. m \in Nat \ {0} /\ z \in Nat /\ z < m
  <2>1. \A x, y, v, w \in Nat : w < x /\ v < y => x * v + w < x * y
    <3>1. SUFFICES ASSUME NEW x \in Nat, NEW y \in Nat, NEW v \in Nat, NEW w \in Nat, w < x, v < y
                   PROVE  x * v + w < x * y
      OBVIOUS
    <3>2. ~(x * y + 0 <= x * v + w)
      <4>1. /\ x \in Nat \ {0} /\ y \in Int /\ v \in Int /\ w \in Nat /\ 0 \in Nat /\ 0 < x /\ w < x
            /\ ~(y < v \/ (y = v /\ 0 <= w))
        BY <3>1
      <4>2. QED BY <4>1, QuotientsOrder
    <3>3. x * y \in Nat /\ x * v \in Nat
      OBVIOUS
    <3> DEFINE f == x * y
               g == x * v
    <3> HIDE DEF f, g
    <3>4. ~(f + 0 <= g + w) /\ f \in Nat /\ g \in Nat
      BY <3>2, <3>3 DEF f, g
    <3>5. g + w < f
      BY <3>4
    <3>6. QED BY <3>5 DEF f, g
  <2>2. s \in Nat /\ r \in Nat /\ s < e /\ r < d /\ d \in Nat /\ e \in Nat
    BY <1>1, <1>2
  <2>3. z < m
    BY <2>1, <2>2
  <2>4. QED BY <1>1, <2>2, <2>3
<1> HIDE DEF m, z
<1>5. a \div m = p
  BY <1>2, <1>3, <1>4, QuotientIs
<1>6. 2^(j + k) = m
  BY <1>1 DEF m
<1>7. (a \div 2^j) \div 2^k = a \div 2^(j + k)
  BY <1>5, <1>6 DEF p, q, d, e
<1>8. QED BY <1>7 DEF Bit

(* Doubling a number and adding a bit shifts its bits by one.              *)
LEMMA BitsOfDouble ==
  ASSUME NEW a \in Nat, NEW b \in {0, 1}
  PROVE  /\ Bit(2 * a + b, 0) = b
         /\ \A k \in Nat : Bit(2 * a + b, k + 1) = Bit(a, k)
<1> DEFINE c == 2 * a + b
<1>1. c \in Nat /\ c \div 2 = a /\ c % 2 = b
  OBVIOUS
<1>2. 2^1 = 2 /\ 2^0 = 1
  <2>1. 2^(0 + 1) = 2 * 2^0 /\ 2^0 = 1 /\ 0 + 1 = 1
    BY PowersOfTwo
  <2>2. QED BY <2>1
<1> HIDE DEF c
<1>3. Bit(c, 0) = b
  BY <1>1, <1>2 DEF Bit
<1>4. ASSUME NEW k \in Nat PROVE Bit(c, k + 1) = Bit(a, k)
  <2>1. Bit(c \div 2^1, k) = Bit(c, 1 + k)
    BY <1>1, BitsAbove
  <2>2. 1 + k = k + 1
    OBVIOUS
  <2>3. QED BY <1>1, <1>2, <2>1, <2>2
<1>5. QED BY <1>3, <1>4 DEF c

(* There is a number with any bits.                                        *)
WithBits(a, B, n) == \A k \in Nat : Bit(a, k) = 1 <=> k < n /\ k \in B

(* Whatever bits below n are asked for, a number below 2^n has them.       *)
LEMMA NumberWithBits ==
  ASSUME NEW n \in Nat, NEW B
  PROVE  \E a \in 0 .. (2^n - 1) : WithBits(a, B, n)
<1> DEFINE Good(j) ==
             \E a \in Nat : /\ a < 2^j
                            /\ \A k \in Nat : Bit(a, k) = 1 <=> k < j /\ (k + (n - j)) \in B
           P == {j \in 0 .. n : Good(j)}
<1>1. 0 \in P
  <2>1. 0 < 2^0 /\ 0 \in Nat /\ 2^0 = 1
    BY PowersOfTwo
  <2>2. ASSUME NEW k \in Nat PROVE Bit(0, k) = 0
    <3>1. 2^k \in Nat \ {0}
      BY PowersOfTwo
    <3>2. 0 < 2^k
      BY <3>1
    <3>3. QED BY <3>2, SmallHasNoBits
  <2>3. Good(0)
    BY <2>1, <2>2
  <2>4. QED BY <2>3
<1>2. ASSUME NEW j \in 0 .. (n - 1), j \in P PROVE j + 1 \in P
  <2>1. PICK a \in Nat : /\ a < 2^j
                         /\ \A k \in Nat : Bit(a, k) = 1 <=> k < j /\ (k + (n - j)) \in B
    BY <1>2
  <2> DEFINE b == IF n - (j + 1) \in B THEN 1 ELSE 0
             c == 2 * a + b
             d == 2^j
  <2>2. b \in {0, 1} /\ (b = 1 <=> n - (j + 1) \in B) /\ c \in Nat
    OBVIOUS
  <2>3. Bit(c, 0) = b /\ \A k \in Nat : Bit(c, k + 1) = Bit(a, k)
    BY BitsOfDouble
  <2>4. c < 2^(j + 1)
    <3>1. 2^(j + 1) = 2 * d /\ d \in Nat /\ a < d
      BY <2>1, PowersOfTwo
    <3> HIDE DEF b, d
    <3>2. QED BY <2>2, <3>1
  <2> HIDE DEF b, c
  <2>5. ASSUME NEW k \in Nat PROVE Bit(c, k) = 1 <=> k < j + 1 /\ (k + (n - (j + 1))) \in B
    <3>1. CASE k = 0
      <4>1. 0 < j + 1 /\ 0 + (n - (j + 1)) = n - (j + 1)
        OBVIOUS
      <4>2. QED BY <2>2, <2>3, <3>1, <4>1
    <3>2. CASE k # 0
      <4> DEFINE i == k - 1
      <4>1. i \in Nat /\ i + 1 = k /\ i + (n - j) = k + (n - (j + 1)) /\ (i < j <=> k < j + 1)
        BY <3>2
      <4> HIDE DEF i
      <4>2. Bit(c, i + 1) = Bit(a, i)
        BY <2>3, <4>1
      <4>3. Bit(a, i) = 1 <=> i < j /\ (i + (n - j)) \in B
        BY <2>1, <4>1
      <4>4. QED BY <4>1, <4>2, <4>3
    <3>3. QED BY <3>1, <3>2
  <2>6. Good(j + 1) /\ j + 1 \in 0 .. n
    BY <2>2, <2>4, <2>5
  <2>7. QED BY <2>6
<1>3. n \in P
  <2> HIDE DEF P
  <2>1. QED BY <1>1, <1>2, LoopInduction
<1>4. PICK a \in Nat : /\ a < 2^n
                       /\ \A k \in Nat : Bit(a, k) = 1 <=> k < n /\ (k + (n - n)) \in B
  BY <1>3
<1>5. WithBits(a, B, n)
  <2>1. \A k \in Nat : k + (n - n) = k
    OBVIOUS
  <2>2. QED BY <1>4, <2>1 DEF WithBits
<1>6. a \in 0 .. (2^n - 1)
  <2> DEFINE d == 2^n
  <2>1. d \in Nat /\ a < d
    BY <1>4, PowersOfTwo
  <2> HIDE DEF d
  <2>2. a \in 0 .. (d - 1)
    BY <2>1
  <2>3. QED BY <2>2 DEF d
<1>7. QED BY <1>5, <1>6

(* Numbers with the same low bits, and with the same high bits.            *)
LEMMA SameLowBits ==
  ASSUME NEW a \in Nat, NEW b \in Nat, NEW n \in Nat,
         \A k \in 0 .. (n - 1) : Bit(a, k) = Bit(b, k)
  PROVE  a % 2^n = b % 2^n
<1>1. a % 2^n <= b % 2^n /\ b % 2^n <= a % 2^n
  <2>1. \A k \in 0 .. (n - 1) : Bit(a, k) = 1 => Bit(b, k) = 1
    OBVIOUS
  <2>2. \A k \in 0 .. (n - 1) : Bit(b, k) = 1 => Bit(a, k) = 1
    OBVIOUS
  <2>3. QED BY <2>1, <2>2, FewerBitsAreLess
<1> DEFINE x == a % 2^n
           y == b % 2^n
<1>2. x \in Nat /\ y \in Nat
  BY BitIs
<1> HIDE DEF x, y
<1>3. x <= y /\ y <= x
  BY <1>1 DEF x, y
<1>4. x = y
  BY <1>2, <1>3
<1>5. QED BY <1>4 DEF x, y

(* A number below 2^n has no bit from n on.                                *)
LEMMA NoBitsThere ==
  ASSUME NEW a \in Nat, NEW n \in Nat, a < 2^n, NEW k \in Nat, n <= k
  PROVE  Bit(a, k) = 0
<1>1. 2^n <= 2^k /\ 2^n \in Nat /\ 2^k \in Nat
  BY PowersGrow, PowersOfTwo
<1>2. a < 2^k
  BY <1>1
<1>3. QED BY <1>2, SmallHasNoBits

(* Numbers with the same bits from j on have the same quotient by 2^j.     *)
LEMMA SameHighBits ==
  ASSUME NEW n \in Nat, NEW a \in Nat, NEW b \in Nat, a < 2^n, b < 2^n, NEW j \in Nat,
         \A k \in Nat : j <= k /\ k < n => Bit(a, k) = Bit(b, k)
  PROVE  a \div 2^j = b \div 2^j
<1> DEFINE p == a \div 2^j
           q == b \div 2^j
<1>1. p \in Nat /\ q \in Nat /\ p <= a /\ q <= b
  <2> DEFINE d == 2^j
  <2>1. d \in Nat \ {0}
    BY PowersOfTwo
  <2> HIDE DEF d
  <2>2. \A x \in Nat : x \div d \in Nat /\ x \div d <= x
    <3>1. SUFFICES ASSUME NEW x \in Nat PROVE x \div d \in Nat /\ x \div d <= x
      OBVIOUS
    <3> DEFINE y == x \div d
               z == x % d
    <3>2. y \in Nat /\ z \in 0 .. (d - 1) /\ x = d * y + z
      BY <2>1, Divides
    <3> HIDE DEF y, z
    <3>3. y <= d * y
      BY <2>1, <3>2
    <3>4. d * y \in Nat /\ z \in Nat
      BY <2>1, <3>2
    <3>5. y <= x
      BY <3>2, <3>3, <3>4
    <3>6. QED BY <3>2, <3>5 DEF y
  <2>3. QED BY <2>2 DEF d
<1>2. p < 2^n /\ q < 2^n
  <2>1. 2^n \in Nat
    BY PowersOfTwo
  <2> HIDE DEF p, q
  <2>2. QED BY <1>1, <2>1
<1>3. ASSUME NEW k \in 0 .. (n - 1) PROVE Bit(p, k) = Bit(q, k)
  <2>1. k \in Nat /\ j + k \in Nat /\ j <= j + k
    OBVIOUS
  <2>2. Bit(p, k) = Bit(a, j + k) /\ Bit(q, k) = Bit(b, j + k)
    BY <2>1, BitsAbove
  <2>3. CASE j + k < n
    BY <2>1, <2>2, <2>3
  <2>4. CASE n <= j + k
    <3>1. Bit(a, j + k) = 0 /\ Bit(b, j + k) = 0
      BY <2>1, <2>4, NoBitsThere
    <3>2. QED BY <2>2, <3>1
  <2>5. QED BY <2>1, <2>3, <2>4
<1> HIDE DEF p, q
<1>4. p % 2^n = q % 2^n
  BY <1>1, <1>3, SameLowBits
<1>5. p % 2^n = p /\ q % 2^n = q
  BY <1>1, <1>2, SmallHasNoBits
<1>6. p = q
  BY <1>4, <1>5
<1>7. QED BY <1>6 DEF p, q

--------------------------------------------------------------------------------
(* Addresses and their bits.                                               *)

LEMMA BitsOfAddress ==
  ASSUME NEW a \in Addresses
  PROVE  /\ a \in Nat /\ a < 2^AddrBits /\ AddrBits \in Nat
         /\ SetBits(a) \in SUBSET Bits
         /\ \A k \in Bits : k \in Nat /\ Bit(a, k) \in {0, 1} /\ (k \in SetBits(a) <=> Bit(a, k) = 1)
<1>1. AddrBits \in Nat /\ 2^AddrBits \in Nat
  BY AddrBitsAssumption, PowersOfTwo
<1>2. a \in Nat /\ a < 2^AddrBits
  <2> DEFINE d == 2^AddrBits
  <2>1. d \in Nat /\ a \in 0 .. (d - 1)
    BY <1>1 DEF Addresses
  <2> HIDE DEF d
  <2>2. a \in Nat /\ a < d
    BY <2>1
  <2>3. QED BY <2>2 DEF d
<1>3. \A k \in Bits : k \in Nat
  BY <1>1 DEF Bits
<1>4. \A k \in Bits : k \in SetBits(a) <=> Bit(a, k) = 1
  BY DEF SetBits, Bit
<1>5. \A k \in Bits : Bit(a, k) \in {0, 1}
  BY <1>2, <1>3, BitIs
<1>6. QED BY <1>1, <1>2, <1>3, <1>4, <1>5 DEF SetBits

(* Numbers of AddrBits bits are addresses.                                 *)
LEMMA AddressIs ==
  ASSUME NEW a \in Nat, a < 2^AddrBits
  PROVE  a \in Addresses
<1> DEFINE d == 2^AddrBits
<1>1. d \in Nat /\ a < d
  BY AddrBitsAssumption, PowersOfTwo
<1> HIDE DEF d
<1>2. a \in 0 .. (d - 1)
  BY <1>1
<1>3. QED BY <1>2 DEF d, Addresses

(* No two addresses have the same bits; fewer bits make a lower one.       *)
LEMMA FewerBits ==
  ASSUME NEW a \in Addresses, NEW b \in Addresses, SetBits(a) \subseteq SetBits(b)
  PROVE  a <= b
<1>1. /\ a \in Nat /\ b \in Nat /\ AddrBits \in Nat /\ a < 2^AddrBits /\ b < 2^AddrBits
  BY BitsOfAddress
<1>2. \A k \in 0 .. (AddrBits - 1) : Bit(a, k) = 1 => Bit(b, k) = 1
  <2>1. \A k \in Bits : Bit(a, k) = 1 => Bit(b, k) = 1
    BY BitsOfAddress
  <2>2. QED BY <2>1 DEF Bits
<1>3. a % 2^AddrBits <= b % 2^AddrBits
  BY <1>1, <1>2, FewerBitsAreLess
<1>4. a % 2^AddrBits = a /\ b % 2^AddrBits = b
  BY <1>1, SmallHasNoBits
<1>5. QED BY <1>3, <1>4

(* An address is known by its bits.                                        *)
LEMMA SameAddress ==
  ASSUME NEW a \in Addresses, NEW b \in Addresses, SetBits(a) = SetBits(b)
  PROVE  a = b
<1>1. a <= b /\ b <= a
  BY FewerBits
<1>2. a \in Nat /\ b \in Nat
  BY BitsOfAddress
<1>3. QED BY <1>1, <1>2

(* ValueOf is the address with these bits.                                 *)
LEMMA ValueIs ==
  ASSUME NEW B \in SUBSET Bits
  PROVE  ValueOf(B) \in Addresses /\ SetBits(ValueOf(B)) = B
<1> DEFINE T == {a \in Addresses : SetBits(a) \subseteq B}
<1>1. PICK a \in Addresses : SetBits(a) = B
  <2>1. AddrBits \in Nat
    BY AddrBitsAssumption
  <2>2. PICK a \in 0 .. (2^AddrBits - 1) : WithBits(a, B, AddrBits)
    BY <2>1, NumberWithBits
  <2>3. a \in Addresses
    BY <2>2 DEF Addresses
  <2>4. \A k \in Bits : k \in SetBits(a) <=> k \in B
    <3>1. \A k \in Bits : k \in Nat /\ k < AddrBits
      BY <2>1 DEF Bits
    <3>2. \A k \in Bits : k \in SetBits(a) <=> Bit(a, k) = 1
      BY <2>3, BitsOfAddress
    <3>3. QED BY <2>2, <3>1, <3>2 DEF WithBits
  <2>5. QED BY <2>3, <2>4 DEF SetBits
<1>2. Max(T) \in T /\ \A y \in T : Max(T) >= y
  <2>1. 2^AddrBits - 1 \in Nat
    <3>1. 2^AddrBits \in Nat \ {0}
      BY AddrBitsAssumption, PowersOfTwo
    <3>2. QED BY <3>1
  <2>2. T \in SUBSET (0 .. (2^AddrBits - 1)) /\ T # {}
    BY <1>1 DEF Addresses
  <2> HIDE DEF T
  <2>3. QED BY <2>1, <2>2, MaxIsGreatest
<1> DEFINE m == Max(T)
<1>3. m \in Addresses /\ SetBits(m) \subseteq B /\ m >= a
  BY <1>1, <1>2
<1> HIDE DEF m
<1>4. m <= a
  BY <1>1, <1>3, FewerBits
<1>5. m = a
  <2>1. m \in Nat /\ a \in Nat
    BY <1>1, <1>3, BitsOfAddress
  <2>2. QED BY <1>3, <1>4, <2>1
<1>6. ValueOf(B) = m
  BY DEF ValueOf, m
<1>7. QED BY <1>1, <1>5, <1>6

(* Bits that an address does not have are added to it.                     *)
LEMMA SumIs ==
  ASSUME NEW a \in Addresses, NEW B \in SUBSET Bits, SetBits(a) \cap B = {}
  PROVE  a + ValueOf(B) \in Addresses /\ SetBits(a + ValueOf(B)) = SetBits(a) \cup B
<1> DEFINE b == ValueOf(B)
<1>1. b \in Addresses /\ SetBits(b) = B
  BY ValueIs
<1> HIDE DEF b
<1>2. /\ a \in Nat /\ b \in Nat /\ AddrBits \in Nat /\ a < 2^AddrBits /\ b < 2^AddrBits
      /\ \A k \in Bits : /\ k \in Nat /\ Bit(a, k) \in {0, 1} /\ Bit(b, k) \in {0, 1}
                         /\ k \in SetBits(a) <=> Bit(a, k) = 1
                         /\ k \in B <=> Bit(b, k) = 1
  BY <1>1, BitsOfAddress
<1>3. \A n \in Nat : n <= AddrBits => Apart(a, b, n)
  <2>1. SUFFICES ASSUME NEW n \in Nat, n <= AddrBits, NEW k \in 0 .. (n - 1)
                 PROVE  Bit(a, k) = 0 \/ Bit(b, k) = 0
    BY DEF Apart
  <2>2. k \in Bits
    BY <1>2, <2>1 DEF Bits
  <2>3. QED BY <1>2, <2>2
<1>4. a + b \in Addresses
  <2>1. Apart(a, b, AddrBits)
    BY <1>2, <1>3
  <2>2. (a % 2^AddrBits) + (b % 2^AddrBits) < 2^AddrBits
    BY <1>2, <2>1, NoCarry
  <2>3. a % 2^AddrBits = a /\ b % 2^AddrBits = b
    BY <1>2, SmallHasNoBits
  <2>4. a + b \in Nat /\ a + b < 2^AddrBits
    BY <1>2, <2>2, <2>3
  <2>5. QED BY <2>4, AddressIs
<1>5. ASSUME NEW k \in Bits PROVE k \in SetBits(a + b) <=> k \in SetBits(a) \cup B
  <2>1. k \in Nat /\ k + 1 \in Nat /\ k + 1 <= AddrBits
    BY <1>2 DEF Bits
  <2>2. Bit(a + b, k) = Bit(a, k) + Bit(b, k)
    <3>1. Apart(a, b, k + 1)
      BY <1>3, <2>1
    <3>2. QED BY <1>2, <2>1, <3>1, BitsAdd
  <2>3. k \in SetBits(a + b) <=> Bit(a + b, k) = 1
    BY <1>4, BitsOfAddress
  <2>4. Bit(a, k) \in {0, 1} /\ Bit(b, k) \in {0, 1} /\ ~(Bit(a, k) = 1 /\ Bit(b, k) = 1)
    BY <1>2
  <2>5. Bit(a + b, k) = 1 <=> Bit(a, k) = 1 \/ Bit(b, k) = 1
    BY <2>2, <2>4
  <2>6. QED BY <1>2, <2>3, <2>5
<1>6. SetBits(a + b) \in SUBSET Bits /\ SetBits(a) \in SUBSET Bits
  BY DEF SetBits
<1>7. SetBits(a + b) = SetBits(a) \cup B
  BY <1>5, <1>6
<1>8. QED BY <1>4, <1>7 DEF b

(* An address is what a set of bits leaves of it, and these bits.          *)
LEMMA SplitIs ==
  ASSUME NEW a \in Addresses, NEW B \in SUBSET Bits
  PROVE  /\ ValueOf(SetBits(a) \ B) \in Addresses
         /\ SetBits(ValueOf(SetBits(a) \ B)) = SetBits(a) \ B
         /\ a = ValueOf(SetBits(a) \ B) + ValueOf(SetBits(a) \cap B)
<1> DEFINE x == ValueOf(SetBits(a) \ B)
           C == SetBits(a) \cap B
<1>1. SetBits(a) \in SUBSET Bits /\ SetBits(a) \ B \in SUBSET Bits /\ C \in SUBSET Bits
  BY DEF SetBits
<1>2. x \in Addresses /\ SetBits(x) = SetBits(a) \ B
  BY <1>1, ValueIs
<1>3. SetBits(x) \cap C = {} /\ SetBits(x) \cup C = SetBits(a)
  BY <1>2
<1> HIDE DEF x, C
<1>4. x + ValueOf(C) \in Addresses /\ SetBits(x + ValueOf(C)) = SetBits(a)
  BY <1>1, <1>2, <1>3, SumIs
<1>5. a = x + ValueOf(C)
  BY <1>4, SameAddress
<1>6. QED BY <1>2, <1>5 DEF x, C

(* The block of an address is made by its high bits, its cell by the low.  *)
LEMMA BlockBits ==
  ASSUME NEW a \in Addresses, NEW b \in Addresses
  PROVE  level1_index(a) = level1_index(b) <=>
           \A k \in Bits : LEVEL2_BITS <= k => (k \in SetBits(a) <=> k \in SetBits(b))
<1>1. LEVEL2_BITS \in Nat
  BY AddrBitsAssumption, AddressTableAssumption
<1>2. /\ a \in Nat /\ b \in Nat /\ a < 2^AddrBits /\ b < 2^AddrBits /\ AddrBits \in Nat
      /\ \A k \in Bits : /\ k \in Nat /\ Bit(a, k) \in {0, 1} /\ Bit(b, k) \in {0, 1}
                         /\ k \in SetBits(a) <=> Bit(a, k) = 1
                         /\ k \in SetBits(b) <=> Bit(b, k) = 1
  BY BitsOfAddress
<1>3. ASSUME level1_index(a) = level1_index(b), NEW k \in Bits, LEVEL2_BITS <= k
      PROVE  k \in SetBits(a) <=> k \in SetBits(b)
  <2> DEFINE i == k - LEVEL2_BITS
  <2>1. i \in Nat /\ LEVEL2_BITS + i = k
    BY <1>1, <1>2, <1>3
  <2> HIDE DEF i
  <2>2. /\ Bit(a \div 2^LEVEL2_BITS, i) = Bit(a, LEVEL2_BITS + i)
        /\ Bit(b \div 2^LEVEL2_BITS, i) = Bit(b, LEVEL2_BITS + i)
    <3>1. a \in Nat /\ b \in Nat /\ LEVEL2_BITS \in Nat /\ i \in Nat
      BY <1>1, <1>2, <2>1
    <3>2. Bit(a \div 2^LEVEL2_BITS, i) = Bit(a, LEVEL2_BITS + i)
      BY <3>1, BitsAbove
    <3>3. Bit(b \div 2^LEVEL2_BITS, i) = Bit(b, LEVEL2_BITS + i)
      BY <3>1, BitsAbove
    <3>4. QED BY <3>2, <3>3
  <2>3. a \div 2^LEVEL2_BITS = b \div 2^LEVEL2_BITS
    BY <1>3 DEF level1_index, L2Size
  <2>4. QED BY <1>2, <2>1, <2>2, <2>3
<1>4. ASSUME \A k \in Bits : LEVEL2_BITS <= k => (k \in SetBits(a) <=> k \in SetBits(b))
      PROVE  level1_index(a) = level1_index(b)
  <2>1. \A k \in Nat : LEVEL2_BITS <= k /\ k < AddrBits => Bit(a, k) = Bit(b, k)
    <3>1. \A k \in Nat : k < AddrBits => k \in Bits
      BY <1>2 DEF Bits
    <3>2. QED BY <1>2, <1>4, <3>1
  <2>2. a \div 2^LEVEL2_BITS = b \div 2^LEVEL2_BITS
    BY <1>1, <1>2, <2>1, SameHighBits
  <2>3. QED BY <2>2 DEF level1_index, L2Size
<1>5. QED BY <1>3, <1>4

(* The cell within a block is made by the low bits alone.                  *)
LEMMA ColumnBits ==
  ASSUME NEW a \in Addresses, NEW b \in Addresses,
         \A k \in Bits : k < LEVEL2_BITS => (k \in SetBits(a) <=> k \in SetBits(b))
  PROVE  level2_index(a) = level2_index(b)
<1>1. LEVEL2_BITS \in Nat /\ LEVEL2_BITS <= AddrBits
  BY AddrBitsAssumption, AddressTableAssumption
<1>2. /\ a \in Nat /\ b \in Nat /\ AddrBits \in Nat
      /\ \A k \in Bits : /\ k \in Nat /\ Bit(a, k) \in {0, 1} /\ Bit(b, k) \in {0, 1}
                         /\ k \in SetBits(a) <=> Bit(a, k) = 1
                         /\ k \in SetBits(b) <=> Bit(b, k) = 1
  BY BitsOfAddress
<1>3. \A k \in 0 .. (LEVEL2_BITS - 1) : Bit(a, k) = Bit(b, k)
  <2>1. \A k \in 0 .. (LEVEL2_BITS - 1) : k \in Bits /\ k < LEVEL2_BITS
    BY <1>1, <1>2 DEF Bits
  <2>2. QED BY <1>2, <2>1
<1>4. a % 2^LEVEL2_BITS = b % 2^LEVEL2_BITS
  BY <1>1, <1>2, <1>3, SameLowBits
<1>5. QED BY <1>4 DEF level2_index, L2Size

--------------------------------------------------------------------------------
(* The copies that mirror bits make: one for every set of the bits.        *)
Rank(bits, b) == Cardinality({k \in bits : k < b})
CopyBits(bits, count) == {b \in bits : Rank(bits, b) \in SetBits(count)}

(* The ranks of the bits of a set are the numbers below its size, each     *)
(* once.                                                                   *)
LEMMA RanksAre ==
  ASSUME NEW bits \in SUBSET Bits
  PROVE  /\ Cardinality(bits) \in 0 .. AddrBits
         /\ \A b \in bits : Rank(bits, b) \in 0 .. (Cardinality(bits) - 1)
         /\ \A b, c \in bits : Rank(bits, b) = Rank(bits, c) => b = c
         /\ \A r \in 0 .. (Cardinality(bits) - 1) : \E b \in bits : Rank(bits, b) = r
<1> DEFINE n == Cardinality(bits)
           Below(b) == {k \in bits : k < b}
<1>1. AddrBits \in Nat /\ \A k \in bits : k \in Nat
  BY AddrBitsAssumption DEF Bits
<1>2. IsFiniteSet(bits) /\ n \in Nat /\ n <= AddrBits
  <2>1. 0 \in Int /\ AddrBits - 1 \in Int
    BY <1>1
  <2>2. IsFiniteSet(Bits) /\ Cardinality(Bits) = IF 0 > AddrBits - 1 THEN 0 ELSE AddrBits - 1 - 0 + 1
    BY <2>1, FS_Interval DEF Bits
  <2>3. Cardinality(Bits) = AddrBits
    BY <1>1, <2>2
  <2>4. IsFiniteSet(bits) /\ n <= Cardinality(Bits)
    BY <2>2, FS_Subset
  <2>5. n \in Nat
    BY <2>4, FS_CardinalityType
  <2>6. QED BY <2>3, <2>4, <2>5
<1>3. ASSUME NEW b \in bits PROVE IsFiniteSet(Below(b)) /\ Rank(bits, b) \in 0 .. (n - 1)
  <2>1. Below(b) \in SUBSET bits /\ b \notin Below(b)
    BY <1>1
  <2>2. /\ IsFiniteSet(Below(b)) /\ Cardinality(Below(b)) <= n
        /\ n = Cardinality(Below(b)) => bits = Below(b)
    <3> HIDE DEF Below
    <3>1. QED BY <1>2, <2>1, FS_Subset
  <2>3. Cardinality(Below(b)) \in Nat
    BY <2>2, FS_CardinalityType
  <2>4. Cardinality(Below(b)) # n
    BY <2>1, <2>2
  <2>5. Cardinality(Below(b)) \in 0 .. (n - 1)
    <3> DEFINE m == Cardinality(Below(b))
    <3>1. m \in Nat /\ m <= n /\ m # n
      BY <2>2, <2>3, <2>4
    <3> HIDE DEF m, n
    <3>2. m \in 0 .. (n - 1)
      BY <1>2, <3>1
    <3>3. QED BY <3>2 DEF m, n
  <2>6. QED BY <2>2, <2>5 DEF Rank
<1>4. ASSUME NEW b \in bits, NEW c \in bits, b < c PROVE Rank(bits, b) # Rank(bits, c)
  <2>1. Below(b) \in SUBSET Below(c) /\ b \in Below(c) /\ b \notin Below(b)
    BY <1>1, <1>4
  <2>2. Cardinality(Below(c)) = Cardinality(Below(b)) => Below(c) = Below(b)
    <3>1. IsFiniteSet(Below(c))
      BY <1>3
    <3> HIDE DEF Below
    <3>2. QED BY <2>1, <3>1, FS_Subset
  <2>3. QED BY <2>1, <2>2 DEF Rank
<1>5. \A b, c \in bits : Rank(bits, b) = Rank(bits, c) => b = c
  <2>1. SUFFICES ASSUME NEW b \in bits, NEW c \in bits, Rank(bits, b) = Rank(bits, c) PROVE b = c
    OBVIOUS
  <2>2. ~(b < c) /\ ~(c < b)
    BY <1>4, <2>1
  <2>3. QED BY <1>1, <2>2
<1>6. \A r \in 0 .. (n - 1) : \E b \in bits : Rank(bits, b) = r
  <2> DEFINE f == [b \in bits |-> Rank(bits, b)]
             T == 0 .. (n - 1)
  <2>1. f \in Injection(bits, T)
    BY <1>3, <1>5 DEF Injection, IsInjective
  <2>2. IsFiniteSet(T) /\ Cardinality(T) = n
    <3>1. 0 \in Int /\ n - 1 \in Int
      BY <1>2
    <3>2. IsFiniteSet(T) /\ Cardinality(T) = IF 0 > n - 1 THEN 0 ELSE n - 1 - 0 + 1
      BY <3>1, FS_Interval
    <3> HIDE DEF n
    <3>3. (IF 0 > n - 1 THEN 0 ELSE n - 1 - 0 + 1) = n
      BY <1>2
    <3>4. QED BY <3>2, <3>3
  <2>3. f \in Surjection(bits, T)
    <3> HIDE DEF f, T
    <3>1. QED BY <2>1, <2>2, FS_Injection DEF n
  <2>4. \A r \in T : \E b \in bits : f[b] = r
    BY <2>3 DEF Surjection
  <2>5. QED BY <2>4
<1>7. n \in 0 .. AddrBits
  <2> HIDE DEF n
  <2>1. QED BY <1>1, <1>2
<1>8. QED BY <1>3, <1>5, <1>6, <1>7

(* Counting through the mirror bits meets every set of them exactly once.  *)
LEMMA CopiesAreAll ==
  ASSUME NEW bits \in SUBSET Bits
  PROVE  /\ 2^Cardinality(bits) \in Nat \ {0}
         /\ \A count \in 0 .. (2^Cardinality(bits) - 1) :
              CopyBits(bits, count) \in SUBSET bits /\ count \in Addresses
         /\ \A c, d \in 0 .. (2^Cardinality(bits) - 1) :
              CopyBits(bits, c) = CopyBits(bits, d) => c = d
         /\ \A B \in SUBSET bits :
              \E count \in 0 .. (2^Cardinality(bits) - 1) : CopyBits(bits, count) = B
<1> DEFINE n == Cardinality(bits)
           R(b) == Rank(bits, b)
<1>1. /\ n \in 0 .. AddrBits
      /\ \A b \in bits : R(b) \in 0 .. (n - 1)
      /\ \A b, c \in bits : R(b) = R(c) => b = c
      /\ \A r \in 0 .. (n - 1) : \E b \in bits : R(b) = r
  BY RanksAre
<1> HIDE DEF n, R
<1>2. n \in Nat /\ AddrBits \in Nat /\ n <= AddrBits /\ 2^n \in Nat \ {0} /\ 2^n <= 2^AddrBits
      /\ 2^AddrBits \in Nat
  <2>1. n \in Nat /\ AddrBits \in Nat /\ n <= AddrBits
    BY <1>1, AddrBitsAssumption
  <2>2. QED BY <2>1, PowersOfTwo, PowersGrow
<1>3. \A count \in 0 .. (2^n - 1) : count \in Nat /\ count < 2^n /\ count \in Addresses
  <2>1. \A count \in 0 .. (2^n - 1) : count \in Nat /\ count < 2^n /\ count < 2^AddrBits
    <3> DEFINE x == 2^n
               y == 2^AddrBits
    <3>1. x \in Nat /\ y \in Nat /\ x <= y
      BY <1>2
    <3> HIDE DEF x, y
    <3>2. \A count \in 0 .. (x - 1) : count \in Nat /\ count < x /\ count < y
      BY <3>1
    <3>3. QED BY <3>2 DEF x, y
  <2>2. QED BY <2>1, AddressIs
<1>4. ASSUME NEW c \in 0 .. (2^n - 1), NEW k \in SetBits(c) PROVE k \in 0 .. (n - 1)
  <2>1. k \in Bits /\ Bit(c, k) = 1 /\ k \in Nat
    BY <1>3, BitsOfAddress
  <2>2. ~(n <= k)
    BY <1>2, <1>3, <2>1, NoBitsThere
  <2>3. QED BY <1>2, <2>1, <2>2
<1>5. ASSUME NEW c \in 0 .. (2^n - 1), NEW d \in 0 .. (2^n - 1),
             CopyBits(bits, c) = CopyBits(bits, d)
      PROVE  c = d
  <2>1. ASSUME NEW k \in 0 .. (n - 1) PROVE k \in SetBits(c) <=> k \in SetBits(d)
    <3>1. PICK b \in bits : R(b) = k
      BY <1>1
    <3>2. /\ b \in CopyBits(bits, c) <=> k \in SetBits(c)
          /\ b \in CopyBits(bits, d) <=> k \in SetBits(d)
      BY <3>1 DEF CopyBits, R
    <3>3. QED BY <1>5, <3>2
  <2>2. SetBits(c) = SetBits(d)
    BY <1>4, <2>1
  <2>3. QED BY <1>3, <2>2, SameAddress
<1>6. ASSUME NEW B \in SUBSET bits
      PROVE  \E count \in 0 .. (2^n - 1) : CopyBits(bits, count) = B
  <2> DEFINE D == {R(b) : b \in B}
  <2>1. D \in SUBSET (0 .. (n - 1))
    BY <1>1
  <2>2. \A b \in bits : R(b) \in D <=> b \in B
    BY <1>1
  <2> HIDE DEF D
  <2>3. PICK a \in 0 .. (2^n - 1) : WithBits(a, D, n)
    BY <1>2, NumberWithBits
  <2>4. ASSUME NEW r \in 0 .. (n - 1) PROVE r \in SetBits(a) <=> r \in D
    <3>1. r \in Bits /\ r \in Nat /\ r < n
      BY <1>2 DEF Bits
    <3>2. r \in SetBits(a) <=> Bit(a, r) = 1
      BY <1>3, <3>1, BitsOfAddress
    <3>3. QED BY <2>3, <3>1, <3>2 DEF WithBits
  <2>5. CopyBits(bits, a) = B
    <3>1. \A b \in bits : b \in CopyBits(bits, a) <=> b \in B
      BY <1>1, <2>2, <2>4 DEF CopyBits, R
    <3>2. CopyBits(bits, a) \in SUBSET bits
      BY DEF CopyBits
    <3>3. QED BY <3>1, <3>2
  <2>6. QED BY <2>5
<1>7. \A count \in 0 .. (2^n - 1) : CopyBits(bits, count) \in SUBSET bits
  BY DEF CopyBits
<1>8. QED BY <1>2, <1>3, <1>5, <1>6, <1>7 DEF n

(* The address that count adds is the one with the mirror bits chosen by   *)
(* it.                                                                     *)
LEMMA MirrorBaseIs ==
  ASSUME NEW bits, NEW count
  PROVE  MirrorBase(bits, count) = ValueOf(CopyBits(bits, count))
BY DEF MirrorBase, CopyBits, Rank

--------------------------------------------------------------------------------
(* Requests.                                                               *)

LEMMA QuotientsGrow ==
  ASSUME NEW a \in Nat, NEW b \in Nat, a <= b, NEW d \in Nat \ {0}
  PROVE  a \div d <= b \div d
<1> DEFINE p == a \div d
           q == b \div d
           r == a % d
           s == b % d
<1>1. p \in Nat /\ r \in 0 .. (d - 1) /\ a = d * p + r
  BY Divides
<1>2. q \in Nat /\ s \in 0 .. (d - 1) /\ b = d * q + s
  BY Divides
<1> HIDE DEF p, q, r, s
<1>3. d * p + r <= d * q + s
  BY <1>1, <1>2
<1>4. p \in Int /\ q \in Int /\ r \in Nat /\ s \in Nat /\ r < d /\ s < d
  BY <1>1, <1>2
<1>5. p < q \/ (p = q /\ r <= s)
  BY <1>3, <1>4, QuotientsOrder
<1>6. QED BY <1>1, <1>2, <1>5 DEF p, q

Changing(r) == ChangingBits(r.start, r.end)

(* A request that the loops over the copies can take.                      *)
Fit(r) ==
  /\ r.start \in Addresses /\ r.end \in Addresses /\ r.start <= r.end
  /\ r.mirror \in SUBSET Bits
  /\ r.mirror \cap Changing(r) = {}
  /\ r.mirror \cap (SetBits(r.start) \cup SetBits(r.end)) = {}

(* The bits that change are the lowest ones.                               *)
LEMMA ChangingAre ==
  ASSUME NEW a \in Addresses, NEW b \in Addresses
  PROVE  /\ ChangingBits(a, b) = 0 .. (Cardinality(ChangingBits(a, b)) - 1)
         /\ Cardinality(ChangingBits(a, b)) \in 0 .. AddrBits
         /\ \A k \in Bits \ ChangingBits(a, b) : k \in SetBits(a) <=> k \in SetBits(b)
<1> DEFINE diff == {k \in Bits : (k \in SetBits(a)) # (k \in SetBits(b))}
           C == ChangingBits(a, b)
<1>1. C = {k \in Bits : \E d \in diff : k <= d}
  BY DEF ChangingBits
<1>2. AddrBits \in Nat /\ \A k \in Bits : k \in Nat
  BY AddrBitsAssumption DEF Bits
<1>3. PICK n \in 0 .. AddrBits : C = 0 .. (n - 1)
  <2>1. CASE diff = {}
    <3>1. C = 0 .. (0 - 1)
      BY <1>1, <2>1
    <3>2. QED BY <1>2, <3>1
  <2>2. CASE diff # {}
    <3>1. diff \in SUBSET (0 .. AddrBits)
      BY <1>2 DEF Bits
    <3> DEFINE m == Max(diff)
    <3>2. m \in diff /\ \A y \in diff : m >= y
      <4> HIDE DEF diff
      <4>1. QED BY <1>2, <2>2, <3>1, MaxIsGreatest
    <3> HIDE DEF m
    <3>3. m \in Bits /\ m \in Nat /\ m + 1 \in 0 .. AddrBits
      BY <1>2, <3>2 DEF Bits
    <3>4. \A y \in diff : y <= m /\ y \in Nat
      BY <1>2, <3>2, <3>3
    <3> HIDE DEF diff
    <3>5. \A k \in Bits : (\E d \in diff : k <= d) <=> k <= m
      BY <1>2, <3>2, <3>3, <3>4
    <3>6. C = {k \in Bits : k <= m}
      BY <1>1, <3>5
    <3>7. C = 0 .. ((m + 1) - 1)
      BY <1>2, <3>3, <3>6 DEF Bits
    <3>8. QED BY <3>3, <3>7
  <2>3. QED BY <2>1, <2>2
<1>4. Cardinality(C) = n
  <2>1. 0 \in Int /\ n - 1 \in Int /\ n \in Nat
    BY <1>2
  <2>2. Cardinality(C) = IF 0 > n - 1 THEN 0 ELSE n - 1 - 0 + 1
    BY <1>3, <2>1, FS_Interval
  <2>3. (IF 0 > n - 1 THEN 0 ELSE n - 1 - 0 + 1) = n
    BY <2>1
  <2>4. QED BY <2>2, <2>3
<1>5. ASSUME NEW k \in Bits \ C PROVE k \in SetBits(a) <=> k \in SetBits(b)
  <2>1. k \notin diff
    BY <1>1, <1>2
  <2>2. (k \in SetBits(a)) = (k \in SetBits(b))
    BY <2>1
  <2>3. QED BY <2>2
<1>6. QED BY <1>3, <1>4, <1>5

(* All of a range has the bits that its ends share; when it is a whole     *)
(* power-of-two zone, whatever has them is in it.                          *)
LEMMA RangeBits ==
  ASSUME NEW a \in Addresses, NEW b \in Addresses, a <= b, NEW y \in Addresses
  PROVE  LET C == ChangingBits(a, b)
             Same == \A k \in Bits \ C : k \in SetBits(y) <=> k \in SetBits(a)
         IN  /\ y \in a .. b => Same
             /\ SetBits(a) \cap C = {} /\ C \subseteq SetBits(b) => (Same => y \in a .. b)
<1> DEFINE C == ChangingBits(a, b)
           n == Cardinality(C)
<1>1. /\ C = 0 .. (n - 1) /\ n \in 0 .. AddrBits /\ AddrBits \in Nat
      /\ \A k \in Bits \ C : k \in SetBits(a) <=> k \in SetBits(b)
  BY ChangingAre, AddrBitsAssumption
<1> HIDE DEF C, n
<1>2. /\ a \in Nat /\ b \in Nat /\ y \in Nat /\ a < 2^AddrBits /\ b < 2^AddrBits /\ y < 2^AddrBits
      /\ SetBits(a) \in SUBSET Bits /\ SetBits(b) \in SUBSET Bits /\ SetBits(y) \in SUBSET Bits
      /\ \A k \in Bits : /\ k \in Nat /\ Bit(a, k) \in {0, 1} /\ Bit(b, k) \in {0, 1}
                         /\ Bit(y, k) \in {0, 1}
                         /\ k \in SetBits(a) <=> Bit(a, k) = 1
                         /\ k \in SetBits(b) <=> Bit(b, k) = 1
                         /\ k \in SetBits(y) <=> Bit(y, k) = 1
  BY BitsOfAddress
<1>3. n \in Nat /\ 2^n \in Nat \ {0}
  BY <1>1, PowersOfTwo
<1>4. \A k \in Bits : k \notin C <=> n <= k
  BY <1>1, <1>2, <1>3
<1>5. ASSUME y \in a .. b, NEW k \in Bits \ C
      PROVE  k \in SetBits(y) <=> k \in SetBits(a)
  <2>1. a \div 2^n = b \div 2^n
    <3>1. \A j \in Nat : n <= j /\ j < AddrBits => Bit(a, j) = Bit(b, j)
      <4>1. \A j \in Nat : j < AddrBits => j \in Bits
        BY <1>1 DEF Bits
      <4>2. QED BY <1>1, <1>2, <1>4, <4>1
    <3>2. AddrBits \in Nat /\ n \in Nat /\ a \in Nat /\ b \in Nat /\ a < 2^AddrBits /\ b < 2^AddrBits
      BY <1>1, <1>2, <1>3
    <3>3. QED BY <3>1, <3>2, SameHighBits
  <2>2. a \div 2^n <= y \div 2^n /\ y \div 2^n <= b \div 2^n
    <3>1. a <= y /\ y <= b
      BY <1>2, <1>5
    <3>2. QED BY <1>2, <1>3, <3>1, QuotientsGrow
  <2>3. a \div 2^n \in Nat /\ y \div 2^n \in Nat
    BY <1>2, <1>3, BitIs
  <2>4. a \div 2^n = y \div 2^n
    <3> DEFINE p == a \div 2^n
               q == y \div 2^n
    <3>1. p \in Nat /\ q \in Nat /\ p <= q /\ q <= p
      BY <2>1, <2>2, <2>3
    <3> HIDE DEF p, q
    <3>2. p = q
      BY <3>1
    <3>3. QED BY <3>2 DEF p, q
  <2> DEFINE i == k - n
  <2>5. i \in Nat /\ n + i = k
    BY <1>2, <1>3, <1>4
  <2> HIDE DEF i
  <2>6. Bit(a \div 2^n, i) = Bit(a, n + i) /\ Bit(y \div 2^n, i) = Bit(y, n + i)
    <3>1. a \in Nat /\ y \in Nat /\ n \in Nat /\ i \in Nat
      BY <1>2, <1>3, <2>5
    <3>2. Bit(a \div 2^n, i) = Bit(a, n + i)
      BY <3>1, BitsAbove
    <3>3. Bit(y \div 2^n, i) = Bit(y, n + i)
      BY <3>1, BitsAbove
    <3>4. QED BY <3>2, <3>3
  <2>8. QED BY <1>2, <2>4, <2>5, <2>6
<1>6. ASSUME SetBits(a) \cap C = {}, C \subseteq SetBits(b),
             \A k \in Bits \ C : k \in SetBits(y) <=> k \in SetBits(a)
      PROVE  y \in a .. b
  <2>1. SetBits(a) \subseteq SetBits(y) /\ SetBits(y) \subseteq SetBits(b)
    BY <1>1, <1>2, <1>6
  <2>2. a <= y /\ y <= b
    BY <2>1, FewerBits
  <2>3. QED BY <1>2, <2>2
<1>7. QED BY <1>5, <1>6 DEF C

(* Optimizing keeps a request fit, and what it selects.                    *)
LEMMA OptimizedIs ==
  ASSUME NEW r \in Requests
  PROVE  Fit(OptimizeMirror(r)) /\ Selected(OptimizeMirror(r)) = Selected(r)
<1> DEFINE C == Changing(r)
           low == Cardinality(C)
           run == {k \in r.mirror : low .. k \subseteq r.mirror}
           whole == SetBits(r.start) \cap C = {} /\ C \subseteq SetBits(r.end)
           o == OptimizeMirror(r)
<1>1. /\ r.start \in Addresses /\ r.end \in Addresses /\ r.mirror \in SUBSET Bits
      /\ r.start <= r.end /\ r.mirror \cap C = {}
      /\ r.mirror \cap (SetBits(r.start) \cup SetBits(r.end)) = {}
  BY DEF Requests, ValidRequest, Changing
<1>2. Fit(r)
  BY <1>1 DEF Fit
<1>3. CASE ~whole
  <2>1. o = r
    BY <1>3 DEF OptimizeMirror, Changing
  <2>2. QED BY <1>2, <2>1
<1>4. CASE whole
  <2> DEFINE s == r.start
             e == r.end
             M == r.mirror
             z == ValueOf(SetBits(e) \cup run)
             D == ChangingBits(s, z)
  <2>1. o = [start |-> s, end |-> z, mirror |-> M \ run]
    BY <1>4 DEF OptimizeMirror, Changing
  <2>2. o.start = s /\ o.end = z /\ o.mirror = M \ run
    BY <2>1
  <2>3. SetBits(e) \cup run \in SUBSET Bits /\ SetBits(s) \in SUBSET Bits /\ run \in SUBSET M
    BY <1>1 DEF SetBits
  <2>4. z \in Addresses /\ SetBits(z) = SetBits(e) \cup run
    BY <2>3, ValueIs
  <2>5. /\ C = 0 .. (low - 1) /\ low \in 0 .. AddrBits /\ AddrBits \in Nat
        /\ \A k \in Bits : k \in Nat
        /\ \A k \in Bits \ C : k \in SetBits(s) <=> k \in SetBits(e)
    BY <1>1, ChangingAre, AddrBitsAssumption DEF Changing, Bits
  <2>6. D = C \cup run
    <3> DEFINE f == {k \in Bits : (k \in SetBits(s)) # (k \in SetBits(e))}
               g == {k \in Bits : (k \in SetBits(s)) # (k \in SetBits(z))}
    <3>1. g = f \cup run
      <4>1. \A k \in run : k \in Bits /\ k \notin SetBits(s)
        BY <1>1, <2>3
      <4>2. \A k \in Bits : (k \in SetBits(s)) # (k \in SetBits(z))
               <=> (k \in SetBits(s)) # (k \in SetBits(e)) \/ k \in run
        <5> HIDE DEF z
        <5>1. QED BY <2>4, <4>1
      <4> HIDE DEF run, z
      <4>3. QED BY <4>1, <4>2
    <3>2. C = {k \in Bits : \E d \in f : k <= d} /\ D = {k \in Bits : \E d \in g : k <= d}
      BY DEF ChangingBits, Changing
    <3> HIDE DEF f, g, D, z
    <3>3. ASSUME NEW k \in Bits PROVE k \in D <=> k \in C \cup run
      <4>1. k \in D <=> k \in C \/ \E d \in run : k <= d
        BY <3>1, <3>2, <3>3
      <4>2. ASSUME NEW d \in run, k <= d PROVE k \in C \cup run
        <5>1. CASE k < low
          <6>1. k \in C
            BY <2>5, <5>1
          <6>2. QED BY <6>1
        <5>2. CASE low <= k
          <6>1. low .. d \subseteq M /\ d \in Nat /\ k \in Nat /\ low \in Nat
            BY <1>1, <2>5, <4>2
          <6>2. low .. k \subseteq low .. d /\ k \in low .. d
            <7> HIDE DEF low
            <7>1. QED BY <4>2, <5>2, <6>1
          <6>3. QED BY <6>1, <6>2
        <5>3. low \in Nat /\ k \in Nat
          BY <2>5
        <5>4. QED BY <5>1, <5>2, <5>3
      <4>3. ASSUME k \in run PROVE \E d \in run : k <= d
        <5>1. k <= k
          BY <2>5
        <5>2. QED BY <4>3, <5>1
      <4> HIDE DEF run, C, low
      <4>4. QED BY <4>1, <4>2, <4>3
    <3>4. D \in SUBSET Bits /\ C \in SUBSET Bits
      BY <3>2
    <3> HIDE DEF run, C
    <3>5. run \in SUBSET Bits
      BY <1>1, <2>3
    <3>6. QED BY <3>3, <3>4, <3>5
  <2> HIDE DEF o, z, D
  <2>7. SetBits(s) \cap D = {} /\ D \subseteq SetBits(z)
    BY <1>1, <1>4, <2>3, <2>4, <2>6
  <2>8. s <= z
    <3>1. SetBits(s) \subseteq SetBits(z)
      BY <1>4, <2>3, <2>4, <2>5
    <3>2. QED BY <1>1, <2>4, <3>1, FewerBits
  <2>9. /\ M \ run \in SUBSET Bits /\ (M \ run) \cap D = {}
        /\ (M \ run) \cap (SetBits(s) \cup SetBits(z)) = {}
    BY <1>1, <2>4, <2>6
  <2>10. Fit(o)
    BY <1>1, <2>2, <2>4, <2>8, <2>9 DEF Fit, Changing, D
  <2>11. ASSUME NEW x \in Addresses
         PROVE  ValueOf(SetBits(x) \ (M \ run)) \in s .. z <=> ValueOf(SetBits(x) \ M) \in s .. e
    <3> DEFINE y == ValueOf(SetBits(x) \ M)
               w == ValueOf(SetBits(x) \ (M \ run))
    <3>1. SetBits(x) \ M \in SUBSET Bits /\ SetBits(x) \ (M \ run) \in SUBSET Bits
      BY DEF SetBits
    <3>2. /\ y \in Addresses /\ SetBits(y) = SetBits(x) \ M
          /\ w \in Addresses /\ SetBits(w) = SetBits(x) \ (M \ run)
      BY <3>1, ValueIs
    <3> HIDE DEF y, w
    <3>3. y \in s .. e <=> \A k \in Bits \ C : k \in SetBits(y) <=> k \in SetBits(s)
      BY <1>1, <1>4, <3>2, RangeBits DEF Changing
    <3>4. w \in s .. z <=> \A k \in Bits \ D : k \in SetBits(w) <=> k \in SetBits(s)
      BY <1>1, <2>4, <2>7, <2>8, <3>2, RangeBits DEF D
    <3>5. \A k \in run : k \in M /\ k \notin SetBits(s)
      BY <1>1, <2>3
    <3> HIDE DEF run, C
    <3>6. (\A k \in Bits \ C : k \in SetBits(y) <=> k \in SetBits(s))
            <=> (\A k \in Bits \ D : k \in SetBits(w) <=> k \in SetBits(s))
      BY <2>6, <3>2, <3>5
    <3>7. QED BY <3>3, <3>4, <3>6 DEF y, w
  <2>12. Selected(o) = Selected(r)
    <3> HIDE DEF run
    <3>1. QED BY <2>2, <2>11 DEF Selected
  <2>13. QED BY <2>10, <2>12 DEF o
<1>5. QED BY <1>3, <1>4

(* The copies of a request that has B of its mirror bits set, and those    *)
(* that differ in the low mirror bits only.                                *)
CopySpan(r, B) == Span(r.start + ValueOf(B), r.end + ValueOf(B))
HighCopy(r, H) == UNION {CopySpan(r, H \cup W) : W \in SUBSET LowBits(r)}

(* A copy is a range of addresses: those of the request with the mirror    *)
(* bits added.                                                             *)
LEMMA CopyIs ==
  ASSUME NEW r, Fit(r), NEW B \in SUBSET r.mirror
  PROVE  /\ r.start + ValueOf(B) \in Addresses /\ r.end + ValueOf(B) \in Addresses
         /\ r.start + ValueOf(B) <= r.end + ValueOf(B)
         /\ SetBits(r.start + ValueOf(B)) = SetBits(r.start) \cup B
         /\ SetBits(r.end + ValueOf(B)) = SetBits(r.end) \cup B
<1>1. /\ B \in SUBSET Bits /\ SetBits(r.start) \cap B = {} /\ SetBits(r.end) \cap B = {}
      /\ r.start \in Addresses /\ r.end \in Addresses /\ r.start <= r.end
  BY DEF Fit
<1>2. r.start \in Nat /\ r.end \in Nat /\ ValueOf(B) \in Nat
  BY <1>1, ValueIs, BitsOfAddress
<1>3. r.start + ValueOf(B) <= r.end + ValueOf(B)
  BY <1>1, <1>2
<1>4. QED BY <1>1, <1>3, SumIs

(* Adding high mirror bits and then low ones adds all of them.             *)
LEMMA BasesAdd ==
  ASSUME NEW r, Fit(r), NEW H \in SUBSET HighBits(r), NEW W \in SUBSET LowBits(r)
  PROVE  /\ H \cup W \in SUBSET r.mirror /\ H \in SUBSET r.mirror /\ W \in SUBSET r.mirror
         /\ (r.start + ValueOf(H)) + ValueOf(W) = r.start + ValueOf(H \cup W)
         /\ (r.end + ValueOf(H)) + ValueOf(W) = r.end + ValueOf(H \cup W)
<1>1. /\ H \cup W \in SUBSET r.mirror /\ H \in SUBSET r.mirror /\ W \in SUBSET r.mirror
      /\ H \cap W = {}
  BY DEF HighBits, LowBits
<1>2. W \in SUBSET Bits /\ H \in SUBSET Bits
  BY <1>1 DEF Fit
<1>3. /\ SetBits(r.start) \cap r.mirror = {} /\ SetBits(r.end) \cap r.mirror = {}
      /\ r.start \in Addresses /\ r.end \in Addresses
  BY DEF Fit
<1>4. ASSUME NEW a \in Addresses, SetBits(a) \cap r.mirror = {}
      PROVE  (a + ValueOf(H)) + ValueOf(W) = a + ValueOf(H \cup W)
  <2> DEFINE x == a + ValueOf(H)
             z == a + ValueOf(H \cup W)
  <2>1. x \in Addresses /\ SetBits(x) = SetBits(a) \cup H
    BY <1>1, <1>2, <1>4, SumIs
  <2>2. z \in Addresses /\ SetBits(z) = SetBits(a) \cup (H \cup W)
    <3>1. H \cup W \in SUBSET Bits /\ SetBits(a) \cap (H \cup W) = {}
      BY <1>1, <1>2, <1>4
    <3>2. QED BY <3>1, SumIs
  <2> HIDE DEF x, z
  <2>3. SetBits(x) \cap W = {}
    BY <1>1, <1>4, <2>1
  <2>4. x + ValueOf(W) \in Addresses /\ SetBits(x + ValueOf(W)) = SetBits(x) \cup W
    BY <1>2, <2>1, <2>3, SumIs
  <2>5. SetBits(x + ValueOf(W)) = SetBits(z)
    BY <2>1, <2>2, <2>4
  <2>6. x + ValueOf(W) = z
    BY <2>2, <2>4, <2>5, SameAddress
  <2>7. QED BY <2>6 DEF x, z
<1>5. QED BY <1>1, <1>3, <1>4

(* What a request selects are its copies.                                  *)
LEMMA SelectedAre ==
  ASSUME NEW r, Fit(r), NEW x \in Addresses
  PROVE  x \in Selected(r) <=>
           \E B \in SUBSET r.mirror : x \in (r.start + ValueOf(B)) .. (r.end + ValueOf(B))
<1> DEFINE M == r.mirror
           C == SetBits(x) \cap M
           y == ValueOf(SetBits(x) \ M)
<1>1. /\ M \in SUBSET Bits /\ r.start \in Addresses /\ r.end \in Addresses /\ r.start <= r.end
      /\ M \cap Changing(r) = {} /\ SetBits(r.start) \cap M = {}
  BY DEF Fit
<1>2. y \in Addresses /\ SetBits(y) = SetBits(x) \ M /\ x = y + ValueOf(C)
  BY <1>1, SplitIs
<1>3. x \in Selected(r) <=> y \in r.start .. r.end
  BY DEF Selected
<1> HIDE DEF y
<1>4. r.start \in Nat /\ r.end \in Nat /\ x \in Nat /\ y \in Nat
      /\ \A B \in SUBSET M : ValueOf(B) \in Nat
  BY <1>1, <1>2, BitsOfAddress, ValueIs
<1>5. ASSUME y \in r.start .. r.end
      PROVE  \E B \in SUBSET M : x \in (r.start + ValueOf(B)) .. (r.end + ValueOf(B))
  <2>1. C \in SUBSET M
    OBVIOUS
  <2> HIDE DEF C
  <2> DEFINE v == ValueOf(C)
  <2>2. v \in Nat /\ x = y + v
    BY <1>2, <1>4, <2>1
  <2> HIDE DEF v
  <2>3. x \in (r.start + v) .. (r.end + v)
    BY <1>4, <1>5, <2>2
  <2>4. QED BY <2>1, <2>3 DEF v
<1>6. ASSUME NEW B \in SUBSET M, x \in (r.start + ValueOf(B)) .. (r.end + ValueOf(B))
      PROVE  y \in r.start .. r.end
  <2> DEFINE v == ValueOf(B)
             z == x - v
  <2>1. v \in Nat
    BY <1>4
  <2> HIDE DEF v
  <2>2. z \in Nat /\ z <= x /\ z \in r.start .. r.end /\ x = z + v
    BY <1>4, <1>6, <2>1 DEF v
  <2> HIDE DEF z
  <2>3. z \in Addresses
    <3> DEFINE d == 2^AddrBits
    <3>1. x < d /\ d \in Nat
      BY BitsOfAddress, PowersOfTwo
    <3> HIDE DEF d
    <3>2. z < d
      BY <1>4, <2>2, <3>1
    <3>3. QED BY <2>2, <3>2, AddressIs DEF d
  <2>4. \A k \in Bits \ Changing(r) : k \in SetBits(z) <=> k \in SetBits(r.start)
    BY <1>1, <2>2, <2>3, RangeBits DEF Changing
  <2>5. SetBits(z) \cap M = {} /\ SetBits(z) \in SUBSET Bits
    BY <1>1, <2>4 DEF SetBits
  <2>6. x = z + ValueOf(B) /\ B \in SUBSET Bits /\ SetBits(z) \cap B = {}
    BY <1>1, <2>2, <2>5 DEF v
  <2>7. SetBits(x) = SetBits(z) \cup B
    BY <2>3, <2>6, SumIs
  <2>8. SetBits(y) = SetBits(z)
    BY <1>2, <2>5, <2>7
  <2>9. y = z
    BY <1>2, <2>3, <2>8, SameAddress
  <2>10. QED BY <2>2, <2>9
<1>7. QED BY <1>3, <1>5, <1>6

(* The cells of the addresses that a request selects.                      *)
CellsFor(r) == {p \in CellsOfAll : L2Size * p[1] + p[2] \in Selected(r)}

(* The cells of a request are those of its copies, taken by their high     *)
(* bits.                                                                   *)
LEMMA CellsAre ==
  ASSUME NEW r, Fit(r)
  PROVE  CellsFor(r) = UNION {HighCopy(r, H) : H \in SUBSET HighBits(r)}
<1>1. ASSUME NEW i \in L1Index, NEW c \in L2Index
      PROVE  <<i, c>> \in CellsFor(r) <=>
               \E H \in SUBSET HighBits(r) : <<i, c>> \in HighCopy(r, H)
  <2> DEFINE a == L2Size * i + c
  <2>1. a \in Addresses
    BY AddressesSplit
  <2>2. <<i, c>> \in CellsFor(r) <=> a \in Selected(r)
    BY DEF CellsFor, CellsOfAll
  <2>3. \A B : <<i, c>> \in CopySpan(r, B) <=> a \in (r.start + ValueOf(B)) .. (r.end + ValueOf(B))
    BY DEF CopySpan, Span, CellsOfAll
  <2> HIDE DEF a
  <2>4. a \in Selected(r) <=> \E B \in SUBSET r.mirror : <<i, c>> \in CopySpan(r, B)
    BY <2>1, <2>3, SelectedAre
  <2>5. ASSUME NEW B \in SUBSET r.mirror, <<i, c>> \in CopySpan(r, B)
        PROVE  \E H \in SUBSET HighBits(r) : <<i, c>> \in HighCopy(r, H)
    <3>1. /\ B \ LowBits(r) \in SUBSET HighBits(r) /\ B \cap LowBits(r) \in SUBSET LowBits(r)
          /\ (B \ LowBits(r)) \cup (B \cap LowBits(r)) = B
      BY DEF HighBits, LowBits
    <3>2. <<i, c>> \in HighCopy(r, B \ LowBits(r))
      BY <2>5, <3>1 DEF HighCopy
    <3>3. QED BY <3>1, <3>2
  <2>6. ASSUME NEW H \in SUBSET HighBits(r), <<i, c>> \in HighCopy(r, H)
        PROVE  \E B \in SUBSET r.mirror : <<i, c>> \in CopySpan(r, B)
    <3>1. PICK W \in SUBSET LowBits(r) : <<i, c>> \in CopySpan(r, H \cup W)
      BY <2>6 DEF HighCopy
    <3>2. H \cup W \in SUBSET r.mirror
      BY DEF HighBits, LowBits
    <3>3. QED BY <3>1, <3>2
  <2>7. QED BY <2>2, <2>4, <2>5, <2>6
<1>2. CellsFor(r) \in SUBSET CellsOfAll /\ \A H : HighCopy(r, H) \in SUBSET CellsOfAll
  BY DEF CellsFor, HighCopy, CopySpan, Span
<1> DEFINE U == UNION {HighCopy(r, H) : H \in SUBSET HighBits(r)}
<1>3. U \in SUBSET CellsOfAll
  BY <1>2
<1>4. \A p \in CellsOfAll : p \in CellsFor(r) <=> p \in U
  <2>1. \A p : p \in U <=> \E H \in SUBSET HighBits(r) : p \in HighCopy(r, H)
    OBVIOUS
  <2> HIDE DEF U
  <2>2. \A p \in CellsOfAll : \E i \in L1Index, c \in L2Index : p = <<i, c>>
    BY DEF CellsOfAll
  <2>3. QED BY <1>1, <2>1, <2>2
<1> HIDE DEF U
<1>5. CellsFor(r) = U
  BY <1>2, <1>3, <1>4
<1>6. QED BY <1>5 DEF U

(* A request within a block: each copy is in the block of its high bits,   *)
(* a block of its own, and in the same columns.                            *)
Single(r)   == level1_index(r.start) = level1_index(r.end)
Block(r, H) == level1_index(r.start + ValueOf(H))
Cols(r) ==
  UNION {level2_index(r.start + ValueOf(W)) .. level2_index(r.end + ValueOf(W)) :
           W \in SUBSET LowBits(r)}

(* Copies with different high bits are in different blocks, and those with *)
(* the same are in the same.                                               *)
LEMMA SinglesAre ==
  ASSUME NEW r, Fit(r), NEW H \in SUBSET HighBits(r)
  PROVE  /\ Block(r, H) \in L1Index
         /\ Block(r, H) = level1_index(r.end + ValueOf(H)) <=> Single(r)
         /\ \A G \in SUBSET HighBits(r) : Block(r, G) = Block(r, H) => G = H
         /\ \A W \in SUBSET LowBits(r) :
              /\ level1_index(r.start + ValueOf(H \cup W)) = Block(r, H)
              /\ Single(r) => level1_index(r.end + ValueOf(H \cup W)) = Block(r, H)
              /\ level2_index(r.start + ValueOf(H \cup W)) = level2_index(r.start + ValueOf(W))
              /\ level2_index(r.end + ValueOf(H \cup W)) = level2_index(r.end + ValueOf(W))
<1>1. /\ r.start \in Addresses /\ r.end \in Addresses /\ r.mirror \in SUBSET Bits
      /\ SetBits(r.start) \cap r.mirror = {} /\ SetBits(r.end) \cap r.mirror = {}
  BY DEF Fit
<1>2. \A B \in SUBSET r.mirror :
        /\ r.start + ValueOf(B) \in Addresses /\ SetBits(r.start + ValueOf(B)) = SetBits(r.start) \cup B
        /\ r.end + ValueOf(B) \in Addresses /\ SetBits(r.end + ValueOf(B)) = SetBits(r.end) \cup B
  BY CopyIs
<1>3. /\ \A G \in SUBSET HighBits(r) : G \in SUBSET r.mirror /\ \A k \in G : ~(k < LEVEL2_BITS)
      /\ \A W \in SUBSET LowBits(r) : W \in SUBSET r.mirror /\ \A k \in W : k < LEVEL2_BITS
      /\ \A k \in Bits : k < LEVEL2_BITS <=> ~(LEVEL2_BITS <= k)
  <2>1. LEVEL2_BITS \in Nat /\ \A k \in Bits : k \in Nat
    BY AddrBitsAssumption, AddressTableAssumption DEF Bits
  <2>2. QED BY <1>1, <2>1 DEF HighBits, LowBits
<1>4. Block(r, H) \in L1Index
  BY <1>2, <1>3, AddressesSplit DEF Block
<1>5. ASSUME NEW B \in SUBSET r.mirror
      PROVE  level1_index(r.start + ValueOf(B)) = level1_index(r.end + ValueOf(B)) <=> Single(r)
  <2> DEFINE s == r.start + ValueOf(B)
             e == r.end + ValueOf(B)
  <2>1. s \in Addresses /\ e \in Addresses /\ SetBits(s) = SetBits(r.start) \cup B
        /\ SetBits(e) = SetBits(r.end) \cup B
    BY <1>2
  <2> HIDE DEF s, e
  <2>2. level1_index(s) = level1_index(e) <=>
          \A k \in Bits : LEVEL2_BITS <= k => (k \in SetBits(s) <=> k \in SetBits(e))
    BY <2>1, BlockBits
  <2>3. Single(r) <=>
          \A k \in Bits : LEVEL2_BITS <= k => (k \in SetBits(r.start) <=> k \in SetBits(r.end))
    BY <1>1, BlockBits DEF Single
  <2>4. \A k \in B : k \notin SetBits(r.start) /\ k \notin SetBits(r.end)
    BY <1>1
  <2>5. QED BY <2>1, <2>2, <2>3, <2>4 DEF s, e
<1>6. ASSUME NEW G \in SUBSET HighBits(r), Block(r, G) = Block(r, H)
      PROVE  G = H
  <2> DEFINE g == r.start + ValueOf(G)
             h == r.start + ValueOf(H)
  <2>1. g \in Addresses /\ h \in Addresses /\ SetBits(g) = SetBits(r.start) \cup G
        /\ SetBits(h) = SetBits(r.start) \cup H
    BY <1>2, <1>3
  <2>2. level1_index(g) = level1_index(h)
    BY <1>6 DEF Block
  <2> HIDE DEF g, h
  <2>3. \A k \in Bits : LEVEL2_BITS <= k => (k \in SetBits(g) <=> k \in SetBits(h))
    BY <2>1, <2>2, BlockBits
  <2>4. G \in SUBSET r.mirror /\ H \in SUBSET r.mirror
    BY <1>3
  <2>5. \A k \in r.mirror : k \in G <=> k \in H
    BY <1>1, <1>3, <2>1, <2>3, <2>4
  <2>6. QED BY <2>4, <2>5
<1>7. ASSUME NEW W \in SUBSET LowBits(r)
      PROVE  /\ level1_index(r.start + ValueOf(H \cup W)) = Block(r, H)
             /\ level2_index(r.start + ValueOf(H \cup W)) = level2_index(r.start + ValueOf(W))
             /\ level2_index(r.end + ValueOf(H \cup W)) = level2_index(r.end + ValueOf(W))
  <2>1. H \in SUBSET r.mirror /\ W \in SUBSET r.mirror /\ H \cup W \in SUBSET r.mirror
    BY <1>3
  <2>2. level1_index(r.start + ValueOf(H \cup W)) = Block(r, H)
    <3> DEFINE g == r.start + ValueOf(H \cup W)
               h == r.start + ValueOf(H)
    <3>1. g \in Addresses /\ h \in Addresses /\ SetBits(g) = SetBits(r.start) \cup (H \cup W)
          /\ SetBits(h) = SetBits(r.start) \cup H
      BY <1>2, <2>1
    <3> HIDE DEF g, h
    <3>2. \A k \in Bits : LEVEL2_BITS <= k => (k \in SetBits(g) <=> k \in SetBits(h))
      BY <1>3, <3>1
    <3>3. level1_index(g) = level1_index(h)
      BY <3>1, <3>2, BlockBits
    <3>4. QED BY <3>3 DEF g, h, Block
  <2>3. level2_index(r.start + ValueOf(H \cup W)) = level2_index(r.start + ValueOf(W))
    <3> DEFINE g == r.start + ValueOf(H \cup W)
               h == r.start + ValueOf(W)
    <3>1. g \in Addresses /\ h \in Addresses /\ SetBits(g) = SetBits(r.start) \cup (H \cup W)
          /\ SetBits(h) = SetBits(r.start) \cup W
      BY <1>2, <2>1
    <3> HIDE DEF g, h
    <3>2. \A k \in Bits : k < LEVEL2_BITS => (k \in SetBits(g) <=> k \in SetBits(h))
      BY <1>3, <3>1
    <3>3. level2_index(g) = level2_index(h)
      BY <3>1, <3>2, ColumnBits
    <3>4. QED BY <3>3 DEF g, h
  <2>4. level2_index(r.end + ValueOf(H \cup W)) = level2_index(r.end + ValueOf(W))
    <3> DEFINE g == r.end + ValueOf(H \cup W)
               h == r.end + ValueOf(W)
    <3>1. g \in Addresses /\ h \in Addresses /\ SetBits(g) = SetBits(r.end) \cup (H \cup W)
          /\ SetBits(h) = SetBits(r.end) \cup W
      BY <1>2, <2>1
    <3> HIDE DEF g, h
    <3>2. \A k \in Bits : k < LEVEL2_BITS => (k \in SetBits(g) <=> k \in SetBits(h))
      BY <1>3, <3>1
    <3>3. level2_index(g) = level2_index(h)
      BY <3>1, <3>2, ColumnBits
    <3>4. QED BY <3>3 DEF g, h
  <2>5. QED BY <2>2, <2>3, <2>4
<1>8. ASSUME NEW W \in SUBSET LowBits(r), Single(r)
      PROVE  level1_index(r.end + ValueOf(H \cup W)) = Block(r, H)
  <2>1. H \cup W \in SUBSET r.mirror
    BY <1>3
  <2>2. QED BY <1>5, <1>7, <1>8, <2>1
<1>9. Block(r, H) = level1_index(r.end + ValueOf(H)) <=> Single(r)
  <2>1. H \in SUBSET r.mirror
    BY <1>3
  <2>2. QED BY <1>5, <2>1 DEF Block
<1>10. QED BY <1>4, <1>6, <1>7, <1>8, <1>9

(* A copy of a request within a block has the columns of the request, and  *)
(* no others.                                                              *)
LEMMA SingleCells ==
  ASSUME NEW r, Fit(r), Single(r), NEW H \in SUBSET HighBits(r)
  PROVE  /\ HighCopy(r, H) = {p \in CellsOfAll : p[1] = Block(r, H) /\ p[2] \in Cols(r)}
         /\ \A W \in SUBSET LowBits(r) :
              level2_index(r.start + ValueOf(W)) .. level2_index(r.end + ValueOf(W)) \subseteq Cols(r)
<1> DEFINE D == {p \in CellsOfAll : p[1] = Block(r, H) /\ p[2] \in Cols(r)}
           lo(W) == level2_index(r.start + ValueOf(W))
           hi(W) == level2_index(r.end + ValueOf(W))
<1>1. ASSUME NEW W \in SUBSET LowBits(r), NEW i \in L1Index, NEW c \in L2Index
      PROVE  <<i, c>> \in CopySpan(r, H \cup W) <=> i = Block(r, H) /\ c \in lo(W) .. hi(W)
  <2> DEFINE g == r.start + ValueOf(H \cup W)
             h == r.end + ValueOf(H \cup W)
  <2>1. H \cup W \in SUBSET r.mirror
    BY BasesAdd
  <2>2. g \in Addresses /\ h \in Addresses
    BY <2>1, CopyIs
  <2>3. /\ level1_index(g) = Block(r, H) /\ level1_index(h) = Block(r, H)
        /\ level2_index(g) = lo(W) /\ level2_index(h) = hi(W)
    BY SinglesAre
  <2>4. <<i, c>> \in CopySpan(r, H \cup W) <=> <<i, c>> \in Span(g, h)
    BY DEF CopySpan
  <2>5. level2_index(g) \in L2Index /\ level2_index(h) \in L2Index /\ level1_index(g) \in L1Index
    BY <2>2, AddressesSplit
  <2> DEFINE m == Block(r, H)
             x == lo(W)
             y == hi(W)
  <2> HIDE DEF g, h
  <2>6. <<i, c>> \in Span(g, h) <=>
          /\ m < i \/ (m = i /\ x <= c)
          /\ i < m \/ (i = m /\ c <= y)
    BY <2>2, <2>3, SpanIs
  <2>7. m \in Int /\ i \in Int /\ x \in Int /\ y \in Int /\ c \in Int
    BY <2>3, <2>5, Sizes DEF L1Index, L2Index
  <2> HIDE DEF m, x, y
  <2>8. <<i, c>> \in Span(g, h) <=> i = m /\ c \in x .. y
    BY <2>6, <2>7
  <2>9. QED BY <2>4, <2>8 DEF m, x, y
<1>2. \A c : c \in Cols(r) <=> \E W \in SUBSET LowBits(r) : c \in lo(W) .. hi(W)
  BY DEF Cols
<1>3. \A p : p \in HighCopy(r, H) <=> \E W \in SUBSET LowBits(r) : p \in CopySpan(r, H \cup W)
  BY DEF HighCopy
<1>4. HighCopy(r, H) \in SUBSET CellsOfAll /\ D \in SUBSET CellsOfAll
  BY DEF HighCopy, CopySpan, Span
<1>5. \A i \in L1Index, c \in L2Index : <<i, c>> \in D <=> i = Block(r, H) /\ c \in Cols(r)
  BY DEF CellsOfAll
<1> HIDE DEF D, lo, hi
<1>6. ASSUME NEW i \in L1Index, NEW c \in L2Index
      PROVE  <<i, c>> \in HighCopy(r, H) <=> <<i, c>> \in D
  <2>0. \A W \in SUBSET LowBits(r) :
          <<i, c>> \in CopySpan(r, H \cup W) <=> i = Block(r, H) /\ c \in lo(W) .. hi(W)
    BY <1>1
  <2>1. <<i, c>> \in HighCopy(r, H) <=>
          \E W \in SUBSET LowBits(r) : i = Block(r, H) /\ c \in lo(W) .. hi(W)
    BY <2>0, <1>3
  <2>2. QED BY <1>2, <1>5, <2>1
<1>7. HighCopy(r, H) = D
  BY <1>4, <1>6 DEF CellsOfAll
<1>8. \A W \in SUBSET LowBits(r) : lo(W) .. hi(W) \subseteq Cols(r)
  BY <1>2
<1>9. QED BY <1>7, <1>8 DEF D, lo, hi

--------------------------------------------------------------------------------
(* The quick way to map another copy.                                      *)

(* What a level 1 cell names is held by one more cell than the one given up.*)
LEMMA HeldTwice ==
  ASSUME NEW u, Typed(u), NEW cur \in L1Index, NEW prev \in L1Index, cur # prev
  PROVE  /\ Level1(u.m_table, u.m_table[prev]) \in Nat
         /\ Level1(u.m_table, u.m_table[prev]) - Hit(u.m_table[cur], u.m_table[prev]) >= 1
<1> DEFINE T == u.m_table
           x == T[prev]
           other == IF x = 0 THEN 1 ELSE 0
           V == [T EXCEPT ![cur] = other]
<1>1. V[cur] # x /\ V[prev] = x /\ SameBut(T, V, cur)
  BY DEF Typed, SameBut
<1>2. Hit(V[cur], x) = 0 /\ Hit(T[cur], x) \in Int
  BY <1>1 DEF Hit
<1> HIDE DEF V, T, x
<1>3. Level1(V, x) # 0 /\ Level1(V, x) \in Nat
  BY <1>1, Level1Has
<1>4. Level1(T, x) \in Nat /\ Level1(V, x) = Level1(T, x) - Hit(T[cur], x) + Hit(V[cur], x)
  BY <1>1, Level1Changes
<1>5. Level1(T, x) - Hit(T[cur], x) >= 1
  BY <1>2, <1>3, <1>4
<1>6. QED BY <1>4, <1>5 DEF T, x

(* The quick way makes one level 1 cell name what another does, and the    *)
(* books balance.                                                          *)
LEMMA QuickMapIs ==
  ASSUME NEW u, Kept(u, {}), NEW cur \in L1Index, NEW prev \in L1Index, cur # prev
  PROVE  LET w == QuickMap(u, cur, prev)
         IN  /\ Kept(w, {}) /\ w.error = u.error /\ w.cells = u.cells
             /\ w.m_table = [u.m_table EXCEPT ![cur] = u.m_table[prev]]
<1> DEFINE new == u.m_table[prev]
           held == u.m_table[cur]
           v == ReleaseCell(u, cur)
           x == IF new \in Subtables THEN subtable_realloc(v, new) ELSE handler_ref(v, new, 1)
           w == QuickMap(u, cur, prev)
<1>1. /\ Typed(u) /\ FreeKept(u, {}) /\ NeverOwing(u) /\ \A s \in Subtables : Claimed(u, s) = 0
      /\ \A h \in Dynamic : Owed(u, h) = 0
      /\ \A s \in Subtables : Claimed(u, s) \in Nat
  BY BooksAreSound DEF Kept, Books
<1>2. Typed(v) /\ FreeKept(v, {}) /\ GivenUp(u, cur, v)
  BY <1>1, ReleaseCellIs
<1>3. w = [x EXCEPT !.m_table[cur] = new]
  BY DEF QuickMap
<1> HIDE DEF v, w
<1>4. new \in Entries \cup Subtables
  BY <1>1 DEF Typed
<1>5. Level1(u.m_table, new) \in Nat /\ Level1(u.m_table, new) - Hit(held, new) >= 1
  BY <1>1, HeldTwice
<1>6. \A y, z : Hit(y, z) \in {0, 1}
  BY DEF Hit
<1> HIDE DEF new, held
<1>7. \A r \in Subtables : /\ u.m_usecount[r] \in Nat /\ v.m_usecount[r] \in Nat
                           /\ v.m_usecount[r] = u.m_usecount[r] - Hit(held, r)
  BY <1>1, <1>2 DEF Typed, GivenUp, held
<1>8. new \in Subtables => v.m_usecount[new] # 0
  <2>1. new \in Subtables => u.m_usecount[new] = Level1(u.m_table, new)
    BY UsersAreCells
  <2>2. QED BY <1>5, <1>6, <1>7, <2>1
<1>9. new \in Dynamic => ~IsFree(v, new)
  <2>1. SUFFICES ASSUME new \in Dynamic PROVE v.handler_refcount[new] # 0
    BY <1>2 DEF FreeKept
  <2>2. /\ v.handler_refcount[new] \in Nat /\ Level2(v.m_usecount, v.cells, new) \in Nat
        /\ Owed(v, new) = 0 - Hit(held, new) /\ v.m_table = u.m_table
    BY <1>1, <1>2, <2>1, Level2Has DEF Typed, GivenUp, held
  <2>3. Owed(v, new) = v.handler_refcount[new] - Level1(u.m_table, new)
                         - Level2(v.m_usecount, v.cells, new)
    BY <2>2 DEF Owed
  <2>4. QED BY <1>5, <1>6, <2>2, <2>3
<1>10. /\ Typed(x) /\ FreeKept(x, {})
       /\ x.m_table = v.m_table /\ x.cells = v.cells
       /\ \A r \in Subtables : x.m_usecount[r] = v.m_usecount[r] + Hit(new, r)
       /\ x.m_checksum = v.m_checksum /\ x.m_checksum_valid = v.m_checksum_valid
       /\ x.opened = v.opened /\ x.error = v.error
       /\ \A h \in Dynamic : Owed(x, h) = Owed(v, h) + Hit(new, h)
  <2>1. CASE new \in Subtables
    <3>1. x = subtable_realloc(v, new)
      BY <2>1
    <3> HIDE DEF x
    <3>2. /\ Typed(x)
          /\ x.m_table = v.m_table /\ x.cells = v.cells
          /\ x.m_usecount = [v.m_usecount EXCEPT ![new] = @ + 1]
          /\ x.m_checksum = v.m_checksum /\ x.m_checksum_valid = v.m_checksum_valid
          /\ x.handler_refcount = v.handler_refcount /\ x.handler_free = v.handler_free
          /\ x.opened = v.opened /\ x.error = v.error
          /\ \A h \in Dynamic : Owed(x, h) = Owed(v, h)
      BY <1>2, <1>8, <2>1, <3>1, ReallocIs
    <3>3. \A r \in Subtables : x.m_usecount[r] = v.m_usecount[r] + Hit(new, r)
      BY <1>2, <1>7, <2>1, <3>2 DEF Typed, Hit
    <3>4. \A h \in Dynamic : Owed(x, h) = Owed(v, h) + Hit(new, h)
      <4>1. SUFFICES ASSUME NEW h \in Dynamic PROVE Owed(x, h) = Owed(v, h) + Hit(new, h)
        OBVIOUS
      <4>2. Hit(new, h) = 0 /\ Owed(u, h) = 0
        BY <1>1, <2>1, Numbers DEF Hit
      <4>3. Owed(v, h) = Owed(u, h) - Hit(held, h)
        BY <1>2 DEF GivenUp, held
      <4>4. QED BY <1>6, <3>2, <4>2, <4>3
    <3>5. FreeKept(x, {})
      BY <1>2, <3>2 DEF FreeKept, IsFree
    <3>6. QED BY <3>2, <3>3, <3>4, <3>5
  <2>2. CASE new \notin Subtables
    <3>1. x = handler_ref(v, new, 1) /\ new \in Entries /\ 1 \in Nat /\ 1 # 0
      BY <1>4, <2>2
    <3> HIDE DEF x
    <3>2. ~IsFree(v, new)
      BY <1>2, <1>9 DEF IsFree, Typed
    <3>3. /\ Typed(x) /\ Unmoved(v, x) /\ x.handler_free = v.handler_free
          /\ FreeKept(x, {} \ {new})
          /\ \A h \in Dynamic : x.handler_refcount[h] =
                                  v.handler_refcount[h] + (IF h = new THEN 1 ELSE 0)
      <4> DEFINE n == 1
                 y == handler_ref(v, new, n)
      <4>1. Typed(v) /\ FreeKept(v, {}) /\ new \in Entries /\ n \in Nat /\ (n = 0 \/ ~IsFree(v, new))
        BY <1>2, <3>1, <3>2
      <4>2. n # 0
        OBVIOUS
      <4> HIDE DEF n
      <4>3. /\ Typed(y) /\ Unmoved(v, y) /\ y.handler_free = v.handler_free
            /\ (n = 0 => FreeKept(y, {})) /\ (n # 0 => FreeKept(y, {} \ {new}))
            /\ \A h \in Dynamic : y.handler_refcount[h] =
                                    v.handler_refcount[h] + (IF h = new THEN n ELSE 0)
        BY <4>1, RefIs
      <4>4. x = y
        BY <3>1 DEF n
      <4> HIDE DEF y
      <4>5. QED BY <4>2, <4>3, <4>4 DEF n
    <3>4. {} \ {new} = {}
      OBVIOUS
    <3>5. \A r \in Subtables : Hit(new, r) = 0
      BY <2>2 DEF Hit
    <3>6. ASSUME NEW h \in Dynamic PROVE Owed(x, h) = Owed(v, h) + Hit(new, h)
      <4>1. /\ v.handler_refcount[h] \in Nat /\ Level1(v.m_table, h) \in Nat
            /\ Level2(v.m_usecount, v.cells, h) \in Nat
        BY <1>2, Level1Has, Level2Has DEF Typed
      <4>2. x.handler_refcount[h] = v.handler_refcount[h] + Hit(new, h)
        BY <3>3 DEF Hit
      <4>3. QED BY <1>6, <3>3, <4>1, <4>2 DEF Owed, Unmoved
    <3>7. QED BY <1>7, <3>3, <3>4, <3>5, <3>6 DEF Unmoved
  <2>3. QED BY <2>1, <2>2
<1> HIDE DEF x
<1>11. /\ Typed(w)
       /\ w.m_table = [x.m_table EXCEPT ![cur] = new] /\ w.cells = x.cells
       /\ w.m_usecount = x.m_usecount /\ w.m_checksum = x.m_checksum
       /\ w.m_checksum_valid = x.m_checksum_valid
       /\ w.handler_refcount = x.handler_refcount /\ w.handler_free = x.handler_free
       /\ w.opened = x.opened /\ w.error = x.error
       /\ \A h \in Dynamic : Owed(w, h) = Owed(x, h) + Hit(x.m_table[cur], h) - Hit(new, h)
       /\ \A r \in Subtables : Claimed(w, r) = Claimed(x, r) + Hit(x.m_table[cur], r) - Hit(new, r)
  BY <1>3, <1>4, <1>10, CellMoves
<1>12. v.m_table = u.m_table /\ v.cells = u.cells /\ v.error = u.error
       /\ x.m_table[cur] = held
  BY <1>2, <1>10 DEF GivenUp, held
<1>13. ASSUME NEW h \in Dynamic PROVE Owed(w, h) = 0
  <2>1. Owed(v, h) = Owed(u, h) - Hit(held, h) /\ Owed(u, h) = 0
    BY <1>1, <1>2 DEF GivenUp, held
  <2>2. QED BY <1>6, <1>10, <1>11, <1>12, <2>1
<1>14. ASSUME NEW r \in Subtables PROVE Claimed(w, r) = 0
  <2>1. Claimed(u, r) = 0 /\ Level1(u.m_table, r) \in Nat
    BY <1>1, Level1Has
  <2>2. x.m_usecount[r] = u.m_usecount[r] - Hit(held, r) + Hit(new, r)
    BY <1>6, <1>7, <1>10
  <2>3. Claimed(x, r) = x.m_usecount[r] - Level1(u.m_table, r)
        /\ Claimed(u, r) = u.m_usecount[r] - Level1(u.m_table, r)
    BY <1>10, <1>12 DEF Claimed
  <2>4. Claimed(w, r) = Claimed(x, r) + Hit(held, r) - Hit(new, r)
    BY <1>11, <1>12
  <2>5. QED BY <1>6, <1>7, <2>1, <2>2, <2>3, <2>4
<1>15. ChecksumsHold(w)
  <2>1. SUFFICES ASSUME NEW r \in Subtables, w.m_checksum_valid[r], w.m_usecount[r] # 0
                 PROVE  w.m_checksum[r] = Checksum(w.cells[r])
    BY DEF ChecksumsHold
  <2>2. v.m_usecount[r] # 0
    <3>1. CASE r = new
      BY <1>8, <3>1
    <3>2. CASE r # new
      <4>1. Hit(new, r) = 0
        BY <3>2 DEF Hit
      <4>2. QED BY <1>7, <1>10, <1>11, <2>1, <4>1
    <3>3. QED BY <3>1, <3>2
  <2>3. u.m_usecount[r] # 0
    BY <1>6, <1>7, <2>2
  <2>4. w.m_checksum[r] = u.m_checksum[r] /\ w.cells = u.cells /\ u.m_checksum_valid[r]
    BY <1>2, <1>10, <1>11, <2>1, <2>2 DEF GivenUp
  <2>5. QED BY <1>1, <2>3, <2>4 DEF Kept, Books, ChecksumsHold
<1>16. FreeKept(w, {})
  BY <1>10, <1>11 DEF FreeKept, IsFree
<1>17. Kept(w, {})
  BY <1>11, <1>13, <1>14, <1>15, <1>16 DEF Kept, Books
<1>18. QED BY <1>10, <1>11, <1>12, <1>17 DEF w, new

--------------------------------------------------------------------------------
(* Why the quick way is right.  While a block is populated, every level 1  *)
(* cell that comes to name what the block named before (E) has, outside the*)
(* columns populated (C), the cells the block had (R): E is untouched, or a*)
(* subtable freed and taken again for the block, or one merged with it.    *)
Like(w, E, R, C) ==
  \A k \in L1Index : w.m_table[k] = E => \A c \in L2Index \ C : Cell(w, k, c) = R[c]

(* Merging keeps it.                                                       *)
LEMMA MergedLike ==
  ASSUME NEW u, NEW X, NEW v, Kept(u, X), Kept(v, X), Merged(u, v),
         NEW E, NEW R, NEW C, Like(u, E, R, C)
  PROVE  Like(v, E, R, C)
<1>1. SUFFICES ASSUME NEW k \in L1Index, v.m_table[k] = E, NEW c \in L2Index \ C
               PROVE  Cell(v, k, c) = R[c]
  BY DEF Like
<1>2. Cell(v, k, c) = Cell(u, k, c)
  BY MergedCells DEF SameCells
<1>3. CASE u.m_table[k] = E
  BY <1>2, <1>3 DEF Like
<1>4. CASE u.m_table[k] # E
  <2>1. E \in Subtables /\ u.m_table[k] \in Subtables /\ u.cells[E] = u.cells[u.m_table[k]]
    BY <1>1, <1>4 DEF Merged
  <2>2. v.m_usecount[E] # 0
    BY <1>1, <2>1, UsersAreCells
  <2>3. u.m_usecount[E] # 0
    BY <2>1, <2>2 DEF Merged
  <2>4. PICK j \in L1Index : u.m_table[j] = E
    BY <2>1, <2>3, UsersAreCells
  <2>5. Cell(u, j, c) = R[c]
    BY <2>4 DEF Like
  <2>6. Cell(u, j, c) = Cell(u, k, c)
    BY <2>1, <2>4 DEF Cell
  <2>7. QED BY <1>2, <2>5, <2>6
<1>5. QED BY <1>3, <1>4

(* Populating some columns of the block keeps it, whatever subtable the    *)
(* block gets.                                                             *)
LEMMA BlockLike ==
  ASSUME NEW u, NEW X, NEW e, Kept(u, X), Countable(u, X, e), OK(u), NEW i \in L1Index,
         NEW lo \in L2Index, NEW hi \in L2Index, lo <= hi, OK(PopulateBlock(u, i, lo, hi, e)),
         NEW E, NEW R, NEW C, Like(u, E, R, C), lo .. hi \subseteq C,
         \A c \in L2Index \ C : Cell(u, i, c) = R[c]
  PROVE  Like(PopulateBlock(u, i, lo, hi, e), E, R, C)
<1> DEFINE w == PopulateBlock(u, i, lo, hi, e)
           z == subtable_open(u, i)
<1>1. /\ OK(z) /\ w.m_table = z.m_table
      /\ \A k \in L1Index, c \in L2Index : Cell(w, k, c) =
           IF k = i /\ c \in lo .. hi THEN e ELSE Cell(u, k, c)
  BY BlockIs
<1>2. PICK v : Kept(v, X) /\ Merged(u, v) /\ OthersStay(v, i, z)
  BY <1>1, OpenIs
<1> HIDE DEF w, z
<1>3. Like(v, E, R, C) /\ SameCells(u, v)
  BY <1>2, MergedLike, MergedCells
<1>4. ASSUME NEW k \in L1Index, w.m_table[k] = E, NEW c \in L2Index \ C
      PROVE  Cell(w, k, c) = R[c]
  <2>1. Cell(w, k, c) = Cell(u, k, c)
    BY <1>1
  <2>2. CASE k = i
    BY <2>1, <2>2
  <2>3. CASE k # i
    <3>1. v.m_table[k] = E
      BY <1>1, <1>2, <1>4, <2>3 DEF OthersStay
    <3>2. Cell(v, k, c) = R[c]
      BY <1>3, <3>1 DEF Like
    <3>3. QED BY <1>3, <2>1, <3>2 DEF SameCells
  <2>4. QED BY <2>2, <2>3
<1>5. QED BY <1>4 DEF Like, w

(* So does populating a range within the block.                            *)
LEMMA RangeLike ==
  ASSUME NEW u, NEW X, NEW e, Kept(u, X), Countable(u, X, e), OK(u),
         NEW start \in Addresses, NEW end \in Addresses, start <= end, NEW i \in L1Index,
         level1_index(start) = i, level1_index(end) = i,
         OK(populate_range(u, start, end, e)),
         NEW E, NEW R, NEW C, Like(u, E, R, C),
         level2_index(start) .. level2_index(end) \subseteq C,
         \A c \in L2Index \ C : Cell(u, i, c) = R[c]
  PROVE  Like(populate_range(u, start, end, e), E, R, C)
<1> DEFINE s2 == level2_index(start)
           e2 == level2_index(end)
           mask == L2Size - 1
           w == populate_range(u, start, end, e)
<1>1. /\ s2 \in L2Index /\ e2 \in L2Index /\ L2Size \in Nat \ {0}
      /\ start = L2Size * i + s2 /\ end = L2Size * i + e2
  BY AddressesSplit
<1>2. i \in Int /\ mask \in L2Index /\ 0 \in L2Index
  BY Sizes DEF L1Index, L2Index
<1> HIDE DEF w
<1>3. s2 <= e2
  <2>1. s2 \in Nat /\ e2 \in Nat /\ L2Size * i \in Int
    BY <1>1, <1>2, Sizes DEF L2Index
  <2> DEFINE d == L2Size * i
  <2> HIDE DEF s2, e2, d
  <2>2. start = d + s2 /\ end = d + e2 /\ d \in Int
    BY <1>1, <2>1 DEF d
  <2>3. QED BY <2>1, <2>2
<1>4. CASE s2 # 0
  <2>1. w = PopulateBlock(u, i, s2, e2, e)
    BY <1>4 DEF populate_range, w
  <2> HIDE DEF s2, e2
  <2>2. s2 .. e2 \subseteq C /\ OK(PopulateBlock(u, i, s2, e2, e))
    BY <2>1 DEF s2, e2, w
  <2>3. Like(PopulateBlock(u, i, s2, e2, e), E, R, C)
    BY <1>1, <1>3, <2>2, BlockLike
  <2>4. QED BY <2>1, <2>3 DEF w
<1>5. CASE s2 = 0 /\ e2 # mask
  <2> DEFINE y == PopulateBlock(u, i, 0, e2, e)
  <2>1. w = y
    <3>1. i > i - 1
      BY <1>2
    <3>2. w = Bind(y, LAMBDA v : v)
      BY <1>5, <3>1 DEF populate_range, Bind, w
    <3>3. QED BY <3>2 DEF Bind
  <2> HIDE DEF s2, e2
  <2>2. 0 .. e2 \subseteq C /\ OK(y) /\ 0 <= e2
    BY <1>3, <1>5, <2>1 DEF s2, e2, w
  <2>3. Like(y, E, R, C)
    BY <1>1, <1>2, <2>2, BlockLike
  <2>4. QED BY <2>1, <2>3 DEF w
<1>6. CASE s2 = 0 /\ e2 = mask
  <2> DEFINE y == PopulateMiddle(u, i, i, e)
  <2>1. w = y
    <3>1. ~(i > i)
      BY <1>2
    <3>2. QED BY <1>6, <3>1 DEF populate_range, Bind, w
  <2>2. /\ y.cells = u.cells
        /\ \A k \in L1Index : y.m_table[k] = IF k \in i .. i THEN e ELSE u.m_table[k]
    <3>1. i <= i
      BY <1>2
    <3> DEFINE j == i
               m == i
               x == PopulateMiddle(u, j, m, e)
    <3>2. Kept(u, X) /\ Countable(u, X, e) /\ j \in L1Index /\ m \in L1Index /\ j <= m
      BY <3>1
    <3> HIDE DEF j, m, s2, e2, mask, y
    <3>3. /\ Kept(x, {}) /\ x.error = u.error /\ x.cells = u.cells
          /\ \A k \in L1Index : x.m_table[k] = IF k \in j .. m THEN e ELSE u.m_table[k]
      BY <3>2, MiddleIs
    <3>4. x = y
      BY DEF j, m, y
    <3> HIDE DEF x
    <3>5. QED BY <3>3, <3>4 DEF j, m
  <2> HIDE DEF y
  <2>3. L2Index \subseteq C
    BY <1>6 DEF L2Index
  <2>4. Like(y, E, R, C)
    BY <2>3 DEF Like
  <2>5. QED BY <2>1, <2>4 DEF w
<1>7. QED BY <1>4, <1>5, <1>6

--------------------------------------------------------------------------------
(* The copies that differ in the low mirror bits, one after the other.     *)
CopiesFold == INSTANCE FoldInduction WITH Op <- PopulateCopy

CopiesDone(r, H, j) ==
  UNION {CopySpan(r, H \cup CopyBits(LowBits(r), c)) : c \in 0 .. (j - 1)}

(* The low copies passed are none, one more and, in the end, those of H.   *)
LEMMA CopiesPass ==
  ASSUME NEW r, Fit(r), NEW H
  PROVE  /\ CopiesDone(r, H, 0) = {}
         /\ \A j \in Nat : CopiesDone(r, H, j + 1)
              = CopiesDone(r, H, j) \cup CopySpan(r, H \cup CopyBits(LowBits(r), j))
         /\ CopiesDone(r, H, 2^Cardinality(LowBits(r))) = HighCopy(r, H)
<1> DEFINE S(c) == CopySpan(r, H \cup CopyBits(LowBits(r), c))
           n == 2^Cardinality(LowBits(r))
<1>1. CopiesDone(r, H, 0) = {}
  BY DEF CopiesDone
<1>2. ASSUME NEW j \in Nat PROVE CopiesDone(r, H, j + 1) = CopiesDone(r, H, j) \cup S(j)
  <2>1. \A c : c \in 0 .. (j + 1 - 1) <=> c \in 0 .. (j - 1) \/ c = j
    OBVIOUS
  <2>2. \A p : p \in CopiesDone(r, H, j + 1) <=> \E c \in 0 .. (j + 1 - 1) : p \in S(c)
    BY DEF CopiesDone
  <2>3. \A p : p \in CopiesDone(r, H, j) <=> \E c \in 0 .. (j - 1) : p \in S(c)
    BY DEF CopiesDone
  <2> HIDE DEF S
  <2>4. QED BY <2>1, <2>2, <2>3
<1>3. CopiesDone(r, H, n) = HighCopy(r, H)
  <2>1. LowBits(r) \in SUBSET Bits
    BY DEF LowBits, Fit
  <2>2. /\ \A c \in 0 .. (n - 1) : CopyBits(LowBits(r), c) \in SUBSET LowBits(r)
        /\ \A B \in SUBSET LowBits(r) : \E c \in 0 .. (n - 1) : CopyBits(LowBits(r), c) = B
    BY <2>1, CopiesAreAll
  <2>3. \A p : p \in CopiesDone(r, H, n) <=> \E c \in 0 .. (n - 1) : p \in S(c)
    BY DEF CopiesDone
  <2>4. \A p : p \in HighCopy(r, H) <=> \E B \in SUBSET LowBits(r) : p \in CopySpan(r, H \cup B)
    BY DEF HighCopy
  <2> HIDE DEF n
  <2>5. QED BY <2>2, <2>3, <2>4
<1>4. QED BY <1>1, <1>2, <1>3

(* The loop over the low mirror bits reaches all copies with the high bits *)
(* H, and a block populated by it is like the one before.                  *)
LEMMA CopiesAre ==
  ASSUME NEW u, NEW X, NEW e, NEW A, NEW v, Reached(u, X, e, A, v), OK(v),
         NEW r, Fit(r), NEW H \in SUBSET HighBits(r), NEW E, NEW R
  PROVE  LET w == PopulateCopies(v, r, ValueOf(H), e)
         IN  /\ Reached(u, X, e, A \cup HighCopy(r, H), w)
             /\ /\ OK(w) /\ Single(r) /\ Like(v, E, R, Cols(r))
                /\ \A c \in L2Index \ Cols(r) : <<Block(r, H), c>> \notin A
                                                /\ Cell(u, Block(r, H), c) = R[c]
                => Like(w, E, R, Cols(r))
<1> DEFINE low == LowBits(r)
           n == 2^Cardinality(low)
           s == r.start + ValueOf(H)
           z == r.end + ValueOf(H)
           b == Block(r, H)
           w == PopulateCopies(v, r, ValueOf(H), e)
           Singly == /\ Single(r) /\ Like(v, E, R, Cols(r))
                     /\ \A c \in L2Index \ Cols(r) : <<b, c>> \notin A /\ Cell(u, b, c) = R[c]
<1>1. w = CopiesFold!Fold(r, s, z, e, v, Copies(low))
  BY DEF PopulateCopies, CopiesFold!Fold, FoldLeft, MapThenFoldSet, Max,
         CopiesFold!Last
<1>2. /\ n \in Nat \ {0}
      /\ \A c \in 0 .. (n - 1) : CopyBits(low, c) \in SUBSET low
  <2>1. low \in SUBSET Bits
    BY DEF LowBits, Fit
  <2>2. QED BY <2>1, CopiesAreAll
<1>3. /\ DOMAIN Copies(low) = 1 .. n
      /\ \A k \in 1 .. n : Copies(low)[k] = k - 1
  <2>1. Copies(low) = Interval(0, n - 1)
    BY DEF Copies
  <2> HIDE DEF n
  <2>2. 0 \in Int /\ n - 1 \in Int /\ n - 1 - 0 + 1 = n /\ \A k \in 1 .. n : 0 + (k - 1) = k - 1
    BY <1>2
  <2>3. /\ DOMAIN Interval(0, n - 1) = 1 .. (n - 1 - 0 + 1)
        /\ \A k \in 1 .. (n - 1 - 0 + 1) : Interval(0, n - 1)[k] = 0 + (k - 1)
    BY <2>2, IntervalIs
  <2>4. QED BY <2>1, <2>2, <2>3
<1>4. CopiesDone(r, H, 0) = {} /\ CopiesDone(r, H, n) = HighCopy(r, H)
      /\ \A j \in Nat : CopiesDone(r, H, j + 1)
              = CopiesDone(r, H, j) \cup CopySpan(r, H \cup CopyBits(low, j))
  BY CopiesPass
<1> HIDE DEF n, w, s, z
<1>a. CopiesFold!Induction(n)
  BY <1>1, <1>2, <1>3, LoopInduction DEF CopiesFold!Induction
<1>5. PICK g : CopiesFold!Passes(r, s, z, e, v, Copies(low), n, g) /\ g[n] = w
  BY <1>1, <1>2, <1>3, <1>a, CopiesFold!FoldPasses
<1> DEFINE Done(j) == CopiesDone(r, H, j)
           Good(j) == /\ Reached(u, X, e, A \cup Done(j), g[j])
                      /\ Singly /\ OK(g[j]) => Like(g[j], E, R, Cols(r))
           P == {j \in 0 .. n : Good(j)}
<1> HIDE DEF Done
<1>6. 0 \in P
  <2>1. g[0] = v /\ A \cup Done(0) = A
    BY <1>4, <1>5 DEF CopiesFold!Passes, Done
  <2>2. Good(0)
    BY <2>1
  <2>3. QED BY <1>2, <2>2
<1>7. ASSUME NEW j \in 0 .. (n - 1), j \in P PROVE j + 1 \in P
  <2> DEFINE W == CopyBits(low, j)
             y == g[j]
             a == r.start + ValueOf(H \cup W)
             f == r.end + ValueOf(H \cup W)
  <2>1. j + 1 \in 1 .. n /\ j + 1 \in 0 .. n /\ (j + 1) - 1 = j /\ j \in Nat
    BY <1>2
  <2>2. W \in SUBSET low
    BY <1>2
  <2>3. s + ValueOf(W) = a /\ z + ValueOf(W) = f /\ H \cup W \in SUBSET r.mirror
    BY <2>2, BasesAdd DEF s, z
  <2>4. a \in Addresses /\ f \in Addresses /\ a <= f
    BY <2>3, CopyIs
  <2>5. g[j + 1] = IF OK(y) THEN populate_range(y, a, f, e) ELSE y
    <3>1. g[j + 1] = PopulateCopy(r, s, z, e, y, j)
      BY <1>3, <1>5, <2>1 DEF CopiesFold!Passes
    <3>2. MirrorBase(low, j) = ValueOf(W)
      BY MirrorBaseIs
    <3> HIDE DEF W, y, a, f
    <3>3. QED BY <2>3, <3>1, <3>2 DEF PopulateCopy, Bind
  <2>6. Done(j + 1) = Done(j) \cup Span(a, f)
    BY <1>4, <2>1 DEF Done, CopySpan
  <2>7. Good(j)
    BY <1>7
  <2> DEFINE B == A \cup Done(j)
  <2>8. Reached(u, X, e, B, y)
    BY <2>7
  <2>9. A \cup Done(j + 1) = B \cup Span(a, f)
    BY <2>6
  <2>10. CASE ~OK(y)
    <3>1. g[j + 1] = y
      BY <2>5, <2>10
    <3> HIDE DEF y, a, f, B
    <3>2. Reached(u, X, e, B \cup Span(a, f), y)
      BY <2>8, <2>10, ReachedFailed
    <3>3. Good(j + 1)
      BY <2>9, <2>10, <3>1, <3>2
    <3>4. QED BY <2>1, <3>3
  <2>11. CASE OK(y)
    <3> DEFINE x == populate_range(y, a, f, e)
    <3>1. g[j + 1] = x
      BY <2>5, <2>11
    <3>2. Reached(u, X, e, B \cup Span(a, f), x)
      <4> HIDE DEF y, a, f, B
      <4>1. QED BY <2>4, <2>8, <2>11, ReachedRange
    <3>3. ASSUME Singly, OK(x) PROVE Like(x, E, R, Cols(r))
      <4>1. PICK Y \in {X, {}} : Kept(y, Y) /\ Countable(y, Y, e)
        BY <2>8, <2>11, ReachedIsSound
      <4>2. Like(y, E, R, Cols(r)) /\ Single(r)
        BY <2>7, <2>11, <3>3
      <4>3. /\ b \in L1Index /\ level1_index(a) = b /\ level1_index(f) = b
            /\ level2_index(a) = level2_index(r.start + ValueOf(W))
            /\ level2_index(f) = level2_index(r.end + ValueOf(W))
        BY <2>2, <4>2, SinglesAre
      <4>4. level2_index(r.start + ValueOf(W)) .. level2_index(r.end + ValueOf(W)) \subseteq Cols(r)
        BY <2>2, <4>2, SingleCells
      <4>5. level2_index(a) .. level2_index(f) \subseteq Cols(r)
        BY <4>3, <4>4
      <4>6. ASSUME NEW c \in L2Index \ Cols(r) PROVE Cell(y, b, c) = R[c]
        <5>1. <<b, c>> \notin A /\ Cell(u, b, c) = R[c]
          BY <3>3
        <5>2. <<b, c>> \notin HighCopy(r, H)
          BY <4>2, SingleCells DEF CellsOfAll
        <5>3. Done(j) \subseteq HighCopy(r, H)
          <6>1. \A k \in 0 .. (j - 1) : CopyBits(low, k) \in SUBSET low
            BY <1>2
          <6>2. \A p : p \in Done(j) <=> \E k \in 0 .. (j - 1) : p \in CopySpan(r, H \cup CopyBits(low, k))
            BY DEF Done, CopiesDone
          <6>3. \A p : p \in HighCopy(r, H) <=> \E V \in SUBSET low : p \in CopySpan(r, H \cup V)
            BY DEF HighCopy
          <6>4. QED BY <6>1, <6>2, <6>3
        <5>4. Put(u, e, B, y)
          BY <2>8, <2>11 DEF Reached
        <5>5. <<b, c>> \notin B
          BY <5>1, <5>2, <5>3
        <5> HIDE DEF B, y, b
        <5>6. Cell(y, b, c) = Cell(u, b, c)
          BY <4>3, <5>4, <5>5 DEF Put
        <5>7. QED BY <5>1, <5>6
      <4> HIDE DEF y, a, f, b, B
      <4>7. QED BY <2>4, <2>11, <3>3, <4>1, <4>2, <4>3, <4>5, <4>6, RangeLike
    <3> HIDE DEF x
    <3>4. Good(j + 1)
      BY <2>9, <3>1, <3>2, <3>3
    <3>5. QED BY <2>1, <3>4
  <2>12. QED BY <2>10, <2>11
<1>8. Good(n)
  <2>1. n \in P
    <3> HIDE DEF P
    <3>1. QED BY <1>2, <1>6, <1>7, LoopInduction
  <2>2. QED BY <2>1
<1>9. QED BY <1>4, <1>5, <1>8 DEF Done, w

--------------------------------------------------------------------------------
(* The copies that differ in the high mirror bits, one after the other.    *)

(* A copy has cells.                                                       *)
LEMMA CopyHasCells ==
  ASSUME NEW r, Fit(r), NEW H \in SUBSET HighBits(r)
  PROVE  HighCopy(r, H) \in SUBSET CellsOfAll /\ HighCopy(r, H) # {}
<1> DEFINE a == r.start + ValueOf(H \cup {})
           f == r.end + ValueOf(H \cup {})
           p == <<level1_index(a), level2_index(a)>>
<1>1. {} \in SUBSET LowBits(r) /\ H \cup {} \in SUBSET r.mirror
  BY DEF HighBits
<1>2. a \in Addresses /\ f \in Addresses /\ a <= f
  BY <1>1, CopyIs
<1>3. p \in CellsOfAll /\ a = L2Size * p[1] + p[2]
  BY <1>2, AddressesSplit DEF CellsOfAll
<1>4. a \in a .. f
  BY <1>2 DEF Addresses
<1>5. p \in CopySpan(r, H \cup {})
  <2>1. CopySpan(r, H \cup {}) = {q \in CellsOfAll : L2Size * q[1] + q[2] \in a .. f}
    BY DEF CopySpan, Span
  <2> HIDE DEF p, a, f
  <2>2. QED BY <1>3, <1>4, <2>1
<1>6. p \in HighCopy(r, H)
  <2> HIDE DEF p
  <2>1. QED BY <1>1, <1>5 DEF HighCopy
<1>7. HighCopy(r, H) \in SUBSET CellsOfAll
  BY DEF HighCopy, CopySpan, Span
<1>8. QED BY <1>6, <1>7

(* The cells that block G had outside the columns populated.               *)
Row(u, r, G) == [c \in L2Index |-> Cell(u, Block(r, G), c)]

(* The quick way does for copy H what populating it would: copy G was      *)
(* populated, and block H names what block G did before.                   *)
LEMMA ReachedQuick ==
  ASSUME NEW u, NEW X, NEW e, NEW A, NEW v, Reached(u, X, e, A, v), OK(v),
         NEW r, Fit(r), Single(r),
         NEW G \in SUBSET HighBits(r), NEW H \in SUBSET HighBits(r), G # H,
         HighCopy(r, G) \subseteq A, \A p \in A : p[2] \in Cols(r),
         NEW E, v.m_table[Block(r, H)] = E, Like(v, E, Row(u, r, G), Cols(r))
  PROVE  LET w == QuickMap(v, Block(r, H), Block(r, G))
         IN  /\ OK(w) /\ Reached(u, X, e, A \cup HighCopy(r, H), w)
             /\ Like(w, E, Row(u, r, G), Cols(r))
<1> DEFINE cur == Block(r, H)
           prev == Block(r, G)
           w == QuickMap(v, cur, prev)
           B == HighCopy(r, H)
           R == Row(u, r, G)
           C == Cols(r)
<1>1. cur \in L1Index /\ prev \in L1Index /\ cur # prev
  BY SinglesAre
<1>2. /\ HighCopy(r, G) = {p \in CellsOfAll : p[1] = prev /\ p[2] \in C}
      /\ B = {p \in CellsOfAll : p[1] = cur /\ p[2] \in C}
  BY SingleCells
<1>3. HighCopy(r, G) # {} /\ B # {} /\ B \in SUBSET CellsOfAll
  BY CopyHasCells
<1>4. Kept(v, {}) /\ Put(u, e, A, v)
  BY <1>3 DEF Reached
<1> HIDE DEF w, cur, prev, B, C
<1>5. /\ Kept(w, {}) /\ w.error = v.error /\ w.cells = v.cells
      /\ w.m_table = [v.m_table EXCEPT ![cur] = v.m_table[prev]]
  BY <1>1, <1>4, QuickMapIs DEF w
<1>6. OK(w)
  BY <1>5 DEF OK
<1>7. \A k \in L1Index : w.m_table[k] = IF k = cur THEN v.m_table[prev] ELSE v.m_table[k]
  BY <1>1, <1>4, <1>5 DEF Kept, Books, Typed
<1>8. \A k \in L1Index, c \in L2Index :
        Cell(w, k, c) = IF k = cur THEN Cell(v, prev, c) ELSE Cell(v, k, c)
  BY <1>5, <1>7 DEF Cell
<1>9. \A c \in C \cap L2Index : Cell(v, prev, c) = e
  <2>1. SUFFICES ASSUME NEW c \in C \cap L2Index PROVE Cell(v, prev, c) = e
    OBVIOUS
  <2>2. <<prev, c>> \in A
    BY <1>1, <1>2 DEF CellsOfAll
  <2>3. QED BY <1>1, <1>4, <2>2 DEF Put
<1>10. \A c \in L2Index \ C : Cell(v, prev, c) = R[c]
  <2>1. SUFFICES ASSUME NEW c \in L2Index \ C PROVE Cell(v, prev, c) = R[c]
    OBVIOUS
  <2>2. <<prev, c>> \notin A
    BY DEF C
  <2>3. Cell(v, prev, c) = Cell(u, prev, c)
    BY <1>1, <1>4, <2>2 DEF Put
  <2>4. QED BY <2>3 DEF Row, prev
<1>11. \A c \in L2Index \ C : Cell(v, cur, c) = R[c]
  BY <1>1 DEF Like, cur, C
<1>12. Put(v, e, B, w)
  <2>1. ASSUME NEW k \in L1Index, NEW c \in L2Index
        PROVE  Cell(w, k, c) = IF <<k, c>> \in B THEN e ELSE Cell(v, k, c)
    <3>1. <<k, c>> \in B <=> k = cur /\ c \in C
      BY <1>2 DEF CellsOfAll
    <3>2. QED BY <1>8, <1>9, <1>10, <1>11, <3>1
  <2>2. QED BY <2>1 DEF Put
<1>13. Reached(u, X, e, A \cup B, w)
  BY <1>3, <1>5, <1>6, <1>12, ReachedMore
<1>14. Like(w, E, R, C)
  <2>1. ASSUME NEW k \in L1Index, w.m_table[k] = E, NEW c \in L2Index \ C
        PROVE  Cell(w, k, c) = R[c]
    <3>1. CASE k = cur
      BY <1>8, <1>10, <3>1
    <3>2. CASE k # cur
      <4>1. v.m_table[k] = E
        BY <1>7, <2>1, <3>2
      <4>2. QED BY <1>8, <3>2, <4>1 DEF Like, C
    <3>3. QED BY <3>1, <3>2
  <2>2. QED BY <2>1 DEF Like
<1>15. QED BY <1>6, <1>13, <1>14 DEF w, cur, prev, B, C

HighDone(r, j) == UNION {HighCopy(r, CopyBits(HighBits(r), c)) : c \in 0 .. (j - 1)}

(* The copies passed are none, one more and, in the end, all of them.      *)
LEMMA HighPass ==
  ASSUME NEW r, Fit(r)
  PROVE  /\ HighDone(r, 0) = {}
         /\ \A j \in Nat : HighDone(r, j + 1)
              = HighDone(r, j) \cup HighCopy(r, CopyBits(HighBits(r), j))
         /\ HighDone(r, 2^Cardinality(HighBits(r))) = CellsFor(r)
<1> DEFINE S(c) == HighCopy(r, CopyBits(HighBits(r), c))
           n == 2^Cardinality(HighBits(r))
<1>1. HighDone(r, 0) = {}
  BY DEF HighDone
<1>2. ASSUME NEW j \in Nat PROVE HighDone(r, j + 1) = HighDone(r, j) \cup S(j)
  <2>1. \A c : c \in 0 .. (j + 1 - 1) <=> c \in 0 .. (j - 1) \/ c = j
    OBVIOUS
  <2>2. \A p : p \in HighDone(r, j + 1) <=> \E c \in 0 .. (j + 1 - 1) : p \in S(c)
    BY DEF HighDone
  <2>3. \A p : p \in HighDone(r, j) <=> \E c \in 0 .. (j - 1) : p \in S(c)
    BY DEF HighDone
  <2> HIDE DEF S
  <2>4. QED BY <2>1, <2>2, <2>3
<1>3. HighDone(r, n) = CellsFor(r)
  <2>1. HighBits(r) \in SUBSET Bits
    BY DEF HighBits, Fit
  <2>2. /\ \A c \in 0 .. (n - 1) : CopyBits(HighBits(r), c) \in SUBSET HighBits(r)
        /\ \A B \in SUBSET HighBits(r) : \E c \in 0 .. (n - 1) : CopyBits(HighBits(r), c) = B
    BY <2>1, CopiesAreAll
  <2>3. \A p : p \in HighDone(r, n) <=> \E c \in 0 .. (n - 1) : p \in S(c)
    BY DEF HighDone
  <2>4. \A p : p \in CellsFor(r) <=> \E B \in SUBSET HighBits(r) : p \in HighCopy(r, B)
    BY CellsAre
  <2> HIDE DEF n
  <2>5. QED BY <2>2, <2>3, <2>4
<1>4. QED BY <1>1, <1>2, <1>3

MirrorStep(r, entry, b, c, m, count) == MirrorTo(r, entry, m, count)

MirrorFold == INSTANCE FoldInduction WITH Op <- MirrorStep

(* What the loop knows after j copies: they were reached, and when they are*)
(* within blocks the entry and the block of one of them are remembered.    *)
Passed(u, X, e, r, j, m) ==
  /\ DOMAIN m = {"u", "prev_entry", "prev_index"}
  /\ Reached(u, X, e, HighDone(r, j), m.u)
  /\ OK(m.u) /\ Single(r) /\ j # 0 =>
       \E c \in 0 .. (j - 1) :
         /\ m.prev_index = Block(r, CopyBits(HighBits(r), c))
         /\ Like(m.u, m.prev_entry, Row(u, r, CopyBits(HighBits(r), c)), Cols(r))

(* One more pass of the loop over the high mirror bits, by the quick way   *)
(* or the long one.                                                        *)
LEMMA PassedMore ==
  ASSUME NEW u, NEW X, NEW e, NEW r, Fit(r), NEW m,
         NEW j \in 0 .. (2^Cardinality(HighBits(r)) - 1), Passed(u, X, e, r, j, m)
  PROVE  Passed(u, X, e, r, j + 1, MirrorTo(r, e, m, j))
<1> DEFINE bits == HighBits(r)
           n == 2^Cardinality(bits)
           H == CopyBits(bits, j)
           cur == Block(r, H)
           A == HighDone(r, j)
           w == MirrorTo(r, e, m, j)
<1>1. /\ n \in Nat \ {0}
      /\ \A c \in 0 .. (n - 1) : CopyBits(bits, c) \in SUBSET bits
      /\ \A c, d \in 0 .. (n - 1) : CopyBits(bits, c) = CopyBits(bits, d) => c = d
  <2>1. bits \in SUBSET Bits
    BY DEF HighBits, Fit
  <2>2. QED BY <2>1, CopiesAreAll
<1>2. j \in Nat /\ j + 1 # 0 /\ j \in 0 .. (j + 1 - 1) /\ \A c \in 0 .. (j - 1) :
        c \in 0 .. (n - 1) /\ c # j /\ c \in 0 .. (j + 1 - 1)
  <2> HIDE DEF n
  <2>1. j \in 0 .. (n - 1)
    BY DEF n
  <2>2. QED BY <1>1, <2>1
<1>3. H \in SUBSET bits
  BY <1>1
<1>4. HighDone(r, j + 1) = A \cup HighCopy(r, H)
  BY <1>2, HighPass
<1>5. cur \in L1Index /\ (cur = level1_index(r.end + ValueOf(H)) <=> Single(r))
  BY <1>3, SinglesAre
<1>6. w = IF ~OK(m.u) THEN m
          ELSE IF Single(r) /\ j # 0 /\ m.prev_entry = m.u.m_table[cur]
          THEN [m EXCEPT !.u = QuickMap(m.u, cur, m.prev_index)]
          ELSE [u          |-> PopulateCopies(m.u, r, ValueOf(H), e),
                prev_entry |-> IF Single(r) THEN m.u.m_table[cur] ELSE m.prev_entry,
                prev_index |-> IF Single(r) THEN cur ELSE m.prev_index]
  <2>1. MirrorBase(bits, j) = ValueOf(H)
    BY MirrorBaseIs
  <2>2. cur = level1_index(r.start + ValueOf(H))
    BY DEF Block
  <2> HIDE DEF cur, H
  <2>3. QED BY <1>5, <2>1, <2>2 DEF MirrorTo
<1>7. \A c \in 0 .. (j - 1) : \A p : p \in HighCopy(r, CopyBits(bits, c)) => p \in A
  BY DEF HighDone
<1>8. Single(r) => \A p \in A : p[2] \in Cols(r)
  <2>1. SUFFICES ASSUME Single(r), NEW p \in A PROVE p[2] \in Cols(r)
    OBVIOUS
  <2>2. PICK c \in 0 .. (j - 1) : p \in HighCopy(r, CopyBits(bits, c))
    BY DEF HighDone
  <2>3. CopyBits(bits, c) \in SUBSET bits
    BY <1>1, <1>2
  <2>4. HighCopy(r, CopyBits(bits, c)) =
          {q \in CellsOfAll : q[1] = Block(r, CopyBits(bits, c)) /\ q[2] \in Cols(r)}
    BY <2>1, <2>3, SingleCells
  <2>5. QED BY <2>2, <2>4
<1>9. Single(r) => \A c \in L2Index : <<cur, c>> \notin A
  <2>1. SUFFICES ASSUME Single(r), NEW c \in L2Index, <<cur, c>> \in A PROVE FALSE
    OBVIOUS
  <2>2. PICK d \in 0 .. (j - 1) : <<cur, c>> \in HighCopy(r, CopyBits(bits, d))
    BY <2>1 DEF HighDone
  <2>3. CopyBits(bits, d) \in SUBSET bits /\ CopyBits(bits, d) # H
    BY <1>1, <1>2
  <2>4. HighCopy(r, CopyBits(bits, d)) =
          {q \in CellsOfAll : q[1] = Block(r, CopyBits(bits, d)) /\ q[2] \in Cols(r)}
    BY <2>1, <2>3, SingleCells
  <2>5. cur = Block(r, CopyBits(bits, d))
    BY <2>2, <2>4
  <2>6. QED BY <1>3, <2>3, <2>5, SinglesAre
<1> HIDE DEF w, n, cur, A
<1>10. Reached(u, X, e, A, m.u)
  BY DEF Passed, A
<1>11. CASE ~OK(m.u)
  <2>1. w = m
    BY <1>6, <1>11
  <2>2. Reached(u, X, e, A \cup HighCopy(r, H), m.u)
    <3> DEFINE y == m.u
               B == HighCopy(r, H)
    <3>1. Reached(u, X, e, A, y) /\ ~OK(y)
      BY <1>10, <1>11
    <3> HIDE DEF y, B
    <3>2. Reached(u, X, e, A \cup B, y)
      BY <3>1, ReachedFailed
    <3>3. QED BY <3>2 DEF y, B
  <2>3. Passed(u, X, e, r, j + 1, w)
    BY <1>4, <1>11, <2>1, <2>2 DEF Passed
  <2>4. QED BY <2>3 DEF w
<1>12. CASE OK(m.u) /\ Single(r) /\ j # 0 /\ m.prev_entry = m.u.m_table[cur]
  <2> DEFINE y == m.u
             E == m.prev_entry
  <2>1. PICK d \in 0 .. (j - 1) : /\ m.prev_index = Block(r, CopyBits(bits, d))
                                  /\ Like(y, E, Row(u, r, CopyBits(bits, d)), Cols(r))
    BY <1>12 DEF Passed
  <2> DEFINE G == CopyBits(bits, d)
             z == QuickMap(y, cur, Block(r, G))
  <2>2. G \in SUBSET bits /\ G # H /\ HighCopy(r, G) \subseteq A
    <3>1. d \in 0 .. (n - 1) /\ d # j /\ j \in 0 .. (n - 1)
      BY <1>2 DEF n
    <3>2. G \in SUBSET bits /\ G # H
      BY <1>1, <3>1
    <3>3. HighCopy(r, G) \subseteq A
      BY <1>7
    <3>4. QED BY <3>2, <3>3
  <2>3. /\ Reached(u, X, e, A, y) /\ OK(y) /\ Single(r) /\ \A p \in A : p[2] \in Cols(r)
        /\ y.m_table[Block(r, H)] = E /\ Like(y, E, Row(u, r, G), Cols(r))
    BY <1>8, <1>10, <1>12, <2>1 DEF cur
  <2>4. /\ OK(z) /\ Reached(u, X, e, A \cup HighCopy(r, H), z)
        /\ Like(z, E, Row(u, r, G), Cols(r))
    <3> HIDE DEF y, E, G, H, bits
    <3>1. QED BY <1>3, <2>2, <2>3, ReachedQuick DEF bits, cur
  <2>5. w = [m EXCEPT !.u = z]
    BY <1>6, <1>12, <2>1
  <2> HIDE DEF z
  <2>6. /\ w.u = z /\ w.prev_entry = E /\ w.prev_index = m.prev_index
        /\ DOMAIN w = {"u", "prev_entry", "prev_index"}
    BY <2>5 DEF Passed
  <2>7. d \in 0 .. (j + 1 - 1)
    BY <1>2
  <2> HIDE DEF G, E, y
  <2>8. /\ w.prev_index = Block(r, CopyBits(bits, d))
        /\ Like(w.u, w.prev_entry, Row(u, r, CopyBits(bits, d)), Cols(r))
    BY <2>1, <2>4, <2>6 DEF G
  <2>9. Reached(u, X, e, HighDone(r, j + 1), w.u)
    BY <1>4, <2>4, <2>6
  <2> HIDE DEF H
  <2>10. Passed(u, X, e, r, j + 1, w)
    BY <2>6, <2>7, <2>8, <2>9 DEF Passed
  <2>11. QED BY <2>10 DEF w
<1>13. CASE OK(m.u) /\ ~(Single(r) /\ j # 0 /\ m.prev_entry = m.u.m_table[cur])
  <2> DEFINE y == m.u
             E == y.m_table[cur]
             R == Row(u, r, H)
             z == PopulateCopies(y, r, ValueOf(H), e)
  <2>1. Reached(u, X, e, A, y) /\ OK(y)
    BY <1>10, <1>13
  <2>2. /\ Reached(u, X, e, A \cup HighCopy(r, H), z)
        /\ /\ OK(z) /\ Single(r) /\ Like(y, E, R, Cols(r))
           /\ \A c \in L2Index \ Cols(r) : <<Block(r, H), c>> \notin A
                                           /\ Cell(u, Block(r, H), c) = R[c]
           => Like(z, E, R, Cols(r))
    <3> HIDE DEF y, E, R, H, bits
    <3>1. QED BY <1>3, <2>1, CopiesAre DEF bits
  <2>3. Single(r) => Like(y, E, R, Cols(r))
    <3>1. SUFFICES ASSUME Single(r), NEW k \in L1Index, y.m_table[k] = E,
                          NEW c \in L2Index \ Cols(r)
                   PROVE  Cell(y, k, c) = R[c]
      BY DEF Like
    <3>2. Cell(y, k, c) = Cell(y, cur, c)
      BY <3>1 DEF Cell
    <3>3. Cell(y, cur, c) = Cell(u, cur, c)
      BY <1>5, <1>9, <2>1, <3>1 DEF Reached, Put
    <3>4. QED BY <3>2, <3>3 DEF Row, cur
  <2>4. Single(r) => \A c \in L2Index \ Cols(r) : <<Block(r, H), c>> \notin A
                                                  /\ Cell(u, Block(r, H), c) = R[c]
    BY <1>9 DEF Row, cur
  <2>5. OK(z) /\ Single(r) => Like(z, E, R, Cols(r))
    BY <2>2, <2>3, <2>4
  <2>6. w = [u          |-> z,
             prev_entry |-> IF Single(r) THEN E ELSE m.prev_entry,
             prev_index |-> IF Single(r) THEN cur ELSE m.prev_index]
    BY <1>6, <1>13
  <2> HIDE DEF z, y, E, R
  <2>7. /\ w.u = z /\ (Single(r) => w.prev_entry = E /\ w.prev_index = Block(r, H))
        /\ DOMAIN w = {"u", "prev_entry", "prev_index"}
    BY <2>6 DEF cur
  <2>8. Reached(u, X, e, HighDone(r, j + 1), w.u)
    BY <1>4, <2>2, <2>7
  <2>9. OK(w.u) /\ Single(r) =>
          /\ w.prev_index = Block(r, CopyBits(bits, j))
          /\ Like(w.u, w.prev_entry, Row(u, r, CopyBits(bits, j)), Cols(r))
    BY <2>5, <2>7 DEF R, H
  <2> HIDE DEF H
  <2>10. Passed(u, X, e, r, j + 1, w)
    BY <1>2, <2>7, <2>8, <2>9 DEF Passed
  <2>11. QED BY <2>10 DEF w
<1>14. QED BY <1>11, <1>12, <1>13

(* A mapping call reaches the cells that its request selects.              *)
LEMMA MirroredIs ==
  ASSUME NEW u, NEW X, NEW e, OK(u), Kept(u, X), Countable(u, X, e), NEW r, Fit(r)
  PROVE  Reached(u, X, e, CellsFor(r), populate_range_mirrored(u, r, e))
<1> DEFINE bits == HighBits(r)
           n == 2^Cardinality(bits)
           m0 == [u |-> u, prev_entry |-> STATIC_INVALID, prev_index |-> 0]
           fold == MirrorFold!Fold(r, e, 0, 0, m0, Copies(bits))
<1>1. populate_range_mirrored(u, r, e) = fold.u
  BY DEF populate_range_mirrored, MirrorFold!Fold, MirrorStep, FoldLeft, MapThenFoldSet, Max,
         MirrorFold!Last
<1>2. n \in Nat \ {0}
  <2>1. bits \in SUBSET Bits
    BY DEF HighBits, Fit
  <2>2. QED BY <2>1, CopiesAreAll
<1>3. /\ DOMAIN Copies(bits) = 1 .. n
      /\ \A k \in 1 .. n : Copies(bits)[k] = k - 1
  <2>1. Copies(bits) = Interval(0, n - 1)
    BY DEF Copies
  <2> HIDE DEF n
  <2>2. 0 \in Int /\ n - 1 \in Int /\ n - 1 - 0 + 1 = n /\ \A k \in 1 .. n : 0 + (k - 1) = k - 1
    BY <1>2
  <2>3. /\ DOMAIN Interval(0, n - 1) = 1 .. (n - 1 - 0 + 1)
        /\ \A k \in 1 .. (n - 1 - 0 + 1) : Interval(0, n - 1)[k] = 0 + (k - 1)
    BY <2>2, IntervalIs
  <2>4. QED BY <2>1, <2>2, <2>3
<1>4. Passed(u, X, e, r, 0, m0)
  <2>1. HighDone(r, 0) = {} /\ m0.u = u
    BY HighPass
  <2>2. Reached(u, X, e, {}, u)
    BY ReachedFirst
  <2>3. QED BY <2>1, <2>2 DEF Passed
<1> HIDE DEF n, m0, fold
<1>5. PICK g : MirrorFold!Passes(r, e, 0, 0, m0, Copies(bits), n, g) /\ g[n] = fold
  <2> DEFINE z1 == 0
             z2 == 0
  <2> HIDE DEF z1, z2
  <2>a. MirrorFold!Induction(n)
    BY <1>2, <1>3, LoopInduction DEF MirrorFold!Induction
  <2>1. \E g : MirrorFold!Passes(r, e, z1, z2, m0, Copies(bits), n, g)
               /\ g[n] = MirrorFold!Fold(r, e, z1, z2, m0, Copies(bits))
    BY <1>2, <1>3, <2>a, MirrorFold!FoldPasses
  <2>2. QED BY <2>1 DEF z1, z2, fold
<1> DEFINE Good(j) == Passed(u, X, e, r, j, g[j])
           P == {j \in 0 .. n : Good(j)}
<1>6. 0 \in P
  BY <1>2, <1>4, <1>5 DEF MirrorFold!Passes
<1>7. ASSUME NEW j \in 0 .. (n - 1), j \in P PROVE j + 1 \in P
  <2> DEFINE y == g[j]
  <2>1. j + 1 \in 1 .. n /\ j + 1 \in 0 .. n /\ (j + 1) - 1 = j
    BY <1>2
  <2>2. g[j + 1] = MirrorTo(r, e, y, j)
    BY <1>3, <1>5, <2>1 DEF MirrorFold!Passes, MirrorStep
  <2>3. Passed(u, X, e, r, j, y)
    BY <1>7
  <2> HIDE DEF y
  <2>4. Passed(u, X, e, r, j + 1, MirrorTo(r, e, y, j))
    BY <2>3, PassedMore DEF n
  <2>5. QED BY <2>1, <2>2, <2>4
<1>8. Good(n)
  <2>1. n \in P
    <3> HIDE DEF P
    <3>1. QED BY <1>2, <1>6, <1>7, LoopInduction
  <2>2. QED BY <2>1
<1>9. Reached(u, X, e, HighDone(r, n), fold.u)
  BY <1>5, <1>8 DEF Passed
<1>10. HighDone(r, n) = CellsFor(r)
  BY HighPass DEF n
<1>11. QED BY <1>1, <1>9, <1>10

--------------------------------------------------------------------------------
(* The calls.                                                              *)

(* The subtable opened last is forgotten when a call ends.                 *)
LEMMA ForgetIs ==
  ASSUME NEW u, NEW X, Kept(u, X)
  PROVE  LET w == [u EXCEPT !.opened = 0]
         IN  /\ Kept(w, X) /\ w.error = u.error /\ SameCells(u, w)
             /\ RanOut(u) => RanOut(w)
<1> DEFINE w == [u EXCEPT !.opened = 0]
<1>1. /\ DOMAIN w = Fields /\ w.error = u.error
      /\ w.m_table = u.m_table /\ w.cells = u.cells /\ w.m_usecount = u.m_usecount
      /\ w.m_checksum = u.m_checksum /\ w.m_checksum_valid = u.m_checksum_valid
      /\ w.handler_refcount = u.handler_refcount /\ w.handler_free = u.handler_free
  BY DEF Kept, Books, Typed, Fields
<1> HIDE DEF w
<1>2. Typed(w) /\ FreeKept(w, X) /\ ChecksumsHold(w)
  BY <1>1 DEF Kept, Books, Typed, FreeKept, IsFree, ChecksumsHold
<1>3. /\ \A h \in Dynamic : Owed(w, h) = Owed(u, h)
      /\ \A s \in Subtables : Claimed(w, s) = Claimed(u, s)
  BY <1>1 DEF Owed, Claimed
<1>4. Kept(w, X)
  BY <1>2, <1>3 DEF Kept, Books
<1>5. SameCells(u, w) /\ (RanOut(u) => RanOut(w))
  BY <1>1 DEF SameCells, Cell, RanOut, AllDiffer
<1>6. QED BY <1>1, <1>4, <1>5 DEF w

(* A whole call: the addresses its request selects get the entry, or some  *)
(* of them do and the table rightly ran out of subtables.                  *)
LEMMA MapRangeIs ==
  ASSUME NEW u, NEW X, NEW e, OK(u), Kept(u, X), Countable(u, X, e), NEW r \in Requests
  PROVE  Reached(u, X, e, CellsFor(r), MapRange(u, r, e))
<1> DEFINE z == OptimizeMirror(r)
           v == populate_range_mirrored(u, z, e)
           w == [v EXCEPT !.opened = 0]
           A == CellsFor(r)
<1>1. Fit(z) /\ Selected(z) = Selected(r)
  BY OptimizedIs
<1>2. CellsFor(z) = CellsFor(r)
  BY <1>1 DEF CellsFor
<1>3. Reached(u, X, e, A, v)
  <2> HIDE DEF z
  <2>1. Reached(u, X, e, CellsFor(z), v)
    BY <1>1, MirroredIs
  <2>2. QED BY <1>2, <2>1
<1>4. MapRange(u, r, e) = w
  BY DEF MapRange
<1> HIDE DEF v, A
<1>5. Kept(v, X) \/ Kept(v, {})
  BY <1>3 DEF Reached
<1>6. /\ w.error = v.error /\ SameCells(v, w) /\ (RanOut(v) => RanOut(w))
      /\ \A Y : Kept(v, Y) => Kept(w, Y)
  BY <1>5, ForgetIs
<1> HIDE DEF w
<1>7. \A B : Put(u, e, B, v) => Put(u, e, B, w)
  BY <1>6 DEF Put, SameCells
<1>8. \A Y : Kept(v, Y) /\ Countable(v, Y, e) => Countable(w, Y, e)
  BY <1>6, StillCountable
<1>9. OK(w) <=> OK(v)
  BY <1>6 DEF OK
<1>10. Reached(u, X, e, A, w)
  BY <1>3, <1>6, <1>7, <1>8, <1>9 DEF Reached
<1>11. QED BY <1>4, <1>10 DEF A

(* A handler is taken from the free list: it has no references yet.        *)
LEMMA TakenIs ==
  ASSUME NEW u, Kept(u, {}), OK(u)
  PROVE  LET w == get_free_handler(u)
         IN  \/ /\ u.handler_free = <<>> /\ Kept(w, {}) /\ SameCells(u, w)
                /\ w.error = "Out of handler entries in address table"
                /\ \A h \in Dynamic : u.handler_refcount[h] # 0
             \/ LET h == Head(u.handler_free)
                IN  /\ h \in Dynamic /\ u.handler_refcount[h] = 0
                    /\ Kept(w, {h}) /\ Countable(w, {h}, h) /\ SameCells(u, w) /\ OK(w)
<1> DEFINE w == get_free_handler(u)
           why == "Out of handler entries in address table"
<1>1. Typed(u) /\ FreeKept(u, {}) /\ u.handler_free \in Seq(Dynamic)
  BY DEF Kept, Books, Typed
<1>2. CASE u.handler_free = <<>>
  <2>1. w = Throw(u, why)
    BY <1>2 DEF get_free_handler
  <2> HIDE DEF w
  <2>2. Kept(w, {}) /\ w.error = why /\ w.m_table = u.m_table /\ w.cells = u.cells
    <3> HIDE DEF why
    <3>1. QED BY <2>1, ThrowIs
  <2>3. SameCells(u, w)
    BY <2>2 DEF SameCells, Cell
  <2>4. \A h \in Dynamic : ~IsFree(u, h)
    BY <1>2 DEF IsFree
  <2>5. \A h \in Dynamic : u.handler_refcount[h] # 0
    BY <1>1, <2>4 DEF FreeKept
  <2>6. QED BY <1>2, <2>2, <2>3, <2>5 DEF w
<1>3. CASE u.handler_free # <<>>
  <2> DEFINE q == u.handler_free
             h == Head(q)
             p == Tail(q)
  <2>1. w = [u EXCEPT !.handler_free = p]
    BY <1>3 DEF get_free_handler
  <2>2. /\ DOMAIN w = Fields /\ w.error = u.error
        /\ w.m_table = u.m_table /\ w.cells = u.cells /\ w.m_usecount = u.m_usecount
        /\ w.m_checksum = u.m_checksum /\ w.m_checksum_valid = u.m_checksum_valid
        /\ w.handler_refcount = u.handler_refcount /\ w.handler_free = p
    <3> HIDE DEF p
    <3>1. QED BY <1>1, <2>1 DEF Typed, Fields
  <2> HIDE DEF w
  <2>3. /\ h \in Dynamic /\ p \in Seq(Dynamic)
        /\ DOMAIN q = 1 .. Len(q) /\ Len(q) \in Nat \ {0} /\ h = q[1]
        /\ DOMAIN p = 1 .. (Len(q) - 1) /\ \A i \in 1 .. (Len(q) - 1) : p[i] = q[i + 1]
    BY <1>1, <1>3
  <2> HIDE DEF q, h, p
  <2>4. IsFree(u, h)
    BY <2>3 DEF IsFree, q
  <2>5. u.handler_refcount[h] = 0
    BY <1>1, <2>3, <2>4 DEF FreeKept
  <2>6. \A i, j \in DOMAIN q : q[i] = q[j] => i = j
    BY <1>1 DEF FreeKept, q
  <2>7. \A i \in DOMAIN p : i \in Int /\ i + 1 \in DOMAIN q /\ i + 1 # 1 /\ p[i] = q[i + 1]
    BY <2>3
  <2>8. \A i \in DOMAIN q : i # 1 => i \in Int /\ i - 1 \in DOMAIN p /\ p[i - 1] = q[i]
    <3>1. SUFFICES ASSUME NEW i \in DOMAIN q, i # 1
                   PROVE  i \in Int /\ i - 1 \in DOMAIN p /\ p[i - 1] = q[i]
      OBVIOUS
    <3>2. i - 1 \in 1 .. (Len(q) - 1) /\ (i - 1) + 1 = i /\ i \in Int
      BY <2>3, <3>1
    <3>3. QED BY <2>3, <3>2
  <2>9. \A i, j \in DOMAIN p : p[i] = p[j] => i = j
    <3>1. SUFFICES ASSUME NEW i \in DOMAIN p, NEW j \in DOMAIN p, p[i] = p[j] PROVE i = j
      OBVIOUS
    <3>2. i \in Int /\ j \in Int /\ i + 1 = j + 1
      BY <2>6, <2>7, <3>1
    <3>3. QED BY <3>2
  <2>10. ASSUME NEW k \in Dynamic PROVE IsFree(w, k) <=> IsFree(u, k) /\ k # h
    <3>1. IsFree(w, k) <=> \E i \in DOMAIN p : p[i] = k
      BY <2>2 DEF IsFree
    <3>2. IsFree(u, k) <=> \E i \in DOMAIN q : q[i] = k
      BY DEF IsFree, q
    <3>3. ASSUME NEW i \in DOMAIN p, p[i] = k PROVE IsFree(u, k) /\ k # h
      <4>1. i + 1 \in DOMAIN q /\ i + 1 # 1 /\ q[i + 1] = k /\ 1 \in DOMAIN q
        BY <2>3, <2>7, <3>3
      <4>2. k # h
        BY <2>3, <2>6, <4>1
      <4>3. QED BY <3>2, <4>1, <4>2
    <3>4. ASSUME NEW i \in DOMAIN q, q[i] = k, k # h PROVE \E j \in DOMAIN p : p[j] = k
      <4>1. i # 1
        BY <2>3, <3>4
      <4>2. i - 1 \in DOMAIN p /\ p[i - 1] = k
        BY <2>8, <3>4, <4>1
      <4>3. QED BY <4>2
    <3>5. QED BY <3>1, <3>2, <3>3, <3>4
  <2>11. FreeKept(w, {h})
    <3>1. \A i, j \in DOMAIN w.handler_free :
            w.handler_free[i] = w.handler_free[j] => i = j
      BY <2>2, <2>9
    <3>2. \A k \in Dynamic : IsFree(w, k) <=> w.handler_refcount[k] = 0 /\ k \notin {h}
      BY <1>1, <2>2, <2>10 DEF FreeKept
    <3>3. \A k \in Dynamic : k \in {h} => w.handler_refcount[k] = 0
      BY <2>2, <2>5
    <3>4. QED BY <3>1, <3>2, <3>3 DEF FreeKept
  <2>12. Typed(w) /\ ChecksumsHold(w)
    BY <1>1, <2>2, <2>3 DEF Kept, Books, Typed, ChecksumsHold
  <2>13. /\ \A k \in Dynamic : Owed(w, k) = Owed(u, k)
         /\ \A s \in Subtables : Claimed(w, s) = Claimed(u, s)
    BY <2>2 DEF Owed, Claimed
  <2>14. Kept(w, {h})
    BY <2>11, <2>12, <2>13 DEF Kept, Books
  <2>15. Countable(w, {h}, h)
    BY <2>3, <2>10, Numbers DEF Countable
  <2>16. SameCells(u, w) /\ OK(w)
    BY <2>2 DEF SameCells, Cell, OK
  <2>17. QED BY <2>3, <2>5, <2>14, <2>15, <2>16 DEF w, h, q
<1>4. QED BY <1>2, <1>3

(* The table of a new space.                                               *)
LEMMA InitIsKept ==
  ASSUME Init
  PROVE  Kept(t, {}) /\ OK(t)
<1> DEFINE q == Interval(STATIC_COUNT, SUBTABLE_BASE - 1)
           n == SUBTABLE_BASE - STATIC_COUNT
<1>1. /\ DOMAIN t = Fields
      /\ t.m_table = [i \in L1Index |-> STATIC_UNMAP]
      /\ t.cells = [s \in Subtables |-> [c \in L2Index |-> STATIC_INVALID]]
      /\ t.m_usecount = [s \in Subtables |-> 0]
      /\ t.m_checksum = [s \in Subtables |-> 0]
      /\ t.m_checksum_valid = [s \in Subtables |-> FALSE]
      /\ t.handler_refcount = [h \in Dynamic |-> 0]
      /\ t.handler_free = q
      /\ t.error = "none"
  BY DEF Init, Fields
<1>2. n \in Nat /\ STATIC_COUNT \in Nat /\ SUBTABLE_BASE \in Nat
  <2>1. STATIC_COUNT \in Nat /\ SUBTABLE_BASE \in Nat /\ STATIC_COUNT < SUBTABLE_BASE
    BY AddressTableAssumption
  <2>2. QED BY <2>1
<1>3. DOMAIN q = 1 .. n /\ \A k \in 1 .. n : q[k] = STATIC_COUNT + (k - 1)
  <2>1. STATIC_COUNT \in Int /\ SUBTABLE_BASE - 1 \in Int
        /\ SUBTABLE_BASE - 1 - STATIC_COUNT + 1 = n
    BY <1>2
  <2>2. QED BY <2>1, IntervalIs
<1>4. q \in Seq(Dynamic)
  <2>1. \A k \in 1 .. n : q[k] \in Dynamic
    <3> HIDE DEF q
    <3>1. QED BY <1>2, <1>3 DEF Dynamic
  <2>2. q = [k \in 1 .. n |-> q[k]]
    BY <1>3 DEF Interval
  <2> HIDE DEF q, n
  <2>3. QED BY <1>2, <2>1, <2>2
<1> HIDE DEF q
<1>5. Typed(t)
  BY <1>1, <1>4, Numbers DEF Typed, STATIC_INVALID
<1>6. FreeKept(t, {})
  <2>1. \A i, j \in DOMAIN q : q[i] = q[j] => i = j
    BY <1>2, <1>3
  <2>2. ASSUME NEW h \in Dynamic PROVE IsFree(t, h)
    <3>1. h - STATIC_COUNT + 1 \in 1 .. n /\ STATIC_COUNT + ((h - STATIC_COUNT + 1) - 1) = h
      BY <1>2 DEF Dynamic
    <3>2. QED BY <1>1, <1>3, <3>1 DEF IsFree
  <2>3. QED BY <1>1, <2>1, <2>2 DEF FreeKept
<1>7. ChecksumsHold(t)
  BY <1>1 DEF ChecksumsHold
<1>8. ASSUME NEW h \in Dynamic PROVE Owed(t, h) = 0
  <2>1. STATIC_UNMAP # h
    BY Numbers
  <2>2. Level1(t.m_table, h) = 0
    <3>1. ~\E i \in L1Index : t.m_table[i] = h
      BY <1>1, <2>1
    <3>2. QED BY <3>1, Level1Has
  <2>3. Level2(t.m_usecount, t.cells, h) = 0
    <3>1. ~\E s \in Subtables, c \in L2Index : t.m_usecount[s] # 0 /\ t.cells[s][c] = h
      BY <1>1
    <3>2. QED BY <3>1, Level2Has
  <2>4. QED BY <1>1, <2>2, <2>3 DEF Owed
<1>9. ASSUME NEW s \in Subtables PROVE Claimed(t, s) = 0
  <2>1. STATIC_UNMAP # s
    BY Numbers
  <2>2. ~\E i \in L1Index : t.m_table[i] = s
    BY <1>1, <2>1
  <2>3. Level1(t.m_table, s) = 0
    BY <2>2, Level1Has
  <2>4. QED BY <1>1, <2>3 DEF Claimed
<1>10. QED BY <1>1, <1>5, <1>6, <1>7, <1>8, <1>9 DEF Kept, Books, OK

--------------------------------------------------------------------------------
(* The inductive invariant: between the calls the books balance, and after *)
(* a call that failed they do but for a handler that was taken and that    *)
(* nobody mapped; and the table ran out of subtables only rightly.         *)
TableSound ==
  /\ OK(t) => Kept(t, {})
  /\ \E X : Kept(t, X)
  /\ t.error = "Ran out of subtables!" => RanOut(t)

(* What a call leaves behind.                                              *)
LEMMA CallIsSound ==
  ASSUME NEW u, NEW X, NEW e, NEW A, NEW w, Reached(u, X, e, A, w), A # {}
  PROVE  /\ OK(w) => Kept(w, {})
         /\ \E Y : Kept(w, Y)
         /\ w.error = "Ran out of subtables!" => RanOut(w)
BY DEF Reached, OK

(* A request selects some address.                                         *)
LEMMA RequestsSelect ==
  ASSUME NEW r \in Requests
  PROVE  CellsFor(r) # {}
<1> DEFINE z == OptimizeMirror(r)
<1>1. Fit(z) /\ Selected(z) = Selected(r)
  BY OptimizedIs
<1> HIDE DEF z
<1>2. {} \in SUBSET HighBits(z)
  OBVIOUS
<1>3. HighCopy(z, {}) # {} /\ CellsFor(z) = UNION {HighCopy(z, H) : H \in SUBSET HighBits(z)}
  BY <1>1, <1>2, CopyHasCells, CellsAre
<1>4. CellsFor(z) # {}
  BY <1>2, <1>3
<1>5. QED BY <1>1, <1>4 DEF CellsFor

(* What the two kinds of call make of a sound table.                       *)
LEMMA MapStaticIs ==
  ASSUME TableSound, NEW r \in CallRequests, NEW entry \in StaticMapped, MapStatic(r, entry)
  PROVE  /\ OK(t) /\ Kept(t, {}) /\ entry \in Static /\ r \in Requests
         /\ Reached(t, {}, entry, CellsFor(r), t')
<1>1. OK(t) /\ Kept(t, {}) /\ t' = MapRange(t, r, entry) /\ r \in Requests
  BY AddressTableAssumption DEF MapStatic, CanCall, TableSound
<1>2. entry \in Static /\ entry \in Entries \ Dynamic
  <2>1. entry \in Entries \ Dynamic
    BY Numbers DEF StaticMapped
  <2>2. QED BY <2>1 DEF Entries
<1>3. Countable(t, {}, entry)
  BY <1>1, <1>2 DEF Countable, IsFree, Kept, Books, Typed
<1>4. Reached(t, {}, entry, CellsFor(r), MapRange(t, r, entry))
  BY <1>1, <1>3, MapRangeIs
<1>5. QED BY <1>1, <1>2, <1>4

(* An installation takes a handler nobody refers to and maps it, or finds  *)
(* that each has references.                                               *)
LEMMA SetupIs ==
  ASSUME TableSound, NEW r \in CallRequests, SetupRangeSolid(r)
  PROVE  /\ OK(t) /\ Kept(t, {}) /\ r \in Requests
         /\ \/ /\ Kept(t', {}) /\ SameCells(t, t')
               /\ t'.error = "Out of handler entries in address table"
               /\ \A h \in Dynamic : t.handler_refcount[h] # 0
            \/ \E h \in Dynamic : \E u :
                 /\ t.handler_refcount[h] = 0
                 /\ SameCells(t, u) /\ Reached(u, {h}, h, CellsFor(r), t')
<1> DEFINE u == get_free_handler(t)
           h == Head(t.handler_free)
<1>1. OK(t) /\ Kept(t, {}) /\ r \in Requests
      /\ t' = IF OK(u) THEN MapRange(u, r, h) ELSE u
  BY AddressTableAssumption DEF SetupRangeSolid, CanCall, TableSound, Bind
<1>2. \/ /\ t.handler_free = <<>> /\ Kept(u, {}) /\ SameCells(t, u)
         /\ u.error = "Out of handler entries in address table"
         /\ \A k \in Dynamic : t.handler_refcount[k] # 0
      \/ /\ h \in Dynamic /\ t.handler_refcount[h] = 0
         /\ Kept(u, {h}) /\ Countable(u, {h}, h) /\ SameCells(t, u) /\ OK(u)
  BY <1>1, TakenIs
<1> HIDE DEF u, h
<1>3. CASE /\ Kept(u, {}) /\ SameCells(t, u)
           /\ u.error = "Out of handler entries in address table"
           /\ \A k \in Dynamic : t.handler_refcount[k] # 0
  <2>1. ~OK(u)
    BY <1>3 DEF OK
  <2>2. QED BY <1>1, <1>3, <2>1
<1>4. CASE /\ h \in Dynamic /\ t.handler_refcount[h] = 0
           /\ Kept(u, {h}) /\ Countable(u, {h}, h) /\ SameCells(t, u) /\ OK(u)
  <2> DEFINE X == {h}
  <2>1. Kept(u, X) /\ Countable(u, X, h) /\ OK(u)
    BY <1>4
  <2> HIDE DEF X
  <2>2. Reached(u, X, h, CellsFor(r), MapRange(u, r, h))
    BY <1>1, <2>1, MapRangeIs
  <2>3. Reached(u, {h}, h, CellsFor(r), t')
    BY <1>1, <1>4, <2>2 DEF X
  <2>4. QED BY <1>1, <1>4, <2>3
<1>5. QED BY <1>2, <1>3, <1>4

(* The invariant holds in every reachable state of a table of any size.    *)
THEOREM TableStaysSound == Spec => []TableSound
<1>1. ASSUME Init PROVE TableSound
  <2>1. Kept(t, {}) /\ OK(t)
    BY <1>1, InitIsKept
  <2>2. QED BY <2>1 DEF TableSound, OK
<1>2. ASSUME TableSound, [Next]_vars PROVE TableSound'
  <2>1. CASE UNCHANGED vars
    <3>1. t' = t
      BY <2>1 DEF vars
    <3>2. QED BY <1>2, <3>1 DEF TableSound
  <2>2. ASSUME NEW r \in CallRequests, NEW entry \in StaticMapped, MapStatic(r, entry)
        PROVE  TableSound'
    <3> DEFINE w == t'
    <3>1. Reached(t, {}, entry, CellsFor(r), w) /\ CellsFor(r) # {}
      BY <1>2, <2>2, MapStaticIs, RequestsSelect
    <3> HIDE DEF w
    <3>2. /\ OK(w) => Kept(w, {})
          /\ \E Y : Kept(w, Y)
          /\ w.error = "Ran out of subtables!" => RanOut(w)
      <4> DEFINE X == {}
      <4>1. Reached(t, X, entry, CellsFor(r), w) /\ CellsFor(r) # {}
        BY <3>1
      <4> HIDE DEF X
      <4>2. QED BY <4>1, CallIsSound
    <3>3. QED BY <3>2 DEF TableSound, w
  <2>3. ASSUME NEW r \in CallRequests, SetupRangeSolid(r)
        PROVE  TableSound'
    <3> DEFINE w == t'
    <3>1. \/ Kept(w, {}) /\ w.error = "Out of handler entries in address table"
          \/ \E h \in Dynamic : \E u : Reached(u, {h}, h, CellsFor(r), w)
      BY <1>2, <2>3, SetupIs
    <3>2. CellsFor(r) # {}
      BY AddressTableAssumption, RequestsSelect
    <3> HIDE DEF w
    <3>3. /\ OK(w) => Kept(w, {})
          /\ \E Y : Kept(w, Y)
          /\ w.error = "Ran out of subtables!" => RanOut(w)
      <4>1. CASE Kept(w, {}) /\ w.error = "Out of handler entries in address table"
        BY <4>1 DEF OK
      <4>2. ASSUME NEW h \in Dynamic, NEW u, Reached(u, {h}, h, CellsFor(r), w)
            PROVE  /\ OK(w) => Kept(w, {})
                   /\ \E Y : Kept(w, Y)
                   /\ w.error = "Ran out of subtables!" => RanOut(w)
        <5> DEFINE X == {h}
        <5>1. Reached(u, X, h, CellsFor(r), w)
          BY <4>2
        <5> HIDE DEF X
        <5>2. QED BY <3>2, <5>1, CallIsSound
      <4>3. QED BY <3>1, <4>1, <4>2
    <3>4. QED BY <3>3 DEF TableSound, w
  <2>4. QED BY <1>2, <2>1, <2>2, <2>3 DEF Next
<1>3. QED BY <1>1, <1>2, PTL DEF Spec

(* The places that hold a handler, as the invariant counts them.           *)
LEMMA ReferencesAre ==
  ASSUME NEW X, Kept(t, X), NEW h
  PROVE  /\ References(h) = Level1(t.m_table, h) + Level2(t.m_usecount, t.cells, h)
         /\ References(h) \in Nat
         /\ h \in Dynamic => t.handler_refcount[h] = References(h)
<1> DEFINE P == {p \in InUse \X L2Index : t.cells[p[1]][p[2]] = h}
           Q == {p \in Subtables \X L2Index : t.m_usecount[p[1]] # 0 /\ t.cells[p[1]][p[2]] = h}
<1>1. \A s : s \in InUse <=> s \in Subtables /\ t.m_usecount[s] # 0
  <2>1. \A s : s \in InUse <=> s \in Subtables /\ \E i \in L1Index : t.m_table[i] = s
    BY DEF InUse
  <2>2. \A s \in Subtables : t.m_usecount[s] # 0 <=> \E i \in L1Index : t.m_table[i] = s
    BY UsersAreCells
  <2>3. QED BY <2>1, <2>2
<1>2. P = Q
  BY <1>1
<1>3. References(h) = Level1(t.m_table, h) + Level2(t.m_usecount, t.cells, h)
  BY <1>2 DEF References, Level1, Level2
<1>4. Level1(t.m_table, h) \in Nat /\ Level2(t.m_usecount, t.cells, h) \in Nat
  BY Level1Has, Level2Has
<1>5. h \in Dynamic => t.handler_refcount[h] \in Nat /\ Owed(t, h) = 0
  BY DEF Kept, Books, Typed
<1>6. QED BY <1>3, <1>4, <1>5 DEF Owed

(* Whatever is shared, copied, merged or runs out, the counts say who is   *)
(* still reached from where: verify_reference_counts would never complain. *)
THEOREM CountsStayExact == Spec => []CountsExact
<1>1. TableSound => CountsExact
  <2>1. SUFFICES ASSUME TableSound PROVE CountsExact
    OBVIOUS
  <2>2. PICK X : Kept(t, X)
    BY <2>1 DEF TableSound
  <2>3. RefcountsExact
    BY <2>2, ReferencesAre DEF RefcountsExact
  <2>4. UsecountsExact
    BY <2>2, UsersAreCells DEF UsecountsExact, Level1
  <2>5. FreeListExact
    <3> DEFINE F == {t.handler_free[i] : i \in DOMAIN t.handler_free}
    <3>1. \A i, j \in DOMAIN t.handler_free : t.handler_free[i] = t.handler_free[j] => i = j
      BY <2>2 DEF Kept, Books, FreeKept
    <3>2. ASSUME OK(t) PROVE F = {h \in Dynamic : References(h) = 0}
      <4>1. Kept(t, {})
        BY <2>1, <3>2 DEF TableSound
      <4>2. F \subseteq Dynamic
        BY <4>1 DEF Kept, Books, Typed
      <4>3. \A h \in Dynamic : h \in F <=> t.handler_refcount[h] = 0
        BY <4>1 DEF Kept, Books, FreeKept, IsFree
      <4>4. \A h \in Dynamic : t.handler_refcount[h] = References(h)
        BY <4>1, ReferencesAre
      <4> HIDE DEF F
      <4>5. QED BY <4>2, <4>3, <4>4
    <3>3. QED BY <3>1, <3>2 DEF FreeListExact
  <2>6. QED BY <2>3, <2>4, <2>5 DEF CountsExact
<1>2. QED BY <1>1, TableStaysSound, PTL

(* "Ran out of subtables!" is said only of a table whose subtables are all *)
(* in use and pairwise different: the checksums never hid a duplicate.     *)
THEOREM ExhaustionIsGenuine == Spec => []ExhaustionGenuine
<1>1. TableSound => ExhaustionGenuine
  <2>1. SUFFICES ASSUME TableSound, t.error = "Ran out of subtables!" 
                 PROVE  /\ InUse = Subtables
                        /\ \A s, d \in Subtables : t.cells[s] = t.cells[d] => s = d
    BY DEF ExhaustionGenuine
  <2>2. AllDiffer(t)
    BY <2>1 DEF TableSound, RanOut
  <2>3. PICK X : Kept(t, X)
    BY <2>1 DEF TableSound
  <2>4. \A s \in Subtables : \E i \in L1Index : t.m_table[i] = s
    BY <2>2, <2>3, UsersAreCells DEF AllDiffer
  <2>5. InUse = Subtables
    BY <2>4 DEF InUse
  <2>6. QED BY <2>2, <2>5 DEF AllDiffer
<1>2. QED BY <1>1, TableStaysSound, PTL

--------------------------------------------------------------------------------
(* The refinement: what the addresses find, before and after a call.       *)

LEMMA LookupIs ==
  ASSUME NEW u, NEW x \in Addresses
  PROVE  /\ lookup(u, x) = Cell(u, level1_index(x), level2_index(x))
         /\ level1_index(x) \in L1Index /\ level2_index(x) \in L2Index
         /\ \A A : <<level1_index(x), level2_index(x)>> \in CellsFor(A) <=> x \in Selected(A)
<1>1. /\ level1_index(x) \in L1Index /\ level2_index(x) \in L2Index
      /\ x = L2Size * level1_index(x) + level2_index(x)
  BY AddressesSplit
<1> DEFINE i == level1_index(x)
           c == level2_index(x)
           a == L2Size * i + c
<1>2. \A A : <<i, c>> \in CellsFor(A) <=> a \in Selected(A)
  BY <1>1 DEF CellsFor, CellsOfAll
<1>3. a = x
  BY <1>1
<1>4. QED BY <1>1, <1>2, <1>3 DEF lookup, Cell

Found(u)      == [x \in Addresses |-> lookup(u, x)]
Changed(u, w) == {x \in Addresses : Found(w)[x] # Found(u)[x]}

(* The same cells, the same map.                                           *)
LEMMA SameMap ==
  ASSUME NEW u, NEW w, SameCells(u, w)
  PROVE  Found(w) = Found(u)
<1>1. \A x \in Addresses : lookup(w, x) = lookup(u, x)
  BY LookupIs DEF SameCells
<1> DEFINE F(x) == lookup(u, x)
           G(x) == lookup(w, x)
<1> HIDE DEF F, G
<1>2. \A x \in Addresses : G(x) = F(x)
  BY <1>1 DEF F, G
<1>3. [x \in Addresses |-> G(x)] = [x \in Addresses |-> F(x)]
  BY <1>2
<1>4. QED BY <1>3 DEF Found, F, G

(* A call that went well maps what was asked for and nothing else.         *)
LEMMA WholeCall ==
  ASSUME NEW u, NEW X, NEW e, NEW r, NEW w, Reached(u, X, e, CellsFor(r), w), OK(w)
  PROVE  Found(w) = [x \in Addresses |-> IF x \in Selected(r) THEN e ELSE Found(u)[x]]
<1>1. Put(u, e, CellsFor(r), w)
  BY DEF Reached
<1> DEFINE F(x) == lookup(u, x)
           G(x) == lookup(w, x)
           H(x) == IF x \in Selected(r) THEN e ELSE Found(u)[x]
<1>2. ASSUME NEW x \in Addresses PROVE G(x) = H(x)
  <2>1. Found(u)[x] = lookup(u, x)
    BY DEF Found
  <2>2. lookup(w, x) = IF x \in Selected(r) THEN e ELSE lookup(u, x)
    BY <1>1, LookupIs DEF Put
  <2>3. QED BY <2>1, <2>2
<1> HIDE DEF G, H
<1>3. [x \in Addresses |-> G(x)] = [x \in Addresses |-> H(x)]
  BY <1>2
<1>4. QED BY <1>3 DEF Found, G, H

(* One that failed maps a part of it.                                      *)
PartlyMapped(u, w, set, e) ==
  /\ Changed(u, w) \subseteq set
  /\ Found(w) = [x \in Addresses |-> IF x \in Changed(u, w) THEN e ELSE Found(u)[x]]
  /\ w.error = "Ran out of subtables!"

(* A call that failed on its way mapped a part of what it was asked for.   *)
LEMMA PartOfCall ==
  ASSUME NEW u, NEW X, NEW e, NEW r, NEW w, Reached(u, X, e, CellsFor(r), w), ~OK(w)
  PROVE  PartlyMapped(u, w, Selected(r), e)
<1>1. PICK B \in SUBSET CellsFor(r) : Put(u, e, B, w)
  BY DEF Reached
<1> DEFINE done == Changed(u, w)
           G(x) == lookup(w, x)
           H(x) == IF x \in done THEN e ELSE Found(u)[x]
<1>2. ASSUME NEW x \in Addresses
      PROVE  G(x) = H(x) /\ (x \in done => x \in Selected(r))
  <2>1. Found(u)[x] = lookup(u, x) /\ Found(w)[x] = lookup(w, x)
    BY DEF Found
  <2> DEFINE p == <<level1_index(x), level2_index(x)>>
  <2>2. lookup(w, x) = IF p \in B THEN e ELSE lookup(u, x)
    BY <1>1, LookupIs DEF Put
  <2>3. p \in B => x \in Selected(r)
    <3>1. p \in CellsFor(r) <=> x \in Selected(r)
      BY LookupIs
    <3> HIDE DEF p
    <3>2. QED BY <1>1, <3>1
  <2> HIDE DEF p
  <2>4. x \in done <=> lookup(w, x) # lookup(u, x)
    BY <2>1 DEF Changed
  <2>5. QED BY <2>1, <2>2, <2>3, <2>4
<1>3. done \subseteq Selected(r)
  <2>1. done \subseteq Addresses
    BY DEF Changed
  <2> HIDE DEF done
  <2>2. QED BY <1>2, <2>1
<1> HIDE DEF G, H, done
<1>4. [x \in Addresses |-> G(x)] = [x \in Addresses |-> H(x)]
  BY <1>2
<1>5. Found(w) = [x \in Addresses |-> H(x)]
  BY <1>4 DEF Found, G
<1>6. w.error = "Ran out of subtables!"
  BY DEF Reached, RanOut
<1>7. QED BY <1>3, <1>5, <1>6 DEF H, done, PartlyMapped

(* A handler has references just when some address finds it.               *)
LEMMA MappedAre ==
  ASSUME NEW u, Kept(u, {}), NEW h \in Dynamic
  PROVE  u.handler_refcount[h] # 0 <=> h \in Map!Mapped(Found(u))
<1>1. h \in Map!Mapped(Found(u)) <=> \E x \in Addresses : lookup(u, x) = h
  <2>1. h \in Map!Mapped(Found(u)) <=> \E x \in Addresses : Found(u)[x] = h
    BY DEF Map!Mapped
  <2>2. \A x \in Addresses : Found(u)[x] = lookup(u, x)
    BY DEF Found
  <2>3. QED BY <2>1, <2>2
<1>2. ASSUME NEW i \in L1Index, NEW c \in L2Index, Cell(u, i, c) = h
      PROVE  \E x \in Addresses : lookup(u, x) = h
  <2> DEFINE a == L2Size * i + c
  <2>1. a \in Addresses /\ level1_index(a) = i /\ level2_index(a) = c
    BY AddressesSplit
  <2> HIDE DEF a
  <2>2. lookup(u, a) = h
    BY <1>2, <2>1, LookupIs
  <2>3. QED BY <2>1, <2>2
<1>3. ASSUME NEW x \in Addresses, lookup(u, x) = h
      PROVE  \E i \in L1Index, c \in L2Index : Cell(u, i, c) = h
  BY <1>3, LookupIs
<1>4. u.handler_refcount[h] # 0 <=> \E i \in L1Index, c \in L2Index : Cell(u, i, c) = h
  BY ReachedIsCounted
<1>5. QED BY <1>1, <1>2, <1>3, <1>4

(* Why a call failed, as the map says it.                                  *)
Failure(u) ==
  CASE OK(u) -> "no"
  []   u.error = "Out of handler entries in address table" -> "out of handlers"
  []   OTHER -> "interrupted"

(* The errors, as the map names them.                                      *)
LEMMA FailureIs ==
  ASSUME NEW u
  PROVE  /\ OK(u) => Failure(u) = "no"
         /\ u.error = "Out of handler entries in address table" => Failure(u) = "out of handlers"
         /\ u.error = "Ran out of subtables!" => Failure(u) = "interrupted"
BY DEF Failure, OK

(* The two-level table, with its shared, copied and merged subtables and   *)
(* its reference counts, implements the map from addresses to entries: a   *)
(* lookup finds what the calls so far asked for, a handler is handed out   *)
(* only when no address finds it and refused only when each one is found,  *)
(* and a call that runs out of subtables leaves a part of its request done *)
(* and nothing else.                                                       *)
THEOREM TableImplementsMap == Spec => ImplementsMap
<1>1. ASSUME Init PROVE Map!MapInit
  <2>1. \A x \in Addresses : lookup(t, x) = STATIC_UNMAP
    <3>1. SUFFICES ASSUME NEW x \in Addresses PROVE lookup(t, x) = STATIC_UNMAP
      OBVIOUS
    <3>2. level1_index(x) \in L1Index
      BY LookupIs
    <3>3. t.m_table[level1_index(x)] = STATIC_UNMAP
      BY <1>1, <3>2 DEF Init
    <3>4. STATIC_UNMAP \notin Subtables
      BY Numbers
    <3>5. QED BY <3>3, <3>4 DEF lookup
  <2>2. [x \in Addresses |-> lookup(t, x)] = [x \in Addresses |-> STATIC_UNMAP]
    BY <2>1
  <2>3. Failure(t) = "no"
    BY <1>1, InitIsKept, FailureIs
  <2>4. QED BY <2>2, <2>3 DEF Map!MapInit, Failure
<1>2. ASSUME TableSound, [Next]_vars PROVE [Map!MapNext]_(Map!mapVars)
  <2>1. CASE UNCHANGED vars
    <3>1. t' = t
      BY <2>1 DEF vars
    <3>2. QED BY <3>1 DEF Map!mapVars
  <2>2. ASSUME NEW r \in CallRequests, NEW entry \in StaticMapped, MapStatic(r, entry)
        PROVE  Map!MapNext
    <3>1. OK(t) /\ Reached(t, {}, entry, CellsFor(r), t')
      BY <1>2, <2>2, MapStaticIs
    <3>2. Selected(r) \in Regions
      BY DEF Regions
    <3>3. CASE OK(t')
      <4>1. Found(t') = [x \in Addresses |-> IF x \in Selected(r) THEN entry ELSE Found(t)[x]]
        <5> DEFINE w == t'
                   X == {}
        <5>1. Reached(t, X, entry, CellsFor(r), w) /\ OK(w)
          BY <3>1, <3>3
        <5> HIDE DEF w, X
        <5>2. Found(w) = [x \in Addresses |-> IF x \in Selected(r) THEN entry ELSE Found(t)[x]]
          BY <5>1, WholeCall
        <5>3. QED BY <5>2 DEF w
      <4>2. Failure(t) = "no" /\ Failure(t') = "no"
        BY <3>1, <3>3, FailureIs
      <4>3. Map!MapStatic(Selected(r), entry)
        BY <4>1, <4>2 DEF Map!MapStatic, Map!After, Failure, Found
      <4>4. QED BY <3>2, <4>3 DEF Map!MapNext
    <3>4. CASE ~OK(t')
      <4> DEFINE done == {x \in Addresses : Found(t')[x] # Found(t)[x]}
                 w == t'
                 X == {}
      <4> HIDE DEF done, w, X
      <4>1. Reached(t, X, entry, CellsFor(r), w) /\ ~OK(w)
        BY <3>1, <3>4 DEF w, X
      <4>2. PartlyMapped(t, w, Selected(r), entry)
        BY <4>1, PartOfCall
      <4>3. Changed(t, w) = done
        BY DEF Changed, done, w
      <4>4. /\ done \subseteq Selected(r)
            /\ Found(t') = [x \in Addresses |-> IF x \in done THEN entry ELSE Found(t)[x]]
            /\ t'.error = "Ran out of subtables!"
        BY <4>2, <4>3 DEF PartlyMapped, w
      <4>5. Failure(t) = "no" /\ Failure(t') = "interrupted"
        BY <3>1, <4>4, FailureIs
      <4>6. Map!Interrupted(Selected(r), entry)
        BY <4>4, <4>5 DEF done, Map!Interrupted, Map!After, Failure, Found
      <4>7. QED BY <3>2, <4>6 DEF Map!MapNext
    <3>5. QED BY <3>3, <3>4
  <2>3. ASSUME NEW r \in CallRequests, SetupRangeSolid(r)
        PROVE  Map!MapNext
    <3>1. OK(t) /\ Kept(t, {})
      BY <1>2, <2>3, SetupIs
    <3>2. Selected(r) \in Regions
      BY DEF Regions
    <3>3. CASE /\ Kept(t', {}) /\ SameCells(t, t')
               /\ t'.error = "Out of handler entries in address table"
               /\ \A h \in Dynamic : t.handler_refcount[h] # 0
      <4>1. Map!OutOfHandlers
        BY <3>1, <3>3, SameMap, MappedAre, FailureIs DEF Map!OutOfHandlers, Failure, Found
      <4>2. QED BY <4>1 DEF Map!MapNext
    <3>4. ASSUME NEW h \in Dynamic, NEW u, t.handler_refcount[h] = 0,
                 SameCells(t, u), Reached(u, {h}, h, CellsFor(r), t')
          PROVE  Map!MapNext
      <4>1. h \notin Map!Mapped(Found(t)) /\ Found(u) = Found(t)
        BY <3>1, <3>4, SameMap, MappedAre
      <4>2. CASE OK(t')
        <5>1. Found(t') = [x \in Addresses |-> IF x \in Selected(r) THEN h ELSE Found(t)[x]]
          <6> DEFINE w == t'
                     X == {h}
          <6>1. Reached(u, X, h, CellsFor(r), w) /\ OK(w)
            BY <3>4, <4>2
          <6> HIDE DEF w, X
          <6>2. Found(w) = [x \in Addresses |-> IF x \in Selected(r) THEN h ELSE Found(u)[x]]
            BY <6>1, WholeCall
          <6>3. QED BY <4>1, <6>2 DEF w
        <5>2. Failure(t) = "no" /\ Failure(t') = "no"
          BY <3>1, <4>2, FailureIs
        <5>3. Map!Install(Selected(r), h)
          BY <4>1, <5>1, <5>2 DEF Map!Install, Map!After, Failure, Found
        <5>4. QED BY <3>2, <5>3 DEF Map!MapNext
      <4>3. CASE ~OK(t')
        <5> DEFINE done == {x \in Addresses : Found(t')[x] # Found(t)[x]}
        <5> HIDE DEF done
        <5>1. /\ done \subseteq Selected(r)
              /\ Found(t') = [x \in Addresses |-> IF x \in done THEN h ELSE Found(t)[x]]
              /\ t'.error = "Ran out of subtables!"
          <6> DEFINE w == t'
                     X == {h}
          <6>1. Reached(u, X, h, CellsFor(r), w) /\ ~OK(w)
            BY <3>4, <4>3
          <6> HIDE DEF w, X
          <6>2. PartlyMapped(u, w, Selected(r), h)
            BY <6>1, PartOfCall
          <6>3. Changed(u, w) = done
            BY <4>1 DEF Changed, done, w
          <6>4. QED BY <4>1, <6>2, <6>3 DEF PartlyMapped, w
        <5>2. Failure(t) = "no" /\ Failure(t') = "interrupted"
          BY <3>1, <5>1, FailureIs
        <5>3. Map!Interrupted(Selected(r), h)
          BY <4>1, <5>1, <5>2 DEF done, Map!Interrupted, Map!After, Failure, Found
        <5>4. QED BY <3>2, <5>3 DEF Map!MapNext
      <4>4. QED BY <4>2, <4>3
    <3>5. QED BY <1>2, <2>3, <3>3, <3>4, SetupIs
  <2>4. QED BY <1>2, <2>1, <2>2, <2>3 DEF Next
<1>3. QED BY <1>1, <1>2, TableStaysSound, PTL DEF Spec, ImplementsMap, Map!MapSpec
================================================================================
