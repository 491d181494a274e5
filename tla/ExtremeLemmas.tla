----------------------------- MODULE ExtremeLemmas -----------------------------
(***************************************************************************)
(* The least and the greatest element of a set of numbers exist and are    *)
(* what Min and Max of FiniteSetsExt choose, used wherever the memory      *)
(* system looks for the first or the last of something; the induction over *)
(* the naturals, and over the passes of a loop, that follows; and what     *)
(* counting the elements of a row comes to.                                *)
(***************************************************************************)
EXTENDS Integers, Subsequences, FiniteSets, FiniteSetsExt, FiniteSetTheorems, WellFoundedInduction, TLAPS

(* Every nonempty set of naturals has a least element: the smallest of the *)
(* intervals from 0 to its elements, which strict inclusion orders.        *)
LEMMA LeastExists ==
  ASSUME NEW T \in SUBSET Nat, T # {}
  PROVE  \E x \in T : \A y \in T : x <= y
<1> DEFINE F == {0 .. n : n \in T}
<1>1. F \subseteq FiniteSubsetsOf(Nat) /\ F # {}
  <2>1. ASSUME NEW n \in T PROVE 0 .. n \in FiniteSubsetsOf(Nat)
    <3>1. n \in Int /\ 0 \in Int
      OBVIOUS
    <3>2. IsFiniteSet(0 .. n)
      BY <3>1, FS_Interval
    <3>3. QED BY <3>2 DEF FiniteSubsetsOf
  <2>2. QED BY <2>1
<1>2. PICK S \in F : \A U \in F : ~ (<<U, S>> \in StrictSubsetOrdering(Nat))
  BY <1>1, WFMin, FS_StrictSubsetOrderingWellFounded
<1>3. PICK x \in T : S = 0 .. x
  BY <1>2
<1>4. ASSUME NEW y \in T PROVE x <= y
  <2>1. SUFFICES ASSUME y < x PROVE FALSE
    OBVIOUS
  <2>2. <<0 .. y, 0 .. x>> \in StrictSubsetOrdering(Nat)
    BY <2>1 DEF StrictSubsetOrdering
  <2>3. QED BY <1>2, <1>3, <2>2
<1>5. QED BY <1>4

(* A set of naturals that has 0 and, with a number, the next one, has all  *)
(* of them: the least that is missing would follow one that is there.      *)
LEMMA SetInduction ==
  ASSUME NEW S \in SUBSET Nat, 0 \in S, \A n \in S : n + 1 \in S
  PROVE  \A n \in Nat : n \in S
<1> DEFINE T == Nat \ S
<1>1. SUFFICES ASSUME T # {} PROVE FALSE
  OBVIOUS
<1>2. PICK x \in T : \A y \in T : x <= y
  BY <1>1, LeastExists
<1>3. x - 1 \in Nat /\ x - 1 \notin T
  BY <1>2
<1>4. QED BY <1>2, <1>3

(* The same for the passes of a loop.                                      *)
LEMMA LoopInduction ==
  ASSUME NEW n \in Nat, NEW P, 0 \in P, \A j \in 0 .. (n - 1) : j \in P => j + 1 \in P
  PROVE  n \in P
<1> DEFINE S == {j \in Nat : j <= n => j \in P}
<1>1. 0 \in S
  OBVIOUS
<1>2. ASSUME NEW j \in S PROVE j + 1 \in S
  OBVIOUS
<1> HIDE DEF S
<1>3. \A j \in Nat : j \in S
  <2>1. S \in SUBSET Nat
    BY DEF S
  <2>2. QED BY <1>1, <1>2, <2>1, SetInduction
<1>4. QED BY <1>3 DEF S

(* Min of a nonempty set of naturals is in the set and below all of it: the*)
(* first address a backward scan reaches.                                  *)
LEMMA MinIsLeast ==
  ASSUME NEW T \in SUBSET Nat, T # {}
  PROVE  Min(T) \in T /\ \A y \in T : Min(T) <= y
BY LeastExists DEF Min

(* Max of a nonempty set of naturals with a bound N is in the set and above*)
(* all of it, the element at the least distance to the bound: the last     *)
(* address a forward scan reaches.                                         *)
LEMMA MaxIsGreatest ==
  ASSUME NEW N \in Nat, NEW T \in SUBSET (0 .. N), T # {}
  PROVE  Max(T) \in T /\ \A y \in T : Max(T) >= y
<1> DEFINE D == {N - y : y \in T}
<1>1. D \in SUBSET Nat /\ D # {}
  <2>1. \A y \in T : N - y \in Nat
    OBVIOUS
  <2>2. QED BY <2>1
<1>2. PICK d \in D : \A e \in D : d <= e
  BY <1>1, LeastExists
<1>3. PICK x \in T : d = N - x
  BY <1>2
<1>4. ASSUME NEW y \in T PROVE x >= y
  <2>1. N - y \in D
    OBVIOUS
  <2>2. N - x <= N - y
    BY <1>2, <1>3, <2>1
  <2>3. QED BY <2>2
<1>5. QED BY <1>4 DEF Max

(* A map between two sets that is one to one and onto makes them equal in  *)
(* size.                                                                   *)
LEMMA SameSize ==
  ASSUME NEW S, NEW T, IsFiniteSet(S), NEW f \in [S -> T],
         \A x, y \in S : f[x] = f[y] => x = y,
         \A z \in T : \E x \in S : f[x] = z
  PROVE  IsFiniteSet(T) /\ Cardinality(T) = Cardinality(S)
<1>1. f \in Bijection(S, T)
  BY DEF Bijection, Injection, Surjection, IsInjective
<1>2. ExistsBijection(S, T)
  BY <1>1 DEF ExistsBijection
<1>3. QED BY <1>2, FS_Bijection

(* Powers of two, by the number of subsets.                                *)
LEMMA PowersOfTwo ==
  /\ 2^0 = 1
  /\ \A n \in Nat : 2^n \in Nat \ {0} /\ 2^(n + 1) = 2 * 2^n
<1>1. ASSUME NEW n \in Nat
      PROVE  IsFiniteSet(SUBSET (1 .. n)) /\ Cardinality(SUBSET (1 .. n)) = 2^n
  <2>1. IsFiniteSet(1 .. n) /\ Cardinality(1 .. n) = n
    <3>1. 1 \in Int /\ n \in Int
      OBVIOUS
    <3>2. IsFiniteSet(1 .. n) /\ Cardinality(1 .. n) = IF 1 > n THEN 0 ELSE n - 1 + 1
      BY <3>1, FS_Interval
    <3>3. QED BY <3>2
  <2>2. QED BY <2>1, FS_SUBSET
<1>2. 2^0 = 1
  <2>1. SUBSET (1 .. 0) = {{}}
    OBVIOUS
  <2>2. Cardinality({{}}) = 1
    BY FS_Singleton
  <2>3. QED BY <1>1, <2>1, <2>2
<1>3. ASSUME NEW n \in Nat PROVE 2^(n + 1) = 2 * 2^n /\ 2^n \in Nat
  <2> DEFINE A == SUBSET (1 .. n)
             B == {s \in SUBSET (1 .. (n + 1)) : n + 1 \in s}
             f == [s \in A |-> s \cup {n + 1}]
  <2>1. f \in [A -> B]
    OBVIOUS
  <2>2. \A x, y \in A : f[x] = f[y] => x = y
    <3>1. \A x \in A : f[x] \ {n + 1} = x
      OBVIOUS
    <3>2. QED BY <3>1
  <2>3. \A z \in B : \E x \in A : f[x] = z
    <3>1. ASSUME NEW z \in B PROVE z \ {n + 1} \in A /\ f[z \ {n + 1}] = z
      <4>1. z \ {n + 1} \in A
        OBVIOUS
      <4>2. QED BY <4>1
    <3>2. QED BY <3>1
  <2>4. IsFiniteSet(A) /\ Cardinality(A) = 2^n
    BY <1>1
  <2> HIDE DEF f
  <2>5. IsFiniteSet(B) /\ Cardinality(B) = 2^n
    <3> HIDE DEF A, B
    <3>1. QED BY <2>1, <2>2, <2>3, <2>4, SameSize
  <2>6. A \cup B = SUBSET (1 .. (n + 1)) /\ A \cap B = {}
    OBVIOUS
  <2>7. Cardinality(A \cup B) = Cardinality(A) + Cardinality(B) - Cardinality(A \cap B)
    <3> HIDE DEF A, B
    <3>1. QED BY <2>4, <2>5, FS_Union
  <2>8. Cardinality({}) = 0 /\ 2^n \in Nat
    BY <2>4, FS_EmptySet, FS_CardinalityType
  <2>9. Cardinality(SUBSET (1 .. (n + 1))) = 2^(n + 1)
    BY <1>1
  <2>10. 2^(n + 1) = 2^n + 2^n - 0
    <3> HIDE DEF A, B
    <3>1. QED BY <2>4, <2>5, <2>6, <2>7, <2>8, <2>9
  <2>11. \A m \in Nat : m + m - 0 = 2 * m
    OBVIOUS
  <2>12. QED BY <2>8, <2>10, <2>11
<1>4. \A n \in Nat : 2^n # 0
  <2> DEFINE S == {n \in Nat : 2^n # 0}
  <2>1. 0 \in S
    BY <1>2
  <2>2. ASSUME NEW n \in S PROVE n + 1 \in S
    BY <1>3
  <2> HIDE DEF S
  <2>3. \A n \in Nat : n \in S
    <3>1. S \in SUBSET Nat
      BY DEF S
    <3>2. QED BY <2>1, <2>2, <3>1, SetInduction
  <2>4. QED BY <2>3 DEF S
<1>5. QED BY <1>2, <1>3, <1>4

(* Arithmetic.                                                             *)

(* A number is made of its quotient and its remainder.                     *)
LEMMA Division ==
  ASSUME NEW n \in Nat, NEW m \in Nat, m # 0
  PROVE  n \div m \in Nat /\ n % m \in 0 .. (m - 1) /\ n = (n \div m) * m + (n % m)
OBVIOUS

(* And the two are the only ones that make it.                             *)
LEMMA DivisionIsUnique ==
  ASSUME NEW q \in Nat, NEW m \in Nat, NEW r \in 0 .. (m - 1)
  PROVE  (q * m + r) \div m = q /\ (q * m + r) % m = r
OBVIOUS

(* How many elements of a set have x, and when one of them changes.        *)
Count(f, S, x) == Cardinality({j \in S : f[j] = x})

(* Position i of a row changes: what it had is counted once less, what it  *)
(* has once more.                                                          *)
LEMMA CountChanges ==
  ASSUME NEW S, IsFiniteSet(S), NEW i \in S, NEW x, NEW f, NEW g,
         \A j \in S : j # i => g[j] = f[j]
  PROVE  /\ Count(f, S, x) \in Nat
         /\ Count(g, S, x) = Count(f, S, x) - (IF f[i] = x THEN 1 ELSE 0)
                                            + (IF g[i] = x THEN 1 ELSE 0)
<1> DEFINE R == {j \in S \ {i} : f[j] = x}
           F == {j \in S : f[j] = x}
           G == {j \in S : g[j] = x}
<1>1. IsFiniteSet(R) /\ Cardinality(R) \in Nat
  <2>1. R \subseteq S
    OBVIOUS
  <2>2. QED BY <2>1, FS_Subset, FS_CardinalityType
<1>2. F = IF f[i] = x THEN R \cup {i} ELSE R
  OBVIOUS
<1>3. G = IF g[i] = x THEN R \cup {i} ELSE R
  OBVIOUS
<1>4. i \notin R
  OBVIOUS
<1> HIDE DEF R, F, G
<1>5. Cardinality(R \cup {i}) = Cardinality(R) + 1
  BY <1>1, <1>4, FS_AddElement
<1>6. Cardinality(F) \in Nat
  BY <1>1, <1>2, <1>5
<1>7. Cardinality(G) = Cardinality(F) - (IF f[i] = x THEN 1 ELSE 0) + (IF g[i] = x THEN 1 ELSE 0)
  BY <1>1, <1>2, <1>3, <1>5
<1>8. QED BY <1>6, <1>7 DEF F, G, Count

(* w holds the elements in S of the first n of s, in their order: o is     *)
(* where each of them was.                                                 *)
Picks(s, S, n, w, o) ==
  /\ o \in [1 .. Len(w) -> 1 .. n]
  /\ \A i \in 1 .. Len(w) : w[i] = s[o[i]] /\ s[o[i]] \in S
  /\ \A i, j \in 1 .. Len(w) : i < j => o[i] < o[j]
  /\ \A p \in 1 .. n : s[p] \in S => \E i \in 1 .. Len(w) : o[i] = p

(* One more element of the sequence.                                       *)
LEMMA PicksOneMore ==
  ASSUME NEW T, NEW s \in Seq(T), NEW S, NEW n \in 1 .. Len(s),
         NEW w \in Seq(T), NEW o, Picks(s, S, n - 1, w, o)
  PROVE  /\ s[n] \in S => Append(w, s[n]) \in Seq(T) /\ \E q : Picks(s, S, n, Append(w, s[n]), q)
         /\ s[n] \notin S => \E q : Picks(s, S, n, w, q)
<1>1. n \in Nat /\ n - 1 \in Nat /\ Len(w) \in Nat /\ Len(s) \in Nat /\ s[n] \in T
  OBVIOUS
<1>2. ASSUME s[n] \notin S PROVE Picks(s, S, n, w, o)
  <2>1. \A p \in 1 .. n : s[p] \in S => p \in 1 .. (n - 1)
    BY <1>1, <1>2
  <2>2. o \in [1 .. Len(w) -> 1 .. n]
    BY <1>1 DEF Picks
  <2>3. QED BY <2>1, <2>2 DEF Picks
<1>3. ASSUME s[n] \in S PROVE \E q : Picks(s, S, n, Append(w, s[n]), q)
  <2> DEFINE m == Len(w)
             v == Append(w, s[n])
             q == [i \in 1 .. (m + 1) |-> IF i = m + 1 THEN n ELSE o[i]]
  <2>1. Len(v) = m + 1 /\ v[m + 1] = s[n] /\ \A i \in 1 .. m : v[i] = w[i]
    BY <1>1
  <2>2. /\ \A i \in 1 .. m : o[i] \in 1 .. (n - 1) /\ i # m + 1 /\ q[i] = o[i]
        /\ q[m + 1] = n
    BY <1>1 DEF Picks
  <2> HIDE DEF v
  <2>3. q \in [1 .. (m + 1) -> 1 .. n]
    <3>1. \A i \in 1 .. (m + 1) : (IF i = m + 1 THEN n ELSE o[i]) \in 1 .. n
      <4> TAKE i \in 1 .. (m + 1)
      <4>1. i = m + 1 \/ i \in 1 .. m
        BY <1>1
      <4>2. \A x \in 1 .. (n - 1) : x \in 1 .. n
        BY <1>1
      <4>3. n \in 1 .. n
        BY <1>1
      <4>4. QED BY <2>2, <4>1, <4>2, <4>3
    <3>2. QED BY <3>1
  <2> HIDE DEF q
  <2>4. \A i \in 1 .. (m + 1) : v[i] = s[q[i]] /\ s[q[i]] \in S
    <3> TAKE i \in 1 .. (m + 1)
    <3>1. i = m + 1 \/ i \in 1 .. m
      BY <1>1
    <3>2. QED BY <1>3, <2>1, <2>2, <3>1 DEF Picks
  <2>5. \A i, j \in 1 .. (m + 1) : i < j => q[i] < q[j]
    <3> TAKE i, j \in 1 .. (m + 1)
    <3> HAVE i < j
    <3>1. i \in 1 .. m /\ (j = m + 1 \/ j \in 1 .. m)
      BY <1>1
    <3>2. CASE j = m + 1
      <4>1. q[i] \in 1 .. (n - 1) /\ q[j] = n
        BY <2>2, <3>1, <3>2
      <4>2. QED BY <1>1, <4>1
    <3>3. CASE j \in 1 .. m
      BY <2>2, <3>1, <3>3 DEF Picks
    <3>4. QED BY <3>1, <3>2, <3>3
  <2>6. ASSUME NEW p \in 1 .. n, s[p] \in S PROVE \E i \in 1 .. (m + 1) : q[i] = p
    <3>1. m + 1 \in 1 .. (m + 1)
      BY <1>1
    <3>2. CASE p = n
      BY <2>2, <3>1, <3>2
    <3>3. CASE p \in 1 .. (n - 1)
      <4>1. PICK i \in 1 .. m : o[i] = p
        BY <2>6, <3>3 DEF Picks
      <4>2. i \in 1 .. (m + 1)
        BY <1>1
      <4>3. QED BY <2>2, <4>1, <4>2
    <3>4. QED BY <1>1, <3>2, <3>3
  <2>7. Picks(s, S, n, v, q)
    BY <2>1, <2>3, <2>4, <2>5, <2>6 DEF Picks
  <2>8. QED BY <2>7 DEF v
<1>4. s[n] \in S => Append(w, s[n]) \in Seq(T)
  BY <1>1
<1>5. QED BY <1>2, <1>3, <1>4

(* What Keep returns: the elements that are in S, each where it was among  *)
(* them.                                                                   *)
LEMMA KeepIs ==
  ASSUME NEW T, NEW s \in Seq(T), NEW S
  PROVE  Keep(s, S) \in Seq(T) /\ \E o : Picks(s, S, Len(s), Keep(s, S), o)
<1> DEFINE L == Len(s)
           E(f, n) == IF n = 0 THEN <<>>
                      ELSE IF s[n] \in S THEN Append(f[n - 1], s[n]) ELSE f[n - 1]
           Good(m, w) == w \in Seq(T) /\ \E o : Picks(s, S, m, w, o)
           M == {m \in 0 .. L : \E f : \A k \in 0 .. m : f[k] = E(f, k) /\ Good(k, f[k])}
<1>1. L \in Nat
  OBVIOUS
<1>2. 0 \in M
  <2>1. Good(0, <<>>)
    <3>1. Picks(s, S, 0, <<>>, [i \in 1 .. 0 |-> 0])
      <4>1. 1 .. 0 = {} /\ Len(<<>>) = 0
        OBVIOUS
      <4>2. QED BY <4>1 DEF Picks
    <3>2. <<>> \in Seq(T)
      OBVIOUS
    <3>3. QED BY <3>1, <3>2
  <2> HIDE DEF Good
  <2>2. \A k \in 0 .. 0 : k = 0
    OBVIOUS
  <2> DEFINE f == [k \in {0} |-> <<>>]
  <2>3. \A k \in 0 .. 0 : f[k] = E(f, k) /\ Good(k, f[k])
    BY <2>1, <2>2
  <2> HIDE DEF f
  <2>4. 0 \in 0 .. L
    BY <1>1
  <2>5. QED BY <2>3, <2>4
<1>3. ASSUME NEW m \in 0 .. (L - 1), m \in M PROVE m + 1 \in M
  <2>1. PICK f : \A k \in 0 .. m : f[k] = E(f, k) /\ Good(k, f[k])
    BY <1>3
  <2> DEFINE n == m + 1
             w == IF s[n] \in S THEN Append(f[m], s[n]) ELSE f[m]
             g == [k \in 0 .. n |-> IF k = n THEN w ELSE f[k]]
  <2>2. n \in 1 .. L /\ n - 1 = m /\ m \in 0 .. m /\ n \in 0 .. L /\ n # 0
    BY <1>1
  <2>3. Good(n, w)
    <3>1. PICK o : Picks(s, S, m, f[m], o)
      BY <2>1, <2>2
    <3>2. f[m] \in Seq(T)
      BY <2>1, <2>2
    <3>3. Picks(s, S, n - 1, f[m], o)
      BY <2>2, <3>1
    <3>4. /\ s[n] \in S => Append(f[m], s[n]) \in Seq(T) /\ \E q : Picks(s, S, n, Append(f[m], s[n]), q)
          /\ s[n] \notin S => \E q : Picks(s, S, n, f[m], q)
      <4> HIDE DEF n
      <4>1. QED BY <2>2, <3>2, <3>3, PicksOneMore
    <3>5. QED BY <3>2, <3>4
  <2> HIDE DEF Good, w
  <2>4. ASSUME NEW k \in 0 .. n PROVE g[k] = E(g, k) /\ Good(k, g[k])
    <3>1. CASE k = n
      <4>1. g[n] = w /\ g[n - 1] = f[m]
        BY <2>2
      <4>2. E(g, n) = w
        BY <2>2, <4>1 DEF w
      <4>3. QED BY <2>3, <3>1, <4>1, <4>2
    <3>2. CASE k # n
      <4>1. k \in 0 .. m /\ k # n /\ (k # 0 => k - 1 \in 0 .. n /\ k - 1 # n)
        BY <3>2
      <4>2. g[k] = f[k] /\ (k # 0 => g[k - 1] = f[k - 1])
        BY <4>1
      <4> HIDE DEF g
      <4>3. E(g, k) = E(f, k)
        BY <4>2
      <4>4. QED BY <2>1, <4>1, <4>2, <4>3
    <3>3. QED BY <3>1, <3>2
  <2> HIDE DEF g, E
  <2>5. QED BY <2>2, <2>4
<1>4. L \in M
  <2> HIDE DEF M, L
  <2>1. QED BY <1>1, <1>2, <1>3, LoopInduction
<1>5. PICK f : \A k \in 0 .. L : f[k] = E(f, k) /\ Good(k, f[k])
  BY <1>4
<1> DEFINE h == [k \in 0 .. L |-> f[k]]
           kept == CHOOSE x : x = [n \in 0 .. L |-> E(x, n)]
<1>6. h = [n \in 0 .. L |-> E(h, n)]
  <2>1. ASSUME NEW n \in 0 .. L PROVE f[n] = E(h, n)
    <3>1. n # 0 => n - 1 \in 0 .. L
      BY <1>1
    <3>2. n # 0 => h[n - 1] = f[n - 1]
      BY <3>1
    <3> HIDE DEF h
    <3>3. E(h, n) = E(f, n)
      BY <3>2
    <3>4. QED BY <1>5, <3>3
  <2> DEFINE X(n) == E(h, n)
             Y(n) == f[n]
  <2>2. \A n \in 0 .. L : Y(n) = X(n)
    BY <2>1
  <2> HIDE DEF X, Y
  <2>3. [n \in 0 .. L |-> Y(n)] = [n \in 0 .. L |-> X(n)]
    BY <2>2
  <2>4. QED BY <2>3 DEF X, Y
<1>7. kept = [n \in 0 .. L |-> E(kept, n)]
  <2> HIDE DEF h, E
  <2>1. QED BY <1>6
<1>8. Keep(s, S) = kept[L]
  BY DEF Keep
<1> HIDE DEF kept
<1>9. \A n \in 0 .. L : kept[n] = f[n]
  <2> DEFINE C == {n \in 0 .. L : kept[n] = f[n]}
             Q == {n \in Nat : n <= L => n \in C}
  <2>1. \A n \in 0 .. L : kept[n] = E(kept, n)
    <3> HIDE DEF E
    <3>1. QED BY <1>7
  <2>2. 0 \in Q
    <3>1. 0 \in 0 .. L
      BY <1>1
    <3>2. QED BY <1>5, <2>1, <3>1
  <2>3. ASSUME NEW n \in Q PROVE n + 1 \in Q
    <3>1. CASE n + 1 <= L
      <4>1. n \in 0 .. L /\ n + 1 \in 0 .. L /\ (n + 1) - 1 = n /\ n + 1 # 0
        BY <1>1, <3>1
      <4>2. kept[n] = f[n]
        BY <4>1
      <4>3. E(kept, n + 1) = E(f, n + 1)
        BY <4>1, <4>2
      <4>4. QED BY <1>5, <2>1, <4>1, <4>3
    <3>2. CASE ~(n + 1 <= L)
      BY <3>2
    <3>3. QED BY <3>1, <3>2
  <2> HIDE DEF C
  <2>4. \A n \in Nat : n \in Q
    <3>1. Q \in SUBSET Nat
      OBVIOUS
    <3> HIDE DEF Q
    <3>2. QED BY <2>2, <2>3, <3>1, SetInduction
  <2>5. \A n \in 0 .. L : n \in C
    BY <1>1, <2>4
  <2>6. QED BY <2>5 DEF C
<1>10. QED
  <2>1. L \in 0 .. L
    BY <1>1
  <2>2. Good(L, Keep(s, S))
    <3> HIDE DEF Good
    <3>1. QED BY <1>5, <1>8, <1>9, <2>1
  <2>3. QED BY <2>2

(* Where the kept elements were is settled by which positions they have:   *)
(* if two sequences keep the same ones, what they keep was at the same.    *)
KeepAlike(s, S, r, R, n) == \A p \in 1 .. n : s[p] \in S <=> r[p] \in R
PlacesEqual(w, v, o, q)  == Len(w) = Len(v) /\ \A i \in 1 .. Len(w) : o[i] = q[i]

(* If two sequences keep the same positions, what they keep was at the     *)
(* same places.                                                            *)
LEMMA PicksAgree ==
  ASSUME NEW n, n \in Nat, NEW s, NEW S, NEW w, NEW o, NEW r, NEW R, NEW v, NEW q,
         Picks(s, S, n, w, o), Picks(r, R, n, v, q), KeepAlike(s, S, r, R, n),
         Len(w) \in Nat, Len(v) \in Nat
  PROVE  PlacesEqual(w, v, o, q)
<1> DEFINE a == Len(w)
           b == Len(v)
<1>0. \A p \in 1 .. n : s[p] \in S <=> r[p] \in R
  BY DEF KeepAlike
<1>1. a \in Nat /\ b \in Nat
  OBVIOUS
<1> HIDE DEF a, b
<1>2. /\ \A i \in 1 .. a : o[i] \in 1 .. n /\ s[o[i]] \in S
      /\ \A i, j \in 1 .. a : i < j => o[i] < o[j]
      /\ \A p \in 1 .. n : s[p] \in S => \E i \in 1 .. a : o[i] = p
  BY DEF Picks, a
<1>3. /\ \A i \in 1 .. b : q[i] \in 1 .. n /\ r[q[i]] \in R
      /\ \A i, j \in 1 .. b : i < j => q[i] < q[j]
      /\ \A p \in 1 .. n : r[p] \in R => \E i \in 1 .. b : q[i] = p
  BY DEF Picks, b
<1> DEFINE D == {i \in Nat : i \in 1 .. a /\ i \in 1 .. b /\ o[i] # q[i]}
<1>4. \A i \in 1 .. a : i \in 1 .. b => o[i] = q[i]
  <2>1. SUFFICES ASSUME D # {} PROVE FALSE
    BY <1>1
  <2>2. PICK i \in D : \A j \in D : i <= j
    BY <2>1, LeastExists
  <2>3. i \in 1 .. a /\ i \in 1 .. b /\ o[i] # q[i] /\ o[i] \in 1 .. n /\ q[i] \in 1 .. n
    BY <1>2, <1>3, <2>2
  <2>4. \A j \in Nat : j \in 1 .. a /\ j \in 1 .. b /\ j < i => o[j] = q[j]
    BY <2>2
  <2> HIDE DEF D
  <2>5. CASE o[i] < q[i]
    <3>1. PICK j \in 1 .. b : q[j] = o[i]
      BY <1>0, <1>2, <1>3, <2>3
    <3>2. j < i
      <4>1. ~ (i < j) /\ i # j
        BY <1>3, <2>3, <2>5, <3>1
      <4>2. QED BY <1>1, <2>3, <4>1
    <3>3. j \in 1 .. a /\ j \in Nat
      BY <1>1, <2>3, <3>2
    <3>4. o[j] = q[j] /\ o[j] < o[i] /\ o[j] \in 1 .. n
      BY <1>2, <2>3, <2>4, <3>2, <3>3
    <3>5. QED BY <2>3, <3>1, <3>4
  <2>6. CASE q[i] < o[i]
    <3>1. PICK j \in 1 .. a : o[j] = q[i]
      BY <1>0, <1>2, <1>3, <2>3
    <3>2. j < i
      <4>1. ~ (i < j) /\ i # j
        BY <1>2, <2>3, <2>6, <3>1
      <4>2. QED BY <1>1, <2>3, <4>1
    <3>3. j \in 1 .. b /\ j \in Nat
      BY <1>1, <2>3, <3>2
    <3>4. o[j] = q[j] /\ q[j] < q[i] /\ q[j] \in 1 .. n
      BY <1>3, <2>3, <2>4, <3>2, <3>3
    <3>5. QED BY <2>3, <3>1, <3>4
  <2>7. QED BY <2>3, <2>5, <2>6
<1> HIDE DEF D
<1>5. ~ (a < b)
  <2> SUFFICES ASSUME a < b PROVE FALSE
    OBVIOUS
  <2> DEFINE c == a + 1
  <2>1. c \in 1 .. b /\ \A j \in 1 .. a : j \in 1 .. b /\ j < c
    BY <1>1
  <2> HIDE DEF c
  <2>2. PICK j \in 1 .. a : o[j] = q[c]
    BY <1>0, <1>2, <1>3, <2>1
  <2>3. o[j] = q[j] /\ q[j] < q[c] /\ q[j] \in 1 .. n /\ q[c] \in 1 .. n
    BY <1>3, <1>4, <2>1
  <2>4. QED BY <2>2, <2>3
<1>6. ~ (b < a)
  <2> SUFFICES ASSUME b < a PROVE FALSE
    OBVIOUS
  <2> DEFINE c == b + 1
  <2>1. c \in 1 .. a /\ \A j \in 1 .. b : j \in 1 .. a /\ j < c
    BY <1>1
  <2> HIDE DEF c
  <2>2. PICK j \in 1 .. b : q[j] = o[c]
    BY <1>0, <1>2, <1>3, <2>1
  <2>3. o[j] = q[j] /\ o[j] < o[c] /\ o[j] \in 1 .. n /\ o[c] \in 1 .. n
    BY <1>2, <1>4, <2>1
  <2>4. QED BY <2>2, <2>3
<1>7. a = b
  BY <1>1, <1>5, <1>6
<1>8. QED BY <1>4, <1>7 DEF a, b, PlacesEqual

(* What is left of two sequences, when what leaves them leaves both at the *)
(* same places: v and w are what is left of r and s, o the places.         *)
Leaves(s, gone, w, r, v, o) ==
  /\ Len(v) = Len(w)
  /\ o \in [1 .. Len(w) -> 1 .. Len(s)]
  /\ \A i \in 1 .. Len(w) : w[i] = s[o[i]] /\ v[i] = r[o[i]] /\ s[o[i]] \notin gone
  /\ \A i, j \in 1 .. Len(w) : i < j => o[i] < o[j]
  /\ \A p \in 1 .. Len(s) : s[p] \notin gone => \E i \in 1 .. Len(w) : o[i] = p

(* What leaves two sequences at the same places leaves the rest in step.   *)
LEMMA WithoutBoth ==
  ASSUME NEW T, NEW U, NEW s \in Seq(T), NEW gone, NEW r \in Seq(U), NEW lost, Len(r) = Len(s),
         KeepAlike(s, gone, r, lost, Len(s))
  PROVE  /\ Without(s, gone) \in Seq(T) /\ Without(r, lost) \in Seq(U)
         /\ \E o : Leaves(s, gone, Without(s, gone), r, Without(r, lost), o)
<1> DEFINE S == {s[i] : i \in DOMAIN s} \ gone
           R == {r[i] : i \in DOMAIN r} \ lost
           w == Without(s, gone)
           v == Without(r, lost)
           n == Len(s)
<1>1. n \in Nat /\ DOMAIN s = 1 .. n /\ DOMAIN r = 1 .. n
  OBVIOUS
<1>2. \A p \in 1 .. n : (s[p] \in S <=> s[p] \notin gone) /\ (r[p] \in R <=> r[p] \notin lost)
  BY <1>1
<1>3. w = Keep(s, S) /\ v = Keep(r, R)
  BY DEF Without
<1> HIDE DEF S, R, w, v
<1>4. w \in Seq(T) /\ v \in Seq(U)
  BY <1>3, KeepIs
<1>5. PICK o : Picks(s, S, n, w, o)
  BY <1>3, KeepIs
<1>6. PICK q : Picks(r, R, n, v, q)
  <2>1. \E q : Picks(r, R, Len(r), v, q)
    BY <1>3, KeepIs
  <2>2. QED BY <2>1
<1> HIDE DEF n
<1>7. Len(w) = Len(v) /\ \A i \in 1 .. Len(w) : o[i] = q[i]
  <2>1. KeepAlike(s, S, r, R, n)
    <3>1. \A p \in 1 .. n : s[p] \in gone <=> r[p] \in lost
      BY DEF n, KeepAlike
    <3>2. QED BY <1>2, <3>1 DEF KeepAlike
  <2>2. Len(w) \in Nat /\ Len(v) \in Nat
    BY <1>4
  <2>3. PlacesEqual(w, v, o, q)
    BY <1>1, <1>5, <1>6, <2>1, <2>2, PicksAgree
  <2>4. QED BY <2>3 DEF PlacesEqual
<1>8. \A i \in 1 .. Len(w) : w[i] = s[o[i]] /\ s[o[i]] \in S /\ v[i] = r[o[i]] /\ o[i] \in 1 .. n
  BY <1>5, <1>6, <1>7 DEF Picks
<1>9. Leaves(s, gone, w, r, v, o)
  BY <1>2, <1>5, <1>7, <1>8 DEF Picks, Leaves, n
<1>10. QED BY <1>4, <1>9 DEF w, v

(* Nothing leaves that is not there.                                       *)
LEMMA WithoutNone ==
  ASSUME NEW T, NEW s \in Seq(T), NEW gone, \A p \in 1 .. Len(s) : s[p] \notin gone
  PROVE  Without(s, gone) = s
<1> DEFINE S == {s[i] : i \in DOMAIN s} \ gone
           w == Without(s, gone)
           n == Len(s)
           q == [i \in 1 .. n |-> i]
<1>1. n \in Nat /\ DOMAIN s = 1 .. n
  OBVIOUS
<1>2. \A p \in 1 .. n : s[p] \in S
  BY <1>1
<1>3. w = Keep(s, S)
  BY DEF Without
<1> HIDE DEF S, w
<1>4. w \in Seq(T) /\ \E o : Picks(s, S, n, w, o)
  BY <1>3, KeepIs
<1>5. PICK o : Picks(s, S, n, w, o)
  BY <1>4
<1>6. Picks(s, S, n, s, q)
  BY <1>1, <1>2 DEF Picks
<1>7. Len(w) = n /\ \A i \in 1 .. Len(w) : o[i] = q[i]
  <2> HIDE DEF q
  <2>1. KeepAlike(s, S, s, S, n) /\ Len(w) \in Nat /\ Len(s) \in Nat
    BY <1>4 DEF KeepAlike
  <2>2. PlacesEqual(w, s, o, q)
    <3> HIDE DEF n
    <3>1. QED BY <1>1, <1>5, <1>6, <2>1, PicksAgree
  <2>3. QED BY <2>2 DEF PlacesEqual
<1>8. \A i \in 1 .. n : w[i] = s[i]
  BY <1>5, <1>7 DEF Picks
<1>9. w = s
  BY <1>1, <1>4, <1>7, <1>8
<1>10. QED BY <1>9 DEF w

(* A sequence without repetitions is as long as the set of its elements.   *)
LEMMA DistinctCount ==
  ASSUME NEW T, NEW s \in Seq(T), \A i, j \in 1 .. Len(s) : s[i] = s[j] => i = j
  PROVE  /\ IsFiniteSet({s[i] : i \in 1 .. Len(s)})
         /\ Cardinality({s[i] : i \in 1 .. Len(s)}) = Len(s)
<1> DEFINE n == Len(s)
           R == {s[i] : i \in 1 .. n}
<1>1. n \in Nat /\ s \in [1 .. n -> R]
  OBVIOUS
<1>2. \A z \in R : \E i \in 1 .. n : s[i] = z
  OBVIOUS
<1> HIDE DEF n, R
<1>3. IsFiniteSet(1 .. n) /\ Cardinality(1 .. n) = n
  <2>1. 1 \in Int /\ n \in Int
    BY <1>1
  <2>2. IsFiniteSet(1 .. n) /\ Cardinality(1 .. n) = IF 1 > n THEN 0 ELSE n - 1 + 1
    BY <2>1, FS_Interval
  <2>3. (IF 1 > n THEN 0 ELSE n - 1 + 1) = n
    BY <1>1
  <2>4. QED BY <2>2, <2>3
<1>4. \A i, j \in 1 .. n : s[i] = s[j] => i = j
  BY DEF n
<1> DEFINE I == 1 .. n
<1> HIDE DEF I
<1>5. IsFiniteSet(R) /\ Cardinality(R) = Cardinality(I)
  <2>1. IsFiniteSet(I) /\ s \in [I -> R] /\ (\A i, j \in I : s[i] = s[j] => i = j)
        /\ \A z \in R : \E i \in I : s[i] = z
    BY <1>1, <1>2, <1>3, <1>4 DEF I
  <2>2. QED BY <2>1, SameSize
<1>6. QED BY <1>3, <1>5 DEF I, R, n
================================================================================
