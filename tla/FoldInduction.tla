----------------------------- MODULE FoldInduction -----------------------------
(***************************************************************************)
(* A fold over a sequence goes through one value per element: the lemma    *)
(* that an induction over a loop of the memory system starts from.  Op is  *)
(* the body of the loop, with what it takes from around the loop, the value*)
(* so far and the element; the loops are instances of this module.  It     *)
(* brings no library with it, as each instance would carry a copy: the     *)
(* induction it needs is a hypothesis, which LoopInduction of ExtremeLemmas*)
(* proves for every number of passes.                                      *)
(***************************************************************************)
EXTENDS Integers

CONSTANT Op(_, _, _, _, _, _)

Last(s) == CHOOSE x \in s : \A y \in s : x >= y

(* FoldLeft of the community modules, with the body of the loop filled in. *)
Fold(a, b, c, d, base, seq) ==
  LET iter[s \in SUBSET DOMAIN seq] ==
        IF s = {} THEN base
        ELSE LET x == Last(s)
             IN  Op(a, b, c, d, iter[s \ {x}], seq[x])
  IN  iter[DOMAIN seq]

(* The values g[0], g[1], ... that the first elements of a sequence make.  *)
Passes(a, b, c, d, base, seq, n, g) ==
  g[0] = base /\ \A k \in 1 .. n : g[k] = Op(a, b, c, d, g[k - 1], seq[k])

Induction(n) ==
  \A P : 0 \in P /\ (\A j \in 0 .. (n - 1) : j \in P => j + 1 \in P) => n \in P

(* The last of the first m + 1 elements, when it is among those chosen.    *)
LEMMA LastOfMore ==
  ASSUME NEW m \in Nat, NEW s \in SUBSET (1 .. (m + 1)), m + 1 \in s
  PROVE  Last(s) = m + 1
<1>1. \A y \in s : y \in Int /\ m + 1 >= y
  OBVIOUS
<1>2. \A x \in s : (\A y \in s : x >= y) => x = m + 1
  BY <1>1
<1>3. QED BY <1>1, <1>2 DEF Last

(* A fold over n elements is the last of the values that they make.        *)
LEMMA FoldPasses ==
  ASSUME NEW a, NEW b, NEW c, NEW d, NEW base, NEW n \in Nat, NEW seq, DOMAIN seq = 1 .. n,
         Induction(n)
  PROVE  \E g : Passes(a, b, c, d, base, seq, n, g) /\ g[n] = Fold(a, b, c, d, base, seq)
<1> DEFINE E(f, s) == IF s = {} THEN base ELSE Op(a, b, c, d, f[s \ {Last(s)}], seq[Last(s)])
           Def(f, m) == f = [s \in SUBSET (1 .. m) |-> E(f, s)]
           M == {m \in Nat : \E f : Def(f, m)}
<1>1. 0 \in M
  <2> DEFINE f == [s \in SUBSET (1 .. 0) |-> base]
  <2>1. \A s \in SUBSET (1 .. 0) : s = {}
    OBVIOUS
  <2>2. f = [s \in SUBSET (1 .. 0) |-> E(f, s)]
    BY <2>1
  <2>3. QED BY <2>2
<1>2. ASSUME NEW m \in M PROVE m + 1 \in M
  <2>1. PICK f : Def(f, m)
    OBVIOUS
  <2> DEFINE h == [s \in SUBSET (1 .. (m + 1)) |->
                     IF m + 1 \in s THEN Op(a, b, c, d, f[s \ {m + 1}], seq[m + 1]) ELSE f[s]]
  <2>2. ASSUME NEW s \in SUBSET (1 .. (m + 1)) PROVE h[s] = E(h, s)
    <3>1. CASE m + 1 \in s
      <4>1. Last(s) = m + 1
        BY <3>1, LastOfMore
      <4>2. s \ {m + 1} \in SUBSET (1 .. (m + 1)) /\ m + 1 \notin s \ {m + 1}
        OBVIOUS
      <4>3. h[s \ {m + 1}] = f[s \ {m + 1}]
        BY <4>2
      <4>4. s # {}
        BY <3>1
      <4>5. h[s] = Op(a, b, c, d, f[s \ {m + 1}], seq[m + 1])
        BY <3>1
      <4>6. QED BY <4>1, <4>3, <4>4, <4>5
    <3>2. CASE m + 1 \notin s
      <4>1. s \in SUBSET (1 .. m)
        BY <3>2
      <4>2. f[s] = E(f, s)
        BY <2>1, <4>1
      <4>3. h[s] = f[s]
        BY <3>2
      <4>4. h[s \ {Last(s)}] = f[s \ {Last(s)}]
        BY <3>2
      <4>5. QED BY <4>2, <4>3, <4>4
    <3>3. QED BY <3>1, <3>2
  <2>3. h = [s \in SUBSET (1 .. (m + 1)) |-> E(h, s)]
    <3> DEFINE X(s) == E(h, s)
               Y(s) == IF m + 1 \in s THEN Op(a, b, c, d, f[s \ {m + 1}], seq[m + 1]) ELSE f[s]
    <3>1. \A s \in SUBSET (1 .. (m + 1)) : Y(s) = X(s)
      BY <2>2
    <3> HIDE DEF X, Y
    <3>2. [s \in SUBSET (1 .. (m + 1)) |-> Y(s)] = [s \in SUBSET (1 .. (m + 1)) |-> X(s)]
      BY <3>1
    <3>3. QED BY <3>2 DEF X, Y
  <2> HIDE DEF h
  <2>4. \E f_1 : Def(f_1, m + 1)
    BY <2>3
  <2> HIDE DEF E
  <2>5. QED BY <2>4
<1>3. n \in M
  <2> HIDE DEF M
  <2>1. \A m \in 0 .. (n - 1) : m \in M => m + 1 \in M
    BY <1>2
  <2>2. QED BY <1>1, <2>1 DEF Induction
<1>4. PICK f : Def(f, n)
  BY <1>3
<1> DEFINE iter == CHOOSE f_1 : Def(f_1, n)
<1>5. Def(iter, n)
  BY <1>4
<1>6. Fold(a, b, c, d, base, seq) = iter[1 .. n]
  BY DEF Fold
<1> DEFINE g == [k \in 0 .. n |-> iter[1 .. k]]
<1> HIDE DEF iter
<1>7. \A s \in SUBSET (1 .. n) : iter[s] = E(iter, s)
  <2> HIDE DEF E
  <2>1. QED BY <1>5
<1>8. g[0] = base
  <2>1. {} \in SUBSET (1 .. n) /\ 1 .. 0 = {} /\ 0 \in 0 .. n
    OBVIOUS
  <2>2. iter[{}] = E(iter, {})
    BY <1>7, <2>1
  <2>3. QED BY <2>1, <2>2
<1>9. ASSUME NEW k \in 1 .. n PROVE g[k] = Op(a, b, c, d, g[k - 1], seq[k])
  <2>1. 1 .. k \in SUBSET (1 .. n) /\ k \in 1 .. k
    OBVIOUS
  <2>2. k \in 0 .. n /\ k - 1 \in 0 .. n /\ k - 1 \in Nat /\ (k - 1) + 1 = k
    OBVIOUS
  <2>3. Last(1 .. k) = k
    <3>1. 1 .. k \in SUBSET (1 .. ((k - 1) + 1)) /\ (k - 1) + 1 \in 1 .. k
      BY <2>1, <2>2
    <3>2. Last(1 .. k) = (k - 1) + 1
      BY <2>2, <3>1, LastOfMore
    <3>3. QED BY <2>2, <3>2
  <2>4. (1 .. k) \ {k} = 1 .. (k - 1)
    OBVIOUS
  <2>5. iter[1 .. k] = E(iter, 1 .. k)
    BY <1>7, <2>1
  <2>6. g[k] = iter[1 .. k] /\ g[k - 1] = iter[1 .. (k - 1)]
    BY <2>2
  <2>7. E(iter, 1 .. k) = Op(a, b, c, d, iter[1 .. (k - 1)], seq[k])
    BY <2>1, <2>3, <2>4
  <2>8. QED BY <2>5, <2>6, <2>7
<1>10. g[n] = iter[1 .. n]
  OBVIOUS
<1> HIDE DEF g
<1>11. Passes(a, b, c, d, base, seq, n, g)
  BY <1>8, <1>9 DEF Passes
<1>12. QED BY <1>6, <1>10, <1>11
================================================================================
