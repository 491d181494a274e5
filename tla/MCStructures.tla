------------------------------ MODULE MCStructures ------------------------------
(* Instances for TLC of what the core is built with: two lists and a pool  *)
(* of four objects, a cache of two out of four keys, a ring of three       *)
(* places, hierarchies of up to five devices, the arithmetic of words of   *)
(* four bits, times of up to eight seconds of 36 attoseconds with every    *)
(* factor below Span, and a chain of three devices with clocks of three    *)
(* hertz or of three halves of the owner's, whose product can be too much  *)
(* for Modulus.  `part' is what a behaviour is about.                      *)
EXTENDS SimpleList, LruCache, Fifo, DeviceTree, BuildsOfFastMath, Attotime, DeviceClock

CONSTANTS o1, o2, o3, o4, l1, l2, v1, v2

VARIABLE part

FourObjects == {o1, o2, o3, o4}
ThreeLists  == {l1, l2, Pool}
TwoValues   == {v1, v2}
FourKeys    == 1 .. 4

TwoNames == {"a", "b"}
OneNamed == {"b"}
SomeTags ==
  {<<>>, <<"a">>, <<Colon>>, <<Colon, "a">>, <<Caret>>, <<Caret, "a">>, <<Caret, Caret, "b">>,
   <<"a", Colon, "b">>, <<"a", Colon>>, <<"b", Colon, Caret, "a">>, <<Colon, "a", Colon, "a">>}
SomeDepths == {0, 1, 2, 255}

AllFactors == 0 .. (Span - 1)
ShortTimes == {Time(s, a) : s \in 0 .. 2, a \in {0, 1, Root - 1, Root, PerSecond - 1}} \cup {never}

Chain          == [d \in Devices |-> IF d = 1 THEN None ELSE d - 1]
SomeClocks     == {Hz(3), DerivedClock(3, 2)}
OneAndHalfMore == {<<1, 1>>, <<3, 2>>}
SomeTicks      == {0, 1, 2, 3, 6, 7, 11, 12, 23, 24, 25, 48, 49, 100}

Init ==
  /\ part \in {"list", "cache", "fifo", "tree", "math", "time", "clock"}
  /\ ListInit /\ CacheInit /\ FifoInit /\ TreeInit /\ MathInit /\ TimeInit
  /\ part # "fifo" => ~wraps.write /\ ~wraps.read /\ slots[0] = v1
  /\ part # "math" => y = 0 /\ shift = 0
  /\ ClockInit
  /\ part # "clock" => \A d \in Devices : configured[d] = Hz(3)

Next ==
  \/ part = "list"  /\ ListNext
       /\ UNCHANGED <<part, time, cacheVars, fifoVars, treeVars, mathVars, clockVars>>
  \/ part = "cache" /\ CacheNext
       /\ UNCHANGED <<part, time, listVars, fifoVars, treeVars, mathVars, clockVars>>
  \/ part = "fifo"  /\ FifoNext
       /\ UNCHANGED <<part, time, listVars, cacheVars, treeVars, mathVars, clockVars>>
  \/ part = "tree"  /\ TreeNext
       /\ UNCHANGED <<part, time, listVars, cacheVars, fifoVars, mathVars, clockVars>>
  \/ part = "math"  /\ MathNext
       /\ UNCHANGED <<part, time, listVars, cacheVars, fifoVars, treeVars, clockVars>>
  \/ part = "time"  /\ TimeNext
       /\ UNCHANGED <<part, listVars, cacheVars, fifoVars, treeVars, mathVars, clockVars>>
  \/ part = "clock" /\ ClockNext
       /\ UNCHANGED <<part, time, listVars, cacheVars, fifoVars, treeVars, mathVars>>

Spec ==
  Init /\ [][Next]_<<part, time, listVars, cacheVars, fifoVars, treeVars, mathVars, clockVars>>
=================================================================================
