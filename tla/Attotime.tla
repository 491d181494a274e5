-------------------------------- MODULE Attotime --------------------------------
(***************************************************************************)
(* class attotime of source/core/attotime.h and attotime.cpp: times of 32  *)
(* bits of seconds and 64 bits of attoseconds, computed with the 32 and 64 *)
(* bit operations of fastmath.h.  The operators are the code's; the small  *)
(* machine at the end runs them one after the other on a time.             *)
(***************************************************************************)
EXTENDS Integers

CONSTANTS
  Root,        \* ATTOSECONDS_PER_SECOND_SQRT, 10^9 in the code
  MaxSeconds,  \* ATTOTIME_MAX_SECONDS, 10^9
  Span         \* 2^32

ASSUME AttotimeAssumption ==
  /\ {Root, MaxSeconds, Span} \subseteq Nat \ {0}
  /\ 1 < Root /\ Root <= MaxSeconds /\ 4 * MaxSeconds <= Span

PerSecond == Root * Root

Time(s, a) == [seconds |-> s, attoseconds |-> a]
zero  == Time(0, 0)
never == Time(MaxSeconds, 0)

IsNever(t) == t.seconds >= MaxSeconds

U32(x) == x % Span
U64(x) == x % (Span * Span)

---------------------------------------------------------------------------------
(* operator+ and operator-.                                                *)

Plus(l, r) ==
  LET a     == l.attoseconds + r.attoseconds
      carry == IF a >= PerSecond THEN 1 ELSE 0
      s     == l.seconds + r.seconds + carry
  IN  IF IsNever(l) \/ IsNever(r) \/ s >= MaxSeconds THEN never
      ELSE Time(s, a - carry * PerSecond)

Minus(l, r) ==
  LET a      == l.attoseconds - r.attoseconds
      borrow == IF a < 0 THEN 1 ELSE 0
  IN  IF IsNever(l) THEN never
      ELSE Time(l.seconds - r.seconds - borrow, a + borrow * PerSecond)

(* operator*=: the halves of the attoseconds, low to high, then the        *)
(* seconds, each with the carry of the one before.                         *)

(* Mutant: the carry out of the low half is lost.                          *)
MultiplyNoCarry(t, factor) ==
  LET low  == U64((t.attoseconds % Root) * factor)
      high == U64((t.attoseconds \div Root) * factor)
      secs == U64(high \div Root + U32(t.seconds) * factor)
  IN  IF IsNever(t) \/ (factor > 0 /\ secs >= MaxSeconds) THEN never
      ELSE IF factor = 0 THEN zero
      ELSE Time(secs, (low % Root) + (high % Root) * Root)

Multiply(t, factor) ==
  LET low  == U64((t.attoseconds % Root) * factor)
      high == U64(low \div Root + (t.attoseconds \div Root) * factor)
      secs == U64(high \div Root + U32(t.seconds) * factor)
  IN  IF IsNever(t) \/ (factor > 0 /\ secs >= MaxSeconds) THEN never
      ELSE IF factor = 0 THEN zero
      ELSE Time(secs, (low % Root) + (high % Root) * Root)

(* operator/=: the seconds, then the halves of the attoseconds, each with  *)
(* the remainder of the one before; then rounding.                         *)

Divide(t, factor) ==
  LET high == U64(t.attoseconds \div Root + (t.seconds % factor) * Root)
      low  == U64((t.attoseconds % Root) + (high % factor) * Root)
      up   == IF low % factor >= factor \div 2 THEN 1 ELSE 0
      a    == U32(low \div factor) + U32(high \div factor) * Root + up
      over == IF up = 1 /\ a >= PerSecond THEN 1 ELSE 0
  IN  IF IsNever(t) THEN never
      ELSE IF factor = 0 THEN t
      ELSE Time(t.seconds \div factor + over, IF over = 1 THEN 0 ELSE a)

(* as_ticks and from_ticks.                                                *)
as_ticks(t, frequency) ==
  U32(t.seconds) * frequency + U32(Multiply(Time(0, t.attoseconds), frequency).seconds)

from_ticks(ticks, frequency) ==
  Time(ticks \div frequency, (ticks % frequency) * (PerSecond \div frequency))

---------------------------------------------------------------------------------
(* Operations one after the other on a time.  Factors are 32 bits wide;    *)
(* the other operand is any time of at most two seconds.                   *)
CONSTANTS Factors, Operands, Depth    \* seconds below zero at most, a bound
VARIABLE time

ASSUME OperandsAssumption ==
  /\ Factors \subseteq 0 .. (Span - 1) /\ Depth \in 0 .. MaxSeconds
  /\ Operands \subseteq [seconds : 0 .. MaxSeconds, attoseconds : 0 .. (PerSecond - 1)]

TimeInit == time = zero

Add      == \E r \in Operands : time' = Plus(time, r)
Subtract == \E r \in Operands : /\ time.seconds > -Depth
                                /\ time' = Minus(time, r)
Scale    == \E f \in Factors : time' = Multiply(time, f)

(* The quotient of a negative time depends on the build: an exception of   *)
(* the processor, or a quotient cut to 32 bits.                            *)
Share    == \E f \in Factors : time.seconds >= 0 /\ time' = Divide(time, f)

TimeNext == Add \/ Subtract \/ Scale \/ Share

TimeSpec == TimeInit /\ [][TimeNext]_time

---------------------------------------------------------------------------------
(* What a time stands for, in attoseconds.                                 *)
Value(t) == t.seconds * PerSecond + t.attoseconds

Normal(t) ==
  t.seconds \in Int /\ t.seconds <= MaxSeconds /\ t.attoseconds \in 0 .. (PerSecond - 1)

(* Sums and products are exact up to the maximum, where they are never; a  *)
(* time that was subtracted from comes back when the same is added.  A     *)
(* time below zero has no products: its seconds are taken without their    *)
(* sign (attotime.cpp:66), and any factor makes it never.                  *)
Clamp(v) == IF v >= MaxSeconds * PerSecond THEN never ELSE Time(v \div PerSecond, v % PerSecond)

SumsAreExact ==
  \A r \in Operands :
    IF IsNever(time) \/ IsNever(r) THEN Plus(time, r) = never
    ELSE /\ Plus(time, r) = Clamp(Value(time) + Value(r))
         /\ Plus(Minus(time, r), r) = time

ProductIsExact(f) ==
  Multiply(time, f) = IF time.seconds < 0 /\ f # 0 THEN never ELSE Clamp(Value(time) * f)

(* A quotient is off by an attosecond at most.                             *)
QuotientIsClose(f) ==
  LET q == Divide(time, f)
  IN  Normal(q) /\ Value(q) * f - Value(time) \in -f .. f

(* The ticks of a time are the whole ones in it, for a frequency of at     *)
(* most MaxSeconds: above, the ticks of a fraction can reach never and are *)
(* cut.  For a frequency of at most Root they become a time and then ticks *)
(* again, the same or one less.                                            *)
TicksComeBack(f) ==
  LET n == as_ticks(time, f)
  IN  /\ f <= MaxSeconds => n = (Value(time) * f) \div PerSecond
      /\ f <= Root => n - as_ticks(from_ticks(n, f), f) \in {0, 1}

(* Whatever operations follow each other, a time stays normalised, so that *)
(* comparing two times compares their parts, and the next result is right. *)
ResultsAreExact ==
  /\ Normal(time) /\ (IsNever(time) => time = never)
  /\ SumsAreExact
  /\ ~IsNever(time) =>
       \A f \in Factors :
         /\ ProductIsExact(f)
         /\ time.seconds >= 0 /\ f # 0 => QuotientIsClose(f) /\ TicksComeBack(f)
=================================================================================
