---------------------------- MODULE BuildsOfFastMath ----------------------------
(***************************************************************************)
(* The implementations of fastmath.h beside one another.  A build takes    *)
(* each function from one of them; which one depends on the compiler and   *)
(* on the processor.                                                       *)
(***************************************************************************)
EXTENDS Integers, FiniteSets

CONSTANTS
  Bits,            \* of a word, 32
  PopulationBits   \* the same where bits are counted, whole bytes

ASSUME FastMathAssumption == Bits \in Nat \ {0} /\ PopulationBits \in {8 * n : n \in 1 .. 4}

Plain == INSTANCE FastMath
Gcc   == INSTANCE FastMathGcc
Vc    == INSTANCE FastMathVc

WordSize == 2 ^ Bits

(* The operands, as words or double words without a sign: a double word, a *)
(* word and a shift, which is valid from 0 to Bits - 1.  They are tried    *)
(* one after the other.                                                    *)
VARIABLES x, y, shift

mathVars == <<x, y, shift>>

MathInit == x = 0 /\ y \in 0 .. (WordSize - 1) /\ shift \in 0 .. (Bits - 1)
MathNext == x < WordSize * WordSize - 1 /\ x' = x + 1 /\ UNCHANGED <<y, shift>>

SignedLong(v) == IF v >= (WordSize * WordSize) \div 2 THEN v - WordSize * WordSize ELSE v

---------------------------------------------------------------------------------
(* The same in all builds; for a division, if the quotient fits in a word. *)
Same(P(_), G(_), V(_), v)              == G(v) = P(v) /\ V(v) = P(v)
Same2(P(_, _), G(_, _), V(_, _), a, b) == G(a, b) = P(a, b) /\ V(a, b) = P(a, b)
Same3(P(_, _, _), G(_, _, _), V(_, _, _), a, b, n) ==
  G(a, b, n) = P(a, b, n) /\ V(a, b, n) = P(a, b, n)

Unless(fits, G, V, trap, same) == IF fits THEN same ELSE G = trap /\ V = trap

Refused == WordSize
Divides(P(_, _), G(_, _), V(_, _), a, b, fits) ==
  Unless(fits, G(a, b), V(a, b), Refused, Same2(P, G, V, a, b))
DividesRem(P(_, _), G(_, _), V(_, _), a, b, fits) ==
  Unless(fits, G(a, b), V(a, b), <<Refused, Refused>>, Same2(P, G, V, a, b))
DividesShift(P(_, _, _), G(_, _, _), V(_, _, _), a, b, n, fits) ==
  Unless(fits, G(a, b, n), V(a, b, n), Refused, Same3(P, G, V, a, b, n))

Fits(q)  == q \in -(WordSize \div 2) .. ((WordSize \div 2) - 1)
UFits(q) == q < WordSize

(* The same results, but for a quotient of more than a word, where the     *)
(* assembler "throws arithmetic exception" and C++ cuts it.  Dividing by   *)
(* zero, and counting the leading zeros of zero, have no result in C++.    *)
SameResults ==
  LET a == Plain!Signed(x)
      b == Plain!Signed(y)
      u == Plain!Unsigned(x)
      long == SignedLong(x)
  IN  /\ Same2(Plain!mul_32x32, Gcc!mul_32x32, Vc!mul_32x32, a, b)
      /\ Same2(Plain!mulu_32x32, Gcc!mulu_32x32, Vc!mulu_32x32, u, y)
      /\ Same2(Plain!mul_32x32_hi, Gcc!mul_32x32_hi, Vc!mul_32x32_hi, a, b)
      /\ Same2(Plain!mulu_32x32_hi, Gcc!mulu_32x32_hi, Vc!mulu_32x32_hi, u, y)
      /\ Same3(Plain!mul_32x32_shift, Gcc!mul_32x32_shift, Vc!mul_32x32_shift, a, b, shift)
      /\ Same3(Plain!mulu_32x32_shift, Gcc!mulu_32x32_shift, Vc!mulu_32x32_shift, u, y, shift)
      /\ u # 0 => Same(Plain!count_leading_zeros, Gcc!count_leading_zeros, Vc!count_leading_zeros, u)
      /\ Gcc!count_leading_zeros(u) = Vc!count_leading_zeros(u)
      /\ Same(Plain!count_leading_ones, Gcc!count_leading_ones, Vc!count_leading_ones, u)
      /\ b # 0 =>
           LET fits  == Fits(Plain!Quot(long, b))
               ufits == UFits(x \div y)
           IN  /\ Divides(Plain!div_64x32, Gcc!div_64x32, Vc!div_64x32, long, b, fits)
               /\ Divides(Plain!divu_64x32, Gcc!divu_64x32, Vc!divu_64x32, x, y, ufits)
               /\ DividesRem(Plain!div_64x32_rem, Gcc!div_64x32_rem, Vc!div_64x32_rem, long, b, fits)
               /\ DividesRem(Plain!divu_64x32_rem, Gcc!divu_64x32_rem, Vc!divu_64x32_rem, x, y, ufits)
               /\ Divides(Plain!mod_64x32, Gcc!mod_64x32, Vc!mod_64x32, long, b, fits)
               /\ Divides(Plain!modu_64x32, Gcc!modu_64x32, Vc!modu_64x32, x, y, ufits)
               /\ DividesShift(Plain!div_32x32_shift, Gcc!div_32x32_shift, Vc!div_32x32_shift,
                               a, b, shift, Fits(Plain!Quot(a * 2 ^ shift, b)))
               /\ DividesShift(Plain!divu_32x32_shift, Gcc!divu_32x32_shift, Vc!divu_32x32_shift,
                               u, y, shift, UFits((u * 2 ^ shift) \div y))

(* In C++ a remainder is right even when the quotient is not: adding the   *)
(* quotient times the divisor gives the dividend back, and what is left is *)
(* smaller than the divisor and has the sign of the dividend.              *)
RemaindersAreRight ==
  LET b    == Plain!Signed(y)
      long == SignedLong(x)
      Left(r) == /\ Plain!Abs(r) < Plain!Abs(b) /\ (r # 0 => (r < 0 <=> long < 0))
                 /\ (long - r) % Plain!Abs(b) = 0
  IN  b # 0 =>
        /\ Left(Plain!mod_64x32(long, b)) /\ Plain!modu_64x32(x, y) = x % y
        /\ Plain!div_64x32_rem(long, b)[2] = Plain!mod_64x32(long, b)
        /\ LET r == Plain!divu_64x32_rem(x, y) IN (r[1] * y + r[2]) % WordSize = x % WordSize /\ r[2] < y
        /\ Fits(Plain!Quot(long, b)) =>
             LET r == Plain!div_64x32_rem(long, b) IN r[1] * b + r[2] = long

(* The counts are those of the bits.                                       *)
CountsAreRight ==
  LET Ones(v, width) == Cardinality({n \in 0 .. (width - 1) : (v \div 2 ^ n) % 2 = 1})
      u    == x % WordSize
      some == (x * WordSize + y) % 2 ^ (2 * PopulationBits)
      lead(c) == u \div 2 ^ (Bits - c)
  IN  /\ \A wide \in BOOLEAN : Plain!population_count_64(some, wide) = Ones(some, 2 * PopulationBits)
      /\ LET c == Plain!count_leading_ones(u)
         IN  lead(c) = 2 ^ c - 1 /\ (c < Bits => lead(c + 1) = 2 * lead(c))
      /\ u # 0 => LET c == Plain!count_leading_zeros(u) IN lead(c) = 0 /\ lead(c + 1) = 1

(* Whatever the operands, each function of fastmath.h gives the same in    *)
(* all builds, and the results are right.                                  *)
BuildsAgree == SameResults /\ RemaindersAreRight /\ CountsAreRight
=================================================================================
