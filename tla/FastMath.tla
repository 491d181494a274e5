-------------------------------- MODULE FastMath --------------------------------
(***************************************************************************)
(* The arithmetic of source/core/fastmath.h as it is without assembler:    *)
(* C++ on words of Bits bits (32 in the code) and on double words.         *)
(* Numbers are what they stand for, signed or not; a conversion to a       *)
(* narrower type keeps the low bits.                                       *)
(***************************************************************************)
EXTENDS Integers, Bitwise

CONSTANTS
  Bits,            \* of a word, 32
  PopulationBits   \* the same where bits are counted, whole bytes

Word == 2 ^ Bits

Unsigned(x) == x % Word
Signed(x)   == IF x % Word >= Word \div 2 THEN (x % Word) - Word ELSE x % Word

(* Division in C++ cuts towards zero.                                      *)
Abs(x)     == IF x < 0 THEN -x ELSE x
Quot(a, b) == IF (a < 0) = (b < 0) THEN Abs(a) \div Abs(b) ELSE -(Abs(a) \div Abs(b))

mul_32x32(a, b)            == a * b
mulu_32x32(a, b)           == a * b
mul_32x32_hi(a, b)         == Signed((a * b) \div Word)
mulu_32x32_hi(a, b)        == Unsigned((a * b) \div Word)
mul_32x32_shift(a, b, n)   == Signed((a * b) \div 2 ^ n)
mulu_32x32_shift(a, b, n)  == Unsigned((a * b) \div 2 ^ n)

div_64x32(a, b)            == Signed(Quot(a, b))
divu_64x32(a, b)           == Unsigned(a \div b)

(* The quotient and, from it, the remainder; both keep their low bits.     *)
div_64x32_rem(a, b)        == <<div_64x32(a, b), Signed(a - b * div_64x32(a, b))>>
divu_64x32_rem(a, b)       == <<divu_64x32(a, b), Unsigned(a - b * divu_64x32(a, b))>>
div_32x32_shift(a, b, n)   == Signed(Quot(a * 2 ^ n, b))
divu_32x32_shift(a, b, n)  == Unsigned((a * 2 ^ n) \div b)

mod_64x32(a, b)            == Signed(a - Signed(b * div_64x32(a, b)))
modu_64x32(a, b)           == Unsigned(a - Unsigned(b * divu_64x32(a, b)))

(* Shifted left until the top bit is set, or clear.  Without any bit to    *)
(* find the first loop does not end.                                       *)
Endless == -1

count_leading_zeros(v) ==
  LET ends == {n \in 0 .. (Bits - 1) : Unsigned(v * 2 ^ n) >= Word \div 2}
  IN  IF ends = {} THEN Endless ELSE CHOOSE n \in ends : \A m \in ends : n <= m

count_leading_ones(v) ==
  LET ends == {n \in 0 .. Bits : Unsigned(v * 2 ^ n) < Word \div 2}
  IN  CHOOSE n \in ends : \A m \in ends : n <= m

(* Pairs of bits, then fours, then bytes, which the multiplication adds up *)
(* in the top one.                                                         *)
Repeated(pattern, size, width) == pattern * ((2 ^ width - 1) \div (2 ^ size - 1))

Hamming(v, width) ==
  LET two   == v - ((v \div 2) & Repeated(1, 2, width))
      fours == (two & Repeated(3, 4, width)) + ((two \div 4) & Repeated(3, 4, width))
      byte  == (fours + (fours \div 16)) & Repeated(15, 8, width)
  IN  ((byte * Repeated(1, 8, width)) % 2 ^ width) \div 2 ^ (width - 8)

(* Their words have their own size; the larger one is counted at once or   *)
(* in halves, as pointers are of 64 bits or not.                           *)
population_count_32(v) == Hamming(v, PopulationBits)

population_count_64(v, wide) ==
  IF wide THEN Hamming(v, 2 * PopulationBits)
  ELSE population_count_32(v % 2 ^ PopulationBits) + population_count_32(v \div 2 ^ PopulationBits)
=================================================================================
