------------------------------- MODULE FastMathGcc -------------------------------
(***************************************************************************)
(* The assembler of source/core/fastmath_gccx86.h.  All of it is compiled  *)
(* for 32-bit processors; for 64-bit ones the high halves of products, the *)
(* divisions with remainder and the counts, the rest being FastMath's.     *)
(***************************************************************************)
EXTENDS Instructions

Value(p)  == Sign(p.edx) * Word + p.eax
UValue(p) == p.edx * Word + p.eax

mul_32x32(a, b)           == Value(imull(a, b))
mulu_32x32(a, b)          == UValue(mull(a, b))
mul_32x32_hi(a, b)        == AsInt(imull(a, b).edx)
mulu_32x32_hi(a, b)       == mull(a, b).edx
mul_32x32_shift(a, b, n)  == AsInt(shrdl(n, imull(a, b)).eax)
mulu_32x32_shift(a, b, n) == shrdl(n, mull(a, b)).eax

div_64x32(a, b)           == AsInt(idivl(Pair(a), b).eax)
divu_64x32(a, b)          == divl(Pair(a), b).eax
div_64x32_rem(a, b)       == LET p == idivl(Pair(a), b) IN <<AsInt(p.eax), AsInt(p.edx)>>
divu_64x32_rem(a, b)      == LET p == divl(Pair(a), b) IN <<p.eax, p.edx>>
div_32x32_shift(a, b, n)  == AsInt(idivl(shll(n, shldl(n, cdq(a))), b).eax)
divu_32x32_shift(a, b, n) == divl(shll(n, shldl(n, [edx |-> 0, eax |-> Bit(a)])), b).eax
mod_64x32(a, b)           == AsInt(idivl(Pair(a), b).edx)
modu_64x32(a, b)          == divl(Pair(a), b).edx

(* cmovz puts all ones where there is no bit to find.                      *)
Found(b) == IF b.zero THEN Word - 1 ELSE b.index

(* Mutant: without a bit to find the register is 0.                        *)
LeadingZerosNoBias(v)     == Bit((Bits - 1) - bsrl(v).index)

count_leading_zeros(v)    == Bit((Bits - 1) - Found(bsrl(v)))
count_leading_ones(v)     == Bit((Bits - 1) - Found(bsrl((Word - 1) - v)))
=================================================================================
