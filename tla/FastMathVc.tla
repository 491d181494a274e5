------------------------------- MODULE FastMathVc -------------------------------
(***************************************************************************)
(* The assembler of source/core/fastmath_vcx86.h, for 32-bit processors,   *)
(* and the intrinsics of fastmath_vc.h.  A dividend is put into the        *)
(* registers as its low and its high half.                                 *)
(***************************************************************************)
EXTENDS Instructions

mul_32x32(a, b)           == LET p == imull(a, b) IN Sign(p.edx) * Word + p.eax
mulu_32x32(a, b)          == LET p == mull(a, b) IN p.edx * Word + p.eax
mul_32x32_hi(a, b)        == AsInt(imull(a, b).edx)
mulu_32x32_hi(a, b)       == mull(a, b).edx
mul_32x32_shift(a, b, n)  == AsInt(shrdl(n, imull(a, b)).eax)
mulu_32x32_shift(a, b, n) == shrdl(n, mull(a, b)).eax

div_64x32(a, b)           == AsInt(idivl(Pair(a), b).eax)
divu_64x32(a, b)          == divl(Pair(a), b).eax
div_64x32_rem(a, b)       == LET p == idivl(Pair(a), b) IN <<AsInt(p.eax), AsInt(p.edx)>>
divu_64x32_rem(a, b)      == LET p == divl(Pair(a), b) IN <<p.eax, p.edx>>
div_32x32_shift(a, b, n)  == AsInt(idivl(shll(n, shldl(n, cdq(a))), b).eax)
divu_32x32_shift(a, b, n) == divl(shll(n, shldl(n, [edx |-> 0, eax |-> Bit(a)])), b).eax
mod_64x32(a, b)           == AsInt(idivl(Pair(a), b).edx)
modu_64x32(a, b)          == divl(Pair(a), b).edx

(* _BitScanReverse says whether there is a bit.                            *)
count_leading_zeros(v)    ==
  LET b == bsrl(v) IN IF ~b.zero THEN (Bits - 1) - b.index ELSE Bits
count_leading_ones(v)     ==
  LET b == bsrl((Word - 1) - v) IN IF ~b.zero THEN (Bits - 1) - b.index ELSE Bits
=================================================================================
