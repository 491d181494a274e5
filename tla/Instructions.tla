------------------------------ MODULE Instructions ------------------------------
(***************************************************************************)
(* The instructions of the x86 processors that the assembler in            *)
(* fastmath_gccx86.h and fastmath_vcx86.h is made of, outside the          *)
(* repository.  A word is an unsigned number; a pair of them, edx and eax, *)
(* is a double word.                                                       *)
(***************************************************************************)
EXTENDS Integers

CONSTANT Bits    \* of a word

Word     == 2 ^ Bits
Bit(x)   == x % Word
Sign(x)  == IF Bit(x) >= Word \div 2 THEN Bit(x) - Word ELSE Bit(x)
Pair(v)  == [edx |-> Bit(v \div Word), eax |-> Bit(v)]

(* A division whose quotient does not fit, or by zero, is an exception.    *)
Refused == Word    \* in place of a word
Trap    == [edx |-> Refused, eax |-> Refused]

mull(eax, src)  == Pair(Bit(eax) * Bit(src))
imull(eax, src) == Pair(Sign(eax) * Sign(src))
cdq(eax)        == Pair(Sign(eax))

divl(p, src) ==
  LET v == p.edx * Word + p.eax
  IN  IF Bit(src) = 0 \/ v \div Bit(src) >= Word THEN Trap
      ELSE [edx |-> v % Bit(src), eax |-> v \div Bit(src)]

idivl(p, src) ==
  LET v == Sign(p.edx) * Word + p.eax
      d == Sign(src)
      size(x) == IF x < 0 THEN -x ELSE x
      q == IF (v < 0) = (d < 0) THEN size(v) \div size(d) ELSE -(size(v) \div size(d))
  IN  IF d = 0 \/ Sign(q) # q THEN Trap ELSE [edx |-> Bit(v - q * d), eax |-> Bit(q)]

(* The count is taken modulo the size of a word.                           *)
shrdl(n, p) == [p EXCEPT !.eax = Bit((p.edx * Word + p.eax) \div 2 ^ (n % Bits))]
shldl(n, p) == [p EXCEPT !.edx = Bit(((p.edx * Word + p.eax) * 2 ^ (n % Bits)) \div Word)]
shll(n, p)  == [p EXCEPT !.eax = Bit(p.eax * 2 ^ (n % Bits))]

(* The highest bit that is set, and whether there is none.                 *)
bsrl(v) ==
  LET bits == {n \in 0 .. (Bits - 1) : (Bit(v) \div 2 ^ n) % 2 = 1}
  IN  [index |-> CHOOSE n \in bits \cup {0} : \A m \in bits : m <= n, zero |-> bits = {}]

(* A register as a signed number, unless there was an exception.           *)
AsInt(r) == IF r = Refused THEN Refused ELSE Sign(r)
=================================================================================
