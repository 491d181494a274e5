------------------------------ MODULE AddressBits ------------------------------
(***************************************************************************)
(* Addresses, mirrors and ranges of an address space, as the memory system *)
(* of source/emucore/memory/emumem.cpp handles them.  An address is a      *)
(* number of AddrBits bits; a mirror (addrmirror in the code, an integer   *)
(* used as a bit mask) is the set of the bit positions it has set.         *)
(***************************************************************************)
EXTENDS Naturals, FiniteSets, FiniteSetsExt

CONSTANT AddrBits      \* width of the address bus (m_addrmask has these bits)

ASSUME AddrBitsAssumption == AddrBits \in Nat \ {0}

Bits      == 0 .. (AddrBits - 1)
Addresses == 0 .. (2^AddrBits - 1)

(* The bit positions set in an address, and the address with bits B set:   *)
(* the greatest that has no other.                                         *)
SetBits(a) == {k \in Bits : (a \div 2^k) % 2 = 1}
ValueOf(B) == Max({a \in Addresses : SetBits(a) \subseteq B})

(* The bits the range may change, rounded up to 2^n - 1: every bit up to   *)
(* the highest one in which its two ends differ.                           *)
ChangingBits(start, end) ==
  LET diff == {k \in Bits : (k \in SetBits(start)) # (k \in SetBits(end))}
  IN  {k \in Bits : \E d \in diff : k <= d}

(* A request the space accepts; every other one ends in fatalerror.        *)
ValidRequest(r) ==
  /\ r.start <= r.end
  /\ r.mirror \cap ChangingBits(r.start, r.end) = {}
  /\ r.mirror \cap (SetBits(r.start) \cup SetBits(r.end)) = {}

Requests == {r \in [start : Addresses, end : Addresses, mirror : SUBSET Bits] :
               ValidRequest(r)}

(* A range that covers a whole power-of-two zone swallows the mirror bits  *)
(* just above it: the end is pushed and the bits leave the mirror.         *)
OptimizeMirror(r) ==
  LET changing == ChangingBits(r.start, r.end)
      low      == Cardinality(changing)
      run      == {k \in r.mirror : low .. k \subseteq r.mirror}
      whole    == /\ SetBits(r.start) \cap changing = {}
                  /\ changing \subseteq SetBits(r.end)
  IN  IF whole THEN [start  |-> r.start,
                     end    |-> ValueOf(SetBits(r.end) \cup run),
                     mirror |-> r.mirror \ run]
               ELSE r

(* What a request means: the addresses that fall in start..end once the    *)
(* mirror bits are ignored.                                                *)
Selected(r) ==
  {x \in Addresses : ValueOf(SetBits(x) \ r.mirror) \in r.start .. r.end}

================================================================================
