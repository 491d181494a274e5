------------------------------- MODULE Accessors -------------------------------
(***************************************************************************)
(* How an access of 1, 2, 4 or 8 bytes at any address becomes accesses of  *)
(* whole rows: read_direct and write_direct of address_space_specific      *)
(* (source/emucore/memory/address_space_specific.h).  Lanes of the target  *)
(* type, like those of a row, are numbered from the least significant      *)
(* byte.  A native access has its row, the lanes of its mask (curmask) and *)
(* the shift that takes a lane of the target to a lane of the row; an      *)
(* access a has its bytes, whether the caller promises alignment, its      *)
(* address and the lanes of its mask.                                      *)
(***************************************************************************)
EXTENDS HandlerUnits

(* read_byte to write_qword_unaligned, with a mask or the whole of it.     *)
IsAccess(a) ==
  /\ a.bytes \in {1, 2, 4, 8}
  /\ a.mask \subseteq 0 .. (a.bytes - 1) /\ a.mask # {}
  /\ a.aligned => a.address % a.bytes = 0
  /\ a.bytes = 1 => a.aligned

(* The native access of one row; the address wraps at the end of the space.*)
Native(row, shift, mask) ==
  [row   |-> row % Cardinality(Rows),
   shift |-> shift,
   lanes |-> {t + shift : t \in mask} \cap AllLanes]

Touching(natives) == Keep(natives, {n \in ToSet(natives) : n.lanes # {}})

(* The native access is as wide as the target, or wider and around it:     *)
(* made whatever the mask.                                                 *)
FitsOneRow(a) ==
  \/ a.bytes <= W /\ a.aligned
  \/ a.bytes = W /\ a.address % W = 0
  \/ a.bytes < W /\ (a.address % W) + a.bytes <= W

OneRowAccess(a) ==
  LET from == IF a.aligned THEN (a.address % W) - (a.address % a.bytes) ELSE a.address % W
  IN  <<Native(Row(a.address), IF big THEN W - a.bytes - from ELSE from, a.mask)>>

(* Mutant: the second row is reached with the shift of a wider target.     *)
TwoRowsUnjustified(a) ==
  LET from  == a.address % W
      first == IF big THEN 0 - from ELSE from
  IN  Touching(<<Native(Row(a.address), first, a.mask),
                 Native(Row(a.address) + 1, IF big THEN first + W ELSE first - W, a.mask)>>)

(* A target no wider than a row lies in two of them.  The most significant *)
(* byte is at the lowest address in a big endian space: the target is      *)
(* justified to the left of the native type first.                         *)
TwoRows(a) ==
  LET from  == a.address % W
      first == IF big THEN (W - a.bytes) - from ELSE from
  IN  Touching(<<Native(Row(a.address), first, a.mask),
                 Native(Row(a.address) + 1, IF big THEN first + W ELSE first - W, a.mask)>>)

(* A wider target: one row after the other, and what is left of the last   *)
(* one unless the caller promised that nothing is.                         *)
ManyRows(a) ==
  LET from   == a.address % W
      first  == IF big THEN 0 - (a.bytes - (W - from)) ELSE from
      step   == IF big THEN W ELSE 0 - W
      splits == a.bytes \div W
      last   == IF ~a.aligned /\ from # 0 THEN splits ELSE splits - 1
  IN  Touching([k \in 1 .. (last + 1) |->
                  Native(Row(a.address) + k - 1, first + (k - 1) * step, a.mask)])

read_direct(a) ==
  CASE FitsOneRow(a) -> OneRowAccess(a)
  []   ~FitsOneRow(a) /\ a.bytes <= W -> TwoRows(a)
  []   OTHER -> ManyRows(a)

(* A write makes the same native accesses: mask and data are shifted alike.*)
write_direct(a) == read_direct(a)

(* set_address, which announces an access: the row of the address.         *)
set_address(u, address) ==
  LET row == Row(address)
  IN  {c[2] : c \in CallsOf(u.handlers[u.entry[row]], row, AllLanes)}

---------------------------------------------------------------------------------
(* What the accessors promise.                                             *)

ByteOf(a, t)      == (a.address + (IF big THEN a.bytes - 1 - t ELSE t)) % 2^AddrBits
ByteOfLane(n, l)  == n.row * W + (IF big THEN W - 1 - l ELSE l)
Feeds(n, t)       == t + n.shift \in AllLanes

(* The bytes asked for, each in its place and once, and no other: nothing  *)
(* is read twice (a read has side effects), nothing but the masked bytes   *)
(* is written, and no two rows are merged into one byte of the result.     *)
SplitsExactly(a, natives) ==
  /\ \A t \in 0 .. (a.bytes - 1) :
       LET of == {k \in DOMAIN natives : Feeds(natives[k], t)}
       IN  /\ Cardinality(of) <= 1
           /\ t \in a.mask =>
                \E k \in of : /\ t + natives[k].shift \in natives[k].lanes
                              /\ ByteOfLane(natives[k], t + natives[k].shift) = ByteOf(a, t)
  /\ \A k \in DOMAIN natives : \A l \in natives[k].lanes : l - natives[k].shift \in a.mask
================================================================================
