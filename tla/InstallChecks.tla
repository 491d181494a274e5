----------------------------- MODULE InstallChecks -----------------------------
(***************************************************************************)
(* What an address space accepts when something is installed, and on which *)
(* lanes of the data bus it then is: check_optimize_all and                *)
(* check_optimize_mirror (source/emucore/memory/emumem.cpp).  A row is one *)
(* bus-wide unit of W bytes, a lane one of its bytes, numbered from the    *)
(* least significant; a unit mask (u64 in the code) is the set of the      *)
(* lanes whose bits it has, the empty set standing for 0, no mask given.   *)
(* A request r has start, end, mask, mirror, select, lanes and cs, the     *)
(* chip select width in bytes.                                             *)
(***************************************************************************)
EXTENDS AddressBits

CONSTANT W             \* bytes of the data bus (data_width() / 8)

ASSUME WidthAssumption == W \in {1, 2, 4, 8} /\ W <= 2^AddrBits

FullMask == 0 .. 7                 \* ~u64(0)
AllLanes == 0 .. (W - 1)

Row(a)        == a \div W
Aligned(r, n) == r.start % n = 0 /\ (r.end + 1) % n = 0
OneRow(r)     == Row(r.start) = Row(r.end)
EndBits(r)    == SetBits(r.start) \cup SetBits(r.end)

(* Mask, mirror and select lie inside the global mask; a mask keeps bits   *)
(* that change, mirror and select take bits that do not.                   *)
BitsAreSound(r, global) ==
  LET changing == ChangingBits(r.start, r.end)
  IN  /\ r.mask \subseteq changing
      /\ r.mask \cup r.mirror \cup r.select \subseteq global
      /\ (r.mirror \cup r.select) \cap (changing \cup EndBits(r)) = {}
      /\ r.mirror \cap r.select = {}

(* Each chip select takes one unit of the handler at most, and a whole one.*)
UnitsFit(bytes, r) ==
  LET cs == IF r.cs = 0 THEN bytes ELSE r.cs
  IN  \A slot \in 0 .. (7 \div cs) :
        LET taken == {l \in r.lanes : l \div cs = slot}
        IN  \/ taken = {}
            \/ \E u \in 0 .. (cs \div bytes - 1) :
                 taken = (slot * cs + u * bytes) .. (slot * cs + (u + 1) * bytes - 1)

(* What check_optimize_all lets pass; every other request is a fatalerror. *)
AcceptsHandler(bytes, r, global) ==
  /\ r.start <= r.end /\ EndBits(r) \subseteq global
  /\ bytes <= W
  /\ Aligned(r, bytes)
  /\ BitsAreSound(r, global)
  /\ r.cs <= W /\ r.cs % bytes = 0
  /\ UnitsFit(bytes, r)
  /\ Aligned(r, W) \/ OneRow(r)

(* And check_optimize_mirror.                                              *)
AcceptsRange(r, global) ==
  /\ r.start <= r.end /\ EndBits(r) \subseteq global
  /\ Aligned(r, W)
  /\ r.mirror \subseteq global /\ ValidRequest(r)

(* And check_address.                                                      *)
AcceptsAddress(r, global) ==
  r.start <= r.end /\ EndBits(r) \subseteq global /\ Aligned(r, W)

(* The bytes of a row of n bytes that are served: the unit mask counts     *)
(* from the least significant byte of the range, and a range inside one    *)
(* row ends where it ends.                                                 *)
ServedBytes(big, n, r) ==
  LET lanes == IF r.lanes = {} THEN 0 .. (n - 1) ELSE r.lanes
      low   == r.start % n
      high  == r.end % n
  IN  {k \in 0 .. (n - 1) :
         k \in low .. high /\ (IF big THEN high - k ELSE k - low) \in lanes}

(* The bits of an address that reach the handler.                          *)
AddressMask(r) ==
  (IF r.mask = {} THEN ChangingBits(r.start, r.end) ELSE r.mask) \cup r.select
================================================================================
