----------------------------- MODULE MCAddressTable -----------------------------
(* Instances of AddressTable for TLC.                                      *)
EXTENDS AddressTable

Call(start, end, mirror) == [start |-> start, end |-> end, mirror |-> mirror]

(* Four blocks of four cells: a part of a block, ranges with both edges and*)
(* whole blocks between them, and mirrors inside a block, across blocks    *)
(* (the quick mapping) and both.                                           *)
BlockRequests ==
  {Call(1, 2, {}), Call(5, 6, {}), Call(9, 9, {}), Call(2, 11, {}), Call(0, 3, {3}),
   Call(1, 1, {2, 3}), Call(1, 1, {1, 3}), Call(0, 3, {2})}
================================================================================
