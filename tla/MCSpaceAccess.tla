------------------------------ MODULE MCSpaceAccess ------------------------------
(* Instances of SpaceAccess for TLC: four rows of four bytes.              *)
EXTENDS SpaceAccess

(* A handler of n bytes on some lanes of start..end.                       *)
On(dir, dev, n, start, end, lanes) ==
  [dir |-> dir, bytes |-> n, dev |-> dev, start |-> start, end |-> end, lanes |-> lanes,
   mask |-> {}, mirror |-> {}, select |-> {}, cs |-> 0]

Solid(start, end) == On("read", "none", 4, start, end, {})

(* One lane of the whole space; two lanes of its second half, which has    *)
(* another base; a part of a row; the whole bus; two lanes with a chip     *)
(* select of two bytes; bytes on every lane; units of two bytes; two       *)
(* devices on neighbouring lanes, mirrored alike; a register selected by   *)
(* an address bit; and what the other tables get.                          *)
ByteHandlers ==
  {On("read", "a", 1, 0, 15, {0}),
   On("read", "b", 1, 8, 15, {1, 2}),
   On("read", "c", 1, 5, 6, {}),
   On("read", "d", 4, 4, 11, {}),
   [On("read", "e", 1, 0, 7, {1, 3}) EXCEPT !.cs = 2],
   On("read", "k", 1, 0, 15, {}),
   [On("read", "f", 1, 0, 7, {0}) EXCEPT !.mirror = {3}],
   [On("read", "g", 1, 0, 7, {1}) EXCEPT !.mirror = {3}],
   [On("read", "h", 1, 0, 3, {2}) EXCEPT !.select = {3}],
   On("read", "j", 2, 4, 15, {2, 3}),
   On("write", "i", 1, 0, 15, {0, 1}),
   On("setoffset", "s", 1, 0, 11, {0})}

(* Two widths on every row.                                                *)
MixedHandlers ==
  {On("read", "a", 1, 0, 15, {0}), On("read", "b", 2, 0, 15, {2, 3})}

Bank    == Solid(4, 7)
Nothing == Solid(8, 15)

Access(dir, n, aligned, address, mask) ==
  [dir |-> dir, bytes |-> n, aligned |-> aligned, address |-> address, mask |-> mask]

(* A row, a word that crosses two rows and a part of a row that is written.*)
FewInputs ==
  {Access("read", 4, TRUE, 4, 0 .. 3), Access("read", 4, FALSE, 10, 0 .. 3),
   Access("write", 2, TRUE, 6, {1})}

Widths == {1, 2, 4, 8}

(* Every access: an aligned one at a multiple of its width, any other      *)
(* anywhere; of eight bytes the masks that are intervals.                  *)
Masks(n) == IF n < 8 THEN SUBSET (0 .. (n - 1)) \ {{}}
            ELSE {lo .. hi : lo, hi \in 0 .. 7} \ {{}}

EveryInput ==
  UNION {{Access("read", n, FALSE, at, m) : at \in Addresses, m \in Masks(n)} : n \in Widths \ {1}}
    \cup UNION {{Access("read", n, TRUE, at, m) :
                   at \in {x \in Addresses : x % n = 0}, m \in Masks(n)} : n \in Widths}
==================================================================================
