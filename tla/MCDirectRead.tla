------------------------------ MODULE MCDirectRead ------------------------------
(* Instances of DirectRead for TLC: the whole space and a cell of it with  *)
(* its mirror in the next block; in a narrow space the first cell and its  *)
(* mirror.                                                                 *)
EXTENDS DirectRead, TLC

Call(start, end, mirror) == [start |-> start, end |-> end, mirror |-> mirror]

RequestsBySpace ==
  [s \in Spaces |-> IF s \in NarrowSpaces THEN {Call(0, 0, {1})}
                                          ELSE {Call(0, 3, {}), Call(1, 1, {1})}]

(* Pointers are told apart by nothing but their names.                     *)
Interchangeable == Permutations(Pointers)
================================================================================
