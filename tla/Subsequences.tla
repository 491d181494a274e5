------------------------------ MODULE Subsequences ------------------------------
(***************************************************************************)
(* The part of a sequence whose elements are in a set, in the order they   *)
(* had: SelectSeq for a set instead of an operator, so that the lemmas     *)
(* about it can be proved once and cited.                                  *)
(***************************************************************************)
EXTENDS Naturals, Sequences

Keep(s, S) ==
  LET kept[n \in 0 .. Len(s)] ==
        IF n = 0 THEN <<>>
        ELSE IF s[n] \in S THEN Append(kept[n - 1], s[n]) ELSE kept[n - 1]
  IN  kept[Len(s)]

(* What is left of s when the elements that are in a set are taken out.    *)
Without(s, gone) == Keep(s, {s[i] : i \in DOMAIN s} \ gone)
=================================================================================
