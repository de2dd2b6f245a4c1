---------------------------- MODULE Subsequences ----------------------------
(***************************************************************************)
(* The loops of the calculator that keep some of the elements of a list and *)
(* drop the others, in the order of the list.                              *)
(***************************************************************************)
EXTENDS Integers, Sequences

(* The elements of s at the positions in P. *)
AtPositions(s, P) ==
  LET kept[n \in 0 .. Len(s)] ==
        IF n = 0 THEN <<>> ELSE IF n \in P THEN Append(kept[n - 1], s[n]) ELSE kept[n - 1]
  IN  kept[Len(s)]
=============================================================================
