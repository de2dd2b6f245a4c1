------------------------------ MODULE Portions ------------------------------
(***************************************************************************)
(* WeightedSplit as a function of its inputs, for the modules that use the *)
(* distribution loop as one step.                                          *)
(***************************************************************************)
EXTENDS Integers, Sequences, SequencesExt

SumOf(s) == FoldLeft(+, 0, s)

(* The total weight of the entries n .. Len(w). *)
WeightFrom(w, n) == SumOf(SubSeq(w, n, Len(w)))

(* Faulty: the weight that is left is not reduced. *)
LeftOfTotal(w, pot) ==
  LET left[n \in 0 .. Len(w)] ==
        IF n = 0 THEN pot
        ELSE left[n - 1] - (IF w[n] = 0 THEN 0 ELSE (w[n] * left[n - 1]) \div SumOf(w))
  IN  left

(* What is left of the pot after each of the entries has drawn. *)
LeftAfter(w, pot) ==
  LET left[n \in 0 .. Len(w)] ==
        IF n = 0 THEN pot
        ELSE left[n - 1] - (IF w[n] = 0 THEN 0 ELSE (w[n] * left[n - 1]) \div WeightFrom(w, n))
  IN  left

(* What each entry draws; nothing if nobody has weight. *)
PortionsOf(w, pot) == [n \in DOMAIN w |-> LeftAfter(w, pot)[n - 1] - LeftAfter(w, pot)[n]]

(* pot wei in len equal parts, the remainder one wei each to the first ones. *)
EqualPart(pot, len, n) == pot \div len + (IF n < pot % len THEN 1 ELSE 0)
=============================================================================
