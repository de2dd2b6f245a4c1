----------------------------- MODULE MCVoterSplit -----------------------------
(* A small instance of VoterSplit.                                           *)
EXTENDS VoterSplit

MCAmounts == 0 .. 12
MCCappedWeights == {0, 1, 3}
MCNodeWeights == {0, 1, 2}
=============================================================================
