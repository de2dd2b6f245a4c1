--------------------------- MODULE MCWeightedSplit ---------------------------
(* A small instance of WeightedSplit: three entries. *)
EXTENDS WeightedSplit

MCWeights == 0 .. 3
MCPots == 0 .. 5
=============================================================================
