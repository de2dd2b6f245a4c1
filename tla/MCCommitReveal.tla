--------------------------- MODULE MCCommitReveal ---------------------------
(* A small instance of CommitReveal: a reward epoch starts with round 1, and *)
(* account b is registered from then on; a round is benched for one round.   *)
EXTENDS CommitReveal

MCRegistered == [r \in Round |-> IF r = 0 THEN {"a"} ELSE {"a", "b"}]
=============================================================================
