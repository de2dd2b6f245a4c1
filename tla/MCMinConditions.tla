--------------------------- MODULE MCMinConditions ---------------------------
(* A small instance of MinConditions: a voter with and one without a fee, an  *)
(* account that is no voter, thresholds in percent.                          *)
EXTENDS MinConditions

Node(selfBond, stake, uptime) == [selfBond |-> selfBond, stake |-> stake, uptime |-> uptime]

MCWeight == [v \in Voters |-> IF v = "a" THEN 3 ELSE 1]
MCNodeLists == {<<>>, <<Node(1, 9, TRUE)>>, <<Node(3, 15, TRUE)>>,
                <<Node(3, 15, TRUE), Node(0, 4, FALSE)>>}
=============================================================================
