---------------------------- MODULE MCMedianReward ----------------------------
(* Three voters and a width of 4 bits: values of both signs, ties, empty and *)
(* cut-off values.  The second setting pays the secondary band only, the     *)
(* third burns below half of the weight.                                    *)
EXTENDS MedianReward

Order == <<"v1", "v2", "v3">>
MCReveals == {<<7>>, <<7, 0>>, <<7, 4>>, <<7, 5>>, <<7, 7>>, <<7, 10>>}
Setting(turnout, primary, width) == [turnout |-> turnout, primary |-> primary, width |-> width]
MCSettings == {Setting(0, 7, 10), Setting(0, 0, 4), Setting(50, 10, 0)}
=============================================================================
