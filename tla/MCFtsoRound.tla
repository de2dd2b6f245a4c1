----------------------------- MODULE MCFtsoRound -----------------------------
(* Two voters of different weight and an unregistered account that relays    *)
(* every kind of call.  One second in each interval between deadlines.       *)
EXTENDS FtsoRound

MCPolicyOrder == <<"v1", "v2">>
MCPolicyWeight == [v \in Voters |-> IF v = "v1" THEN 1 ELSE 2]
MCSignerWeight == <<1, 2>>

Sig(index, valid, canonical) == [index |-> index, valid |-> valid, canonical |-> canonical]
Call(own, about, list, proof) == [own |-> own, about |-> about, list |-> list, proof |-> proof]
Enough == <<Sig(2, TRUE, TRUE)>>
Usual == {Call(TRUE, "round", Enough, TRUE)}
Unusual ==
  {Call(TRUE, "round", Enough, FALSE), Call(FALSE, "round", Enough, TRUE), Call(TRUE, "other", Enough, TRUE)}
  \cup {Call(TRUE, "round", list, TRUE) : list \in
          {<<Sig(1, TRUE, TRUE), Sig(1, TRUE, TRUE)>>,
           <<Sig(1, FALSE, TRUE), Sig(2, TRUE, FALSE)>>,
           <<Sig(2, TRUE, TRUE), Sig(1, TRUE, TRUE)>>}}
MCRelayCalls == [s \in Senders |-> IF s \in Voters THEN Usual ELSE Usual \cup Unusual]

Outcome(eligible, drawn) == [eligible |-> eligible, drawn |-> drawn]
MCOutcomes == {Outcome({"v1", "v2"}, {"v1", "v2"}), Outcome({"v1", "v2"}, {"v1"}),
               Outcome({"v1"}, {"v1", "v2"}), Outcome({}, {"v2"})}
=============================================================================
