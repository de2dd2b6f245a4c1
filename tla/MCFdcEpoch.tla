------------------------------ MODULE MCFdcEpoch ------------------------------
(* Three voters and two rounds.  Round 1 has the histories that tell the    *)
(* rules apart: early, late, repeated, wrong, unreadable and missing ones.  *)
EXTENDS FdcEpoch

Order == <<"v1", "v2", "v3">>
Weight == [v1 |-> 3, v2 |-> 2, v3 |-> 1]

BitVote(ts, bits) == [ts |-> ts, bits |-> bits]
Sig(ts, sig, bits) == [ts |-> ts, sig |-> sig, bits |-> bits]

BitVotes == <<{<<>>, <<BitVote(1, {1}), BitVote(1, {1, 2}), BitVote(2, {2})>>, <<BitVote(1, {1}), BitVote(1, Short)>>},
              {<<BitVote(1, {1})>>}>>
Sigs == <<{<<>>, <<Sig(2, "good", {1})>>,
           <<Sig(1, "good", {1}), Sig(2, "broken", {1}), Sig(2, "good", {1, 2}), Sig(3, "good", {1})>>,
           <<Sig(2, "bad", {1}), Sig(3, "good", Short)>>, <<Sig(2, "good", {})>>,
           <<Sig(4, "good", {1})>>, <<Sig(1, "good", {1}), Sig(5, "good", {1})>>},
          {<<Sig(1, "good", {1})>>}>>
OtherSigs == <<{<<Sig(1, "unreadable", None)>>, <<Sig(2, "unreadable", None)>>}, {<<>>}>>
Seconds == <<{-1, 3}, {2}>>

Request(data, type, fee) == [data |-> data, type |-> type, fee |-> fee]
Requested == <<{<<Request("a", "A", 31), Request("b", "B", 4), Request("a", "A", 20), Request("x", "malformed", 7)>>},
               {<<>>, <<Request("a", "B", 9)>>}>>
Offer(amount, configurations) == <<[amount |-> amount, configurations |-> configurations]>>
Offers == {<<>>, Offer(7, <<>>),
           Offer(205, <<[type |-> "A", share |-> 3, minRequests |-> 1], [type |-> "B", share |-> 1, minRequests |-> 2]>>)}
=============================================================================
