---------------------------- MODULE MCRewardEpochs ----------------------------
(* A small instance of RewardEpochs.                                         *)
EXTENDS RewardEpochs

MCPolicyOrder == <<"v1", "v2">>
MCInflationFeeds == <<10, 30>>
Offer(feed, amount) == [feed |-> feed, amount |-> amount]
MCOfferBatches == {<<Offer(20, 1), Offer(40, 3), Offer(20, 1), Offer(30, 1)>>}
=============================================================================
