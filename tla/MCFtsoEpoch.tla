----------------------------- MODULE MCFtsoEpoch -----------------------------
(* A small instance of FtsoEpoch: three rounds and two to look ahead, funds   *)
(* that do and do not divide by them; of the feeds of the fast-update offer   *)
(* one was renamed, and the first is no longer a feed of the reward epoch.    *)
(* On chain the values have more or fewer decimals than the medians.  A log   *)
(* has an update of an account that is not registered; finalizers may not be  *)
(* selected, or feeds have no result, in one round or another.               *)
EXTENDS FtsoEpoch

MCOrderedFeeds == <<"POL", "FLR">>
MCDecimals == "FLR" :> 1 @@ "POL" :> 0
MCFeedConfigs == <<[feed |-> "GONE", band |-> 50], [feed |-> "FLR", band |-> 25], [feed |-> "MATIC", band |-> 10]>>
MCOldToNewFeed == "MATIC" :> "POL"

MCMedians == {NoMedian} \cup {[value |-> n] : n \in {-10, 10, 20}}
Feeds(r, values, decimals) == [round |-> r, values |-> values, decimals |-> decimals]
By(r, voter) == [round |-> r, by |-> voter]
MCLogs == {
  [feeds |-> <<Feeds(1, <<10, 1, 101>>, <<1, 0, 1>>), Feeds(2, <<20, 125, 11>>, <<0, 2, 0>>), Feeds(3, <<1, 2, 21>>, <<0, 0, 0>>)>>,
   submits |-> <<By(1, "a"), By(1, "b"), By(2, "a"), By(2, "b"), By(2, "a"), By(3, "b")>>],
  [feeds |-> <<Feeds(1, <<1, 74, 9>>, <<0, 2, 0>>), Feeds(2, <<3, 3, 201>>, <<0, 0, 1>>), Feeds(3, <<0, 15, 18>>, <<0, 1, 0>>)>>,
   submits |-> <<By(1, "b"), By(3, "a"), By(3, "b")>>],
  [feeds |-> <<Feeds(1, <<1, 74, 9>>, <<0, 2, 0>>), Feeds(2, <<3, 20, 201>>, <<0, 1, 1>>), Feeds(3, <<0, 15, 18>>, <<0, 1, 0>>)>>,
   submits |-> <<By(1, "b"), By(2, "a"), By(2, "x")>>]}
MCFaults == {
  [selection |-> {}, results |-> {}],
  [selection |-> {3}, results |-> {<<1, "FLR">>}],
  [selection |-> {}, results |-> {<<2, "POL">>, <<3, "FLR">>}]}
=============================================================================
