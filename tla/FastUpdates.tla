----------------------------- MODULE FastUpdates -----------------------------
(***************************************************************************)
(* The fast updates of a round as the calculator reads them from the chain *)
(* (common/ftso/fast-updates.go) and the claims of the round's part of the *)
(* fast-update offer (rewards/fupdates.go).                                *)
(***************************************************************************)
EXTENDS Portions, Subsequences, FiniteSetsExt

CONSTANTS FeedConfigs,  \* feeds of the fast-update offer, in order: name, RewardBandValue
          TotalPPM      \* 1000000, the whole of a reward band

ASSUME FeedConfigsAssumption ==
  /\ FeedConfigs \in Seq(ToSet(FeedConfigs))
  /\ \A m, n \in DOMAIN FeedConfigs : FeedConfigs[m].feed = FeedConfigs[n].feed => m = n
  /\ \A n \in DOMAIN FeedConfigs : FeedConfigs[n].band \in Nat
  /\ TotalPPM \in Nat \ {0}

(* A log of the FastUpdater: the values of the offer's feeds at the end of   *)
(* each round, published in the next one, and the updates that were sent.    *)
(* GetFUpdateFeeds and GetFUpdateSubmits: the last values published for a     *)
(* round, and its submitters in chain order, one for each update sent.       *)
FeedsOf(log, round) == log.feeds[Max({n \in DOMAIN log.feeds : log.feeds[n].round = round})]
SubmittersOf(log, round) ==
  LET events == AtPositions(log.submits, {n \in DOMAIN log.submits : log.submits[n].round = round})
  IN  [n \in DOMAIN events |-> events[n].by]

PowerOfTen(n) == LET power[k \in 0 .. n] == IF k = 0 THEN 1 ELSE 10 * power[k - 1] IN power[n]

(* The value and the median in the larger number of decimals of the two.     *)
ScaledValue(value, decimals, medianDecimals) ==
  IF decimals < medianDecimals THEN value * PowerOfTen(medianDecimals - decimals) ELSE value
ScaledMedian(median, decimals, medianDecimals) ==
  IF decimals > medianDecimals THEN median * PowerOfTen(decimals - medianDecimals) ELSE median

NoMedian == [none |-> TRUE]

(* checkBurnReward: the part is burned if nobody sent an update, the round    *)
(* has no median for the feed, or the value is outside of the band around it.*)
CheckBurnReward(feedIndex, updates, submitters, median, medianDecimals) ==
  \/ submitters = <<>>
  \/ median = NoMedian
  \/ LET decimals == updates.decimals[feedIndex]
         value == ScaledValue(updates.values[feedIndex], decimals, medianDecimals)
         center == ScaledMedian(median.value, decimals, medianDecimals)
         delta == (center * FeedConfigs[feedIndex].band) \div TotalPPM
     IN  value < center - delta \/ value > center + delta

(* gatFUpdateClaims: equal parts for the updates sent, the remainder to the   *)
(* first ones.  How a part is split for its voter is in VoterSplit.          *)
EqualFloors(amount, subs) == [n \in 1 .. subs |-> amount \div subs] \* faulty: the remainder is lost
EqualParts(amount, subs) == [n \in 1 .. subs |-> EqualPart(amount, subs, n - 1)]
=============================================================================
