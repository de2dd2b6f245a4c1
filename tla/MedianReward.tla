----------------------------- MODULE MedianReward -----------------------------
(***************************************************************************)
(* The accuracy reward of one round and feed: the revealed values are      *)
(* decoded (common/ftso/decoding.go), their weighted quartiles calculated  *)
(* (common/ftso/median.go), and the reward divided over the voters whose   *)
(* values are within the quartiles or within a band around the median      *)
(* (getMedianClaims in rewards/median.go).  Values are the int32 of the    *)
(* code: 2 * SignBit of them.                                              *)
(***************************************************************************)
EXTENDS Portions, FiniteSetsExt

CONSTANTS PolicyOrder,   \* the voters in signing policy order (OrderedVoters)
          VotingWeights, \* weights a voter may have: capped delegation weights
                         \* before FIP.16, signing policy weights after
          Reveals,       \* sequences of raw feed values; <<>> also without a reveal
          FeedIndex,     \* the feed of the round
          FeedSettings,  \* [turnout, primary, width] the feed may have
          Reward,        \* the accuracy reward of the round
          SignBit,       \* 2^31
          FullTurnout, TotalPpm   \* bigTotalBips, totalPpm

Voters == ToSet(PolicyOrder)

ASSUME PolicyAssumption == PolicyOrder \in Seq(Voters) /\ IsInjective(PolicyOrder) /\ VotingWeights \subseteq Nat
ASSUME WidthAssumption == {SignBit, FullTurnout, TotalPpm, FeedIndex} \subseteq Nat \ {0}
ASSUME RevealsAssumption == Reveals \subseteq Seq(0 .. 2 * SignBit - 1)
ASSUME SettingsAssumption ==
  /\ Reward \in Nat
  /\ \A f \in FeedSettings : f.primary \in 0 .. TotalPpm /\ {f.turnout, f.width} \subseteq Nat

VARIABLES step,      \* "median", "claims", "done" or "fatal"
          fip16Active, votingWeight, feed, reveal,   \* inputs
          votes,     \* weightedValues, sorted by value
          quartiles, \* their quartiles
          selected,  \* the voters randomSelect selects for the round
          paid, burned

medianInputs == <<fip16Active, votingWeight, feed, reveal>>
medianVars == <<step, medianInputs, votes, quartiles, selected, paid, burned>>

Nobody == [v \in Voters |-> 0]

MedianInit ==
  /\ step = "median"
  /\ fip16Active \in BOOLEAN
  /\ votingWeight \in [Voters -> VotingWeights]
  /\ feed \in FeedSettings
  /\ reveal \in [Voters -> Reveals]
  /\ votes = <<>> /\ quartiles = <<>>
  /\ selected = {} /\ paid = Nobody /\ burned = 0

WeightOf(S) == SumFunctionOnSet(votingWeight, S)

(* A value of the width of the code. *)
Wrap(x) == ((x + SignBit) % (2 * SignBit)) - SignBit

(* DecodeFeedValues: a raw value of 0, and one that is cut off, is empty.    *)
IsEmpty(v) == Len(reveal[v]) < FeedIndex \/ reveal[v][FeedIndex] = 0
Value(v) == Wrap(reveal[v][FeedIndex] - SignBit)

(* calculateMedians: with FIP.16 a vote without weight does not count.       *)
ZeroVotes == {v \in Voters : ~IsEmpty(v)} \* faulty
Participants == {v \in Voters : ~IsEmpty(v) /\ (fip16Active => votingWeight[v] > 0)}

(* The votes come out of a map and the sort is not stable: voters with the   *)
(* same value are in any order.                                             *)
Sorted == {o \in SetToSeqs(Participants) : \A m, n \in DOMAIN o : m < n => Value(o[m]) <= Value(o[n])}

(* calculateFeedMedian.  The quartiles are the first values from below and   *)
(* from above with more than a quarter of the weight, the median the first   *)
(* with half of it; if that is exactly half, the mean with the next one.     *)
WeightUpTo(o, n) == SumOf([k \in 1 .. n |-> votingWeight[o[k]]])
WeightFromTop(o, n) == SumOf([k \in 1 .. Len(o) - n + 1 |-> votingWeight[o[n + k - 1]]])
Quarter(o) == WeightUpTo(o, Len(o)) \div 4
FloorHalf(o) == WeightUpTo(o, Len(o)) \div 2 \* faulty
Half(o) == (WeightUpTo(o, Len(o)) + 1) \div 2
MedianAt(o) == Min({n \in DOMAIN o : WeightUpTo(o, n) >= Half(o)})
IsMean(o) == 2 * WeightUpTo(o, MedianAt(o)) = WeightUpTo(o, Len(o))

Quartiles(o) ==
  LET m == MedianAt(o)
  IN  [Q1 |-> Value(o[Min({n \in DOMAIN o : WeightUpTo(o, n) > Quarter(o)})]),
       Median |-> IF IsMean(o) THEN (Value(o[m]) + Value(o[m + 1])) \div 2 ELSE Value(o[m]),
       Q3 |-> Value(o[Max({n \in DOMAIN o : WeightFromTop(o, n) > Quarter(o)})])]

(* Of votes without any weight there are no quartiles: a single one is read  *)
(* past its end (median.go:119), several leave the feed without a result,    *)
(* which getMedianClaims reads all the same.                                *)
CalculateMedian ==
  /\ step = "median"
  /\ votes' \in Sorted
  /\ IF votes' # <<>> /\ WeightOf(Participants) = 0
       THEN step' = "fatal" /\ UNCHANGED quartiles
       ELSE step' = "claims" /\ quartiles' = IF votes' = <<>> THEN <<>> ELSE Quartiles(votes')
  /\ UNCHANGED <<medianInputs, selected, paid, burned>>

EnoughParticipation == WeightOf(Participants) * FullTurnout >= WeightOf(Voters) * feed.turnout

BurnTurnout ==
  /\ step = "claims"
  /\ votes = <<>> \/ ~EnoughParticipation
  /\ step' = "done" /\ burned' = Reward
  /\ UNCHANGED <<medianInputs, votes, quartiles, selected, paid>>

(* getRecords: the band around the median, and the voters in each band; at   *)
(* a quartile only those that randomSelect selects.                         *)
Abs(x) == IF x < 0 THEN -x ELSE x
secondaryBandDiff == (Abs(quartiles.Median) * feed.width) \div TotalPpm
lowPct == Wrap(quartiles.Median - Wrap(secondaryBandDiff))
highPct == Wrap(quartiles.Median + Wrap(secondaryBandDiff))
Pct == {v \in ToSet(votes) : lowPct < Value(v) /\ Value(v) < highPct}
Inner == {v \in ToSet(votes) : quartiles.Q1 < Value(v) /\ Value(v) < quartiles.Q3}
AtQuartile == {v \in ToSet(votes) : Value(v) \in {quartiles.Q1, quartiles.Q3}}
Iqr(chosen) == Inner \cup (AtQuartile \cap chosen)

(* The weight a voter draws by: the bands share the reward by the feed's     *)
(* setting, whatever weight is in each.                                     *)
BothBands(v, iqr) == \* faulty: also if nobody is in the secondary band
  (IF v \in iqr THEN feed.primary * votingWeight[v] * WeightOf(Pct) ELSE 0)
  + (IF v \in Pct THEN (TotalPpm - feed.primary) * votingWeight[v] * WeightOf(iqr) ELSE 0)
NormWeight(v, iqr) ==
  IF WeightOf(Pct) = 0 THEN IF v \in iqr THEN votingWeight[v] ELSE 0
  ELSE (IF v \in iqr THEN feed.primary * votingWeight[v] * WeightOf(Pct) ELSE 0)
       + (IF v \in Pct THEN (TotalPpm - feed.primary) * votingWeight[v] * WeightOf(iqr) ELSE 0)

NormWeights(chosen) == [n \in DOMAIN PolicyOrder |-> NormWeight(PolicyOrder[n], Iqr(chosen))]
MayPay == step = "claims" /\ votes # <<>> /\ EnoughParticipation

(* Nobody with weight is in a band: the reward is burned. *)
BurnBands ==
  /\ MayPay
  /\ selected' \in SUBSET AtQuartile
  /\ SumOf(NormWeights(selected')) = 0
  /\ step' = "done" /\ burned' = Reward
  /\ UNCHANGED <<medianInputs, votes, quartiles, paid>>

PayBands ==
  /\ MayPay
  /\ selected' \in SUBSET AtQuartile
  /\ SumOf(NormWeights(selected')) > 0
  /\ LET portions == PortionsOf(NormWeights(selected'), Reward)
     IN  paid' = [v \in Voters |-> SumOf([n \in DOMAIN portions |-> IF PolicyOrder[n] = v THEN portions[n] ELSE 0])]
  /\ step' = "done"
  /\ UNCHANGED <<medianInputs, votes, quartiles, burned>>

MedianNext == CalculateMedian \/ BurnTurnout \/ BurnBands \/ PayBands

MedianSpec == MedianInit /\ [][MedianNext]_medianVars
-----------------------------------------------------------------------------
Calculated == step = "claims" /\ votes # <<>>

(* Whoever has more than half of the voting weight decides the median: it is *)
(* within the range of their values, whatever the others reveal.  With more  *)
(* than three quarters the same is true of both quartiles.                  *)
Within(x, S) == \E u, v \in S : Value(u) <= x /\ x <= Value(v)
RobustQuartiles ==
  Calculated =>
    \A H \in SUBSET ToSet(votes) :
      /\ 2 * WeightOf(H) > WeightOf(Participants) => Within(quartiles.Median, H)
      /\ 4 * WeightOf(H) > 3 * WeightOf(Participants) => Within(quartiles.Q1, H) /\ Within(quartiles.Q3, H)

(* With FIP.16 every data provider comes to the same quartiles, in whatever  *)
(* order its map lists the votes, and never fails to come to any.  (Before,  *)
(* a vote without weight next to the middle can change the median.)          *)
Fip16Settles ==
  fip16Active => /\ step # "fatal"
                 /\ Calculated => \A o \in Sorted : Quartiles(o) = quartiles

(* A voter strictly between the quartiles gets at least its part of the      *)
(* primary band's share of the reward, whoever was selected at the quartiles *)
(* and however much weight there is in the other band.                      *)
InnerShare ==
  step = "done" /\ votes # <<>> /\ EnoughParticipation => \A v \in {v \in Inner : votingWeight[v] > 0} :
    paid[v] >= (Reward * feed.primary * votingWeight[v]) \div (TotalPpm * WeightOf(Inner \cup AtQuartile))

(* Voters with the same value, weight and luck are paid alike, up to the wei *)
(* of rounding of those who draw before them.                               *)
SameVote(u, v) ==
  /\ {u, v} \subseteq ToSet(votes) /\ Value(u) = Value(v) /\ votingWeight[u] = votingWeight[v]
  /\ (u \in selected) <=> (v \in selected)
EqualVotesPaidAlike ==
  step = "done" => \A u, v \in Voters : SameVote(u, v) => Abs(paid[u] - paid[v]) < Len(PolicyOrder)
=============================================================================
