---------------------------- MODULE MinConditions ----------------------------
(***************************************************************************)
(* The minimal participation conditions of a reward epoch: the four counts  *)
(* that are kept over its rounds (rewards/min-conditions.go, updateCond in  *)
(* rewards/fdc.go) and the change of a voter's passes that they make        *)
(* (calcConditions in rewards/epoch.go).                                   *)
(***************************************************************************)
EXTENDS Portions, FiniteSetsExt

CONSTANTS Voters,
          Others,          \* accounts that made fast updates without being voters of the epoch
          Weight,          \* signing policy weight of each voter
          Charging,        \* voters whose rewards make a claim for their identity address: a fee
          MaxUpdates,      \* bound on the fast updates of an account in a round
          Rounds,          \* number of rounds of the reward epoch
          Feeds,           \* number of feeds
          TotalPpm,        \* 1000000, and the thresholds in the same unit:
          FtsoThreshold, FuThreshold, FuConsideration, FdcThreshold, UptimeThreshold,
          MinSelfBond, MinDesiredSelfBond, MinDesiredStake,
          NodeLists        \* what is known of the validators a voter may have

ASSUME PpmAssumption ==
  /\ TotalPpm \in Nat \ {0}
  /\ {FtsoThreshold, FuThreshold, FuConsideration, FdcThreshold, UptimeThreshold} \subseteq 0 .. TotalPpm

(* An epoch has rounds and feeds, and somebody in its policy has weight.     *)
ASSUME EpochAssumption ==
  /\ Rounds \in Nat \ {0} /\ Feeds \in Nat \ {0} /\ MaxUpdates \in Nat
  /\ IsFiniteSet(Voters) /\ IsFiniteSet(Others) /\ Weight \in [Voters -> Nat] /\ \E v \in Voters : Weight[v] > 0
(* What is known of a validator. *)
Validator == [selfBond : Nat, stake : Nat, uptime : BOOLEAN]
ASSUME StakingAssumption ==
  /\ {MinSelfBond, MinDesiredSelfBond, MinDesiredStake} \subseteq Nat /\ MinSelfBond <= MinDesiredSelfBond
  /\ \A list \in NodeLists : list \in Seq(Validator)

VARIABLES network,          \* "flare" or another one
          component,        \* whose rounds are counted, "ftso", "fu" or "fdc", then "done"
                            \* ("fatal" when the validators cannot be fetched)
          round,            \* rounds of it that were counted
          voterHits,        \* values close to the median, for voters that had any
          voterUpdates,     \* fast updates of each submitter
          rewardedRounds,   \* FDC rounds a voter was rewarded for, if it was for any
          totalRewardedRounds,
          missed,           \* values and rewarded FDC rounds that each voter missed (history)
          nodes,            \* the validators of each voter
          passDelta         \* change of each voter's passes

counts == <<voterHits, voterUpdates, rewardedRounds, totalRewardedRounds>>
conditionsVars == <<network, component, round, counts, missed, nodes, passDelta>>

Submitters == Voters \cup Others
Nobody == [v \in {} |-> 0]
Nothing == [values |-> 0, rounds |-> 0]
Count(m, v) == IF v \in DOMAIN m THEN m[v] ELSE 0

ConditionsInit ==
  /\ network \in {"flare", "songbird"}
  /\ component = "ftso" /\ round = 0
  /\ voterHits = Nobody /\ rewardedRounds = Nobody /\ totalRewardedRounds = 0
  /\ voterUpdates = [s \in Submitters |-> 0]
  /\ missed = [v \in Voters |-> Nothing]
  /\ nodes = [v \in Voters |-> <<>>] /\ passDelta = Nobody

(* metFtsoCondition: hits[v] values of v were close to the median.           *)
FtsoRound(hits) ==
  /\ component = "ftso" /\ round < Rounds
  /\ voterHits' = [v \in DOMAIN voterHits \cup {v \in Voters : hits[v] > 0} |-> Count(voterHits, v) + hits[v]]
  /\ missed' = [v \in Voters |-> [missed[v] EXCEPT !.values = @ + (Feeds - hits[v])]]
  /\ round' = round + 1
  /\ UNCHANGED <<network, component, voterUpdates, rewardedRounds, totalRewardedRounds, nodes, passDelta>>

(* metFUCondition: the submitters of every block of the round are counted,    *)
(* those that are not voters of the epoch too: they count in the total.      *)
FuRound(updates) ==
  /\ component = "fu" /\ round < Rounds
  /\ voterUpdates' = [s \in Submitters |-> voterUpdates[s] + updates[s]]
  /\ round' = round + 1
  /\ UNCHANGED <<network, component, voterHits, rewardedRounds, totalRewardedRounds, missed, nodes, passDelta>>

(* updateCond: a voter is known by a claim for its identity address, which    *)
(* is its fee unless it also delegates there; a penalty of the round takes    *)
(* the round away again.                                                    *)
RewardedAnyway(earned, offenders) == earned \cap Charging \* faulty
Rewarded(earned, offenders) == (earned \cap Charging) \ (offenders \cap Charging)

FdcRound(earned, offenders) ==
  /\ component = "fdc" /\ round < Rounds
  /\ LET eligible == Rewarded(earned, offenders)
         one == IF earned \cap Charging # {} THEN 1 ELSE 0
     IN  /\ rewardedRounds' = [v \in DOMAIN rewardedRounds \cup eligible |->
                                 Count(rewardedRounds, v) + (IF v \in eligible THEN 1 ELSE 0)]
         /\ totalRewardedRounds' = totalRewardedRounds + one
         /\ missed' = [v \in Voters |->
                         [missed[v] EXCEPT !.rounds = @ + (IF v \in earned \ offenders THEN 0 ELSE one)]]
  /\ round' = round + 1
  /\ UNCHANGED <<network, component, voterHits, voterUpdates, nodes, passDelta>>

(* A round that was not finalized is burned and counts for nobody.           *)
FdcBurned ==
  /\ component = "fdc" /\ round < Rounds
  /\ round' = round + 1
  /\ UNCHANGED <<network, component, counts, missed, nodes, passDelta>>

PhaseDone ==
  /\ round = Rounds
  /\ \/ component = "ftso" /\ component' = "fu"
     \/ component = "fu" /\ component' = "fdc"
  /\ round' = 0
  /\ UNCHANGED <<network, counts, missed, nodes, passDelta>>

-----------------------------------------------------------------------------
TotalWeight == SumFunctionOnSet(Weight, Voters)
TotalUpdates == SumFunctionOnSet(voterUpdates, Submitters)

MetFtso == {v \in DOMAIN voterHits : TotalPpm * voterHits[v] >= FtsoThreshold * Rounds * Feeds}

MetFUStrict == \* faulty
  {v \in Voters :
     \/ (Weight[v] * TotalPpm) \div TotalWeight < FuConsideration
     \/ voterUpdates[v] * TotalPpm > ((Weight[v] * FuThreshold) \div TotalWeight) * TotalUpdates}

MetFU ==
  {v \in Voters :
     \/ (Weight[v] * TotalPpm) \div TotalWeight < FuConsideration
     \/ voterUpdates[v] * TotalPpm >= ((Weight[v] * FuThreshold) \div TotalWeight) * TotalUpdates}

MetFdc == {v \in DOMAIN rewardedRounds : rewardedRounds[v] * TotalPpm >= FdcThreshold * totalRewardedRounds}

(* MetStakingCondition, over the nodes whose validators are known.           *)
StakingCondition(ns) ==
  LET withUptime == SumOf([n \in DOMAIN ns |-> IF ns[n].uptime THEN ns[n].stake ELSE 0])
      stake == SumOf([n \in DOMAIN ns |-> ns[n].stake])
      selfBond == SumOf([n \in DOMAIN ns |-> ns[n].selfBond])
  IN  CASE ~(TotalPpm * withUptime >= UptimeThreshold * stake /\ selfBond >= MinSelfBond) -> "NotMet"
        [] selfBond < MinDesiredSelfBond \/ stake < MinDesiredStake -> "MetNoPass"
        [] OTHER -> "Met"

(* calcConditions: a pass less for each condition not met; one more for all  *)
(* of them, if the staking condition is met in full.                         *)
Staking(v) == IF network = "flare" THEN StakingCondition(nodes'[v]) ELSE "Met"
Unmet(v) ==
  Cardinality({c \in {"fu", "ftso", "fdc", "staking"} :
                 \/ c = "fu" /\ v \notin MetFU
                 \/ c = "ftso" /\ v \notin MetFtso
                 \/ c = "fdc" /\ v \notin MetFdc
                 \/ c = "staking" /\ Staking(v) = "NotMet"})

CalcConditions ==
  /\ component = "fdc" /\ round = Rounds
  /\ nodes' \in [Voters -> NodeLists]
  /\ passDelta' = [v \in Voters |-> IF Unmet(v) = 0 /\ Staking(v) = "Met" THEN 1 ELSE -Unmet(v)]
  /\ component' = "done"
  /\ UNCHANGED <<network, round, counts, missed>>

(* MetStakingCondition ends the program when the validators of the epoch     *)
(* cannot be fetched (FetchValidatorInfo), which only flare needs.           *)
FetchFails ==
  /\ component = "fdc" /\ round = Rounds /\ network = "flare"
  /\ component' = "fatal"
  /\ UNCHANGED <<network, round, counts, missed, nodes, passDelta>>

ConditionsNext ==
  \/ \E hits \in [Voters -> 0 .. Feeds] : FtsoRound(hits)
  \/ \E updates \in [Submitters -> 0 .. MaxUpdates] : FuRound(updates)
  \/ \E earned, offenders \in SUBSET Voters : FdcRound(earned, offenders)
  \/ FdcBurned \/ PhaseDone
  \/ CalcConditions \/ FetchFails

ConditionsSpec == ConditionsInit /\ [][ConditionsNext]_conditionsVars
-----------------------------------------------------------------------------
FullStake(v) ==
  network # "flare" \/
    /\ nodes[v] # <<>>
    /\ \A n \in DOMAIN nodes[v] :
         nodes[v][n].uptime /\ nodes[v][n].selfBond >= MinDesiredSelfBond /\ nodes[v][n].stake >= MinDesiredStake

(* A voter that hit every value, was rewarded and not punished in every FDC  *)
(* round that was finalized, and made at least its part of the fast updates, *)
(* does not lose a pass, and is given one if it also staked all it should:   *)
(* the counts of four components agree on who took part.  It needs a fee, by *)
(* which FDC knows it, and one FDC round that rewarded anybody.              *)
SpotlessGainsPass ==
  component = "done" /\ totalRewardedRounds > 0 =>
    \A v \in {v \in Charging \cap Voters : missed[v] = Nothing} :
      voterUpdates[v] * TotalWeight >= TotalUpdates * Weight[v] /\ FullStake(v) => passDelta[v] = 1

(* A voter cannot make up for its absence: one that gains a pass has missed   *)
(* no more of the values than FtsoThreshold leaves it, and was passed over    *)
(* or punished in no more of the FDC rounds that rewarded anybody than        *)
(* FdcThreshold leaves it, whatever it did in the other rounds.              *)
AbsenceCostsPass ==
  component = "done" => \A v \in Voters : passDelta[v] > 0 =>
    /\ TotalPpm * missed[v].values <= (TotalPpm - FtsoThreshold) * (Rounds * Feeds)
    /\ TotalPpm * missed[v].rounds <= (TotalPpm - FdcThreshold) * totalRewardedRounds
=============================================================================
