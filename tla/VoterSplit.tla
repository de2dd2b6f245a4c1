------------------------------ MODULE VoterSplit ------------------------------
(***************************************************************************)
(* What a voter has earned, or is to pay as a penalty, is divided between   *)
(* the voter (its fee), its delegators and the stakers of its nodes         *)
(* (SigningWeightClaimsForVoter in rewards/signing.go).  Penalties are set  *)
(* against rewards by beneficiary and type, so a penalty has to divide the  *)
(* way a reward does.  Only an accuracy reward before FIP.16 is divided     *)
(* without the stakers (generateClaimsForVoter in rewards/median.go).       *)
(***************************************************************************)
EXTENDS Portions, FiniteSetsExt

CONSTANTS Amounts,         \* amounts a voter may earn
          CappedWeights,   \* weights its delegations may have
          Nodes,           \* number of its nodes
          NodeWeightSet,   \* weights a node may have
          FeeBips,         \* delegation fees
          CappedStakingFeeBips, TotalBips,
          StakeWeightMultiplier   \* Fip16StakeWeightMultiplier

ASSUME BipsAssumption == TotalBips \in Nat \ {0} /\ CappedStakingFeeBips \in 0 .. TotalBips
ASSUME MultiplierAssumption == StakeWeightMultiplier \in Nat \ {0}
ASSUME InputsAssumption ==
  /\ Amounts \subseteq Nat /\ CappedWeights \subseteq Nat
  /\ Nodes \in Nat /\ NodeWeightSet \subseteq Nat
  /\ FeeBips \subseteq 0 .. TotalBips  \* the contract takes no fee above 100 %

VARIABLES amount, cappedWeight, nodeWeights, delegationFeeBips, fip16,  \* the call
          accuracy, \* whether it is for an accuracy reward before FIP.16
          stage,    \* "split", "nodes", "done" or "fatal"
          node,     \* the node the loop is at
          fee, wnat,          \* claims of the voter and of its delegators
          mirror,             \* claims of the nodes' stakers
          remainingStakeAmount, remainingStakeWeight

call == <<amount, cappedWeight, nodeWeights, delegationFeeBips, fip16, accuracy>>
splitVars == <<call, stage, node, fee, wnat, mirror, remainingStakeAmount, remainingStakeWeight>>

MultipliedWeight == SumOf(nodeWeights) * (IF fip16 THEN StakeWeightMultiplier ELSE 1) \* faulty
stakedWeight == SumOf(nodeWeights)
EffectiveStakedWeight == IF fip16 THEN stakedWeight * StakeWeightMultiplier ELSE stakedWeight

(* A registered voter has some weight.                                      *)
SplitInit ==
  /\ amount \in Amounts /\ cappedWeight \in CappedWeights
  /\ nodeWeights \in [1 .. Nodes -> NodeWeightSet]
  /\ cappedWeight + SumOf(nodeWeights) > 0
  /\ delegationFeeBips \in FeeBips /\ fip16 \in BOOLEAN
  /\ accuracy \in BOOLEAN /\ (fip16 => ~accuracy)
  /\ stage = "split" /\ node = 1
  /\ fee = 0 /\ wnat = 0 /\ mirror = [n \in 1 .. Nodes |-> 0]
  /\ remainingStakeAmount = 0 /\ remainingStakeWeight = 0

StakingAmount(a) == (a * EffectiveStakedWeight) \div (cappedWeight + EffectiveStakedWeight)
DelegationFee(a) == (a * delegationFeeBips) \div TotalBips
UncappedFee(a) == (a * delegationFeeBips) \div TotalBips \* faulty
StakingFee(a) == (a * Min({delegationFeeBips, CappedStakingFeeBips})) \div TotalBips

(* generateClaimsForVoter: the fee, and the rest for the delegators.         *)
ParticipationSplit ==
  /\ stage = "split" /\ accuracy
  /\ fee' = DelegationFee(amount) /\ wnat' = amount - DelegationFee(amount)
  /\ stage' = "done"
  /\ UNCHANGED <<call, node, mirror, remainingStakeAmount, remainingStakeWeight>>

(* The fee is taken from both parts, from the stakers' at a capped rate.     *)
SplitFee ==
  /\ stage = "split" /\ ~accuracy
  /\ LET stakingAmount == StakingAmount(amount)
         delegationAmount == amount - stakingAmount
     IN  /\ fee' = DelegationFee(delegationAmount) + StakingFee(stakingAmount)
         /\ wnat' = delegationAmount - DelegationFee(delegationAmount)
         /\ remainingStakeAmount' = stakingAmount - StakingFee(stakingAmount)
  /\ remainingStakeWeight' = stakedWeight
  /\ stage' = "nodes"
  /\ UNCHANGED <<call, node, mirror>>

(* Faulty: all the rounding is left to the last node.                        *)
RestToLastNode ==
  CASE node = Nodes -> remainingStakeAmount
    [] node < Nodes /\ nodeWeights[node] = 0 -> 0
    [] OTHER -> (nodeWeights[node] * (remainingStakeAmount + SumOf(mirror))) \div stakedWeight

(* The node's part of what is left.                                          *)
NodeAmount ==
  IF nodeWeights[node] > 0 THEN (remainingStakeAmount * nodeWeights[node]) \div remainingStakeWeight ELSE 0

NodeClaim ==
  /\ stage = "nodes" /\ node <= Nodes
  /\ mirror' = [mirror EXCEPT ![node] = NodeAmount]
  /\ remainingStakeAmount' = remainingStakeAmount - NodeAmount
  /\ remainingStakeWeight' = remainingStakeWeight - nodeWeights[node]
  /\ node' = node + 1
  /\ UNCHANGED <<call, stage, fee, wnat>>

(* "remainingStakeAmount is not zero, this should never happen"              *)
NodesDone ==
  /\ stage = "nodes" /\ node > Nodes
  /\ stage' = IF remainingStakeAmount = 0 THEN "done" ELSE "fatal"
  /\ UNCHANGED <<call, node, fee, wnat, mirror, remainingStakeAmount, remainingStakeWeight>>

SplitNext == ParticipationSplit \/ SplitFee \/ NodeClaim \/ NodesDone

SplitSpec == SplitInit /\ [][SplitNext]_splitVars
-----------------------------------------------------------------------------
(* Nothing of the amount is lost or made between fee, delegators and stakers *)
(* at any step, and the calculator never stops because a remainder is left   *)
(* when the nodes are done ("remainingStakeAmount is not zero",              *)
(* signing.go:211).                                                         *)
Conserved ==
  /\ stage # "split" => fee + wnat + SumOf(mirror) + remainingStakeAmount = amount
  /\ stage # "fatal"

(* A penalty no larger than a reward is no larger in any of its parts: set    *)
(* against each other by beneficiary and type (ApplyPenalties), it takes       *)
(* exactly its amount and leaves no part with a penalty that nothing pays.    *)
PenaltyFits ==
  stage = "done" /\ ~accuracy => \A penalty \in 0 .. amount :
    LET stakingAmount == StakingAmount(penalty)
        delegationAmount == penalty - stakingAmount
        parts == PortionsOf(nodeWeights, stakingAmount - StakingFee(stakingAmount))
    IN  /\ DelegationFee(delegationAmount) + StakingFee(stakingAmount) <= fee
        /\ delegationAmount - DelegationFee(delegationAmount) <= wnat
        /\ \A n \in 1 .. Nodes : parts[n] <= mirror[n]

(* The capped fee protects stakers, never delegators: as a group the stakers *)
(* get at least the part of their weight that is left by the capped rate, up *)
(* to the rounding of the split.                                            *)
StakersFloor ==
  stage = "done" /\ ~accuracy =>
    (SumOf(mirror) + 1) * TotalBips * (cappedWeight + EffectiveStakedWeight)
      >= amount * EffectiveStakedWeight * (TotalBips - CappedStakingFeeBips)
         - TotalBips * (cappedWeight + EffectiveStakedWeight)
=============================================================================
