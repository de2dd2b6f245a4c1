------------------------------ MODULE FtsoRound ------------------------------
(***************************************************************************)
(* One round of FTSO as GetFtsoRewards (rewards/ftso.go) calculates it: the *)
(* messages of the chain are read once, and the reward of the voters that  *)
(* earned a median reward (MedianReward) decides who shares in the signing *)
(* and the finalization reward.                                            *)
(***************************************************************************)
EXTENDS RoundChain, FiniteSetsExt

CONSTANTS PolicyOrder, PolicyWeight,
          SigningPart, FinalizationPart, \* the two parts of the round's reward
          RoundReward, PenaltyWeight, PenaltyFactor,
          Outcomes  \* the sets of voters with earnings, and those drawn, that are tried

ASSUME RewardsAssumption == {SigningPart, FinalizationPart, RoundReward, PenaltyFactor} \subseteq Nat

(* Every voter has one place in the policy, and somebody has weight; somebody *)
(* is always drawn.                                                         *)
ASSUME VotersAssumption ==
  /\ PolicyOrder \in Seq(Voters)
  /\ \A v \in Voters : \E n \in DOMAIN PolicyOrder : PolicyOrder[n] = v
  /\ \A n, m \in DOMAIN PolicyOrder : PolicyOrder[n] = PolicyOrder[m] => n = m
  /\ PolicyWeight \in [Voters -> Nat] /\ \E v \in Voters : PolicyWeight[v] > 0
  /\ PenaltyWeight \in [Voters -> Nat]
  /\ \A o \in Outcomes : o.eligible \subseteq Voters /\ o.drawn \in (SUBSET Voters) \ {{}}

VARIABLES eligibleVoters,  \* voters with a median reward
          signingPhase, signers, finality, signingPaid, signingBurned,
          finalizationPhase, finalizations, finalizers, i,
          undistributedAmount, undistributedWeight, finalizationPaid, finalizationBurned

Signing == INSTANCE SigningReward WITH
  phase <- signingPhase, paid <- signingPaid, burned <- signingBurned, Reward <- SigningPart

Finalization == INSTANCE FinalizationReward WITH
  phase <- finalizationPhase, paid <- finalizationPaid, burned <- finalizationBurned,
  Reward <- FinalizationPart

signingVars == <<signingPhase, signers, finality, signingPaid, signingBurned>>
finalizationVars == <<finalizationPhase, finalizations, finalizers, i, undistributedAmount,
                      undistributedWeight, finalizationPaid, finalizationBurned>>
vars == <<chainVars, eligibleVoters, signingVars, finalizationVars>>

Init ==
  /\ ChainInit
  /\ eligibleVoters = {}
  /\ Signing!SigningInit /\ Finalization!FinalizationInit

Chain ==
  /\ signingPhase = "chain" /\ ChainNext
  /\ UNCHANGED <<eligibleVoters, signingVars, finalizationVars>>

(* Everything is indexed: the messages are read, the medians calculated.     *)
ReadRound ==
  /\ Signing!GetSignersByRound
  /\ Finalization!ReadFinalizations
  /\ \E o \in Outcomes : eligibleVoters' = o.eligible /\ finalizers' = o.drawn

Unreadable ==
  /\ Signing!Unreadable
  /\ UNCHANGED finalizationVars

SigningClaims ==
  /\ Signing!SigningClaims
  /\ UNCHANGED finalizationVars

(* getFinalizationClaims *)
Finalizing == signingPhase = "done" /\ UNCHANGED signingVars
BurnReward == Finalizing /\ Finalization!BurnReward
PayFirst == Finalizing /\ Finalization!PayFirst
StartSharing == Finalizing /\ Finalization!StartSharing
PassOver == Finalizing /\ Finalization!PassOver
Share == Finalizing /\ Finalization!Share
BurnRest == Finalizing /\ Finalization!BurnRest

Next ==
  \/ Chain \/ ReadRound \/ Unreadable
  \/ SigningClaims
  \/ BurnReward \/ PayFirst \/ StartSharing \/ PassOver \/ Share \/ BurnRest

Spec == Init /\ [][Next]_vars
-----------------------------------------------------------------------------
(* Every wei of the signing and of the finalization reward is claimed once,  *)
(* whatever was sent and whenever: for a voter, a finalizer or the burn      *)
(* address.                                                                 *)
RoundConserved == Signing!SigningConserved /\ Finalization!FinalizationConserved

(* Nobody is paid for signing a round that was not finalized, for a          *)
(* signature out of time, or after signing two different results.           *)
PaidOnlyIfDeserved == Signing!PaidOnlyIfDeserved

(* A voter with a median reward that signed only the finalized result, and   *)
(* in time, gets its share by weight at least and owes no penalty, whatever   *)
(* the others send.                                                         *)
HonestGetsShare == Signing!HonestGetsShare

(* Finalizers paid in the grace period are paid alike, and only drawn ones.  *)
EqualShares == Finalization!EqualShares

(* Later calls take nothing from a drawn finalizer that was the first one.   *)
FirstCallerPaid == Finalization!FirstCallerPaid

(* What the calculator takes for a finalization is signed by different       *)
(* voters of the policy with more than the threshold of weight, in whatever  *)
(* order and however often the call lists them.                             *)
Signed(call) == {call.list[n].index : n \in {n \in DOMAIN call.list : call.list[n].valid}}
EnoughSigners ==
  \A n \in DOMAIN finalizations :
    SumFunctionOnSet(SignerWeight, Signed(finalizations[n].call)) > Threshold
=============================================================================
