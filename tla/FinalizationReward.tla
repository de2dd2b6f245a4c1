-------------------------- MODULE FinalizationReward --------------------------
(***************************************************************************)
(* The finalization reward of one round of FTSO or FDC: the relay calls of  *)
(* the chain are listed, one per sender (GetFinalizationsByRound in         *)
(* common/fsp/round.go), and getFinalizationClaims (rewards/finalization.go)*)
(* divides the reward over the finalizers that were drawn for the round.    *)
(***************************************************************************)
EXTENDS RoundChain, FiniteSetsExt

CONSTANT Reward   \* the finalization reward of the round

VARIABLES eligibleVoters, \* voters that earned in this round (FTSO), or all (FDC)
          phase,          \* "chain", "claims", "pay" or "done"
          finalizations,  \* the round's finalizations, one per sender
          finalizers,     \* eligibleFinalizers, the voters drawn for the round
          i,              \* the grace finalization the loop is at
          undistributedAmount, undistributedWeight,
          paid,           \* wei claimed for each sender
          burned

drawn == <<finalizations, finalizers>>
inputs == <<drawn, eligibleVoters>>
claims == <<undistributedAmount, undistributedWeight, paid, burned>>
finalizationVars == <<phase, drawn, i, claims>>

FinalizationInit ==
  /\ phase = "chain"
  /\ finalizations = <<>> /\ finalizers = {}
  /\ i = 1
  /\ undistributedAmount = Reward /\ undistributedWeight = 0
  /\ paid = [s \in Senders |-> 0] /\ burned = 0

(* selectFinalizers draws voters until a weight threshold is passed: there   *)
(* is always one.                                                           *)
ReadFinalizations ==
  /\ phase = "chain" /\ now = LastSecond
  /\ phase' = "claims"
  /\ finalizations' = GetFinalizationsByRound
  /\ finalizers' \in (SUBSET Voters) \ {{}}
  /\ UNCHANGED <<chainVars, i, claims>>

First == FirstSuccessful(finalizations)
GraceDeadline == RevealDeadline + GracePeriodFinalization + 1
Late == First > 0 /\ finalizations[First].ts > GraceDeadline
BeforeDeadline == \* faulty
  AtPositions(finalizations, {n \in DOMAIN finalizations :
                                finalizations[n].from \in finalizers /\ finalizations[n].ts < GraceDeadline})
graceFinalizations ==
  AtPositions(finalizations, {n \in DOMAIN finalizations :
                                finalizations[n].from \in finalizers /\ finalizations[n].ts <= GraceDeadline})

(* Nobody finalized the round, or nobody who is to be paid for it. *)
BurnReward ==
  /\ phase = "claims"
  /\ First = 0 \/ (~Late /\ (graceFinalizations = <<>> \/ eligibleVoters = {}))
  /\ phase' = "done"
  /\ burned' = Reward /\ undistributedAmount' = 0
  /\ UNCHANGED <<chainVars, inputs, i, undistributedWeight, paid>>

(* No success in the grace period: the first one takes everything, whoever   *)
(* sent it.                                                                 *)
PayFirst ==
  /\ phase = "claims" /\ Late
  /\ phase' = "done"
  /\ paid' = [paid EXCEPT ![finalizations[First].from] = Reward]
  /\ undistributedAmount' = 0
  /\ UNCHANGED <<chainVars, inputs, i, undistributedWeight, burned>>

StartSharing ==
  /\ phase = "claims" /\ First > 0 /\ ~Late
  /\ graceFinalizations # <<>> /\ eligibleVoters # {}
  /\ phase' = "pay"
  /\ undistributedWeight' = Cardinality(finalizers)
  /\ UNCHANGED <<chainVars, inputs, i, undistributedAmount, paid, burned>>

AtFinalizer == graceFinalizations[i].from

ClaimAmount == undistributedAmount \div undistributedWeight

(* Faulty: a finalizer without earnings draws all the same.                  *)
PassOverCounted ==
  /\ phase = "pay" /\ i <= Len(graceFinalizations) /\ AtFinalizer \notin eligibleVoters
  /\ i' = i + 1
  /\ undistributedWeight' = undistributedWeight - 1
  /\ UNCHANGED <<chainVars, phase, inputs, undistributedAmount, paid, burned>>

(* One drawn finalizer: an equal part of what is left, or nothing.           *)
PassOver ==
  /\ phase = "pay" /\ i <= Len(graceFinalizations) /\ AtFinalizer \notin eligibleVoters
  /\ i' = i + 1
  /\ UNCHANGED <<chainVars, phase, inputs, claims>>

Share ==
  /\ phase = "pay" /\ i <= Len(graceFinalizations) /\ AtFinalizer \in eligibleVoters
  /\ undistributedAmount' = undistributedAmount - ClaimAmount
  /\ paid' = [paid EXCEPT ![AtFinalizer] = @ + ClaimAmount]
  /\ undistributedWeight' = undistributedWeight - 1
  /\ i' = i + 1
  /\ UNCHANGED <<chainVars, phase, inputs, burned>>

(* Faulty: what is left is forgotten.                                        *)
ForgetRest ==
  /\ phase = "pay" /\ i > Len(graceFinalizations)
  /\ phase' = "done" /\ undistributedAmount' = 0
  /\ UNCHANGED <<chainVars, inputs, i, undistributedWeight, paid, burned>>

BurnRest ==
  /\ phase = "pay" /\ i > Len(graceFinalizations)
  /\ phase' = "done"
  /\ burned' = undistributedAmount /\ undistributedAmount' = 0
  /\ UNCHANGED <<chainVars, inputs, i, undistributedWeight, paid>>
-----------------------------------------------------------------------------
(* At every step, what is claimed for accounts, what is burned and what is    *)
(* left add up to the reward.                                               *)
FinalizationConserved ==
  /\ undistributedAmount + burned + SumFunctionOnSet(paid, Senders) = Reward
  /\ phase = "done" => undistributedAmount = 0

(* In the grace period all that are paid are paid alike, up to one wei, and  *)
(* for nobody does the share depend on how many others answered: it is the   *)
(* reward divided by the number of the drawn finalizers.                     *)
EqualShares ==
  phase = "done" /\ ~Late => \A s \in Senders : paid[s] > 0 =>
    /\ s \in finalizers \cap eligibleVoters
    /\ paid[s] \in {Reward \div Cardinality(finalizers), Reward \div Cardinality(finalizers) + 1}

(* A drawn finalizer with earnings in the round that called before anybody   *)
(* else did, in the grace period, is paid its share no matter what the       *)
(* others send: later calls neither take nor delay it.                       *)
FirstCallerPaid ==
  phase = "done" /\ finalizations # <<>> =>
    LET f == finalizations[1]
    IN  (~f.reverted /\ f.ts <= GraceDeadline /\ f.from \in finalizers \cap eligibleVoters)
        => paid[f.from] = Reward \div Cardinality(finalizers)
=============================================================================
