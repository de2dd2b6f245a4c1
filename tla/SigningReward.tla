---------------------------- MODULE SigningReward ----------------------------
(***************************************************************************)
(* The signing reward of one round: the signature messages of the chain    *)
(* are sorted by the hash they sign (GetSignersByRound in                  *)
(* common/ftso/round.go) and the reward is split over the signatures of    *)
(* the finalized hash (getSigningClaims in rewards/signing.go).  FtsoRound  *)
(* composes it with the other rewards of the round.                        *)
(***************************************************************************)
EXTENDS RoundChain, FiniteSetsExt, Portions

CONSTANTS PolicyOrder,   \* the voters in signing policy order
          PolicyWeight,  \* their signing policy weights
          Reward,        \* the signing reward of the round
          RoundReward,   \* the whole reward of the round
          PenaltyWeight, \* capped delegation weights before FIP.16, policy weights after
          PenaltyFactor

Consensus == "consensus"  \* hash of the successful finalization
Wrong == "wrong"          \* WrongSignatureIndicatorMessageHash, the zero hash

VARIABLES eligibleVoters, \* voters with a median reward
          phase,     \* "chain", "signers", "done" or "fatal"
          signers,   \* hash -> voter -> second of the retained signature
          finality,  \* second of the first successful finalization, or -1
          paid,      \* wei claimed for each voter
          burned

signingVars == <<phase, signers, finality, paid, burned>>

EmptyMap == [x \in {} |-> 0]

SigningInit ==
  /\ phase = "chain"
  /\ signers = [h \in {Consensus, Wrong} |-> EmptyMap]
  /\ finality = -1
  /\ paid = [v \in Voters |-> 0]
  /\ burned = 0

(* The hash a signature is filed under.  Without a finalized hash every      *)
(* signature is checked against the zero hash, and is wrong.                 *)
SignedHash(m) == IF m.good /\ finality' >= 0 THEN Consensus ELSE Wrong

(* GetSignersByRound: of the signatures of a voter under one hash the first  *)
(* is kept.                                                                 *)
FirstSignatures(hash) ==
  LET messages == ExtractSignatures
      filed(v) == {n \in DOMAIN messages : messages[n].from = v /\ SignedHash(messages[n]) = hash}
  IN  [v \in {v \in Voters : filed(v) # {}} |-> messages[Min(filed(v))].ts]

(* Everything is indexed: finalizations and signatures are read. *)
GetSignersByRound ==
  /\ phase = "chain" /\ now = LastSecond /\ Readable
  /\ LET fs == GetFinalizationsByRound
         n == FirstSuccessful(fs)
     IN  finality' = IF n = 0 THEN -1 ELSE fs[n].ts
  /\ signers' = [hash \in DOMAIN signers |-> FirstSignatures(hash)]
  /\ phase' = "signers"
  /\ UNCHANGED <<chainVars, paid, burned>>

Unreadable ==
  /\ phase = "chain" /\ now = LastSecond /\ ~Readable
  /\ phase' = "fatal"
  /\ UNCHANGED <<chainVars, eligibleVoters, signers, finality, paid, burned>>

(* getDoubleSigners: a retained signature under more than one hash. *)
NobodyTwice == {} \* faulty
DoubleSigners == DOMAIN signers[Consensus] \cap DOMAIN signers[Wrong]

(* getPenalties: double signers owe a multiple of what their weight is worth *)
(* of the round's whole reward.                                             *)
TotalPenaltyWeight == SumFunctionOnSet(PenaltyWeight, Voters)
Penalty(v) ==
  IF v \in DoubleSigners THEN (PenaltyWeight[v] * RoundReward * PenaltyFactor) \div TotalPenaltyWeight ELSE 0

(* The signatures that draw: after the reveal deadline, and in the grace     *)
(* period or no later than the finalization.  The bound roundEnd of          *)
(* signing.go:26, the end of epoch r + 2, is later than any message read.    *)
GraceOnly == RevealDeadline + GracePeriodSignatures \* faulty
Deadline == IF finality < EpochEnd THEN finality ELSE EpochEnd

RewardEligible(v) ==
  /\ v \in DOMAIN signers[Consensus] \ DoubleSigners
  /\ LET ts == signers[Consensus][v]
     IN  /\ RevealDeadline < ts
         /\ ts <= RevealDeadline + GracePeriodSignatures \/ ts <= Deadline

RewardEligibleSigs == AtPositions(PolicyOrder, {n \in DOMAIN PolicyOrder : RewardEligible(PolicyOrder[n])})

(* getSigningClaims: a signature draws by its policy weight, and its share   *)
(* is burned if the voter has no median reward.                              *)
SigningClaims ==
  /\ phase = "signers"
  /\ phase' = "done"
  /\ LET sig == RewardEligibleSigs
         weights == [n \in DOMAIN sig |-> PolicyWeight[sig[n]]]
         portion == PortionsOf(weights, Reward)
         PortionOf(v) == SumOf([n \in DOMAIN sig |-> IF sig[n] = v THEN portion[n] ELSE 0])
     IN  IF finality < 0 \/ SumOf(weights) = 0
           THEN burned' = Reward /\ UNCHANGED paid
           ELSE /\ paid' = [v \in Voters |-> IF v \in eligibleVoters THEN PortionOf(v) ELSE 0]
                /\ burned' = SumFunctionOnSet([v \in Voters |-> PortionOf(v)], Voters \ eligibleVoters)
  /\ UNCHANGED <<chainVars, eligibleVoters, signers, finality>>
-----------------------------------------------------------------------------
(* Every wei of the signing reward is claimed once, for a voter or for the   *)
(* burn address, whatever was sent and whenever it was sent.                 *)
SigningConserved ==
  phase = "done" => burned + SumFunctionOnSet(paid, Voters) = Reward

(* What a voter sent for the round, in time to be read.                      *)
Sent(v) == {m \in ToSet(ExtractSignatures) : m.from = v}
Good(v) == {m \in Sent(v) : m.good}
Timely(m) == RevealDeadline < m.ts /\ (m.ts <= RevealDeadline + GracePeriodSignatures \/ m.ts <= finality)

(* Nobody is paid for a round that was not finalized, for a signature that   *)
(* came only before the reveal deadline or too late, or after signing two    *)
(* different results (signing.go:71 and the comment at signing.go:34).       *)
PaidOnlyIfDeserved ==
  phase = "done" => \A v \in Voters : paid[v] > 0 =>
    /\ finality >= 0
    /\ Sent(v) = Good(v)
    /\ \E m \in Good(v) : Timely(m)

(* A voter with a median reward that signed only the finalized result, and   *)
(* in time, gets at least its share by weight in the whole signing policy and *)
(* owes no penalty: what the others do can only add to it.                   *)
HonestGetsShare ==
  phase = "done" /\ finality >= 0 => \A v \in eligibleVoters :
    (Sent(v) # {} /\ \A m \in Sent(v) : m.good /\ Timely(m))
    => /\ paid[v] >= (Reward * PolicyWeight[v]) \div SumFunctionOnSet(PolicyWeight, Voters)
       /\ Penalty(v) = 0
=============================================================================
