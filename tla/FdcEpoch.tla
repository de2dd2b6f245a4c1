------------------------------ MODULE FdcEpoch ------------------------------
(***************************************************************************)
(* The FDC rewards of a reward epoch (GetFdcRewards in rewards/fdc.go).    *)
(* Voters submit bit votes for a round's attestation requests and then     *)
(* sign its result, each signature with the bit vote it is for.  From the  *)
(* signatures of the finalized result the calculator finds the consensus   *)
(* bit vote, which says which requests are confirmed, who is rewarded and  *)
(* who is an offender.  Funds are inflation, given to all rounds alike, and*)
(* the fees of the round's requests.                                       *)
(* What a voter sends for a round is a history of messages in chain order; *)
(* the order of messages of different voters is of no consequence.         *)
(***************************************************************************)
EXTENDS Portions, FiniteSetsExt, Functions, Subsequences

CONSTANTS PolicyOrder,     \* the voters in signing policy order
          PolicyWeight,    \* their signing policy weights
          Rounds,          \* the rounds of the reward epoch are 1 .. Rounds
          RevealDeadline,  \* last second for bit votes, in voting epoch r + 1
          GracePeriodEnd,  \* RevealDeadline + GracePeriodForSignaturesDurationSec
          EpochEnd,        \* last second of voting epoch r + 1
          BitVoteHistories, SignatureHistories, \* round -> histories a voter may have
          OtherSignatures, \* round -> histories of senders that are not registered
          Finalities,      \* round -> seconds of a first successful finalization, or -1
          RequestLists,    \* round -> attestation requests, in chain order
          Inflations,      \* lists of the epoch's inflation offers
          FinalizationBips, FireFeeSplitBips, TotalBips,
          BurnPpm, TotalPpm, \* 200000, 1000000
          PenaltyFactor

Round == 1 .. Rounds

(* Seconds are counted from the start of voting epoch r + 1.  The signatures *)
(* and finalizations of all rounds are fetched at once, from the second after*)
(* the reveal deadline of the first round on (GetSubmitSignatures): of the   *)
(* first round nothing earlier is seen, of the others everything.           *)
QueryFrom(r) == IF r = 1 THEN RevealDeadline + 1 ELSE 0
Voters == ToSet(PolicyOrder)
TotalWeight == SumFunctionOnSet(PolicyWeight, Voters)

ASSUME FdcUnitsAssumption ==
  /\ TotalBips \in Nat \ {0} /\ FinalizationBips \in 0 .. TotalBips /\ FireFeeSplitBips \in 0 .. TotalBips
  /\ TotalPpm \in Nat \ {0} /\ BurnPpm \in 0 .. TotalPpm
  /\ Rounds \in Nat \ {0} /\ PenaltyFactor \in Nat

(* A voter is once in the policy, and somebody has weight. *)
ASSUME FdcPolicyAssumption ==
  /\ PolicyOrder \in Seq(Voters)
  /\ \A m, n \in DOMAIN PolicyOrder : PolicyOrder[m] = PolicyOrder[n] => m = n
  /\ PolicyWeight \in [Voters -> Nat] /\ \E v \in Voters : PolicyWeight[v] > 0

(* What is sent comes in sequences, and fees and offers are natural numbers.  *)
ASSUME FdcInputsAssumption ==
  /\ RevealDeadline \in Nat /\ EpochEnd \in Nat
  /\ \A r \in Round :
       /\ \A history \in BitVoteHistories[r] \cup SignatureHistories[r] : history \in Seq(ToSet(history))
       /\ \A history \in SignatureHistories[r] \cup OtherSignatures[r] :
            \A m \in ToSet(history) : m.sig \in {"good", "bad", "broken", "unreadable"}
       /\ Finalities[r] \subseteq (QueryFrom(r) .. EpochEnd) \cup {-1}
       /\ \A list \in RequestLists[r] : list \in Seq(ToSet(list)) /\ \A e \in ToSet(list) : e.fee \in Nat
  /\ \A offers \in Inflations : offers # <<>> =>
       /\ offers[1].amount \in Nat /\ offers[1].configurations \in Seq(ToSet(offers[1].configurations))
       /\ \A config \in ToSet(offers[1].configurations) : config.share \in Nat

(* A bit vote is the set of the requests it confirms, by position.           *)
None == {0}       \* no bit vote
Short == {0, 1}   \* a payload too short for one

VARIABLES phase,       \* "read", "rewards", "claim", "done" or "fatal"
          round,       \* the round the loop is at
          sent,        \* round -> what was sent for it
          consensus,   \* consensusBitVoteByRound
          countByType, \* confirmed requests of each attestation type
          offer, fip16, \* the inflation offers, and whether FIP.16 is active
          roundReward, \* round -> amount, burn, fire
          claims       \* round -> what was claimed

vars == <<phase, round, sent, consensus, countByType, offer, fip16, roundReward, claims>>

Init ==
  /\ phase = "read" /\ round = 1
  /\ sent = <<>> /\ consensus = <<>> /\ countByType = [t \in {} |-> 0]
  /\ offer = <<>> /\ fip16 = FALSE
  /\ roundReward = <<>> /\ claims = <<>>
-----------------------------------------------------------------------------
(* ExtractBitVotes: the last one that is in time and can be decoded counts.  *)
LateBitVote(s, v) == \* faulty: without the deadline
  LET known == {n \in DOMAIN s.bitVotes[v] : s.bitVotes[v][n].bits # Short}
  IN  IF known = {} THEN None ELSE s.bitVotes[v][Max(known)].bits
BitVoteOf(s, v) ==
  LET history == s.bitVotes[v]
      known == {n \in DOMAIN history : history[n].ts <= RevealDeadline /\ history[n].bits # Short}
  IN  IF known = {} THEN None ELSE history[Max(known)].bits

Dominates(bits, c) == bits # None /\ c # None /\ c \subseteq bits

(* The hash a signature is filed under: without a finalization it is checked *)
(* against the zero hash, which is also the indicator of a wrong signature.  *)
ZeroHash == "zero"
ConsensusHash(s) == IF s.finality >= 0 THEN "root" ELSE ZeroHash
SignedHash(s, m) == IF m.sig = "good" THEN ConsensusHash(s) ELSE ZeroHash

(* ExtractFdcSignatures, GetSignersByRound: the first signature of a voter   *)
(* under each hash; one from which no key can be recovered is skipped.       *)
Seen(s, m) == s.from <= m.ts /\ m.ts <= EpochEnd
FiledUnder(s, v, hash) ==
  LET history == s.sigs[v]
  IN  {n \in DOMAIN history : Seen(s, history[n]) /\ history[n].sig # "broken" /\ SignedHash(s, history[n]) = hash}
Signers(s, hash) ==
  [v \in {v \in Voters : FiledUnder(s, v, hash) # {}} |-> s.sigs[v][Min(FiledUnder(s, v, hash))]]
ConsensusSigs(s) == Signers(s, ConsensusHash(s))

(* The vote of most weight; of several, the one whose decimal text comes     *)
(* first, which is the smallest number while there are fewer than 4 requests.*)
Decimal(bits) == SumFunctionOnSet([n \in bits |-> 2 ^ (n - 1)], bits)
WeightFor(sigs, bits) == SumFunctionOnSet(PolicyWeight, {v \in DOMAIN sigs : sigs[v].bits = bits})

AnyWeight(sigs) == \* faulty: not the heaviest
  LET votes == {sigs[v].bits : v \in DOMAIN sigs} \ {Short}
  IN  IF votes = {} THEN None ELSE CHOOSE b \in votes : \A c \in votes \ {b} : Decimal(b) < Decimal(c)

ConsensusBitVote(sigs) ==
  LET votes == {sigs[v].bits : v \in DOMAIN sigs} \ {Short}
      heaviest == {b \in votes : \A c \in votes : WeightFor(sigs, c) <= WeightFor(sigs, b)}
  IN  IF votes = {} THEN None ELSE CHOOSE b \in heaviest : \A c \in heaviest \ {b} : Decimal(b) < Decimal(c)

(* mergeDuplicates: requests with the same data are one, with all the fees,  *)
(* at the place of the first.                                               *)
FirstOfData(events) == {n \in DOMAIN events : \A m \in 1 .. n - 1 : events[m].data # events[n].data}
DropDuplicates(events) == AtPositions(events, FirstOfData(events)) \* faulty
MergedFee(events, data) ==
  SumFunctionOnSet([n \in DOMAIN events |-> events[n].fee], {n \in DOMAIN events : events[n].data = data})
MergeDuplicates(events) ==
  AtPositions([n \in DOMAIN events |-> [data |-> events[n].data, type |-> events[n].type,
                                       fee |-> MergedFee(events, events[n].data)]],
              FirstOfData(events))

IsConfirmed(n, c) == c # None /\ n \in c
Requests(r) == MergeDuplicates(sent[r].requests)

(* A request of at least 64 bytes has an attestation type. *)
CountTypes(counts, requests, c) ==
  LET confirmed == {n \in DOMAIN requests : IsConfirmed(n, c) /\ requests[n].type # "malformed"}
      types == {requests[n].type : n \in confirmed}
  IN  [t \in DOMAIN counts \cup types |->
         (IF t \in DOMAIN counts THEN counts[t] ELSE 0) + Cardinality({n \in confirmed : requests[n].type = t})]

(* The messages are decoded before it is looked at who sent them: an empty   *)
(* one, or one of a type other than 0 and 1, stops the program.              *)
Readable(s, history) == \A m \in ToSet(history) : Seen(s, m) => m.sig # "unreadable"

(* The first loop of GetFdcRewards: one round's consensus bit vote.          *)
ReadRound ==
  /\ phase = "read" /\ round <= Rounds
  /\ \E bitVotes \in [Voters -> BitVoteHistories[round]], sigs \in [Voters -> SignatureHistories[round]],
        others \in OtherSignatures[round], finality \in Finalities[round], requests \in RequestLists[round] :
       LET s == [bitVotes |-> bitVotes, sigs |-> sigs, from |-> QueryFrom(round),
                 finality |-> finality, requests |-> requests]
       IN  /\ Readable(s, others) /\ \A v \in Voters : Readable(s, sigs[v])
           /\ sent' = Append(sent, s)
  /\ consensus' = Append(consensus, ConsensusBitVote(ConsensusSigs(sent'[round])))
  /\ countByType' = CountTypes(countByType, MergeDuplicates(sent'[round].requests), consensus'[round])
  /\ round' = round + 1
  /\ UNCHANGED <<phase, offer, fip16, roundReward, claims>>

Unreadable ==
  /\ phase = "read" /\ round <= Rounds
  /\ \E history \in SignatureHistories[round] \cup OtherSignatures[round] :
       ~Readable([from |-> QueryFrom(round)], history)
  /\ phase' = "fatal"
  /\ UNCHANGED <<round, sent, consensus, countByType, offer, fip16, roundReward, claims>>

ReadDone ==
  /\ phase = "read" /\ round > Rounds
  /\ phase' = "rewards"
  /\ UNCHANGED <<round, sent, consensus, countByType, offer, fip16, roundReward, claims>>
-----------------------------------------------------------------------------
(* calculateFdcRoundRewards: the inflation of the types that were not asked  *)
(* for often enough is burned; the rest, and what is burned, is divided by   *)
(* the rounds.  The first offer of the epoch counts, if there is one.        *)
Count(t) == IF t \in DOMAIN countByType THEN countByType[t] ELSE 0
Amount(offers) == IF offers = <<>> THEN 0 ELSE offers[1].amount
Share(configs, S) == SumFunctionOnSet([n \in DOMAIN configs |-> configs[n].share], S)
TotalShare(offers) == Share(offers[1].configurations, DOMAIN offers[1].configurations)
BurnShare(offers) ==
  IF offers = <<>> THEN 0
  ELSE LET configs == offers[1].configurations
           unpopular == {n \in DOMAIN configs : Count(configs[n].type) < configs[n].minRequests}
       IN  (Share(configs, unpopular) * Amount(offers)) \div TotalShare(offers)

Fees(r, confirmed) ==
  LET requests == Requests(r)
  IN  SumFunctionOnSet([n \in DOMAIN requests |-> requests[n].fee],
                       {n \in DOMAIN requests : IsConfirmed(n, consensus[r]) <=> confirmed})

FireShare(r, active) == IF active THEN (Fees(r, TRUE) * FireFeeSplitBips) \div TotalBips ELSE 0

RewardOf(o, r, active) ==
  [amount |-> EqualPart(Amount(o) - BurnShare(o), Rounds, r - 1) + Fees(r, TRUE) - FireShare(r, active),
   burn |-> EqualPart(BurnShare(o), Rounds, r - 1) + Fees(r, FALSE),
   fire |-> FireShare(r, active)]

(* An offer whose configurations have no share: a division by zero.          *)
Divides(offers) == offers # <<>> => TotalShare(offers) > 0

CalculateFdcRoundRewards ==
  /\ phase = "rewards"
  /\ offer' \in Inflations /\ fip16' \in BOOLEAN /\ Divides(offer')
  /\ roundReward' = [r \in Round |-> RewardOf(offer', r, fip16')]
  /\ phase' = "claim" /\ round' = 1
  /\ UNCHANGED <<sent, consensus, countByType, claims>>

NoShares ==
  /\ phase = "rewards" /\ \E offers \in Inflations : ~Divides(offers)
  /\ phase' = "fatal"
  /\ UNCHANGED <<round, sent, consensus, countByType, offer, fip16, roundReward, claims>>
-----------------------------------------------------------------------------
(* generateFdcSigningClaims: who signed in the grace period, or no later     *)
(* than the round was finalized, draws its part of the whole policy; a fifth *)
(* of it is burned if the voter's own bit vote lacks a confirmed request.    *)
Deadline(s) == Min({s.finality, EpochEnd})
OnTime(s, m) == m.ts <= GracePeriodEnd \/ m.ts <= Deadline(s)
SignersToReward(s) == {v \in DOMAIN ConsensusSigs(s) : OnTime(s, ConsensusSigs(s)[v])}

(* The loop starts with the weight of the whole policy: who does not draw    *)
(* leaves its part to a last entry, which is burned.                         *)
Drawing(s) ==
  [n \in DOMAIN PolicyOrder |-> IF PolicyOrder[n] \in SignersToReward(s) THEN PolicyWeight[PolicyOrder[n]] ELSE 0]
DrawnFrom(s, reward) == LeftAfter(Append(Drawing(s), TotalWeight - SumOf(Drawing(s))), reward)

Nobody == [v \in Voters |-> 0]
Position(v) == CHOOSE n \in DOMAIN PolicyOrder : PolicyOrder[n] = v

SigningClaims(s, c, reward) ==
  LET left == DrawnFrom(s, reward)
      share(n) == left[n - 1] - left[n]
      burn(n) == IF Dominates(BitVoteOf(s, PolicyOrder[n]), c) THEN 0 ELSE (share(n) * BurnPpm) \div TotalPpm
  IN  IF c \in {None, {}} THEN [paid |-> Nobody, burned |-> reward]
      ELSE [paid |-> [v \in Voters |-> share(Position(v)) - burn(Position(v))],
            burned |-> SumOf([n \in DOMAIN PolicyOrder |-> burn(n)]) + left[Len(PolicyOrder)]]

(* getOffenders: a bit vote for all that was confirmed and no signature, a   *)
(* signature for another bit vote, a signature of something else.            *)
WrongSigners(s) == DOMAIN Signers(s, ZeroHash)
OtherBitVote(s, c) == {v \in DOMAIN ConsensusSigs(s) : ConsensusSigs(s)[v].bits # c}
Withheld(s, c) == {v \in Voters : Dominates(BitVoteOf(s, v), c)} \ DOMAIN ConsensusSigs(s)
SilentOffend(s, c) == \* faulty: not signing is an offence
  IF c = None THEN WrongSigners(s) ELSE WrongSigners(s) \cup OtherBitVote(s, c) \cup (Voters \ DOMAIN ConsensusSigs(s))
Offenders(s, c) ==
  IF c = None THEN WrongSigners(s) ELSE WrongSigners(s) \cup OtherBitVote(s, c) \cup Withheld(s, c)

(* getFdcPenalties: of the round's whole reward, with the penalty factor.    *)
PenaltyOf(v, reward) == (PolicyWeight[v] * reward * PenaltyFactor) \div TotalWeight
Penalties(s, c, reward) == [v \in Voters |-> IF v \in Offenders(s, c) THEN PenaltyOf(v, reward) ELSE 0]

(* The second loop: a round that was not finalized is burned; of the others  *)
(* the finalization reward is claimed as a whole (FinalizationReward).       *)
FinalizationPart(amount) == (amount * FinalizationBips) \div TotalBips

BurnRound ==
  /\ phase = "claim" /\ round <= Rounds /\ sent[round].finality < 0
  /\ claims' = Append(claims, [paid |-> Nobody, burned |-> roundReward[round].burn + roundReward[round].amount,
                               fire |-> roundReward[round].fire, finalization |-> 0, penalties |-> Nobody])
  /\ round' = round + 1
  /\ UNCHANGED <<phase, sent, consensus, countByType, offer, fip16, roundReward>>

ClaimRound ==
  /\ phase = "claim" /\ round <= Rounds /\ sent[round].finality >= 0
  /\ LET reward == roundReward[round]
         signing == SigningClaims(sent[round], consensus[round], reward.amount - FinalizationPart(reward.amount))
     IN  claims' = Append(claims, [paid |-> signing.paid, burned |-> reward.burn + signing.burned,
                                   fire |-> reward.fire, finalization |-> FinalizationPart(reward.amount),
                                   penalties |-> Penalties(sent[round], consensus[round], reward.amount)])
  /\ round' = round + 1
  /\ UNCHANGED <<phase, sent, consensus, countByType, offer, fip16, roundReward>>

(* selectFinalizers may refuse the threshold it is configured with. *)
NoFinalizers ==
  /\ phase = "claim" /\ round <= Rounds /\ sent[round].finality >= 0
  /\ phase' = "fatal"
  /\ UNCHANGED <<round, sent, consensus, countByType, offer, fip16, roundReward, claims>>

ClaimsDone ==
  /\ phase = "claim" /\ round > Rounds
  /\ phase' = "done"
  /\ UNCHANGED <<round, sent, consensus, countByType, offer, fip16, roundReward, claims>>

Next ==
  \/ ReadRound \/ Unreadable \/ ReadDone
  \/ CalculateFdcRoundRewards \/ NoShares
  \/ BurnRound \/ ClaimRound \/ NoFinalizers \/ ClaimsDone

Spec == Init /\ [][Next]_vars
-----------------------------------------------------------------------------
(* All of the inflation and every fee anybody paid, also the second fee for  *)
(* the same request, is claimed once: for voters, finalizers, the FIRE pool  *)
(* or the burn address.                                                     *)
Claimed(c) == SumOf([n \in DOMAIN PolicyOrder |-> c.paid[PolicyOrder[n]]]) + c.burned + c.fire + c.finalization
FeesPaid(s) == SumOf([n \in DOMAIN s.requests |-> s.requests[n].fee])

FdcConserved ==
  phase = "done" =>
    SumOf([r \in Round |-> Claimed(claims[r])]) = Amount(offer) + SumOf([r \in Round |-> FeesPaid(sent[r])])

(* What a voter sent that is seen for the round: v follows the bit vote c if  *)
(* all of its signatures are good and for c.                                *)
Sent(s, v) == {m \in ToSet(s.sigs[v]) : Seen(s, m) /\ m.sig # "broken"}
InTime(s, v) == {b.bits : b \in {b \in ToSet(s.bitVotes[v]) : b.ts <= RevealDeadline}} \ {Short}
Follows(s, v, c) == Sent(s, v) # {} /\ \A m \in Sent(s, v) : m.sig = "good" /\ m.bits = c

(* If more than half of the weight signs the finalized result with one bit   *)
(* vote, that is the consensus bit vote: the others can send what they like. *)
MajorityDecides ==
  \A r \in DOMAIN consensus : sent[r].finality >= 0 =>
    \A c \in SUBSET (1 .. Len(sent[r].requests)) :
      2 * SumFunctionOnSet(PolicyWeight, {v \in Voters : Follows(sent[r], v, c)}) > TotalWeight
      => consensus[r] = c

(* A voter that follows the consensus bit vote in the grace period, after a  *)
(* bit vote for all that was confirmed, draws at least its share by weight   *)
(* of the signing reward, and is not penalised.                             *)
FollowerPaid ==
  \A r \in DOMAIN claims : (sent[r].finality >= 0 /\ consensus[r] \notin {None, {}}) =>
    \A v \in Voters :
      (/\ Follows(sent[r], v, consensus[r])
       /\ \A m \in Sent(sent[r], v) : m.ts <= GracePeriodEnd
       /\ InTime(sent[r], v) # {}
       /\ \A b \in InTime(sent[r], v) : consensus[r] \subseteq b)
      => /\ claims[r].paid[v] >= ((roundReward[r].amount - claims[r].finalization) * PolicyWeight[v]) \div TotalWeight
         /\ claims[r].penalties[v] = 0

(* A voter is penalised only for what it did: for a signature of another     *)
(* result or for another bit vote, or for not signing what its own bit vote  *)
(* had promised.  One that sent nothing at all is not.                      *)
PenalisedForCause ==
  \A r \in DOMAIN claims : \A v \in Voters : claims[r].penalties[v] > 0 =>
    /\ sent[r].finality >= 0
    /\ \/ \E m \in Sent(sent[r], v) : m.sig = "bad" \/ m.bits # consensus[r]
       \/ \E b \in InTime(sent[r], v) : consensus[r] \subseteq b
=============================================================================
