--------------------------- MODULE FdcEpochProofs ---------------------------
(***************************************************************************)
(* The FDC rewards of a reward epoch, for policies, epochs and offers of     *)
(* every size and whatever the voters send.                                  *)
(***************************************************************************)
EXTENDS FdcEpoch, FoldLemmas

IsSequence(s) == s \in Seq(ToSet(s))

(* What may be sent for a round, and what is read of it.                     *)
SentFor(r) ==
  {s \in [bitVotes : [Voters -> BitVoteHistories[r]], sigs : [Voters -> SignatureHistories[r]],
          from : {QueryFrom(r)}, finality : Finalities[r], requests : RequestLists[r]] :
     \A v \in Voters : Readable(s, s.sigs[v])}
ReadSoFar ==
  /\ IsSequence(sent) /\ IsSequence(consensus)
  /\ phase = "read" => Len(sent) = round - 1
  /\ Len(sent) <= Rounds /\ Len(consensus) = Len(sent)
  /\ phase \in {"rewards", "claim", "done"} \/ claims # <<>> => Len(sent) = Rounds
  /\ \A r \in 1 .. Len(sent) : sent[r] \in SentFor(r) /\ consensus[r] = ConsensusBitVote(ConsensusSigs(sent[r]))

(* The claims for a round, from what was read of all.                        *)
ClaimsOf(r) ==
  LET reward == roundReward[r]
      signing == SigningClaims(sent[r], consensus[r], reward.amount - FinalizationPart(reward.amount))
  IN  IF sent[r].finality < 0
        THEN [paid |-> Nobody, burned |-> reward.burn + reward.amount,
              fire |-> reward.fire, finalization |-> 0, penalties |-> Nobody]
        ELSE [paid |-> signing.paid, burned |-> reward.burn + signing.burned,
              fire |-> reward.fire, finalization |-> FinalizationPart(reward.amount),
              penalties |-> Penalties(sent[r], consensus[r], reward.amount)]
ClaimedSoFar ==
  /\ IsSequence(claims)
  /\ phase \in {"read", "rewards"} => claims = <<>>
  /\ phase \in {"claim", "done"} \/ claims # <<>> =>
       /\ offer \in Inflations /\ Divides(offer) /\ fip16 \in BOOLEAN
       /\ roundReward = [r \in Round |-> RewardOf(offer, r, fip16)]
       /\ Len(claims) = round - 1
       /\ \A r \in 1 .. Len(claims) : claims[r] = ClaimsOf(r)
  /\ phase = "done" => round = Rounds + 1

TypeOK ==
  /\ phase \in {"read", "rewards", "claim", "done", "fatal"}
  /\ round \in 1 .. Rounds + 1

IInv == TypeOK /\ ReadSoFar /\ ClaimedSoFar
-----------------------------------------------------------------------------
LEMMA Appended ==
  ASSUME NEW s, IsSequence(s), NEW e
  PROVE  /\ IsSequence(Append(s, e)) /\ Len(Append(s, e)) = Len(s) + 1
         /\ \A n \in 1 .. Len(s) : Append(s, e)[n] = s[n]
         /\ Append(s, e)[Len(s) + 1] = e
<1> DEFINE S == ToSet(s) \cup {e}   t == Append(s, e)
<1>1. s \in Seq(S) /\ Len(s) \in Nat
  BY DEF IsSequence
<1>2. t \in Seq(S) /\ Len(t) = Len(s) + 1 /\ (\A n \in 1 .. Len(s) : t[n] = s[n]) /\ t[Len(s) + 1] = e
  BY <1>1
<1> HIDE DEF t, S
<1>3. DOMAIN t = 1 .. Len(t) /\ t = [n \in 1 .. Len(t) |-> t[n]] /\ Len(t) \in Nat
  BY <1>2
<1>4. \A n \in 1 .. Len(t) : t[n] \in ToSet(t)
  BY <1>3 DEF ToSet
<1>5. t \in Seq(ToSet(t))
  BY <1>3, <1>4
<1> QED
  BY <1>2, <1>5 DEF t, IsSequence

LEMMA InitIInv == Init => IInv
<1> SUFFICES ASSUME Init PROVE IInv
  OBVIOUS
<1> USE DEF Init
<1>1. TypeOK
  BY FdcUnitsAssumption DEF TypeOK
<1>2. IsSequence(<<>>) /\ Len(<<>>) = 0
  BY DEF IsSequence
<1>3. ReadSoFar
  <2>1. \A r \in 1 .. Len(sent) : sent[r] \in SentFor(r) /\ consensus[r] = ConsensusBitVote(ConsensusSigs(sent[r]))
    BY <1>2
  <2> QED
    BY <1>2, <2>1, FdcUnitsAssumption DEF ReadSoFar
<1>4. ClaimedSoFar
  BY <1>2 DEF ClaimedSoFar
<1> QED
  BY <1>1, <1>3, <1>4 DEF IInv

LEMMA NextIInv == IInv /\ [Next]_vars => IInv'
<1> SUFFICES ASSUME IInv, [Next]_vars PROVE IInv'
  OBVIOUS
<1> USE FdcUnitsAssumption
<1>1. CASE ReadRound
  <2>1. PICK s \in SentFor(round) :
          /\ sent' = Append(sent, s)
          /\ consensus' = Append(consensus, ConsensusBitVote(ConsensusSigs(sent'[round])))
    BY <1>1, Zenon DEF ReadRound, SentFor
  <2>2. phase = "read" /\ round <= Rounds /\ round' = round + 1
        /\ UNCHANGED <<phase, offer, fip16, roundReward, claims>>
    BY <1>1 DEF ReadRound
  <2>3. round \in 1 .. Rounds + 1 /\ Len(sent) = round - 1 /\ Len(consensus) = round - 1
        /\ IsSequence(sent) /\ IsSequence(consensus)
    BY <2>2 DEF IInv, TypeOK, ReadSoFar
  <2>4. /\ IsSequence(sent') /\ Len(sent') = round /\ (\A r \in 1 .. round - 1 : sent'[r] = sent[r]) /\ sent'[round] = s
        /\ IsSequence(consensus') /\ Len(consensus') = round
        /\ (\A r \in 1 .. round - 1 : consensus'[r] = consensus[r])
        /\ consensus'[round] = ConsensusBitVote(ConsensusSigs(sent'[round]))
    BY <2>1, <2>3, Appended
  <2>5. ASSUME NEW r \in 1 .. Len(sent')
        PROVE  sent'[r] \in SentFor(r) /\ consensus'[r] = ConsensusBitVote(ConsensusSigs(sent'[r]))
    <3>1. CASE r = round
      BY <2>4, <3>1
    <3>2. CASE r # round
      <4>1. r \in 1 .. round - 1
        BY <2>3, <2>4, <3>2
      <4> QED
        BY <2>3, <2>4, <4>1 DEF IInv, ReadSoFar
    <3> QED
      BY <3>1, <3>2
  <2>6. ReadSoFar'
    <3>1. claims' = <<>> /\ phase' = "read"
      BY <2>2 DEF IInv, ClaimedSoFar
    <3>2. Len(sent') = round' - 1 /\ Len(sent') <= Rounds /\ Len(consensus') = Len(sent')
      BY <2>2, <2>3, <2>4, FdcUnitsAssumption
    <3>3. IsSequence(sent)' /\ IsSequence(consensus)'
      BY <2>4
    <3> QED
      BY <2>5, <3>1, <3>2, <3>3 DEF ReadSoFar
  <2>7. TypeOK' /\ ClaimedSoFar'
    BY <2>2, <2>3 DEF IInv, TypeOK, ClaimedSoFar
  <2> QED
    BY <2>6, <2>7 DEF IInv
<1>2. CASE ReadDone
  <2>1. phase = "read" /\ phase' = "rewards" /\ round > Rounds /\ UNCHANGED <<round, sent, consensus, claims>>
    BY <1>2 DEF ReadDone
  <2>2. round - 1 = Rounds
    BY <2>1 DEF IInv, TypeOK
  <2> QED
    BY <2>1, <2>2 DEF IInv, TypeOK, ReadSoFar, ClaimedSoFar
<1>3. CASE CalculateFdcRoundRewards
  <2>1. phase = "rewards" /\ phase' = "claim" /\ round' = 1 /\ UNCHANGED <<sent, consensus, countByType, claims>>
        /\ offer' \in Inflations /\ Divides(offer') /\ fip16' \in BOOLEAN
    BY <1>3 DEF CalculateFdcRoundRewards
  <2>2. roundReward' = [r \in Round |-> RewardOf(offer', r, fip16')]
    BY <1>3 DEF CalculateFdcRoundRewards
  <2>3. \A r \in Round : RewardOf(offer, r, fip16)' = RewardOf(offer', r, fip16')
    BY <2>1 DEF RewardOf, BurnShare, Amount, Share, TotalShare, Count, Fees, FireShare, Requests
  <2>4. claims = <<>> /\ Len(<<>>) = 0
    BY <2>1 DEF IInv, ClaimedSoFar
  <2>5. ClaimedSoFar'
    BY <2>1, <2>2, <2>3, <2>4 DEF IInv, ClaimedSoFar
  <2> QED
    BY <2>1, <2>5 DEF IInv, TypeOK, ReadSoFar
<1>4. CASE BurnRound \/ ClaimRound
  <2>1. phase = "claim" /\ round <= Rounds /\ round' = round + 1
        /\ UNCHANGED <<phase, sent, consensus, countByType, offer, fip16, roundReward>>
    BY <1>4 DEF BurnRound, ClaimRound
  <2>2. claims' = Append(claims, ClaimsOf(round))
    <3>1. CASE BurnRound
      <4>1. sent[round].finality < 0
        BY <3>1 DEF BurnRound
      <4>2. ClaimsOf(round) = [paid |-> Nobody, burned |-> roundReward[round].burn + roundReward[round].amount,
                               fire |-> roundReward[round].fire, finalization |-> 0, penalties |-> Nobody]
        BY <4>1 DEF ClaimsOf
      <4> QED
        BY <3>1, <4>2 DEF BurnRound
    <3>2. CASE ClaimRound
      <4>1. ~(sent[round].finality < 0)
        <5>1. sent[round].finality \in Int
          BY <2>1, <3>2, FdcInputsAssumption DEF IInv, TypeOK, ReadSoFar, SentFor, Round
        <5> QED
          BY <3>2, <5>1 DEF ClaimRound
      <4> QED
        BY <3>2, <4>1, Zenon DEF ClaimRound, ClaimsOf
    <3> QED
      BY <1>4, <3>1, <3>2
  <2>3. IsSequence(claims) /\ Len(claims) = round - 1 /\ round \in 1 .. Rounds + 1
    BY <2>1 DEF IInv, ClaimedSoFar, TypeOK
  <2>4. IsSequence(claims') /\ Len(claims') = round /\ (\A r \in 1 .. round - 1 : claims'[r] = claims[r])
        /\ claims'[round] = ClaimsOf(round)
    BY <2>2, <2>3, Appended
  <2>5. \A r : ClaimsOf(r)' = ClaimsOf(r)
    BY <2>1 DEF ClaimsOf
  <2>6. \A r : RewardOf(offer, r, fip16)' = RewardOf(offer, r, fip16)
    BY <2>1 DEF RewardOf, BurnShare, Amount, Share, TotalShare, Count, Fees, FireShare, Requests
  <2>7. \A r \in 1 .. Len(claims') : claims'[r] = ClaimsOf(r)
    BY <2>1, <2>3, <2>4 DEF IInv, ClaimedSoFar
  <2>8. ClaimedSoFar'
    BY <2>1, <2>3, <2>4, <2>5, <2>6, <2>7 DEF IInv, ClaimedSoFar
  <2> QED
    BY <2>1, <2>3, <2>8 DEF IInv, TypeOK, ReadSoFar
<1>5. CASE Unreadable \/ NoShares \/ NoFinalizers \/ ClaimsDone \/ UNCHANGED vars
  <2>1. UNCHANGED <<round, sent, consensus, countByType, offer, fip16, roundReward, claims>>
        /\ (phase' = phase \/ phase' = "fatal" \/ (phase = "claim" /\ phase' = "done" /\ round > Rounds))
    BY <1>5 DEF Unreadable, NoShares, NoFinalizers, ClaimsDone, vars
  <2>2. \A r : ClaimsOf(r)' = ClaimsOf(r)
    BY <2>1 DEF ClaimsOf
  <2>3. \A r : RewardOf(offer, r, fip16)' = RewardOf(offer, r, fip16)
    BY <2>1 DEF RewardOf, BurnShare, Amount, Share, TotalShare, Count, Fees, FireShare, Requests
  <2>4. ClaimedSoFar'
    BY <2>1, <2>2, <2>3 DEF IInv, TypeOK, ClaimedSoFar
  <2> QED
    BY <2>1, <2>4 DEF IInv, TypeOK, ReadSoFar
<1> QED
  BY <1>1, <1>2, <1>3, <1>4, <1>5 DEF Next

LEMMA SpecIInv == Spec => []IInv
BY InitIInv, NextIInv, PTL DEF Spec
-----------------------------------------------------------------------------
LEMMA Policy ==
  /\ IsFiniteSet(Voters) /\ \A v \in Voters : PolicyWeight[v] \in Nat
  /\ PolicyOrder \in Seq(Voters) /\ TotalWeight \in Nat /\ TotalWeight > 0
<1>1. PolicyOrder \in Seq(Voters) /\ PolicyWeight \in [Voters -> Nat]
  BY FdcPolicyAssumption
<1>2. IsFiniteSet(Voters)
  <2>1. 1 \in Int /\ Len(PolicyOrder) \in Int /\ DOMAIN PolicyOrder = 1 .. Len(PolicyOrder)
    BY <1>1
  <2>2. IsFiniteSet(DOMAIN PolicyOrder)
    BY <2>1, FS_Interval
  <2>3. PolicyOrder \in Surjection(DOMAIN PolicyOrder, Voters)
    BY <1>1 DEF Surjection, Voters, ToSet
  <2> QED
    BY <2>2, <2>3, FS_Surjection
<1>3. TotalWeight \in Nat /\ \A v \in Voters : PolicyWeight[v] <= TotalWeight
  BY <1>1, <1>2, SumNat DEF TotalWeight
<1>4. TotalWeight > 0
  BY <1>1, <1>3, FdcPolicyAssumption
<1> QED
  BY <1>1, <1>2, <1>3, <1>4

LEMMA Histories ==
  ASSUME NEW r \in Round, NEW s \in SentFor(r), NEW v \in Voters
  PROVE  /\ IsSequence(s.bitVotes[v]) /\ IsSequence(s.sigs[v])
         /\ \A m \in ToSet(s.sigs[v]) : Seen(s, m) => m.sig \in {"good", "bad", "broken"}
<1>1. s.bitVotes \in [Voters -> BitVoteHistories[r]] /\ s.sigs \in [Voters -> SignatureHistories[r]]
  BY DEF SentFor
<1>2. s.bitVotes[v] \in BitVoteHistories[r] /\ s.sigs[v] \in SignatureHistories[r]
  BY <1>1
<1> QED
  BY <1>2, FdcInputsAssumption DEF IsSequence, SentFor, Readable

(* The bit vote that counts is one of those in time. *)
LEMMA BitVoteInTime ==
  ASSUME NEW r \in Round, NEW s \in SentFor(r), NEW v \in Voters
  PROVE  /\ BitVoteOf(s, v) # None => BitVoteOf(s, v) \in InTime(s, v)
         /\ InTime(s, v) # {} => BitVoteOf(s, v) \in InTime(s, v)
<1> DEFINE history == s.bitVotes[v]
           known == {n \in DOMAIN history : history[n].ts <= RevealDeadline /\ history[n].bits # Short}
<1>1. IsSequence(history)
  BY Histories
<1>2. Len(history) \in Nat /\ DOMAIN history = 1 .. Len(history)
  BY <1>1 DEF IsSequence
<1>3. BitVoteOf(s, v) = IF known = {} THEN None ELSE history[Max(known)].bits
  BY DEF BitVoteOf
<1>4. InTime(s, v) = {history[n].bits : n \in known}
  BY DEF InTime, ToSet
<1>5. known \in SUBSET (1 .. Len(history))
  BY <1>2
<1> HIDE DEF known, history
<1>6. known # {} => Max(known) \in known
  BY <1>2, <1>5, MaxOfPositions
<1> QED
  BY <1>3, <1>4, <1>6

(* A voter is a signer under a hash if it sent a signature for it. *)
LEMMA SignersSpec ==
  ASSUME NEW r \in Round, NEW s \in SentFor(r), NEW hash, NEW v \in Voters
  PROVE  /\ v \in DOMAIN Signers(s, hash) <=> \E m \in Sent(s, v) : SignedHash(s, m) = hash
         /\ v \in DOMAIN Signers(s, hash) =>
              Signers(s, hash)[v] \in Sent(s, v) /\ SignedHash(s, Signers(s, hash)[v]) = hash
<1> DEFINE history == s.sigs[v]
           filed == FiledUnder(s, v, hash)
<1>1. IsSequence(history)
  BY Histories
<1>2. Len(history) \in Nat /\ DOMAIN history = 1 .. Len(history)
  BY <1>1 DEF IsSequence
<1>3. filed = {n \in DOMAIN history : history[n] \in Sent(s, v) /\ SignedHash(s, history[n]) = hash}
  BY DEF FiledUnder, Sent, ToSet
<1>4. \A m \in Sent(s, v) : \E n \in DOMAIN history : history[n] = m
  BY DEF Sent, ToSet
<1>5. v \in DOMAIN Signers(s, hash) <=> filed # {}
  BY DEF Signers
<1>6. v \in DOMAIN Signers(s, hash) => Signers(s, hash)[v] = history[Min(filed)]
  BY DEF Signers
<1>7. filed \in SUBSET Nat
  BY <1>2, <1>3
<1> HIDE DEF filed, history
<1>8. filed # {} => Min(filed) \in filed
  BY <1>7, MinOfNat
<1> QED
  BY <1>3, <1>4, <1>5, <1>6, <1>8

LEMMA SignersAreVoters ==
  ASSUME NEW s, NEW hash
  PROVE  DOMAIN Signers(s, hash) \subseteq Voters
BY DEF Signers

LEMMA FinalizedSignature ==
  ASSUME NEW r \in Round, NEW s \in SentFor(r), s.finality >= 0, NEW v \in Voters, NEW m \in Sent(s, v)
  PROVE  /\ SignedHash(s, m) = ConsensusHash(s) <=> m.sig = "good"
         /\ SignedHash(s, m) = ZeroHash <=> m.sig = "bad"
<1>1. m \in ToSet(s.sigs[v]) /\ Seen(s, m) /\ m.sig # "broken"
  BY DEF Sent
<1>2. m.sig \in {"good", "bad"}
  BY <1>1, Histories
<1> QED
  BY <1>2 DEF SignedHash, ConsensusHash, ZeroHash

LEMMA ReadOf ==
  ASSUME IInv, NEW r \in DOMAIN sent
  PROVE  r \in Round /\ sent[r] \in SentFor(r) /\ sent[r].finality \in Int
<1>1. r \in 1 .. Len(sent) /\ Len(sent) <= Rounds /\ Len(sent) \in Nat
  BY FdcUnitsAssumption DEF IInv, TypeOK, ReadSoFar, IsSequence
<1>2. r \in Round /\ sent[r] \in SentFor(r)
  BY <1>1, FdcUnitsAssumption DEF IInv, ReadSoFar, Round
<1>3. sent[r].finality \in Finalities[r]
  BY <1>2 DEF SentFor
<1> QED
  BY <1>2, <1>3, FdcInputsAssumption

LEMMA ClaimedOf ==
  ASSUME IInv, NEW r \in DOMAIN claims
  PROVE  /\ r \in DOMAIN sent /\ r \in Round /\ claims[r] = ClaimsOf(r)
         /\ offer \in Inflations /\ Divides(offer) /\ fip16 \in BOOLEAN
         /\ roundReward[r] = RewardOf(offer, r, fip16)
<1>1. claims # <<>> /\ r \in 1 .. Len(claims) /\ Len(claims) \in Nat
  <2>1. claims \in Seq(ToSet(claims))
    BY DEF IInv, ClaimedSoFar, IsSequence
  <2> QED
    BY <2>1
<1>2. Len(claims) = round - 1 /\ round \in 1 .. Rounds + 1 /\ Len(sent) = Rounds
  BY <1>1 DEF IInv, TypeOK, ClaimedSoFar, ReadSoFar
<1>3. r \in Round
  BY <1>1, <1>2, FdcUnitsAssumption DEF Round
<1>4. DOMAIN sent = 1 .. Len(sent)
  BY DEF IInv, ReadSoFar, IsSequence
<1> QED
  BY <1>1, <1>2, <1>3, <1>4 DEF IInv, ClaimedSoFar, Round
-----------------------------------------------------------------------------
(* A voter is penalised only for a signature of another result or for        *)
(* another bit vote, or for not signing what its bit vote had promised       *)
(* (getOffenders, getFdcPenalties).                                         *)
THEOREM PenaltiesHaveCause == Spec => []PenalisedForCause
<1>1. IInv => PenalisedForCause
  <2> SUFFICES ASSUME IInv, NEW r \in DOMAIN claims, NEW v \in Voters, claims[r].penalties[v] > 0
               PROVE  /\ sent[r].finality >= 0
                      /\ \/ \E m \in Sent(sent[r], v) : m.sig = "bad" \/ m.bits # consensus[r]
                         \/ \E b \in InTime(sent[r], v) : consensus[r] \subseteq b
    BY DEF PenalisedForCause
  <2> DEFINE s == sent[r]   c == consensus[r]
  <2>1. r \in Round /\ s \in SentFor(r) /\ s.finality \in Int /\ claims[r] = ClaimsOf(r)
    BY ReadOf, ClaimedOf
  <2>2. s.finality >= 0 /\ v \in Offenders(s, c)
    <3>1. s.finality < 0 => claims[r].penalties = Nobody
      BY <2>1 DEF ClaimsOf
    <3>2. ~(s.finality < 0) => claims[r].penalties = Penalties(s, c, roundReward[r].amount)
      BY <2>1 DEF ClaimsOf
    <3>3. claims[r].penalties[v] # 0
      OBVIOUS
    <3>4. ~(s.finality < 0)
      BY <3>1, <3>3 DEF Nobody
    <3> QED
      BY <2>1, <3>2, <3>3, <3>4 DEF Penalties
  <2> HIDE DEF s, c
  <2>3. v \in WrongSigners(s) \/ v \in OtherBitVote(s, c) \/ v \in Withheld(s, c)
    BY <2>2 DEF Offenders
  <2>4. CASE v \in WrongSigners(s)
    <3>1. PICK m \in Sent(s, v) : SignedHash(s, m) = ZeroHash
      BY <2>1, <2>4, SignersSpec DEF WrongSigners
    <3>2. m.sig = "bad"
      BY <2>1, <2>2, <3>1, FinalizedSignature
    <3> QED
      BY <2>2, <3>2 DEF s, c
  <2>5. CASE v \in OtherBitVote(s, c)
    <3>1. v \in DOMAIN Signers(s, ConsensusHash(s)) /\ Signers(s, ConsensusHash(s))[v].bits # c
      BY <2>5 DEF OtherBitVote, ConsensusSigs
    <3>2. Signers(s, ConsensusHash(s))[v] \in Sent(s, v)
      BY <2>1, <3>1, SignersSpec
    <3> QED
      BY <2>2, <3>1, <3>2 DEF s, c
  <2>6. CASE v \in Withheld(s, c)
    <3>1. BitVoteOf(s, v) # None /\ c \subseteq BitVoteOf(s, v)
      BY <2>6 DEF Withheld, Dominates
    <3>2. BitVoteOf(s, v) \in InTime(s, v)
      BY <2>1, <3>1, BitVoteInTime
    <3> QED
      BY <2>2, <3>1, <3>2 DEF s, c
  <2> QED
    BY <2>3, <2>4, <2>5, <2>6
<1> QED
  BY <1>1, SpecIInv, PTL
-----------------------------------------------------------------------------
LEMMA FollowerSigns ==
  ASSUME NEW r \in Round, NEW s \in SentFor(r), s.finality >= 0, NEW v \in Voters, NEW c, Follows(s, v, c)
  PROVE  /\ v \in DOMAIN ConsensusSigs(s) /\ ConsensusSigs(s)[v] \in Sent(s, v) /\ ConsensusSigs(s)[v].bits = c
         /\ v \notin WrongSigners(s)
<1>1. PICK m \in Sent(s, v) : m.sig = "good"
  BY DEF Follows
<1>2. SignedHash(s, m) = ConsensusHash(s)
  BY <1>1, FinalizedSignature
<1>3. v \in DOMAIN ConsensusSigs(s) /\ ConsensusSigs(s)[v] \in Sent(s, v)
  BY <1>2, SignersSpec DEF ConsensusSigs
<1>4. \A n \in Sent(s, v) : SignedHash(s, n) # ZeroHash
  BY FinalizedSignature DEF Follows
<1>5. v \notin WrongSigners(s)
  BY <1>4, SignersSpec DEF WrongSigners
<1> QED
  BY <1>3, <1>5 DEF Follows

(* A bit vote that signers of more than half of the weight sign is heavier   *)
(* than all the others together.                                            *)
LEMMA MajorityIsHeaviest ==
  ASSUME NEW r \in Round, NEW s \in SentFor(r), s.finality >= 0, NEW c, c # Short,
         2 * SumFunctionOnSet(PolicyWeight, {v \in Voters : Follows(s, v, c)}) > TotalWeight
  PROVE  ConsensusBitVote(ConsensusSigs(s)) = c
<1> DEFINE sigs == ConsensusSigs(s)
           Follower == {v \in Voters : Follows(s, v, c)}
           For(b) == {v \in DOMAIN sigs : sigs[v].bits = b}
           votes == {sigs[v].bits : v \in DOMAIN sigs} \ {Short}
           heaviest == {b \in votes : \A d \in votes : WeightFor(sigs, d) <= WeightFor(sigs, b)}
<1>1. Follower \subseteq For(c) /\ \A b : For(b) \subseteq Voters
  BY FollowerSigns, SignersAreVoters DEF ConsensusSigs
<1>2. \A b : WeightFor(sigs, b) = SumFunctionOnSet(PolicyWeight, For(b))
  BY DEF WeightFor
<1>3. ConsensusBitVote(sigs) =
        IF votes = {} THEN None ELSE CHOOSE b \in heaviest : \A d \in heaviest \ {b} : Decimal(b) < Decimal(d)
  BY DEF ConsensusBitVote
<1>4. Follower # {}
  <2>1. 2 * SumFunctionOnSet(PolicyWeight, Follower) > TotalWeight
    OBVIOUS
  <2>2. SumFunctionOnSet(PolicyWeight, {}) = 0
    BY SumEmpty
  <2>3. ~(2 * 0 > TotalWeight)
    BY Policy
  <2> HIDE DEF Follower
  <2> QED
    BY <2>1, <2>2, <2>3
<1>5. c \in votes
  BY <1>1, <1>4
<1>6. \A b \in votes : b # c => For(b) \cap For(c) = {}
  OBVIOUS
<1> HIDE DEF sigs, votes, For
<1>7. IsFiniteSet(For(c)) /\ IsFiniteSet(Voters \ For(c)) /\ \A v \in For(c) : PolicyWeight[v] \in Nat
  BY <1>1, Policy, FS_Subset
<1>8. SumFunctionOnSet(PolicyWeight, Follower) \in Nat
      /\ SumFunctionOnSet(PolicyWeight, Follower) <= SumFunctionOnSet(PolicyWeight, For(c))
  BY <1>1, <1>7, SumSubset
<1>9. TotalWeight = SumFunctionOnSet(PolicyWeight, For(c)) + SumFunctionOnSet(PolicyWeight, Voters \ For(c))
  <2>1. \A v \in Voters : PolicyWeight[v] \in Int
    BY Policy
  <2> QED
    BY <1>1, <2>1, Policy, SumSplit DEF TotalWeight
<1>10. SumFunctionOnSet(PolicyWeight, For(c)) \in Nat
  BY <1>7, SumNat
<1>11. ASSUME NEW b \in votes, b # c
       PROVE  WeightFor(sigs, b) \in Nat /\ WeightFor(sigs, b) < WeightFor(sigs, c)
  <2>1. For(b) \in SUBSET (Voters \ For(c)) /\ \A v \in Voters \ For(c) : PolicyWeight[v] \in Nat
    BY <1>1, <1>6, <1>11, Policy
  <2>2. SumFunctionOnSet(PolicyWeight, For(b)) \in Nat
        /\ SumFunctionOnSet(PolicyWeight, For(b)) <= SumFunctionOnSet(PolicyWeight, Voters \ For(c))
    BY <1>7, <2>1, SumSubset
  <2>3. SumFunctionOnSet(PolicyWeight, Voters \ For(c)) \in Nat
    BY <1>7, <2>1, SumNat
  <2>4. 2 * SumFunctionOnSet(PolicyWeight, Follower) > TotalWeight
    OBVIOUS
  <2> HIDE DEF Follower
  <2> QED
    BY <1>2, <1>8, <1>9, <1>10, <2>2, <2>3, <2>4
<1>12. heaviest = {c}
  <2>1. c \in heaviest
    BY <1>2, <1>5, <1>10, <1>11
  <2>2. \A b \in heaviest : b = c
    BY <1>2, <1>5, <1>10, <1>11
  <2> QED
    BY <2>1, <2>2
<1> HIDE DEF heaviest
<1> QED
  BY <1>3, <1>5, <1>12 DEF sigs

(* If signers of more than half of the weight sign the finalized result with  *)
(* one bit vote, that is the consensus bit vote (getConsensusBitVote).       *)
THEOREM MajorityOfSignersDecides == Spec => []MajorityDecides
<1>1. IInv => MajorityDecides
  <2> SUFFICES ASSUME IInv, NEW r \in DOMAIN consensus, sent[r].finality >= 0,
                      NEW c \in SUBSET (1 .. Len(sent[r].requests)),
                      2 * SumFunctionOnSet(PolicyWeight, {v \in Voters : Follows(sent[r], v, c)}) > TotalWeight
               PROVE  consensus[r] = c
    BY DEF MajorityDecides
  <2>1. r \in 1 .. Len(sent) /\ DOMAIN sent = 1 .. Len(sent)
    BY DEF IInv, ReadSoFar, IsSequence
  <2>2. r \in Round /\ sent[r] \in SentFor(r) /\ consensus[r] = ConsensusBitVote(ConsensusSigs(sent[r]))
    BY <2>1, ReadOf DEF IInv, ReadSoFar
  <2>3. c # Short
    <3>1. 0 \in Short /\ 0 \notin c
      BY DEF Short
    <3> QED
      BY <3>1
  <2> QED
    BY <2>2, <2>3, MajorityIsHeaviest
<1> QED
  BY <1>1, SpecIInv, PTL
-----------------------------------------------------------------------------
(* The requests of a round with the same data are one, with all their fees.  *)
LEMMA MergedFees ==
  ASSUME NEW events, IsSequence(events), \A e \in ToSet(events) : e.fee \in Nat,
         NEW requests, requests = MergeDuplicates(events)
  PROVE  /\ DOMAIN requests = 1 .. Len(requests) /\ IsFiniteSet(DOMAIN requests)
         /\ \A k \in DOMAIN requests : requests[k].fee \in Nat
         /\ SumFunctionOnSet([k \in DOMAIN requests |-> requests[k].fee], DOMAIN requests)
              = SumOf([n \in DOMAIN events |-> events[n].fee])
<1> DEFINE N == Len(events)
           fee == [n \in DOMAIN events |-> events[n].fee]
           Same(d) == {n \in DOMAIN events : events[n].data = d}
           merged == [n \in DOMAIN events |-> [data |-> events[n].data, type |-> events[n].type,
                                               fee |-> MergedFee(events, events[n].data)]]
           P == FirstOfData(events)
<1>1. N \in Nat /\ DOMAIN events = 1 .. N /\ \A n \in 1 .. N : events[n] \in ToSet(events)
  BY DEF IsSequence
<1>2. IsFiniteSet(1 .. N)
  <2>1. 1 \in Int /\ N \in Int
    BY <1>1
  <2> HIDE DEF N
  <2> QED
    BY <2>1, FS_Interval
<1>3. \A n \in 1 .. N : fee[n] = events[n].fee /\ fee[n] \in Nat
  BY <1>1
<1>4. \A n \in 1 .. N : merged[n].fee = SumFunctionOnSet(fee, Same(events[n].data))
  BY <1>1 DEF MergedFee
<1>5. merged \in Seq(ToSet(merged)) /\ Len(merged) = N
  <2>1. \A n \in 1 .. N : merged[n] \in ToSet(merged)
    BY <1>1 DEF ToSet
  <2>2. merged = [n \in 1 .. N |-> merged[n]]
    BY <1>1
  <2> HIDE DEF merged, N
  <2>3. merged \in Seq(ToSet(merged))
    BY <1>1, <2>1, <2>2
  <2>4. DOMAIN merged = 1 .. N
    BY <2>2
  <2> QED
    BY <1>1, <2>3, <2>4
<1>6. requests = AtPositions(merged, P)
  BY DEF MergeDuplicates
<1>7. P = {n \in 1 .. N : \A m \in 1 .. n - 1 : events[m].data # events[n].data}
  BY <1>1 DEF FirstOfData
<1> HIDE DEF merged, P, fee
<1>8. requests \in Seq(ToSet(merged)) /\ \E a : TakenFrom(requests, merged, P, Len(merged), a)
  BY <1>5, <1>6, AtPositionsSpec
<1>9. PICK a : TakenFrom(requests, merged, P, N, a)
  BY <1>5, <1>8
<1> DEFINE K == Len(requests)
<1>10. K \in Nat /\ DOMAIN requests = 1 .. K
  BY <1>8
<1>11. \A k \in 1 .. K : a[k] \in P /\ a[k] \in 1 .. N /\ requests[k] = merged[a[k]]
  BY <1>9 DEF TakenFrom
<1>12. \A n \in 1 .. N : \E k \in 1 .. K : events[a[k]].data = events[n].data
  <2> TAKE n \in 1 .. N
  <2> DEFINE T == {m \in 1 .. N : events[m].data = events[n].data}
  <2>1. T \subseteq Nat /\ n \in T
    OBVIOUS
  <2> HIDE DEF T
  <2>2. PICK m \in T : \A y \in T : m <= y
    BY <2>1, LeastNat
  <2>3. m \in 1 .. N /\ events[m].data = events[n].data
    BY <2>2 DEF T
  <2>4. \A y \in 1 .. m - 1 : events[y].data # events[m].data
    <3> SUFFICES ASSUME NEW y \in 1 .. m - 1, events[y].data = events[m].data PROVE FALSE
      OBVIOUS
    <3>1. y \in 1 .. N /\ ~(m <= y)
      BY <1>1, <2>3
    <3>2. y \in T
      BY <2>3, <3>1 DEF T
    <3> QED
      BY <2>2, <3>1, <3>2
  <2>5. m \in P \cap (1 .. N)
    BY <1>7, <2>3, <2>4
  <2>6. \E k \in 1 .. K : a[k] = m
    BY <1>9, <2>5 DEF TakenFrom
  <2> QED
    BY <2>3, <2>6
<1>13. \A j, k \in 1 .. K : events[a[j]].data = events[a[k]].data => j = k
  <2> SUFFICES ASSUME NEW j \in 1 .. K, NEW k \in 1 .. K, j < k PROVE events[a[j]].data # events[a[k]].data
    BY <1>10
  <2>1. a[j] < a[k]
    BY <1>9 DEF TakenFrom
  <2>2. a[j] \in 1 .. a[k] - 1
    BY <1>1, <1>11, <2>1
  <2> QED
    BY <1>7, <1>11, <2>2
<1> DEFINE at == [n \in 1 .. N |-> CHOOSE k \in 1 .. K : events[a[k]].data = events[n].data]
<1>14. \A n \in 1 .. N : at[n] \in 1 .. K /\ events[a[at[n]]].data = events[n].data
  BY <1>12
<1>15. at \in Seq(1 .. K) /\ Len(at) = N /\ DOMAIN at = 1 .. N
  <2>1. at \in [1 .. N -> 1 .. K]
    BY <1>14
  <2> HIDE DEF at, K, N
  <2>2. DOMAIN at = 1 .. N /\ at = [n \in 1 .. N |-> at[n]] /\ \A n \in 1 .. N : at[n] \in 1 .. K
    BY <2>1
  <2>3. at \in Seq(1 .. K)
    <3> DEFINE V == 1 .. K
    <3>1. \A n \in 1 .. N : at[n] \in V
      BY <2>2
    <3> HIDE DEF V
    <3>2. at \in Seq(V)
      BY <1>1, <2>2, <3>1
    <3> QED
      BY <3>2 DEF V
  <2>4. Len(at) = N
    BY <1>1, <2>2, <2>3
  <2> QED
    BY <2>2, <2>3, <2>4
<1> HIDE DEF at
<1>16. IsFiniteSet(1 .. K)
  <2>1. 1 \in Int /\ K \in Int
    BY <1>10
  <2> HIDE DEF K
  <2> QED
    BY <2>1, FS_Interval
<1> DEFINE own == [k \in DOMAIN requests |-> requests[k].fee]
<1>17. ASSUME NEW k \in 1 .. K
       PROVE  own[k] \in Nat /\ own[k] = SumFunctionOnSet(Owned(at, fee, k), 1 .. N)
  <2> DEFINE T == Same(events[a[k]].data)
  <2>1. own[k] = SumFunctionOnSet(fee, T)
    BY <1>4, <1>10, <1>11
  <2>2. T \in SUBSET (1 .. N)
    BY <1>1
  <2>3. \A n \in 1 .. N : n \in T <=> at[n] = k
    BY <1>1, <1>13, <1>14
  <2> HIDE DEF T, own
  <2>4. \A n \in 1 .. N : Owned(at, fee, k)[n] = IF n \in T THEN fee[n] ELSE 0
    BY <1>15, <2>3 DEF Owned
  <2>5. \A n \in 1 .. N : fee[n] \in Int
    BY <1>3
  <2> DEFINE S == 1 .. N   mine == Owned(at, fee, k)
  <2>6. SumFunctionOnSet(fee, T) = SumFunctionOnSet(mine, S)
    <3>1. IsFiniteSet(S) /\ T \in SUBSET S /\ (\A n \in S : fee[n] \in Int)
          /\ \A n \in S : mine[n] = IF n \in T THEN fee[n] ELSE 0
      BY <1>2, <2>2, <2>4, <2>5
    <3> HIDE DEF S, mine
    <3> QED
      BY <3>1, SumWhere
  <2>7. SumFunctionOnSet(fee, T) \in Nat
    BY <1>2, <1>3, <2>2, SumSubset
  <2> QED
    BY <2>1, <2>6, <2>7
<1>18. SumFunctionOnSet(own, 1 .. K) = SumFunctionOnSet(fee, 1 .. N)
  <2> HIDE DEF own, K, N
  <2>1. \A n \in DOMAIN at : fee[n] \in Int
    BY <1>3, <1>15
  <2>2. \A k \in 1 .. K : own[k] = SumFunctionOnSet(Owned(at, fee, k), 1 .. Len(at))
    BY <1>15, <1>17
  <2> DEFINE V == 1 .. K
  <2>3. IsFiniteSet(V) /\ at \in Seq(V) /\ \A k \in V : own[k] = SumFunctionOnSet(Owned(at, fee, k), 1 .. Len(at))
    BY <1>15, <1>16, <2>2
  <2> HIDE DEF V
  <2>4. SumFunctionOnSet(own, V) = SumFunctionOnSet(fee, 1 .. Len(at))
    BY <2>1, <2>3, SumByOwner
  <2> QED
    BY <1>15, <2>4 DEF V
<1>19. SumOf(fee) = SumFunctionOnSet(fee, 1 .. N)
  <2>1. fee = [n \in 1 .. N |-> fee[n]]
    BY <1>1 DEF fee
  <2>2. fee \in Seq(Int) /\ Len(fee) = N
    BY <1>1, <1>3, <2>1
  <2> QED
    BY <2>2, SumOfIsSum
<1>20. \A k \in DOMAIN requests : requests[k].fee \in Nat
  BY <1>10, <1>17
<1> QED
  BY <1>10, <1>16, <1>18, <1>19, <1>20 DEF fee

LEMMA FeesSpec ==
  ASSUME IInv, NEW r \in DOMAIN sent
  PROVE  /\ Fees(r, TRUE) \in Nat /\ Fees(r, FALSE) \in Nat
         /\ Fees(r, TRUE) + Fees(r, FALSE) = FeesPaid(sent[r]) /\ FeesPaid(sent[r]) \in Nat
<1> DEFINE requests == Requests(r)
           fee == [k \in DOMAIN requests |-> requests[k].fee]
           In(confirmed) == {n \in DOMAIN requests : IsConfirmed(n, consensus[r]) <=> confirmed}
<1>1. sent[r].requests \in RequestLists[r] /\ r \in Round
  BY ReadOf DEF SentFor
<1>2. IsSequence(sent[r].requests) /\ \A e \in ToSet(sent[r].requests) : e.fee \in Nat
  BY <1>1, FdcInputsAssumption DEF IsSequence
<1>3. requests = MergeDuplicates(sent[r].requests)
  BY DEF Requests
<1>4. \A confirmed : Fees(r, confirmed) = SumFunctionOnSet(fee, In(confirmed))
  BY DEF Fees
<1>5. In(TRUE) \in SUBSET DOMAIN requests /\ In(FALSE) = DOMAIN requests \ In(TRUE)
  OBVIOUS
<1> HIDE DEF requests, In
<1>6. /\ IsFiniteSet(DOMAIN requests) /\ \A k \in DOMAIN requests : fee[k] \in Nat
      /\ SumFunctionOnSet(fee, DOMAIN requests) = FeesPaid(sent[r])
  BY <1>2, <1>3, MergedFees DEF FeesPaid
<1> HIDE DEF fee
<1>7. \A k \in DOMAIN requests : fee[k] \in Int
  BY <1>6
<1>8. SumFunctionOnSet(fee, DOMAIN requests)
        = SumFunctionOnSet(fee, In(TRUE)) + SumFunctionOnSet(fee, DOMAIN requests \ In(TRUE))
  BY <1>5, <1>6, <1>7, SumSplit
<1>9. SumFunctionOnSet(fee, In(TRUE)) \in Nat /\ SumFunctionOnSet(fee, In(FALSE)) \in Nat
  BY <1>5, <1>6, SumSubset
<1>10. Fees(r, TRUE) = SumFunctionOnSet(fee, In(TRUE)) /\ Fees(r, FALSE) = SumFunctionOnSet(fee, In(FALSE))
  BY <1>4, Zenon
<1>11. SumFunctionOnSet(fee, In(TRUE)) + SumFunctionOnSet(fee, In(FALSE)) = FeesPaid(sent[r])
  BY <1>5, <1>6, <1>8
<1> DEFINE t == SumFunctionOnSet(fee, In(TRUE))   f == SumFunctionOnSet(fee, In(FALSE))
<1> HIDE DEF t, f
<1>12. t \in Nat /\ f \in Nat /\ t + f = FeesPaid(sent[r])
  BY <1>9, <1>11 DEF t, f
<1>13. FeesPaid(sent[r]) \in Nat
  BY <1>12
<1> QED
  BY <1>10, <1>12, <1>13, Zenon DEF t, f
-----------------------------------------------------------------------------
(* No more is burned of an offer than it has. *)
LEMMA BurnShareSpec ==
  ASSUME NEW o \in Inflations, Divides(o)
  PROVE  Amount(o) \in Nat /\ BurnShare(o) \in 0 .. Amount(o)
<1>1. CASE o = <<>>
  BY <1>1 DEF Amount, BurnShare
<1>2. CASE o # <<>>
  <2> DEFINE configs == o[1].configurations
             share == [n \in DOMAIN configs |-> configs[n].share]
             D == DOMAIN configs
             U == {n \in DOMAIN configs : Count(configs[n].type) < configs[n].minRequests}
  <2>1. Amount(o) \in Nat /\ IsSequence(configs) /\ \A e \in ToSet(configs) : e.share \in Nat
    BY <1>2, FdcInputsAssumption DEF Amount, IsSequence
  <2>2. BurnShare(o) = (SumFunctionOnSet(share, U) * Amount(o)) \div SumFunctionOnSet(share, D)
        /\ SumFunctionOnSet(share, D) > 0
    BY <1>2 DEF BurnShare, Share, TotalShare, Divides
  <2>3. Len(configs) \in Nat /\ D = 1 .. Len(configs) /\ \A n \in D : configs[n] \in ToSet(configs)
    BY <2>1 DEF IsSequence, ToSet
  <2>4. (\A n \in D : share[n] \in Nat) /\ U \in SUBSET D
    BY <2>1, <2>3
  <2>5. IsFiniteSet(D)
    <3>1. 1 \in Int /\ Len(configs) \in Int
      BY <2>3
    <3> QED
      BY <2>3, <3>1, FS_Interval
  <2> HIDE DEF share, D, U, configs
  <2>6. SumFunctionOnSet(share, D) \in Nat
    BY <2>4, <2>5, SumNat
  <2>7. SumFunctionOnSet(share, U) \in Nat /\ SumFunctionOnSet(share, U) <= SumFunctionOnSet(share, D)
    BY <2>4, <2>5, SumSubset
  <2>8. (SumFunctionOnSet(share, U) * Amount(o)) \div SumFunctionOnSet(share, D) \in 0 .. Amount(o)
    BY <2>1, <2>2, <2>6, <2>7, PortionBound
  <2> QED
    BY <2>1, <2>2, <2>8
<1> QED
  BY <1>1, <1>2

(* The three parts of a round's rewards: its parts of the inflation and its   *)
(* fees.                                                                    *)
LEMMA RewardSpec ==
  ASSUME IInv, NEW r \in DOMAIN claims
  PROVE  /\ roundReward[r].amount \in Nat /\ roundReward[r].burn \in Nat /\ roundReward[r].fire \in Nat
         /\ roundReward[r].amount + roundReward[r].burn + roundReward[r].fire
              = EqualPart(Amount(offer) - BurnShare(offer), Rounds, r - 1) + EqualPart(BurnShare(offer), Rounds, r - 1)
                  + FeesPaid(sent[r])
<1> DEFINE a == EqualPart(Amount(offer) - BurnShare(offer), Rounds, r - 1)
           b == EqualPart(BurnShare(offer), Rounds, r - 1)
           f == FireShare(r, fip16)
           confirmed == Fees(r, TRUE)
           others == Fees(r, FALSE)
<1>1. r \in DOMAIN sent /\ r \in Round /\ offer \in Inflations /\ Divides(offer) /\ fip16 \in BOOLEAN
      /\ roundReward[r] = RewardOf(offer, r, fip16)
  BY ClaimedOf
<1>2. confirmed \in Nat /\ others \in Nat /\ confirmed + others = FeesPaid(sent[r])
  BY <1>1, FeesSpec
<1>3. /\ f = IF fip16 THEN (confirmed * FireFeeSplitBips) \div TotalBips ELSE 0
      /\ roundReward[r] = [amount |-> a + confirmed - f, burn |-> b + others, fire |-> f]
  BY <1>1 DEF RewardOf, FireShare
<1> HIDE DEF confirmed, others, f
<1>4. ASSUME NEW pot \in Nat PROVE EqualPart(pot, Rounds, r - 1) \in Nat
  <2> DEFINE part == [n \in 1 .. Rounds |-> EqualPart(pot, Rounds, n - 1)]
  <2>1. Rounds \in Nat \ {0} /\ \A n \in 1 .. Rounds : part[n] = EqualPart(pot, Rounds, n - 1)
    BY FdcUnitsAssumption
  <2>2. part[r] = EqualPart(pot, Rounds, r - 1) /\ r \in 1 .. Rounds
    BY <1>1 DEF Round
  <2> HIDE DEF part
  <2> QED
    BY <2>1, <2>2, EqualPartsSum
<1>5. BurnShare(offer) \in Nat /\ Amount(offer) - BurnShare(offer) \in Nat
  BY <1>1, BurnShareSpec
<1>6. a \in Nat /\ b \in Nat
  BY <1>4, <1>5
<1>7. f \in 0 .. confirmed
  <2>1. CASE fip16
    <3>1. f = (FireFeeSplitBips * confirmed) \div TotalBips
      <4>1. f = (confirmed * FireFeeSplitBips) \div TotalBips
        BY <1>3, <2>1
      <4>2. confirmed * FireFeeSplitBips = FireFeeSplitBips * confirmed
        BY <1>2, FdcUnitsAssumption, SMT
      <4> QED
        BY <4>1, <4>2
    <3>2. FireFeeSplitBips \in Nat /\ TotalBips \in Nat /\ TotalBips > 0 /\ FireFeeSplitBips <= TotalBips
      BY FdcUnitsAssumption
    <3> QED
      BY <1>2, <3>1, <3>2, PortionBound
  <2>2. CASE ~fip16
    BY <1>2, <1>3, <2>2
  <2> QED
    BY <2>1, <2>2
<1>8. /\ roundReward[r].amount = a + confirmed - f
      /\ roundReward[r].burn = b + others
      /\ roundReward[r].fire = f
  BY <1>3
<1> HIDE DEF a, b
<1>9. a + confirmed - f + (b + others) + f = a + b + (confirmed + others)
  BY <1>2, <1>6, <1>7
<1>10. roundReward[r].amount + roundReward[r].burn + roundReward[r].fire = a + b + FeesPaid(sent[r])
  BY <1>2, <1>8, <1>9
<1>11. roundReward[r].amount \in Nat /\ roundReward[r].burn \in Nat /\ roundReward[r].fire \in Nat
  BY <1>2, <1>6, <1>7, <1>8
<1> QED
  BY <1>10, <1>11 DEF a, b

LEMMA FinalizationPartSpec ==
  ASSUME NEW amount \in Nat
  PROVE  FinalizationPart(amount) \in 0 .. amount
<1>1. FinalizationPart(amount) = (FinalizationBips * amount) \div TotalBips
  <2>1. amount * FinalizationBips = FinalizationBips * amount
    BY FdcUnitsAssumption, SMT
  <2> QED
    BY <2>1 DEF FinalizationPart
<1>2. FinalizationBips \in Nat /\ TotalBips \in Nat /\ TotalBips > 0 /\ FinalizationBips <= TotalBips
  BY FdcUnitsAssumption
<1> QED
  BY <1>1, <1>2, PortionBound
-----------------------------------------------------------------------------
Total == [n \in DOMAIN PolicyOrder |-> PolicyWeight[PolicyOrder[n]]]

LEMMA PolicySum ==
  /\ DOMAIN PolicyOrder = 1 .. Len(PolicyOrder) /\ Len(PolicyOrder) \in Nat
  /\ IsFiniteSet(1 .. Len(PolicyOrder))
  /\ \A n \in DOMAIN PolicyOrder : PolicyOrder[n] \in Voters /\ Position(PolicyOrder[n]) = n
  /\ \A v \in Voters : Position(v) \in DOMAIN PolicyOrder /\ PolicyOrder[Position(v)] = v
  /\ TotalWeight = SumFunctionOnSet(Total, 1 .. Len(PolicyOrder))
<1>1. DOMAIN PolicyOrder = 1 .. Len(PolicyOrder) /\ Len(PolicyOrder) \in Nat
      /\ (\A n \in DOMAIN PolicyOrder : PolicyOrder[n] \in Voters)
      /\ \A v \in Voters : \E n \in DOMAIN PolicyOrder : PolicyOrder[n] = v
  BY Policy DEF Voters, ToSet
<1>2. \A m, n \in DOMAIN PolicyOrder : PolicyOrder[m] = PolicyOrder[n] => m = n
  BY FdcPolicyAssumption
<1>3. \A v \in Voters : Position(v) \in DOMAIN PolicyOrder /\ PolicyOrder[Position(v)] = v
  BY <1>1 DEF Position
<1>4. \A n \in DOMAIN PolicyOrder : Position(PolicyOrder[n]) = n
  BY <1>1, <1>2, <1>3
<1>5. IsFiniteSet(1 .. Len(PolicyOrder))
  <2>1. 1 \in Int /\ Len(PolicyOrder) \in Int
    BY <1>1
  <2> QED
    BY <2>1, FS_Interval
<1>6. \A n \in DOMAIN PolicyOrder : Total[n] = PolicyWeight[PolicyOrder[n]]
  BY DEF Total
<1>7. \A v \in Voters : PolicyWeight[v] \in Int
  BY Policy
<1>8. SumFunctionOnSet(PolicyWeight, Voters) = SumFunctionOnSet(Total, 1 .. Len(PolicyOrder))
  BY <1>1, <1>2, <1>6, <1>7, Policy, SumInOrder
<1> QED
  BY <1>1, <1>3, <1>4, <1>5, <1>8 DEF TotalWeight

(* The loop over the policy leaves what a last entry would draw. *)
LEMMA DrawnSpec ==
  ASSUME NEW s, NEW reward \in Nat
  PROVE  LET left == DrawnFrom(s, reward)
         IN  /\ left[0] = reward
             /\ \A n \in 0 .. Len(PolicyOrder) : left[n] \in Nat
             /\ \A n \in 1 .. Len(PolicyOrder) : left[n - 1] - left[n] \in Nat
             /\ \A n \in 1 .. Len(PolicyOrder) : PolicyOrder[n] \in SignersToReward(s) =>
                  left[n - 1] - left[n] >= (reward * PolicyWeight[PolicyOrder[n]]) \div TotalWeight
<1> DEFINE N == Len(PolicyOrder)
           d == Drawing(s)
           w == Append(d, TotalWeight - SumOf(d))
           left == DrawnFrom(s, reward)
<1>1. N \in Nat /\ DOMAIN PolicyOrder = 1 .. N /\ IsFiniteSet(1 .. N)
      /\ \A n \in 1 .. N : PolicyWeight[PolicyOrder[n]] \in Nat
  BY PolicySum, Policy
<1>2. d = [n \in 1 .. N |-> d[n]] /\ \A n \in 1 .. N :
        d[n] = IF PolicyOrder[n] \in SignersToReward(s) THEN PolicyWeight[PolicyOrder[n]] ELSE 0
  BY <1>1 DEF Drawing
<1>3. left = LeftAfter(w, reward)
  BY DEF DrawnFrom
<1> HIDE DEF N, d, left
<1>4. \A n \in 1 .. N : d[n] \in Nat /\ Total[n] \in Nat /\ d[n] <= Total[n]
  BY <1>1, <1>2 DEF Total
<1>5. d \in Seq(Nat) /\ d \in Seq(Int) /\ Len(d) = N
  BY <1>1, <1>2, <1>4
<1>6. SumOf(d) = SumFunctionOnSet(d, 1 .. N)
  BY <1>5, SumOfIsSum
<1>7. SumOf(d) \in Nat /\ SumOf(d) <= TotalWeight
  <2>1. SumFunctionOnSet(d, 1 .. N) \in Nat
    BY <1>1, <1>4, SumNat
  <2>2. \A n \in 1 .. N : d[n] \in Int /\ Total[n] \in Int /\ d[n] <= Total[n]
    BY <1>4
  <2>3. SumFunctionOnSet(d, 1 .. N) <= SumFunctionOnSet(Total, 1 .. N)
    BY <1>1, <2>2, SumMono
  <2> QED
    BY <1>6, <2>1, <2>3, PolicySum DEF N
<1>8. TotalWeight - SumOf(d) \in Nat
  BY <1>7, Policy
<1>9. w \in Seq(Nat) /\ w \in Seq(Int) /\ Len(w) = N + 1 /\ (\A n \in 1 .. N : w[n] = d[n])
      /\ w[N + 1] = TotalWeight - SumOf(d)
  BY <1>1, <1>5, <1>8
<1> HIDE DEF w
<1>10. SumOf(w) = TotalWeight
  <2> DEFINE L == N + 1
  <2>1. SumOf(w) = SumFunctionOnSet(w, 1 .. L)
    BY <1>9, SumOfIsSum
  <2>2. 1 \in Int /\ L \in Int /\ 1 <= L /\ L - 1 = N /\ \A n \in 1 .. L : w[n] \in Int
    BY <1>1, <1>9
  <2>3. w[L] = TotalWeight - SumOf(d)
    BY <1>9
  <2> HIDE DEF L
  <2>4. SumFunctionOnSet(w, 1 .. L) = w[L] + SumFunctionOnSet(w, 1 .. L - 1)
    BY <2>2, SumOfPositions
  <2>5. SumFunctionOnSet(w, 1 .. N) = SumFunctionOnSet(d, 1 .. N)
    <3>1. \A n \in 1 .. N : d[n] \in Int /\ w[n] = d[n]
      BY <1>4, <1>9
    <3> QED
      BY <1>1, <3>1, SumEqual
  <2> QED
    BY <1>6, <1>7, <2>1, <2>2, <2>3, <2>4, <2>5, Policy
<1>11. left[0] = reward /\ \A n \in 0 .. N : left[n] \in Nat
  <2>1. LeftAfter(w, reward)[0] = reward /\ \A n \in 0 .. Len(w) : LeftAfter(w, reward)[n] \in Nat
    BY <1>9, LeftAfterSpec
  <2>2. \A n \in 0 .. N : n \in 0 .. Len(w)
    BY <1>1, <1>9
  <2> QED
    BY <1>3, <2>1, <2>2
<1>12. ASSUME NEW n \in 1 .. N
       PROVE  /\ left[n - 1] - left[n] \in Nat
              /\ left[n - 1] - left[n] >= (w[n] * reward) \div TotalWeight
  <2>1. n \in DOMAIN w /\ n \in 1 .. Len(w)
    BY <1>1, <1>9
  <2>2. PortionsOf(w, reward)[n] = left[n - 1] - left[n]
    BY <1>3, <2>1 DEF PortionsOf
  <2>3. SumOf(w) > 0 /\ SumOf(w) <= TotalWeight
    BY <1>10, Policy
  <2>4. PortionsOf(w, reward) \in Seq(Nat) /\ Len(PortionsOf(w, reward)) = Len(w)
    BY <1>9, <2>3, PortionsSum
  <2>5. PortionsOf(w, reward)[n] \in Nat
    BY <2>1, <2>4
  <2>6. PortionsOf(w, reward)[n] >= (w[n] * reward) \div TotalWeight
    BY <1>9, <2>1, <2>3, Policy, PortionsFloor
  <2> QED
    BY <2>2, <2>5, <2>6
<1>13. ASSUME NEW n \in 1 .. N, PolicyOrder[n] \in SignersToReward(s)
       PROVE  left[n - 1] - left[n] >= (reward * PolicyWeight[PolicyOrder[n]]) \div TotalWeight
  <2>1. w[n] = PolicyWeight[PolicyOrder[n]]
    BY <1>2, <1>9, <1>13
  <2>2. w[n] * reward = reward * PolicyWeight[PolicyOrder[n]]
    BY <1>1, <2>1, SMT
  <2> QED
    BY <1>12, <2>2
<1> QED
  BY <1>11, <1>12, <1>13 DEF N, left
-----------------------------------------------------------------------------
(* Every wei of the signing reward is paid or burned. *)
PaidTo(c, n) == c.paid[PolicyOrder[n]]

LEMMA SigningClaimsSpec ==
  ASSUME NEW s, NEW c, NEW reward \in Nat,
         NEW claim, claim = SigningClaims(s, c, reward)
  PROVE  /\ claim.burned \in Int
         /\ \A n \in DOMAIN PolicyOrder : PaidTo(claim, n) \in Int
         /\ SumOf([n \in DOMAIN PolicyOrder |-> PaidTo(claim, n)]) + claim.burned = reward
         /\ c \notin {None, {}} => \A n \in DOMAIN PolicyOrder :
              (PolicyOrder[n] \in SignersToReward(s) /\ Dominates(BitVoteOf(s, PolicyOrder[n]), c)) =>
                PaidTo(claim, n) >= (reward * PolicyWeight[PolicyOrder[n]]) \div TotalWeight
<1> DEFINE N == Len(PolicyOrder)
           left == DrawnFrom(s, reward)
           share == [n \in 1 .. N |-> left[n - 1] - left[n]]
           Kept(n) == Dominates(BitVoteOf(s, PolicyOrder[n]), c)
           burn == [n \in DOMAIN PolicyOrder |-> IF Kept(n) THEN 0 ELSE ((left[n - 1] - left[n]) * BurnPpm) \div TotalPpm]
           paid == [n \in DOMAIN PolicyOrder |-> PaidTo(claim, n)]
<1>1. N \in Nat /\ DOMAIN PolicyOrder = 1 .. N /\ IsFiniteSet(1 .. N)
      /\ (\A n \in 1 .. N : PolicyOrder[n] \in Voters /\ Position(PolicyOrder[n]) = n)
      /\ \A v \in Voters : Position(v) \in 1 .. N /\ PolicyOrder[Position(v)] = v
  BY PolicySum
<1>2. /\ left[0] = reward /\ (\A n \in 0 .. N : left[n] \in Nat)
      /\ \A n \in 1 .. N : left[n - 1] - left[n] \in Nat
      /\ \A n \in 1 .. N : PolicyOrder[n] \in SignersToReward(s) =>
           left[n - 1] - left[n] >= (reward * PolicyWeight[PolicyOrder[n]]) \div TotalWeight
  BY DrawnSpec
<1>3. c \in {None, {}} => claim = [paid |-> Nobody, burned |-> reward]
  BY DEF SigningClaims
<1>4. ASSUME c \notin {None, {}}
      PROVE  /\ claim.burned = SumOf(burn) + left[N]
             /\ \A n \in 1 .. N : PaidTo(claim, n) = share[n] - burn[n]
  <2> DEFINE PaidShare(k) == (left[k - 1] - left[k])
               - (IF Kept(k) THEN 0 ELSE ((left[k - 1] - left[k]) * BurnPpm) \div TotalPpm)
  <2>1. claim = [paid |-> [v \in Voters |-> PaidShare(Position(v))], burned |-> SumOf(burn) + left[N]]
    BY <1>4 DEF SigningClaims
  <2>2. \A n \in 1 .. N : PaidShare(n) = share[n] - burn[n]
    BY <1>1
  <2> HIDE DEF PaidShare, burn, share, left
  <2>3. claim.burned = SumOf(burn) + left[N] /\ \A v \in Voters : claim.paid[v] = PaidShare(Position(v))
    BY <2>1
  <2> QED
    BY <1>1, <2>2, <2>3 DEF PaidTo
<1>5. \A n \in 1 .. N : share[n] = left[n - 1] - left[n] /\ share[n] \in Nat
  BY <1>2
<1>6. \A n \in 1 .. N : burn[n] = IF Kept(n) THEN 0 ELSE (share[n] * BurnPpm) \div TotalPpm
  BY <1>1
<1>7. \A n \in 1 .. N : burn[n] \in Int
  <2> HIDE DEF Kept, share, burn, left
  <2> TAKE n \in 1 .. N
  <2>1. share[n] * BurnPpm \in Nat /\ TotalPpm \in Nat \ {0}
    BY <1>5, FdcUnitsAssumption
  <2>2. (share[n] * BurnPpm) \div TotalPpm \in Nat
    BY <2>1, DivDef
  <2> QED
    BY <1>6, <2>2
<1>8. burn = [n \in 1 .. N |-> burn[n]] /\ paid = [n \in 1 .. N |-> paid[n]]
      /\ \A n \in 1 .. N : paid[n] = PaidTo(claim, n)
  BY <1>1
<1> HIDE DEF N, share, burn, left, paid
<1>9. SumOf(burn) = SumFunctionOnSet(burn, 1 .. N)
  <2>1. burn \in Seq(Int) /\ Len(burn) = N
    BY <1>1, <1>7, <1>8
  <2> QED
    BY <2>1, SumOfIsSum
<1>10. \A n \in 1 .. N : PaidTo(claim, n) \in Int
  <2>1. CASE c \in {None, {}}
    BY <1>1, <1>3, <2>1 DEF PaidTo, Nobody
  <2>2. CASE c \notin {None, {}}
    BY <1>4, <1>5, <1>7, <2>2
  <2> QED
    BY <2>1, <2>2
<1>11. SumOf(paid) = SumFunctionOnSet(paid, 1 .. N)
  <2>1. paid \in Seq(Int) /\ Len(paid) = N
    BY <1>1, <1>8, <1>10
  <2> QED
    BY <2>1, SumOfIsSum
<1>12. SumFunctionOnSet(burn, 1 .. N) \in Int
  BY <1>1, <1>7, SumInt
<1>13. claim.burned \in Int /\ SumOf(paid) + claim.burned = reward
  <2>1. CASE c \in {None, {}}
    <3>1. \A n \in 1 .. N : paid[n] = 0
      BY <1>1, <1>3, <1>8, <2>1 DEF PaidTo, Nobody
    <3>2. SumFunctionOnSet(paid, 1 .. N) = 0
      BY <1>1, <3>1, SumZero
    <3> QED
      BY <1>3, <1>11, <2>1, <3>2
  <2>2. CASE c \notin {None, {}}
    <3>1. \A n \in 1 .. N : paid[n] \in Int /\ burn[n] \in Int /\ share[n] = paid[n] + burn[n]
      BY <1>4, <1>5, <1>7, <1>8, <1>10, <2>2
    <3>2. SumFunctionOnSet(share, 1 .. N) = SumFunctionOnSet(paid, 1 .. N) + SumFunctionOnSet(burn, 1 .. N)
      BY <1>1, <3>1, SumPlus
    <3>3. SumFunctionOnSet(share, 1 .. N) = left[0] - left[N]
      <4>1. \A n \in 0 .. N : left[n] \in Int
        BY <1>2
      <4> QED
        BY <1>1, <1>5, <4>1, SumOfSteps
    <3>4. SumFunctionOnSet(paid, 1 .. N) \in Int
      BY <1>1, <3>1, SumInt
    <3>5. left[N] \in Nat
      BY <1>1, <1>2
    <3> QED
      BY <1>2, <1>4, <1>9, <1>11, <1>12, <2>2, <3>2, <3>3, <3>4, <3>5
  <2> QED
    BY <2>1, <2>2
<1>14. ASSUME c \notin {None, {}}, NEW n \in 1 .. N, PolicyOrder[n] \in SignersToReward(s), Kept(n)
       PROVE  PaidTo(claim, n) >= (reward * PolicyWeight[PolicyOrder[n]]) \div TotalWeight
  <2>1. burn[n] = 0 /\ PaidTo(claim, n) = share[n] - burn[n]
    BY <1>4, <1>6, <1>14
  <2>2. PaidTo(claim, n) = left[n - 1] - left[n]
    BY <1>5, <2>1
  <2> QED
    BY <1>2, <1>14, <2>2
<1> QED
  BY <1>1, <1>10, <1>13, <1>14 DEF paid

(* Every wei of a round's rewards is claimed once. *)
LEMMA RoundClaimed ==
  ASSUME IInv, NEW r \in DOMAIN claims
  PROVE  Claimed(claims[r]) = roundReward[r].amount + roundReward[r].burn + roundReward[r].fire
<1> DEFINE amount == roundReward[r].amount   burn == roundReward[r].burn   fire == roundReward[r].fire
           final == FinalizationPart(amount)
           signing == SigningClaims(sent[r], consensus[r], amount - final)
           paid(c) == [n \in DOMAIN PolicyOrder |-> PaidTo(c, n)]
<1>1. amount \in Nat /\ burn \in Nat /\ fire \in Nat /\ r \in DOMAIN sent /\ claims[r] = ClaimsOf(r)
  BY RewardSpec, ClaimedOf
<1>2. final \in Nat /\ amount - final \in Nat
  BY <1>1, FinalizationPartSpec
<1>3. \A c : Claimed(c) = SumOf(paid(c)) + c.burned + c.fire + c.finalization
  BY DEF Claimed, PaidTo
<1>4. CASE sent[r].finality < 0
  <2>1. claims[r] = [paid |-> Nobody, burned |-> burn + amount, fire |-> fire, finalization |-> 0, penalties |-> Nobody]
    BY <1>1, <1>4 DEF ClaimsOf
  <2>2. \A n \in DOMAIN PolicyOrder : PaidTo(claims[r], n) = 0
    BY <2>1, PolicySum DEF PaidTo, Nobody
  <2> DEFINE p == paid(claims[r])
  <2>3. SumOf(p) = 0
    <3>1. p = [n \in 1 .. Len(PolicyOrder) |-> 0] /\ \A n \in 1 .. Len(PolicyOrder) : p[n] = 0
      BY <2>2, PolicySum
    <3> HIDE DEF p
    <3>2. p \in Seq(Int) /\ Len(p) = Len(PolicyOrder)
      BY <3>1, PolicySum
    <3>3. SumOf(p) = SumFunctionOnSet(p, 1 .. Len(PolicyOrder))
      BY <3>2, SumOfIsSum
    <3> QED
      BY <3>1, <3>3, PolicySum, SumZero
  <2> HIDE DEF amount, burn, fire
  <2>4. claims[r].burned = burn + amount /\ claims[r].fire = fire /\ claims[r].finalization = 0
    BY <2>1
  <2>5. Claimed(claims[r]) = SumOf(p) + claims[r].burned + claims[r].fire + claims[r].finalization
    BY <1>3
  <2> HIDE DEF p
  <2>6. Claimed(claims[r]) = amount + burn + fire
    BY <1>1, <2>3, <2>4, <2>5
  <2> QED
    BY <2>6 DEF amount, burn, fire
<1>5. CASE ~(sent[r].finality < 0)
  <2>1. claims[r] = [paid |-> signing.paid, burned |-> burn + signing.burned, fire |-> fire, finalization |-> final,
                     penalties |-> Penalties(sent[r], consensus[r], amount)]
    BY <1>1, <1>5 DEF ClaimsOf
  <2> HIDE DEF amount, burn, fire, final, signing
  <2>2. /\ claims[r].burned = burn + signing.burned /\ claims[r].fire = fire /\ claims[r].finalization = final
        /\ claims[r].paid = signing.paid
    BY <2>1
  <2>3. paid(claims[r]) = paid(signing)
    BY <2>2 DEF PaidTo
  <2>4. signing.burned \in Int /\ SumOf(paid(signing)) + signing.burned = amount - final
        /\ \A n \in DOMAIN PolicyOrder : PaidTo(signing, n) \in Int
    BY <1>2, SigningClaimsSpec DEF signing
  <2>5. SumOf(paid(signing)) \in Int
    <3> DEFINE p == paid(signing)
    <3>1. p = [n \in 1 .. Len(PolicyOrder) |-> p[n]] /\ \A n \in 1 .. Len(PolicyOrder) : p[n] \in Int
      BY <2>4, PolicySum
    <3> HIDE DEF p
    <3>2. p \in Seq(Int)
      BY <3>1, PolicySum
    <3>3. SumOf(p) \in Int
      BY <3>2, SumOfInt
    <3> QED
      BY <3>3 DEF p
  <2>6. Claimed(claims[r]) = SumOf(paid(signing)) + claims[r].burned + claims[r].fire + claims[r].finalization
    BY <1>3, <2>3
  <2> DEFINE x == SumOf(paid(signing))
  <2> HIDE DEF x
  <2>7. x \in Int /\ x + signing.burned = amount - final /\ signing.burned \in Int
        /\ Claimed(claims[r]) = x + claims[r].burned + claims[r].fire + claims[r].finalization
    BY <2>4, <2>5, <2>6 DEF x
  <2>8. Claimed(claims[r]) = amount + burn + fire
    <3> DEFINE y == signing.burned
    <3>1. Claimed(claims[r]) = x + (burn + y) + fire + final
      BY <2>2, <2>7
    <3>2. x \in Int /\ y \in Int /\ x + y = amount - final /\ amount \in Int /\ burn \in Int /\ fire \in Int /\ final \in Int
      BY <1>1, <1>2, <2>7
    <3> HIDE DEF y
    <3> QED
      BY <3>1, <3>2
  <2> QED
    BY <2>8 DEF amount, burn, fire
<1> QED
  BY <1>4, <1>5

(* All of the inflation and every fee anybody paid is claimed once            *)
(* (GetFdcRewards, calculateFdcRoundRewards, mergeDuplicates).               *)
THEOREM FdcFundsConserved == Spec => []FdcConserved
<1>1. IInv => FdcConserved
  <2> SUFFICES ASSUME IInv, phase = "done"
               PROVE  SumOf([r \in Round |-> Claimed(claims[r])])
                        = Amount(offer) + SumOf([r \in Round |-> FeesPaid(sent[r])])
    BY DEF FdcConserved
  <2> DEFINE total == [r \in Round |-> Claimed(claims[r])]
             fees == [r \in Round |-> FeesPaid(sent[r])]
             part == [r \in Round |-> EqualPart(Amount(offer) - BurnShare(offer), Rounds, r - 1)]
             burn == [r \in Round |-> EqualPart(BurnShare(offer), Rounds, r - 1)]
             parts == [r \in Round |-> part[r] + burn[r]]
  <2>1. Rounds \in Nat \ {0} /\ Round = 1 .. Rounds
    BY FdcUnitsAssumption DEF Round
  <2>2. DOMAIN claims = Round /\ offer \in Inflations /\ Divides(offer)
    <3>1. Len(claims) = Rounds /\ claims \in Seq(ToSet(claims)) /\ offer \in Inflations /\ Divides(offer)
      BY <2>1 DEF IInv, ClaimedSoFar, IsSequence
    <3> QED
      BY <2>1, <3>1
  <2>3. BurnShare(offer) \in Nat /\ Amount(offer) - BurnShare(offer) \in Nat /\ Amount(offer) \in Nat
    BY <2>2, BurnShareSpec
  <2>4. IsFiniteSet(Round)
    <3>1. 1 \in Int /\ Rounds \in Int
      BY <2>1
    <3> QED
      BY <2>1, <3>1, FS_Interval
  <2>5. (\A r \in Round : part[r] \in Nat) /\ SumFunctionOnSet(part, Round) = Amount(offer) - BurnShare(offer)
    <3> DEFINE pot == Amount(offer) - BurnShare(offer)
    <3>1. \A r \in 1 .. Rounds : part[r] = EqualPart(pot, Rounds, r - 1)
      BY <2>1
    <3>2. pot \in Nat
      BY <2>3
    <3> HIDE DEF part, pot
    <3>3. (\A r \in 1 .. Rounds : part[r] \in Nat) /\ SumFunctionOnSet(part, 1 .. Rounds) = pot
      BY <2>1, <3>1, <3>2, EqualPartsSum
    <3> QED
      BY <2>1, <3>3 DEF pot
  <2>6. (\A r \in Round : burn[r] \in Nat) /\ SumFunctionOnSet(burn, Round) = BurnShare(offer)
    <3>1. \A r \in 1 .. Rounds : burn[r] = EqualPart(BurnShare(offer), Rounds, r - 1)
      BY <2>1
    <3> HIDE DEF burn
    <3>2. (\A r \in 1 .. Rounds : burn[r] \in Nat) /\ SumFunctionOnSet(burn, 1 .. Rounds) = BurnShare(offer)
      BY <2>1, <2>3, <3>1, EqualPartsSum
    <3> QED
      BY <2>1, <3>2
  <2>7. ASSUME NEW r \in Round
        PROVE  total[r] = part[r] + burn[r] + fees[r] /\ fees[r] \in Nat
    <3>1. r \in DOMAIN claims /\ r \in DOMAIN sent
      BY <2>2, ClaimedOf
    <3>2. FeesPaid(sent[r]) \in Nat
      BY <3>1, FeesSpec
    <3>3. Claimed(claims[r]) =
            EqualPart(Amount(offer) - BurnShare(offer), Rounds, r - 1) + EqualPart(BurnShare(offer), Rounds, r - 1)
              + FeesPaid(sent[r])
      BY <3>1, RoundClaimed, RewardSpec
    <3> QED
      BY <3>2, <3>3
  <2>8. \A r \in Round : parts[r] = part[r] + burn[r]
    OBVIOUS
  <2>9. total = [r \in 1 .. Rounds |-> total[r]] /\ fees = [r \in 1 .. Rounds |-> fees[r]]
    BY <2>1
  <2> HIDE DEF total, fees, part, burn, parts
  <2>10. \A r \in Round : /\ part[r] \in Int /\ burn[r] \in Int /\ fees[r] \in Int /\ parts[r] \in Int /\ total[r] \in Int
                          /\ parts[r] = part[r] + burn[r] /\ total[r] = parts[r] + fees[r]
    BY <2>5, <2>6, <2>7, <2>8
  <2>11. SumFunctionOnSet(parts, Round) = SumFunctionOnSet(part, Round) + SumFunctionOnSet(burn, Round)
    BY <2>4, <2>10, SumPlus
  <2>12. SumFunctionOnSet(total, Round) = SumFunctionOnSet(parts, Round) + SumFunctionOnSet(fees, Round)
    BY <2>4, <2>10, SumPlus
  <2>13. SumOf(total) = SumFunctionOnSet(total, Round) /\ SumOf(fees) = SumFunctionOnSet(fees, Round)
    <3>1. \A r \in 1 .. Rounds : total[r] \in Int /\ fees[r] \in Int
      BY <2>1, <2>10
    <3>2. total \in Seq(Int) /\ Len(total) = Rounds
      BY <2>1, <2>9, <3>1
    <3>3. fees \in Seq(Int) /\ Len(fees) = Rounds
      BY <2>1, <2>9, <3>1
    <3> QED
      BY <2>1, <3>2, <3>3, SumOfIsSum
  <2>14. SumFunctionOnSet(fees, Round) \in Int
    BY <2>4, <2>10, SumInt
  <2>15. SumOf(total) = Amount(offer) + SumOf(fees)
    BY <2>3, <2>5, <2>6, <2>11, <2>12, <2>13, <2>14
  <2> QED
    BY <2>15 DEF total, fees
<1> QED
  BY <1>1, SpecIInv, PTL

(* A voter that follows the consensus bit vote in the grace period, after a  *)
(* bit vote for all that was confirmed, draws at least its share by weight,   *)
(* and is not penalised (generateFdcSigningClaims, getOffenders).            *)
THEOREM FollowersArePaid == Spec => []FollowerPaid
<1>1. IInv => FollowerPaid
  <2> SUFFICES ASSUME IInv, NEW r \in DOMAIN claims, sent[r].finality >= 0, consensus[r] \notin {None, {}},
                      NEW v \in Voters, Follows(sent[r], v, consensus[r]),
                      \A m \in Sent(sent[r], v) : m.ts <= GracePeriodEnd,
                      InTime(sent[r], v) # {}, \A b \in InTime(sent[r], v) : consensus[r] \subseteq b
               PROVE  /\ claims[r].paid[v] >=
                           ((roundReward[r].amount - claims[r].finalization) * PolicyWeight[v]) \div TotalWeight
                      /\ claims[r].penalties[v] = 0
    BY DEF FollowerPaid
  <2> DEFINE s == sent[r]   c == consensus[r]
             amount == roundReward[r].amount
             reward == amount - FinalizationPart(amount)
             signing == SigningClaims(s, c, reward)
             n == Position(v)
  <2>1. r \in Round /\ s \in SentFor(r) /\ s.finality \in Int /\ claims[r] = ClaimsOf(r)
    BY ReadOf, ClaimedOf
  <2>2. claims[r].paid = signing.paid /\ claims[r].finalization = FinalizationPart(amount)
        /\ claims[r].penalties = Penalties(s, c, amount)
    <3>1. ~(s.finality < 0)
      BY <2>1
    <3> HIDE DEF s, c, signing
    <3> QED
      BY <2>1, <3>1 DEF ClaimsOf, s, c, signing
  <2>3. reward \in Nat
    BY RewardSpec, FinalizationPartSpec
  <2>4. v \in DOMAIN ConsensusSigs(s) /\ ConsensusSigs(s)[v] \in Sent(s, v) /\ ConsensusSigs(s)[v].bits = c
        /\ v \notin WrongSigners(s)
    BY <2>1, FollowerSigns
  <2>5. v \in SignersToReward(s)
    BY <2>4 DEF SignersToReward, OnTime
  <2>6. Dominates(BitVoteOf(s, v), c)
    <3>1. BitVoteOf(s, v) \in InTime(s, v)
      BY <2>1, BitVoteInTime
    <3>2. c \subseteq BitVoteOf(s, v)
      BY <3>1
    <3>3. BitVoteOf(s, v) # None
      BY <3>2 DEF None
    <3> QED
      BY <3>2, <3>3 DEF Dominates
  <2>7. n \in DOMAIN PolicyOrder /\ PolicyOrder[n] = v
    BY PolicySum
  <2>8. signing.paid[v] >= (reward * PolicyWeight[v]) \div TotalWeight
    <3>1. PaidTo(signing, n) >= (reward * PolicyWeight[PolicyOrder[n]]) \div TotalWeight
      <4> HIDE DEF n, reward
      <4> QED
        BY <2>3, <2>5, <2>6, <2>7, SigningClaimsSpec
    <3> QED
      BY <2>7, <3>1 DEF PaidTo
  <2>9. claims[r].penalties[v] = 0
    <3>1. v \notin Offenders(s, c)
      BY <2>4 DEF Offenders, OtherBitVote, Withheld
    <3> QED
      BY <2>2, <3>1 DEF Penalties
  <2> QED
    BY <2>2, <2>8, <2>9
<1> QED
  BY <1>1, SpecIInv, PTL
=============================================================================
