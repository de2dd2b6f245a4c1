-------------------------- MODULE RewardEpochsProofs --------------------------
(***************************************************************************)
(* What is calculated for a reward epoch is right for any schedule, any      *)
(* voters, offers and fees, and any number of epochs.  The inductive         *)
(* invariant has three parts.  ChainInv says what the order on chain gives:  *)
(* where the events of an epoch lie between the starts of its neighbours.   *)
(* CreditInv says that the RewardManager received for an epoch what the      *)
(* events that name it add up to.  FoundInv says that a calculation has      *)
(* found these events, voters and feeds, all of them and nothing else; it    *)
(* stays true because an epoch that is calculated has started, and is over   *)
(* if payments are looked for, and the chain adds nothing to it any more.    *)
(***************************************************************************)
EXTENDS RewardEpochs, FoldLemmas

(* The indexed events of a kind, in chain order. *)
IsLog(s) == s \in Seq(ToSet(s))
PolicyStart(e) == VotingRoundStart(policies[e + 1].startRound)

ClockInv == now \in Nat /\ current \in 1 .. LastEpoch

(* The epochs start one after the other, each no earlier than the round its  *)
(* policy names, and the policies name later and later rounds.               *)
StartsInv ==
  /\ DOMAIN starts = 0 .. current
  /\ \A e \in 0 .. current : starts[e] \in Int /\ PolicyStart(e) <= starts[e] /\ starts[e] <= now
  /\ \A d, e \in 0 .. current : d <= e => starts[d] <= starts[e]
PoliciesInv ==
  /\ IsLog(policies) /\ Len(policies) \in {current + 1, current + 2} /\ Len(policies) <= LastEpoch + 1
  /\ \A n \in DOMAIN policies :
       /\ policies[n].rewardEpochId = n - 1 /\ policies[n].startRound \in Int
       /\ ExpectedFirstVotingRound(n - 1) <= policies[n].startRound
       /\ IsLog(policies[n].voters)
       /\ n >= 2 => /\ policies[n - 1].startRound < policies[n].startRound
                    /\ starts[n - 2] < VotingRoundStart(policies[n].startRound)
                    /\ policies[n].ts \in Int /\ starts[n - 2] <= policies[n].ts

(* A voter registers after the epoch before started and before its own can:  *)
(* begun are the starts of the epochs up to cur.                             *)
Registering(r, begun, cur, policyList, time) ==
  /\ r.rewardEpochId \in 0 .. cur + 1
  /\ r.ts \in Int /\ r.ts <= time
  /\ r.rewardEpochId >= 1 => begun[r.rewardEpochId - 1] <= r.ts
  /\ r.rewardEpochId < Len(policyList) => r.ts < VotingRoundStart(policyList[r.rewardEpochId + 1].startRound)

(* Who is in a policy has registered for its epoch.                          *)
RegistrationsInv ==
  /\ IsLog(registrations)
  /\ \A n \in DOMAIN registrations : Registering(registrations[n], starts, current, policies, now)
  /\ \A m, n \in DOMAIN registrations :
       m <= n => registrations[m].rewardEpochId <= registrations[n].rewardEpochId
  /\ Cardinality(Registered(current + 1)) <= Len(PolicyOrder)
  /\ \A k \in 1 .. Cardinality(Registered(current + 1)) :
       \E n \in Registered(current + 1) : registrations[n].voter = PolicyOrder[k]
  /\ \A p \in DOMAIN policies : \A k \in DOMAIN policies[p].voters :
       \E n \in Registered(p - 1) : registrations[n].voter = policies[p].voters[k]

(* Offers are made once the epoch before has started and before the policy   *)
(* of the epoch, so that they are before its first round.                    *)
Offering(o, cur, policyList, time) ==
  /\ o.rewardEpochId \in 0 .. cur + 1 /\ o.rewardEpochId <= LastEpoch
  /\ o.amount \in Nat /\ o.ts \in Int /\ o.ts <= time
  /\ ExpectedStart(o.rewardEpochId - 1) <= o.ts
  /\ o.rewardEpochId < Len(policyList) => o.ts < VotingRoundStart(policyList[o.rewardEpochId + 1].startRound)
OffersInv(offers) ==
  /\ IsLog(offers) /\ \A n \in DOMAIN offers : Offering(offers[n], current, policies, now)

(* What is paid while an epoch is current names it. *)
Paying(x, begun, cur, time) ==
  /\ x.rewardEpochId \in 0 .. cur
  /\ x.timestampSec \in Int /\ begun[x.rewardEpochId] <= x.timestampSec /\ x.timestampSec <= time
  /\ x.rewardEpochId < cur => x.timestampSec <= begun[x.rewardEpochId + 1]
PaymentsInv(events) ==
  /\ IsLog(events) /\ \A n \in DOMAIN events : Paying(events[n], starts, current, now)

(* A request is paired with an instruction of the same block. *)
FeesInv ==
  /\ \A n \in DOMAIN communityOffers : communityOffers[n].feed \in Int
  /\ \A n \in DOMAIN incentives : incentives[n].amount \in Nat
  /\ \A n \in DOMAIN teeInstructions :
       teeInstructions[n].fee \in Nat /\ teeInstructions[n].instructionId = n /\ FccActive(teeInstructions[n].rewardEpochId)
  /\ IsLog(fdc2Requests)
  /\ \A n \in DOMAIN fdc2Requests :
       LET q == fdc2Requests[n]
       IN  /\ q.fee \in Nat /\ q.instructionId \in DOMAIN teeInstructions
           /\ q.timestampSec = teeInstructions[q.instructionId].timestampSec

ChainInv ==
  /\ ClockInv /\ StartsInv /\ PoliciesInv /\ RegistrationsInv
  /\ OffersInv(inflationOffers) /\ OffersInv(communityOffers)
  /\ PaymentsInv(incentives) /\ PaymentsInv(teeInstructions) /\ FeesInv

(* All that was paid for an epoch is credited to it. *)
EventsOf(events, e) == ForEpoch(events, DOMAIN events, e)
RequestsFor(e) == {n \in DOMAIN fdc2Requests : teeInstructions[fdc2Requests[n].instructionId].rewardEpochId = e}
FeeSum(events, found) == SumFunctionOnSet([n \in DOMAIN events |-> events[n].fee], found)
FeesFor(e) == FeeSum(teeInstructions, EventsOf(teeInstructions, e)) + FeeSum(fdc2Requests, RequestsFor(e))
FundsFor(e) ==
  AmountOf(inflationOffers, EventsOf(inflationOffers, e)) + AmountOf(communityOffers, EventsOf(communityOffers, e))
    + AmountOf(incentives, EventsOf(incentives, e)) + FeesFor(e)
CreditInv == DOMAIN credited = Epoch /\ \A e \in Epoch : credited[e] = FundsFor(e)

(* The next policy is made in time for the search. *)
EndInTime(e) == policies[e + 2].ts < ExpectedStart(e) + PolicySearchEpochs * EpochDuration

(* What a calculation has found is all there is for the epoch. *)
VotersFound(index, e) ==
  OpenedAt(e) >= PolicyStart(e) - PolicyWindow =>
    /\ [n \in DOMAIN index |-> index[n].voter] = policies[e + 1].voters
    /\ \A n \in DOMAIN index : index[n].rewardEpochId = e
FeedsFound(feeds, e) ==
  LET community == SubSeq(feeds, Len(InflationFeeds) + 1, Len(feeds))
  IN  /\ IsPrefix(InflationFeeds, feeds)
      /\ IsInjective(feeds)
      /\ \A n \in EventsOf(communityOffers, e) : communityOffers[n].feed \in ToSet(feeds)
      /\ e >= Fip16Epoch => \A m, n \in DOMAIN community :
           m < n => OfferedFor(community[m], e) >= OfferedFor(community[n], e)
AllFound(e, c) ==
  LET epoch == c.epoch
  IN  /\ e \in 1 .. LastEpoch - 1 /\ e <= current /\ e + 2 \in DOMAIN policies
      /\ epoch.inflation = EventsOf(inflationOffers, e)
      /\ epoch.community = EventsOf(communityOffers, e)
      /\ epoch.StartRound = policies[e + 1].startRound
      /\ SumFunction(c.fees) = FeesFor(e) /\ (FccActive(e) => e < current)
      /\ IF EndInTime(e)
           THEN /\ e < current /\ epoch.incentives = EventsOf(incentives, e)
                /\ epoch.EndRound = policies[e + 2].startRound - 1
                /\ DOMAIN c.fees \subseteq epoch.StartRound .. epoch.EndRound
           ELSE epoch.EndRound = 0 /\ DOMAIN c.fees \subseteq {0}
      /\ VotersFound(epoch.voters, e) /\ FeedsFound(epoch.OrderedFeeds, e)
FoundInv == \A e \in DOMAIN epochs : AllFound(e, epochs[e])

IInv == ChainInv /\ CreditInv /\ FoundInv
-----------------------------------------------------------------------------
(* The schedule. *)
LEMMA RoundStartMono ==
  ASSUME NEW a \in Int, NEW b \in Int
  PROVE  /\ VotingRoundStart(a) \in Int
         /\ a <= b => VotingRoundStart(a) <= VotingRoundStart(b)
         /\ a < b => VotingRoundStart(a) < VotingRoundStart(b)
         /\ VotingRoundStart(a) < VotingRoundStart(b) => a < b
<1>1. RoundSeconds \in Nat /\ RoundSeconds > 0
  BY ScheduleAssumption
<1>2. a * RoundSeconds \in Int /\ b * RoundSeconds \in Int /\ (a + 1) * RoundSeconds = a * RoundSeconds + RoundSeconds
  BY <1>1
<1>3. a <= b => a * RoundSeconds <= b * RoundSeconds
  BY <1>1, MulMono
<1>4. a + 1 <= b => (a + 1) * RoundSeconds <= b * RoundSeconds
  <2>1. a + 1 \in Int
    OBVIOUS
  <2> QED
    BY <1>1, <2>1, MulMono
<1>5. b <= a => b * RoundSeconds <= a * RoundSeconds
  BY <1>1, MulMono
<1>6. a < b => a * RoundSeconds < b * RoundSeconds
  BY <1>1, <1>2, <1>4
<1> QED
  BY <1>2, <1>3, <1>5, <1>6 DEF VotingRoundStart

LEMMA ScheduleMono ==
  ASSUME NEW a \in Int, NEW b \in Int
  PROVE  /\ ExpectedFirstVotingRound(a) \in Int /\ ExpectedStart(a) \in Int
         /\ a <= b => ExpectedFirstVotingRound(a) <= ExpectedFirstVotingRound(b)
         /\ a <= b => ExpectedStart(a) <= ExpectedStart(b)
         /\ a < b => ExpectedFirstVotingRound(a) < ExpectedFirstVotingRound(b)
         /\ a < b => ExpectedStart(a) < ExpectedStart(b)
         /\ ExpectedFirstVotingRound(0) = 0 /\ ExpectedStart(0) = 0
<1>1. EpochRounds \in Nat /\ EpochRounds > 0
  BY ScheduleAssumption
<1>2. a * EpochRounds \in Int /\ b * EpochRounds \in Int /\ (a + 1) * EpochRounds = a * EpochRounds + EpochRounds
  BY <1>1
<1>3. a <= b => a * EpochRounds <= b * EpochRounds
  BY <1>1, MulMono
<1>4. a + 1 <= b => (a + 1) * EpochRounds <= b * EpochRounds
  <2>1. a + 1 \in Int
    OBVIOUS
  <2> QED
    BY <1>1, <2>1, MulMono
<1>5. /\ ExpectedFirstVotingRound(a) \in Int /\ ExpectedFirstVotingRound(b) \in Int
      /\ a <= b => ExpectedFirstVotingRound(a) <= ExpectedFirstVotingRound(b)
      /\ a < b => ExpectedFirstVotingRound(a) < ExpectedFirstVotingRound(b)
  BY <1>1, <1>2, <1>3, <1>4 DEF ExpectedFirstVotingRound
<1>6. ExpectedFirstVotingRound(0) = 0 /\ VotingRoundStart(0) = 0
  BY <1>1, ScheduleAssumption DEF ExpectedFirstVotingRound, VotingRoundStart
<1> QED
  BY <1>5, <1>6, RoundStartMono DEF ExpectedStart

(* The round after the current one starts later than now. *)
LEMMA NextRoundIsLater ==
  ASSUME NEW t \in Nat
  PROVE  t \div RoundSeconds \in Int /\ t < VotingRoundStart(t \div RoundSeconds + 1)
<1> DEFINE q == t \div RoundSeconds
<1>1. RoundSeconds \in Nat /\ RoundSeconds > 0
  BY ScheduleAssumption
<1>2. q \in Nat /\ t < RoundSeconds * q + RoundSeconds
  BY <1>1, DivDef
<1> HIDE DEF q
<1>3. (q + 1) * RoundSeconds = RoundSeconds * q + RoundSeconds
  BY <1>1, <1>2
<1>4. t < VotingRoundStart(q + 1)
  BY <1>2, <1>3 DEF VotingRoundStart
<1> QED
  BY <1>2, <1>4 DEF q

(* The chain appends to the logs. *)
LEMMA LogDomain ==
  ASSUME NEW s, IsLog(s)
  PROVE  Len(s) \in Nat /\ DOMAIN s = 1 .. Len(s) /\ IsFiniteSet(DOMAIN s)
<1>1. Len(s) \in Nat /\ DOMAIN s = 1 .. Len(s)
  BY DEF IsLog
<1>2. IsFiniteSet(1 .. Len(s))
  BY <1>1, FS_Interval
<1> QED
  BY <1>1, <1>2

LEMMA SequenceIsLog ==
  ASSUME NEW E, NEW t \in Seq(E)
  PROVE  IsLog(t)
<1>1. Len(t) \in Nat /\ DOMAIN t = 1 .. Len(t) /\ t = [n \in 1 .. Len(t) |-> t[n]]
  OBVIOUS
<1>2. \A n \in 1 .. Len(t) : t[n] \in ToSet(t)
  BY <1>1 DEF ToSet
<1>3. [n \in 1 .. Len(t) |-> t[n]] \in [1 .. Len(t) -> ToSet(t)]
  BY <1>2
<1>4. t \in [1 .. Len(t) -> ToSet(t)]
  BY <1>1, <1>3
<1>5. t \in Seq(ToSet(t))
  BY <1>1, <1>4, SeqDef
<1> QED
  BY <1>5 DEF IsLog

Appended(s, x, t) ==
  /\ IsLog(t) /\ Len(t) = Len(s) + 1 /\ DOMAIN t = DOMAIN s \cup {Len(s) + 1}
  /\ t[Len(s) + 1] = x /\ \A n \in DOMAIN s : t[n] = s[n]

LEMMA LogAppend ==
  ASSUME NEW s, IsLog(s), NEW x, NEW t, t = Append(s, x)
  PROVE  Appended(s, x, t)
<1> DEFINE E == ToSet(s) \cup {x}
<1>1. s \in Seq(E)
  BY DEF IsLog
<1>2. /\ t \in Seq(E) /\ Len(t) = Len(s) + 1 /\ DOMAIN t = 1 .. Len(s) + 1
      /\ t[Len(s) + 1] = x /\ \A n \in DOMAIN s : t[n] = s[n]
  BY <1>1
<1>3. DOMAIN t = DOMAIN s \cup {Len(s) + 1}
  BY <1>1, <1>2
<1>4. IsLog(t)
  BY <1>2, SequenceIsLog
<1> QED
  BY <1>2, <1>3, <1>4 DEF Appended

Concatenated(s, u, t) ==
  /\ IsLog(t) /\ Len(t) = Len(s) + Len(u)
  /\ DOMAIN t = DOMAIN s \cup {Len(s) + n : n \in DOMAIN u}
  /\ \A n \in DOMAIN s : t[n] = s[n]
  /\ \A n \in DOMAIN u : t[Len(s) + n] = u[n]

LEMMA LogConcat ==
  ASSUME NEW s, IsLog(s), NEW u, IsLog(u), NEW t, t = s \o u
  PROVE  Concatenated(s, u, t)
<1> DEFINE E == ToSet(s) \cup ToSet(u)
<1>1. s \in Seq(E) /\ u \in Seq(E) /\ Len(s) \in Nat /\ Len(u) \in Nat /\ DOMAIN s = 1 .. Len(s) /\ DOMAIN u = 1 .. Len(u)
  BY DEF IsLog
<1>2. t \in Seq(E) /\ Len(t) = Len(s) + Len(u)
  BY <1>1
<1>3. \A n \in 1 .. Len(s) + Len(u) : t[n] = IF n <= Len(s) THEN s[n] ELSE u[n - Len(s)]
  BY <1>1, ConcatProperties
<1>4. \A n \in DOMAIN s : t[n] = s[n]
  BY <1>1, <1>3
<1>5. \A n \in DOMAIN u : t[Len(s) + n] = u[n]
  <2> TAKE n \in DOMAIN u
  <2>1. Len(s) + n \in 1 .. Len(s) + Len(u) /\ ~(Len(s) + n <= Len(s)) /\ (Len(s) + n) - Len(s) = n
    BY <1>1
  <2> QED
    BY <1>3, <2>1
<1>6. DOMAIN t = DOMAIN s \cup {Len(s) + n : n \in DOMAIN u}
  <2>1. DOMAIN t = 1 .. Len(s) + Len(u)
    BY <1>2
  <2>2. ASSUME NEW n \in 1 .. Len(s) + Len(u), n \notin 1 .. Len(s)
        PROVE  n \in {Len(s) + m : m \in DOMAIN u}
    <3>1. n - Len(s) \in 1 .. Len(u) /\ n = Len(s) + (n - Len(s))
      BY <1>1, <2>2
    <3> QED
      BY <1>1, <3>1
  <2>3. \A n \in DOMAIN u : Len(s) + n \in 1 .. Len(s) + Len(u)
    BY <1>1
  <2>4. \A n \in 1 .. Len(s) : n \in 1 .. Len(s) + Len(u)
    BY <1>1
  <2> QED
    BY <1>1, <2>1, <2>2, <2>3, <2>4
<1>7. IsLog(t)
  BY <1>2, SequenceIsLog
<1> QED
  BY <1>2, <1>4, <1>5, <1>6, <1>7 DEF Concatenated

(* What follows from the clock, the starts and the policies. *)
LEMMA Chronology ==
  ASSUME ClockInv, StartsInv, PoliciesInv
  PROVE  /\ DOMAIN policies = 1 .. Len(policies) /\ Len(policies) \in Nat
         /\ Initialized(current + 1) <=> Len(policies) = current + 2
         /\ \A e \in 0 .. Len(policies) - 1 :
              PolicyStart(e) \in Int /\ ExpectedStart(e) \in Int /\ ExpectedStart(e) <= PolicyStart(e)
         /\ \A e \in 0 .. current : ExpectedStart(e) <= starts[e]
         /\ ExpectedStart(current) <= now
         /\ \A m, n \in DOMAIN policies : policies[m].rewardEpochId = policies[n].rewardEpochId => m = n
<1> DEFINE size == Len(policies)
<1>1. size \in Nat /\ DOMAIN policies = 1 .. size
  BY LogDomain DEF PoliciesInv
<1>2. /\ current \in Int /\ current >= 1
      /\ size = current + 1 \/ size = current + 2
  BY DEF PoliciesInv, ClockInv
<1> HIDE DEF size
<1>3. Initialized(current + 1) <=> size = current + 2
  <2>1. \A n \in DOMAIN policies : policies[n].rewardEpochId = n - 1
    BY DEF PoliciesInv
  <2>2. ASSUME size = current + 2
        PROVE  Initialized(current + 1)
    <3>1. current + 2 \in DOMAIN policies /\ (current + 2) - 1 = current + 1
      BY <1>1, <1>2, <2>2
    <3> QED
      BY <2>1, <3>1 DEF Initialized
  <2>3. ASSUME Initialized(current + 1)
        PROVE  size = current + 2
    <3>1. PICK n \in DOMAIN policies : policies[n].rewardEpochId = current + 1
      BY <2>3 DEF Initialized
    <3>2. n - 1 = current + 1 /\ n \in 1 .. size
      BY <1>1, <2>1, <3>1
    <3> QED
      BY <1>1, <1>2, <3>2
  <2> QED
    BY <2>2, <2>3
<1>4. ASSUME NEW e \in 0 .. size - 1
      PROVE  PolicyStart(e) \in Int /\ ExpectedStart(e) \in Int /\ ExpectedStart(e) <= PolicyStart(e)
  <2>1. e + 1 \in DOMAIN policies /\ (e + 1) - 1 = e /\ e \in Int
    BY <1>1
  <2>2. policies[e + 1].startRound \in Int /\ ExpectedFirstVotingRound(e) <= policies[e + 1].startRound
    BY <2>1 DEF PoliciesInv
  <2>3. ExpectedFirstVotingRound(e) \in Int
    BY <2>1, ScheduleMono
  <2> QED
    BY <2>2, <2>3, RoundStartMono DEF PolicyStart, ExpectedStart
<1>5. ASSUME NEW e \in 0 .. current
      PROVE  ExpectedStart(e) <= starts[e] /\ ExpectedStart(e) <= now
  <2>1. e \in 0 .. size - 1
    BY <1>1, <1>2
  <2>2. PolicyStart(e) \in Int /\ ExpectedStart(e) \in Int /\ ExpectedStart(e) <= PolicyStart(e)
    BY <1>4, <2>1
  <2>3. starts[e] \in Int /\ PolicyStart(e) <= starts[e] /\ starts[e] <= now /\ now \in Int
    BY DEF StartsInv, ClockInv
  <2> QED
    BY <2>2, <2>3
<1>6. ExpectedStart(current) <= now
  <2>1. current \in 0 .. current
    BY <1>2
  <2> QED
    BY <1>5, <2>1
<1>7. \A m, n \in DOMAIN policies : policies[m].rewardEpochId = policies[n].rewardEpochId => m = n
  BY <1>1 DEF PoliciesInv
<1> QED
  BY <1>1, <1>3, <1>4, <1>5, <1>6, <1>7 DEF size

(* The clock, the epochs and the policies. *)
ScheduleInv == ClockInv /\ StartsInv /\ PoliciesInv

(* The schedule holds at first, and every step of the chain keeps it. *)
LEMMA InitSchedule == ChainInit => ScheduleInv
<1> SUFFICES ASSUME ChainInit PROVE ScheduleInv
  OBVIOUS
<1>1. /\ ExpectedStart(0) = 0 /\ ExpectedStart(1) \in Int /\ ExpectedStart(0) < ExpectedStart(1)
      /\ ExpectedFirstVotingRound(0) \in Int /\ ExpectedFirstVotingRound(1) \in Int
      /\ ExpectedFirstVotingRound(0) < ExpectedFirstVotingRound(1)
  BY ScheduleMono
<1>2. ClockInv
  BY <1>1, ScheduleAssumption DEF ChainInit, ClockInv
<1>3. /\ IsLog(policies) /\ Len(policies) = 2 /\ DOMAIN policies = {1, 2}
      /\ \A n \in DOMAIN policies :
           policies[n].rewardEpochId = n - 1 /\ policies[n].startRound = ExpectedFirstVotingRound(n - 1)
           /\ policies[n].voters = PolicyOrder
  <2>1. policies = [n \in 1 .. 2 |-> policies[n]]
    BY DEF ChainInit
  <2>2. policies \in Seq({policies[1], policies[2]})
    BY <2>1
  <2> QED
    BY <2>1, <2>2, SequenceIsLog DEF ChainInit
<1>4. IsLog(PolicyOrder)
  BY RegistryAssumption DEF IsLog
<1>5. current = 1 /\ now = ExpectedStart(1) /\ DOMAIN starts = {0, 1}
      /\ starts[0] = ExpectedStart(0) /\ starts[1] = ExpectedStart(1)
  BY DEF ChainInit
<1>6. PoliciesInv
  <2>1. ASSUME NEW n \in DOMAIN policies, n >= 2
        PROVE  n = 2 /\ policies[n - 1].startRound < policies[n].startRound
               /\ starts[n - 2] < VotingRoundStart(policies[n].startRound)
               /\ policies[n].ts \in Int /\ starts[n - 2] <= policies[n].ts
    <3>1. n = 2
      BY <1>3, <2>1
    <3>3. policies[2].ts = ExpectedStart(1) - 1
      BY DEF ChainInit
    <3>2. policies[1].startRound = ExpectedFirstVotingRound(0) /\ policies[2].startRound = ExpectedFirstVotingRound(1)
      BY <1>3
    <3> QED
      BY <1>1, <1>5, <3>1, <3>2, <3>3 DEF ExpectedStart
  <2>2. \A n \in DOMAIN policies : policies[n].startRound \in Int /\ ExpectedFirstVotingRound(n - 1) <= policies[n].startRound
    <3>1. \A n \in DOMAIN policies : n - 1 = 0 \/ n - 1 = 1
      BY <1>3
    <3> QED
      BY <1>1, <1>3, <3>1
  <2>3. Len(policies) \in {current + 1, current + 2} /\ Len(policies) <= LastEpoch + 1
    BY <1>3, <1>5, ScheduleAssumption
  <2> QED
    BY <1>3, <1>4, <2>1, <2>2, <2>3 DEF PoliciesInv
<1>7. StartsInv
  <2>1. 0 .. current = {0, 1} /\ 1 .. current = {1}
    BY <1>5
  <2>2. PolicyStart(0) = ExpectedStart(0) /\ PolicyStart(1) = ExpectedStart(1)
    BY <1>3 DEF PolicyStart, ExpectedStart
  <2> QED
    BY <1>1, <1>5, <2>1, <2>2 DEF StartsInv
<1> QED
  BY <1>2, <1>6, <1>7 DEF ScheduleInv

LEMMA TickSchedule == ScheduleInv /\ Tick => ScheduleInv'
<1> SUFFICES ASSUME ScheduleInv, Tick PROVE ScheduleInv'
  OBVIOUS
<1>1. now' = now + 1 /\ UNCHANGED <<current, starts, policies>>
  BY DEF Tick, preparation
<1>2. ClockInv'
  BY <1>1 DEF ScheduleInv, ClockInv
<1>3. PoliciesInv'
  BY <1>1 DEF ScheduleInv, PoliciesInv
<1>4. StartsInv'
  BY <1>1 DEF ScheduleInv, StartsInv, ClockInv, PolicyStart
<1> QED
  BY <1>2, <1>3, <1>4 DEF ScheduleInv

(* A policy names a round that has not started. *)
LEMMA FirstRoundIsLater ==
  ASSUME NEW e \in Int, NEW t \in Nat,
         NEW first, first = Max({ExpectedFirstVotingRound(e), t \div RoundSeconds + 1})
  PROVE  first \in Int /\ ExpectedFirstVotingRound(e) <= first /\ t < VotingRoundStart(first)
<1>1. ExpectedFirstVotingRound(e) \in Int
  BY ScheduleMono
<1>2. t \div RoundSeconds + 1 \in Int /\ t < VotingRoundStart(t \div RoundSeconds + 1)
  BY NextRoundIsLater
<1>3. first \in Int /\ ExpectedFirstVotingRound(e) <= first /\ t \div RoundSeconds + 1 <= first
  BY <1>1, <1>2, MaxOfTwo
<1>4. VotingRoundStart(t \div RoundSeconds + 1) <= VotingRoundStart(first) /\ VotingRoundStart(first) \in Int
      /\ VotingRoundStart(t \div RoundSeconds + 1) \in Int
  BY <1>2, <1>3, RoundStartMono
<1> QED
  BY <1>2, <1>3, <1>4

(* Those registered are the first ones in the order of policies.             *)
LEMMA PolicyVotersOK ==
  ASSUME RegistrationsInv
  PROVE  LET size == Cardinality(Registered(current + 1))
             voters == SubSeq(PolicyOrder, 1, size)
         IN  /\ size \in 0 .. Len(PolicyOrder) /\ IsFiniteSet(Registered(current + 1))
             /\ IsLog(voters) /\ DOMAIN voters = 1 .. size
             /\ \A k \in 1 .. size : voters[k] = PolicyOrder[k]
<1> DEFINE size == Cardinality(Registered(current + 1))
           voters == SubSeq(PolicyOrder, 1, size)
<1>1. IsFiniteSet(Registered(current + 1))
  <2>1. IsFiniteSet(DOMAIN registrations)
    BY LogDomain DEF RegistrationsInv
  <2>2. Registered(current + 1) \subseteq DOMAIN registrations
    BY DEF Registered
  <2> QED
    BY <2>1, <2>2, FS_Subset
<1>2. size \in Nat /\ size <= Len(PolicyOrder)
  BY <1>1, FS_CardinalityType DEF RegistrationsInv
<1>3. PolicyOrder \in Seq(ToSet(PolicyOrder)) /\ Len(PolicyOrder) \in Nat
  BY RegistryAssumption
<1> HIDE DEF size
<1>4. voters \in Seq(ToSet(PolicyOrder)) /\ Len(voters) = size /\ DOMAIN voters = 1 .. size
      /\ \A k \in 1 .. size : voters[k] = PolicyOrder[k]
  BY <1>2, <1>3, SubSeqProperties
<1>5. IsLog(voters)
  BY <1>4, SequenceIsLog
<1> QED
  BY <1>1, <1>2, <1>3, <1>4, <1>5 DEF size

LEMMA PolicySchedule == ScheduleInv /\ RegistrationsInv /\ InitializePolicy => ScheduleInv'
<1> SUFFICES ASSUME ScheduleInv, RegistrationsInv, InitializePolicy PROVE ScheduleInv'
  OBVIOUS
<1> DEFINE e == current + 1
           first == Max({ExpectedFirstVotingRound(e), now \div RoundSeconds + 1})
           size == Cardinality(Registered(e))
           policy == [rewardEpochId |-> e, ts |-> now, startRound |-> first, voters |-> SubSeq(PolicyOrder, 1, size)]
<1>1. /\ e <= LastEpoch /\ ~Initialized(e) /\ policies' = Append(policies, policy)
      /\ UNCHANGED <<now, current, starts>>
  BY DEF InitializePolicy
<1>2. /\ IsLog(policies) /\ DOMAIN policies = 1 .. Len(policies) /\ Len(policies) = current + 1
      /\ current \in Nat /\ current >= 1 /\ now \in Nat
  BY <1>1, Chronology DEF ScheduleInv, PoliciesInv, ClockInv
<1>3. first \in Int /\ ExpectedFirstVotingRound(e) <= first /\ now < VotingRoundStart(first)
  <2>1. e \in Int
    BY <1>2
  <2>2. first = Max({ExpectedFirstVotingRound(e), now \div RoundSeconds + 1})
    OBVIOUS
  <2> HIDE DEF first, e
  <2> QED
    BY <1>2, <2>1, <2>2, FirstRoundIsLater
<1>4. IsLog(SubSeq(PolicyOrder, 1, size))
  BY PolicyVotersOK
<1> HIDE DEF first, size
<1>6. /\ policy.rewardEpochId = e /\ policy.startRound = first /\ policy.voters = SubSeq(PolicyOrder, 1, size)
      /\ policy.ts = now
  OBVIOUS
<1> HIDE DEF policy
<1>5. /\ IsLog(policies') /\ Len(policies') = Len(policies) + 1 /\ DOMAIN policies' = DOMAIN policies \cup {Len(policies) + 1}
      /\ policies'[Len(policies) + 1] = policy /\ \A n \in DOMAIN policies : policies'[n] = policies[n]
  <2>1. IsLog(policies) /\ policies' = Append(policies, policy)
    BY <1>1, <1>2
  <2>2. Appended(policies, policy, policies')
    BY <2>1, LogAppend
  <2> QED
    BY <2>2 DEF Appended
<1>7. ClockInv'
  BY <1>1 DEF ScheduleInv, ClockInv
<1>8. \A n \in 0 .. current : PolicyStart(n)' = PolicyStart(n)
  BY <1>2, <1>5 DEF PolicyStart
<1>9. StartsInv'
  BY <1>1, <1>8 DEF ScheduleInv, StartsInv
<1>10. PolicyStart(current) <= starts[current] /\ starts[current] <= now /\ starts[current] \in Int
       /\ policies[current + 1].startRound \in Int
  BY <1>2 DEF ScheduleInv, StartsInv, PoliciesInv
<1>11. policies[current + 1].startRound < first /\ starts[current] < VotingRoundStart(first)
  <2>1. VotingRoundStart(policies[current + 1].startRound) \in Int /\ VotingRoundStart(first) \in Int
    BY <1>3, <1>10, RoundStartMono
  <2>2. VotingRoundStart(policies[current + 1].startRound) < VotingRoundStart(first) /\ starts[current] < VotingRoundStart(first)
    BY <1>2, <1>3, <1>10, <2>1 DEF PolicyStart
  <2> QED
    BY <1>3, <1>10, <2>2, RoundStartMono
<1>12. ASSUME NEW n \in DOMAIN policies'
       PROVE  /\ policies'[n].rewardEpochId = n - 1 /\ policies'[n].startRound \in Int
              /\ ExpectedFirstVotingRound(n - 1) <= policies'[n].startRound
              /\ IsLog(policies'[n].voters)
              /\ n >= 2 => /\ policies'[n - 1].startRound < policies'[n].startRound
                           /\ starts[n - 2] < VotingRoundStart(policies'[n].startRound)
                           /\ policies'[n].ts \in Int /\ starts[n - 2] <= policies'[n].ts
  <2>1. CASE n \in DOMAIN policies
    <3>1. policies'[n] = policies[n] /\ (n >= 2 => policies'[n - 1] = policies[n - 1])
      BY <1>2, <1>5, <2>1
    <3> QED
      BY <2>1, <3>1 DEF ScheduleInv, PoliciesInv
  <2>2. CASE n = Len(policies) + 1
    <3>1. n - 1 = e /\ n - 1 = current + 1 /\ n - 2 = current /\ policies'[n] = policy /\ policies'[n - 1] = policies[current + 1]
      BY <1>2, <1>5, <2>2
    <3>2. policies'[n].ts \in Int /\ starts[n - 2] <= policies'[n].ts
      <4>1. now \in Int /\ starts[current] <= now
        BY <1>2, <1>10
      <4> QED
        BY <1>6, <3>1, <4>1
    <3> QED
      BY <1>3, <1>4, <1>6, <1>11, <3>1, <3>2
  <2> QED
    BY <1>5, <2>1, <2>2
<1>13. PoliciesInv'
  <2>1. Len(policies') = current' + 2 /\ Len(policies') <= LastEpoch + 1
    BY <1>1, <1>2, <1>5, ScheduleAssumption
  <2> QED
    BY <1>1, <1>5, <1>12, <2>1 DEF PoliciesInv
<1> QED
  BY <1>7, <1>9, <1>13 DEF ScheduleInv

(* The round an epoch starts at has started. *)
LEMMA StartIsDue ==
  ASSUME ScheduleInv, StartEpoch
  PROVE  /\ current \in Nat /\ current >= 1 /\ now \in Nat
         /\ DOMAIN policies = 1 .. Len(policies) /\ Len(policies) = current + 2 /\ Len(policies) <= LastEpoch + 1
         /\ PolicyStart(current + 1) <= now /\ ExpectedStart(current + 1) <= now
<1>1. Initialized(current + 1)
  BY DEF StartEpoch
<1>2. /\ current \in Nat /\ current >= 1 /\ now \in Nat
      /\ DOMAIN policies = 1 .. Len(policies) /\ Len(policies) = current + 2 /\ Len(policies) <= LastEpoch + 1
  BY <1>1, Chronology DEF ScheduleInv, PoliciesInv, ClockInv
<1>3. PolicyStart(current + 1) <= now
  <2>1. PICK n \in DOMAIN policies :
          policies[n].rewardEpochId = current + 1 /\ now >= VotingRoundStart(policies[n].startRound)
    BY DEF StartEpoch
  <2>2. policies[current + 2].rewardEpochId = current + 1 /\ current + 2 \in DOMAIN policies /\ (current + 1) + 1 = current + 2
    BY <1>2 DEF ScheduleInv, PoliciesInv
  <2>3. n = current + 2
    BY <2>1, <2>2, Chronology DEF ScheduleInv
  <2>4. VotingRoundStart(policies[current + 2].startRound) \in Int
    BY <2>2, RoundStartMono DEF ScheduleInv, PoliciesInv
  <2> QED
    BY <1>2, <2>1, <2>2, <2>3, <2>4 DEF PolicyStart
<1>4. ExpectedStart(current + 1) <= now
  <2>1. current + 1 \in 0 .. Len(policies) - 1
    BY <1>2
  <2>2. PolicyStart(current + 1) \in Int /\ ExpectedStart(current + 1) \in Int /\ ExpectedStart(current + 1) <= PolicyStart(current + 1)
    BY <2>1, Chronology DEF ScheduleInv
  <2> QED
    BY <1>2, <1>3, <2>2
<1> QED
  BY <1>2, <1>3, <1>4

LEMMA StartSchedule == ScheduleInv /\ StartEpoch => ScheduleInv'
<1> SUFFICES ASSUME ScheduleInv, StartEpoch PROVE ScheduleInv'
  OBVIOUS
<1>1. /\ Initialized(current + 1) /\ current' = current + 1
      /\ starts' = [e \in 0 .. current' |-> IF e = current' THEN now ELSE starts[e]]
      /\ UNCHANGED <<now, policies>>
  BY DEF StartEpoch, payments
<1>2. /\ current \in Nat /\ current >= 1 /\ now \in Nat
      /\ DOMAIN policies = 1 .. Len(policies) /\ Len(policies) = current + 2 /\ Len(policies) <= LastEpoch + 1
      /\ now >= PolicyStart(current + 1)
  BY StartIsDue
<1>4. ClockInv'
  BY <1>1, <1>2, ScheduleAssumption DEF ScheduleInv, ClockInv
<1>5. DOMAIN starts' = 0 .. current' /\ starts'[current'] = now /\ \A e \in 0 .. current : starts'[e] = starts[e]
  BY <1>1, <1>2
<1>6. \A e : PolicyStart(e)' = PolicyStart(e)
  BY <1>1 DEF PolicyStart
<1>7. StartsInv'
  <2>1. ASSUME NEW e \in 0 .. current'
        PROVE  starts'[e] \in Int /\ PolicyStart(e) <= starts'[e] /\ starts'[e] <= now
    <3>1. CASE e \in 0 .. current
      BY <1>5, <3>1 DEF ScheduleInv, StartsInv
    <3>2. CASE e = current'
      BY <1>1, <1>2, <1>5, <3>2
    <3> QED
      BY <1>1, <1>2, <3>1, <3>2
  <2>2. ASSUME NEW d \in 0 .. current', NEW e \in 0 .. current', d <= e
        PROVE  starts'[d] <= starts'[e]
    <3>1. CASE e \in 0 .. current
      <4>1. d \in 0 .. current
        BY <1>1, <1>2, <2>2, <3>1
      <4>2. starts[d] <= starts[e]
        BY <2>2, <3>1, <4>1 DEF ScheduleInv, StartsInv
      <4> QED
        BY <1>5, <3>1, <4>1, <4>2
    <3>2. CASE e = current'
      BY <1>5, <2>1, <3>2
    <3> QED
      BY <1>1, <1>2, <3>1, <3>2
  <2> QED
    BY <1>1, <1>5, <1>6, <2>1, <2>2 DEF StartsInv
<1>8. PoliciesInv'
  <2>1. \A n \in DOMAIN policies : n >= 2 => n - 2 \in 0 .. current
    BY <1>2
  <2>2. Len(policies) = current' + 1
    BY <1>1, <1>2
  <2> QED
    BY <1>1, <1>5, <2>1, <2>2 DEF ScheduleInv, PoliciesInv
<1> QED
  BY <1>4, <1>7, <1>8 DEF ScheduleInv

(* Time passes, at most one policy is added, of a round that has not started, *)
(* and at most one epoch starts.                                            *)
NewPolicy(p1, p2, time) ==
  /\ Len(p1) \in Nat /\ Len(p2) = Len(p1) + 1 /\ \A n \in 1 .. Len(p1) : p2[n] = p1[n]
  /\ p2[Len(p1) + 1].startRound \in Int /\ time < VotingRoundStart(p2[Len(p1) + 1].startRound)
NewStart(b1, c1, b2, c2, time) ==
  /\ c2 = c1 + 1 /\ \A e \in 0 .. c1 : b2[e] = b1[e]
  /\ b2[c2] = time
Onward(b1, c1, p1, t1, b2, c2, p2, t2) ==
  /\ t1 \in Int /\ t2 \in Int /\ t1 <= t2 /\ c1 \in Int
  /\ p2 = p1 \/ NewPolicy(p1, p2, t1)
  /\ (b2 = b1 /\ c2 = c1) \/ NewStart(b1, c1, b2, c2, t1)

(* What is known of an offer, a payment or a registration stays true. *)
LEMMA OfferKept ==
  ASSUME NEW b1, NEW c1, NEW p1, NEW t1, NEW b2, NEW c2, NEW p2, NEW t2,
         Onward(b1, c1, p1, t1, b2, c2, p2, t2), NEW o, Offering(o, c1, p1, t1)
  PROVE  Offering(o, c2, p2, t2)
<1> DEFINE e == o.rewardEpochId
           L == Len(p1)
<1>1. /\ e \in 0 .. c1 + 1 /\ e <= LastEpoch /\ o.amount \in Nat /\ o.ts \in Int /\ o.ts <= t1
      /\ ExpectedStart(e - 1) <= o.ts
      /\ e < L => o.ts < VotingRoundStart(p1[e + 1].startRound)
  BY DEF Offering
<1>2. t1 \in Int /\ t2 \in Int /\ t1 <= t2 /\ c1 \in Int /\ (c2 = c1 \/ c2 = c1 + 1)
  BY DEF Onward, NewStart
<1>3. e \in 0 .. c2 + 1 /\ o.ts <= t2
  BY <1>1, <1>2
<1>4. e < Len(p2) => o.ts < VotingRoundStart(p2[e + 1].startRound)
  <2>1. CASE p2 = p1
    BY <1>1, <2>1
  <2>2. CASE NewPolicy(p1, p2, t1)
    <3>1. /\ L \in Nat /\ Len(p2) = L + 1 /\ \A n \in 1 .. L : p2[n] = p1[n]
          /\ p2[L + 1].startRound \in Int /\ t1 < VotingRoundStart(p2[L + 1].startRound)
      BY <2>2 DEF NewPolicy
    <3>2. VotingRoundStart(p2[L + 1].startRound) \in Int
      BY <3>1, RoundStartMono
    <3> HIDE DEF L, e
    <3>3. e < L => e + 1 \in 1 .. L
      BY <1>1, <3>1
    <3>4. e < L => o.ts < VotingRoundStart(p2[e + 1].startRound)
      BY <1>1, <3>1, <3>3
    <3>5. e = L => o.ts < VotingRoundStart(p2[e + 1].startRound)
      BY <1>1, <1>2, <3>1, <3>2
    <3> QED
      BY <1>1, <1>2, <3>1, <3>4, <3>5 DEF e
  <2> QED
    BY <2>1, <2>2 DEF Onward
<1> QED
  BY <1>1, <1>3, <1>4 DEF Offering

LEMMA PaymentKept ==
  ASSUME NEW b1, NEW c1, NEW p1, NEW t1, NEW b2, NEW c2, NEW p2, NEW t2,
         Onward(b1, c1, p1, t1, b2, c2, p2, t2), NEW x, Paying(x, b1, c1, t1)
  PROVE  Paying(x, b2, c2, t2)
<1> DEFINE e == x.rewardEpochId
<1>1. /\ e \in 0 .. c1 /\ x.timestampSec \in Int /\ b1[e] <= x.timestampSec /\ x.timestampSec <= t1
      /\ e < c1 => x.timestampSec <= b1[e + 1]
  BY DEF Paying
<1>2. t1 \in Int /\ t2 \in Int /\ t1 <= t2 /\ c1 \in Int /\ x.timestampSec <= t2
  BY <1>1 DEF Onward
<1>3. CASE b2 = b1 /\ c2 = c1
  BY <1>1, <1>2, <1>3 DEF Paying
<1>4. CASE NewStart(b1, c1, b2, c2, t1)
  <2>1. c2 = c1 + 1 /\ b2[c2] = t1 /\ \A d \in 0 .. c1 : b2[d] = b1[d]
    BY <1>4 DEF NewStart
  <2> HIDE DEF e
  <2>2. e \in 0 .. c2 /\ b2[e] = b1[e]
    BY <1>1, <1>2, <2>1
  <2>3. CASE e < c1
    <3>1. b2[e + 1] = b1[e + 1]
      BY <1>1, <1>2, <2>1, <2>3
    <3> QED
      BY <1>1, <1>2, <2>2, <2>3, <3>1 DEF Paying, e
  <2>4. CASE e = c1
    <3>1. b2[e + 1] = t1
      BY <2>1, <2>4
    <3> QED
      BY <1>1, <1>2, <2>2, <3>1 DEF Paying, e
  <2> QED
    BY <1>1, <1>2, <2>3, <2>4
<1> QED
  BY <1>3, <1>4 DEF Onward

LEMMA RegistrationKept ==
  ASSUME NEW b1, NEW c1, NEW p1, NEW t1, NEW b2, NEW c2, NEW p2, NEW t2,
         Onward(b1, c1, p1, t1, b2, c2, p2, t2), NEW r, Registering(r, b1, c1, p1, t1)
  PROVE  Registering(r, b2, c2, p2, t2)
<1> DEFINE e == r.rewardEpochId
           L == Len(p1)
<1>1. /\ e \in 0 .. c1 + 1 /\ r.ts \in Int /\ r.ts <= t1
      /\ e >= 1 => b1[e - 1] <= r.ts
      /\ e < L => r.ts < VotingRoundStart(p1[e + 1].startRound)
  BY DEF Registering
<1>2. t1 \in Int /\ t2 \in Int /\ t1 <= t2 /\ c1 \in Int /\ (c2 = c1 \/ c2 = c1 + 1)
  BY DEF Onward, NewStart
<1>3. e \in 0 .. c2 + 1 /\ r.ts <= t2
  BY <1>1, <1>2
<1>4. e >= 1 => b2[e - 1] <= r.ts
  <2>1. CASE b2 = b1
    BY <1>1, <2>1
  <2>2. CASE NewStart(b1, c1, b2, c2, t1)
    <3>1. \A d \in 0 .. c1 : b2[d] = b1[d]
      BY <2>2 DEF NewStart
    <3> HIDE DEF e
    <3>2. e >= 1 => e - 1 \in 0 .. c1
      BY <1>1, <1>2
    <3> QED
      BY <1>1, <3>1, <3>2
  <2> QED
    BY <2>1, <2>2 DEF Onward
<1>5. e < Len(p2) => r.ts < VotingRoundStart(p2[e + 1].startRound)
  <2>1. CASE p2 = p1
    BY <1>1, <2>1
  <2>2. CASE NewPolicy(p1, p2, t1)
    <3>1. /\ L \in Nat /\ Len(p2) = L + 1 /\ \A n \in 1 .. L : p2[n] = p1[n]
          /\ p2[L + 1].startRound \in Int /\ t1 < VotingRoundStart(p2[L + 1].startRound)
      BY <2>2 DEF NewPolicy
    <3>2. VotingRoundStart(p2[L + 1].startRound) \in Int
      BY <3>1, RoundStartMono
    <3> HIDE DEF L, e
    <3>3. e < L => e + 1 \in 1 .. L
      BY <1>1, <3>1
    <3>4. e < L => r.ts < VotingRoundStart(p2[e + 1].startRound)
      BY <1>1, <3>1, <3>3
    <3>5. e = L => r.ts < VotingRoundStart(p2[e + 1].startRound)
      BY <1>1, <1>2, <3>1, <3>2
    <3> QED
      BY <1>1, <1>2, <3>1, <3>4, <3>5 DEF e
  <2> QED
    BY <2>1, <2>2 DEF Onward
<1> QED
  BY <1>1, <1>3, <1>4, <1>5 DEF Registering

OnwardStep == Onward(starts, current, policies, now, starts', current', policies', now')
ScheduleUnchanged == UNCHANGED <<now, current, starts, policies>>

(* Every step of the chain is such a step onward. *)
LEMMA ScheduleStep ==
  ASSUME ScheduleInv, RegistrationsInv, ChainNext
  PROVE  ScheduleInv' /\ OnwardStep
<1>1. now \in Int /\ current \in Int
  BY DEF ScheduleInv, ClockInv
<1>2. ASSUME ScheduleUnchanged
      PROVE  ScheduleInv' /\ OnwardStep
  <2>1. ScheduleInv'
    BY <1>2 DEF ScheduleUnchanged, ScheduleInv, ClockInv, StartsInv, PoliciesInv, PolicyStart
  <2> QED
    BY <1>1, <1>2, <2>1 DEF ScheduleUnchanged, OnwardStep, Onward
<1>3. CASE Tick
  <2>1. now' = now + 1 /\ UNCHANGED <<current, starts, policies>>
    BY <1>3 DEF Tick, preparation
  <2> QED
    BY <1>1, <1>3, <2>1, TickSchedule DEF OnwardStep, Onward
<1>4. CASE InitializePolicy
  <2>1. ScheduleInv'
    BY <1>4, PolicySchedule
  <2>2. UNCHANGED <<now, current, starts>>
    BY <1>4 DEF InitializePolicy
  <2>3. NewPolicy(policies, policies', now)
    <3> DEFINE e == current + 1
               first == Max({ExpectedFirstVotingRound(e), now \div RoundSeconds + 1})
               policy == [rewardEpochId |-> e, ts |-> now, startRound |-> first,
                          voters |-> SubSeq(PolicyOrder, 1, Cardinality(Registered(e)))]
    <3>1. policies' = Append(policies, policy) /\ IsLog(policies) /\ now \in Nat
      BY <1>4 DEF InitializePolicy, ScheduleInv, PoliciesInv, ClockInv
    <3>2. policy.startRound = first /\ e \in Int
      BY <1>1
    <3>3. first \in Int /\ now < VotingRoundStart(first)
      <4>1. first = Max({ExpectedFirstVotingRound(e), now \div RoundSeconds + 1})
        OBVIOUS
      <4> HIDE DEF first, e
      <4> QED
        BY <3>1, <3>2, <4>1, FirstRoundIsLater
    <3> HIDE DEF policy, first
    <3>4. Appended(policies, policy, policies')
      BY <3>1, LogAppend
    <3>5. Len(policies) \in Nat /\ DOMAIN policies = 1 .. Len(policies)
      BY <3>1, LogDomain
    <3> QED
      BY <3>2, <3>3, <3>4, <3>5 DEF Appended, NewPolicy
  <2> QED
    BY <1>1, <2>1, <2>2, <2>3 DEF OnwardStep, Onward
<1>5. CASE StartEpoch
  <2>1. ScheduleInv'
    BY <1>5, StartSchedule
  <2>2. /\ current' = current + 1 /\ starts' = [e \in 0 .. current' |-> IF e = current' THEN now ELSE starts[e]]
        /\ UNCHANGED <<now, policies>>
    BY <1>5 DEF StartEpoch, payments
  <2>3. NewStart(starts, current, starts', current', now)
    <3>1. current \in Nat
      BY DEF ScheduleInv, ClockInv
    <3> QED
      BY <2>2, <3>1 DEF NewStart
  <2> QED
    BY <1>1, <2>1, <2>2, <2>3 DEF OnwardStep, Onward
<1>6. CASE \E v \in ToSet(PolicyOrder) : Register(v)
  BY <1>2, <1>6 DEF Register, ScheduleUnchanged
<1>7. CASE \E batch \in OfferBatches : OfferRewards(batch)
  BY <1>2, <1>7 DEF OfferRewards, preparation, ScheduleUnchanged
<1>8. CASE \E fee \in Fees : OfferIncentive(fee) \/ SendInstruction(fee) \/ RequestAttestation(fee, fee)
  BY <1>2, <1>8 DEF OfferIncentive, SendInstruction, RequestAttestation, preparation, ScheduleUnchanged
<1> QED
  BY <1>3, <1>4, <1>5, <1>6, <1>7, <1>8 DEF ChainNext
-----------------------------------------------------------------------------
(* The offers. *)
LEMMA OffersKept ==
  ASSUME OnwardStep, NEW offers, IsLog(offers), \A n \in DOMAIN offers : Offering(offers[n], current, policies, now)
  PROVE  \A n \in DOMAIN offers : Offering(offers[n], current', policies', now')
<1> TAKE n \in DOMAIN offers
<1> QED
  BY OfferKept DEF OnwardStep

LEMMA NewOffer ==
  ASSUME NEW c \in Nat, c < LastEpoch, NEW p, Len(p) = c + 1, NEW t \in Int, ExpectedStart(c) <= t,
         NEW o, o.rewardEpochId = c + 1, o.amount \in Nat, o.ts = t
  PROVE  Offering(o, c, p, t)
<1>1. LastEpoch \in Nat /\ (c + 1) - 1 = c /\ c + 1 <= LastEpoch /\ c + 1 \in 0 .. c + 1
  BY ScheduleAssumption
<1>2. ~(o.rewardEpochId < Len(p)) /\ ExpectedStart(o.rewardEpochId - 1) <= o.ts
  BY <1>1
<1> QED
  BY <1>1, <1>2 DEF Offering

LEMMA InflationStep ==
  ASSUME ScheduleInv, RegistrationsInv, OffersInv(inflationOffers), ChainNext
  PROVE  OffersInv(inflationOffers)'
<1>1. ScheduleInv' /\ OnwardStep
  BY ScheduleStep
<1>2. IsLog(inflationOffers) /\ \A n \in DOMAIN inflationOffers : Offering(inflationOffers[n], current', policies', now')
  BY <1>1, OffersKept DEF OffersInv
<1>3. ASSUME UNCHANGED inflationOffers
      PROVE  OffersInv(inflationOffers)'
  BY <1>2, <1>3 DEF OffersInv
<1>4. CASE StartEpoch
  <2> DEFINE offer == Inflation(current' + 1)
  <2>1. CASE current' < LastEpoch
    <3>1. inflationOffers' = Append(inflationOffers, offer) /\ UNCHANGED <<now, policies>>
      BY <1>4, <2>1 DEF StartEpoch, payments
    <3>2. Offering(offer, current', policies', now')
      <4>1. /\ current' \in Nat /\ current' >= 1 /\ now' \in Nat
            /\ Len(policies') = current' + 1 /\ ExpectedStart(current') <= now'
        <5>1. current' = current + 1 /\ UNCHANGED <<now, policies>>
          BY <1>4 DEF StartEpoch, payments
        <5> QED
          BY <1>4, <5>1, StartIsDue
      <4>2. offer.rewardEpochId = current' + 1 /\ offer.amount = 1 /\ offer.ts = now'
        BY <3>1 DEF Inflation
      <4>3. current' < LastEpoch
        BY <2>1
      <4> HIDE DEF offer
      <4> QED
        BY <4>1, <4>2, <4>3, NewOffer
    <3> HIDE DEF offer
    <3>3. Appended(inflationOffers, offer, inflationOffers')
      BY <1>2, <3>1, LogAppend
    <3> QED
      BY <1>2, <3>2, <3>3 DEF Appended, OffersInv
  <2>2. CASE ~(current' < LastEpoch)
    BY <1>3, <1>4, <2>2 DEF StartEpoch
  <2> QED
    BY <2>1, <2>2
<1>5. CASE ~StartEpoch
  <2>1. UNCHANGED inflationOffers
    BY <1>5 DEF ChainNext, Tick, InitializePolicy, Register, OfferRewards, OfferIncentive, SendInstruction,
                RequestAttestation, preparation
  <2> QED
    BY <1>3, <2>1
<1> QED
  BY <1>4, <1>5

(* The offers of a batch. *)
BatchOffers(batch) ==
  [n \in DOMAIN batch |-> [rewardEpochId |-> current + 1, feed |-> batch[n].feed, amount |-> batch[n].amount, ts |-> now]]

LEMMA BatchIsLog ==
  ASSUME NEW batch \in OfferBatches
  PROVE  /\ IsLog(BatchOffers(batch)) /\ DOMAIN BatchOffers(batch) = DOMAIN batch
         /\ IsFiniteSet(DOMAIN batch) /\ \A n \in DOMAIN batch : batch[n].feed \in Int /\ batch[n].amount \in Nat
<1> DEFINE u == BatchOffers(batch)
<1>1. batch \in Seq(ToSet(batch)) /\ \A n \in DOMAIN batch : batch[n].feed \in Int /\ batch[n].amount \in Nat
  BY PaymentsAssumption
<1>2. Len(batch) \in Nat /\ DOMAIN batch = 1 .. Len(batch)
  BY <1>1
<1>3. DOMAIN u = 1 .. Len(batch)
  BY <1>2 DEF BatchOffers
<1>4. u = [n \in 1 .. Len(batch) |-> u[n]]
  BY <1>2 DEF BatchOffers
<1>5. u \in Seq(ToSet(u))
  <2>1. \A n \in 1 .. Len(batch) : u[n] \in ToSet(u)
    BY <1>3 DEF ToSet
  <2> HIDE DEF u
  <2>2. u \in [1 .. Len(batch) -> ToSet(u)]
    BY <1>4, <2>1
  <2> QED
    BY <1>2, <2>2, SeqDef
<1>6. IsFiniteSet(DOMAIN batch)
  BY <1>2, FS_Interval
<1> QED
  BY <1>1, <1>2, <1>3, <1>5, <1>6 DEF IsLog

LEMMA CommunityStep ==
  ASSUME ScheduleInv, RegistrationsInv, OffersInv(communityOffers), ChainNext
  PROVE  OffersInv(communityOffers)'
<1>1. ScheduleInv' /\ OnwardStep
  BY ScheduleStep
<1>2. IsLog(communityOffers) /\ \A n \in DOMAIN communityOffers : Offering(communityOffers[n], current', policies', now')
  BY <1>1, OffersKept DEF OffersInv
<1>3. ASSUME UNCHANGED communityOffers
      PROVE  OffersInv(communityOffers)'
  BY <1>2, <1>3 DEF OffersInv
<1>4. ASSUME NEW batch \in OfferBatches, OfferRewards(batch)
      PROVE  OffersInv(communityOffers)'
  <2> DEFINE u == BatchOffers(batch)
  <2>1. /\ current + 1 < LastEpoch /\ ~Initialized(current + 1)
        /\ communityOffers' = communityOffers \o u /\ UNCHANGED <<now, current, policies>>
    BY <1>4 DEF OfferRewards, preparation, BatchOffers
  <2>2. IsLog(u) /\ DOMAIN u = DOMAIN batch /\ \A n \in DOMAIN batch : batch[n].amount \in Nat
    BY BatchIsLog
  <2>3. /\ current \in Nat /\ Len(policies) = current + 1 /\ now \in Int
        /\ ExpectedStart(current) <= now
    BY <2>1, Chronology DEF ScheduleInv, ClockInv, PoliciesInv
  <2>4. ASSUME NEW n \in DOMAIN u
        PROVE  Offering(u[n], current', policies', now')
    <3>1. u[n].rewardEpochId = current + 1 /\ u[n].amount \in Nat /\ u[n].ts = now
      BY <2>2 DEF BatchOffers
    <3>2. Offering(u[n], current, policies, now)
      <4>1. current < LastEpoch
        BY <2>1, <2>3, ScheduleAssumption
      <4> HIDE DEF u
      <4> QED
        BY <2>3, <3>1, <4>1, NewOffer
    <3> QED
      BY <2>1, <3>2
  <2> HIDE DEF u
  <2>5. Concatenated(communityOffers, u, communityOffers')
    BY <1>2, <2>1, <2>2, LogConcat
  <2>6. IsLog(communityOffers')
    BY <2>5 DEF Concatenated
  <2>7. ASSUME NEW n \in DOMAIN communityOffers'
        PROVE  Offering(communityOffers'[n], current', policies', now')
    <3>1. CASE n \in DOMAIN communityOffers
      BY <1>2, <2>5, <3>1 DEF Concatenated
    <3>2. CASE n \in {Len(communityOffers) + m : m \in DOMAIN u}
      <4>1. PICK m \in DOMAIN u : n = Len(communityOffers) + m
        BY <3>2
      <4>2. communityOffers'[n] = u[m]
        BY <2>5, <4>1 DEF Concatenated
      <4> QED
        BY <2>4, <4>2
    <3> QED
      BY <2>5, <3>1, <3>2 DEF Concatenated
  <2> QED
    BY <2>6, <2>7 DEF OffersInv
<1>5. CASE ~(\E batch \in OfferBatches : OfferRewards(batch))
  <2>1. UNCHANGED communityOffers
    BY <1>5 DEF ChainNext, Tick, InitializePolicy, Register, StartEpoch, OfferIncentive, SendInstruction,
                RequestAttestation, preparation, payments
  <2> QED
    BY <1>3, <2>1
<1> QED
  BY <1>4, <1>5

(* What is paid. *)
LEMMA PaymentsKept ==
  ASSUME OnwardStep, NEW events, IsLog(events), \A n \in DOMAIN events : Paying(events[n], starts, current, now)
  PROVE  \A n \in DOMAIN events : Paying(events[n], starts', current', now')
<1> TAKE n \in DOMAIN events
<1> QED
  BY PaymentKept DEF OnwardStep

LEMMA NewPayment ==
  ASSUME ScheduleInv, NEW x, x.rewardEpochId = current, x.timestampSec = now
  PROVE  Paying(x, starts, current, now)
<1>1. current \in Nat /\ now \in Int /\ starts[current] <= now
  BY DEF ScheduleInv, ClockInv, StartsInv
<1> QED
  BY <1>1 DEF Paying

LEMMA IncentivesStep ==
  ASSUME ScheduleInv, RegistrationsInv, PaymentsInv(incentives), ChainNext
  PROVE  PaymentsInv(incentives)'
<1>1. ScheduleInv' /\ OnwardStep
  BY ScheduleStep
<1>2. IsLog(incentives) /\ \A n \in DOMAIN incentives : Paying(incentives[n], starts', current', now')
  BY <1>1, PaymentsKept DEF PaymentsInv
<1>3. ASSUME UNCHANGED incentives
      PROVE  PaymentsInv(incentives)'
  BY <1>2, <1>3 DEF PaymentsInv
<1>4. ASSUME NEW fee \in Fees, OfferIncentive(fee)
      PROVE  PaymentsInv(incentives)'
  <2> DEFINE x == [rewardEpochId |-> current, amount |-> fee, timestampSec |-> now]
  <2>1. incentives' = Append(incentives, x) /\ UNCHANGED <<now, current, starts>>
    BY <1>4 DEF OfferIncentive, preparation
  <2>2. x.rewardEpochId = current /\ x.timestampSec = now
    OBVIOUS
  <2> HIDE DEF x
  <2>3. Paying(x, starts', current', now')
    BY <2>1, <2>2, NewPayment
  <2>4. Appended(incentives, x, incentives')
    BY <1>2, <2>1, LogAppend
  <2> QED
    BY <1>2, <2>3, <2>4 DEF Appended, PaymentsInv
<1>5. CASE ~(\E fee \in Fees : OfferIncentive(fee))
  <2>1. UNCHANGED incentives
    BY <1>5 DEF ChainNext, Tick, InitializePolicy, Register, StartEpoch, OfferRewards, SendInstruction,
                RequestAttestation, preparation, payments
  <2> QED
    BY <1>3, <2>1
<1> QED
  BY <1>4, <1>5

(* An instruction is sent, by itself or with a request.                      *)
Sent(fee) ==
  /\ FccActive(current)
  /\ teeInstructions' = Append(teeInstructions, Instruction(fee)) /\ UNCHANGED <<now, current, starts>>

LEMMA SentInstruction ==
  ASSUME ScheduleInv, IsLog(teeInstructions), NEW fee \in Nat, Sent(fee)
  PROVE  /\ Appended(teeInstructions, Instruction(fee), teeInstructions')
         /\ Paying(Instruction(fee), starts', current', now')
<1>1. Instruction(fee).rewardEpochId = current /\ Instruction(fee).timestampSec = now
  BY DEF Instruction
<1>2. Paying(Instruction(fee), starts', current', now')
  BY <1>1, NewPayment DEF Sent
<1> QED
  BY <1>2, LogAppend DEF Sent

(* A step sends an instruction or leaves them as they are.                   *)
LEMMA InstructionsChange ==
  ASSUME ChainNext
  PROVE  \/ UNCHANGED <<teeInstructions, fdc2Requests>>
         \/ \E fee \in Fees : Sent(fee) /\ UNCHANGED fdc2Requests
         \/ \E fee \in Fees :
              /\ Sent(fee)
              /\ fdc2Requests' = Append(fdc2Requests, [instructionId |-> Len(teeInstructions) + 1, fee |-> fee, timestampSec |-> now])
<1>1. CASE \E fee \in Fees : SendInstruction(fee)
  BY <1>1 DEF SendInstruction, Sent, preparation
<1>2. CASE \E fee \in Fees : RequestAttestation(fee, fee)
  BY <1>2 DEF RequestAttestation, Sent, preparation
<1>3. CASE ~(\E fee \in Fees : SendInstruction(fee) \/ RequestAttestation(fee, fee))
  <2>1. UNCHANGED <<teeInstructions, fdc2Requests>>
    BY <1>3 DEF ChainNext, Tick, InitializePolicy, Register, StartEpoch, OfferRewards, OfferIncentive, payments
  <2> QED
    BY <2>1
<1> QED
  BY <1>1, <1>2, <1>3

LEMMA InstructionsStep ==
  ASSUME ScheduleInv, RegistrationsInv, PaymentsInv(teeInstructions), ChainNext
  PROVE  PaymentsInv(teeInstructions)'
<1>1. ScheduleInv' /\ OnwardStep
  BY ScheduleStep
<1>2. IsLog(teeInstructions) /\ \A n \in DOMAIN teeInstructions : Paying(teeInstructions[n], starts', current', now')
  BY <1>1, PaymentsKept DEF PaymentsInv
<1>3. CASE UNCHANGED teeInstructions
  BY <1>2, <1>3 DEF PaymentsInv
<1>4. ASSUME NEW fee \in Fees, Sent(fee)
      PROVE  PaymentsInv(teeInstructions)'
  <2>1. fee \in Nat
    BY PaymentsAssumption
  <2>2. Appended(teeInstructions, Instruction(fee), teeInstructions') /\ Paying(Instruction(fee), starts', current', now')
    BY <1>2, <1>4, <2>1, SentInstruction
  <2> QED
    BY <1>2, <2>2 DEF Appended, PaymentsInv
<1> QED
  BY <1>3, <1>4, InstructionsChange

(* The types of what is paid, and the pairs. *)
LEMMA FeesStep ==
  ASSUME ScheduleInv, OffersInv(communityOffers), PaymentsInv(incentives), PaymentsInv(teeInstructions), FeesInv, ChainNext
  PROVE  FeesInv'
<1>1. \A n \in DOMAIN communityOffers' : communityOffers'[n].feed \in Int
  <2>1. ASSUME NEW batch \in OfferBatches, OfferRewards(batch)
        PROVE  \A n \in DOMAIN communityOffers' : communityOffers'[n].feed \in Int
    <3> DEFINE u == BatchOffers(batch)
    <3>1. communityOffers' = communityOffers \o u /\ IsLog(communityOffers)
      BY <2>1 DEF OfferRewards, BatchOffers, OffersInv
    <3>2. IsLog(u) /\ DOMAIN u = DOMAIN batch /\ \A n \in DOMAIN batch : batch[n].feed \in Int
      BY BatchIsLog
    <3>3. \A n \in DOMAIN u : u[n].feed \in Int
      BY <3>2 DEF BatchOffers
    <3> HIDE DEF u
    <3>4. Concatenated(communityOffers, u, communityOffers')
      BY <3>1, <3>2, LogConcat
    <3> QED
      BY <3>3, <3>4 DEF Concatenated, FeesInv
  <2>2. CASE ~(\E batch \in OfferBatches : OfferRewards(batch))
    <3>1. UNCHANGED communityOffers
      BY <2>2 DEF ChainNext, Tick, InitializePolicy, Register, StartEpoch, OfferIncentive, SendInstruction,
                  RequestAttestation, preparation, payments
    <3> QED
      BY <3>1 DEF FeesInv
  <2> QED
    BY <2>1, <2>2
<1>2. \A n \in DOMAIN incentives' : incentives'[n].amount \in Nat
  <2>1. ASSUME NEW fee \in Fees, OfferIncentive(fee)
        PROVE  \A n \in DOMAIN incentives' : incentives'[n].amount \in Nat
    <3> DEFINE x == [rewardEpochId |-> current, amount |-> fee, timestampSec |-> now]
    <3>1. incentives' = Append(incentives, x) /\ IsLog(incentives) /\ x.amount \in Nat
      BY <2>1, PaymentsAssumption DEF OfferIncentive, PaymentsInv
    <3> HIDE DEF x
    <3>2. Appended(incentives, x, incentives')
      BY <3>1, LogAppend
    <3> QED
      BY <3>1, <3>2 DEF Appended, FeesInv
  <2>2. CASE ~(\E fee \in Fees : OfferIncentive(fee))
    <3>1. UNCHANGED incentives
      BY <2>2 DEF ChainNext, Tick, InitializePolicy, Register, StartEpoch, OfferRewards, SendInstruction,
                  RequestAttestation, preparation, payments
    <3> QED
      BY <3>1 DEF FeesInv
  <2> QED
    BY <2>1, <2>2
<1> DEFINE Instructions(tee) ==
             \A n \in DOMAIN tee : tee[n].fee \in Nat /\ tee[n].instructionId = n /\ FccActive(tee[n].rewardEpochId)
           Pair(q, tee) == /\ q.fee \in Nat /\ q.instructionId \in DOMAIN tee
                           /\ q.timestampSec = tee[q.instructionId].timestampSec
           Requests(requests, tee) == IsLog(requests) /\ \A n \in DOMAIN requests : Pair(requests[n], tee)
<1>3. Instructions(teeInstructions) /\ Requests(fdc2Requests, teeInstructions)
  BY DEF FeesInv
<1>4. Instructions(teeInstructions') /\ Requests(fdc2Requests', teeInstructions')
  <2>1. CASE UNCHANGED <<teeInstructions, fdc2Requests>>
    BY <1>3, <2>1
  <2>2. ASSUME NEW fee \in Fees, Sent(fee)
        PROVE  /\ Instructions(teeInstructions')
               /\ \A q : Pair(q, teeInstructions) => Pair(q, teeInstructions')
               /\ Len(teeInstructions) + 1 \in DOMAIN teeInstructions'
               /\ teeInstructions'[Len(teeInstructions) + 1].timestampSec = now
    <3>1. fee \in Nat /\ IsLog(teeInstructions)
      BY PaymentsAssumption DEF PaymentsInv
    <3>2. Appended(teeInstructions, Instruction(fee), teeInstructions')
      BY <2>2, <3>1, SentInstruction
    <3>3. Instruction(fee).fee = fee /\ Instruction(fee).instructionId = Len(teeInstructions) + 1
          /\ Instruction(fee).timestampSec = now /\ FccActive(Instruction(fee).rewardEpochId)
      BY <2>2 DEF Instruction, Sent
    <3> QED
      BY <1>3, <3>1, <3>2, <3>3 DEF Appended
  <2>3. ASSUME NEW fee \in Fees, Sent(fee), UNCHANGED fdc2Requests
        PROVE  Instructions(teeInstructions') /\ Requests(fdc2Requests', teeInstructions')
    <3> HIDE DEF Pair, Instructions
    <3> QED
      BY <1>3, <2>2, <2>3
  <2>4. ASSUME NEW fee \in Fees, Sent(fee),
               fdc2Requests' = Append(fdc2Requests, [instructionId |-> Len(teeInstructions) + 1, fee |-> fee, timestampSec |-> now])
        PROVE  Instructions(teeInstructions') /\ Requests(fdc2Requests', teeInstructions')
    <3> DEFINE q == [instructionId |-> Len(teeInstructions) + 1, fee |-> fee, timestampSec |-> now]
    <3>1. Pair(q, teeInstructions')
      BY <2>2, <2>4, PaymentsAssumption
    <3>2. fdc2Requests' = Append(fdc2Requests, q) /\ IsLog(fdc2Requests)
      BY <1>3, <2>4
    <3> HIDE DEF q, Pair, Instructions
    <3>3. Appended(fdc2Requests, q, fdc2Requests')
      BY <3>2, LogAppend
    <3> QED
      BY <1>3, <2>2, <2>4, <3>1, <3>3 DEF Appended
  <2> HIDE DEF Pair, Instructions, Requests
  <2> QED
    BY <2>1, <2>3, <2>4, InstructionsChange
<1> QED
  BY <1>1, <1>2, <1>4 DEF FeesInv

(* The registrations. *)
LEMMA RegistrationsKept ==
  ASSUME OnwardStep, RegistrationsInv
  PROVE  \A n \in DOMAIN registrations : Registering(registrations[n], starts', current', policies', now')
<1> TAKE n \in DOMAIN registrations
<1>1. Registering(registrations[n], starts, current, policies, now)
  BY DEF RegistrationsInv
<1> HIDE DEF Registering
<1> QED
  BY <1>1, RegistrationKept DEF OnwardStep

LEMMA RegisteredFinite ==
  ASSUME RegistrationsInv, NEW e
  PROVE  /\ Registered(e) \subseteq DOMAIN registrations /\ IsFiniteSet(Registered(e))
         /\ Cardinality(Registered(e)) \in Nat
<1>1. IsFiniteSet(DOMAIN registrations)
  BY LogDomain DEF RegistrationsInv
<1>2. Registered(e) \subseteq DOMAIN registrations
  BY DEF Registered
<1>3. IsFiniteSet(Registered(e))
  BY <1>1, <1>2, FS_Subset
<1> QED
  BY <1>2, <1>3, FS_CardinalityType

(* With the voters unchanged, all is kept until an epoch starts or a policy  *)
(* is made.                                                                 *)
LEMMA RegistrationsUnchanged ==
  ASSUME OnwardStep, RegistrationsInv, UNCHANGED <<registrations, current, policies>>
  PROVE  RegistrationsInv'
<1>1. \A n \in DOMAIN registrations' : Registering(registrations'[n], starts', current', policies', now')
  BY RegistrationsKept
<1>2. \A e : Registered(e)' = Registered(e)
  BY DEF Registered
<1> HIDE DEF Registering
<1>3. Registered(current + 1)' = Registered(current + 1)
  BY <1>2
<1> QED
  BY <1>1, <1>2, <1>3 DEF RegistrationsInv

(* A voter registers for the next epoch, behind all that registered before.  *)
LEMMA RegisterStep ==
  ASSUME ScheduleInv, RegistrationsInv, OnwardStep, NEW v \in ToSet(PolicyOrder), Register(v)
  PROVE  RegistrationsInv'
<1> DEFINE e == current + 1
           x == Registration(v, e)
           size == Cardinality(Registered(e))
           last == Len(registrations) + 1
<1>1. /\ e <= LastEpoch /\ ~Initialized(e) /\ size < Len(PolicyOrder) /\ v = PolicyOrder[size + 1]
      /\ registrations' = Append(registrations, x)
      /\ UNCHANGED <<now, current, starts, policies>>
  BY DEF Register
<1>2. /\ current \in Nat /\ current >= 1 /\ now \in Nat /\ Len(policies) = current + 1 /\ starts[current] <= now
  BY <1>1, Chronology DEF ScheduleInv, PoliciesInv, ClockInv, StartsInv
<1>3. x.rewardEpochId = e /\ x.ts = now /\ x.voter = v
  BY DEF Registration
<1>4. Registering(x, starts, current, policies, now)
  <2>1. e \in 0 .. current + 1 /\ e - 1 = current /\ ~(e < Len(policies))
    BY <1>2
  <2> HIDE DEF x, e
  <2> QED
    BY <1>2, <1>3, <2>1 DEF Registering
<1>5. IsLog(registrations) /\ Len(registrations) \in Nat /\ DOMAIN registrations = 1 .. Len(registrations)
  BY LogDomain DEF RegistrationsInv
<1>6. \A n \in DOMAIN registrations : Registering(registrations[n], starts, current, policies, now)
  BY DEF RegistrationsInv
<1>7. /\ size \in Nat /\ IsFiniteSet(Registered(e)) /\ Registered(e) \subseteq DOMAIN registrations
  BY RegisteredFinite
<1> HIDE DEF Registering, x
<1>8. Appended(registrations, x, registrations')
  BY <1>1, <1>5, LogAppend
<1>9. /\ IsLog(registrations') /\ DOMAIN registrations' = DOMAIN registrations \cup {last} /\ last \notin DOMAIN registrations
      /\ registrations'[last] = x /\ \A n \in DOMAIN registrations : registrations'[n] = registrations[n]
  BY <1>5, <1>8 DEF Appended
<1> HIDE DEF last
<1>10. \A n \in DOMAIN registrations' : Registering(registrations'[n], starts', current', policies', now')
  BY <1>1, <1>4, <1>6, <1>9
<1>11. Registered(e)' = Registered(e) \cup {last} /\ \A d : Registered(d) \subseteq Registered(d)'
  BY <1>3, <1>9, <1>1 DEF Registered
<1>12. last \notin Registered(e)
  BY <1>7, <1>9
<1>13. Cardinality(Registered(e)') = size + 1
  BY <1>7, <1>11, <1>12, FS_AddElement
<1>14. \A n \in DOMAIN registrations : registrations[n].rewardEpochId \in Int /\ registrations[n].rewardEpochId <= e
  BY <1>2, <1>6 DEF Registering
<1>15. ASSUME NEW m \in DOMAIN registrations', NEW n \in DOMAIN registrations', m <= n
       PROVE  registrations'[m].rewardEpochId <= registrations'[n].rewardEpochId
  <2>1. CASE n = last
    <3>1. registrations'[n].rewardEpochId = e /\ e \in Int
      BY <1>2, <1>3, <1>9, <2>1
    <3>2. m \in DOMAIN registrations \/ m = last
      BY <1>9
    <3> HIDE DEF e
    <3> QED
      BY <1>3, <1>9, <1>14, <3>1, <3>2
  <2>2. CASE n \in DOMAIN registrations
    <3>1. m \in DOMAIN registrations
      BY <1>5, <1>9, <1>15, <2>2 DEF last
    <3> QED
      BY <1>9, <1>15, <2>2, <3>1 DEF RegistrationsInv
  <2> QED
    BY <1>9, <2>1, <2>2
<1>16. Registered(current + 1)' = Registered(e)' /\ current' + 1 = e
  BY <1>1
<1>17. ASSUME NEW k \in 1 .. size + 1
       PROVE  \E n \in Registered(e)' : registrations'[n].voter = PolicyOrder[k]
  <2>1. CASE k = size + 1
    BY <1>1, <1>3, <1>9, <1>11, <2>1
  <2>2. CASE k \in 1 .. size
    <3>1. PICK n \in Registered(e) : registrations[n].voter = PolicyOrder[k]
      BY <2>2 DEF RegistrationsInv
    <3> QED
      BY <1>7, <1>9, <1>11, <3>1
  <2> QED
    BY <1>7, <2>1, <2>2
<1>18. ASSUME NEW p \in DOMAIN policies, NEW k \in DOMAIN policies[p].voters
       PROVE  \E n \in Registered(p - 1)' : registrations'[n].voter = policies[p].voters[k]
  <2>1. PICK n \in Registered(p - 1) : registrations[n].voter = policies[p].voters[k]
    BY DEF RegistrationsInv
  <2> QED
    BY <1>9, <1>11, <2>1 DEF Registered
<1>19. Cardinality(Registered(current + 1)') <= Len(PolicyOrder)
  BY <1>1, <1>7, <1>13, <1>16, RegistryAssumption
<1>20. \A k \in 1 .. Cardinality(Registered(current + 1)') :
         \E n \in Registered(current + 1)' : registrations'[n].voter = PolicyOrder[k]
  BY <1>13, <1>16, <1>17
<1> HIDE DEF e, size
<1> QED
  BY <1>1, <1>9, <1>10, <1>15, <1>18, <1>19, <1>20 DEF RegistrationsInv

(* The voters of a new policy have registered. *)
LEMMA RegistrationsAtPolicy ==
  ASSUME ScheduleInv, RegistrationsInv, OnwardStep, InitializePolicy
  PROVE  RegistrationsInv'
<1> DEFINE e == current + 1
           size == Cardinality(Registered(e))
           policy == [rewardEpochId |-> e, ts |-> now, voters |-> SubSeq(PolicyOrder, 1, size),
                      startRound |-> Max({ExpectedFirstVotingRound(e), now \div RoundSeconds + 1})]
<1>1. /\ ~Initialized(e) /\ policies' = Append(policies, policy) /\ UNCHANGED <<registrations, current>>
  BY DEF InitializePolicy
<1>2. /\ IsLog(policies) /\ Len(policies) = current + 1 /\ current \in Nat
  BY <1>1, Chronology DEF ScheduleInv, PoliciesInv, ClockInv
<1>3. policy.voters = SubSeq(PolicyOrder, 1, size)
  OBVIOUS
<1> HIDE DEF policy
<1>4. Appended(policies, policy, policies')
  BY <1>1, <1>2, LogAppend
<1>5. \A n \in DOMAIN registrations' : Registering(registrations'[n], starts', current', policies', now')
  BY <1>1, RegistrationsKept
<1>6. \A d : Registered(d)' = Registered(d)
  BY <1>1 DEF Registered
<1>7. Registered(current + 1)' = Registered(current + 1)
  BY <1>1, <1>6
<1>8. ASSUME NEW p \in DOMAIN policies', NEW k \in DOMAIN policies'[p].voters
      PROVE  \E n \in Registered(p - 1) : registrations[n].voter = policies'[p].voters[k]
  <2>1. CASE p \in DOMAIN policies
    <3>1. policies'[p] = policies[p]
      BY <1>4, <2>1 DEF Appended
    <3> QED
      BY <1>8, <2>1, <3>1 DEF RegistrationsInv
  <2>2. CASE p = Len(policies) + 1
    <3>1. policies'[p].voters = SubSeq(PolicyOrder, 1, size) /\ p - 1 = e
      BY <1>2, <1>3, <1>4, <2>2 DEF Appended
    <3>2. k \in 1 .. size /\ policies'[p].voters[k] = PolicyOrder[k]
      BY <1>8, <3>1, PolicyVotersOK
    <3> QED
      BY <3>1, <3>2 DEF RegistrationsInv
  <2> QED
    BY <1>4, <2>1, <2>2 DEF Appended
<1> HIDE DEF Registering
<1> QED
  BY <1>1, <1>5, <1>6, <1>7, <1>8 DEF RegistrationsInv

(* When an epoch starts nobody has registered for the next one. *)
LEMMA RegistrationsAtStart ==
  ASSUME ScheduleInv, RegistrationsInv, OnwardStep, StartEpoch
  PROVE  RegistrationsInv'
<1>1. current' = current + 1 /\ UNCHANGED <<policies, registrations>> /\ current \in Nat
  BY DEF StartEpoch, payments, ScheduleInv, ClockInv
<1>2. \A n \in DOMAIN registrations' : Registering(registrations'[n], starts', current', policies', now')
  BY <1>1, RegistrationsKept
<1>3. \A d : Registered(d)' = Registered(d)
  BY <1>1 DEF Registered
<1>4. \A n \in DOMAIN registrations : registrations[n].rewardEpochId \in 0 .. current + 1
  BY DEF RegistrationsInv, Registering
<1>5. Registered(current + 1)' = {}
  BY <1>1, <1>4 DEF Registered
<1>6. Cardinality(Registered(current + 1)') = 0 /\ Len(PolicyOrder) \in Nat
  <2>1. \A S : S = {} => Cardinality(S) = 0
    BY FS_EmptySet
  <2> QED
    BY <1>5, <2>1, RegistryAssumption
<1> HIDE DEF Registering
<1>7. 1 .. Cardinality(Registered(current + 1)') = {}
  BY <1>6
<1> QED
  BY <1>1, <1>2, <1>3, <1>6, <1>7 DEF RegistrationsInv

LEMMA RegistrationsStep ==
  ASSUME ScheduleInv, RegistrationsInv, ChainNext
  PROVE  RegistrationsInv'
<1>1. OnwardStep
  BY ScheduleStep
<1>2. CASE InitializePolicy
  BY <1>1, <1>2, RegistrationsAtPolicy
<1>3. CASE StartEpoch
  BY <1>1, <1>3, RegistrationsAtStart
<1>4. CASE \E v \in ToSet(PolicyOrder) : Register(v)
  BY <1>1, <1>4, RegisterStep
<1>5. CASE ~(InitializePolicy \/ StartEpoch \/ \E v \in ToSet(PolicyOrder) : Register(v))
  <2>1. UNCHANGED <<registrations, current, policies>>
    BY <1>5 DEF ChainNext, Tick, OfferRewards, OfferIncentive, SendInstruction, RequestAttestation, preparation
  <2> QED
    BY <1>1, <2>1, RegistrationsUnchanged
<1> QED
  BY <1>2, <1>3, <1>4, <1>5

(* The order on chain is kept. *)
LEMMA ChainStep ==
  ASSUME ChainInv, ChainNext
  PROVE  ChainInv'
<1>1. ScheduleInv
  BY DEF ChainInv, ScheduleInv
<1>2. ScheduleInv'
  BY <1>1, ScheduleStep DEF ChainInv
<1>3. RegistrationsInv'
  BY <1>1, RegistrationsStep DEF ChainInv
<1>4. OffersInv(inflationOffers)' /\ OffersInv(communityOffers)'
  BY <1>1, InflationStep, CommunityStep DEF ChainInv
<1>5. PaymentsInv(incentives)' /\ PaymentsInv(teeInstructions)' /\ FeesInv'
  BY <1>1, IncentivesStep, InstructionsStep, FeesStep DEF ChainInv
<1> QED
  BY <1>2, <1>3, <1>4, <1>5 DEF ChainInv, ScheduleInv
-----------------------------------------------------------------------------
(* All of it holds when the run begins, with the events of epochs 0, 1 and 2. *)
LEMMA InitOffers == ChainInit => OffersInv(inflationOffers) /\ OffersInv(communityOffers)
<1> SUFFICES ASSUME ChainInit PROVE OffersInv(inflationOffers) /\ OffersInv(communityOffers)
  OBVIOUS
<1>1. current = 1 /\ now = ExpectedStart(1) /\ communityOffers = <<>> /\ LastEpoch \in Nat /\ LastEpoch >= 2
  BY ScheduleAssumption DEF ChainInit
<1>2. OffersInv(communityOffers)
  BY <1>1 DEF OffersInv, IsLog
<1>3. inflationOffers = [n \in 1 .. 3 |-> [Inflation(n - 1) EXCEPT !.ts = ExpectedStart(n - 2)]]
  BY DEF ChainInit
<1>4. ASSUME NEW n \in 1 .. 3
      PROVE  inflationOffers[n].rewardEpochId = n - 1 /\ inflationOffers[n].amount = 1
             /\ inflationOffers[n].ts = ExpectedStart(n - 2)
  BY <1>3 DEF Inflation
<1>5. DOMAIN inflationOffers = 1 .. 3 /\ inflationOffers = [n \in 1 .. 3 |-> inflationOffers[n]]
  BY <1>3
<1>6. IsLog(inflationOffers)
  <2>1. inflationOffers \in Seq({inflationOffers[n] : n \in 1 .. 3})
    <3>1. inflationOffers \in [1 .. 3 -> {inflationOffers[n] : n \in 1 .. 3}]
      BY <1>5
    <3> QED
      BY <3>1, SeqDef
  <2> QED
    BY <2>1, SequenceIsLog
<1>7. policies[1].startRound = ExpectedFirstVotingRound(0) /\ policies[2].startRound = ExpectedFirstVotingRound(1)
      /\ Len(policies) = 2
  BY DEF ChainInit
<1>8. /\ ExpectedStart(-1) \in Int /\ ExpectedStart(0) \in Int /\ ExpectedStart(1) \in Int
      /\ ExpectedStart(-1) < ExpectedStart(0) /\ ExpectedStart(0) < ExpectedStart(1)
  <2>1. -1 \in Int /\ -1 < 0
    OBVIOUS
  <2> QED
    BY <2>1, ScheduleMono
<1>9. Offering(inflationOffers[1], current, policies, now)
  BY <1>1, <1>4, <1>7, <1>8 DEF Offering, ExpectedStart
<1>10. Offering(inflationOffers[2], current, policies, now)
  BY <1>1, <1>4, <1>7, <1>8 DEF Offering, ExpectedStart
<1>11. Offering(inflationOffers[3], current, policies, now)
  BY <1>1, <1>4, <1>7, <1>8 DEF Offering
<1> HIDE DEF Offering
<1>12. ASSUME NEW n \in 1 .. 3
       PROVE  Offering(inflationOffers[n], current, policies, now)
  BY <1>9, <1>10, <1>11
<1> QED
  BY <1>2, <1>5, <1>6, <1>12 DEF OffersInv

LEMMA InitPayments == ChainInit => PaymentsInv(incentives) /\ PaymentsInv(teeInstructions) /\ FeesInv
<1> SUFFICES ASSUME ChainInit PROVE PaymentsInv(incentives) /\ PaymentsInv(teeInstructions) /\ FeesInv
  OBVIOUS
<1>1. communityOffers = <<>> /\ incentives = <<>> /\ teeInstructions = <<>> /\ fdc2Requests = <<>>
  BY DEF ChainInit
<1> QED
  BY <1>1 DEF PaymentsInv, FeesInv, IsLog

LEMMA InitRegistrations == ChainInit => RegistrationsInv
<1> SUFFICES ASSUME ChainInit PROVE RegistrationsInv
  OBVIOUS
<1> DEFINE size == Len(PolicyOrder)
           A == RegisteredBefore(0)
           B == RegisteredBefore(1)
<1>1. /\ current = 1 /\ now = ExpectedStart(1) /\ registrations = A \o B
      /\ starts[0] = ExpectedStart(0) /\ starts[1] = ExpectedStart(1) /\ DOMAIN policies = {1, 2} /\ Len(policies) = 2
      /\ policies[1].startRound = ExpectedFirstVotingRound(0) /\ policies[2].startRound = ExpectedFirstVotingRound(1)
      /\ policies[1].voters = PolicyOrder /\ policies[2].voters = PolicyOrder
  BY DEF ChainInit
<1>2. PolicyOrder \in Seq(ToSet(PolicyOrder)) /\ size \in Nat /\ DOMAIN PolicyOrder = 1 .. size
  BY RegistryAssumption
<1>3. ASSUME NEW e \in {0, 1}
      PROVE  /\ IsLog(RegisteredBefore(e)) /\ DOMAIN RegisteredBefore(e) = 1 .. size /\ Len(RegisteredBefore(e)) = size
             /\ \A k \in 1 .. size : LET r == RegisteredBefore(e)[k]
                                     IN  r.voter = PolicyOrder[k] /\ r.rewardEpochId = e /\ r.ts = ExpectedStart(e) - 1
  <2> DEFINE s == RegisteredBefore(e)
  <2>1. s = [n \in 1 .. size |-> [Registration(PolicyOrder[n], e) EXCEPT !.ts = ExpectedStart(e) - 1]]
    BY <1>2 DEF RegisteredBefore
  <2>2. \A k \in 1 .. size : s[k].voter = PolicyOrder[k] /\ s[k].rewardEpochId = e /\ s[k].ts = ExpectedStart(e) - 1
    BY <2>1 DEF Registration
  <2>3. DOMAIN s = 1 .. size /\ s = [n \in 1 .. size |-> s[n]]
    BY <2>1
  <2> HIDE DEF s
  <2>4. s \in [1 .. size -> {s[k] : k \in 1 .. size}]
    BY <2>3
  <2>5. s \in Seq({s[k] : k \in 1 .. size})
    BY <1>2, <2>4, SeqDef
  <2>6. IsLog(s)
    BY <2>5, SequenceIsLog
  <2>7. Len(s) \in Nat /\ 1 .. Len(s) = 1 .. size
    BY <2>3, <2>6, LogDomain
  <2>8. Len(s) = size
    <3> HIDE DEF size
    <3>1. size \in Nat
      BY <1>2 DEF size
    <3> DEFINE l == Len(s)
    <3>2. l \in Nat /\ 1 .. l = 1 .. size
      BY <2>7
    <3> HIDE DEF l
    <3>3. l = size
      BY <3>1, <3>2
    <3> QED
      BY <3>3 DEF l
  <2> QED
    BY <2>2, <2>3, <2>6, <2>8 DEF s
<1>4. /\ ExpectedStart(0) = 0 /\ ExpectedStart(1) \in Int /\ 0 < ExpectedStart(1)
      /\ ExpectedStart(0) = VotingRoundStart(ExpectedFirstVotingRound(0))
      /\ ExpectedStart(1) = VotingRoundStart(ExpectedFirstVotingRound(1))
  BY ScheduleMono DEF ExpectedStart
<1> HIDE DEF A, B
<1>5. Concatenated(A, B, registrations)
  BY <1>1, <1>3, LogConcat DEF A, B
<1> HIDE DEF size
<1>6. IsLog(registrations) /\ DOMAIN registrations = 1 .. size \cup {size + n : n \in 1 .. size}
  BY <1>3, <1>5 DEF Concatenated, A, B
<1>7. ASSUME NEW k \in 1 .. size
      PROVE  LET r == registrations[k]
             IN  r.voter = PolicyOrder[k] /\ r.rewardEpochId = 0 /\ r.ts = ExpectedStart(0) - 1
  BY <1>3, <1>5 DEF Concatenated, A
<1>8. ASSUME NEW k \in 1 .. size
      PROVE  LET r == registrations[size + k]
             IN  r.voter = PolicyOrder[k] /\ r.rewardEpochId = 1 /\ r.ts = ExpectedStart(1) - 1
  <2>1. registrations[Len(A) + k] = B[k]
    BY <1>3, <1>5 DEF Concatenated, B
  <2> QED
    BY <1>3, <2>1 DEF A, B
<1>9. ASSUME NEW n \in DOMAIN registrations
      PROVE  Registering(registrations[n], starts, current, policies, now)
  <2>1. CASE n \in 1 .. size
    BY <1>1, <1>4, <1>7, <2>1 DEF Registering
  <2>2. CASE n \in {size + k : k \in 1 .. size}
    <3>1. PICK k \in 1 .. size : n = size + k
      BY <2>2
    <3> DEFINE r == registrations[size + k]
    <3>2. r.rewardEpochId = 1 /\ r.ts = ExpectedStart(1) - 1
      BY <1>8
    <3> HIDE DEF r
    <3>3. r.rewardEpochId - 1 = 0 /\ r.rewardEpochId + 1 = 2
      BY <3>2
    <3>4. Registering(r, starts, current, policies, now)
      BY <1>1, <1>4, <3>2, <3>3 DEF Registering
    <3> QED
      BY <3>1, <3>4 DEF r
  <2> QED
    BY <1>6, <2>1, <2>2
<1>10. ASSUME NEW m \in DOMAIN registrations, NEW n \in DOMAIN registrations, m <= n
       PROVE  registrations[m].rewardEpochId <= registrations[n].rewardEpochId
  <2>1. ASSUME NEW i \in DOMAIN registrations
        PROVE  registrations[i].rewardEpochId = IF i <= size THEN 0 ELSE 1
    <3>1. CASE i \in 1 .. size
      BY <1>2, <1>7, <3>1 DEF size
    <3>2. CASE i \in {size + k : k \in 1 .. size}
      <4>1. PICK k \in 1 .. size : i = size + k
        BY <3>2
      <4>2. ~(i <= size)
        BY <1>2, <4>1 DEF size
      <4> QED
        BY <1>8, <4>1, <4>2
    <3> QED
      BY <1>6, <3>1, <3>2
  <2>2. m \in Int /\ n \in Int /\ size \in Int
    BY <1>2, <1>6 DEF size
  <2> QED
    BY <1>10, <2>1, <2>2
<1>11. Registered(current + 1) = {}
  <2>1. \A n \in DOMAIN registrations : registrations[n].rewardEpochId \in {0, 1}
    BY <1>6, <1>7, <1>8
  <2>2. current + 1 = 2
    BY <1>1
  <2> QED
    BY <2>1, <2>2 DEF Registered
<1>12. Cardinality(Registered(current + 1)) = 0
  <2>1. \A S : S = {} => Cardinality(S) = 0
    BY FS_EmptySet
  <2> QED
    BY <1>11, <2>1
<1>13. ASSUME NEW p \in DOMAIN policies, NEW k \in DOMAIN policies[p].voters
       PROVE  \E n \in Registered(p - 1) : registrations[n].voter = policies[p].voters[k]
  <2>1. k \in 1 .. size /\ policies[p].voters = PolicyOrder
    BY <1>1, <1>2 DEF size
  <2>2. CASE p = 1
    <3>1. k \in Registered(0) /\ registrations[k].voter = PolicyOrder[k]
      BY <1>6, <1>7, <2>1 DEF Registered
    <3> QED
      BY <2>1, <2>2, <3>1
  <2>3. CASE p = 2
    <3>1. size + k \in Registered(1) /\ registrations[size + k].voter = PolicyOrder[k]
      BY <1>6, <1>8, <2>1 DEF Registered
    <3> QED
      BY <2>1, <2>3, <3>1
  <2> QED
    BY <1>1, <2>2, <2>3
<1> QED
  <2>1. 1 .. Cardinality(Registered(current + 1)) = {} /\ Cardinality(Registered(current + 1)) <= Len(PolicyOrder)
    BY <1>2, <1>12 DEF size
  <2> HIDE DEF Registering
  <2> QED
    BY <1>6, <1>9, <1>10, <1>13, <2>1 DEF RegistrationsInv

LEMMA InitChain == ChainInit => ChainInv
  BY InitSchedule, InitOffers, InitPayments, InitRegistrations DEF ChainInv, ScheduleInv
-----------------------------------------------------------------------------
(* What is credited grows by what an event is worth. *)
LEMMA EventsAppend ==
  ASSUME NEW s, IsLog(s), NEW x, NEW t, Appended(s, x, t), NEW e
  PROVE  /\ EventsOf(t, e) = IF x.rewardEpochId = e THEN EventsOf(s, e) \cup {Len(s) + 1} ELSE EventsOf(s, e)
         /\ EventsOf(s, e) \subseteq DOMAIN s
  BY DEF Appended, EventsOf, ForEpoch

LEMMA AmountAppend ==
  ASSUME NEW s, IsLog(s), NEW x, NEW t, Appended(s, x, t), NEW e,
         \A n \in DOMAIN s : s[n].amount \in Int, x.amount \in Int
  PROVE  AmountOf(t, EventsOf(t, e)) = AmountOf(s, EventsOf(s, e)) + (IF x.rewardEpochId = e THEN x.amount ELSE 0)
<1> DEFINE f == [n \in DOMAIN s |-> s[n].amount]
           g == [n \in DOMAIN t |-> t[n].amount]
           S == EventsOf(s, e)
           T == EventsOf(t, e)
           new == Len(s) + 1
<1>1. new \notin DOMAIN s /\ IsFiniteSet(DOMAIN s)
  BY LogDomain
<1> HIDE DEF new
<1>2. \A n \in DOMAIN s : f[n] \in Int /\ g[n] = f[n]
  BY DEF Appended
<1>3. g[new] = x.amount
  BY DEF Appended, new
<1>4. T = (IF x.rewardEpochId = e THEN S \cup {new} ELSE S) /\ S \subseteq DOMAIN s
  BY EventsAppend DEF new
<1>5. AmountOf(t, T) = SumFunctionOnSet(g, T) /\ AmountOf(s, S) = SumFunctionOnSet(f, S)
  BY DEF AmountOf
<1> HIDE DEF f, g, S, T
<1>6. IsFiniteSet(S) /\ (\A n \in S : f[n] \in Int) /\ (\A n \in S : g[n] = f[n]) /\ new \notin S
  BY <1>1, <1>2, <1>4, FS_Subset
<1>7. g[new] \in Int
  BY <1>3
<1>8. SumFunctionOnSet(f, S) \in Int
  BY <1>6, SumInt
<1>9. SumFunctionOnSet(g, S) = SumFunctionOnSet(f, S)
  BY <1>6, SumEqual
<1>10. SumFunctionOnSet(g, S \cup {new}) = SumFunctionOnSet(f, S) + g[new]
  BY <1>6, <1>7, SumAppend
<1> QED
  BY <1>3, <1>4, <1>5, <1>8, <1>9, <1>10 DEF S, T

LEMMA FeeAppend ==
  ASSUME NEW s, IsLog(s), NEW x, NEW t, Appended(s, x, t), NEW S \in SUBSET (DOMAIN s),
         \A n \in DOMAIN s : s[n].fee \in Int, x.fee \in Int
  PROVE  /\ FeeSum(t, S) = FeeSum(s, S)
         /\ FeeSum(t, S \cup {Len(s) + 1}) = FeeSum(s, S) + x.fee
<1> DEFINE f == [n \in DOMAIN s |-> s[n].fee]
           g == [n \in DOMAIN t |-> t[n].fee]
           new == Len(s) + 1
<1>1. new \notin DOMAIN s /\ IsFiniteSet(DOMAIN s)
  BY LogDomain
<1> HIDE DEF new
<1>2. \A n \in DOMAIN s : f[n] \in Int /\ g[n] = f[n]
  BY DEF Appended
<1>3. g[new] = x.fee
  BY DEF Appended, new
<1>4. /\ FeeSum(t, S) = SumFunctionOnSet(g, S) /\ FeeSum(s, S) = SumFunctionOnSet(f, S)
      /\ FeeSum(t, S \cup {new}) = SumFunctionOnSet(g, S \cup {new})
  BY DEF FeeSum
<1> HIDE DEF f, g
<1>5. IsFiniteSet(S) /\ (\A n \in S : f[n] \in Int) /\ (\A n \in S : g[n] = f[n]) /\ new \notin S
  BY <1>1, <1>2, FS_Subset
<1>6. g[new] \in Int
  BY <1>3
<1>7. /\ SumFunctionOnSet(g, S) = SumFunctionOnSet(f, S)
      /\ SumFunctionOnSet(g, S \cup {new}) = SumFunctionOnSet(f, S) + g[new]
  BY <1>5, <1>6, SumAppend
<1> QED
  BY <1>3, <1>4, <1>7 DEF new

(* A batch of offers for one epoch. *)
LEMMA AmountConcat ==
  ASSUME NEW s, IsLog(s), NEW u, IsLog(u), NEW t, Concatenated(s, u, t), NEW e, NEW ep,
         \A n \in DOMAIN s : s[n].amount \in Int,
         \A n \in DOMAIN u : u[n].amount \in Int /\ u[n].rewardEpochId = ep,
         NEW a, a = [n \in DOMAIN u |-> u[n].amount]
  PROVE  AmountOf(t, EventsOf(t, e)) = AmountOf(s, EventsOf(s, e)) + (IF e = ep THEN SumOf(a) ELSE 0)
<1> DEFINE f == [n \in DOMAIN s |-> s[n].amount]
           g == [n \in DOMAIN t |-> t[n].amount]
           S == EventsOf(s, e)
           T == EventsOf(t, e)
           new == {Len(s) + n : n \in DOMAIN u}
           h == [n \in DOMAIN u |-> Len(s) + n]
<1>1. /\ Len(s) \in Nat /\ DOMAIN s = 1 .. Len(s) /\ IsFiniteSet(DOMAIN s)
      /\ Len(u) \in Nat /\ DOMAIN u = 1 .. Len(u) /\ IsFiniteSet(DOMAIN u)
  BY LogDomain
<1>2. S \subseteq DOMAIN s /\ IsFiniteSet(S)
  <2>1. S \subseteq DOMAIN s
    BY DEF EventsOf, ForEpoch
  <2> QED
    BY <1>1, <2>1, FS_Subset
<1>3. T = IF e = ep THEN S \cup new ELSE S
  BY DEF Concatenated, EventsOf, ForEpoch
<1>4. AmountOf(t, T) = SumFunctionOnSet(g, T) /\ AmountOf(s, S) = SumFunctionOnSet(f, S)
  BY DEF AmountOf
<1>5. \A n \in DOMAIN s : f[n] \in Int /\ g[n] = f[n]
  BY DEF Concatenated
<1>6. \A n \in DOMAIN u : a[n] \in Int /\ g[h[n]] = a[n] /\ h[n] = Len(s) + n
  BY DEF Concatenated
<1>7. new = {h[n] : n \in DOMAIN u} /\ \A m, n \in DOMAIN u : h[m] = h[n] => m = n
  <2>1. \A n \in DOMAIN u : h[n] = Len(s) + n /\ n \in Int
    BY <1>1
  <2> HIDE DEF h
  <2> QED
    BY <1>1, <2>1
<1>8. SumOf(a) = SumFunctionOnSet(a, DOMAIN u) /\ SumFunctionOnSet(a, DOMAIN u) \in Int
  <2>1. a \in [1 .. Len(u) -> Int]
    BY <1>1, <1>6
  <2>2. a \in Seq(Int)
    BY <1>1, <2>1, SeqDef
  <2>3. 1 .. Len(a) = DOMAIN u
    BY <1>1, <2>1, <2>2
  <2>4. SumOf(a) = SumFunctionOnSet(a, DOMAIN u)
    BY <2>2, <2>3, SumOfIsSum
  <2> QED
    BY <1>1, <1>6, <2>4, SumInt
<1> DEFINE D == DOMAIN u
<1> HIDE DEF f, g, S, T, h, new
<1>9. IsFiniteSet(new) /\ SumFunctionOnSet(g, new) = SumFunctionOnSet(a, DOMAIN u)
  <2>1. (\A n \in D : a[n] \in Int) /\ (\A n \in D : g[h[n]] = a[n]) /\ IsFiniteSet(D)
    BY <1>1, <1>6
  <2>2. new = {h[n] : n \in D} /\ \A m, n \in D : h[m] = h[n] => m = n
    BY <1>7
  <2> HIDE DEF D
  <2>3. IsFiniteSet(new) /\ SumFunctionOnSet(g, new) = SumFunctionOnSet(a, D)
    BY ONLY <2>1, <2>2, SumImage
  <2> QED
    BY <2>3 DEF D
<1>10. SumFunctionOnSet(g, S) = SumFunctionOnSet(f, S) /\ SumFunctionOnSet(f, S) \in Int
  <2>1. \A n \in S : f[n] \in Int /\ g[n] = f[n]
    BY <1>2, <1>5
  <2> QED
    BY <1>2, <2>1, SumEqual, SumInt
<1>11. CASE e = ep
  <2>1. T = S \cup new
    BY <1>3, <1>11
  <2>2. S \cap new = {}
    BY <1>1, <1>2 DEF new
  <2>3. IsFiniteSet(T) /\ S \in SUBSET T /\ T \ S = new
    BY <1>2, <1>9, <2>1, <2>2, FS_Union
  <2>4. \A n \in T : g[n] \in Int
    BY <1>2, <1>5, <1>6, <1>7, <2>1
  <2>5. SumFunctionOnSet(g, T) = SumFunctionOnSet(g, S) + SumFunctionOnSet(g, new)
    BY <2>3, <2>4, SumSplit
  <2> QED
    BY <1>4, <1>8, <1>9, <1>10, <1>11, <2>5 DEF S, T
<1>12. CASE e # ep
  BY <1>3, <1>4, <1>10, <1>12 DEF S, T
<1> QED
  BY <1>11, <1>12

(* Amounts and fees add up to numbers. *)
LEMMA AmountInt ==
  ASSUME NEW s, IsLog(s), \A n \in DOMAIN s : s[n].amount \in Int, NEW e
  PROVE  AmountOf(s, EventsOf(s, e)) \in Int
<1> DEFINE f == [n \in DOMAIN s |-> s[n].amount]
<1>1. IsFiniteSet(EventsOf(s, e)) /\ EventsOf(s, e) \subseteq DOMAIN s
  <2>1. EventsOf(s, e) \subseteq DOMAIN s
    BY DEF EventsOf, ForEpoch
  <2> QED
    BY <2>1, LogDomain, FS_Subset
<1>2. \A n \in EventsOf(s, e) : f[n] \in Int
  BY <1>1
<1> HIDE DEF f
<1>3. SumFunctionOnSet(f, EventsOf(s, e)) \in Int
  BY <1>1, <1>2, SumInt
<1> QED
  BY <1>3 DEF AmountOf, f

LEMMA FeeInt ==
  ASSUME NEW s, IsLog(s), \A n \in DOMAIN s : s[n].fee \in Int, NEW S \in SUBSET (DOMAIN s)
  PROVE  FeeSum(s, S) \in Int /\ IsFiniteSet(S)
<1> DEFINE f == [n \in DOMAIN s |-> s[n].fee]
<1>1. IsFiniteSet(S) /\ \A n \in S : f[n] \in Int
  BY LogDomain, FS_Subset
<1> HIDE DEF f
<1>2. SumFunctionOnSet(f, S) \in Int
  BY <1>1, SumInt
<1> QED
  BY <1>1, <1>2 DEF FeeSum, f

(* What is credited. *)
LEMMA FundsInt ==
  ASSUME ChainInv, NEW e
  PROVE  /\ AmountOf(inflationOffers, EventsOf(inflationOffers, e)) \in Int
         /\ AmountOf(communityOffers, EventsOf(communityOffers, e)) \in Int
         /\ AmountOf(incentives, EventsOf(incentives, e)) \in Int
         /\ FeeSum(teeInstructions, EventsOf(teeInstructions, e)) \in Int
         /\ FeeSum(fdc2Requests, RequestsFor(e)) \in Int
         /\ EventsOf(teeInstructions, e) \subseteq DOMAIN teeInstructions
         /\ RequestsFor(e) \subseteq DOMAIN fdc2Requests
<1>1. EventsOf(teeInstructions, e) \subseteq DOMAIN teeInstructions /\ RequestsFor(e) \subseteq DOMAIN fdc2Requests
  BY DEF EventsOf, ForEpoch, RequestsFor
<1>2. IsLog(inflationOffers) /\ \A n \in DOMAIN inflationOffers : inflationOffers[n].amount \in Int
  BY DEF ChainInv, OffersInv, Offering
<1>3. IsLog(communityOffers) /\ \A n \in DOMAIN communityOffers : communityOffers[n].amount \in Int
  BY DEF ChainInv, OffersInv, Offering
<1>4. IsLog(incentives) /\ \A n \in DOMAIN incentives : incentives[n].amount \in Int
  BY DEF ChainInv, PaymentsInv, FeesInv
<1>5. IsLog(teeInstructions) /\ \A n \in DOMAIN teeInstructions : teeInstructions[n].fee \in Int
  BY DEF ChainInv, PaymentsInv, FeesInv
<1>6. IsLog(fdc2Requests) /\ \A n \in DOMAIN fdc2Requests : fdc2Requests[n].fee \in Int
  BY DEF ChainInv, FeesInv
<1>7. AmountOf(inflationOffers, EventsOf(inflationOffers, e)) \in Int
  BY <1>2, AmountInt
<1>8. AmountOf(communityOffers, EventsOf(communityOffers, e)) \in Int
  BY <1>3, AmountInt
<1>9. AmountOf(incentives, EventsOf(incentives, e)) \in Int
  BY <1>4, AmountInt
<1>10. FeeSum(teeInstructions, EventsOf(teeInstructions, e)) \in Int
  BY <1>1, <1>5, FeeInt
<1>11. FeeSum(fdc2Requests, RequestsFor(e)) \in Int
  BY <1>1, <1>6, FeeInt
<1> QED
  BY <1>1, <1>7, <1>8, <1>9, <1>10, <1>11

LEMMA FundsAreInt ==
  ASSUME ChainInv, NEW e
  PROVE  FundsFor(e) \in Int /\ FeesFor(e) \in Int
  BY FundsInt DEF FundsFor, FeesFor

(* No fee is paid before the FCC is active.                                  *)
LEMMA NoFeesBefore ==
  ASSUME ChainInv, NEW e, ~FccActive(e)
  PROVE  FeesFor(e) = 0
<1>1. \A n \in DOMAIN teeInstructions : teeInstructions[n].rewardEpochId # e
  BY DEF ChainInv, FeesInv
<1>2. \A n \in DOMAIN fdc2Requests : fdc2Requests[n].instructionId \in DOMAIN teeInstructions
  BY DEF ChainInv, FeesInv
<1>3. EventsOf(teeInstructions, e) = {} /\ RequestsFor(e) = {}
  BY <1>1, <1>2 DEF EventsOf, ForEpoch, RequestsFor
<1> QED
  BY <1>3, SumEmpty DEF FeesFor, FeeSum

(* An instruction adds its fee to those of the current epoch.                *)
LEMMA InstructionFees ==
  ASSUME ChainInv, NEW fee \in Nat, Sent(fee), NEW e
  PROVE  /\ FeeSum(teeInstructions', EventsOf(teeInstructions', e))
              = FeeSum(teeInstructions, EventsOf(teeInstructions, e)) + (IF current = e THEN fee ELSE 0)
         /\ \A n \in DOMAIN teeInstructions : teeInstructions'[n] = teeInstructions[n]
         /\ teeInstructions'[Len(teeInstructions) + 1].rewardEpochId = current
<1> DEFINE x == Instruction(fee)
           S == EventsOf(teeInstructions, e)
           T == EventsOf(teeInstructions', e)
<1>1. IsLog(teeInstructions) /\ \A n \in DOMAIN teeInstructions : teeInstructions[n].fee \in Int
  BY DEF ChainInv, PaymentsInv, FeesInv
<1>2. Appended(teeInstructions, x, teeInstructions')
  BY <1>1, SentInstruction DEF ChainInv, ScheduleInv
<1>3. x.rewardEpochId = current /\ x.fee = fee /\ x.fee \in Int
  BY DEF Instruction
<1> HIDE DEF x
<1>4. S \in SUBSET (DOMAIN teeInstructions) /\ T = IF current = e THEN S \cup {Len(teeInstructions) + 1} ELSE S
  BY <1>1, <1>2, <1>3, EventsAppend
<1> HIDE DEF S, T
<1>5. /\ FeeSum(teeInstructions', S) = FeeSum(teeInstructions, S)
      /\ FeeSum(teeInstructions', S \cup {Len(teeInstructions) + 1}) = FeeSum(teeInstructions, S) + x.fee
  <2>1. S \in SUBSET (DOMAIN teeInstructions)
    BY <1>4
  <2>2. IsLog(teeInstructions) /\ (\A n \in DOMAIN teeInstructions : teeInstructions[n].fee \in Int) /\ x.fee \in Int
    BY <1>1, <1>3
  <2> QED
    BY ONLY <1>2, <2>1, <2>2, FeeAppend
<1>6. FeeSum(teeInstructions, S) \in Int
  BY FundsInt DEF S
<1>7. FeeSum(teeInstructions', T) = FeeSum(teeInstructions, S) + (IF current = e THEN fee ELSE 0)
  BY <1>3, <1>4, <1>5, <1>6
<1> QED
  BY <1>2, <1>3, <1>7 DEF S, T, Appended

LEMMA SentFees ==
  ASSUME ChainInv, NEW fee \in Nat, Sent(fee), UNCHANGED fdc2Requests, NEW e
  PROVE  FeesFor(e)' = FeesFor(e) + (IF current = e THEN fee ELSE 0)
<1>1. FeeSum(teeInstructions', EventsOf(teeInstructions', e))
        = FeeSum(teeInstructions, EventsOf(teeInstructions, e)) + (IF current = e THEN fee ELSE 0)
  BY InstructionFees
<1>2. RequestsFor(e)' = RequestsFor(e)
  <2>1. \A n \in DOMAIN fdc2Requests : fdc2Requests[n].instructionId \in DOMAIN teeInstructions
    BY DEF ChainInv, FeesInv
  <2>2. \A n \in DOMAIN teeInstructions : teeInstructions'[n] = teeInstructions[n]
    BY InstructionFees
  <2> QED
    BY <2>1, <2>2 DEF RequestsFor
<1>3. FeeSum(fdc2Requests', RequestsFor(e)') = FeeSum(fdc2Requests, RequestsFor(e))
  BY <1>2
<1>4. FeeSum(fdc2Requests, RequestsFor(e)) \in Int /\ FeeSum(teeInstructions, EventsOf(teeInstructions, e)) \in Int
  BY FundsInt
<1>5. FeesFor(e)' = FeeSum(teeInstructions', EventsOf(teeInstructions', e)) + FeeSum(fdc2Requests', RequestsFor(e)')
  BY DEF FeesFor
<1> QED
  BY <1>1, <1>3, <1>4, <1>5 DEF FeesFor

LEMMA RequestFees ==
  ASSUME ChainInv, NEW fee \in Nat, Sent(fee), NEW e,
         fdc2Requests' = Append(fdc2Requests, [instructionId |-> Len(teeInstructions) + 1, fee |-> fee, timestampSec |-> now])
  PROVE  FeesFor(e)' = FeesFor(e) + (IF current = e THEN fee + fee ELSE 0)
<1> DEFINE q == [instructionId |-> Len(teeInstructions) + 1, fee |-> fee, timestampSec |-> now]
           S == RequestsFor(e)
           T == RequestsFor(e)'
<1>1. IsLog(fdc2Requests) /\ \A n \in DOMAIN fdc2Requests : fdc2Requests[n].fee \in Int
  BY DEF ChainInv, FeesInv
<1>2. fdc2Requests' = Append(fdc2Requests, q) /\ q.instructionId = Len(teeInstructions) + 1 /\ q.fee = fee /\ q.fee \in Int
  OBVIOUS
<1> HIDE DEF q
<1>3. Appended(fdc2Requests, q, fdc2Requests')
  BY <1>1, <1>2, LogAppend
<1>4. \A n \in DOMAIN fdc2Requests : fdc2Requests[n].instructionId \in DOMAIN teeInstructions
  BY DEF ChainInv, FeesInv
<1>5. /\ \A n \in DOMAIN teeInstructions : teeInstructions'[n] = teeInstructions[n]
      /\ teeInstructions'[Len(teeInstructions) + 1].rewardEpochId = current
      /\ FeeSum(teeInstructions', EventsOf(teeInstructions', e))
           = FeeSum(teeInstructions, EventsOf(teeInstructions, e)) + (IF current = e THEN fee ELSE 0)
  BY InstructionFees
<1>6. T = IF current = e THEN S \cup {Len(fdc2Requests) + 1} ELSE S
  BY <1>2, <1>3, <1>4, <1>5 DEF RequestsFor, Appended
<1>7. S \in SUBSET (DOMAIN fdc2Requests) /\ FeeSum(fdc2Requests, S) \in Int /\ FeeSum(teeInstructions, EventsOf(teeInstructions, e)) \in Int
  BY FundsInt
<1>8. FeesFor(e)' = FeeSum(teeInstructions', EventsOf(teeInstructions', e)) + FeeSum(fdc2Requests', T)
      /\ FeesFor(e) = FeeSum(teeInstructions, EventsOf(teeInstructions, e)) + FeeSum(fdc2Requests, S)
  BY DEF FeesFor
<1> HIDE DEF S, T
<1>9. /\ FeeSum(fdc2Requests', S) = FeeSum(fdc2Requests, S)
      /\ FeeSum(fdc2Requests', S \cup {Len(fdc2Requests) + 1}) = FeeSum(fdc2Requests, S) + q.fee
  BY <1>1, <1>2, <1>3, <1>7, FeeAppend
<1> QED
  BY <1>2, <1>5, <1>6, <1>7, <1>8, <1>9

(* A credit to one epoch for what is added to its funds. *)
LEMMA CreditOne ==
  ASSUME CreditInv, NEW ep \in Epoch, NEW amount \in Int, Credit(ep, amount),
         \A e \in Epoch : FundsFor(e)' = FundsFor(e) + (IF e = ep THEN amount ELSE 0),
         \A e \in Epoch : FundsFor(e) \in Int
  PROVE  CreditInv'
<1>1. credited' = [credited EXCEPT ![ep] = @ + amount] /\ DOMAIN credited = Epoch
  BY DEF Credit, CreditInv
<1>2. DOMAIN credited' = Epoch /\ \A e \in Epoch : credited'[e] = IF e = ep THEN credited[e] + amount ELSE credited[e]
  BY <1>1
<1>3. \A e \in Epoch : credited[e] = FundsFor(e)
  BY DEF CreditInv
<1> QED
  BY <1>2, <1>3 DEF CreditInv

(* Whatever is paid is credited to the epoch it names. *)
LEMMA CreditStep ==
  ASSUME ChainInv, CreditInv, ChainNext
  PROVE  CreditInv'
<1> DEFINE infl(e) == AmountOf(inflationOffers, EventsOf(inflationOffers, e))
           comm(e) == AmountOf(communityOffers, EventsOf(communityOffers, e))
           inc(e) == AmountOf(incentives, EventsOf(incentives, e))
<1>1. \A e : /\ infl(e) \in Int /\ comm(e) \in Int /\ inc(e) \in Int /\ FeesFor(e) \in Int /\ FundsFor(e) \in Int
             /\ FundsFor(e) = infl(e) + comm(e) + inc(e) + FeesFor(e)
             /\ FundsFor(e)' = infl(e)' + comm(e)' + inc(e)' + FeesFor(e)'
  BY FundsInt, FundsAreInt DEF FundsFor
<1>2. /\ current \in Epoch /\ current + 1 \in Int
      /\ IsLog(inflationOffers) /\ \A n \in DOMAIN inflationOffers : inflationOffers[n].amount \in Int
      /\ IsLog(communityOffers) /\ \A n \in DOMAIN communityOffers : communityOffers[n].amount \in Int
      /\ IsLog(incentives) /\ \A n \in DOMAIN incentives : incentives[n].amount \in Int
  BY DEF ChainInv, ClockInv, OffersInv, Offering, PaymentsInv, FeesInv, Epoch
<1>3. \A e : UNCHANGED <<teeInstructions, fdc2Requests>> => FeesFor(e)' = FeesFor(e)
  BY DEF FeesFor, RequestsFor
<1> HIDE DEF infl, comm, inc
<1>4. ASSUME UNCHANGED <<inflationOffers, payments, credited>>
      PROVE  CreditInv'
  <2>1. \A e : FundsFor(e)' = FundsFor(e)
    BY <1>4 DEF FundsFor, FeesFor, RequestsFor, payments
  <2> QED
    BY <1>4, <2>1 DEF CreditInv
<1>5. CASE StartEpoch
  <2>1. CASE current' < LastEpoch
    <3> DEFINE x == Inflation(current' + 1)
               ep == current' + 1
    <3>1. /\ inflationOffers' = Append(inflationOffers, x) /\ UNCHANGED <<communityOffers, incentives, teeInstructions, fdc2Requests>>
          /\ credited' = [credited EXCEPT ![ep] = @ + 1] /\ current' = current + 1
      BY <1>5, <2>1 DEF StartEpoch, payments
    <3>2. ep \in Epoch /\ Credit(ep, 1)
      <4>1. current \in Nat /\ LastEpoch \in Nat
        BY ScheduleAssumption DEF ChainInv, ClockInv
      <4> QED
        BY <2>1, <3>1, <4>1 DEF Credit, Epoch
    <3>3. x.rewardEpochId = ep /\ x.amount = 1
      BY DEF Inflation
    <3> HIDE DEF x, ep
    <3>4. Appended(inflationOffers, x, inflationOffers')
      BY <1>2, <3>1, LogAppend
    <3>5. ASSUME NEW e \in Epoch
          PROVE  FundsFor(e)' = FundsFor(e) + (IF e = ep THEN 1 ELSE 0)
      <4>1. infl(e)' = infl(e) + (IF e = ep THEN 1 ELSE 0)
        BY <1>2, <3>3, <3>4, AmountAppend DEF infl
      <4>2. comm(e)' = comm(e) /\ inc(e)' = inc(e) /\ FeesFor(e)' = FeesFor(e)
        BY <1>3, <3>1 DEF comm, inc
      <4> QED
        BY <1>1, <4>1, <4>2
    <3> QED
      BY <1>1, <3>2, <3>5, CreditOne
  <2>2. CASE ~(current' < LastEpoch)
    BY <1>4, <1>5, <2>2 DEF StartEpoch
  <2> QED
    BY <2>1, <2>2
<1>6. ASSUME NEW batch \in OfferBatches, OfferRewards(batch)
      PROVE  CreditInv'
  <2> DEFINE u == BatchOffers(batch)
             a == [n \in DOMAIN u |-> u[n].amount]
             ep == current + 1
  <2>1. /\ communityOffers' = communityOffers \o u /\ ep < LastEpoch
        /\ UNCHANGED <<inflationOffers, incentives, teeInstructions, fdc2Requests>>
    BY <1>6 DEF OfferRewards, preparation, BatchOffers
  <2>2. IsLog(u) /\ DOMAIN u = DOMAIN batch /\ \A n \in DOMAIN u : u[n].amount \in Int /\ u[n].rewardEpochId = ep
    BY BatchIsLog DEF BatchOffers
  <2>3. a = [n \in DOMAIN batch |-> batch[n].amount]
    BY <2>2 DEF BatchOffers
  <2>4. Credit(ep, SumOf(a))
    BY <1>6, <2>3 DEF OfferRewards
  <2>5. SumOf(a) \in Int
    <3>1. Len(u) \in Nat /\ DOMAIN u = 1 .. Len(u)
      BY <2>2, LogDomain
    <3>2. a \in [1 .. Len(u) -> Int]
      BY <2>2, <3>1
    <3> HIDE DEF a
    <3>3. a \in Seq(Int)
      BY <3>1, <3>2, SeqDef
    <3> QED
      BY <3>3, SumOfInt
  <2>6. ep \in Epoch
    <3>1. current \in Nat /\ LastEpoch \in Nat
      BY ScheduleAssumption DEF ChainInv, ClockInv
    <3> QED
      BY <2>1, <3>1 DEF Epoch
  <2>7. a = [n \in DOMAIN u |-> u[n].amount]
    OBVIOUS
  <2> HIDE DEF u, a, ep
  <2>8. Concatenated(communityOffers, u, communityOffers')
    BY <1>2, <2>1, <2>2, LogConcat
  <2>9. ASSUME NEW e \in Epoch
        PROVE  FundsFor(e)' = FundsFor(e) + (IF e = ep THEN SumOf(a) ELSE 0)
    <3>1. comm(e)' = comm(e) + (IF e = ep THEN SumOf(a) ELSE 0)
      <4>1. IsLog(communityOffers) /\ (\A n \in DOMAIN communityOffers : communityOffers[n].amount \in Int)
        BY <1>2
      <4>2. AmountOf(communityOffers', EventsOf(communityOffers', e))
              = AmountOf(communityOffers, EventsOf(communityOffers, e)) + (IF e = ep THEN SumOf(a) ELSE 0)
        BY ONLY <4>1, <2>2, <2>7, <2>8, AmountConcat
      <4> QED
        BY <4>2 DEF comm
    <3>2. infl(e)' = infl(e) /\ inc(e)' = inc(e) /\ FeesFor(e)' = FeesFor(e)
      BY <1>3, <2>1 DEF infl, inc
    <3> QED
      BY <1>1, <2>5, <3>1, <3>2
  <2> QED
    BY <1>1, <2>4, <2>5, <2>6, <2>9, CreditOne
<1>7. ASSUME NEW fee \in Fees, OfferIncentive(fee)
      PROVE  CreditInv'
  <2> DEFINE x == [rewardEpochId |-> current, amount |-> fee, timestampSec |-> now]
  <2>1. /\ incentives' = Append(incentives, x) /\ Credit(current, fee)
        /\ UNCHANGED <<inflationOffers, communityOffers, teeInstructions, fdc2Requests>>
    BY <1>7 DEF OfferIncentive, preparation
  <2>2. x.rewardEpochId = current /\ x.amount = fee /\ fee \in Int /\ x.amount \in Int
    BY PaymentsAssumption
  <2> HIDE DEF x
  <2>3. Appended(incentives, x, incentives')
    BY <1>2, <2>1, LogAppend
  <2>4. ASSUME NEW e \in Epoch
        PROVE  FundsFor(e)' = FundsFor(e) + (IF e = current THEN fee ELSE 0)
    <3>1. inc(e)' = inc(e) + (IF e = current THEN fee ELSE 0)
      BY <1>2, <2>2, <2>3, AmountAppend DEF inc
    <3>2. infl(e)' = infl(e) /\ comm(e)' = comm(e) /\ FeesFor(e)' = FeesFor(e)
      BY <1>3, <2>1 DEF infl, comm
    <3> QED
      BY <1>1, <2>2, <3>1, <3>2
  <2> QED
    BY <1>1, <1>2, <2>1, <2>2, <2>4, CreditOne
<1>8. ASSUME NEW fee \in Fees, SendInstruction(fee)
      PROVE  CreditInv'
  <2>1. /\ Sent(fee) /\ Credit(current, fee) /\ fee \in Nat
        /\ UNCHANGED <<inflationOffers, communityOffers, incentives, fdc2Requests>>
    BY <1>8, PaymentsAssumption DEF SendInstruction, Sent, preparation
  <2>2. ASSUME NEW e \in Epoch
        PROVE  FundsFor(e)' = FundsFor(e) + (IF e = current THEN fee ELSE 0)
    <3>1. FeesFor(e)' = FeesFor(e) + (IF e = current THEN fee ELSE 0)
      BY <2>1, SentFees
    <3>2. infl(e)' = infl(e) /\ comm(e)' = comm(e) /\ inc(e)' = inc(e)
      BY <2>1 DEF infl, comm, inc
    <3> QED
      BY <1>1, <2>1, <3>1, <3>2
  <2> QED
    BY <1>1, <1>2, <2>1, <2>2, CreditOne
<1>9. ASSUME NEW fee \in Fees, RequestAttestation(fee, fee)
      PROVE  CreditInv'
  <2>1. /\ Sent(fee) /\ Credit(current, fee + fee) /\ fee \in Nat
        /\ UNCHANGED <<inflationOffers, communityOffers, incentives>>
        /\ fdc2Requests' = Append(fdc2Requests, [instructionId |-> Len(teeInstructions) + 1, fee |-> fee, timestampSec |-> now])
    BY <1>9, PaymentsAssumption DEF RequestAttestation, Sent, preparation
  <2>2. ASSUME NEW e \in Epoch
        PROVE  FundsFor(e)' = FundsFor(e) + (IF e = current THEN fee + fee ELSE 0)
    <3>1. FeesFor(e)' = FeesFor(e) + (IF e = current THEN fee + fee ELSE 0)
      BY <2>1, RequestFees
    <3>2. infl(e)' = infl(e) /\ comm(e)' = comm(e) /\ inc(e)' = inc(e)
      BY <2>1 DEF infl, comm, inc
    <3> QED
      BY <1>1, <2>1, <3>1, <3>2
  <2>3. fee + fee \in Int
    BY <2>1
  <2> QED
    BY <1>1, <1>2, <2>1, <2>2, <2>3, CreditOne
<1>10. CASE Tick \/ InitializePolicy \/ \E v \in ToSet(PolicyOrder) : Register(v)
  BY <1>4, <1>10 DEF Tick, InitializePolicy, Register, preparation
<1> QED
  BY <1>5, <1>6, <1>7, <1>8, <1>9, <1>10 DEF ChainNext

LEMMA InitCredit == ChainInit => CreditInv
<1> SUFFICES ASSUME ChainInit PROVE CreditInv
  OBVIOUS
<1>1. /\ communityOffers = <<>> /\ incentives = <<>> /\ teeInstructions = <<>> /\ fdc2Requests = <<>>
      /\ DOMAIN credited = Epoch /\ \A e \in Epoch : credited[e] = IF e <= 2 THEN 1 ELSE 0
  BY DEF ChainInit
<1>2. DOMAIN inflationOffers = 1 .. 3 /\ \A n \in 1 .. 3 : inflationOffers[n].rewardEpochId = n - 1 /\ inflationOffers[n].amount = 1
  BY DEF ChainInit, Inflation
<1>3. ASSUME NEW e \in Epoch
      PROVE  FundsFor(e) = IF e <= 2 THEN 1 ELSE 0
  <2>1. EventsOf(communityOffers, e) = {} /\ EventsOf(incentives, e) = {} /\ EventsOf(teeInstructions, e) = {} /\ RequestsFor(e) = {}
    BY <1>1 DEF EventsOf, ForEpoch, RequestsFor
  <2>2. /\ AmountOf(communityOffers, EventsOf(communityOffers, e)) = 0 /\ AmountOf(incentives, EventsOf(incentives, e)) = 0
        /\ FeesFor(e) = 0
    BY <2>1, SumEmpty DEF AmountOf, FeesFor, FeeSum
  <2>3. e \in Nat
    BY ScheduleAssumption DEF Epoch
  <2>4. AmountOf(inflationOffers, EventsOf(inflationOffers, e)) = IF e <= 2 THEN 1 ELSE 0
    <3> DEFINE f == [n \in DOMAIN inflationOffers |-> inflationOffers[n].amount]
    <3>1. \A n \in 1 .. 3 : f[n] = 1
      BY <1>2
    <3>2. EventsOf(inflationOffers, e) = IF e <= 2 THEN {e + 1} ELSE {}
      BY <1>2, <2>3 DEF EventsOf, ForEpoch
    <3> HIDE DEF f
    <3>3. CASE e <= 2
      <4>1. f[e + 1] = 1
        <5>1. e + 1 \in 1 .. 3
          BY <2>3, <3>3
        <5> QED
          BY <3>1, <5>1
      <4>3. IsFiniteSet({e + 1})
        BY FS_Singleton
      <4>2. SumFunctionOnSet(f, {e + 1}) = f[e + 1]
        BY <4>1, <4>3, SumOfOne
      <4> QED
        BY <3>2, <3>3, <4>1, <4>2 DEF AmountOf, f
    <3>4. CASE ~(e <= 2)
      BY <3>2, <3>4, SumEmpty DEF AmountOf
    <3> QED
      BY <3>3, <3>4
  <2> QED
    BY <2>2, <2>4 DEF FundsFor
<1> QED
  BY <1>1, <1>3 DEF CreditInv
-----------------------------------------------------------------------------
(* Nothing is added to the past: a step of the chain leaves the offers and    *)
(* voters of an epoch that has started as they are, and what was paid for    *)
(* one that is over.                                                        *)
SameEvents(s, t, e) == EventsOf(t, e) = EventsOf(s, e) /\ \A n \in EventsOf(s, e) : t[n] = s[n]

LEMMA SameAppended ==
  ASSUME NEW s, IsLog(s), NEW x, NEW t, Appended(s, x, t), NEW e, x.rewardEpochId # e
  PROVE  SameEvents(s, t, e)
BY DEF Appended, SameEvents, EventsOf, ForEpoch

LEMMA SameConcatenated ==
  ASSUME NEW s, IsLog(s), NEW u, NEW t, Concatenated(s, u, t), NEW e, \A n \in DOMAIN u : u[n].rewardEpochId # e
  PROVE  SameEvents(s, t, e)
BY DEF Concatenated, SameEvents, EventsOf, ForEpoch

LEMMA SameUnchanged ==
  ASSUME NEW s, NEW t, t = s, NEW e
  PROVE  SameEvents(s, t, e)
BY DEF SameEvents

LEMMA PastOffers ==
  ASSUME ChainInv, ChainNext, NEW e \in Int, e <= current
  PROVE  SameEvents(inflationOffers, inflationOffers', e) /\ SameEvents(communityOffers, communityOffers', e)
<1>1. current \in Nat /\ IsLog(inflationOffers) /\ IsLog(communityOffers)
  BY DEF ChainInv, ClockInv, OffersInv
<1>2. SameEvents(inflationOffers, inflationOffers', e)
  <2>1. CASE UNCHANGED inflationOffers
    BY <2>1, SameUnchanged
  <2>2. CASE StartEpoch /\ current' < LastEpoch
    <3> DEFINE x == Inflation(current' + 1)
    <3>1. inflationOffers' = Append(inflationOffers, x) /\ x.rewardEpochId = current + 2
      BY <1>1, <2>2 DEF StartEpoch, Inflation
    <3> HIDE DEF x
    <3>2. Appended(inflationOffers, x, inflationOffers')
      BY <1>1, <3>1, LogAppend
    <3>3. x.rewardEpochId # e
      BY <1>1, <3>1
    <3> QED
      BY <1>1, <3>2, <3>3, SameAppended
  <2>3. CASE ~(StartEpoch /\ current' < LastEpoch)
    <3>1. UNCHANGED inflationOffers
      BY <2>3 DEF ChainNext, Tick, InitializePolicy, Register, StartEpoch, OfferRewards, OfferIncentive, SendInstruction,
                  RequestAttestation, preparation
    <3> QED
      BY <2>1, <3>1
  <2> QED
    BY <2>2, <2>3
<1>3. SameEvents(communityOffers, communityOffers', e)
  <2>1. ASSUME NEW batch \in OfferBatches, OfferRewards(batch)
        PROVE  SameEvents(communityOffers, communityOffers', e)
    <3> DEFINE u == BatchOffers(batch)
    <3>1. communityOffers' = communityOffers \o u /\ IsLog(u)
      BY <2>1, BatchIsLog DEF OfferRewards, BatchOffers
    <3>2. \A n \in DOMAIN u : u[n].rewardEpochId # e
      <4>1. \A n \in DOMAIN u : u[n].rewardEpochId = current + 1
        BY DEF BatchOffers
      <4> QED
        BY <1>1, <4>1
    <3> HIDE DEF u
    <3>3. Concatenated(communityOffers, u, communityOffers')
      BY <1>1, <3>1, LogConcat
    <3> QED
      BY <1>1, <3>2, <3>3, SameConcatenated
  <2>2. CASE ~(\E batch \in OfferBatches : OfferRewards(batch))
    <3>1. UNCHANGED communityOffers
      BY <2>2 DEF ChainNext, Tick, InitializePolicy, Register, StartEpoch, OfferIncentive, SendInstruction,
                  RequestAttestation, preparation, payments
    <3> QED
      BY <3>1, SameUnchanged
  <2> QED
    BY <2>1, <2>2
<1> QED
  BY <1>2, <1>3

LEMMA PastPayments ==
  ASSUME ChainInv, ChainNext, NEW e \in Int, e <= current
  PROVE  /\ e < current => SameEvents(incentives, incentives', e)
         /\ (e < current \/ ~FccActive(e)) => FeesFor(e)' = FeesFor(e)
<1>1. current \in Nat /\ IsLog(incentives)
  BY DEF ChainInv, ClockInv, PaymentsInv
<1>2. ASSUME e < current
      PROVE  SameEvents(incentives, incentives', e)
  <2>1. ASSUME NEW fee \in Fees, OfferIncentive(fee)
        PROVE  SameEvents(incentives, incentives', e)
    <3> DEFINE x == [rewardEpochId |-> current, amount |-> fee, timestampSec |-> now]
    <3>1. incentives' = Append(incentives, x) /\ x.rewardEpochId # e
      BY <1>1, <1>2, <2>1 DEF OfferIncentive
    <3> HIDE DEF x
    <3>2. Appended(incentives, x, incentives')
      BY <1>1, <3>1, LogAppend
    <3> QED
      BY <1>1, <3>1, <3>2, SameAppended
  <2>2. CASE ~(\E fee \in Fees : OfferIncentive(fee))
    <3>1. UNCHANGED incentives
      BY <2>2 DEF ChainNext, Tick, InitializePolicy, Register, StartEpoch, OfferRewards, SendInstruction,
                  RequestAttestation, preparation, payments
    <3> QED
      BY <3>1, SameUnchanged
  <2> QED
    BY <2>1, <2>2
<1>3. ASSUME e < current \/ ~FccActive(e)
      PROVE  FeesFor(e)' = FeesFor(e)
  <2>1. FeesFor(e) \in Int /\ Fees \subseteq Nat
    BY FundsAreInt, PaymentsAssumption
  <2>5. \A fee : Sent(fee) => current # e
    BY <1>1, <1>3 DEF Sent
  <2>2. CASE UNCHANGED <<teeInstructions, fdc2Requests>>
    BY <2>2 DEF FeesFor, RequestsFor
  <2>3. ASSUME NEW fee \in Fees, Sent(fee), UNCHANGED fdc2Requests
        PROVE  FeesFor(e)' = FeesFor(e)
    <3>1. FeesFor(e)' = FeesFor(e) + (IF current = e THEN fee ELSE 0)
      BY <2>1, <2>3, SentFees
    <3> QED
      BY <2>1, <2>3, <2>5, <3>1
  <2>4. ASSUME NEW fee \in Fees, Sent(fee),
               fdc2Requests' = Append(fdc2Requests, [instructionId |-> Len(teeInstructions) + 1, fee |-> fee, timestampSec |-> now])
        PROVE  FeesFor(e)' = FeesFor(e)
    <3>1. FeesFor(e)' = FeesFor(e) + (IF current = e THEN fee + fee ELSE 0)
      BY <2>1, <2>4, RequestFees
    <3> QED
      BY <2>1, <2>4, <2>5, <3>1
  <2> QED
    BY <2>2, <2>3, <2>4, InstructionsChange
<1> QED
  BY <1>2, <1>3

LEMMA PastPolicies ==
  ASSUME ChainInv, ChainNext, NEW e \in Nat, e <= current, e + 2 \in DOMAIN policies
  PROVE  /\ current' >= current /\ current' \in Nat /\ e + 2 \in DOMAIN policies'
         /\ policies'[e + 1] = policies[e + 1] /\ policies'[e + 2] = policies[e + 2]
         /\ SameEvents(registrations, registrations', e)
<1>1. current \in Nat /\ IsLog(policies) /\ IsLog(registrations) /\ Len(policies) \in {current + 1, current + 2}
      /\ DOMAIN policies = 1 .. Len(policies)
  BY LogDomain DEF ChainInv, ClockInv, PoliciesInv, RegistrationsInv
<1>2. OnwardStep
  BY ScheduleStep DEF ChainInv, ScheduleInv
<1>3. current' >= current /\ current' \in Nat
  <2>1. (current' = current) \/ NewStart(starts, current, starts', current', now)
    BY <1>2 DEF OnwardStep, Onward
  <2>2. NewStart(starts, current, starts', current', now) => current' = current + 1
    BY DEF NewStart
  <2>3. current \in Nat
    BY <1>1
  <2> QED
    BY <2>1, <2>2, <2>3
<1>4. \A n \in DOMAIN policies : policies'[n] = policies[n] /\ n \in DOMAIN policies'
  <2>1. policies' = policies \/ NewPolicy(policies, policies', now)
    BY <1>2 DEF OnwardStep, Onward
  <2>2. IsLog(policies')
    BY ScheduleStep DEF ChainInv, ScheduleInv, PoliciesInv
  <2>3. Len(policies') \in Nat /\ DOMAIN policies' = 1 .. Len(policies')
    BY <2>2, LogDomain
  <2>4. ASSUME NewPolicy(policies, policies', now)
        PROVE  \A n \in 1 .. Len(policies) : policies'[n] = policies[n] /\ n \in 1 .. Len(policies')
    BY <2>3, <2>4 DEF NewPolicy
  <2> QED
    BY <1>1, <2>1, <2>3, <2>4
<1>5. e + 1 \in DOMAIN policies
  <2> DEFINE size == Len(policies)
  <2>1. DOMAIN policies = 1 .. size /\ e + 2 \in 1 .. size
    BY <1>1
  <2>2. size \in Nat
    BY LogDomain, <1>1
  <2> HIDE DEF size
  <2>3. e + 1 \in 1 .. size
    BY <2>1, <2>2
  <2> QED
    BY <2>1, <2>3
<1>6. SameEvents(registrations, registrations', e)
  <2>1. ASSUME NEW v \in ToSet(PolicyOrder), Register(v)
        PROVE  SameEvents(registrations, registrations', e)
    <3> DEFINE x == Registration(v, current + 1)
    <3>1. registrations' = Append(registrations, x) /\ x.rewardEpochId = current + 1
      BY <2>1 DEF Register, Registration
    <3> HIDE DEF x
    <3>3. x.rewardEpochId # e
      <4>1. current \in Nat
        BY <1>1
      <4> QED
        BY <3>1, <4>1
    <3>2. Appended(registrations, x, registrations')
      BY <1>1, <3>1, LogAppend
    <3> QED
      BY <1>1, <3>2, <3>3, SameAppended
  <2>2. CASE ~(\E v \in ToSet(PolicyOrder) : Register(v))
    <3>1. UNCHANGED registrations
      BY <2>2 DEF ChainNext, Tick, InitializePolicy, StartEpoch, OfferRewards, OfferIncentive, SendInstruction,
                  RequestAttestation, preparation, payments
    <3> QED
      BY <3>1, SameUnchanged
  <2> QED
    BY <2>1, <2>2
<1> QED
  BY <1>3, <1>4, <1>5, <1>6
-----------------------------------------------------------------------------
(* The fees by round. *)
LEMMA VotingRoundIn ==
  ASSUME NEW epoch, epoch.StartRound \in Int, epoch.EndRound \in Int, NEW ts \in Int
  PROVE  VotingRound(epoch, ts) \in {epoch.EndRound} \cup epoch.StartRound .. epoch.EndRound
<1> DEFINE a == epoch.StartRound
           b == epoch.EndRound
           q == ts \div RoundSeconds
           m == Max({q, a})
<1>1. a \in Int /\ b \in Int
  OBVIOUS
<1>2. q \in Int
  BY ScheduleAssumption, DivOfInt
<1> HIDE DEF a, b, q
<1>3. m \in Int /\ a <= m
  BY <1>1, <1>2, MaxOfTwo
<1> HIDE DEF m
<1>4. Min({m, b}) \in {b} \cup a .. b
  BY <1>1, <1>3, MinOfTwo
<1> QED
  BY <1>4 DEF VotingRound, a, b, q, m

(* The fees under the rounds of the epoch add up to the fees of the epoch.   *)
LEMMA FeesByRound ==
  ASSUME NEW epoch, NEW events, IsLog(events), \A n \in DOMAIN events : events[n].fee \in Int,
         NEW S \in SUBSET (DOMAIN events), NEW R, IsFiniteSet(R), RoundsOf(epoch, events, S) \subseteq R,
         NEW own, \A r \in R : own[r] = FeesOf(epoch, events, S, r)
  PROVE  SumFunctionOnSet(own, R) = FeeSum(events, S) /\ \A r \in R : own[r] \in Int
<1> DEFINE p == [n \in DOMAIN events |-> events[n].fee]
           key == [n \in S |-> VotingRound(epoch, events[n].timestampSec)]
           N == Len(events)
<1>1. N \in Nat /\ DOMAIN events = 1 .. N /\ IsFiniteSet(DOMAIN events)
  BY LogDomain
<1>2. S \in SUBSET (1 .. N) /\ IsFiniteSet(S)
  BY <1>1, FS_Subset
<1>3. \A n \in S : key[n] \in R
  BY DEF RoundsOf
<1>4. \A n \in S : p[n] \in Int
  OBVIOUS
<1> DEFINE group == [r \in R |-> {n \in S : key[n] = r}]
<1>5. \A r \in R : own[r] = SumFunctionOnSet(p, group[r])
  <2> TAKE r \in R
  <2>1. group[r] = {n \in S : VotingRound(epoch, events[n].timestampSec) = r}
    OBVIOUS
  <2> QED
    BY <2>1 DEF FeesOf
<1>9. \A r \in R : \A n : n \in group[r] <=> n \in S /\ key[n] = r
  OBVIOUS
<1>6. FeeSum(events, S) = SumFunctionOnSet(p, S)
  BY DEF FeeSum
<1> HIDE DEF p, key, N, group
<1>7. SumFunctionOnSet(own, R) = SumFunctionOnSet(p, S)
  <2>1. GroupedSums(R, N, S, key, p, group, own)
    BY <1>1, <1>2, <1>3, <1>4, <1>5, <1>9 DEF GroupedSums
  <2> QED
    BY <2>1, SumByGroup
<1>8. ASSUME NEW r \in R
      PROVE  own[r] \in Int
  <2> DEFINE P == group[r]
  <2>1. IsFiniteSet(P) /\ \A n \in P : p[n] \in Int
    <3>1. P \subseteq S
      BY <1>9
    <3> QED
      BY <1>2, <1>4, <3>1, FS_Subset
  <2>2. own[r] = SumFunctionOnSet(p, P)
    BY <1>5
  <2> HIDE DEF P
  <2> QED
    BY <2>1, <2>2, SumInt
<1> QED
  BY <1>6, <1>7, <1>8

LEMMA EpochFeesSpec ==
  ASSUME ChainInv, NEW epoch, epoch.StartRound \in Int, epoch.EndRound \in Int,
         NEW e, epoch.Epoch = e, InstructionsOf(e) = EventsOf(teeInstructions, e), RequestsOf(e) = RequestsFor(e)
  PROVE  LET fees == GetEpochFees(epoch)
         IN  /\ SumFunction(fees) = FeesFor(e)
             /\ DOMAIN fees \subseteq {epoch.EndRound} \cup epoch.StartRound .. epoch.EndRound
<1> DEFINE fees == GetEpochFees(epoch)
           S == EventsOf(teeInstructions, e)
           T == RequestsFor(e)
           R == RoundsOf(epoch, teeInstructions, S) \cup RoundsOf(epoch, fdc2Requests, T)
           f == [r \in R |-> FeesOf(epoch, teeInstructions, S, r)]
           g == [r \in R |-> FeesOf(epoch, fdc2Requests, T, r)]
<1>1. fees = [r \in R |-> FeesOf(epoch, teeInstructions, S, r) + FeesOf(epoch, fdc2Requests, T, r)]
  BY DEF GetEpochFees
<1>2. DOMAIN fees = R /\ \A r \in R : fees[r] = f[r] + g[r]
  BY <1>1
<1>3. S \subseteq DOMAIN teeInstructions /\ T \subseteq DOMAIN fdc2Requests
  BY FundsInt
<1>4. IsLog(teeInstructions) /\ \A n \in DOMAIN teeInstructions : teeInstructions[n].fee \in Int /\ teeInstructions[n].timestampSec \in Int
  BY DEF ChainInv, PaymentsInv, Paying, FeesInv
<1>5. IsLog(fdc2Requests) /\ \A n \in DOMAIN fdc2Requests : fdc2Requests[n].fee \in Int /\ fdc2Requests[n].timestampSec \in Int
  <2>1. \A n \in DOMAIN fdc2Requests :
          /\ fdc2Requests[n].fee \in Nat /\ fdc2Requests[n].instructionId \in DOMAIN teeInstructions
          /\ fdc2Requests[n].timestampSec = teeInstructions[fdc2Requests[n].instructionId].timestampSec
    BY DEF ChainInv, FeesInv
  <2>2. IsLog(fdc2Requests)
    BY DEF ChainInv, FeesInv
  <2> QED
    BY <1>4, <2>1, <2>2
<1>6. R \subseteq {epoch.EndRound} \cup epoch.StartRound .. epoch.EndRound
  BY <1>3, <1>4, <1>5, VotingRoundIn DEF RoundsOf
<1>7. IsFiniteSet(R)
  <2>1. IsFiniteSet(epoch.StartRound .. epoch.EndRound) /\ IsFiniteSet({epoch.EndRound})
    BY FS_Interval, FS_Singleton
  <2>2. IsFiniteSet({epoch.EndRound} \cup epoch.StartRound .. epoch.EndRound)
    BY <2>1, FS_Union
  <2> QED
    BY <1>6, <2>2, FS_Subset
<1>8. RoundsOf(epoch, teeInstructions, S) \subseteq R /\ RoundsOf(epoch, fdc2Requests, T) \subseteq R
  OBVIOUS
<1>9. (\A r \in R : f[r] = FeesOf(epoch, teeInstructions, S, r)) /\ (\A r \in R : g[r] = FeesOf(epoch, fdc2Requests, T, r))
  OBVIOUS
<1>10. SumFunction(fees) = SumFunctionOnSet(fees, R)
  BY <1>2 DEF SumFunction
<1> HIDE DEF fees, S, T, R, f, g
<1>11. SumFunctionOnSet(f, R) = FeeSum(teeInstructions, S) /\ \A r \in R : f[r] \in Int
  BY <1>3, <1>4, <1>7, <1>8, <1>9, FeesByRound
<1>12. SumFunctionOnSet(g, R) = FeeSum(fdc2Requests, T) /\ \A r \in R : g[r] \in Int
  BY <1>3, <1>5, <1>7, <1>8, <1>9, FeesByRound
<1>13. SumFunctionOnSet(fees, R) = SumFunctionOnSet(f, R) + SumFunctionOnSet(g, R)
  BY <1>2, <1>7, <1>11, <1>12, SumPlus
<1>14. SumFunction(fees) = FeesFor(e)
  BY <1>10, <1>11, <1>12, <1>13 DEF FeesFor, S, T
<1> QED
  BY <1>2, <1>6, <1>14 DEF fees
-----------------------------------------------------------------------------
(* A calculation finds the policies it looks for, and all events.            *)
LEMMA PolicyFound ==
  ASSUME ChainInv, NEW e \in Int, NEW of \in Nat, of >= 1
  PROVE  /\ PoliciesFor(e, of) # {} <=>
              /\ of + 1 \in DOMAIN policies /\ policies[of + 1].ts < now
              /\ ExpectedStart(e) - PolicySearchEpochs * EpochDuration <= policies[of + 1].ts
              /\ policies[of + 1].ts < ExpectedStart(e) + PolicySearchEpochs * EpochDuration
         /\ PoliciesFor(e, of) # {} => PolicyFor(e, of) = policies[of + 1]
<1> DEFINE from == ExpectedStart(e) - PolicySearchEpochs * EpochDuration
           to == ExpectedStart(e) + PolicySearchEpochs * EpochDuration
           n == of + 1
<1>1. DOMAIN policies \subseteq Int /\ \A m \in DOMAIN policies : policies[m].rewardEpochId = m - 1
  <2>1. Len(policies) \in Nat /\ DOMAIN policies = 1 .. Len(policies)
    BY LogDomain DEF ChainInv, PoliciesInv
  <2>2. \A m \in DOMAIN policies : policies[m].rewardEpochId = m - 1
    BY DEF ChainInv, PoliciesInv
  <2> QED
    BY <2>1, <2>2
<1>2. \A m \in DOMAIN policies : policies[m].rewardEpochId = of <=> m = n
  BY <1>1
<1>3. to \in Int /\ now \in Int
  <2>1. EpochDuration \in Nat /\ PolicySearchEpochs \in Nat
    BY ScheduleAssumption, WindowAssumption DEF EpochDuration
  <2>2. PolicySearchEpochs * EpochDuration \in Nat
    BY <2>1
  <2>3. ExpectedStart(e) \in Int /\ now \in Int
    BY ScheduleMono DEF ChainInv, ClockInv
  <2> QED
    BY <2>2, <2>3
<1>4. n \in DOMAIN policies => policies[n].ts \in Int
  <2>1. n >= 2
    OBVIOUS
  <2> QED
    BY <2>1 DEF ChainInv, PoliciesInv
<1>5. PoliciesFor(e, of) = {m \in DOMAIN policies : /\ from <= policies[m].ts /\ policies[m].ts < Min({to, now})
                                                  /\ policies[m].rewardEpochId = of}
  BY DEF PoliciesFor, ForEpoch, Between
<1> HIDE DEF from, to, n
<1>6. \A t \in Int : t < Min({to, now}) <=> t < to /\ t < now
  BY <1>3, MinOfTwo
<1>7. PoliciesFor(e, of) # {} <=>
        n \in DOMAIN policies /\ policies[n].ts < now /\ from <= policies[n].ts /\ policies[n].ts < to
  BY <1>2, <1>4, <1>5, <1>6
<1>8. PoliciesFor(e, of) # {} => PoliciesFor(e, of) = {n} /\ n \in Int
  BY <1>1, <1>2, <1>5
<1>9. PoliciesFor(e, of) # {} => PolicyFor(e, of) = policies[n]
  BY <1>8, MaxOfOne DEF PolicyFor
<1> QED
  BY <1>7, <1>9 DEF from, to, n

(* The end of the epoch is known if the next policy came in time, and else    *)
(* the epoch is calculated without an end.  What is paid is looked for in an  *)
(* epoch that is over.                                                      *)
LEMMA ScheduleFound ==
  ASSUME ChainInv, NEW e \in 1 .. LastEpoch - 1, Ready(e)
  PROVE  /\ e \in Nat /\ e <= current /\ e + 1 \in DOMAIN policies /\ e + 2 \in DOMAIN policies
         /\ Policy(e) = policies[e + 1] /\ StartRound(e) = policies[e + 1].startRound /\ StartSec(e) = PolicyStart(e)
         /\ StartRound(e) \in Int /\ EndRound(e) \in Int /\ 1 <= StartRound(e)
         /\ IF EndInTime(e)
              THEN EndRound(e) = policies[e + 2].startRound - 1 /\ StartRound(e) <= EndRound(e) /\ e < current
              ELSE EndRound(e) = 0
         /\ FccActive(e) => e < current
<1>1. e \in Nat /\ e >= 1 /\ e \in Int /\ e + 1 \in Nat /\ e + 1 >= 1 /\ e + 1 \in Int /\ (e + 1) + 1 = e + 2
  BY ScheduleAssumption
<1>2. HasPolicy(e) /\ HasPolicy(e + 1) /\ (EndRound(e) # 0 => HasWindow(e)) /\ (FccActive(e) => HasWindow(e))
  BY DEF Ready, LoadRewardEpochs, Loadable
<1>3. e + 1 \in DOMAIN policies /\ Policy(e) = policies[e + 1]
  BY <1>1, <1>2, PolicyFound DEF HasPolicy, Policy
<1>4. e + 2 \in DOMAIN policies /\ policies[e + 2].ts < now
  BY <1>1, <1>2, PolicyFound DEF HasPolicy
<1>5. current \in Nat /\ e <= current
  <2> DEFINE size == Len(policies)
  <2>1. DOMAIN policies = 1 .. size /\ size \in Nat /\ current \in Nat /\ (size = current + 1 \/ size = current + 2)
    BY LogDomain DEF ChainInv, PoliciesInv, ClockInv
  <2>2. e + 2 \in 1 .. size
    BY <1>4, <2>1
  <2> HIDE DEF size
  <2> QED
    BY <1>1, <2>1, <2>2
<1>6. HasWindow(e) => e < current
  <2>1. HasWindow(e) => e + 1 \in DOMAIN starts
    BY DEF HasWindow, Found
  <2>2. DOMAIN starts = 0 .. current
    BY DEF ChainInv, StartsInv
  <2> QED
    BY <1>1, <1>5, <2>1, <2>2
<1>7. StartRound(e) = policies[e + 1].startRound /\ StartSec(e) = PolicyStart(e)
  BY <1>3 DEF StartRound, StartSec, PolicyStart
<1>8. /\ policies[e + 1].startRound \in Int /\ policies[e + 2].startRound \in Int
      /\ policies[e + 1].startRound < policies[e + 2].startRound
      /\ policies[e + 2].ts \in Int /\ starts[e] <= policies[e + 2].ts
      /\ ExpectedFirstVotingRound(e) <= policies[e + 1].startRound
  <2>1. e + 2 >= 2 /\ (e + 2) - 1 = e + 1 /\ (e + 2) - 2 = e /\ (e + 1) - 1 = e
    BY <1>1
  <2> QED
    BY <1>3, <1>4, <2>1 DEF ChainInv, PoliciesInv
<1>9. 1 <= policies[e + 1].startRound
  <2>1. ExpectedFirstVotingRound(0) = 0 /\ ExpectedFirstVotingRound(0) < ExpectedFirstVotingRound(e)
        /\ ExpectedFirstVotingRound(e) \in Int
    BY <1>1, ScheduleMono
  <2> QED
    BY <1>8, <2>1
<1>10. ExpectedStart(e) - PolicySearchEpochs * EpochDuration <= policies[e + 2].ts
  <2> DEFINE width == PolicySearchEpochs * EpochDuration
  <2>1. EpochDuration \in Nat /\ PolicySearchEpochs \in Nat
    BY ScheduleAssumption, WindowAssumption DEF EpochDuration
  <2>2. width \in Nat
    BY <2>1
  <2>3. e \in 0 .. current
    BY <1>1, <1>5
  <2>4. ExpectedStart(e) <= starts[e] /\ starts[e] \in Int /\ ExpectedStart(e) \in Int
    BY <1>1, <2>3, Chronology, ScheduleMono DEF ChainInv, StartsInv
  <2> HIDE DEF width
  <2>5. ExpectedStart(e) - width <= policies[e + 2].ts
    BY <1>8, <2>2, <2>4
  <2> QED
    BY <2>5 DEF width
<1>11. /\ PoliciesFor(e, e + 1) # {} <=> EndInTime(e)
       /\ PoliciesFor(e, e + 1) # {} => PolicyFor(e, e + 1) = policies[e + 2]
  BY <1>1, <1>4, <1>10, PolicyFound DEF EndInTime
<1>12. EndRound(e) = IF EndInTime(e) THEN policies[e + 2].startRound - 1 ELSE 0
  BY <1>11 DEF EndRound
<1>13. EndInTime(e) => StartRound(e) <= EndRound(e) /\ EndRound(e) # 0
  BY <1>7, <1>8, <1>9, <1>12
<1>14. EndRound(e) \in Int
  BY <1>8, <1>12
<1> QED
  BY <1>1, <1>2, <1>3, <1>4, <1>5, <1>6, <1>7, <1>8, <1>9, <1>12, <1>13, <1>14

(* The offers of an epoch are all in the window they are looked for in.      *)
LEMMA OffersFound ==
  ASSUME ChainInv, NEW e \in 1 .. LastEpoch - 1, Ready(e), NEW offers, OffersInv(offers)
  PROVE  Offered(offers, e) = EventsOf(offers, e)
<1>1. e \in Nat /\ e + 1 \in DOMAIN policies /\ StartSec(e) = PolicyStart(e)
  BY ScheduleFound
<1>2. e < Len(policies)
  <2> DEFINE size == Len(policies)
  <2>1. DOMAIN policies = 1 .. size /\ size \in Nat
    BY LogDomain DEF ChainInv, PoliciesInv
  <2> HIDE DEF size
  <2>2. e < size
    BY <1>1, <2>1
  <2> QED
    BY <2>2 DEF size
<1>3. ASSUME NEW n \in DOMAIN offers, offers[n].rewardEpochId = e
      PROVE  n \in OffersBefore(offers, e)
  <2> DEFINE t == offers[n].ts
             d == ExpectedStart(e - 1)
  <2>1. t \in Int /\ d <= t /\ t < PolicyStart(e)
    BY <1>2, <1>3 DEF OffersInv, Offering, PolicyStart
  <2>2. d \in Int /\ ExtraWindow \in Nat
    <3>1. e - 1 \in Int
      BY <1>1
    <3> QED
      BY <3>1, ScheduleMono, WindowAssumption
  <2> HIDE DEF t, d
  <2>3. d - ExtraWindow <= t
    BY <2>1, <2>2
  <2> QED
    BY <1>1, <2>1, <2>3 DEF OffersBefore, Between, t, d
<1> QED
  BY <1>3 DEF Offered, EventsOf, ForEpoch, OffersBefore, Between

(* So is what was paid for an epoch. *)
LEMMA PaidInWindow ==
  ASSUME ChainInv, NEW e \in Nat, e < current, NEW events, PaymentsInv(events)
  PROVE  EventsOf(events, e) \subseteq InWindow(e, events)
<1>2. ASSUME NEW n \in DOMAIN events, events[n].rewardEpochId = e
      PROVE  starts[e] <= events[n].timestampSec /\ events[n].timestampSec <= starts[e + 1]
  BY <1>2 DEF PaymentsInv, Paying
<1> QED
  BY <1>2 DEF EventsOf, ForEpoch, InWindow

LEMMA PaymentsFound ==
  ASSUME ChainInv, NEW e \in Nat, e < current
  PROVE  /\ EndRound(e) # 0 => Incentives(e) = EventsOf(incentives, e)
         /\ InstructionsOf(e) = EventsOf(teeInstructions, e)
         /\ RequestsOf(e) = RequestsFor(e)
<1>2. EventsOf(incentives, e) \subseteq InWindow(e, incentives)
      /\ EventsOf(teeInstructions, e) \subseteq InWindow(e, teeInstructions)
  BY PaidInWindow DEF ChainInv
<1>3. EndRound(e) # 0 => Incentives(e) = EventsOf(incentives, e)
  BY <1>2 DEF Incentives, EventsOf, ForEpoch, InWindow
<1>4. InstructionsOf(e) = EventsOf(teeInstructions, e)
  BY <1>2 DEF InstructionsOf, EventsOf, ForEpoch, InWindow
<1>5. \A n \in DOMAIN teeInstructions : teeInstructions[n].instructionId = n
  BY DEF ChainInv, FeesInv
<1>6. ASSUME NEW n \in DOMAIN fdc2Requests
      PROVE  fdc2Requests[n].instructionId \in DOMAIN teeInstructions
             /\ fdc2Requests[n].timestampSec = teeInstructions[fdc2Requests[n].instructionId].timestampSec
  BY DEF ChainInv, FeesInv
<1>7. ASSUME NEW n \in RequestsFor(e)
      PROVE  n \in RequestsOf(e)
  <2> DEFINE id == fdc2Requests[n].instructionId
  <2>1. n \in DOMAIN fdc2Requests /\ id \in DOMAIN teeInstructions /\ teeInstructions[id].rewardEpochId = e
        /\ fdc2Requests[n].timestampSec = teeInstructions[id].timestampSec
    BY <1>6, <1>7 DEF RequestsFor
  <2>2. id \in InWindow(e, teeInstructions)
    BY <1>2, <2>1 DEF EventsOf, ForEpoch
  <2>3. n \in InWindow(e, fdc2Requests)
    BY <2>1, <2>2 DEF InWindow
  <2>4. id \in ForEpoch(teeInstructions, Paired(e, id), e)
    BY <1>5, <2>1, <2>2 DEF ForEpoch, Paired
  <2> QED
    BY <2>3, <2>4 DEF RequestsOf
<1>8. ASSUME NEW n \in RequestsOf(e)
      PROVE  n \in RequestsFor(e)
  <2>1. PICK m \in ForEpoch(teeInstructions, Paired(e, fdc2Requests[n].instructionId), e) : TRUE
    BY <1>8 DEF RequestsOf
  <2>2. m \in DOMAIN teeInstructions /\ teeInstructions[m].instructionId = fdc2Requests[n].instructionId
        /\ teeInstructions[m].rewardEpochId = e
    BY <2>1 DEF ForEpoch, Paired, InWindow
  <2>3. m = fdc2Requests[n].instructionId
    BY <1>5, <2>2
  <2>4. n \in DOMAIN fdc2Requests
    BY <1>8 DEF RequestsOf, InWindow
  <2> QED
    BY <2>2, <2>3, <2>4 DEF RequestsFor
<1> QED
  BY <1>3, <1>4, <1>7, <1>8
-----------------------------------------------------------------------------
(* The last of the registrations of a voter before the epoch is for it:      *)
(* those for the next one come when it has started.                         *)
LEMMA InWindowByEpoch ==
  ASSUME ChainInv, NEW e \in 1 .. LastEpoch - 1, Ready(e), NEW n \in DOMAIN registrations
  PROVE  /\ n \in RegistrationWindow(e) => registrations[n].rewardEpochId <= e
         /\ registrations[n].rewardEpochId \in Int
         /\ OpenedAt(e) >= PolicyStart(e) - PolicyWindow /\ registrations[n].rewardEpochId = e => n \in RegistrationWindow(e)
<1> DEFINE r == registrations[n]
           d == r.rewardEpochId
<1>1. e \in Nat /\ e <= current /\ StartSec(e) = PolicyStart(e) /\ current \in Nat /\ e >= 1
  <2>1. e \in Nat /\ e <= current /\ StartSec(e) = PolicyStart(e)
    BY ScheduleFound
  <2>2. current \in Nat
    BY DEF ChainInv, ClockInv
  <2> QED
    BY <2>1, <2>2
<1>2. /\ d \in 0 .. current + 1 /\ r.ts \in Int
      /\ d >= 1 => starts[d - 1] <= r.ts
      /\ d < Len(policies) => r.ts < PolicyStart(d)
  BY DEF ChainInv, RegistrationsInv, Registering, PolicyStart
<1>3. e < Len(policies) /\ PolicyStart(e) \in Int
  <2>1. Len(policies) \in {current + 1, current + 2}
    BY DEF ChainInv, PoliciesInv
  <2>2. e < Len(policies)
    <3> DEFINE size == Len(policies)
    <3>1. size = current + 1 \/ size = current + 2
      BY <2>1
    <3> HIDE DEF size
    <3>2. e < size
      BY <1>1, <3>1
    <3> QED
      BY <3>2 DEF size
  <2>3. PolicyStart(e) \in Int
    <3>1. policies[e + 1].startRound \in Int
      BY ScheduleFound
    <3> QED
      BY <3>1, RoundStartMono DEF PolicyStart
  <2> QED
    BY <2>2, <2>3
<1> HIDE DEF d, r
<1>4. ASSUME n \in RegistrationWindow(e), d > e
      PROVE  FALSE
  <2>1. r.ts < PolicyStart(e)
    BY <1>1, <1>4 DEF RegistrationWindow, Between, r
  <2>2. starts[d - 1] <= r.ts
    BY <1>1, <1>2, <1>4
  <2>3. e \in 0 .. current /\ d - 1 \in 0 .. current /\ e <= d - 1
    BY <1>1, <1>2, <1>4
  <2>4. starts[e] <= starts[d - 1] /\ PolicyStart(e) <= starts[e] /\ starts[e] \in Int /\ starts[d - 1] \in Int
    BY <2>3 DEF ChainInv, StartsInv
  <2> QED
    BY <1>2, <1>3, <2>1, <2>2, <2>4
<1>5. ASSUME OpenedAt(e) >= PolicyStart(e) - PolicyWindow, d = e
      PROVE  n \in RegistrationWindow(e)
  <2> DEFINE T == {registrations[k].ts : k \in Registered(e)}
  <2>1. r.ts < PolicyStart(e)
    BY <1>2, <1>3, <1>5
  <2>2. T \subseteq Nat
    <3>1. ASSUME NEW k \in Registered(e)
          PROVE  registrations[k].ts \in Nat
      <4>1. k \in DOMAIN registrations /\ registrations[k].rewardEpochId = e
        BY <3>1 DEF Registered
      <4>2. registrations[k].ts \in Int /\ starts[e - 1] <= registrations[k].ts
        BY <1>1, <4>1 DEF ChainInv, RegistrationsInv, Registering
      <4>3. e - 1 \in 0 .. current /\ 0 <= e - 1
        BY <1>1
      <4>4. ExpectedStart(e - 1) <= starts[e - 1]
        BY <4>3, Chronology DEF ChainInv
      <4>5. ExpectedStart(e - 1) \in Int /\ 0 <= ExpectedStart(e - 1)
        <5>1. ExpectedStart(0) = 0 /\ ExpectedStart(0) <= ExpectedStart(e - 1) /\ ExpectedStart(e - 1) \in Int
          BY <4>3, ScheduleMono
        <5> QED
          BY <5>1
      <4>6. starts[e - 1] \in Int
        BY <4>3 DEF ChainInv, StartsInv
      <4> QED
        BY <4>2, <4>4, <4>5, <4>6
    <3> QED
      BY <3>1
  <2>3. r.ts \in T
    BY <1>5 DEF Registered, r, d
  <2>4. Min(T) <= r.ts /\ Min(T) \in Nat
    <3> HIDE DEF T
    <3> QED
      BY <2>2, <2>3, MinOfNat
  <2>5. PolicyStart(e) - PolicyWindow <= r.ts
    <3>1. OpenedAt(e) = Min(T) /\ PolicyWindow \in Nat
      BY ScheduleAssumption DEF OpenedAt
    <3> QED
      BY <1>2, <1>3, <1>5, <2>4, <3>1
  <2> QED
    BY <1>1, <2>1, <2>5 DEF RegistrationWindow, Between, r
<1>6. d \in Int
  BY <1>1, <1>2
<1> QED
  BY <1>1, <1>4, <1>5, <1>6 DEF d, r

(* So every voter of the policy is found, with its information for the epoch. *)
LEMMA VotersAreFound ==
  ASSUME ChainInv, NEW e \in 1 .. LastEpoch - 1, Ready(e)
  PROVE  VotersFound(VoterIndex(e), e)
<1> SUFFICES ASSUME OpenedAt(e) >= PolicyStart(e) - PolicyWindow
             PROVE  /\ [n \in DOMAIN VoterIndex(e) |-> VoterIndex(e)[n].voter] = policies[e + 1].voters
                    /\ \A n \in DOMAIN VoterIndex(e) : VoterIndex(e)[n].rewardEpochId = e
  BY DEF VotersFound
<1> DEFINE P == policies[e + 1].voters
           window == RegistrationWindow(e)
           last(v) == Max({n \in window : registrations[n].voter = v})
<1>1. e \in Nat /\ e + 1 \in DOMAIN policies /\ Policy(e) = policies[e + 1]
  BY ScheduleFound
<1>2. IsLog(P)
  BY <1>1 DEF ChainInv, PoliciesInv
<1>3. ASSUME NEW k \in DOMAIN P
      PROVE  /\ k \in KnownVoters(e)
             /\ registrations[last(P[k])].voter = P[k] /\ registrations[last(P[k])].rewardEpochId = e
  <2> DEFINE W == {n \in window : registrations[n].voter = P[k]}
             N == Len(registrations)
  <2>1. PICK n \in Registered((e + 1) - 1) : registrations[n].voter = P[k]
    BY <1>1, <1>3 DEF ChainInv, RegistrationsInv
  <2>2. n \in DOMAIN registrations /\ registrations[n].rewardEpochId = e
    BY <1>1, <2>1 DEF Registered
  <2>3. n \in window
    BY <2>2, InWindowByEpoch
  <2>4. k \in KnownVoters(e)
    BY <1>1, <1>3, <2>1, <2>2, <2>3 DEF KnownVoters, ForEpoch
  <2>5. N \in Nat /\ DOMAIN registrations = 1 .. N
    BY LogDomain DEF ChainInv, RegistrationsInv
  <2>6. W \in SUBSET (1 .. N) /\ n \in W
    BY <2>1, <2>3, <2>5 DEF RegistrationWindow, Between
  <2>7. last(P[k]) = Max(W)
    OBVIOUS
  <2> HIDE DEF W, N, window, P, last
  <2> DEFINE m == Max(W)
  <2>8. m \in W /\ n <= m
    BY <2>5, <2>6, MaxOfPositions
  <2> HIDE DEF m
  <2>9. m \in DOMAIN registrations /\ m \in window /\ registrations[m].voter = P[k]
    BY <2>5, <2>6, <2>8 DEF W
  <2>10. registrations[m].rewardEpochId <= e /\ registrations[m].rewardEpochId \in Int
    BY <2>9, InWindowByEpoch DEF window
  <2>11. registrations[n].rewardEpochId <= registrations[m].rewardEpochId
    BY <2>2, <2>8, <2>9 DEF ChainInv, RegistrationsInv
  <2>12. registrations[m].rewardEpochId = e
    BY <1>1, <2>2, <2>10, <2>11
  <2> QED
    BY <2>4, <2>7, <2>9, <2>12 DEF m
<1>4. AtPositions(P, KnownVoters(e)) = P
  <2> HIDE DEF P
  <2>1. DOMAIN P \subseteq KnownVoters(e)
    BY <1>3
  <2> QED
    BY <1>2, <2>1, AllPositions DEF IsLog
<1>5. VoterIndex(e) = [k \in DOMAIN P |-> registrations[last(P[k])]]
  BY <1>1, <1>4 DEF VoterIndex
<1>6. P = [k \in DOMAIN P |-> P[k]]
  <2> HIDE DEF P
  <2> QED
    BY <1>2 DEF IsLog
<1> HIDE DEF P, last
<1>7. DOMAIN VoterIndex(e) = DOMAIN P /\ \A k \in DOMAIN P : VoterIndex(e)[k] = registrations[last(P[k])]
  BY <1>5
<1>8. [n \in DOMAIN VoterIndex(e) |-> VoterIndex(e)[n].voter] = [k \in DOMAIN P |-> P[k]]
  BY <1>3, <1>7
<1> QED
  BY <1>3, <1>6, <1>7, <1>8 DEF P
-----------------------------------------------------------------------------
(* The feeds in their order. *)
SortedBy(s, R) == \A m, n \in DOMAIN s : m < n => <<s[m], s[n]>> \in R

(* The feeds can be sorted: CHOOSE has something to choose. *)
LEMMA SortedExists ==
  ASSUME NEW S, IsFiniteSet(S), NEW R, StrictOrder(S, R)
  PROVE  \E s \in SetToSeqs(S) : SortedBy(s, R)
<1> DEFINE F == {U \in SUBSET S : \E s \in SetToSeqs(U) : SortedBy(s, R)}
<1>1. {} \in F
  <2>1. Cardinality({}) = 0
    BY FS_EmptySet
  <2>2. <<>> \in [1 .. 0 -> {}]
    OBVIOUS
  <2>3. <<>> \in SetToSeqs({}) /\ SortedBy(<<>>, R)
    BY <2>1, <2>2 DEF SetToSeqs, SortedBy
  <2> QED
    BY <2>3
<1>2. ASSUME NEW U \in SUBSET S, U # {}, \A x \in U : U \ {x} \in F
      PROVE  U \in F
  <2>1. PICK x \in U : \A y \in U \ {x} : <<y, x>> \in R
    BY <1>2, LastInOrder
  <2> DEFINE V == U \ {x}
             c == Cardinality(V)
  <2>2. IsFiniteSet(V) /\ c \in Nat /\ Cardinality(U) = c + 1
    <3>1. IsFiniteSet(V) /\ V \cup {x} = U /\ x \notin V
      BY FS_Subset
    <3> HIDE DEF V
    <3> QED
      BY <3>1, FS_CardinalityType, FS_AddElement
  <2>3. PICK s \in SetToSeqs(V) : SortedBy(s, R)
    BY <1>2
  <2>4. s \in [1 .. c -> V] /\ \A i, j \in 1 .. c : i # j => s[i] # s[j]
    BY <2>3 DEF SetToSeqs
  <2> DEFINE t == [n \in 1 .. c + 1 |-> IF n = c + 1 THEN x ELSE s[n]]
  <2>5. V = U \ {x}
    OBVIOUS
  <2> HIDE DEF V, c
  <2>6. DOMAIN t = 1 .. c + 1 /\ t[c + 1] = x /\ \A n \in 1 .. c : t[n] = s[n] /\ s[n] \in V /\ n # c + 1
    BY <2>2, <2>4
  <2>7. \A n \in 1 .. c + 1 : n \in 1 .. c \/ n = c + 1
    BY <2>2
  <2>8. t \in [1 .. c + 1 -> U]
    <3>1. \A n \in 1 .. c + 1 : t[n] \in U
      BY <2>5, <2>6, <2>7
    <3> QED
      BY <3>1
  <2> HIDE DEF t
  <2>9. \A i, j \in 1 .. c + 1 : i # j => t[i] # t[j]
    BY <2>4, <2>5, <2>6, <2>7
  <2>10. t \in SetToSeqs(U)
    BY <2>2, <2>8, <2>9 DEF SetToSeqs
  <2>11. SortedBy(t, R)
    <3>1. ASSUME NEW m \in 1 .. c + 1, NEW n \in 1 .. c + 1, m < n
          PROVE  <<t[m], t[n]>> \in R
      <4>1. m \in 1 .. c
        BY <2>2, <3>1
      <4>2. CASE n \in 1 .. c
        <5>1. m \in DOMAIN s /\ n \in DOMAIN s /\ t[m] = s[m] /\ t[n] = s[n]
          BY <2>4, <2>6, <4>1, <4>2
        <5> QED
          BY <2>3, <3>1, <5>1 DEF SortedBy
      <4>3. CASE n = c + 1
        BY <2>1, <2>5, <2>6, <4>1, <4>3
      <4> QED
        BY <2>7, <4>2, <4>3
    <3> QED
      BY <2>6, <3>1 DEF SortedBy
  <2> QED
    BY <2>10, <2>11
<1>3. SUBSET S \subseteq F
  <2> HIDE DEF F
  <2> QED
    BY <1>1, <1>2, SubsetInduction
<1>4. S \in F
  BY <1>3
<1> QED
  BY <1>4
-----------------------------------------------------------------------------
OffersInt == IsLog(communityOffers) /\ \A n \in DOMAIN communityOffers :
               communityOffers[n].amount \in Nat /\ communityOffers[n].feed \in Int

(* The amounts offered for a feed are added up one by one. *)
AddedUp(found, feed, fip16Active, sum) ==
  LET offers == {n \in found : communityOffers[n].feed = feed}
      N == Len(communityOffers)
  IN  /\ sum \in [0 .. N -> Nat] /\ sum[0] = 0 /\ AmountPerFeed(found, feed, fip16Active) = sum[N]
      /\ \A n \in 1 .. N :
           sum[n] = IF n \notin offers THEN sum[n - 1]
                    ELSE IF sum[n - 1] = 0 THEN communityOffers[n].amount
                    ELSE AddAmount(sum[n - 1], communityOffers[n].amount, fip16Active)

LEMMA AmountPerFeedSteps ==
  ASSUME OffersInt, NEW found, NEW feed, NEW fip16Active \in BOOLEAN
  PROVE  \E sum : AddedUp(found, feed, fip16Active, sum)
<1> DEFINE N == Len(communityOffers)
           offers == {n \in found : communityOffers[n].feed = feed}
           Amount(n, a) == IF n \notin offers THEN a ELSE IF a = 0 THEN communityOffers[n].amount
                           ELSE AddAmount(a, communityOffers[n].amount, fip16Active)
           step == [p \in (1 .. N) \X Nat |-> Amount(p[1], p[2])]
           Body(it) == [n \in 0 .. N |-> IF n = 0 THEN 0 ELSE Amount(n, it[n - 1])]
           sum == CHOOSE it : it = Body(it)
<1>1. N \in Nat /\ \A n \in 1 .. N : communityOffers[n].amount \in Nat
  BY LogDomain DEF OffersInt
<1>2. ASSUME NEW n \in 1 .. N, NEW a \in Nat
      PROVE  Amount(n, a) \in Nat
  <2> DEFINE x == communityOffers[n].amount
  <2>1. x \in Nat
    BY <1>1
  <2>2. AddAmount(a, x, fip16Active) \in Nat
    <3> HIDE DEF x
    <3> QED
      BY <2>1 DEF AddAmount
  <2> HIDE DEF x
  <2> QED
    BY <2>1, <2>2 DEF x
<1>3. step \in [(1 .. N) \X Nat -> Nat] /\ \A n \in 1 .. N, a \in Nat : step[<<n, a>>] = Amount(n, a)
  <2> HIDE DEF Amount
  <2> QED
    BY <1>2
<1>4. PICK it \in [0 .. N -> Nat] : StepByStep(it, N, 0, step)
  <2> HIDE DEF step, N
  <2> QED
    BY <1>1, <1>3, NatRecursion
<1>5. it[0] = 0 /\ \A n \in 1 .. N : it[n] = Amount(n, it[n - 1])
  <2>1. it[0] = 0
    BY <1>1, <1>4 DEF StepByStep
  <2>2. ASSUME NEW n \in 1 .. N
        PROVE  it[n] = Amount(n, it[n - 1])
    <3>1. it[n] = step[<<n, it[n - 1]>>]
      <4> HIDE DEF step, Amount, N
      <4>1. n \in 0 .. N /\ n # 0
        BY <1>1
      <4> QED
        BY <1>4, <4>1 DEF StepByStep
    <3>2. it[n - 1] \in Nat
      <4>1. n - 1 \in 0 .. N
        BY <1>1
      <4> QED
        BY <4>1
    <3> HIDE DEF step, Amount
    <3> QED
      BY <1>3, <3>1, <3>2
  <2> QED
    BY <2>1, <2>2
<1>6. it = Body(it)
  <2> HIDE DEF Amount
  <2>1. \A n \in 0 .. N : it[n] = IF n = 0 THEN 0 ELSE Amount(n, it[n - 1])
    <3> HIDE DEF N
    <3> QED
      BY <1>1, <1>5
  <2> QED
    BY <2>1
<1>7. sum = Body(sum)
  BY <1>6
<1>8. sum[0] = 0 /\ DOMAIN sum = 0 .. N /\ \A n \in 1 .. N : sum[n] = Amount(n, sum[n - 1])
  <2> HIDE DEF sum, Amount
  <2> QED
    BY <1>1, <1>7
<1>9. AmountPerFeed(found, feed, fip16Active) = sum[N]
  BY DEF AmountPerFeed
<1>10. sum = Body(sum) /\ \A n \in 0 .. N : sum[n] \in Nat
  <2> DEFINE T == {n \in Nat : n <= N => sum[n] \in Nat}
  <2> HIDE DEF sum, Amount, N
  <2>1. 0 \in T
    BY <1>8
  <2>2. ASSUME NEW n \in Nat, n \in T
        PROVE  n + 1 \in T
    <3>1. CASE n + 1 <= N
      <4>1. n + 1 \in 1 .. N /\ (n + 1) - 1 = n /\ sum[n] \in Nat
        BY <1>1, <2>2, <3>1
      <4>2. sum[n + 1] = Amount(n + 1, sum[n])
        BY <1>8, <4>1
      <4>3. sum[n + 1] \in Nat
        BY <1>2, <4>1, <4>2
      <4> QED
        BY <4>3
    <3>2. CASE ~(n + 1 <= N)
      BY <3>2
    <3> QED
      BY <3>1, <3>2
  <2>3. Nat \subseteq T
    <3> HIDE DEF T
    <3> QED
      BY <2>1, <2>2, SetInduction
  <2>4. \A n \in 0 .. N : sum[n] \in Nat
    <3> TAKE n \in 0 .. N
    <3>1. n \in Nat /\ n <= N
      BY <1>1
    <3> QED
      BY <2>3, <3>1
  <2> HIDE DEF Body
  <2> QED
    BY <1>7, <2>4
<1>11. sum \in [0 .. N -> Nat]
  <2> HIDE DEF sum, Amount, N
  <2> QED
    BY <1>10
<1>12. AddedUp(found, feed, fip16Active, sum)
  <2> HIDE DEF sum
  <2> QED
    BY <1>8, <1>9, <1>11 DEF AddedUp
<1> QED
  BY <1>12

(* From FIP.16 on the amounts are added once. *)
LEMMA AmountPerFeedOK ==
  ASSUME OffersInt, NEW found \in SUBSET (DOMAIN communityOffers), NEW feed, NEW fip16Active \in BOOLEAN
  PROVE  /\ AmountPerFeed(found, feed, fip16Active) \in Nat
         /\ fip16Active => AmountPerFeed(found, feed, fip16Active) =
                             AmountOf(communityOffers, {n \in found : communityOffers[n].feed = feed})
<1> DEFINE N == Len(communityOffers)
           offers == {n \in found : communityOffers[n].feed = feed}
           f == [n \in DOMAIN communityOffers |-> communityOffers[n].amount]
           g == [n \in 1 .. N |-> IF n \in offers THEN communityOffers[n].amount ELSE 0]
<1>1. PICK sum : AddedUp(found, feed, fip16Active, sum)
  BY AmountPerFeedSteps
<1>2. /\ sum \in [0 .. N -> Nat] /\ sum[0] = 0 /\ AmountPerFeed(found, feed, fip16Active) = sum[N]
      /\ \A n \in 1 .. N :
           sum[n] = IF n \notin offers THEN sum[n - 1]
                    ELSE IF sum[n - 1] = 0 THEN communityOffers[n].amount
                    ELSE AddAmount(sum[n - 1], communityOffers[n].amount, fip16Active)
  BY <1>1 DEF AddedUp
<1>3. N \in Nat /\ DOMAIN communityOffers = 1 .. N /\ \A n \in 1 .. N : communityOffers[n].amount \in Nat
  BY LogDomain DEF OffersInt
<1>4. AmountPerFeed(found, feed, fip16Active) \in Nat
  <2> HIDE DEF N, offers
  <2> QED
    BY <1>2, <1>3
<1>5. ASSUME fip16Active
      PROVE  sum[N] = AmountOf(communityOffers, offers)
  <2> DEFINE left == [n \in 0 .. N |-> 0 - sum[n]]
  <2>1. ASSUME NEW n \in 1 .. N
        PROVE  sum[n] = sum[n - 1] + g[n] /\ sum[n] \in Nat /\ sum[n - 1] \in Nat /\ g[n] \in Nat
    <3> DEFINE x == communityOffers[n].amount
               a == sum[n - 1]
               b == sum[n]
    <3>1. x \in Nat /\ n \in 0 .. N /\ n - 1 \in 0 .. N
      BY <1>3
    <3>2. a \in Nat /\ b \in Nat
      <4> HIDE DEF N
      <4> QED
        BY <1>2, <3>1
    <3>3. b = IF n \notin offers THEN a ELSE IF a = 0 THEN x ELSE AddAmount(a, x, fip16Active)
      BY <1>2
    <3>4. AddAmount(a, x, fip16Active) = a + x
      BY <1>5 DEF AddAmount
    <3>5. g[n] = IF n \in offers THEN x ELSE 0
      OBVIOUS
    <3> HIDE DEF x, a, b, g, offers
    <3>6. b = a + g[n]
      BY <3>1, <3>2, <3>3, <3>4, <3>5
    <3>7. g[n] \in Nat
      BY <3>1, <3>5
    <3> QED
      BY <3>2, <3>6, <3>7 DEF a, b
  <2>2. \A n \in 0 .. N : left[n] \in Int
    <3> HIDE DEF N
    <3> QED
      BY <1>2
  <2>3. \A n \in 1 .. N : g[n] = left[n - 1] - left[n]
    <3> TAKE n \in 1 .. N
    <3>1. n \in 0 .. N /\ n - 1 \in 0 .. N
      BY <1>3
    <3>2. left[n] = 0 - sum[n] /\ left[n - 1] = 0 - sum[n - 1]
      <4> HIDE DEF N
      <4> QED
        BY <3>1
    <3> HIDE DEF left, g, N
    <3> QED
      BY <2>1, <3>2
  <2>4. left[0] - left[N] = sum[N]
    <3>1. 0 \in 0 .. N /\ N \in 0 .. N
      BY <1>3
    <3> HIDE DEF N
    <3> QED
      BY <1>2, <3>1
  <2> HIDE DEF left, g, N
  <2>5. SumFunctionOnSet(g, 1 .. N) = sum[N]
    BY <1>3, <2>2, <2>3, <2>4, SumOfSteps
  <2>6. SumFunctionOnSet(f, offers) = SumFunctionOnSet(g, 1 .. N)
    <3>1. IsFiniteSet(1 .. N) /\ offers \in SUBSET (1 .. N)
      BY <1>3, LogDomain DEF OffersInt
    <3>2. \A n \in 1 .. N : f[n] \in Int
      BY <1>3
    <3>3. \A n \in 1 .. N : g[n] = IF n \in offers THEN f[n] ELSE 0
      BY <1>3 DEF g
    <3> DEFINE S == 1 .. N
    <3> HIDE DEF f, offers
    <3>4. IsFiniteSet(S) /\ offers \in SUBSET S /\ (\A x \in S : f[x] \in Int)
          /\ \A x \in S : g[x] = IF x \in offers THEN f[x] ELSE 0
      BY <3>1, <3>2, <3>3
    <3> HIDE DEF S
    <3>5. SumFunctionOnSet(f, offers) = SumFunctionOnSet(g, S)
      BY ONLY <3>4, SumWhere
    <3> QED
      BY <3>5 DEF S
  <2> QED
    BY <2>5, <2>6 DEF AmountOf
<1> QED
  BY <1>2, <1>4, <1>5
-----------------------------------------------------------------------------
FeedOrder(found, fip16Active) ==
  {p \in Int \X Int :
     \/ AmountPerFeed(found, p[1], fip16Active) > AmountPerFeed(found, p[2], fip16Active)
     \/ /\ AmountPerFeed(found, p[1], fip16Active) = AmountPerFeed(found, p[2], fip16Active)
        /\ p[1] < p[2]}

(* No two feeds are at the same place of the order. *)
LEMMA FeedOrderStrict ==
  ASSUME OffersInt, NEW found \in SUBSET (DOMAIN communityOffers), NEW fip16Active \in BOOLEAN, NEW S \in SUBSET Int
  PROVE  StrictOrder(S, FeedOrder(found, fip16Active))
<1> DEFINE A(f) == AmountPerFeed(found, f, fip16Active)
           R == FeedOrder(found, fip16Active)
<1>1. \A f \in Int : A(f) \in Nat
  BY AmountPerFeedOK
<1>2. \A f, g \in Int : <<f, g>> \in R <=> (A(f) > A(g) \/ (A(f) = A(g) /\ f < g))
  BY DEF FeedOrder
<1> HIDE DEF A, R
<1>3. \A x \in S : <<x, x>> \notin R
  BY <1>1, <1>2
<1>4. \A x, y \in S : x # y => <<x, y>> \in R \/ <<y, x>> \in R
  BY <1>1, <1>2
<1>5. \A x, y, z \in S : <<x, y>> \in R /\ <<y, z>> \in R => <<x, z>> \in R
  BY <1>1, <1>2
<1> QED
  BY <1>3, <1>4, <1>5 DEF StrictOrder, R

(* The feeds of community offers are listed by what was offered for them.   *)
LEMMA CommunityFeeds ==
  ASSUME OffersInt, NEW found \in SUBSET (DOMAIN communityOffers), NEW fip16Active \in BOOLEAN
  PROVE  LET s == GetCommunityFeeds(found, fip16Active)
         IN  /\ s \in Seq(Int) /\ IsInjective(s)
             /\ \A x \in found : \E n \in DOMAIN s : s[n] = communityOffers[x].feed
             /\ \A m, n \in DOMAIN s :
                  m < n => AmountPerFeed(found, s[m], fip16Active) >= AmountPerFeed(found, s[n], fip16Active)
<1> DEFINE s == GetCommunityFeeds(found, fip16Active)
           feeds == {communityOffers[n].feed : n \in found}
           amount == [f \in feeds |-> AmountPerFeed(found, f, fip16Active)]
           before(f, g) == amount[f] > amount[g] \/ (amount[f] = amount[g] /\ f < g)
           R == FeedOrder(found, fip16Active)
           Sorted(t) == \A m, n \in DOMAIN t : m < n => before(t[m], t[n])
<1>1. IsFiniteSet(feeds) /\ feeds \subseteq Int
  <2>1. IsFiniteSet(found)
    BY LogDomain, FS_Subset DEF OffersInt
  <2>2. IsFiniteSet(feeds)
    <3> DEFINE f == [n \in found |-> communityOffers[n].feed]
    <3>1. f \in Surjection(found, feeds)
      BY DEF Surjection
    <3> HIDE DEF f, feeds
    <3> QED
      BY <2>1, <3>1, FS_Surjection
  <2> QED
    BY <2>2 DEF OffersInt
<1>2. PICK t \in SetToSeqs(feeds) : SortedBy(t, R)
  BY <1>1, FeedOrderStrict, SortedExists
<1>3. \A f, g \in feeds : <<f, g>> \in R <=> before(f, g)
  BY <1>1 DEF FeedOrder
<1>4. \A u \in SetToSeqs(feeds) : \A n \in DOMAIN u : u[n] \in feeds
  BY DEF SetToSeqs
<1>5. Sorted(t)
  <2> HIDE DEF before, R, feeds
  <2> QED
    BY <1>2, <1>3, <1>4 DEF SortedBy
<1>6. s = CHOOSE u \in SetToSeqs(feeds) : Sorted(u)
  BY DEF GetCommunityFeeds
<1>7. s \in SetToSeqs(feeds) /\ Sorted(s)
  <2> HIDE DEF s, feeds, Sorted
  <2> QED
    BY <1>2, <1>5, <1>6
<1>8. s \in Seq(feeds) /\ IsInjective(s) /\ \A x \in feeds : \E n \in DOMAIN s : s[n] = x
  <2> HIDE DEF s, feeds, Sorted
  <2> QED
    BY <1>1, <1>7, AllListed
<1> HIDE DEF s
<1>9. s \in Seq(Int)
  BY <1>1, <1>8
<1>10. ASSUME NEW m \in DOMAIN s, NEW n \in DOMAIN s, m < n
       PROVE  AmountPerFeed(found, s[m], fip16Active) >= AmountPerFeed(found, s[n], fip16Active)
  <2>1. before(s[m], s[n]) /\ s[m] \in feeds /\ s[n] \in feeds
    BY <1>4, <1>7, <1>10
  <2>2. amount[s[m]] = AmountPerFeed(found, s[m], fip16Active) /\ amount[s[n]] = AmountPerFeed(found, s[n], fip16Active)
    BY <2>1
  <2>3. AmountPerFeed(found, s[m], fip16Active) \in Nat /\ AmountPerFeed(found, s[n], fip16Active) \in Nat
    BY AmountPerFeedOK
  <2> HIDE DEF amount
  <2> QED
    BY <2>1, <2>2, <2>3
<1>11. \A x \in found : \E n \in DOMAIN s : s[n] = communityOffers[x].feed
  BY <1>8
<1> QED
  BY <1>8, <1>9, <1>10, <1>11 DEF s

(* A list behind another without the elements that are in it already.        *)
Behind(a, c, t) ==
  /\ IsPrefix(a, a \o t) /\ IsInjective(a \o t)
  /\ \A n \in DOMAIN c : c[n] \in ToSet(a \o t)
  /\ SubSeq(a \o t, Len(a) + 1, Len(a \o t)) = t
  /\ \A m, n \in DOMAIN t : m < n => \E j, k \in DOMAIN c : j < k /\ t[m] = c[j] /\ t[n] = c[k]

LEMMA AddedBehind ==
  ASSUME NEW F, NEW a \in Seq(F), IsInjective(a), NEW c \in Seq(F), IsInjective(c)
  PROVE  Behind(a, c, AtPositions(c, {n \in DOMAIN c : c[n] \notin ToSet(a)}))
<1> DEFINE P == {n \in DOMAIN c : c[n] \notin ToSet(a)}
           t == AtPositions(c, P)
           N == Len(c)
           A == Len(a)
           T == Len(t)
           all == a \o t
<1>1. t \in Seq(F) /\ \E at : TakenFrom(t, c, P, N, at)
  BY AtPositionsSpec
<1> HIDE DEF t
<1>2. PICK at : TakenFrom(t, c, P, N, at)
  BY <1>1
<1>3. /\ at \in [1 .. T -> P \cap (1 .. N)]
      /\ \A k \in 1 .. T : t[k] = c[at[k]]
      /\ \A j, k \in 1 .. T : j < k => at[j] < at[k]
      /\ \A x \in P \cap (1 .. N) : \E k \in 1 .. T : at[k] = x
  BY <1>2 DEF TakenFrom
<1>4. /\ A \in Nat /\ T \in Nat /\ N \in Nat /\ DOMAIN a = 1 .. A /\ DOMAIN t = 1 .. T /\ DOMAIN c = 1 .. N
      /\ all \in Seq(F) /\ Len(all) = A + T /\ DOMAIN all = 1 .. A + T
      /\ \A n \in 1 .. A + T : all[n] = IF n <= A THEN a[n] ELSE t[n - A]
  BY <1>1
<1>5. IsPrefix(a, all)
  <2>1. SubSeq(a, 1, A) = SubSeq(all, 1, A)
    <3>1. \A n \in 1 .. A : a[n] = all[n]
      BY <1>4
    <3> QED
      BY <1>4, <3>1
  <2> QED
    BY <1>4, <2>1 DEF IsPrefix
<1>6. \A k \in 1 .. T : at[k] \in 1 .. N /\ t[k] = c[at[k]] /\ t[k] \notin ToSet(a)
  BY <1>3
<1> HIDE DEF all, A, T, N
<1>7. IsInjective(all)
  <2>1. \A m, n \in 1 .. A : a[m] = a[n] => m = n
    BY <1>4 DEF IsInjective
  <2>2. \A m, n \in 1 .. T : t[m] = t[n] => m = n
    <3> SUFFICES ASSUME NEW m \in 1 .. T, NEW n \in 1 .. T, t[m] = t[n]
                 PROVE  m = n
      OBVIOUS
    <3>1. at[m] = at[n]
      BY <1>4, <1>6 DEF IsInjective
    <3>2. at[m] \in Int /\ at[n] \in Int
      <4>1. \A i \in 1 .. N : i \in Int
        OBVIOUS
      <4> QED
        BY <1>6, <4>1
    <3>3. ~(m < n) /\ ~(n < m)
      BY <1>3, <3>1, <3>2
    <3> QED
      BY <1>4, <3>3
  <2>3. ASSUME NEW m \in 1 .. A + T, NEW n \in 1 .. A + T, all[m] = all[n], m <= n
        PROVE  m = n
    <3>1. CASE n <= A
      <4>1. m \in 1 .. A /\ n \in 1 .. A /\ all[m] = a[m] /\ all[n] = a[n]
        BY <1>4, <2>3, <3>1
      <4> QED
        BY <2>1, <2>3, <4>1
    <3>2. CASE m <= A /\ ~(n <= A)
      <4>1. m \in 1 .. A /\ all[m] = a[m] /\ all[n] = t[n - A] /\ n - A \in 1 .. T
        BY <1>4, <3>2
      <4>2. a[m] \in ToSet(a)
        BY <1>4, <4>1 DEF ToSet
      <4> QED
        BY <1>6, <2>3, <4>1, <4>2
    <3>3. CASE ~(m <= A)
      <4>1. ~(n <= A) /\ m - A \in 1 .. T /\ n - A \in 1 .. T /\ all[m] = t[m - A] /\ all[n] = t[n - A]
        BY <1>4, <2>3, <3>3
      <4>2. m - A = n - A
        BY <2>2, <2>3, <4>1
      <4> QED
        BY <1>4, <4>2
    <3> QED
      BY <3>1, <3>2, <3>3
  <2>4. \A m, n \in 1 .. A + T : m <= n \/ n <= m
    BY <1>4
  <2> QED
    BY <1>4, <2>3, <2>4 DEF IsInjective
<1>8. ASSUME NEW n \in DOMAIN c
      PROVE  c[n] \in ToSet(all)
  <2>1. CASE c[n] \in ToSet(a)
    <3>1. PICK k \in 1 .. A : a[k] = c[n]
      BY <1>4, <2>1 DEF ToSet
    <3>2. k \in DOMAIN all /\ all[k] = c[n]
      BY <1>4, <3>1
    <3> QED
      BY <3>2 DEF ToSet
  <2>2. CASE c[n] \notin ToSet(a)
    <3>1. n \in P \cap (1 .. N)
      BY <1>4, <2>2
    <3>2. PICK k \in 1 .. T : at[k] = n
      BY <1>3, <3>1
    <3>3. A + k \in DOMAIN all /\ all[A + k] = t[k] /\ t[k] = c[n]
      BY <1>4, <1>6, <3>2
    <3> QED
      BY <3>3 DEF ToSet
  <2> QED
    BY <2>1, <2>2
<1>9. SubSeq(all, A + 1, Len(all)) = t
  <2> DEFINE u == SubSeq(all, A + 1, A + T)
  <2>1. u \in Seq(F) /\ Len(u) = T /\ \A n \in 1 .. T : u[n] = all[A + n]
    BY <1>4
  <2>2. \A n \in 1 .. T : u[n] = t[n]
    <3> TAKE n \in 1 .. T
    <3>1. A + n \in 1 .. A + T /\ ~(A + n <= A) /\ (A + n) - A = n
      BY <1>4
    <3>2. all[A + n] = t[n]
      BY <1>4, <3>1
    <3> QED
      BY <2>1, <3>2
  <2> HIDE DEF u
  <2>3. u = t
    BY <1>1, <1>4, <2>1, <2>2
  <2> QED
    BY <1>4, <2>3 DEF u
<1>10. ASSUME NEW m \in DOMAIN t, NEW n \in DOMAIN t, m < n
       PROVE  \E j, k \in DOMAIN c : j < k /\ t[m] = c[j] /\ t[n] = c[k]
  BY <1>3, <1>4, <1>6, <1>10
<1> QED
  BY <1>5, <1>7, <1>8, <1>9, <1>10 DEF t, all, A, Behind

(* The feeds of the epoch, those of the inflation offers first. *)
LEMMA FeedsAreFound ==
  ASSUME ChainInv, NEW e \in 1 .. LastEpoch - 1, Ready(e)
  PROVE  FeedsFound(GetOrderedFeeds(e), e)
<1> DEFINE found == EventsOf(communityOffers, e)
           active == e >= Fip16Epoch
           c == GetCommunityFeeds(found, active)
           P == {n \in DOMAIN c : c[n] \notin ToSet(InflationFeeds)}
           t == AtPositions(c, P)
           all == InflationFeeds \o t
<1>1. OffersInt /\ OffersInv(communityOffers) /\ OffersInv(inflationOffers)
  BY DEF ChainInv, OffersInt, OffersInv, Offering, FeesInv
<1>2. found \subseteq DOMAIN communityOffers /\ active \in BOOLEAN
  BY DEF EventsOf, ForEpoch
<1>3. GetOrderedFeeds(e) = all
  <2>1. Offered(communityOffers, e) = found
    BY <1>1, OffersFound
  <2>2. Offered(inflationOffers, e) # {}
    BY DEF Ready
  <2> QED
    BY <2>1, <2>2 DEF GetOrderedFeeds
<1> HIDE DEF active, found
<1>4. /\ c \in Seq(Int) /\ IsInjective(c)
      /\ \A x \in found : \E n \in DOMAIN c : c[n] = communityOffers[x].feed
      /\ \A m, n \in DOMAIN c : m < n => AmountPerFeed(found, c[m], active) >= AmountPerFeed(found, c[n], active)
  BY <1>1, <1>2, CommunityFeeds
<1> HIDE DEF c
<1>9. Behind(InflationFeeds, c, t)
  BY <1>4, FeedsAssumption, AddedBehind
<1> HIDE DEF t
<1>5. /\ IsPrefix(InflationFeeds, all) /\ IsInjective(all)
      /\ \A n \in DOMAIN c : c[n] \in ToSet(all)
      /\ SubSeq(all, Len(InflationFeeds) + 1, Len(all)) = t
      /\ \A m, n \in DOMAIN t : m < n => \E j, k \in DOMAIN c : j < k /\ t[m] = c[j] /\ t[n] = c[k]
  BY <1>9 DEF Behind
<1> HIDE DEF all, t
<1>6. \A n \in found : communityOffers[n].feed \in ToSet(all)
  BY <1>4, <1>5
<1>7. ASSUME active, NEW feed
      PROVE  OfferedFor(feed, e) = AmountPerFeed(found, feed, active)
  <2>1. {n \in DOMAIN communityOffers : communityOffers[n].rewardEpochId = e /\ communityOffers[n].feed = feed} =
          {n \in found : communityOffers[n].feed = feed}
    BY DEF found, EventsOf, ForEpoch
  <2>2. AmountPerFeed(found, feed, active) = AmountOf(communityOffers, {n \in found : communityOffers[n].feed = feed})
    BY <1>1, <1>2, <1>7, AmountPerFeedOK
  <2> QED
    BY <2>1, <2>2 DEF OfferedFor
<1>8. ASSUME active, NEW m \in DOMAIN t, NEW n \in DOMAIN t, m < n
      PROVE  OfferedFor(t[m], e) >= OfferedFor(t[n], e)
  <2>1. PICK j, k \in DOMAIN c : j < k /\ t[m] = c[j] /\ t[n] = c[k]
    BY <1>5, <1>8
  <2>2. AmountPerFeed(found, c[j], active) >= AmountPerFeed(found, c[k], active)
    BY <1>4, <2>1
  <2>3. OfferedFor(c[j], e) = AmountPerFeed(found, c[j], active) /\ OfferedFor(c[k], e) = AmountPerFeed(found, c[k], active)
    BY <1>7, <1>8
  <2> QED
    BY <2>1, <2>2, <2>3
<1> QED
  BY <1>3, <1>5, <1>6, <1>8 DEF FeedsFound, active, found

(* What is offered for a feed stays the same when the epoch is over. *)
OfferedIn(events, feed, e) ==
  AmountOf(events, {n \in DOMAIN events : events[n].rewardEpochId = e /\ events[n].feed = feed})

LEMMA OfferedStays ==
  ASSUME NEW s, IsLog(s), \A n \in DOMAIN s : s[n].amount \in Int, NEW t, NEW e, SameEvents(s, t, e), NEW feed
  PROVE  OfferedIn(t, feed, e) = OfferedIn(s, feed, e)
<1> DEFINE f == [n \in DOMAIN s |-> s[n].amount]
           g == [n \in DOMAIN t |-> t[n].amount]
           S == {n \in DOMAIN s : s[n].rewardEpochId = e /\ s[n].feed = feed}
           T == {n \in DOMAIN t : t[n].rewardEpochId = e /\ t[n].feed = feed}
<1>1. EventsOf(t, e) = EventsOf(s, e) /\ \A n \in EventsOf(s, e) : t[n] = s[n]
  BY DEF SameEvents
<1>2. S \subseteq EventsOf(s, e) /\ T \subseteq EventsOf(t, e) /\ EventsOf(s, e) \subseteq DOMAIN s /\ EventsOf(t, e) \subseteq DOMAIN t
  BY DEF EventsOf, ForEpoch
<1>3. S = {n \in EventsOf(s, e) : s[n].feed = feed} /\ T = {n \in EventsOf(t, e) : t[n].feed = feed}
  BY DEF EventsOf, ForEpoch
<1>4. S = T
  BY <1>1, <1>3
<1>5. IsFiniteSet(S)
  BY LogDomain, FS_Subset
<1>6. \A n \in S : f[n] \in Int /\ g[n] = f[n]
  BY <1>1, <1>2
<1> HIDE DEF f, g, S, T
<1>7. SumFunctionOnSet(f, S) = SumFunctionOnSet(g, S)
  BY <1>5, <1>6, SumEqual
<1> QED
  BY <1>4, <1>7 DEF OfferedIn, AmountOf, f, g, S, T
-----------------------------------------------------------------------------
(* What was found for an epoch stays all there is for it.                    *)
LEMMA VotersKept ==
  ASSUME ChainInv, ChainNext, NEW e \in 1 .. LastEpoch - 1, e <= current, e + 2 \in DOMAIN policies
  PROVE  OpenedAt(e)' = OpenedAt(e) /\ PolicyStart(e)' = PolicyStart(e)
<1>1. e \in Nat
  BY ScheduleAssumption
<1>2. policies'[e + 1] = policies[e + 1] /\ SameEvents(registrations, registrations', e)
  BY <1>1, PastPolicies
<1>3. EventsOf(registrations', e) = EventsOf(registrations, e)
      /\ \A n \in EventsOf(registrations, e) : registrations'[n] = registrations[n]
  BY <1>2 DEF SameEvents
<1>4. Registered(e) = EventsOf(registrations, e) /\ Registered(e)' = EventsOf(registrations', e)
  BY DEF Registered, EventsOf, ForEpoch
<1>5. {registrations'[n].ts : n \in Registered(e)'} = {registrations[n].ts : n \in Registered(e)}
  BY <1>3, <1>4
<1>6. OpenedAt(e)' = OpenedAt(e)
  BY <1>5 DEF OpenedAt
<1> QED
  BY <1>2, <1>6 DEF PolicyStart

LEMMA FeedsKept ==
  ASSUME ChainInv, ChainNext, NEW e \in Int, e <= current
  PROVE  /\ \A feed : OfferedFor(feed, e)' = OfferedFor(feed, e)
         /\ EventsOf(communityOffers, e)' = EventsOf(communityOffers, e)
         /\ \A n \in EventsOf(communityOffers, e) : communityOffers'[n] = communityOffers[n]
<1>1. SameEvents(communityOffers, communityOffers', e)
  BY PastOffers
<1>2. IsLog(communityOffers) /\ \A n \in DOMAIN communityOffers : communityOffers[n].amount \in Int
  BY DEF ChainInv, OffersInv, Offering
<1>3. ASSUME NEW feed
      PROVE  OfferedIn(communityOffers', feed, e) = OfferedIn(communityOffers, feed, e)
  BY ONLY <1>1, <1>2, OfferedStays
<1>4. ASSUME NEW feed
      PROVE  OfferedFor(feed, e)' = OfferedFor(feed, e)
  BY <1>3 DEF OfferedFor, OfferedIn
<1> QED
  BY <1>1, <1>4 DEF SameEvents

LEMMA FoundKept ==
  ASSUME ChainInv, ChainNext, FoundInv, UNCHANGED epochs
  PROVE  FoundInv'
<1> SUFFICES ASSUME NEW e \in DOMAIN epochs
             PROVE  AllFound(e, epochs[e])'
  BY DEF FoundInv
<1> DEFINE c == epochs[e]
<1>1. AllFound(e, c)
  BY DEF FoundInv
<1>2. e \in 1 .. LastEpoch - 1 /\ e <= current /\ e + 2 \in DOMAIN policies
  BY <1>1 DEF AllFound
<1>3. e \in Nat /\ e \in Int
  BY <1>2, ScheduleAssumption
<1>4. current' >= current /\ current' \in Nat /\ current \in Nat /\ e + 2 \in DOMAIN policies'
      /\ policies'[e + 1] = policies[e + 1] /\ policies'[e + 2] = policies[e + 2]
  <2>1. current \in Nat
    BY DEF ChainInv, ClockInv
  <2> QED
    BY <1>2, <1>3, <2>1, PastPolicies
<1>5. EventsOf(inflationOffers, e)' = EventsOf(inflationOffers, e)
      /\ EventsOf(communityOffers, e)' = EventsOf(communityOffers, e)
  BY <1>2, <1>3, PastOffers DEF SameEvents
<1>6. (e < current => EventsOf(incentives, e)' = EventsOf(incentives, e)) /\ FeesFor(e)' = FeesFor(e)
  <2>1. FccActive(e) => e < current
    BY <1>1 DEF AllFound
  <2> QED
    BY <1>2, <1>3, <2>1, PastPayments DEF SameEvents
<1>7. OpenedAt(e)' = OpenedAt(e) /\ PolicyStart(e)' = PolicyStart(e)
  BY <1>2, VotersKept
<1>8. e <= current' /\ (e < current => e < current') /\ c' = c
  BY <1>2, <1>3, <1>4
<1>11. (EndInTime(e)' <=> EndInTime(e)) /\ (FccActive(e)' <=> FccActive(e))
  BY <1>4 DEF EndInTime, FccActive
<1>9. VotersFound(c.epoch.voters, e)'
  BY <1>1, <1>4, <1>7 DEF AllFound, VotersFound
<1>10. FeedsFound(epochs[e].epoch.OrderedFeeds, e)'
  <2>1. FeedsFound(c.epoch.OrderedFeeds, e)
    BY <1>1 DEF AllFound
  <2>2. /\ \A feed : OfferedFor(feed, e)' = OfferedFor(feed, e)
        /\ EventsOf(communityOffers, e)' = EventsOf(communityOffers, e)
        /\ \A n \in EventsOf(communityOffers, e) : communityOffers'[n] = communityOffers[n]
    BY <1>2, <1>3, FeedsKept
  <2> QED
    BY <1>8, <2>1, <2>2 DEF FeedsFound
<1> QED
  BY <1>1, <1>2, <1>4, <1>5, <1>6, <1>8, <1>9, <1>10, <1>11 DEF AllFound

(* A calculation changes nothing on chain. *)
LEMMA FoundStays ==
  ASSUME UNCHANGED chainVars, \A x \in DOMAIN epochs' : AllFound(x, epochs'[x])
  PROVE  FoundInv'
<1> SUFFICES ASSUME NEW x \in DOMAIN epochs'
             PROVE  AllFound(x, epochs[x])'
  BY DEF FoundInv
<1> DEFINE c == epochs'[x]
<1>1. AllFound(x, c)
  OBVIOUS
<1>2. UNCHANGED <<current, policies, registrations, inflationOffers, communityOffers, incentives, teeInstructions, fdc2Requests>>
  BY DEF chainVars
<1>3. /\ EventsOf(inflationOffers, x)' = EventsOf(inflationOffers, x) /\ EventsOf(communityOffers, x)' = EventsOf(communityOffers, x)
      /\ EventsOf(incentives, x)' = EventsOf(incentives, x)
  BY <1>2
<1>4. FeesFor(x)' = FeesFor(x)
  BY <1>2 DEF FeesFor, RequestsFor
<1>5. OpenedAt(x)' = OpenedAt(x) /\ PolicyStart(x)' = PolicyStart(x)
  BY <1>2 DEF OpenedAt, Registered, PolicyStart
<1>6. VotersFound(epochs[x].epoch.voters, x)'
  BY <1>1, <1>2, <1>5 DEF AllFound, VotersFound
<1>7. FeedsFound(epochs[x].epoch.OrderedFeeds, x)'
  <2>1. FeedsFound(c.epoch.OrderedFeeds, x)
    BY <1>1 DEF AllFound
  <2> QED
    BY <1>2, <1>3, <2>1 DEF FeedsFound, OfferedFor
<1> QED
  BY <1>1, <1>2, <1>3, <1>4, <1>6, <1>7 DEF AllFound, EndInTime

(* What a calculation finds is all there is. *)
LEMMA CalculatedIsFound ==
  ASSUME ChainInv, FoundInv, NEW e \in 1 .. LastEpoch - 1, Calculate(e)
  PROVE  FoundInv'
<1> DEFINE epoch == GetRewardEpoch(e)
           fees == FccRewards(epoch)
           all == [epoch |-> epoch, fees |-> fees]
<1>1. Ready(e) /\ UNCHANGED chainVars /\ epochs' = [x \in DOMAIN epochs \cup {e} |-> IF x = e THEN all ELSE epochs[x]]
  BY DEF Calculate
<1>2. /\ e \in Nat /\ e <= current /\ e + 2 \in DOMAIN policies
      /\ StartRound(e) = policies[e + 1].startRound
      /\ StartRound(e) \in Int /\ EndRound(e) \in Int /\ 1 <= StartRound(e)
      /\ IF EndInTime(e)
           THEN EndRound(e) = policies[e + 2].startRound - 1 /\ StartRound(e) <= EndRound(e) /\ e < current
           ELSE EndRound(e) = 0
      /\ FccActive(e) => e < current
  BY <1>1, ScheduleFound
<1>3. Offered(inflationOffers, e) = EventsOf(inflationOffers, e) /\ Offered(communityOffers, e) = EventsOf(communityOffers, e)
  BY <1>1, OffersFound DEF ChainInv
<1>4. ASSUME e < current
      PROVE  /\ EndRound(e) # 0 => Incentives(e) = EventsOf(incentives, e)
             /\ InstructionsOf(e) = EventsOf(teeInstructions, e) /\ RequestsOf(e) = RequestsFor(e)
  BY <1>2, <1>4, PaymentsFound
<1>5. VotersFound(VoterIndex(e), e) /\ FeedsFound(GetOrderedFeeds(e), e)
  BY <1>1, VotersAreFound, FeedsAreFound
<1>6. /\ epoch.Epoch = e /\ epoch.StartRound = StartRound(e) /\ epoch.EndRound = EndRound(e)
      /\ epoch.inflation = Offered(inflationOffers, e) /\ epoch.community = Offered(communityOffers, e)
      /\ epoch.incentives = Incentives(e) /\ epoch.voters = VoterIndex(e) /\ epoch.OrderedFeeds = GetOrderedFeeds(e)
  BY DEF GetRewardEpoch
<1> HIDE DEF epoch
<1>7. /\ SumFunction(fees) = FeesFor(e)
      /\ DOMAIN fees \subseteq {epoch.EndRound} \cup epoch.StartRound .. epoch.EndRound
  <2>1. CASE FccActive(e)
    <3>1. fees = GetEpochFees(epoch)
      BY <1>6, <2>1 DEF FccRewards
    <3> QED
      BY <1>2, <1>4, <1>6, <2>1, <3>1, EpochFeesSpec
  <2>2. CASE ~FccActive(e)
    <3>1. fees = [r \in {} |-> 0]
      BY <1>6, <2>2 DEF FccRewards
    <3>2. DOMAIN fees = {} /\ SumFunction(fees) = 0
      BY <3>1, SumEmpty DEF SumFunction
    <3> QED
      BY <2>2, <3>2, NoFeesBefore
  <2> QED
    BY <2>1, <2>2
<1>11. IF EndInTime(e)
         THEN EndRound(e) # 0 /\ DOMAIN fees \subseteq epoch.StartRound .. epoch.EndRound
         ELSE DOMAIN fees \subseteq {0}
  <2>1. CASE EndInTime(e)
    <3>1. epoch.EndRound \in epoch.StartRound .. epoch.EndRound /\ EndRound(e) # 0
      BY <1>2, <1>6, <2>1
    <3> QED
      BY <1>7, <2>1, <3>1
  <2>2. CASE ~EndInTime(e)
    <3>1. epoch.EndRound = 0 /\ epoch.StartRound .. epoch.EndRound = {}
      BY <1>2, <1>6, <2>2
    <3> QED
      BY <1>7, <2>2, <3>1
  <2> QED
    BY <2>1, <2>2
<1>8. all.epoch = epoch /\ all.fees = fees
  OBVIOUS
<1> HIDE DEF fees, all
<1>9. AllFound(e, all)
  BY <1>2, <1>3, <1>4, <1>5, <1>6, <1>7, <1>8, <1>11 DEF AllFound
<1>10. ASSUME NEW x \in DOMAIN epochs'
       PROVE  AllFound(x, epochs'[x])
  <2>1. CASE x = e
    BY <1>1, <1>9, <2>1
  <2>2. CASE x # e
    <3>1. x \in DOMAIN epochs /\ epochs'[x] = epochs[x]
      BY <1>1, <2>2
    <3> QED
      BY <3>1 DEF FoundInv
  <2> QED
    BY <2>1, <2>2
<1> QED
  BY <1>1, <1>10, FoundStays

(* The invariant is inductive. *)
LEMMA EpochsInitOK == EpochsInit => IInv
<1> SUFFICES ASSUME EpochsInit PROVE IInv
  OBVIOUS
<1>1. ChainInv /\ CreditInv
  BY InitChain, InitCredit DEF EpochsInit
<1>2. FoundInv
  <2>1. DOMAIN epochs = {}
    BY DEF EpochsInit
  <2> QED
    BY <2>1 DEF FoundInv
<1> QED
  BY <1>1, <1>2 DEF IInv

LEMMA ChainUnchanged ==
  ASSUME ChainInv, CreditInv, UNCHANGED chainVars
  PROVE  ChainInv' /\ CreditInv'
<1> USE DEF chainVars
<1>1. ClockInv' /\ StartsInv' /\ PoliciesInv' /\ OffersInv(inflationOffers)' /\ OffersInv(communityOffers)'
  BY DEF ChainInv, ClockInv, StartsInv, PoliciesInv, OffersInv, PolicyStart
<1>2. RegistrationsInv' /\ PaymentsInv(incentives)' /\ PaymentsInv(teeInstructions)' /\ FeesInv'
  BY DEF ChainInv, RegistrationsInv, Registered, PaymentsInv, FeesInv
<1>3. CreditInv'
  BY DEF CreditInv, FundsFor, FeesFor, RequestsFor
<1> QED
  BY <1>1, <1>2, <1>3 DEF ChainInv

LEMMA EpochsStep == IInv /\ [EpochsNext]_epochsVars => IInv'
<1> SUFFICES ASSUME IInv, [EpochsNext]_epochsVars PROVE IInv'
  OBVIOUS
<1>1. ChainInv /\ CreditInv /\ FoundInv
  BY DEF IInv
<1>2. CASE Chain
  <2>1. ChainNext /\ UNCHANGED epochs
    BY <1>2 DEF Chain
  <2>2. ChainInv'
    BY <1>1, <2>1, ChainStep
  <2>3. CreditInv'
    BY <1>1, <2>1, CreditStep
  <2>4. FoundInv'
    BY <1>1, <2>1, FoundKept
  <2> QED
    BY <2>2, <2>3, <2>4 DEF IInv
<1>3. ASSUME NEW e \in 1 .. LastEpoch - 1, Calculate(e)
      PROVE  IInv'
  <2>1. UNCHANGED chainVars
    BY <1>3 DEF Calculate
  <2> QED
    BY <1>1, <1>3, <2>1, ChainUnchanged, CalculatedIsFound DEF IInv
<1>4. CASE UNCHANGED epochsVars
  <2>1. UNCHANGED chainVars /\ UNCHANGED epochs
    BY <1>4 DEF epochsVars
  <2>2. FoundInv'
    <3>1. \A x \in DOMAIN epochs' : AllFound(x, epochs'[x])
      BY <1>1, <2>1 DEF FoundInv
    <3> QED
      BY <2>1, <3>1, FoundStays
  <2> QED
    BY <1>1, <2>1, <2>2, ChainUnchanged DEF IInv
<1> QED
  BY <1>2, <1>3, <1>4 DEF EpochsNext, CalculateNext

(* The calculated epochs have found all that is on chain for them, and what  *)
(* was paid for an epoch is credited to it.                                 *)
THEOREM EpochsInvariant == EpochsSpec => []IInv
BY EpochsInitOK, EpochsStep, PTL DEF EpochsSpec

(* An epoch has one policy. *)
LEMMA OnePolicy ==
  ASSUME ChainInv, NEW e \in Int, e + 1 \in DOMAIN policies
  PROVE  PolicyOf(e) = policies[e + 1]
<1>1. IsLog(policies) /\ DOMAIN policies = 1 .. Len(policies) /\ Len(policies) \in Nat
      /\ \A n \in DOMAIN policies : policies[n].rewardEpochId = n - 1
  BY LogDomain DEF ChainInv, PoliciesInv
<1>2. policies[e + 1] \in ToSet(policies) /\ policies[e + 1].rewardEpochId = e
  BY <1>1 DEF ToSet
<1>3. ASSUME NEW p \in ToSet(policies), p.rewardEpochId = e
      PROVE  p = policies[e + 1]
  <2>1. PICK n \in DOMAIN policies : p = policies[n]
    BY DEF ToSet
  <2>2. n = e + 1
    BY <1>1, <1>3, <2>1
  <2> QED
    BY <2>1, <2>2
<1> QED
  BY <1>2, <1>3 DEF PolicyOf

(* The policies of an epoch that is calculated and of the next are made. *)
LEMMA PoliciesOfFound ==
  ASSUME ChainInv, NEW e \in 1 .. LastEpoch - 1, e + 2 \in DOMAIN policies
  PROVE  /\ e \in Nat /\ PolicyOf(e) = policies[e + 1] /\ PolicyOf(e + 1) = policies[e + 2]
         /\ EndIsKnown(e) <=> EndInTime(e)
         /\ policies[e + 1].startRound \in Int /\ policies[e + 2].startRound \in Int
         /\ 1 <= policies[e + 1].startRound /\ policies[e + 1].startRound < policies[e + 2].startRound
<1> DEFINE size == Len(policies)
<1>1. DOMAIN policies = 1 .. size /\ size \in Nat
  BY LogDomain DEF ChainInv, PoliciesInv
<1>2. e \in Nat /\ e >= 1
  BY ScheduleAssumption
<1> HIDE DEF size
<1>3. e + 1 \in DOMAIN policies
  BY <1>1, <1>2
<1>4. PolicyOf(e) = policies[e + 1]
  BY <1>2, <1>3, OnePolicy
<1>5. PolicyOf(e + 1) = policies[e + 2]
  <2>1. e + 1 \in Int /\ (e + 1) + 1 = e + 2
    BY <1>2
  <2>2. PolicyOf(e + 1) = policies[(e + 1) + 1]
    BY <1>3, <2>1, OnePolicy
  <2> QED
    BY <2>1, <2>2
<1>6. (e + 2) - 1 = e + 1 /\ e + 2 >= 2 /\ (e + 1) - 1 = e
  BY <1>2
<1>7. policies[e + 1].startRound \in Int /\ policies[e + 2].startRound \in Int
      /\ policies[e + 1].startRound < policies[e + 2].startRound
      /\ ExpectedFirstVotingRound(e) <= policies[e + 1].startRound
  BY <1>3, <1>6 DEF ChainInv, PoliciesInv
<1>8. 1 <= policies[e + 1].startRound
  <2>1. ExpectedFirstVotingRound(0) = 0 /\ ExpectedFirstVotingRound(0) < ExpectedFirstVotingRound(e)
        /\ ExpectedFirstVotingRound(e) \in Int
    BY <1>2, ScheduleMono
  <2> QED
    BY <1>7, <2>1
<1>9. EndIsKnown(e) <=> EndInTime(e)
  BY <1>5 DEF EndIsKnown, EndInTime
<1> QED
  BY <1>2, <1>4, <1>5, <1>7, <1>8, <1>9

(* FindsWhatWasCredited: what a calculation finds for its epoch is worth      *)
(* what the RewardManager received for it, to the wei: the searches of        *)
(* getRewardOffers, getFUIncentiveOffers and attributeFees miss nothing and  *)
(* find nothing twice, and no step of the chain adds to it afterwards.       *)
THEOREM FundsAreFound == EpochsSpec => []FindsWhatWasCredited
<1>1. IInv => FindsWhatWasCredited
  <2> SUFFICES ASSUME IInv, NEW e \in DOMAIN epochs, EndIsKnown(e)
               PROVE  FundsFound(epochs[e]) = credited[e]
    BY DEF FindsWhatWasCredited
  <2> DEFINE epoch == epochs[e].epoch
  <2>1. AllFound(e, epochs[e]) /\ CreditInv /\ ChainInv
    BY DEF IInv, FoundInv
  <2>2. e \in 1 .. LastEpoch - 1 /\ e + 2 \in DOMAIN policies
    BY <2>1 DEF AllFound
  <2>3. e \in Epoch
    BY <2>2, ScheduleAssumption DEF Epoch
  <2>4. credited[e] = FundsFor(e)
    BY <2>1, <2>3 DEF CreditInv
  <2>5. EndInTime(e) /\ policies[e + 1].startRound \in Int /\ policies[e + 2].startRound \in Int
        /\ policies[e + 1].startRound < policies[e + 2].startRound
    BY <2>1, <2>2, PoliciesOfFound
  <2>6. /\ epoch.inflation = EventsOf(inflationOffers, e) /\ epoch.community = EventsOf(communityOffers, e)
        /\ epoch.incentives = EventsOf(incentives, e) /\ SumFunction(epochs[e].fees) = FeesFor(e)
        /\ epoch.StartRound = policies[e + 1].startRound /\ epoch.EndRound = policies[e + 2].startRound - 1
    BY <2>1, <2>5 DEF AllFound
  <2>7. epoch.StartRound \in Rounds(epoch)
    BY <2>5, <2>6 DEF Rounds
  <2> HIDE DEF epoch
  <2>8. Divided(epoch) = AmountOf(inflationOffers, EventsOf(inflationOffers, e))
                           + AmountOf(communityOffers, EventsOf(communityOffers, e)) + AmountOf(incentives, EventsOf(incentives, e))
    BY <2>6, <2>7 DEF Divided
  <2> QED
    BY <2>4, <2>6, <2>8 DEF FundsFound, FundsFor, epoch
<1> QED
  BY <1>1, EpochsInvariant, PTL

(* RoundsTile: the rounds of neighbouring epochs follow each other without a *)
(* gap or an overlap, and every fee is under a round of its epoch; an epoch   *)
(* whose next policy came too late has no rounds.                           *)
THEOREM RoundsAreTiled == EpochsSpec => []RoundsTile
<1>1. IInv => RoundsTile
  <2> SUFFICES ASSUME IInv, NEW e \in DOMAIN epochs
               PROVE  LET epoch == epochs[e].epoch
                      IN  /\ epoch.StartRound = PolicyOf(e).startRound
                          /\ IF EndIsKnown(e)
                               THEN /\ epoch.StartRound <= epoch.EndRound /\ epoch.EndRound + 1 = PolicyOf(e + 1).startRound
                                    /\ DOMAIN epochs[e].fees \subseteq Rounds(epoch)
                               ELSE Rounds(epoch) = {} /\ DOMAIN epochs[e].fees \subseteq {0}
    BY DEF RoundsTile
  <2> DEFINE epoch == epochs[e].epoch
             a == policies[e + 1].startRound
             b == policies[e + 2].startRound
  <2>1. AllFound(e, epochs[e]) /\ ChainInv
    BY DEF IInv, FoundInv
  <2>2. e \in 1 .. LastEpoch - 1 /\ e + 2 \in DOMAIN policies
    BY <2>1 DEF AllFound
  <2>3. PolicyOf(e) = policies[e + 1] /\ PolicyOf(e + 1) = policies[e + 2] /\ a \in Int /\ b \in Int /\ a < b /\ 1 <= a
        /\ (EndIsKnown(e) <=> EndInTime(e))
    BY <2>1, <2>2, PoliciesOfFound
  <2>4. epoch.StartRound = a
    BY <2>1 DEF AllFound
  <2>5. CASE EndIsKnown(e)
    <3>1. epoch.EndRound = b - 1 /\ DOMAIN epochs[e].fees \subseteq epoch.StartRound .. epoch.EndRound
      BY <2>1, <2>3, <2>5 DEF AllFound
    <3>2. a <= b - 1 /\ (b - 1) + 1 = b
      <4> HIDE DEF a, b
      <4> QED
        BY <2>3
    <3> QED
      BY <2>3, <2>4, <2>5, <3>1, <3>2 DEF Rounds
  <2>6. CASE ~EndIsKnown(e)
    <3>1. epoch.EndRound = 0 /\ DOMAIN epochs[e].fees \subseteq {0}
      BY <2>1, <2>3, <2>6 DEF AllFound
    <3>2. a .. 0 = {}
      <4> HIDE DEF a
      <4> QED
        BY <2>3
    <3> QED
      BY <2>3, <2>4, <2>6, <3>1, <3>2 DEF Rounds
  <2> QED
    BY <2>5, <2>6
<1> QED
  BY <1>1, EpochsInvariant, PTL

(* VotersComplete: GetVoterIndex finds every voter of the policy, in policy  *)
(* order, with what it registered for this epoch.                           *)
THEOREM VotersAreComplete == EpochsSpec => []VotersComplete
<1>1. IInv => VotersComplete
  <2> SUFFICES ASSUME IInv, NEW e \in DOMAIN epochs,
                      OpenedAt(e) >= VotingRoundStart(epochs[e].epoch.StartRound) - PolicyWindow
               PROVE  LET index == epochs[e].epoch.voters
                      IN  /\ [n \in DOMAIN index |-> index[n].voter] = PolicyOf(e).voters
                          /\ \A n \in DOMAIN index : index[n].rewardEpochId = e
    BY DEF VotersComplete
  <2>1. AllFound(e, epochs[e]) /\ ChainInv
    BY DEF IInv, FoundInv
  <2>2. e \in 1 .. LastEpoch - 1 /\ e + 2 \in DOMAIN policies /\ epochs[e].epoch.StartRound = policies[e + 1].startRound
        /\ VotersFound(epochs[e].epoch.voters, e)
    BY <2>1 DEF AllFound
  <2>3. PolicyOf(e) = policies[e + 1]
    BY <2>1, <2>2, PoliciesOfFound
  <2>4. OpenedAt(e) >= PolicyStart(e) - PolicyWindow
    BY <2>2 DEF PolicyStart
  <2> QED
    BY <2>2, <2>3, <2>4 DEF VotersFound
<1> QED
  BY <1>1, EpochsInvariant, PTL

(* FeedsOrdered: getOrderedFeeds lists every feed once, and from FIP.16 on   *)
(* those of community offers by all that was offered for them.              *)
THEOREM FeedsAreOrdered == EpochsSpec => []FeedsOrdered
<1>1. IInv => FeedsOrdered
  <2> SUFFICES ASSUME IInv, NEW e \in DOMAIN epochs
               PROVE  LET feeds == epochs[e].epoch.OrderedFeeds
                          community == SubSeq(feeds, Len(InflationFeeds) + 1, Len(feeds))
                      IN  /\ IsPrefix(InflationFeeds, feeds)
                          /\ IsInjective(feeds)
                          /\ \A n \in DOMAIN communityOffers :
                               communityOffers[n].rewardEpochId = e => communityOffers[n].feed \in ToSet(feeds)
                          /\ e >= Fip16Epoch => \A m, n \in DOMAIN community :
                               m < n => OfferedFor(community[m], e) >= OfferedFor(community[n], e)
    BY DEF FeedsOrdered
  <2>1. FeedsFound(epochs[e].epoch.OrderedFeeds, e)
    BY DEF IInv, FoundInv, AllFound
  <2>2. \A n \in DOMAIN communityOffers : communityOffers[n].rewardEpochId = e => n \in EventsOf(communityOffers, e)
    BY DEF EventsOf, ForEpoch
  <2> QED
    BY <2>1, <2>2 DEF FeedsFound
<1> QED
  BY <1>1, EpochsInvariant, PTL
=============================================================================
