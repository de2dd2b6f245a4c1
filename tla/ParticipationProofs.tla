------------------------- MODULE ParticipationProofs -------------------------
(***************************************************************************)
(* What the participation of the voters decides: the random numbers of the  *)
(* rounds, for any accounts and registrations, benching windows of every    *)
(* length and any commits and reveals; and the passes of a reward epoch, for *)
(* any voters, counts, thresholds and validators.                           *)
(***************************************************************************)
EXTENDS CommitReveal, MinConditions, FoldLemmas

(* What GetRoundReveals sorts out of the commits and the reveals.            *)
SortedOut ==
  [r \in {r \in Round : Committed(r) # {}} |->
     [Reveals |-> (Committed(r) \cap Registered[r]) \ Offenders(r, Registered[r]),
      RegisteredOffenders |-> Offenders(r, Registered[r]),
      AllOffenders |-> Offenders(r, Accounts)]]

TypeOK ==
  /\ phase \in {"chain", "random"}
  /\ epoch \in 0 .. LastRound + 2 /\ late \in BOOLEAN
  /\ commits \in Submitted /\ reveals \in Submitted
  /\ DOMAIN randoms \subseteq Round

(* The random of a round, from what is on the chain.                         *)
Valid(r) == ((Committed(r) \cap Registered[r]) \ Offenders(r, Registered[r])) \ Out(r)
ResultOf(r) ==
  [value |-> SumFunctionOnSet(reveals[r], Valid(r)) % RandomMod,
   isSecure |-> Offenders(r, Registered[r]) \subseteq Out(r) /\ Cardinality(Valid(r)) >= MinCount]

(* The randoms are calculated when the chain can no longer change.           *)
Calculated ==
  /\ phase = "chain" => DOMAIN randoms = {}
  /\ phase = "random" => roundReveals = SortedOut
  /\ \A r \in DOMAIN randoms : randoms[r] = ResultOf(r)

IInv == TypeOK /\ Calculated
-----------------------------------------------------------------------------
LEMMA Constants ==
  /\ LastRound \in Nat /\ BenchingWindow \in Nat /\ MinCount \in Nat /\ RandomMod \in Nat \ {0}
  /\ Round = 0 .. LastRound /\ IsFiniteSet(Accounts)
  /\ \A r \in Round : Registered[r] \subseteq Accounts
BY RoundsAssumption, RandomAssumption, AccountsAssumption DEF Round

(* The window's offenders, sorted out before, are those that failed to reveal.*)
LEMMA BenchedAreOut ==
  ASSUME roundReveals = SortedOut, NEW r \in Round
  PROVE  /\ BenchingWindowOffenders(r) = Out(r)
         /\ Reveals(r) \ BenchingWindowOffenders(r) = Valid(r)
         /\ RegisteredOffenders(r) = Offenders(r, Registered[r])
<1>1. ASSUME NEW q \in Round PROVE AllOffenders(q) = {a \in Accounts : FailedToReveal(a, q)}
  BY DEF AllOffenders, SortedOut, Offenders, Committed, FailedToReveal
<1>2. BenchingWindowOffenders(r) = Out(r)
  BY <1>1 DEF BenchingWindowOffenders, Out
<1>3. Reveals(r) = (Committed(r) \cap Registered[r]) \ Offenders(r, Registered[r])
  BY DEF Reveals, SortedOut
<1>4. RegisteredOffenders(r) = Offenders(r, Registered[r])
  BY DEF RegisteredOffenders, SortedOut, Offenders
<1> QED
  BY <1>2, <1>3, <1>4 DEF Valid

LEMMA ResultFields ==
  ASSUME NEW r, randoms[r] = ResultOf(r)
  PROVE  /\ randoms[r].value = SumFunctionOnSet(reveals[r], Valid(r)) % RandomMod
         /\ randoms[r].isSecure =
              (Offenders(r, Registered[r]) \subseteq Out(r) /\ Cardinality(Valid(r)) >= MinCount)
<1> DEFINE v == SumFunctionOnSet(reveals[r], Valid(r)) % RandomMod
           s == Offenders(r, Registered[r]) \subseteq Out(r) /\ Cardinality(Valid(r)) >= MinCount
<1>1. randoms[r] = [value |-> v, isSecure |-> s]
  BY DEF ResultOf
<1> HIDE DEF v, s
<1>2. randoms[r].value = v /\ randoms[r].isSecure = s
  BY <1>1
<1> QED
  BY <1>2 DEF v, s

LEMMA InitIInv == Init => IInv
<1> SUFFICES ASSUME Init PROVE IInv
  OBVIOUS
<1> USE DEF Init
<1>1. commits \in Submitted /\ reveals \in Submitted
  BY DEF Submitted
<1>2. epoch \in 0 .. LastRound + 2 /\ late \in BOOLEAN
  <2>1. 0 \in 0 .. LastRound + 2
    BY Constants
  <2> QED
    BY <2>1
<1>3. DOMAIN randoms \subseteq Round /\ phase \in {"chain", "random"}
  OBVIOUS
<1>4. TypeOK
  BY <1>1, <1>2, <1>3 DEF TypeOK
<1>5. Calculated
  BY DEF Calculated
<1> QED
  BY <1>4, <1>5 DEF IInv

(* Once the randoms are calculated nothing is submitted any more.            *)
LEMMA ChainFixed ==
  ASSUME UNCHANGED <<commits, reveals>>
  PROVE  /\ SortedOut' = SortedOut
         /\ \A r : ResultOf(r)' = ResultOf(r)
BY DEF SortedOut, ResultOf, Valid, Out, FailedToReveal, Committed, Offenders

LEMMA NextIInv == IInv /\ [Next]_vars => IInv'
<1> SUFFICES ASSUME IInv, [Next]_vars PROVE IInv'
  OBVIOUS
<1>1. ASSUME NEW a \in Accounts, NEW number \in Random, Submit1(a, number) \/ Submit2(a, number)
      PROVE  IInv'
  <2>1. phase = "chain" /\ UNCHANGED <<phase, epoch, late, randoms, roundReveals>>
    BY <1>1 DEF Submit1, Submit2
  <2>2. number \in Random \cup {NoMessage}
    OBVIOUS
  <2>3. ASSUME NEW m \in Submitted, NEW q \in Round
        PROVE  [m EXCEPT ![q][a] = number] \in Submitted
    BY <2>2 DEF Submitted
  <2>4. commits' \in Submitted /\ reveals' \in Submitted
    BY <1>1, <2>3 DEF Submit1, Submit2, IInv, TypeOK
  <2> QED
    BY <2>1, <2>4 DEF IInv, TypeOK, Calculated
<1>2. CASE PassDeadline \/ NextEpoch \/ UNCHANGED vars
  <2>1. UNCHANGED <<phase, commits, reveals, roundReveals, randoms>>
    BY <1>2 DEF PassDeadline, NextEpoch, vars
  <2>2. epoch' \in 0 .. LastRound + 2 /\ late' \in BOOLEAN
    <3>1. LastRound \in Int /\ epoch \in 0 .. LastRound + 2 /\ late \in BOOLEAN
      BY Constants DEF IInv, TypeOK
    <3>2. CASE PassDeadline
      BY <3>1, <3>2 DEF PassDeadline
    <3>3. CASE NextEpoch
      <4>1. epoch <= LastRound + 1 /\ epoch' = epoch + 1
        BY <3>3 DEF NextEpoch
      <4>2. late' = FALSE
        BY <3>3 DEF NextEpoch
      <4>3. epoch' \in 0 .. LastRound + 2
        BY <3>1, <4>1
      <4> QED
        BY <4>2, <4>3
    <3> QED
      BY <1>2, <3>1, <3>2, <3>3 DEF vars
  <2>3. SortedOut' = SortedOut /\ \A r : ResultOf(r)' = ResultOf(r)
    BY <2>1, ChainFixed
  <2> QED
    BY <2>1, <2>2, <2>3 DEF IInv, TypeOK, Calculated
<1>3. CASE GetRoundReveals
  <2>1. phase = "chain" /\ phase' = "random" /\ UNCHANGED <<epoch, late, commits, reveals, randoms>>
    BY <1>3 DEF GetRoundReveals
  <2>2. roundReveals' = SortedOut
    BY <1>3 DEF GetRoundReveals, SortedOut
  <2>3. SortedOut' = SortedOut
    BY <2>1, ChainFixed
  <2>4. DOMAIN randoms = {}
    BY <2>1 DEF IInv, Calculated
  <2> QED
    BY <2>1, <2>2, <2>3, <2>4 DEF IInv, TypeOK, Calculated
<1>4. ASSUME NEW r \in Round, CalculateRandom(r)
      PROVE  IInv'
  <2>1. phase = "random" /\ UNCHANGED <<phase, epoch, late, commits, reveals, roundReveals>>
    BY <1>4 DEF CalculateRandom
  <2>2. roundReveals = SortedOut
    BY <2>1 DEF IInv, Calculated
  <2>3. randoms' = [q \in DOMAIN randoms \cup {r} |-> IF q = r THEN ResultOf(r) ELSE randoms[q]]
    BY <1>4, <2>2, BenchedAreOut DEF CalculateRandom, RandomValue, ResultOf
  <2>4. SortedOut' = SortedOut /\ \A q : ResultOf(q)' = ResultOf(q)
    BY <2>1, ChainFixed
  <2>5. \A q \in DOMAIN randoms' : randoms'[q] = ResultOf(q)
    BY <2>3 DEF IInv, Calculated
  <2>6. DOMAIN randoms' \subseteq Round
    BY <2>3 DEF IInv, TypeOK
  <2> QED
    BY <2>1, <2>2, <2>4, <2>5, <2>6 DEF IInv, TypeOK, Calculated
<1> QED
  BY <1>1, <1>2, <1>3, <1>4 DEF Next

LEMMA SpecIInv == Spec => []IInv
BY InitIInv, NextIInv, PTL DEF Spec
-----------------------------------------------------------------------------
(* Without an offender that counts, the valid reveals are what was committed *)
(* to by all that count.                                                    *)
LEMMA ValidCount ==
  ASSUME TypeOK, NEW r \in Round, Offenders(r, Registered[r]) \subseteq Out(r)
  PROVE  /\ Valid(r) = (Committed(r) \cap Registered[r]) \ Out(r)
         /\ SumFunctionOnSet(reveals[r], Valid(r)) = SumFunctionOnSet(commits[r], Valid(r))
<1>1. Valid(r) = (Committed(r) \cap Registered[r]) \ Out(r)
  BY DEF Valid
<1>2. \A a \in Valid(r) : a \in Accounts /\ commits[r][a] # NoMessage /\ reveals[r][a] = commits[r][a]
  BY DEF Valid, Committed, Offenders
<1>3. \A a \in Accounts : commits[r][a] \in Random \cup {NoMessage}
  BY DEF TypeOK, Submitted
<1>4. \A a \in Valid(r) : commits[r][a] \in Int /\ reveals[r][a] = commits[r][a]
  <2>1. Random \subseteq Int
    BY RandomAssumption
  <2> QED
    BY <1>2, <1>3, <2>1
<1>5. IsFiniteSet(Valid(r))
  BY <1>2, Constants, FS_Subset
<1>6. SumFunctionOnSet(commits[r], Valid(r)) = SumFunctionOnSet(reveals[r], Valid(r))
  BY <1>4, <1>5, SumEqual
<1> QED
  BY <1>1, <1>6

(* A secure random is the sum of all that was committed by those that count:  *)
(* nobody has chosen it by withholding (GetRoundReveals, CalculateRandom).    *)
THEOREM SecureRandomIsCommitted == Spec => []SecureIsCommitted
<1>1. IInv => SecureIsCommitted
  <2> SUFFICES ASSUME IInv, NEW r \in DOMAIN randoms, randoms[r].isSecure
               PROVE  randoms[r].value = Target(r)
    BY DEF SecureIsCommitted
  <2>1. r \in Round /\ randoms[r] = ResultOf(r) /\ TypeOK
    BY DEF IInv, TypeOK, Calculated
  <2>2. Offenders(r, Registered[r]) \subseteq Out(r)
    BY <2>1, ResultFields
  <2>3. randoms[r].value = SumFunctionOnSet(reveals[r], Valid(r)) % RandomMod
    BY <2>1, ResultFields
  <2> QED
    BY <2>1, <2>2, <2>3, ValidCount DEF Target
<1> QED
  BY <1>1, SpecIInv, PTL

(* An insecure round with enough voters has an offender that had revealed in  *)
(* all of the benching window (RegisteredOffenders, BenchingWindowOffenders). *)
THEOREM SpoilerWasNotBenched == Spec => []SpoilsOncePerWindow
<1>1. IInv => SpoilsOncePerWindow
  <2> SUFFICES ASSUME IInv, NEW r \in DOMAIN randoms, ~randoms[r].isSecure,
                      Cardinality((Committed(r) \cap Registered[r]) \ Out(r)) >= MinCount
               PROVE  \E a \in Registered[r] :
                        /\ FailedToReveal(a, r)
                        /\ \A q \in Round : r - BenchingWindow <= q /\ q < r => ~FailedToReveal(a, q)
    BY DEF SpoilsOncePerWindow
  <2>1. r \in Round /\ randoms[r] = ResultOf(r) /\ TypeOK
    BY DEF IInv, TypeOK, Calculated
  <2>2. ~(Offenders(r, Registered[r]) \subseteq Out(r))
    <3> SUFFICES ASSUME Offenders(r, Registered[r]) \subseteq Out(r) PROVE FALSE
      OBVIOUS
    <3>1. Cardinality(Valid(r)) >= MinCount
      BY <2>1, ValidCount
    <3> QED
      BY <2>1, <3>1, ResultFields
  <2>3. PICK a \in Offenders(r, Registered[r]) : a \notin Out(r)
    BY <2>2
  <2> QED
    BY <2>3 DEF Offenders, Committed, FailedToReveal, Out
<1> QED
  BY <1>1, SpecIInv, PTL

(* What a secure random will be is settled when its voting epoch ends, before *)
(* the first of its numbers is revealed (ExtractCommits, ExtractReveals).     *)
THEOREM RandomSettledBeforeReveals == Spec => SettledBeforeReveals
<1> DEFINE Settled == \A r \in BenchingWindow .. LastRound : epoch > r => Target(r)' = Target(r)
<1>1. ASSUME IInv, [Next]_vars PROVE [Settled]_vars
  <2> SUFFICES ASSUME Next, NEW r \in BenchingWindow .. LastRound, epoch > r PROVE Target(r)' = Target(r)
    BY <1>1
  <2> USE <1>1
  <2>1. r \in Round /\ r \in Int /\ epoch \in Int /\ commits \in Submitted /\ reveals \in Submitted
    BY Constants DEF IInv, TypeOK
  <2>2. commits'[r] = commits[r] /\ \A q \in Round : q < r => commits'[q] = commits[q] /\ reveals'[q] = reveals[q]
    <3>1. ASSUME NEW a \in Accounts, NEW number \in Random, Submit1(a, number)
          PROVE  \A q \in Round : q <= r => commits'[q] = commits[q] /\ reveals'[q] = reveals[q]
      BY <2>1, <3>1, Constants DEF Submit1, Submitted
    <3>2. ASSUME NEW a \in Accounts, NEW number \in Random, Submit2(a, number)
          PROVE  commits' = commits /\ \A q \in Round : q < r => reveals'[q] = reveals[q]
      BY <2>1, <3>2, Constants DEF Submit2, Submitted
    <3>3. ASSUME PassDeadline \/ NextEpoch \/ GetRoundReveals \/ \E q \in Round : CalculateRandom(q)
          PROVE  UNCHANGED <<commits, reveals>>
      BY <3>3 DEF PassDeadline, NextEpoch, GetRoundReveals, CalculateRandom
    <3> QED
      BY <2>1, <3>1, <3>2, <3>3 DEF Next
  <2>3. Out(r)' = Out(r)
    BY <2>2 DEF Out, FailedToReveal
  <2> QED
    BY <2>2, <2>3 DEF Target, Committed
<1>2. Spec => [][Settled]_vars
  BY <1>1, SpecIInv, PTL DEF Spec
<1> QED
  BY <1>2 DEF SettledBeforeReveals
-----------------------------------------------------------------------------
(* The minimal conditions: what a voter has of each count and what it missed  *)
(* make up what there was to have so far.                                    *)
CountsOK ==
  /\ component \in {"ftso", "fu", "fdc", "done", "fatal"} /\ round \in 0 .. Rounds
  /\ component = "done" => round = Rounds
  /\ missed \in [Voters -> [values : Nat, rounds : Nat]]
  /\ voterUpdates \in [Submitters -> Nat] /\ totalRewardedRounds \in Nat
  /\ DOMAIN voterHits \subseteq Voters /\ \A v \in DOMAIN voterHits : voterHits[v] \in Nat
  /\ \A v \in DOMAIN rewardedRounds : rewardedRounds[v] \in Nat

FtsoRounds == IF component = "ftso" THEN round ELSE Rounds
ValuesCounted == \A v \in Voters : Count(voterHits, v) + missed[v].values = FtsoRounds * Feeds
RoundsCounted ==
  \A v \in Voters :
    /\ v \in Charging => Count(rewardedRounds, v) + missed[v].rounds = totalRewardedRounds
    /\ v \notin Charging => v \notin DOMAIN rewardedRounds

ConditionsInv == CountsOK /\ ValuesCounted /\ RoundsCounted /\ SpotlessGainsPass /\ AbsenceCostsPass

LEMMA ConditionsConstants ==
  /\ Rounds \in Nat /\ Rounds > 0 /\ Feeds \in Nat /\ Feeds > 0 /\ IsFiniteSet(Voters)
  /\ IsFiniteSet(Submitters) /\ Voters \subseteq Submitters
  /\ TotalPpm \in Nat /\ TotalPpm > 0
  /\ FtsoThreshold \in 0 .. TotalPpm /\ FuThreshold \in 0 .. TotalPpm
  /\ FdcThreshold \in 0 .. TotalPpm /\ UptimeThreshold \in 0 .. TotalPpm
  /\ \A v \in Voters : Weight[v] \in Nat
  /\ TotalWeight \in Nat /\ TotalWeight > 0
<1>1. IsFiniteSet(Voters) /\ \A v \in Voters : Weight[v] \in Nat
  BY EpochAssumption
<1>2. TotalWeight \in Nat /\ \A v \in Voters : Weight[v] <= TotalWeight
  BY <1>1, SumNat DEF TotalWeight
<1>3. PICK v \in Voters : Weight[v] > 0
  BY EpochAssumption
<1>4. TotalWeight > 0
  BY <1>1, <1>2, <1>3
<1>5. IsFiniteSet(Submitters) /\ Voters \subseteq Submitters
  BY EpochAssumption, FS_Union DEF Submitters
<1> QED
  BY <1>1, <1>2, <1>4, <1>5, EpochAssumption, PpmAssumption

(* Who has its part of what there was missed no more than the rest.          *)
LEMMA RestIsMissed ==
  ASSUME NEW p \in Nat, NEW t \in Nat, NEW has \in Nat, NEW misses \in Nat, NEW all \in Nat,
         has + misses = all, p * has >= t * all
  PROVE  p * misses <= (p - t) * all
<1>1. p * all = p * has + p * misses
  BY has + misses = all
<1>2. (p - t) * all = p * all - t * all
  OBVIOUS
<1>3. p * all \in Nat /\ p * has \in Nat /\ p * misses \in Nat /\ t * all \in Nat
  OBVIOUS
<1> QED
  BY <1>1, <1>2, <1>3

LEMMA InitConditionsInv == ConditionsInit => ConditionsInv
BY ConditionsConstants DEF ConditionsInit, ConditionsInv, CountsOK, ValuesCounted, RoundsCounted, FtsoRounds, Count, Nobody, Nothing,
     SpotlessGainsPass, AbsenceCostsPass

(* Neither property is about an epoch that is still counted.                 *)
LEMMA NotDecided ==
  ASSUME component' # "done"
  PROVE  SpotlessGainsPass' /\ AbsenceCostsPass'
BY DEF SpotlessGainsPass, AbsenceCostsPass

LEMMA FtsoRoundKeeps ==
  ASSUME ConditionsInv, NEW hits \in [Voters -> 0 .. Feeds], FtsoRound(hits)
  PROVE  ConditionsInv'
<1> USE ConditionsConstants
<1>1. /\ component = "ftso" /\ component' = "ftso" /\ round < Rounds /\ round' = round + 1
      /\ voterHits' = [v \in DOMAIN voterHits \cup {v \in Voters : hits[v] > 0} |-> Count(voterHits, v) + hits[v]]
      /\ missed' = [v \in Voters |-> [missed[v] EXCEPT !.values = @ + (Feeds - hits[v])]]
      /\ UNCHANGED <<voterUpdates, rewardedRounds, totalRewardedRounds>>
  BY DEF FtsoRound
<1>2. CountsOK /\ ValuesCounted /\ RoundsCounted
  BY DEF ConditionsInv
<1>3. \A v : Count(voterHits, v) \in Nat
  BY <1>2 DEF CountsOK, Count
<1>4. \A v \in Voters : /\ missed[v] \in [values : Nat, rounds : Nat] /\ hits[v] \in 0 .. Feeds
                        /\ missed'[v].values = missed[v].values + (Feeds - hits[v])
                        /\ missed'[v].rounds = missed[v].rounds
  BY <1>1, <1>2 DEF CountsOK
<1>5. CountsOK'
  <2>1. missed' \in [Voters -> [values : Nat, rounds : Nat]]
    BY <1>1, <1>4
  <2> QED
    BY <1>1, <1>2, <1>3, <2>1 DEF CountsOK
<1>6. ValuesCounted'
  <2> SUFFICES ASSUME NEW v \in Voters
               PROVE  Count(voterHits, v)' + missed'[v].values = (round + 1) * Feeds
    BY <1>1 DEF ValuesCounted, FtsoRounds
  <2>1. Count(voterHits, v) + missed[v].values = round * Feeds
    BY <1>1, <1>2 DEF ValuesCounted, FtsoRounds
  <2>2. Count(voterHits, v)' = Count(voterHits, v) + hits[v]
    BY <1>1, <1>4 DEF Count
  <2>3. (round + 1) * Feeds = round * Feeds + Feeds /\ round * Feeds \in Nat
    BY <1>2 DEF CountsOK
  <2> QED
    BY <1>3, <1>4, <2>1, <2>2, <2>3
<1>7. RoundsCounted'
  BY <1>1, <1>2, <1>4 DEF RoundsCounted, Count
<1> QED
  BY <1>1, <1>5, <1>6, <1>7, NotDecided DEF ConditionsInv

LEMMA FdcRoundKeeps ==
  ASSUME ConditionsInv, NEW earned \in SUBSET Voters, NEW offenders \in SUBSET Voters, FdcRound(earned, offenders)
  PROVE  ConditionsInv'
<1> USE ConditionsConstants
<1> DEFINE eligible == Rewarded(earned, offenders)
           one == IF earned \cap Charging # {} THEN 1 ELSE 0
           lost(v) == IF v \in earned \ offenders THEN 0 ELSE one
<1>1. /\ component = "fdc" /\ component' = "fdc" /\ round < Rounds /\ round' = round + 1
      /\ rewardedRounds' = [v \in DOMAIN rewardedRounds \cup eligible |->
                              Count(rewardedRounds, v) + (IF v \in eligible THEN 1 ELSE 0)]
      /\ totalRewardedRounds' = totalRewardedRounds + one
      /\ missed' = [v \in Voters |-> [missed[v] EXCEPT !.rounds = @ + lost(v)]]
      /\ UNCHANGED <<voterHits, voterUpdates>>
  BY DEF FdcRound
<1>2. CountsOK /\ ValuesCounted /\ RoundsCounted
  BY DEF ConditionsInv
<1>3. \A v : Count(rewardedRounds, v) \in Nat
  BY <1>2 DEF CountsOK, Count
<1>4. one \in Nat /\ \A v : lost(v) \in Nat
  OBVIOUS
<1>5. \A v \in Voters : /\ missed[v] \in [values : Nat, rounds : Nat]
                        /\ missed'[v].values = missed[v].values
                        /\ missed'[v].rounds = missed[v].rounds + lost(v)
  <2> HIDE DEF lost
  <2> QED
    BY <1>1, <1>2 DEF CountsOK
<1>6. CountsOK'
  <2> HIDE DEF lost, one, eligible
  <2>1. missed' \in [Voters -> [values : Nat, rounds : Nat]]
    <3>1. missed' = [v \in Voters |-> [missed[v] EXCEPT !.rounds = missed[v].rounds + lost(v)]]
      BY <1>1
    <3>2. ASSUME NEW v \in Voters
          PROVE  [missed[v] EXCEPT !.rounds = missed[v].rounds + lost(v)] \in [values : Nat, rounds : Nat]
      BY ONLY <3>2, <1>4, <1>5
    <3> QED
      BY ONLY <3>1, <3>2
  <2>2. \A v \in DOMAIN rewardedRounds' : rewardedRounds'[v] \in Nat
    BY <1>1, <1>3
  <2>3. totalRewardedRounds' \in Nat /\ round' \in 0 .. Rounds
    BY <1>1, <1>2, <1>4 DEF CountsOK
  <2>4. /\ DOMAIN voterHits' \subseteq Voters /\ \A v \in DOMAIN voterHits' : voterHits'[v] \in Nat
        /\ voterUpdates' \in [Submitters -> Nat]
    BY <1>1, <1>2 DEF CountsOK
  <2> QED
    BY ONLY <1>1, <2>1, <2>2, <2>3, <2>4 DEF CountsOK
<1>7. ValuesCounted'
  BY <1>1, <1>2, <1>5 DEF ValuesCounted, FtsoRounds, Count
<1>8. RoundsCounted'
  <2> SUFFICES ASSUME NEW v \in Voters
               PROVE  /\ v \in Charging =>
                           Count(rewardedRounds, v)' + missed'[v].rounds = totalRewardedRounds'
                      /\ v \notin Charging => v \notin DOMAIN rewardedRounds'
    BY DEF RoundsCounted
  <2>1. v \in eligible <=> v \in Charging /\ v \in earned \ offenders
    BY DEF Rewarded
  <2>2. v \in Charging /\ v \in earned => one = 1
    OBVIOUS
  <2>3. Count(rewardedRounds, v)' = Count(rewardedRounds, v) + (IF v \in eligible THEN 1 ELSE 0)
    BY <1>1, <1>3 DEF Count
  <2>4. v \in Charging => lost(v) + (IF v \in eligible THEN 1 ELSE 0) = one
    BY <2>1, <2>2, <1>4
  <2>5. v \in Charging => Count(rewardedRounds, v) + missed[v].rounds = totalRewardedRounds
    BY <1>2 DEF RoundsCounted
  <2>6. v \notin Charging => v \notin DOMAIN rewardedRounds'
    BY <1>1, <1>2, <2>1 DEF RoundsCounted
  <2> DEFINE gain == IF v \in eligible THEN 1 ELSE 0
  <2>7. gain \in Nat
    OBVIOUS
  <2>8. /\ totalRewardedRounds \in Nat /\ missed[v].rounds \in Nat /\ Count(rewardedRounds, v) \in Nat
        /\ lost(v) \in Nat
    BY <1>2, <1>3, <1>4, <1>5 DEF CountsOK
  <2> HIDE DEF lost, one, eligible, gain
  <2>9. Count(rewardedRounds, v)' = Count(rewardedRounds, v) + gain /\ (v \in Charging => lost(v) + gain = one)
    BY <2>3, <2>4 DEF gain
  <2>10. missed'[v].rounds = missed[v].rounds + lost(v) /\ totalRewardedRounds' = totalRewardedRounds + one
    BY <1>1, <1>5
  <2> QED
    BY <2>5, <2>6, <2>7, <2>8, <2>9, <2>10, <1>4
<1> QED
  BY <1>1, <1>6, <1>7, <1>8, NotDecided DEF ConditionsInv

LEMMA CountingKeeps ==
  ASSUME ConditionsInv,
         \/ \E updates \in [Submitters -> 0 .. MaxUpdates] : FuRound(updates)
         \/ FdcBurned \/ PhaseDone \/ FetchFails
  PROVE  ConditionsInv'
<1> USE ConditionsConstants
<1>1. CountsOK /\ ValuesCounted /\ RoundsCounted
  BY DEF ConditionsInv
<1>2. UNCHANGED <<voterHits, rewardedRounds, totalRewardedRounds, missed>> /\ FtsoRounds' = FtsoRounds
  BY DEF FuRound, FdcBurned, PhaseDone, FetchFails, counts, FtsoRounds
<1>3. component' \in {"ftso", "fu", "fdc", "fatal"} /\ round' \in 0 .. Rounds
  BY <1>1 DEF FuRound, FdcBurned, PhaseDone, FetchFails, counts, CountsOK
<1>4. voterUpdates' \in [Submitters -> Nat]
  <2>1. CASE \E updates \in [Submitters -> 0 .. MaxUpdates] : FuRound(updates)
    BY <1>1, <2>1, EpochAssumption DEF FuRound, CountsOK
  <2>2. CASE FdcBurned \/ PhaseDone \/ FetchFails
    BY <1>1, <2>2 DEF FdcBurned, PhaseDone, FetchFails, counts, CountsOK
  <2> QED
    BY <2>1, <2>2
<1>5. CountsOK' /\ ValuesCounted' /\ RoundsCounted'
  BY <1>1, <1>2, <1>3, <1>4 DEF CountsOK, ValuesCounted, RoundsCounted, Count
<1> QED
  BY <1>3, <1>5, NotDecided DEF ConditionsInv

(* What a spotless voter has in each component is enough.                    *)
LEMMA SpotlessMetsFtsoAndFdc ==
  ASSUME CountsOK, ValuesCounted, RoundsCounted, component # "ftso", totalRewardedRounds > 0,
         NEW v \in Voters, v \in Charging, missed[v] = Nothing
  PROVE  v \in MetFtso /\ v \in MetFdc
<1> USE ConditionsConstants
<1>1. v \in DOMAIN voterHits /\ voterHits[v] = Rounds * Feeds
  <2>1. Count(voterHits, v) + 0 = Rounds * Feeds
    BY DEF ValuesCounted, FtsoRounds, Nothing
  <2>2. Rounds * Feeds > 0
    OBVIOUS
  <2> QED
    BY <2>1, <2>2 DEF Count, CountsOK
<1>2. FtsoThreshold * (Rounds * Feeds) <= TotalPpm * (Rounds * Feeds)
  BY MulMono
<1>3. v \in MetFtso
  BY <1>1, <1>2 DEF MetFtso
<1>4. v \in DOMAIN rewardedRounds /\ rewardedRounds[v] = totalRewardedRounds
  <2>1. Count(rewardedRounds, v) + 0 = totalRewardedRounds
    BY DEF RoundsCounted, Nothing
  <2> QED
    BY <2>1 DEF Count, CountsOK
<1>5. totalRewardedRounds \in Nat
  BY DEF CountsOK
<1>6. FdcThreshold * totalRewardedRounds <= TotalPpm * totalRewardedRounds
  BY <1>5, MulMono
<1>7. rewardedRounds[v] * TotalPpm >= FdcThreshold * totalRewardedRounds
  BY <1>4, <1>5, <1>6
<1> QED
  BY <1>3, <1>4, <1>7 DEF MetFdc

LEMMA PartOfUpdatesMeets ==
  ASSUME CountsOK, NEW v \in Voters, voterUpdates[v] * TotalWeight >= TotalUpdates * Weight[v]
  PROVE  v \in MetFU
<1> USE ConditionsConstants
<1> DEFINE u == voterUpdates[v]
           all == TotalUpdates
           w == Weight[v]
           q == (w * FuThreshold) \div TotalWeight
<1>1. u \in Nat /\ all \in Nat /\ w \in Nat
  BY SumNat DEF CountsOK, TotalUpdates
<1>2. w * FuThreshold \in Nat
  BY <1>1
<1>3. q \in Nat /\ q * TotalWeight <= w * FuThreshold
  BY <1>2, DivDef
<1> HIDE DEF q, u, all, w
<1>4. u * TotalWeight >= all * w
  BY DEF u, all, w
<1>5. (q * all) * TotalWeight <= (w * FuThreshold) * all
  <2>1. (q * TotalWeight) * all <= (w * FuThreshold) * all
    BY <1>1, <1>2, <1>3, MulMono
  <2> QED
    BY <1>1, <1>3, <2>1
<1>6. (w * FuThreshold) * all <= (TotalPpm * u) * TotalWeight
  <2>1. (all * w) * FuThreshold <= (u * TotalWeight) * FuThreshold
    BY <1>1, <1>4, MulMono
  <2>2. FuThreshold * (u * TotalWeight) <= TotalPpm * (u * TotalWeight)
    BY <1>1, MulMono
  <2>3. (w * FuThreshold) * all = (all * w) * FuThreshold
    BY <1>1
  <2>4. (u * TotalWeight) * FuThreshold = FuThreshold * (u * TotalWeight)
        /\ TotalPpm * (u * TotalWeight) = (TotalPpm * u) * TotalWeight
    BY <1>1
  <2> QED
    BY <1>1, <2>1, <2>2, <2>3, <2>4
<1>7. q * all <= TotalPpm * u
  BY <1>1, <1>3, <1>5, <1>6, MulCancel
<1>8. voterUpdates[v] * TotalPpm >= q * TotalUpdates
  BY <1>1, <1>7 DEF u, all
<1> QED
  BY <1>8 DEF MetFU, q, w

(* Nodes that all have what is desired meet the staking condition in full.   *)
LEMMA FullNodesMeet ==
  ASSUME NEW list \in NodeLists, list # <<>>,
         \A n \in DOMAIN list : /\ list[n].uptime
                                 /\ list[n].selfBond >= MinDesiredSelfBond /\ list[n].stake >= MinDesiredStake
  PROVE  StakingCondition(list) = "Met"
<1> USE ConditionsConstants
<1> DEFINE withUptime == [n \in DOMAIN list |-> IF list[n].uptime THEN list[n].stake ELSE 0]
           stake == [n \in DOMAIN list |-> list[n].stake]
           selfBond == [n \in DOMAIN list |-> list[n].selfBond]
           D == 1 .. Len(list)
<1>1. /\ DOMAIN list = D /\ Len(list) \in Nat /\ 1 \in D
      /\ \A n \in D : list[n] \in Validator
  <2>1. list \in Seq(Validator)
    BY StakingAssumption
  <2>2. DOMAIN list = D /\ Len(list) \in Nat
    BY <2>1
  <2>3. \A n \in D : list[n] \in Validator
    BY <2>1
  <2>4. Len(list) # 0
    BY <2>1, EmptySeq
  <2> QED
    BY <2>2, <2>3, <2>4
<1>2. /\ MinSelfBond \in Nat /\ MinDesiredSelfBond \in Nat /\ MinDesiredStake \in Nat
      /\ MinSelfBond <= MinDesiredSelfBond
  BY StakingAssumption
<1>3. withUptime = stake
  BY <1>1
<1>4. /\ stake \in Seq(Int) /\ Len(stake) = Len(list) /\ \A n \in D : stake[n] \in Nat
      /\ selfBond \in Seq(Int) /\ Len(selfBond) = Len(list) /\ \A n \in D : selfBond[n] \in Nat
      /\ stake[1] >= MinDesiredStake /\ selfBond[1] >= MinDesiredSelfBond
  BY <1>1 DEF Validator
<1> HIDE DEF stake, selfBond
<1>5. IsFiniteSet(D)
  BY <1>1, 1 \in Int, Len(list) \in Int, FS_Interval
<1>6. /\ SumOf(stake) = SumFunctionOnSet(stake, D) /\ SumOf(selfBond) = SumFunctionOnSet(selfBond, D)
  BY <1>4, SumOfIsSum
<1>7. /\ SumOf(stake) \in Nat /\ SumOf(stake) >= stake[1]
      /\ SumOf(selfBond) \in Nat /\ SumOf(selfBond) >= selfBond[1]
  <2> HIDE DEF D
  <2>1. SumFunctionOnSet(stake, D) \in Nat /\ \A n \in D : stake[n] <= SumFunctionOnSet(stake, D)
    BY <1>4, <1>5, SumNat
  <2>2. SumFunctionOnSet(selfBond, D) \in Nat /\ \A n \in D : selfBond[n] <= SumFunctionOnSet(selfBond, D)
    BY <1>4, <1>5, SumNat
  <2>3. 1 \in D /\ stake[1] \in Nat /\ selfBond[1] \in Nat
    BY <1>1, <1>4
  <2> QED
    BY <1>6, <2>1, <2>2, <2>3
<1>8. SumOf(stake) >= MinDesiredStake /\ SumOf(selfBond) >= MinDesiredSelfBond /\ SumOf(selfBond) >= MinSelfBond
  BY <1>1, <1>2, <1>4, <1>7
<1>9. TotalPpm * SumOf(stake) >= UptimeThreshold * SumOf(stake)
  BY <1>7, MulMono
<1>10. ~(SumOf(selfBond) < MinDesiredSelfBond \/ SumOf(stake) < MinDesiredStake)
  BY <1>2, <1>7, <1>8
<1> DEFINE bond == SumOf(selfBond)
           staked == SumOf(stake)
<1>11. StakingCondition(list) =
         CASE ~(TotalPpm * staked >= UptimeThreshold * staked /\ bond >= MinSelfBond) -> "NotMet"
           [] bond < MinDesiredSelfBond \/ staked < MinDesiredStake -> "MetNoPass"
           [] OTHER -> "Met"
  BY <1>3 DEF StakingCondition, stake, selfBond
<1> QED
  BY <1>8, <1>9, <1>10, <1>11

LEMMA CalcConditionsKeeps ==
  ASSUME ConditionsInv, CalcConditions
  PROVE  ConditionsInv'
<1> USE ConditionsConstants
<1>1. CountsOK /\ ValuesCounted /\ RoundsCounted
  BY DEF ConditionsInv
<1>2. /\ component = "fdc" /\ component' = "done" /\ round = Rounds
      /\ UNCHANGED <<network, round, voterHits, voterUpdates, rewardedRounds, totalRewardedRounds, missed>>
      /\ nodes' \in [Voters -> NodeLists]
      /\ passDelta' = [v \in Voters |-> IF Unmet(v) = 0 /\ Staking(v) = "Met" THEN 1 ELSE -Unmet(v)]
  BY DEF CalcConditions, counts
<1>3. CountsOK' /\ ValuesCounted' /\ RoundsCounted'
  BY <1>1, <1>2 DEF CountsOK, ValuesCounted, RoundsCounted, FtsoRounds, Count
<1> DEFINE failed(v) == {c \in {"fu", "ftso", "fdc", "staking"} :
                 \/ c = "fu" /\ v \notin MetFU
                 \/ c = "ftso" /\ v \notin MetFtso
                 \/ c = "fdc" /\ v \notin MetFdc
                 \/ c = "staking" /\ Staking(v) = "NotMet"}
<1>4. \A v : Unmet(v) = Cardinality(failed(v)) /\ IsFiniteSet(failed(v)) /\ Cardinality(failed(v)) \in Nat
  <2> TAKE v
  <2>1. IsFiniteSet({"fu", "ftso", "fdc", "staking"})
    <3>1. IsFiniteSet({"fu"})
      BY FS_Singleton
    <3>2. IsFiniteSet({"fu", "ftso"})
      BY <3>1, FS_AddElement, {"fu", "ftso"} = {"fu"} \cup {"ftso"}
    <3>3. IsFiniteSet({"fu", "ftso", "fdc"})
      BY <3>2, FS_AddElement, {"fu", "ftso", "fdc"} = {"fu", "ftso"} \cup {"fdc"}
    <3> QED
      BY <3>3, FS_AddElement, {"fu", "ftso", "fdc", "staking"} = {"fu", "ftso", "fdc"} \cup {"staking"}
  <2>2. IsFiniteSet(failed(v))
    BY <2>1, FS_Subset
  <2> QED
    BY <2>2, FS_CardinalityType DEF Unmet
<1>5. \A v : Unmet(v) = 0 <=> v \in MetFU /\ v \in MetFtso /\ v \in MetFdc /\ Staking(v) # "NotMet"
  <2> TAKE v
  <2>1. Unmet(v) = 0 <=> failed(v) = {}
    BY <1>4, FS_EmptySet
  <2>2. failed(v) = {} <=> ~("fu" \in failed(v) \/ "ftso" \in failed(v) \/ "fdc" \in failed(v) \/ "staking" \in failed(v))
    OBVIOUS
  <2> QED
    BY <2>1, <2>2
<1> HIDE DEF failed
<1>6. AbsenceCostsPass'
  <2> SUFFICES ASSUME NEW v \in Voters, passDelta'[v] > 0
               PROVE  /\ TotalPpm * missed[v].values <= (TotalPpm - FtsoThreshold) * (Rounds * Feeds)
                      /\ TotalPpm * missed[v].rounds <= (TotalPpm - FdcThreshold) * totalRewardedRounds
    BY <1>2 DEF AbsenceCostsPass
  <2>1. Unmet(v) = 0
    BY <1>2, <1>4
  <2>2. /\ v \in DOMAIN voterHits /\ TotalPpm * voterHits[v] >= FtsoThreshold * Rounds * Feeds
        /\ v \in DOMAIN rewardedRounds /\ rewardedRounds[v] * TotalPpm >= FdcThreshold * totalRewardedRounds
    BY <1>5, <2>1 DEF MetFtso, MetFdc
  <2>3. /\ voterHits[v] \in Nat /\ rewardedRounds[v] \in Nat /\ totalRewardedRounds \in Nat
        /\ missed[v].values \in Nat /\ missed[v].rounds \in Nat
    BY <1>1, <2>2 DEF CountsOK
  <2>4. voterHits[v] + missed[v].values = Rounds * Feeds
    BY <1>1, <1>2, <2>2 DEF ValuesCounted, FtsoRounds, Count
  <2>5. rewardedRounds[v] + missed[v].rounds = totalRewardedRounds
    BY <1>1, <2>2 DEF RoundsCounted, Count
  <2>6. TotalPpm * voterHits[v] >= FtsoThreshold * (Rounds * Feeds) /\ Rounds * Feeds \in Nat
    BY <2>2, <2>3
  <2>7. TotalPpm * rewardedRounds[v] >= FdcThreshold * totalRewardedRounds
    BY <2>2, <2>3
  <2>8. TotalPpm \in Nat /\ FtsoThreshold \in Nat /\ FdcThreshold \in Nat
    OBVIOUS
  <2>9. TotalPpm * missed[v].values <= (TotalPpm - FtsoThreshold) * (Rounds * Feeds)
    BY <2>3, <2>4, <2>6, <2>8, RestIsMissed
  <2>10. TotalPpm * missed[v].rounds <= (TotalPpm - FdcThreshold) * totalRewardedRounds
    BY <2>3, <2>5, <2>7, <2>8, RestIsMissed
  <2> QED
    BY <2>9, <2>10
<1>7. SpotlessGainsPass'
  <2> SUFFICES ASSUME totalRewardedRounds > 0, NEW v \in Voters, v \in Charging, missed[v] = Nothing,
                      voterUpdates[v] * TotalWeight >= TotalUpdates * Weight[v], FullStake(v)'
               PROVE  passDelta'[v] = 1
    <3>1. TotalWeight' = TotalWeight /\ TotalUpdates' = TotalUpdates
      BY <1>2 DEF TotalWeight, TotalUpdates
    <3> QED
      BY <1>2, <3>1 DEF SpotlessGainsPass
  <2>1. v \in MetFtso /\ v \in MetFdc
    BY <1>1, <1>2, SpotlessMetsFtsoAndFdc
  <2>2. v \in MetFU
    BY <1>1, PartOfUpdatesMeets
  <2>3. Staking(v) = "Met"
    <3>1. CASE network # "flare"
      BY <3>1 DEF Staking
    <3>2. CASE network = "flare"
      <4>1. /\ nodes'[v] \in NodeLists /\ nodes'[v] # <<>>
            /\ \A n \in DOMAIN nodes'[v] :
                 nodes'[v][n].uptime /\ nodes'[v][n].selfBond >= MinDesiredSelfBond /\ nodes'[v][n].stake >= MinDesiredStake
        BY <1>2, <3>2 DEF FullStake
      <4> QED
        BY <3>2, <4>1, FullNodesMeet DEF Staking
    <3> QED
      BY <3>1, <3>2
  <2>4. Unmet(v) = 0
    BY <1>5, <2>1, <2>2, <2>3
  <2> QED
    BY <1>2, <2>3, <2>4
<1> QED
  BY <1>3, <1>6, <1>7 DEF ConditionsInv

LEMMA NextConditionsInv == ConditionsInv /\ [ConditionsNext]_conditionsVars => ConditionsInv'
<1> SUFFICES ASSUME ConditionsInv, [ConditionsNext]_conditionsVars
             PROVE  ConditionsInv'
  OBVIOUS
<1>1. CASE UNCHANGED conditionsVars
  <2>1. TotalWeight' = TotalWeight /\ TotalUpdates' = TotalUpdates
    BY <1>1 DEF conditionsVars, counts, TotalWeight, TotalUpdates
  <2> QED
    BY <1>1, <2>1 DEF conditionsVars, counts, ConditionsInv, CountsOK, ValuesCounted, RoundsCounted, FtsoRounds, Count,
         SpotlessGainsPass, AbsenceCostsPass, FullStake
<1>2. CASE \E hits \in [Voters -> 0 .. Feeds] : FtsoRound(hits)
  BY <1>2, FtsoRoundKeeps
<1>3. CASE \E earned, offenders \in SUBSET Voters : FdcRound(earned, offenders)
  BY <1>3, FdcRoundKeeps
<1>4. CASE \E updates \in [Submitters -> 0 .. MaxUpdates] : FuRound(updates)
  BY <1>4, CountingKeeps
<1>5. CASE FdcBurned \/ PhaseDone \/ FetchFails
  BY <1>5, CountingKeeps
<1>6. CASE CalcConditions
  BY <1>6, CalcConditionsKeeps
<1> QED
  BY <1>1, <1>2, <1>3, <1>4, <1>5, <1>6 DEF ConditionsNext

LEMMA SpecConditionsInv == ConditionsSpec => []ConditionsInv
BY InitConditionsInv, NextConditionsInv, PTL DEF ConditionsSpec

(* A voter that hit every value and was rewarded without a penalty in every   *)
(* FDC round that was finalized meets the conditions that metFtsoCondition    *)
(* and metFDCCondition count for it, with its part of the fast updates that   *)
(* of metFUCondition, and with full stakes it gains a pass (calcConditions):  *)
(* no rounding of a threshold takes it from it.                              *)
THEOREM SpotlessVoterGainsPass == ConditionsSpec => []SpotlessGainsPass
<1>1. ConditionsInv => SpotlessGainsPass
  BY DEF ConditionsInv
<1> QED
  BY <1>1, SpecConditionsInv, PTL

(* calcConditions gives a pass only to a voter that missed no more than the    *)
(* thresholds of metFtsoCondition and metFDCCondition leave it: the counts of  *)
(* values and of rewarded rounds lose no round it was absent from, nor one     *)
(* that updateCond took away from it for an offence.                          *)
THEOREM AbsenceIsPaidFor == ConditionsSpec => []AbsenceCostsPass
<1>1. ConditionsInv => AbsenceCostsPass
  BY DEF ConditionsInv
<1> QED
  BY <1>1, SpecConditionsInv, PTL
=============================================================================
