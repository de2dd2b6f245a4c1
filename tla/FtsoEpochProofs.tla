--------------------------- MODULE FtsoEpochProofs ---------------------------
(***************************************************************************)
(* The layout of the FTSO funds over the rounds of a reward epoch, for       *)
(* epochs and look-ahead windows of every length, all funds and every set   *)
(* of rounds with a secure random.                                          *)
(***************************************************************************)
EXTENDS FtsoEpoch, FoldLemmas

TypeOK ==
  /\ secure \subseteq StartRound .. WindowEnd
  /\ totalReward \in Nat
  /\ phase \in {"select", "ahead", "reward", "claim", "done", "fatal"}
  /\ round \in StartRound .. WindowEnd + 1
  /\ randoms \in Seq(Nat)
  /\ claimed \in Nat

(* The rounds that have a random so far have the first secure one after      *)
(* them, and after the last of these there is none up to the loop's round.   *)
DrawnSoFar ==
  phase \in {"select", "ahead"} =>
    /\ phase = "select" => round \in StartRound + 1 .. EndRound + 1
    /\ phase = "ahead" => round \in EndRound + 1 .. WindowEnd + 1
    /\ Len(randoms) <= round - StartRound - 1 /\ Len(randoms) < totalRounds
    /\ \A n \in 1 .. Len(randoms) : randoms[n] = FirstSecureAfter(StartRound + n - 1)
    /\ \A s \in secure : ~(StartRound + Len(randoms) < s /\ s < round)

(* The equal parts of n rounds: the first ones have the remainder.           *)
PartsOf(total, n) ==
  n * (total \div totalRounds) + (IF n < total % totalRounds THEN n ELSE total % totalRounds)

ClaimedSoFar ==
  /\ phase \in {"select", "ahead", "reward"} => claimed = 0
  /\ phase \in {"claim", "done", "fatal"} =>
       /\ round \in StartRound .. EndRound + 1
       /\ \A r \in Round : roundRewards[r].Amount = RoundAmount(totalReward, r)
       /\ claimed = PartsOf(totalReward, round - StartRound)
  /\ phase = "done" => round = EndRound + 1

IInv == TypeOK /\ DrawnSoFar /\ FeedDrawnByNextSecure /\ ClaimedSoFar
-----------------------------------------------------------------------------
LEMMA Constants ==
  /\ StartRound \in Nat /\ EndRound \in Nat /\ WindowEnd \in Nat
  /\ StartRound <= EndRound /\ EndRound <= WindowEnd
  /\ totalRounds \in Nat /\ totalRounds > 0 /\ totalRounds = EndRound - StartRound + 1
BY RoundsAssumption DEF totalRounds

(* A further round's part is the next of the equal parts.                    *)
LEMMA PartsOfStep ==
  ASSUME NEW total \in Nat, NEW r \in Round
  PROVE  /\ RoundAmount(total, r) \in Nat
         /\ PartsOf(total, r - StartRound) \in Nat
         /\ PartsOf(total, r + 1 - StartRound) = PartsOf(total, r - StartRound) + RoundAmount(total, r)
         /\ PartsOf(total, 0) = 0
         /\ PartsOf(total, totalRounds) = total
<1> DEFINE q == total \div totalRounds   m == total % totalRounds   n == r - StartRound
<1>1. q \in Nat /\ m \in 0 .. totalRounds - 1 /\ total = totalRounds * q + m
  BY Constants, ModDef
<1>2. n \in Nat /\ r + 1 - StartRound = n + 1
  BY Constants DEF Round
<1>3. RoundAmount(total, r) = q + (IF n < m THEN 1 ELSE 0)
  BY DEF RoundAmount, EqualPart
<1>4. \A k \in Nat : PartsOf(total, k) = k * q + (IF k < m THEN k ELSE m)
  BY DEF PartsOf
<1> HIDE DEF q, m, n
<1>5. (n + 1) * q = n * q + q /\ 0 * q = 0 /\ n * q \in Nat
  BY <1>1, <1>2, SMT
<1>6. PartsOf(total, n + 1) = (n + 1) * q + (IF n + 1 < m THEN n + 1 ELSE m)
      /\ PartsOf(total, n) = n * q + (IF n < m THEN n ELSE m)
  BY <1>2, <1>4
<1>7. PartsOf(total, 0) = 0 * q + (IF 0 < m THEN 0 ELSE m)
      /\ PartsOf(total, totalRounds) = totalRounds * q + m
  <2>1. 0 \in Nat /\ totalRounds \in Nat /\ ~(totalRounds < m)
    BY <1>1, Constants
  <2> QED
    BY <1>4, <2>1
<1>8. m \in Nat
  BY <1>1
<1>9. PartsOf(total, n + 1) = PartsOf(total, n) + RoundAmount(total, r)
  BY <1>1, <1>2, <1>3, <1>5, <1>6, <1>8
<1>10. RoundAmount(total, r) \in Nat /\ PartsOf(total, n) \in Nat
  BY <1>1, <1>2, <1>3, <1>5, <1>6, <1>8
<1>11. PartsOf(total, 0) = 0 /\ PartsOf(total, totalRounds) = total
  BY <1>1, <1>5, <1>7, <1>8
<1> QED
  BY <1>2, <1>9, <1>10, <1>11 DEF n

(* The three parts of a round's reward are all of it. *)
LEMMA PartsOfRound ==
  ASSUME NEW amount \in Nat
  PROVE  /\ MedianReward(amount) + SigningReward(amount) + FinalizationReward(amount) = amount
         /\ MedianReward(amount) \in Int /\ SigningReward(amount) \in Int /\ FinalizationReward(amount) \in Int
<1>1. amount * SigningBips \in Nat /\ amount * FinalizationBips \in Nat
  BY BipsAssumption
<1>2. SigningReward(amount) \in Nat /\ FinalizationReward(amount) \in Nat
  BY <1>1, BipsAssumption, DivDef DEF SigningReward, FinalizationReward
<1> QED
  BY <1>2 DEF MedianReward

LEMMA FirstSecure ==
  ASSUME TypeOK, NEW r \in Nat
  PROVE  /\ \A s \in secure : (r < s /\ \A t \in secure : ~(r < t /\ t < s)) => FirstSecureAfter(r) = s
         /\ (\A s \in secure : ~(r < s)) => FirstSecureAfter(r) = Nil
         /\ FirstSecureAfter(r) \in Nat
<1> DEFINE later == {s \in secure : s > r}
<1>1. \A s \in secure : s \in Nat
  BY Constants DEF TypeOK
<1>2. ASSUME NEW s \in later, \A t \in later : s <= t
      PROVE  FirstSecureAfter(r) = s
  <2>1. Min(later) \in later /\ \A t \in later : Min(later) <= t
    BY <1>2 DEF Min
  <2>2. Min(later) = s
    BY <1>1, <1>2, <2>1
  <2> QED
    BY <1>2, <2>2 DEF FirstSecureAfter
<1>3. ASSUME NEW s \in secure, r < s, \A t \in secure : ~(r < t /\ t < s)
      PROVE  FirstSecureAfter(r) = s
  BY <1>1, <1>2, <1>3
<1>4. ASSUME \A s \in secure : ~(r < s)
      PROVE  FirstSecureAfter(r) = Nil
  BY <1>1, <1>4 DEF FirstSecureAfter
<1>5. FirstSecureAfter(r) \in Nat
  <2>1. CASE later = {}
    BY <2>1 DEF FirstSecureAfter, Nil
  <2>2. CASE later # {}
    <3>1. PICK s \in later : \A t \in later : s <= t
      BY <1>1, <2>2, LeastNat
    <3> QED
      BY <1>1, <1>2, <3>1
  <2> QED
    BY <2>1, <2>2
<1> QED
  BY <1>3, <1>4, <1>5

(* Filled adds the same random up to the given number of rounds.             *)
LEMMA FilledSpec ==
  ASSUME TypeOK, NEW n \in Nat, Len(randoms) <= n, NEW r \in Nat
  PROVE  /\ Filled(n, r) \in Seq(Nat) /\ Len(Filled(n, r)) = n
         /\ \A k \in 1 .. n : Filled(n, r)[k] = IF k <= Len(randoms) THEN randoms[k] ELSE r
<1> DEFINE l == Len(randoms)   rest == [k \in 1 .. n - l |-> r]
<1>1. randoms \in Seq(Nat) /\ l \in Nat /\ n - l \in Nat
  BY DEF TypeOK
<1>2. rest \in Seq(Nat) /\ Len(rest) = n - l /\ \A k \in 1 .. n - l : rest[k] = r
  BY <1>1
<1> HIDE DEF rest
<1>3. Filled(n, r) = randoms \o rest
  BY DEF Filled, rest
<1> QED
  BY <1>1, <1>2, <1>3, ConcatProperties
-----------------------------------------------------------------------------
LEMMA InitIInv == Init => IInv
<1> SUFFICES ASSUME Init PROVE IInv
  OBVIOUS
<1>1. TypeOK
  BY Constants, FundsAssumption DEF Init, TypeOK
<1>2. DrawnSoFar
  <2>1. Len(randoms) = 0 /\ round = StartRound + 1
    BY DEF Init
  <2>2. \A s \in secure : s \in Nat
    BY <1>1, Constants DEF TypeOK
  <2> QED
    BY <2>1, <2>2, Constants DEF DrawnSoFar, Init
<1>3. FeedDrawnByNextSecure /\ ClaimedSoFar
  BY DEF Init, FeedDrawnByNextSecure, ClaimedSoFar
<1> QED
  BY <1>1, <1>2, <1>3 DEF IInv

(* The random of a secure round, given to all before it that have none, is   *)
(* the first one after each of them.                                        *)
LEMMA FilledBySecure ==
  ASSUME TypeOK, DrawnSoFar, phase \in {"select", "ahead"},
         NEW n \in Nat, Len(randoms) <= n, StartRound + n <= round, round \in secure
  PROVE  \A k \in 1 .. n : Filled(n, round)[k] = FirstSecureAfter(StartRound + k - 1)
<1> SUFFICES ASSUME NEW k \in 1 .. n
             PROVE  Filled(n, round)[k] = FirstSecureAfter(StartRound + k - 1)
  OBVIOUS
<1>1. round \in Nat /\ StartRound + k - 1 \in Nat /\ Len(randoms) \in Nat
  BY Constants DEF TypeOK
<1>2. Filled(n, round)[k] = IF k <= Len(randoms) THEN randoms[k] ELSE round
  BY <1>1, FilledSpec
<1>3. CASE k <= Len(randoms)
  BY <1>1, <1>2, <1>3 DEF DrawnSoFar
<1>4. CASE ~(k <= Len(randoms))
  <2>1. StartRound + k - 1 < round
    BY <1>1, Constants
  <2>2. \A t \in secure : ~(StartRound + k - 1 < t /\ t < round)
    <3>1. \A t \in secure : t \in Nat /\ ~(StartRound + Len(randoms) < t /\ t < round)
      BY Constants DEF TypeOK, DrawnSoFar
    <3> QED
      BY <1>1, <1>4, <3>1, Constants
  <2> QED
    BY <1>1, <1>2, <1>4, <2>1, <2>2, FirstSecure
<1> QED
  BY <1>3, <1>4

(* What is secure, does not change.                                         *)
LEMMA SecureFixed ==
  ASSUME UNCHANGED inputs
  PROVE  secure' = secure /\ totalReward' = totalReward
         /\ \A r : FirstSecureAfter(r)' = FirstSecureAfter(r)
BY DEF inputs, FirstSecureAfter

LEMMA NextIInv == IInv /\ [Next]_vars => IInv'
<1> SUFFICES ASSUME IInv, [Next]_vars PROVE IInv'
  OBVIOUS
<1> USE DEF IInv
<1>1. \A n : PartsOf(totalReward, n)' = PartsOf(totalReward', n)
  BY DEF PartsOf, totalRounds
<1>2. CASE SelectRandom
  <2>1. /\ phase = "select" /\ phase' = "select" /\ round \in StartRound + 1 .. EndRound
        /\ round' = round + 1 /\ UNCHANGED <<inputs, claimed, roundRewards>>
    BY <1>2, Constants DEF SelectRandom, TypeOK, DrawnSoFar
  <2>2. secure' = secure /\ totalReward' = totalReward /\ \A r : FirstSecureAfter(r)' = FirstSecureAfter(r)
    BY <2>1, SecureFixed
  <2>3. round \in Nat /\ Len(randoms) \in Nat /\ round' \in StartRound + 2 .. EndRound + 1
    BY <2>1, Constants DEF TypeOK
  <2>4. CASE round \in secure
    <3> DEFINE n == round - StartRound
    <3>1. n \in Nat /\ Len(randoms) <= n /\ StartRound + n = round /\ n < totalRounds
      BY <2>1, <2>3, Constants DEF DrawnSoFar
    <3>2. randoms' = Filled(n, round)
      BY <1>2, <2>4 DEF SelectRandom
    <3> HIDE DEF n
    <3>3. randoms' \in Seq(Nat) /\ Len(randoms') = n
      BY <2>3, <3>1, <3>2, FilledSpec
    <3>4. \A k \in 1 .. n : randoms'[k] = FirstSecureAfter(StartRound + k - 1)
      BY <2>1, <2>4, <3>1, <3>2, FilledBySecure
    <3>5. TypeOK'
      BY <2>1, <2>2, <2>3, <3>3, Constants DEF TypeOK
    <3>6. \A s \in secure : ~(StartRound + n < s /\ s < round')
      <4>1. \A s \in secure : s \in Nat
        BY Constants DEF TypeOK
      <4> QED
        BY <2>1, <2>3, <3>1, <4>1
    <3>7. DrawnSoFar'
      BY <2>1, <2>2, <2>3, <3>1, <3>3, <3>4, <3>6, Constants DEF DrawnSoFar
    <3> QED
      BY <2>1, <3>5, <3>7 DEF FeedDrawnByNextSecure, ClaimedSoFar
  <2>5. CASE round \notin secure
    <3>1. randoms' = randoms
      BY <1>2, <2>5 DEF SelectRandom
    <3>2. TypeOK'
      BY <2>1, <2>2, <2>3, <3>1, Constants DEF TypeOK
    <3>3. \A s \in secure : ~(StartRound + Len(randoms) < s /\ s < round')
      <4>1. \A s \in secure : s \in Nat /\ s # round
        BY <2>5, Constants DEF TypeOK
      <4> QED
        BY <2>1, <2>3, <4>1 DEF DrawnSoFar
    <3>4. DrawnSoFar'
      BY <2>1, <2>2, <2>3, <3>1, <3>3, Constants DEF DrawnSoFar
    <3> QED
      BY <2>1, <3>2, <3>4 DEF FeedDrawnByNextSecure, ClaimedSoFar
  <2> QED
    BY <2>4, <2>5
<1>3. CASE SelectDone
  <2>1. /\ phase = "select" /\ phase' = "ahead" /\ round = EndRound + 1 /\ round' = round
        /\ UNCHANGED <<inputs, randoms, claimed, roundRewards>>
    BY <1>3, Constants DEF SelectDone, TypeOK, DrawnSoFar
  <2>2. secure' = secure /\ totalReward' = totalReward /\ \A r : FirstSecureAfter(r)' = FirstSecureAfter(r)
    BY <2>1, SecureFixed
  <2>3. TypeOK'
    BY <2>1, <2>2 DEF TypeOK
  <2>4. DrawnSoFar'
    BY <2>1, <2>2, Constants DEF DrawnSoFar
  <2> QED
    BY <2>1, <2>3, <2>4 DEF FeedDrawnByNextSecure, ClaimedSoFar
<1>4. CASE LookAhead
  <2>1. /\ phase = "ahead" /\ phase' = "ahead" /\ round \in EndRound + 1 .. WindowEnd /\ round \notin secure
        /\ round' = round + 1 /\ UNCHANGED <<inputs, randoms, claimed, roundRewards>>
    BY <1>4, Constants DEF LookAhead, TypeOK, DrawnSoFar
  <2>2. secure' = secure /\ totalReward' = totalReward /\ \A r : FirstSecureAfter(r)' = FirstSecureAfter(r)
    BY <2>1, SecureFixed
  <2>3. TypeOK'
    BY <2>1, <2>2, Constants DEF TypeOK
  <2>4. \A s \in secure : ~(StartRound + Len(randoms) < s /\ s < round')
    <3>1. \A s \in secure : s \in Nat /\ s # round
      BY <2>1, Constants DEF TypeOK
    <3>2. round \in Nat /\ Len(randoms) \in Nat
      BY Constants DEF TypeOK
    <3> QED
      BY <2>1, <3>1, <3>2 DEF DrawnSoFar
  <2>5. DrawnSoFar'
    <3>1. round \in Nat /\ Len(randoms) \in Nat
      BY Constants DEF TypeOK
    <3> QED
      BY <2>1, <2>2, <2>4, <3>1, Constants DEF DrawnSoFar
  <2> QED
    BY <2>1, <2>3, <2>5 DEF FeedDrawnByNextSecure, ClaimedSoFar
<1>5. CASE FillRest
  <2> DEFINE n == totalRounds
  <2>1. /\ phase = "ahead" /\ phase' = "reward" /\ (round > WindowEnd \/ round \in secure)
        /\ randoms' = Filled(n, IF round > WindowEnd THEN Nil ELSE round)
        /\ UNCHANGED <<inputs, round, claimed, roundRewards>>
    BY <1>5 DEF FillRest
  <2>2. secure' = secure /\ totalReward' = totalReward /\ \A r : FirstSecureAfter(r)' = FirstSecureAfter(r)
    BY <2>1, SecureFixed
  <2>3. /\ n \in Nat /\ Len(randoms) \in Nat /\ Len(randoms) <= n /\ StartRound + n <= round /\ round \in Nat
        /\ Nil \in Nat
    BY <2>1, Constants DEF TypeOK, DrawnSoFar, Nil
  <2> HIDE DEF n
  <2>4. randoms' \in Seq(Nat) /\ Len(randoms') = n
    BY <2>1, <2>3, FilledSpec
  <2>5. \A k \in 1 .. n : randoms'[k] = FirstSecureAfter(StartRound + k - 1)
    <3>1. CASE round > WindowEnd
      <4> SUFFICES ASSUME NEW k \in 1 .. n
                   PROVE  randoms'[k] = FirstSecureAfter(StartRound + k - 1)
        OBVIOUS
      <4>1. randoms'[k] = IF k <= Len(randoms) THEN randoms[k] ELSE Nil
        BY <2>1, <2>3, <3>1, FilledSpec
      <4>2. CASE k <= Len(randoms)
        BY <2>1, <2>3, <4>1, <4>2 DEF DrawnSoFar
      <4>3. CASE ~(k <= Len(randoms))
        <5>1. \A s \in secure : s \in Nat /\ s <= WindowEnd /\ ~(StartRound + Len(randoms) < s /\ s < round)
          BY <2>1, Constants DEF TypeOK, DrawnSoFar
        <5>2. \A s \in secure : ~(StartRound + k - 1 < s)
          BY <2>3, <3>1, <4>3, <5>1, Constants
        <5>3. StartRound + k - 1 \in Nat
          BY <2>3, Constants
        <5> QED
          BY <4>1, <4>3, <5>2, <5>3, FirstSecure
      <4> QED
        BY <4>2, <4>3
    <3>2. CASE ~(round > WindowEnd)
      BY <2>1, <2>3, <3>2, FilledBySecure
    <3> QED
      BY <3>1, <3>2
  <2>6. randoms' = [k \in 1 .. n |-> FirstSecureAfter(StartRound + k - 1)]
    BY <2>3, <2>4, <2>5
  <2>7. TypeOK'
    BY <2>1, <2>2, <2>4 DEF TypeOK
  <2>8. FeedDrawnByNextSecure'
    <3>1. n' = n
      BY DEF n, totalRounds
    <3>2. \A k \in 1 .. n : FirstSecureAfter(StartRound + k - 1)' = FirstSecureAfter(StartRound + k - 1)
      BY <2>2
    <3> QED
      BY <2>6, <3>1, <3>2 DEF FeedDrawnByNextSecure, n
  <2> QED
    BY <2>1, <2>7, <2>8 DEF DrawnSoFar, ClaimedSoFar
<1>6. CASE CalculateRoundRewards
  <2>1. /\ phase = "reward" /\ phase' = "claim" /\ round' = StartRound
        /\ \A r \in Round : roundRewards'[r].Amount = RoundAmount(totalReward, r)
        /\ UNCHANGED <<inputs, randoms, claimed>>
    BY <1>6 DEF CalculateRoundRewards
  <2>2. secure' = secure /\ totalReward' = totalReward /\ \A r : FirstSecureAfter(r)' = FirstSecureAfter(r)
    BY <2>1, SecureFixed
  <2>3. TypeOK'
    BY <2>1, <2>2, Constants DEF TypeOK
  <2>4. FeedDrawnByNextSecure' /\ DrawnSoFar'
    BY <2>1, <2>2 DEF FeedDrawnByNextSecure, DrawnSoFar, totalRounds
  <2>5. ClaimedSoFar'
    <3>1. PartsOf(totalReward, 0) = 0
      <4>1. StartRound \in Round
        BY Constants DEF Round
      <4> QED
        BY <4>1, PartsOfStep DEF TypeOK
    <3>2. claimed' = 0 /\ round' - StartRound = 0 /\ round' \in StartRound .. EndRound + 1
      BY <2>1, Constants DEF ClaimedSoFar
    <3>3. \A r \in Round : roundRewards'[r].Amount = RoundAmount(totalReward, r)'
      BY <2>1, <2>2 DEF RoundAmount, totalRounds
    <3> QED
      BY <1>1, <2>1, <2>2, <3>1, <3>2, <3>3 DEF ClaimedSoFar
  <2> QED
    BY <2>3, <2>4, <2>5
<1>7. ASSUME BurnRound \/ ClaimRound
      PROVE  IInv'
  <2>1. /\ phase = "claim" /\ phase' = "claim" /\ round \in Round /\ round' = round + 1
        /\ UNCHANGED <<inputs, randoms, roundRewards>>
    <3>1. round \in StartRound .. EndRound + 1
      BY <1>7 DEF ClaimedSoFar, BurnRound, ClaimRound
    <3> QED
      BY <1>7, <3>1, Constants DEF BurnRound, ClaimRound, Round
  <2>2. secure' = secure /\ totalReward' = totalReward /\ \A r : FirstSecureAfter(r)' = FirstSecureAfter(r)
    BY <2>1, SecureFixed
  <2> DEFINE amount == RoundAmount(totalReward, round)
  <2>3. amount \in Nat /\ roundRewards[round].Amount = amount
    BY <2>1, PartsOfStep DEF TypeOK, ClaimedSoFar
  <2>4. claimed' = claimed + amount
    <3> HIDE DEF amount
    <3>1. CASE BurnRound
      BY <2>3, <3>1 DEF BurnRound
    <3>2. CASE ClaimRound
      <4>1. claimed' = claimed + MedianReward(amount) + SigningReward(amount) + FinalizationReward(amount)
        BY <2>3, <3>2 DEF ClaimRound
      <4>2. MedianReward(amount) + SigningReward(amount) + FinalizationReward(amount) = amount
        BY <2>3, PartsOfRound
      <4>3. MedianReward(amount) \in Int /\ SigningReward(amount) \in Int /\ FinalizationReward(amount) \in Int
        BY <2>3, PartsOfRound
      <4> QED
        BY <4>1, <4>2, <4>3 DEF TypeOK
    <3> QED
      BY <1>7, <3>1, <3>2
  <2>5. claimed' = PartsOf(totalReward, round' - StartRound)
    <3>1. PartsOf(totalReward, round + 1 - StartRound) = PartsOf(totalReward, round - StartRound) + amount
      BY <2>1, PartsOfStep DEF TypeOK
    <3>2. claimed = PartsOf(totalReward, round - StartRound)
      BY <2>1 DEF ClaimedSoFar
    <3> HIDE DEF amount
    <3>3. claimed' = PartsOf(totalReward, round + 1 - StartRound)
      BY <2>4, <3>1, <3>2
    <3>4. round' - StartRound = round + 1 - StartRound
      BY <2>1, Constants DEF TypeOK
    <3> QED
      BY <3>3, <3>4, Zenon
  <2>6. TypeOK'
    BY <2>1, <2>2, <2>3, <2>4, Constants DEF TypeOK, Round
  <2>7. FeedDrawnByNextSecure' /\ DrawnSoFar'
    BY <2>1, <2>2 DEF FeedDrawnByNextSecure, DrawnSoFar, totalRounds
  <2>8. ClaimedSoFar'
    <3>1. \A r \in Round : roundRewards'[r].Amount = RoundAmount(totalReward, r)'
      BY <2>1, <2>2 DEF ClaimedSoFar, RoundAmount, totalRounds
    <3>2. round' \in StartRound .. EndRound + 1
      BY <2>1, Constants DEF Round
    <3> QED
      BY <1>1, <2>1, <2>2, <2>5, <3>1, <3>2 DEF ClaimedSoFar
  <2> QED
    BY <2>6, <2>7, <2>8
<1>8. CASE ClaimsDone
  <2>1. /\ phase = "claim" /\ phase' = "done" /\ round = EndRound + 1
        /\ UNCHANGED <<inputs, round, randoms, roundRewards, claimed>>
    BY <1>8, Constants DEF ClaimsDone, ClaimedSoFar
  <2>2. secure' = secure /\ totalReward' = totalReward /\ \A r : FirstSecureAfter(r)' = FirstSecureAfter(r)
    BY <2>1, SecureFixed
  <2>3. TypeOK' /\ FeedDrawnByNextSecure' /\ DrawnSoFar'
    BY <2>1, <2>2 DEF TypeOK, FeedDrawnByNextSecure, DrawnSoFar, totalRounds
  <2>4. ClaimedSoFar'
    BY <1>1, <2>1, <2>2 DEF ClaimedSoFar, RoundAmount, totalRounds
  <2> QED
    BY <2>3, <2>4
<1>9. CASE StopRound
  <2>1. /\ phase = "claim" /\ phase' = "fatal"
        /\ UNCHANGED <<inputs, round, randoms, roundRewards, claimed>>
    BY <1>9 DEF StopRound
  <2>2. secure' = secure /\ totalReward' = totalReward /\ \A r : FirstSecureAfter(r)' = FirstSecureAfter(r)
    BY <2>1, SecureFixed
  <2>3. TypeOK' /\ FeedDrawnByNextSecure' /\ DrawnSoFar'
    BY <2>1, <2>2 DEF TypeOK, FeedDrawnByNextSecure, DrawnSoFar, totalRounds
  <2>4. ClaimedSoFar'
    BY <1>1, <2>1, <2>2 DEF ClaimedSoFar, RoundAmount, totalRounds
  <2> QED
    BY <2>3, <2>4
<1>10. CASE UNCHANGED vars
  <2>1. secure' = secure /\ totalReward' = totalReward /\ \A r : FirstSecureAfter(r)' = FirstSecureAfter(r)
    BY <1>10, SecureFixed DEF vars
  <2>2. TypeOK' /\ FeedDrawnByNextSecure' /\ DrawnSoFar'
    BY <1>10, <2>1 DEF vars, TypeOK, FeedDrawnByNextSecure, DrawnSoFar, totalRounds
  <2>3. ClaimedSoFar'
    BY <1>1, <1>10, <2>1 DEF vars, ClaimedSoFar, RoundAmount, totalRounds
  <2> QED
    BY <2>2, <2>3
<1> QED
  BY <1>2, <1>3, <1>4, <1>5, <1>6, <1>7, <1>8, <1>9, <1>10 DEF Next
-----------------------------------------------------------------------------
LEMMA SpecIInv == Spec => []IInv
  BY InitIInv, NextIInv, PTL DEF Spec

(* The feed a round is rewarded for is drawn by the first secure random       *)
(* after the round, and by none only if there is none in the window           *)
(* (getFeedSelectionRandoms), for every set of secure rounds.                *)
THEOREM FeedDrawnAfterRound == Spec => []FeedDrawnByNextSecure
<1>1. IInv => FeedDrawnByNextSecure
  BY DEF IInv
<1> QED
  BY <1>1, SpecIInv, PTL

(* The FTSO funds of an epoch are claimed or burned to the last wei, for      *)
(* every amount and every number of rounds.                                  *)
THEOREM FtsoFundsConserved == Spec => []FtsoConserved
<1>1. ASSUME IInv PROVE FtsoConserved
  <2> SUFFICES ASSUME phase = "done" PROVE claimed = totalReward
    BY DEF FtsoConserved
  <2>1. claimed = PartsOf(totalReward, round - StartRound) /\ round = EndRound + 1
    BY <1>1 DEF IInv, ClaimedSoFar
  <2>2. round - StartRound = totalRounds /\ StartRound \in Round
    BY <2>1, Constants DEF Round
  <2> QED
    BY <1>1, <2>1, <2>2, PartsOfStep DEF IInv, TypeOK
<1> QED
  BY <1>1, SpecIInv, PTL
-----------------------------------------------------------------------------
(* The fast-update claims: those of the rounds so far that have a feed, one   *)
(* of each, and each of them what FUpdateClaims makes of the round.          *)
PaidRounds(k) == {r \in StartRound .. k - 1 : ~ShouldBurn(fuRoundRewards[r])}
FuInv ==
  /\ fuReward \in Nat /\ log \in Logs /\ draw \in [StartRound .. WindowEnd -> Nat]
  /\ phase \in {"select", "ahead", "reward"} => fuClaims = <<>>
  /\ phase \in {"claim", "done", "fatal"} =>
       /\ \A r \in Round : fuRoundRewards[r] = [Amount |-> RoundAmount(fuReward, r), Feed |-> FeedIndex(r)]
       /\ \A r \in Round : roundRewards[r].Feed = Drawn(r, Len(OrderedFeeds))
       /\ fuClaims \in Seq(ToSet(fuClaims))
       /\ \A n \in DOMAIN fuClaims :
            /\ fuClaims[n].round \in PaidRounds(round)
            /\ \E median \in Medians : fuClaims[n] = FUpdateClaims(fuClaims[n].round, median)
       /\ \A m, n \in DOMAIN fuClaims : fuClaims[m].round = fuClaims[n].round => m = n
       /\ \A r \in PaidRounds(round) : \E n \in DOMAIN fuClaims : fuClaims[n].round = r

(* The positions of the offer's feeds that can be drawn. *)
SelectablePositions == {n \in DOMAIN FeedConfigs : Selectable(FeedConfigs[n].feed)}

LEMMA SelectableSpec ==
  /\ selectableFeedIndexes \in Seq(SelectablePositions)
  /\ Len(selectableFeedIndexes) \in Nat \ {0}
  /\ \A n \in SelectablePositions : n \in DOMAIN FeedConfigs /\ n \in Nat \ {0}
<1> DEFINE P == SelectablePositions
<1>1. P \cap DOMAIN FeedConfigs = P /\ P # {}
  BY FeedsAssumption DEF SelectablePositions
<1>2. selectableFeedIndexes = AtPositions([n \in DOMAIN FeedConfigs |-> n], P)
  BY DEF selectableFeedIndexes, SelectablePositions
<1> DEFINE F == ToSet(FeedConfigs)
<1>3. FeedConfigs \in Seq(F)
  BY FeedConfigsAssumption
<1> HIDE DEF P, F
<1>4. selectableFeedIndexes \in Seq(P) /\ Len(selectableFeedIndexes) > 0
  BY <1>1, <1>2, <1>3, AtPositionsOfPlaces
<1>5. \A n \in DOMAIN FeedConfigs : n \in Nat \ {0}
  BY <1>3
<1> QED
  BY <1>1, <1>4, <1>5 DEF P

(* The random of a round, if it has one, draws one of the feeds.             *)
LEMMA DrawnSpec ==
  ASSUME IInv, FuInv, phase \in {"reward", "claim", "done", "fatal"}, NEW r \in Round
  PROVE  LET random == randoms[r - StartRound + 1]
         IN  /\ \A n \in Nat \ {0} : IF random = Nil THEN Drawn(r, n) = 0
                                     ELSE Drawn(r, n) \in 1 .. n /\ Drawn(r, n) = (draw[random] % n) + 1
             /\ IF random = Nil THEN FeedIndex(r) = 0
                ELSE /\ FeedIndex(r) \in SelectablePositions
                     /\ FeedIndex(r) = selectableFeedIndexes[Drawn(r, Len(selectableFeedIndexes))]
<1> DEFINE random == randoms[r - StartRound + 1]
<1>1. r - StartRound + 1 \in 1 .. totalRounds /\ r \in Nat /\ StartRound + (r - StartRound + 1) - 1 = r
  BY Constants DEF Round
<1>2. random = FirstSecureAfter(r)
  BY <1>1 DEF IInv, FeedDrawnByNextSecure
<1>3. random = Nil \/ (random \in secure /\ random > r)
  <2> DEFINE later == {s \in secure : s > r}
  <2>1. CASE later = {}
    BY <1>2, <2>1 DEF FirstSecureAfter
  <2>2. CASE later # {}
    <3>1. later \in SUBSET Nat
      <4>1. secure \subseteq StartRound .. WindowEnd
        BY DEF IInv, TypeOK
      <4>2. StartRound .. WindowEnd \subseteq Nat
        BY Constants
      <4> QED
        BY <4>1, <4>2
    <3> HIDE DEF later
    <3>2. Min(later) \in later
      BY <2>2, <3>1, MinOfNat
    <3> QED
      BY <1>2, <2>2, <3>2 DEF FirstSecureAfter, later
  <2> QED
    BY <2>1, <2>2
<1> HIDE DEF random
<1>4. random # Nil => draw[random] \in Nat
  BY <1>3 DEF IInv, TypeOK, FuInv
<1>5. \A n : Drawn(r, n) = IF random = Nil THEN 0 ELSE (draw[random] % n) + 1
  BY DEF Drawn, random
<1>6. ASSUME NEW n \in Nat \ {0}, random # Nil
      PROVE  Drawn(r, n) \in 1 .. n /\ Drawn(r, n) = (draw[random] % n) + 1
  BY <1>4, <1>5, <1>6, ModDef
<1>7. random # Nil =>
        /\ FeedIndex(r) \in SelectablePositions
        /\ FeedIndex(r) = selectableFeedIndexes[Drawn(r, Len(selectableFeedIndexes))]
  <2> SUFFICES ASSUME random # Nil PROVE /\ FeedIndex(r) \in SelectablePositions
                                         /\ FeedIndex(r) = selectableFeedIndexes[Drawn(r, Len(selectableFeedIndexes))]
    OBVIOUS
  <2> DEFINE l == Len(selectableFeedIndexes)
  <2>1. l \in Nat \ {0} /\ DOMAIN selectableFeedIndexes = 1 .. l
    BY SelectableSpec
  <2>2. Drawn(r, l) \in 1 .. l
    BY <1>6, <2>1
  <2>3. FeedIndex(r) = selectableFeedIndexes[Drawn(r, l)]
    BY <2>2 DEF FeedIndex
  <2> QED
    BY <2>1, <2>2, <2>3, SelectableSpec
<1>8. random = Nil => FeedIndex(r) = 0
  BY <1>5 DEF FeedIndex
<1> QED
  BY <1>5, <1>6, <1>7, <1>8 DEF random

(* A round has a feed of the offer exactly if it has one of the epoch.       *)
LEMMA BurnTogether ==
  ASSUME IInv, FuInv, phase \in {"claim", "done", "fatal"}, NEW r \in Round
  PROVE  ShouldBurn(fuRoundRewards[r]) <=> ShouldBurn(roundRewards[r])
<1>1. fuRoundRewards[r].Feed = FeedIndex(r) /\ roundRewards[r].Feed = Drawn(r, Len(OrderedFeeds))
  <2>1. /\ fuRoundRewards[r] = [Amount |-> RoundAmount(fuReward, r), Feed |-> FeedIndex(r)]
        /\ roundRewards[r].Feed = Drawn(r, Len(OrderedFeeds))
    BY Zenon DEF FuInv
  <2> QED
    BY <2>1
<1>2. Len(OrderedFeeds) \in Nat \ {0}
  BY FeedsAssumption
<1>3. FeedIndex(r) = 0 <=> randoms[r - StartRound + 1] = Nil
  BY DrawnSpec, SelectableSpec
<1>4. Drawn(r, Len(OrderedFeeds)) = 0 <=> randoms[r - StartRound + 1] = Nil
  BY <1>2, DrawnSpec
<1> QED
  BY <1>1, <1>3, <1>4 DEF ShouldBurn
-----------------------------------------------------------------------------
LEMMA InitFuInv == Init => FuInv
<1> SUFFICES ASSUME Init PROVE FuInv
  OBVIOUS
<1>1. draw \in [StartRound .. WindowEnd -> Nat]
  BY DrawsAssumption DEF Init
<1>2. fuReward \in Nat /\ log \in Logs /\ fuClaims = <<>> /\ phase = "select"
  BY FundsAssumption DEF Init
<1> QED
  BY <1>1, <1>2 DEF FuInv

(* The claims of the rounds so far do not change. *)
LEMMA FuFixed ==
  ASSUME UNCHANGED <<inputs, randoms, roundRewards, fuRoundRewards>>
  PROVE  /\ fuReward' = fuReward /\ log' = log /\ draw' = draw
         /\ \A k : PaidRounds(k)' = PaidRounds(k)
         /\ \A r, median : FUpdateClaims(r, median)' = FUpdateClaims(r, median)
         /\ \A r, n : Drawn(r, n)' = Drawn(r, n)
         /\ \A r : FeedIndex(r)' = FeedIndex(r) /\ RoundAmount(fuReward, r)' = RoundAmount(fuReward, r)
<1>1. fuReward' = fuReward /\ log' = log /\ draw' = draw
  BY DEF inputs
<1>2. \A k : PaidRounds(k)' = PaidRounds(k)
  BY DEF PaidRounds
<1>3. \A r, median : FUpdateClaims(r, median)' = FUpdateClaims(r, median)
  BY <1>1 DEF FUpdateClaims
<1>4. \A r, n : Drawn(r, n)' = Drawn(r, n)
  BY <1>1 DEF Drawn
<1>5. \A r : FeedIndex(r)' = FeedIndex(r)
  BY <1>4 DEF FeedIndex
<1>6. \A r : RoundAmount(fuReward, r)' = RoundAmount(fuReward, r)
  BY <1>1 DEF RoundAmount
<1> QED
  BY <1>1, <1>2, <1>3, <1>4, <1>5, <1>6

LEMMA FuUnchanged ==
  ASSUME FuInv, UNCHANGED <<inputs, randoms, roundRewards, fuRoundRewards, fuClaims, round>>,
         phase' \in {"claim", "done", "fatal"} => phase \in {"claim", "done", "fatal"},
         phase' \in {"select", "ahead", "reward"} => phase \in {"select", "ahead", "reward"}
  PROVE  FuInv'
<1>1. fuReward' \in Nat /\ log' \in Logs /\ draw' \in [StartRound .. WindowEnd -> Nat]
  BY FuFixed DEF FuInv
<1>2. phase' \in {"select", "ahead", "reward"} => fuClaims' = <<>>
  BY DEF FuInv
<1>3. ASSUME phase' \in {"claim", "done", "fatal"}
      PROVE  (/\ \A r \in Round : fuRoundRewards[r] = [Amount |-> RoundAmount(fuReward, r), Feed |-> FeedIndex(r)]
              /\ \A r \in Round : roundRewards[r].Feed = Drawn(r, Len(OrderedFeeds))
              /\ fuClaims \in Seq(ToSet(fuClaims))
              /\ \A n \in DOMAIN fuClaims :
                   /\ fuClaims[n].round \in PaidRounds(round)
                   /\ \E median \in Medians : fuClaims[n] = FUpdateClaims(fuClaims[n].round, median)
              /\ \A m, n \in DOMAIN fuClaims : fuClaims[m].round = fuClaims[n].round => m = n
              /\ \A r \in PaidRounds(round) : \E n \in DOMAIN fuClaims : fuClaims[n].round = r)'
  <2>1. phase \in {"claim", "done", "fatal"}
    BY <1>3
  <2>2. \A r \in Round : (fuRoundRewards[r] = [Amount |-> RoundAmount(fuReward, r), Feed |-> FeedIndex(r)])'
    BY <2>1, FuFixed DEF FuInv
  <2>3. \A r \in Round : (roundRewards[r].Feed = Drawn(r, Len(OrderedFeeds)))'
    BY <2>1, FuFixed DEF FuInv
  <2>4. fuClaims' \in Seq(ToSet(fuClaims)') /\ PaidRounds(round)' = PaidRounds(round)
    BY <2>1, FuFixed DEF FuInv, ToSet
  <2>5. \A n \in DOMAIN fuClaims : \E median \in Medians : (fuClaims[n] = FUpdateClaims(fuClaims[n].round, median))'
    BY <2>1, FuFixed DEF FuInv
  <2> QED
    BY <2>1, <2>2, <2>3, <2>4, <2>5 DEF FuInv
<1> QED
  BY <1>1, <1>2, <1>3 DEF FuInv

(* A round without a feed adds no claim, the others add theirs. *)
LEMMA BurnRoundFuInv == IInv /\ FuInv /\ BurnRound => FuInv'
<1> SUFFICES ASSUME IInv, FuInv, BurnRound PROVE FuInv'
  OBVIOUS
<1>1. /\ phase = "claim" /\ phase' = "claim" /\ round \in Round /\ round' = round + 1
      /\ UNCHANGED <<inputs, randoms, roundRewards, fuRoundRewards, fuClaims>>
      /\ ShouldBurn(roundRewards[round])
  BY Constants DEF BurnRound, IInv, ClaimedSoFar, Round
<1>2. ShouldBurn(fuRoundRewards[round])
  BY <1>1, BurnTogether
<1>3. PaidRounds(round + 1) = PaidRounds(round)
  <2>1. round \in Int /\ StartRound \in Int
    BY <1>1, Constants DEF Round
  <2> QED
    BY <1>2, <2>1 DEF PaidRounds
<1>4. PaidRounds(round)' = PaidRounds(round)
  BY <1>1, <1>3, FuFixed DEF PaidRounds
<1>5. fuReward' \in Nat /\ log' \in Logs /\ draw' \in [StartRound .. WindowEnd -> Nat]
  BY <1>1, FuFixed DEF FuInv
<1>6. /\ \A r \in Round : (fuRoundRewards[r] = [Amount |-> RoundAmount(fuReward, r), Feed |-> FeedIndex(r)])'
      /\ \A r \in Round : (roundRewards[r].Feed = Drawn(r, Len(OrderedFeeds)))'
  BY <1>1, FuFixed DEF FuInv
<1>7. \A n \in DOMAIN fuClaims : \E median \in Medians : (fuClaims[n] = FUpdateClaims(fuClaims[n].round, median))'
  BY <1>1, FuFixed DEF FuInv
<1>8. fuClaims' \in Seq(ToSet(fuClaims)')
  BY <1>1 DEF FuInv, ToSet
<1>9. /\ \A n \in DOMAIN fuClaims' : fuClaims'[n].round \in PaidRounds(round)'
      /\ \A m, n \in DOMAIN fuClaims' : fuClaims'[m].round = fuClaims'[n].round => m = n
      /\ \A r \in PaidRounds(round)' : \E n \in DOMAIN fuClaims' : fuClaims'[n].round = r
  BY <1>1, <1>4 DEF FuInv
<1> QED
  BY <1>1, <1>5, <1>6, <1>7, <1>8, <1>9 DEF FuInv

LEMMA ClaimRoundFuInv == IInv /\ FuInv /\ ClaimRound => FuInv'
<1> SUFFICES ASSUME IInv, FuInv, ClaimRound PROVE FuInv'
  OBVIOUS
<1>1. /\ phase = "claim" /\ phase' = "claim" /\ round \in Round /\ round' = round + 1
      /\ UNCHANGED <<inputs, randoms, roundRewards, fuRoundRewards>>
      /\ ~ShouldBurn(roundRewards[round])
  BY Constants DEF ClaimRound, IInv, ClaimedSoFar, Round
<1>2. ~ShouldBurn(fuRoundRewards[round])
  BY <1>1, BurnTogether
<1>3. PICK median \in Medians : fuClaims' = Append(fuClaims, FUpdateClaims(round, median))
  BY DEF ClaimRound
<1> DEFINE c == FUpdateClaims(round, median)
           l == Len(fuClaims)
<1>4. c.round = round
  BY DEF FUpdateClaims
<1>5. PaidRounds(round + 1) = PaidRounds(round) \cup {round} /\ round \notin PaidRounds(round)
  <2>1. round \in Int /\ StartRound \in Int /\ StartRound <= round
    BY <1>1, Constants DEF Round
  <2> QED
    BY <1>2, <2>1 DEF PaidRounds
<1>6. PaidRounds(round)' = PaidRounds(round) \cup {round}
  BY <1>1, <1>5, FuFixed DEF PaidRounds
<1>7. fuReward' \in Nat /\ log' \in Logs /\ draw' \in [StartRound .. WindowEnd -> Nat]
  BY <1>1, FuFixed DEF FuInv
<1>8. /\ \A r \in Round : (fuRoundRewards[r] = [Amount |-> RoundAmount(fuReward, r), Feed |-> FeedIndex(r)])'
      /\ \A r \in Round : (roundRewards[r].Feed = Drawn(r, Len(OrderedFeeds)))'
  BY <1>1, FuFixed DEF FuInv
<1> HIDE DEF c
<1>9. /\ fuClaims \in Seq(ToSet(fuClaims)) /\ l \in Nat /\ DOMAIN fuClaims = 1 .. l
      /\ \A n \in 1 .. l : fuClaims[n] \in ToSet(fuClaims)
  BY <1>1 DEF FuInv
<1>10. /\ fuClaims' \in Seq(ToSet(fuClaims) \cup {c}) /\ DOMAIN fuClaims' = 1 .. l + 1
       /\ \A n \in 1 .. l + 1 : fuClaims'[n] = IF n = l + 1 THEN c ELSE fuClaims[n]
  <2> DEFINE T == ToSet(fuClaims)
  <2> HIDE DEF T
  <2>1. fuClaims \in Seq(T \cup {c}) /\ fuClaims' = Append(fuClaims, c)
    BY <1>3, <1>9 DEF T, c
  <2>2. c \in T \cup {c}
    OBVIOUS
  <2>3. fuClaims' \in Seq(T \cup {c}) /\ Len(fuClaims') = l + 1
        /\ \A n \in 1 .. l + 1 : fuClaims'[n] = IF n = l + 1 THEN c ELSE fuClaims[n]
    BY <2>1, <2>2
  <2> QED
    BY <2>3 DEF T
<1>11. fuClaims' \in Seq(ToSet(fuClaims)')
  BY <1>10 DEF ToSet
<1>12. /\ \A n \in 1 .. l : fuClaims'[n] = fuClaims[n]
       /\ fuClaims'[l + 1] = c /\ l + 1 \in 1 .. l + 1
       /\ \A n \in 1 .. l + 1 : n \in 1 .. l \/ n = l + 1
       /\ 1 .. l \subseteq 1 .. l + 1
  BY <1>9, <1>10
<1>13. /\ \A n \in 1 .. l : fuClaims[n].round \in PaidRounds(round)
       /\ \A n \in 1 .. l : \E m \in Medians : fuClaims[n] = FUpdateClaims(fuClaims[n].round, m)
       /\ \A m, n \in 1 .. l : fuClaims[m].round = fuClaims[n].round => m = n
       /\ \A r \in PaidRounds(round) : \E n \in 1 .. l : fuClaims[n].round = r
  BY <1>1, <1>9 DEF FuInv
<1>14. \A n \in 1 .. l + 1 : fuClaims'[n].round \in PaidRounds(round) \cup {round}
  BY <1>4, <1>12, <1>13
<1>15. \A m, n \in 1 .. l + 1 : fuClaims'[m].round = fuClaims'[n].round => m = n
  BY <1>4, <1>5, <1>12, <1>13
<1>16. \A r \in PaidRounds(round) \cup {round} : \E n \in 1 .. l + 1 : fuClaims'[n].round = r
  <2>1. \A r \in PaidRounds(round) : \E n \in 1 .. l + 1 : fuClaims'[n].round = r
    BY <1>12, <1>13
  <2> QED
    BY <1>4, <1>12, <2>1
<1>17. \A n \in 1 .. l + 1 : \E m \in Medians : fuClaims'[n] = FUpdateClaims(fuClaims'[n].round, m)
  <2>1. c = FUpdateClaims(c.round, median)
    BY <1>4 DEF c
  <2> QED
    BY <1>12, <1>13, <2>1
<1>18. \A n \in DOMAIN fuClaims' : \E m \in Medians : (fuClaims[n] = FUpdateClaims(fuClaims[n].round, m))'
  BY <1>1, <1>10, <1>17, FuFixed
<1> QED
  BY <1>1, <1>6, <1>7, <1>8, <1>10, <1>11, <1>14, <1>15, <1>16, <1>18 DEF FuInv

LEMMA NextFuInv == IInv /\ FuInv /\ [Next]_vars => FuInv'
<1> SUFFICES ASSUME IInv, FuInv, [Next]_vars PROVE FuInv'
  OBVIOUS
<1>1. ASSUME SelectRandom \/ SelectDone \/ LookAhead \/ FillRest
      PROVE  FuInv'
  <2>1. /\ phase \in {"select", "ahead", "reward"} /\ phase' \in {"select", "ahead", "reward"}
        /\ fuClaims' = fuClaims /\ fuReward' = fuReward /\ log' = log /\ draw' = draw
    BY <1>1 DEF SelectRandom, SelectDone, LookAhead, FillRest, inputs
  <2> QED
    BY <2>1 DEF FuInv
<1>2. CASE CalculateRoundRewards
  <2>1. /\ phase = "reward" /\ phase' = "claim" /\ round' = StartRound /\ fuClaims' = <<>>
        /\ fuReward' = fuReward /\ log' = log /\ draw' = draw /\ randoms' = randoms
    BY <1>2 DEF CalculateRoundRewards, FuInv, inputs
  <2>2. \A r, n : Drawn(r, n)' = Drawn(r, n)
    BY <2>1 DEF Drawn
  <2>3. \A r : FeedIndex(r)' = FeedIndex(r) /\ RoundAmount(fuReward, r)' = RoundAmount(fuReward, r)
    BY <2>1, <2>2 DEF FeedIndex, RoundAmount
  <2>4. /\ \A r \in Round : (fuRoundRewards[r] = [Amount |-> RoundAmount(fuReward, r), Feed |-> FeedIndex(r)])'
        /\ \A r \in Round : (roundRewards[r].Feed = Drawn(r, Len(OrderedFeeds)))'
    BY <1>2, <2>2, <2>3 DEF CalculateRoundRewards
  <2>5. PaidRounds(round)' = {}
    BY <2>1, Constants DEF PaidRounds
  <2>6. fuClaims' \in Seq(ToSet(fuClaims)') /\ DOMAIN fuClaims' = {}
    BY <2>1
  <2> QED
    BY <2>1, <2>4, <2>5, <2>6 DEF FuInv
<1>3. CASE BurnRound
  BY <1>3, BurnRoundFuInv
<1>4. CASE ClaimRound
  BY <1>4, ClaimRoundFuInv
<1>5. CASE ClaimsDone
  BY <1>5, FuUnchanged DEF ClaimsDone
<1>6. CASE StopRound
  BY <1>6, FuUnchanged DEF StopRound
<1>7. CASE UNCHANGED vars
  BY <1>7, FuUnchanged DEF vars
<1> QED
  BY <1>1, <1>2, <1>3, <1>4, <1>5, <1>6, <1>7 DEF Next

LEMMA SpecFuInv == Spec => [](IInv /\ FuInv)
<1>1. Init => IInv /\ FuInv
  BY InitIInv, InitFuInv
<1>2. IInv /\ FuInv /\ [Next]_vars => (IInv /\ FuInv)'
  BY NextIInv, NextFuInv
<1> QED
  BY <1>1, <1>2, PTL DEF Spec
-----------------------------------------------------------------------------
(* The submitters of a round are a list, and their parts are all of it.      *)
LEMMA SubmittersSpec ==
  ASSUME NEW l \in Logs, NEW r
  PROVE  /\ Len(SubmittersOf(l, r)) \in Nat
         /\ SubmittersOf(l, r) = <<>> <=> Len(SubmittersOf(l, r)) = 0
<1> DEFINE S == ToSet(l.submits)
           P == {n \in DOMAIN l.submits : l.submits[n].round = r}
           events == AtPositions(l.submits, P)
<1>1. l.submits \in Seq(S)
  BY LogsAssumption
<1> HIDE DEF S, P
<1>2. events \in Seq(S)
  BY <1>1, AtPositionsSpec
<1> HIDE DEF events
<1>3. SubmittersOf(l, r) = [n \in DOMAIN events |-> events[n].by]
  BY DEF SubmittersOf, events, P
<1> DEFINE k == Len(events)
<1>4. DOMAIN events = 1 .. k /\ k \in Nat
  BY <1>2
<1> HIDE DEF k
<1>5. SubmittersOf(l, r) = [n \in 1 .. k |-> events[n].by]
  BY <1>3, <1>4
<1>6. Len(SubmittersOf(l, r)) = k /\ DOMAIN SubmittersOf(l, r) = 1 .. k
  BY <1>4, <1>5
<1>7. SubmittersOf(l, r) = <<>> <=> k = 0
  BY <1>4, <1>5
<1> QED
  BY <1>4, <1>6, <1>7

LEMMA EqualPartsSpec ==
  ASSUME NEW amount \in Nat, NEW n \in Nat
  PROVE  /\ SumOf(<<>>) = 0
         /\ n > 0 => SumOf(EqualParts(amount, n)) = amount
         /\ EqualParts(amount, n) = <<>> <=> n = 0
<1> DEFINE parts == EqualParts(amount, n)
<1>1. parts = [k \in 1 .. n |-> EqualPart(amount, n, k - 1)]
  BY DEF EqualParts
<1> HIDE DEF parts
<1>2. n > 0 => SumOf(parts) = amount
  <2> SUFFICES ASSUME n > 0 PROVE SumOf(parts) = amount
    OBVIOUS
  <2>1. (\A k \in 1 .. n : parts[k] \in Nat) /\ SumFunctionOnSet(parts, 1 .. n) = amount
    <3>1. \A k \in 1 .. n : parts[k] = EqualPart(amount, n, k - 1)
      BY <1>1
    <3>2. n \in Nat \ {0}
      OBVIOUS
    <3> QED
      BY <3>1, <3>2, EqualPartsSum
  <2>2. parts \in Seq(Int) /\ Len(parts) = n
    <3>1. \A k \in 1 .. n : parts[k] \in Int
      BY <2>1
    <3>2. DOMAIN parts = 1 .. n
      BY <1>1
    <3>3. parts = [k \in 1 .. n |-> parts[k]]
      BY <1>1
    <3> QED
      BY <3>1, <3>2, <3>3
  <2> QED
    BY <2>1, <2>2, SumOfIsSum
<1>3. parts = <<>> <=> n = 0
  BY <1>1
<1>4. SumOf(<<>>) = 0
  <2>1. <<>> \in Seq(Int) /\ Len(<<>>) = 0 /\ 1 .. 0 = {}
    OBVIOUS
  <2> QED
    BY <2>1, SumOfIsSum, SumEmpty
<1> QED
  BY <1>2, <1>3, <1>4 DEF parts

(* A claim of a round is its part, paid or burned. *)
LEMMA ClaimOfRound ==
  ASSUME FuInv, phase \in {"claim", "done", "fatal"}, NEW r \in Round, NEW median
  PROVE  FuClaimed(FUpdateClaims(r, median)) = RoundAmount(fuReward, r)
<1> DEFINE amount == RoundAmount(fuReward, r)
           submitters == SubmittersOf(log, r)
           burn == CheckBurnReward(fuRoundRewards[r].Feed, FeedsOf(log, r), submitters, median,
                                   Decimals[FuFeed(fuRoundRewards[r].Feed)])
           c == FUpdateClaims(r, median)
<1>1. amount \in Nat
  BY PartsOfStep DEF FuInv
<1>2. fuRoundRewards[r].Amount = amount
  <2>1. fuRoundRewards[r] = [Amount |-> amount, Feed |-> FeedIndex(r)]
    BY Zenon DEF FuInv
  <2> QED
    BY <2>1
<1>3. Len(submitters) \in Nat /\ (submitters = <<>> <=> Len(submitters) = 0)
  BY SubmittersSpec DEF FuInv
<1>4. submitters = <<>> => burn
  BY DEF CheckBurnReward
<1>5. /\ c.burned = IF burn THEN amount ELSE 0
      /\ c.paid = IF burn THEN <<>> ELSE EqualParts(amount, Len(submitters))
  BY <1>2 DEF FUpdateClaims
<1> HIDE DEF amount, submitters, burn, c
<1>6. FuClaimed(c) = c.burned + SumOf(c.paid)
  BY DEF FuClaimed
<1>7. burn => FuClaimed(c) = amount
  BY <1>1, <1>5, <1>6, EqualPartsSpec
<1>8. ASSUME ~burn PROVE FuClaimed(c) = amount
  <2>1. Len(submitters) > 0
    BY <1>3, <1>4, <1>8
  <2>2. SumOf(EqualParts(amount, Len(submitters))) = amount
    BY <1>1, <1>3, <2>1, EqualPartsSpec
  <2> QED
    BY <1>1, <1>5, <1>6, <1>8, <2>2
<1> QED
  BY <1>7, <1>8 DEF c, amount

(* The fast-update part of every round that has a feed is claimed or burned,  *)
(* each part of it once, for every log of updates (gatFUpdateClaims).        *)
THEOREM FuFundsConserved == Spec => []FuConservedWithFeed
<1>1. IInv /\ FuInv => FuConservedWithFeed
  <2> SUFFICES ASSUME IInv, FuInv, phase = "done"
               PROVE  SumOf([n \in DOMAIN fuClaims |-> FuClaimed(fuClaims[n])])
                        = SumFunctionOnSet([r \in Round |-> RoundAmount(fuReward, r)], {r \in Round : ~ShouldBurn(fuRoundRewards[r])})
    BY DEF FuConservedWithFeed
  <2> DEFINE V == {r \in Round : ~ShouldBurn(fuRoundRewards[r])}
             f == [r \in Round |-> RoundAmount(fuReward, r)]
             s == [n \in DOMAIN fuClaims |-> fuClaims[n].round]
             p == [n \in DOMAIN fuClaims |-> FuClaimed(fuClaims[n])]
             l == Len(fuClaims)
  <2>1. PaidRounds(round) = V
    <3>1. round = EndRound + 1
      BY DEF IInv, ClaimedSoFar
    <3> QED
      BY <3>1, Constants DEF PaidRounds, Round
  <2>2. fuClaims \in Seq(ToSet(fuClaims))
    BY DEF FuInv
  <2>3. DOMAIN fuClaims = 1 .. l /\ l \in Nat
    BY <2>2
  <2>4. IsFiniteSet(V)
    <3>1. IsFiniteSet(Round)
      BY Constants, FS_Interval DEF Round
    <3> QED
      BY <3>1, FS_Subset
  <2>5. \A r \in V : r \in Round /\ f[r] = RoundAmount(fuReward, r) /\ f[r] \in Nat
    BY PartsOfStep DEF FuInv
  <2>6. \A n \in 1 .. l : fuClaims[n].round \in V
    BY <2>1, <2>3 DEF FuInv
  <2> HIDE DEF V, f
  <2>7. s \in Seq(V) /\ Len(s) = l /\ DOMAIN s = 1 .. l
    BY <2>3, <2>6
  <2>8. \A v \in V : \E n \in DOMAIN s : s[n] = v
    BY <2>1, <2>3 DEF FuInv
  <2>9. \A m, n \in DOMAIN s : s[m] = s[n] => m = n
    BY <2>3 DEF FuInv
  <2>10. \A n \in 1 .. l : p[n] = f[s[n]]
    <3> TAKE n \in 1 .. l
    <3>1. PICK median \in Medians : fuClaims[n] = FUpdateClaims(fuClaims[n].round, median)
      BY <2>3 DEF FuInv
    <3>2. fuClaims[n].round \in Round /\ s[n] = fuClaims[n].round
      BY <2>3, <2>5, <2>6
    <3>3. FuClaimed(FUpdateClaims(fuClaims[n].round, median)) = RoundAmount(fuReward, fuClaims[n].round)
      BY <3>2, ClaimOfRound
    <3>4. p[n] = FuClaimed(FUpdateClaims(fuClaims[n].round, median))
      BY <2>3, <3>1
    <3>5. f[s[n]] = RoundAmount(fuReward, fuClaims[n].round)
      BY <2>5, <2>6, <3>2
    <3> QED
      BY <3>3, <3>4, <3>5
  <2> HIDE DEF s
  <2>11. p \in Seq(Int) /\ Len(p) = l
    <3>1. \A n \in 1 .. l : p[n] \in Int
      <4>1. \A n \in 1 .. l : s[n] \in V
        BY <2>7
      <4>2. \A v \in V : f[v] \in Int
        BY <2>5
      <4> HIDE DEF p
      <4> QED
        BY <2>10, <4>1, <4>2
    <3>2. p = [n \in 1 .. l |-> p[n]]
      BY <2>3
    <3> HIDE DEF p
    <3> QED
      BY <2>3, <3>1, <3>2
  <2> HIDE DEF p
  <2>12. SumFunctionOnSet(f, V) = SumFunctionOnSet(p, 1 .. Len(s))
    <3>1. \A v \in V : f[v] \in Int
      BY <2>5
    <3>2. \A n \in DOMAIN s : p[n] = f[s[n]]
      BY <2>7, <2>10
    <3> QED
      BY <2>4, <2>7, <2>8, <2>9, <3>1, <3>2, SumInOrder
  <2>13. SumOf(p) = SumFunctionOnSet(p, 1 .. Len(p))
    BY <2>11, SumOfIsSum
  <2> QED
    BY <2>7, <2>11, <2>12, <2>13 DEF p, f, V
<1> QED
  BY <1>1, SpecFuInv, PTL
-----------------------------------------------------------------------------
(* Powers of ten, which the decimals of values and medians are.              *)
LEMMA PowerSteps ==
  ASSUME NEW n \in Nat
  PROVE  \E it \in [0 .. n -> Nat \ {0}] :
           PowerOfTen(n) = it[n] /\ it[0] = 1 /\ \A k \in 1 .. n : it[k] = 10 * it[k - 1]
<1> DEFINE V == Nat \ {0}
           step == [p \in (1 .. n) \X V |-> 10 * p[2]]
           Body(it) == [k \in 0 .. n |-> IF k = 0 THEN 1 ELSE 10 * it[k - 1]]
           power == CHOOSE it : it = Body(it)
<1>1. 1 \in V /\ step \in [(1 .. n) \X V -> V] /\ \A k \in 1 .. n, a \in V : step[<<k, a>>] = 10 * a
  OBVIOUS
<1>2. PICK it \in [0 .. n -> V] : StepByStep(it, n, 1, step)
  <2> HIDE DEF step, V
  <2> QED
    BY <1>1, NatRecursion
<1>3. it[0] = 1 /\ \A k \in 1 .. n : it[k] = 10 * it[k - 1]
  <2>1. \A k \in 1 .. n : it[k - 1] \in V
    <3> HIDE DEF V
    <3> QED
      BY <1>2
  <2>2. it[0] = 1 /\ \A k \in 1 .. n : it[k] = step[<<k, it[k - 1]>>]
    <3> HIDE DEF step
    <3> QED
      BY <1>2 DEF StepByStep
  <2> HIDE DEF step
  <2> QED
    BY <1>1, <2>1, <2>2
<1>4. it = Body(it)
  <2>1. \A k \in 0 .. n : it[k] = IF k = 0 THEN 1 ELSE 10 * it[k - 1]
    BY <1>3
  <2> HIDE DEF V
  <2> QED
    BY <1>2, <2>1
<1>5. PowerOfTen(n) = power[n] /\ power = Body(power)
  BY <1>4 DEF PowerOfTen
<1> HIDE DEF power
<1>6. power[0] = 1 /\ \A k \in 1 .. n : power[k] = 10 * power[k - 1]
  BY <1>5
<1> DEFINE I == {k \in Nat : k <= n => power[k] \in V}
<1>7. Nat \subseteq I
  <2>1. 0 \in I
    BY <1>6
  <2>2. ASSUME NEW k \in Nat, k \in I PROVE k + 1 \in I
    <3> SUFFICES ASSUME k + 1 <= n PROVE power[k + 1] \in V
      OBVIOUS
    <3>1. power[k + 1] = 10 * power[k] /\ power[k] \in V
      BY <1>6, <2>2
    <3> QED
      BY <3>1
  <2> HIDE DEF I
  <2> QED
    BY <2>1, <2>2, SetInduction
<1>8. power \in [0 .. n -> V]
  <2>1. \A k \in 0 .. n : power[k] \in V
    BY <1>7
  <2>2. power = [k \in 0 .. n |-> power[k]]
    BY <1>5
  <2> HIDE DEF V
  <2> QED
    BY <2>1, <2>2
<1> QED
  BY <1>5, <1>6, <1>8

LEMMA PowerOfTenStep ==
  /\ PowerOfTen(0) = 1
  /\ \A n \in Nat : PowerOfTen(n) \in Nat \ {0} /\ PowerOfTen(n + 1) = 10 * PowerOfTen(n)
<1>1. PowerOfTen(0) = 1
  <2>1. 0 \in Nat
    OBVIOUS
  <2> QED
    BY <2>1, PowerSteps
<1>2. ASSUME NEW n \in Nat
      PROVE  PowerOfTen(n) \in Nat \ {0} /\ PowerOfTen(n + 1) = 10 * PowerOfTen(n)
  <2>1. PICK it \in [0 .. n -> Nat \ {0}] :
          PowerOfTen(n) = it[n] /\ it[0] = 1 /\ \A k \in 1 .. n : it[k] = 10 * it[k - 1]
    BY PowerSteps
  <2>2. PICK jt \in [0 .. n + 1 -> Nat \ {0}] :
          PowerOfTen(n + 1) = jt[n + 1] /\ jt[0] = 1 /\ \A k \in 1 .. n + 1 : jt[k] = 10 * jt[k - 1]
    <3>1. n + 1 \in Nat
      OBVIOUS
    <3> QED
      BY <3>1, PowerSteps
  <2> DEFINE I == {k \in Nat : k <= n => it[k] = jt[k]}
  <2>3. 0 \in I
    BY <2>1, <2>2
  <2>4. \A k \in Nat : k \in I => k + 1 \in I
    <3> SUFFICES ASSUME NEW k \in Nat, k \in I, k + 1 <= n PROVE it[k + 1] = jt[k + 1]
      OBVIOUS
    <3>1. it[k + 1] = 10 * it[k] /\ jt[k + 1] = 10 * jt[k] /\ it[k] = jt[k]
      BY <2>1, <2>2
    <3> QED
      BY <3>1
  <2>5. it[n] = jt[n]
    <3>1. Nat \subseteq I
      <4> HIDE DEF I
      <4> QED
        BY <2>3, <2>4, SetInduction
    <3> QED
      BY <3>1
  <2> QED
    BY <2>1, <2>2, <2>5
<1> QED
  BY <1>1, <1>2

LEMMA PowerOfSum ==
  ASSUME NEW m \in Nat, NEW n \in Nat
  PROVE  PowerOfTen(m + n) = PowerOfTen(m) * PowerOfTen(n)
<1> DEFINE I == {k \in Nat : PowerOfTen(m + k) = PowerOfTen(m) * PowerOfTen(k)}
<1>1. 0 \in I
  <2>1. m + 0 = m /\ PowerOfTen(m) \in Nat /\ PowerOfTen(0) = 1
    BY PowerOfTenStep
  <2> QED
    BY <2>1
<1>2. ASSUME NEW k \in Nat, k \in I PROVE k + 1 \in I
  <2> DEFINE a == PowerOfTen(m)   b == PowerOfTen(k)
  <2>1. m + k \in Nat /\ (m + k) + 1 = m + (k + 1)
    OBVIOUS
  <2>2. a \in Nat /\ b \in Nat
    BY PowerOfTenStep
  <2>3. PowerOfTen(m + (k + 1)) = 10 * PowerOfTen(m + k) /\ PowerOfTen(k + 1) = 10 * b
    BY <2>1, PowerOfTenStep
  <2>4. PowerOfTen(m + k) = a * b
    BY <1>2
  <2> HIDE DEF a, b
  <2>5. 10 * (a * b) = a * (10 * b)
    BY <2>2, SMT
  <2>6. PowerOfTen(m + (k + 1)) = a * PowerOfTen(k + 1)
    BY <2>3, <2>4, <2>5
  <2> QED
    BY <2>6 DEF a
<1>3. Nat \subseteq I
  <2> HIDE DEF I
  <2> QED
    BY <1>1, <1>2, SetInduction
<1> QED
  BY <1>3

LEMMA MaxOfOpposites ==
  ASSUME NEW x \in Int
  PROVE  Max({x, -x}) = IF x >= 0 THEN x ELSE -x
<1> DEFINE S == {x, -x}
           y == IF x >= 0 THEN x ELSE -x
<1>1. y \in S /\ \A z \in S : z <= y
  OBVIOUS
<1>2. Max(S) \in S /\ \A z \in S : Max(S) >= z
  BY <1>1 DEF Max
<1>3. Max(S) \in Int /\ y \in Int
  BY <1>1, <1>2
<1>4. Max(S) <= y /\ y <= Max(S)
  BY <1>1, <1>2
<1> HIDE DEF y, S
<1>5. Max(S) = y
  BY <1>3, <1>4
<1> QED
  BY <1>5 DEF S, y

(* The band test of the code, which scales to the larger number of decimals   *)
(* and rounds the band down, is the comparison of the two numbers.           *)
LEMMA BandTest ==
  ASSUME NEW v \in Int, NEW m \in Int, NEW d \in Nat, NEW D \in Nat, NEW b \in Nat
  PROVE  LET value == ScaledValue(v, d, D)
             center == ScaledMedian(m, d, D)
             delta == (center * b) \div TotalPPM
             difference == v * PowerOfTen(D) - m * PowerOfTen(d)
         IN  ~(value < center - delta \/ value > center + delta)
               <=> Max({difference, -difference}) * TotalPPM <= m * PowerOfTen(d) * b
<1> DEFINE value == ScaledValue(v, d, D)
           center == ScaledMedian(m, d, D)
           delta == (center * b) \div TotalPPM
           difference == v * PowerOfTen(D) - m * PowerOfTen(d)
           T == TotalPPM
           vD == v * PowerOfTen(D)
           md == m * PowerOfTen(d)
<1>1. T \in Nat /\ T > 0
  BY FeedConfigsAssumption
<1>2. /\ PowerOfTen(d) \in Nat \ {0} /\ PowerOfTen(D) \in Nat \ {0}
      /\ vD \in Int /\ md \in Int
  BY PowerOfTenStep
<1>3. \E k \in Nat \ {0} : value \in Int /\ center \in Int /\ value * k = vD /\ center * k = md
  <2>1. CASE d < D
    <3> DEFINE p == PowerOfTen(D - d)   k == PowerOfTen(d)
    <3>1. D - d \in Nat /\ d + (D - d) = D /\ ~(d > D)
      BY <2>1
    <3>2. PowerOfTen(D) = k * p /\ p \in Nat
      <4>1. PowerOfTen(d + (D - d)) = PowerOfTen(d) * PowerOfTen(D - d)
        BY <3>1, PowerOfSum
      <4>2. PowerOfTen(D - d) \in Nat
        BY <3>1, PowerOfTenStep
      <4> QED
        BY <3>1, <4>1, <4>2
    <3>3. value = v * p /\ center = m
      BY <2>1, <3>1 DEF ScaledValue, ScaledMedian
    <3>4. k \in Nat \ {0}
      BY <1>2
    <3> HIDE DEF p, k, value, center
    <3>5. v * (k * p) = (v * p) * k /\ v * p \in Int
      BY <3>2, <3>4, SMT
    <3>6. value \in Int /\ center \in Int /\ value * k = vD /\ center * k = md
      BY <3>2, <3>3, <3>5 DEF k
    <3> QED
      BY <3>4, <3>6
  <2>2. CASE d > D
    <3> DEFINE p == PowerOfTen(d - D)   k == PowerOfTen(D)
    <3>1. d - D \in Nat /\ D + (d - D) = d /\ ~(d < D)
      BY <2>2
    <3>2. PowerOfTen(d) = k * p /\ p \in Nat
      <4>1. PowerOfTen(D + (d - D)) = PowerOfTen(D) * PowerOfTen(d - D)
        BY <3>1, PowerOfSum
      <4>2. PowerOfTen(d - D) \in Nat
        BY <3>1, PowerOfTenStep
      <4> QED
        BY <3>1, <4>1, <4>2
    <3>3. value = v /\ center = m * p
      BY <2>2, <3>1 DEF ScaledValue, ScaledMedian
    <3>4. k \in Nat \ {0}
      BY <1>2
    <3> HIDE DEF p, k, value, center
    <3>5. m * (k * p) = (m * p) * k /\ m * p \in Int
      BY <3>2, <3>4, SMT
    <3>6. value \in Int /\ center \in Int /\ value * k = vD /\ center * k = md
      BY <3>2, <3>3, <3>5 DEF k
    <3> QED
      BY <3>4, <3>6
  <2>3. CASE d = D
    <3>1. value = v /\ center = m
      BY <2>3 DEF ScaledValue, ScaledMedian
    <3> QED
      BY <1>2, <2>3, <3>1
  <2> QED
    BY <2>1, <2>2, <2>3
<1> HIDE DEF value, center
<1>4. PICK k \in Nat \ {0} : value \in Int /\ center \in Int /\ value * k = vD /\ center * k = md
  BY <1>3
<1> DEFINE x == value - center
           y == IF x >= 0 THEN x ELSE -x
           cb == center * b
<1>5. cb \in Int /\ x \in Int
  BY <1>4, SMT
<1>6. delta \in Int /\ T * delta <= cb /\ cb < T * delta + T
  BY <1>1, <1>5, DivOfInt
<1>7. difference = x * k /\ md * b = cb * k
  <2>1. (value - center) * k = value * k - center * k
    BY <1>4, SMT
  <2>2. (center * k) * b = (center * b) * k
    BY <1>4, SMT
  <2> QED
    BY <1>4, <2>1, <2>2
<1> HIDE DEF difference, delta, cb, vD, md, T
<1>8. ~(value < center - delta \/ value > center + delta) <=> y <= delta
  BY <1>4, <1>6
<1>9. y \in Nat
  BY <1>5
<1>10. Max({difference, -difference}) = y * k
  <2>1. difference \in Int
    BY <1>4, <1>5, <1>7, SMT
  <2>2. x >= 0 => x * k >= 0
    BY <1>4, <1>5, SMT
  <2>3. x < 0 => x * k < 0
    BY <1>4, <1>5, SMT
  <2>4. (-x) * k = -(x * k)
    BY <1>4, <1>5, SMT
  <2>5. x * k \in Int
    BY <1>7, <2>1
  <2> DEFINE xk == x * k
  <2> HIDE DEF xk, x
  <2>6. Max({difference, -difference}) = IF xk >= 0 THEN xk ELSE -xk
    BY <1>7, <2>1, MaxOfOpposites DEF xk
  <2>7. y * k = IF x >= 0 THEN xk ELSE -xk
    BY <2>4 DEF xk
  <2> QED
    BY <1>5, <2>2, <2>3, <2>5, <2>6, <2>7 DEF xk
<1> HIDE DEF x, y
<1>11. y <= delta <=> y * T <= cb
  <2>1. y <= delta => y * T <= cb
    <3> SUFFICES ASSUME y <= delta PROVE y * T <= cb
      OBVIOUS
    <3>1. y * T <= delta * T
      BY <1>1, <1>6, <1>9, MulMono
    <3>2. delta * T = T * delta /\ y * T \in Int
      BY <1>1, <1>6, <1>9, SMT
    <3> QED
      BY <1>1, <1>5, <1>6, <3>1, <3>2, SMT
  <2>2. y > delta => y * T > cb
    <3> SUFFICES ASSUME y > delta PROVE y * T > cb
      OBVIOUS
    <3>1. (delta + 1) * T <= y * T
      BY <1>1, <1>6, <1>9, MulMono
    <3>2. (delta + 1) * T = T * delta + T /\ y * T \in Int
      BY <1>1, <1>6, <1>9, SMT
    <3> QED
      BY <1>1, <1>5, <1>6, <3>1, <3>2, SMT
  <2>3. y * T \in Int
    BY <1>1, <1>9, SMT
  <2> QED
    BY <1>5, <1>6, <1>9, <2>1, <2>2, <2>3
<1>12. y * T <= cb <=> (y * k) * T <= md * b
  <2>1. (y * k) * T = (y * T) * k /\ y * T \in Int
    BY <1>1, <1>4, <1>9, SMT
  <2>2. y * T <= cb => (y * T) * k <= cb * k
    BY <1>4, <1>5, <2>1, MulMono
  <2>3. (y * T) * k <= cb * k => y * T <= cb
    BY <1>4, <1>5, <2>1, MulCancel
  <2> QED
    BY <1>7, <2>1, <2>2, <2>3
<1>13. ~(value < center - delta \/ value > center + delta) <=> Max({difference, -difference}) * T <= md * b
  BY <1>8, <1>10, <1>11, <1>12
<1> QED
  BY <1>13 DEF value, center, delta, difference, T, md
-----------------------------------------------------------------------------
LEMMA SelectableFeeds ==
  LET able == AtPositions(FeedConfigs, SelectablePositions)
  IN  /\ Len(able) = Len(selectableFeedIndexes)
      /\ \A k \in 1 .. Len(selectableFeedIndexes) : able[k] = FeedConfigs[selectableFeedIndexes[k]]
<1> DEFINE F == ToSet(FeedConfigs)
           P == SelectablePositions
           places == selectableFeedIndexes
<1>1. FeedConfigs \in Seq(F)
  BY FeedConfigsAssumption
<1>2. places = AtPositions([n \in DOMAIN FeedConfigs |-> n], P)
  BY DEF selectableFeedIndexes, SelectablePositions
<1> HIDE DEF F, P, places
<1>3. AtPositions(FeedConfigs, P) = TakenAt(FeedConfigs, places)
  BY <1>1, <1>2, AtPositionsOfPlaces
<1>4. Len(places) \in Nat
  BY SelectableSpec DEF places
<1>5. Len(TakenAt(FeedConfigs, places)) = Len(places)
      /\ \A k \in 1 .. Len(places) : TakenAt(FeedConfigs, places)[k] = FeedConfigs[places[k]]
  BY <1>4 DEF TakenAt
<1> QED
  BY <1>3, <1>5 DEF places, P

(* The feed whose value decides a round is the feed that was drawn.          *)
LEMMA FeedOfRound ==
  ASSUME IInv, FuInv, phase \in {"claim", "done", "fatal"}, NEW r \in Round, ~ShouldBurn(fuRoundRewards[r])
  PROVE  LET i == FeedIndex(r)
         IN  /\ i \in DOMAIN FeedConfigs /\ fuRoundRewards[r].Feed = i
             /\ FeedDrawn(r) = FeedConfigs[i].feed
             /\ Published(FeedDrawn(r), r) = [value |-> FeedsOf(log, r).values[i],
                                              decimals |-> FeedsOf(log, r).decimals[i],
                                              band |-> FeedConfigs[i].band]
             /\ Decimals[FuFeed(i)] \in Nat
             /\ FuFeed(i) = IF FeedDrawn(r) \in ToSet(OrderedFeeds) THEN FeedDrawn(r) ELSE OldToNewFeed[FeedDrawn(r)]
<1> DEFINE i == FeedIndex(r)
           l == Len(selectableFeedIndexes)
           k == Drawn(r, l)
           random == randoms[r - StartRound + 1]
           f == FeedConfigs[i].feed
           able == AtPositions(FeedConfigs, SelectablePositions)
<1>1. fuRoundRewards[r].Feed = i
  <2>1. fuRoundRewards[r] = [Amount |-> RoundAmount(fuReward, r), Feed |-> i]
    BY Zenon DEF FuInv
  <2> QED
    BY <2>1
<1>2. random # Nil
  BY <1>1, DrawnSpec DEF ShouldBurn
<1>3. l \in Nat \ {0} /\ \A n \in SelectablePositions : n \in DOMAIN FeedConfigs
  BY SelectableSpec
<1>4. k \in 1 .. l /\ k = (draw[random] % l) + 1 /\ i = selectableFeedIndexes[k] /\ i \in SelectablePositions
  BY <1>2, <1>3, DrawnSpec
<1>5. Len(able) = l /\ \A n \in 1 .. l : able[n] = FeedConfigs[selectableFeedIndexes[n]]
  BY SelectableFeeds
<1>6. FeedDrawn(r) = f
  <2>1. SelectablePositions = {n \in DOMAIN FeedConfigs :
                                 {FeedConfigs[n].feed, Renamed(FeedConfigs[n].feed)} \cap ToSet(OrderedFeeds) # {}}
    BY DEF SelectablePositions, Selectable
  <2>2. FeedDrawn(r) = able[(draw[random] % Len(able)) + 1].feed
    BY <2>1 DEF FeedDrawn
  <2> HIDE DEF k, able, random
  <2>3. Len(able) = l /\ able[k] = FeedConfigs[i]
    BY <1>3, <1>4, <1>5
  <2> QED
    BY <1>4, <2>2, <2>3
<1>7. i \in DOMAIN FeedConfigs
  BY <1>3, <1>4
<1>8. (CHOOSE n \in DOMAIN FeedConfigs : FeedConfigs[n].feed = f) = i
  <2> DEFINE n == CHOOSE n \in DOMAIN FeedConfigs : FeedConfigs[n].feed = f
  <2> HIDE DEF i
  <2>1. n \in DOMAIN FeedConfigs /\ FeedConfigs[n].feed = f
    BY <1>7
  <2> HIDE DEF n
  <2>2. n = i
    BY <1>7, <2>1, FeedConfigsAssumption
  <2> QED
    BY <2>2 DEF n
<1>9. Published(FeedDrawn(r), r) = [value |-> FeedsOf(log, r).values[i],
                                    decimals |-> FeedsOf(log, r).decimals[i],
                                    band |-> FeedConfigs[i].band]
  BY <1>6, <1>8 DEF Published
<1>10. FuFeed(i) = (IF f \in ToSet(OrderedFeeds) THEN f ELSE OldToNewFeed[f]) /\ FuFeed(i) \in ToSet(OrderedFeeds)
  <2>1. Selectable(f)
    BY <1>4 DEF SelectablePositions
  <2>2. FuFeed(i) = IF f \in ToSet(OrderedFeeds) THEN f ELSE Renamed(f)
    BY DEF FuFeed
  <2>3. f \notin ToSet(OrderedFeeds) => Renamed(f) \in ToSet(OrderedFeeds) /\ Renamed(f) # "none"
    BY <2>1, FeedsAssumption DEF Selectable
  <2> QED
    BY <2>2, <2>3 DEF Renamed
<1>11. Decimals[FuFeed(i)] \in Nat
  BY <1>10, FeedsAssumption
<1> QED
  BY <1>1, <1>6, <1>7, <1>9, <1>10, <1>11

LEMMA FeedsOfSpec ==
  ASSUME NEW l \in Logs, NEW r \in Round, NEW i \in DOMAIN FeedConfigs
  PROVE  FeedsOf(l, r).values[i] \in Int /\ FeedsOf(l, r).decimals[i] \in Nat
<1> DEFINE E == ToSet(l.feeds)
           s == l.feeds
           P == {n \in DOMAIN s : s[n].round = r}
<1>1. s \in Seq(E) /\ \E e \in E : e.round = r
  BY LogsAssumption
<1>2. \A e \in E : e.values[i] \in Int /\ e.decimals[i] \in Nat
  BY LogsAssumption
<1>3. Len(s) \in Nat /\ DOMAIN s = 1 .. Len(s) /\ P \subseteq 1 .. Len(s)
  BY <1>1
<1>4. P # {}
  BY <1>1 DEF ToSet
<1>5. Max(P) \in P
  <2> HIDE DEF P, s
  <2> QED
    BY <1>3, <1>4, MaxOfPositions
<1>6. FeedsOf(l, r) \in E
  BY <1>5 DEF FeedsOf, ToSet
<1> QED
  BY <1>2, <1>6

(* The submitters of a round are paid exactly if the value published for the  *)
(* feed that was drawn is within its band around the median (checkBurnReward),*)
(* for all values, bands and numbers of decimals, and every list of feeds    *)
(* and renamings.                                                           *)
THEOREM PaidIffWithinBand == Spec => []FuPaidWithinBand
<1>1. ASSUME IInv, FuInv PROVE FuPaidWithinBand
  <2> SUFFICES ASSUME NEW n \in DOMAIN fuClaims
               PROVE  LET c == fuClaims[n]
                          p == Published(FeedDrawn(c.round), c.round)
                          feed == FeedDrawn(c.round)
                          of == PowerOfTen(Decimals[IF feed \in ToSet(OrderedFeeds) THEN feed ELSE OldToNewFeed[feed]])
                          difference == p.value * of - c.median.value * PowerOfTen(p.decimals)
                      IN  c.paid # <<>> <=>
                            /\ SubmittersOf(log, c.round) # <<>>
                            /\ c.median # NoMedian
                            /\ Max({difference, -difference}) * TotalPPM
                                 <= c.median.value * PowerOfTen(p.decimals) * p.band
    BY DEF FuPaidWithinBand
  <2> DEFINE c == fuClaims[n]
             r == c.round
             i == FeedIndex(r)
             p == Published(FeedDrawn(r), r)
             feed == FeedDrawn(r)
             submitters == SubmittersOf(log, r)
             D == Decimals[FuFeed(i)]
             v == FeedsOf(log, r).values[i]
             d == FeedsOf(log, r).decimals[i]
             b == FeedConfigs[i].band
  <2>1. phase \in {"claim", "done", "fatal"}
    <3>1. phase \in {"select", "ahead", "reward"} => DOMAIN fuClaims = {}
      BY <1>1 DEF FuInv
    <3> QED
      BY <1>1, <3>1 DEF IInv, TypeOK
  <2>2. r \in PaidRounds(round) /\ \E median \in Medians : c = FUpdateClaims(r, median)
    BY <1>1, <2>1 DEF FuInv
  <2>3. PICK median \in Medians : c = FUpdateClaims(r, median)
    BY <2>2
  <2>4. r \in Round /\ ~ShouldBurn(fuRoundRewards[r])
    <3>1. round \in StartRound .. EndRound + 1
      BY <1>1, <2>1 DEF IInv, ClaimedSoFar
    <3> QED
      BY <2>2, <3>1, Constants DEF PaidRounds, Round
  <2>5. /\ i \in DOMAIN FeedConfigs /\ fuRoundRewards[r].Feed = i
        /\ p = [value |-> v, decimals |-> d, band |-> b]
        /\ D \in Nat /\ FuFeed(i) = IF feed \in ToSet(OrderedFeeds) THEN feed ELSE OldToNewFeed[feed]
    BY <1>1, <2>1, <2>4, FeedOfRound
  <2>6. v \in Int /\ d \in Nat /\ b \in Nat
    BY <1>1, <2>4, <2>5, FeedsOfSpec, FeedConfigsAssumption DEF FuInv
  <2>7. p.value = v /\ p.decimals = d /\ p.band = b
    BY <2>5
  <2> DEFINE burn == CheckBurnReward(i, FeedsOf(log, r), submitters, median, D)
             parts == EqualParts(RoundAmount(fuReward, r), Len(submitters))
  <2>8. c.median = median /\ c.paid = IF burn THEN <<>> ELSE parts
    <3>1. fuRoundRewards[r].Amount = RoundAmount(fuReward, r)
      <4>1. fuRoundRewards[r] = [Amount |-> RoundAmount(fuReward, r), Feed |-> i]
        BY <1>1, <2>1, <2>4, Zenon DEF FuInv
      <4> QED
        BY <4>1
    <3> DEFINE u == FUpdateClaims(r, median)
    <3>2. u.median = median /\ u.paid = IF burn THEN <<>> ELSE parts
      BY <2>5, <3>1 DEF FUpdateClaims
    <3> HIDE DEF u
    <3>3. fuClaims[n] = u
      BY <2>3 DEF u
    <3> HIDE DEF burn, parts
    <3> QED
      BY <3>2, <3>3
  <2>9. parts = <<>> <=> submitters = <<>>
    <3>1. Len(submitters) \in Nat /\ (submitters = <<>> <=> Len(submitters) = 0)
      BY <1>1, SubmittersSpec DEF FuInv
    <3>2. RoundAmount(fuReward, r) \in Nat
      BY <1>1, <2>4, PartsOfStep DEF FuInv
    <3> QED
      BY <3>1, <3>2, EqualPartsSpec
  <2> DEFINE m == median.value
             within == Max({v * PowerOfTen(D) - m * PowerOfTen(d), -(v * PowerOfTen(D) - m * PowerOfTen(d))}) * TotalPPM
                         <= m * PowerOfTen(d) * b
  <2>10. median # NoMedian => m \in Int
    BY MediansAssumption
  <2>11. burn <=> submitters = <<>> \/ median = NoMedian \/ ~within
    <3> DEFINE value == ScaledValue(v, d, D)
               center == ScaledMedian(m, d, D)
               delta == (center * b) \div TotalPPM
               outside == value < center - delta \/ value > center + delta
    <3>1. burn <=> submitters = <<>> \/ median = NoMedian \/ outside
      BY DEF CheckBurnReward
    <3>2. median # NoMedian => (~outside <=> within)
      <4> HIDE DEF m, v, d, D, b
      <4> QED
        BY <2>5, <2>6, <2>10, BandTest
    <3> HIDE DEF outside, within, burn, submitters
    <3> QED
      BY <3>1, <3>2
  <2> HIDE DEF burn, parts
  <2>12. c.paid # <<>> <=> submitters # <<>> /\ median # NoMedian /\ within
    <3> HIDE DEF within, submitters, c
    <3> QED
      BY <2>8, <2>9, <2>11
  <2>13. D = Decimals[IF feed \in ToSet(OrderedFeeds) THEN feed ELSE OldToNewFeed[feed]]
    <3> HIDE DEF feed
    <3> QED
      BY <2>5
  <2>14. /\ p.value * PowerOfTen(D) - c.median.value * PowerOfTen(p.decimals) = v * PowerOfTen(D) - m * PowerOfTen(d)
         /\ c.median.value * PowerOfTen(p.decimals) * p.band = m * PowerOfTen(d) * b
    <3> HIDE DEF c, p, v, d, b, D
    <3> QED
      BY <2>7, <2>8
  <2> QED
    BY <2>8, <2>12, <2>13, <2>14
<1> QED
  BY <1>1, SpecFuInv, PTL
=============================================================================
