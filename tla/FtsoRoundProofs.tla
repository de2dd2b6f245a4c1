-------------------------- MODULE FtsoRoundProofs --------------------------
(***************************************************************************)
(* One round of FTSO, for policies of every size, all weights and rewards,  *)
(* any relay calls and any number of messages at any time.                 *)
(***************************************************************************)
EXTENDS FtsoRound, FoldLemmas

Signatures == [from : Senders, good : BOOLEAN, readable : BOOLEAN, ts : Nat]
Calls == UNION {RelayCalls[s] : s \in Senders}
Relayed == [from : Senders, call : Calls, reverted : BOOLEAN, ts : Nat]

ChainTypeOK ==
  /\ relayV2 \in BOOLEAN /\ now \in Nat
  /\ sigs \in Seq(Signatures) /\ \A n \in DOMAIN sigs : sigs[n].good => sigs[n].from \in Voters
  /\ relays \in Seq(Relayed)

(* The messages are not read yet, or could not be.                           *)
Unread == signingPhase \in {"chain", "fatal"}

TypeOK ==
  /\ ChainTypeOK
  /\ signingPhase \in {"chain", "signers", "done", "fatal"}
  /\ finalizationPhase \in {"chain", "claims", "pay", "done"}
  /\ Unread = (finalizationPhase = "chain")
  /\ finalizationPhase \in {"pay", "done"} => signingPhase = "done"
  /\ eligibleVoters \subseteq Voters /\ finalizers \subseteq Voters
  /\ ~Unread => finalizers # {}
  /\ finality \in Int

(* The finalizations of a round: calls that count, one of each sender.       *)
OneOfEachSender(fs) == \A n, m \in DOMAIN fs : fs[n].from = fs[m].from => n = m
FinalizationsOK ==
  /\ finalizations \in Seq(Relayed) /\ OneOfEachSender(finalizations)
  /\ \A n \in DOMAIN finalizations : Counts(finalizations[n].call)
-----------------------------------------------------------------------------
(* The instances read the chain, and sum, by the same definitions. *)
LEMMA SameOperators ==
  /\ Finalization!Senders = Senders
  /\ Finalization!GetFinalizationsByRound = GetFinalizationsByRound
  /\ Signing!GetFinalizationsByRound = GetFinalizationsByRound
  /\ Signing!ExtractSignatures = ExtractSignatures
  /\ \A fs : Finalization!FirstSuccessful(fs) = FirstSuccessful(fs) /\ Signing!FirstSuccessful(fs) = FirstSuccessful(fs)
  /\ \A f, S : Finalization!SumFunctionOnSet(f, S) = SumFunctionOnSet(f, S)
  /\ \A f, S : Signing!SumFunctionOnSet(f, S) = SumFunctionOnSet(f, S)
<1>1. Finalization!Senders = Senders
  BY DEF Finalization!Senders, Senders
<1>2. Finalization!GetFinalizationsByRound = GetFinalizationsByRound
  BY Zenon DEF Finalization!GetFinalizationsByRound, GetFinalizationsByRound,
     Finalization!GetFinalizations, GetFinalizations, Finalization!AtPositions, AtPositions,
     Finalization!InEpoch, InEpoch, Finalization!Counts, Counts, Finalization!Decodes, Decodes,
     Finalization!ReadList, ReadList, Finalization!NothingRead, NothingRead,
     Finalization!ReadSignature, ReadSignature, Finalization!Accept, Accept
<1>3. Signing!GetFinalizationsByRound = GetFinalizationsByRound
  BY Zenon DEF Signing!GetFinalizationsByRound, GetFinalizationsByRound, Signing!GetFinalizations,
     GetFinalizations, Signing!AtPositions, AtPositions, Signing!InEpoch, InEpoch, Signing!Counts,
     Counts, Signing!Decodes, Decodes, Signing!ReadList, ReadList, Signing!NothingRead, NothingRead,
     Signing!ReadSignature, ReadSignature, Signing!Accept, Accept
<1>4. Signing!ExtractSignatures = ExtractSignatures
  BY Zenon DEF Signing!ExtractSignatures, ExtractSignatures, Signing!AtPositions, AtPositions,
     Signing!InEpoch, InEpoch
<1>5. \A fs : Finalization!FirstSuccessful(fs) = FirstSuccessful(fs)
  BY Zenon DEF Finalization!FirstSuccessful, FirstSuccessful, Finalization!SelectInSeq, SelectInSeq,
     Finalization!Min, Min
<1>6. \A fs : Signing!FirstSuccessful(fs) = FirstSuccessful(fs)
  BY Zenon DEF Signing!FirstSuccessful, FirstSuccessful, Signing!SelectInSeq, SelectInSeq,
     Signing!Min, Min
<1>7. \A f, S : Finalization!SumFunctionOnSet(f, S) = SumFunctionOnSet(f, S)
  BY Zenon DEF Finalization!SumFunctionOnSet, SumFunctionOnSet, Finalization!FoldFunctionOnSet,
     FoldFunctionOnSet, Finalization!MapThenFoldSet, MapThenFoldSet
<1>8. \A f, S : Signing!SumFunctionOnSet(f, S) = SumFunctionOnSet(f, S)
  BY Zenon DEF Signing!SumFunctionOnSet, SumFunctionOnSet, Signing!FoldFunctionOnSet,
     FoldFunctionOnSet, Signing!MapThenFoldSet, MapThenFoldSet
<1> QED
  BY <1>1, <1>2, <1>3, <1>4, <1>5, <1>6, <1>7, <1>8

(* What is read of the chain. *)
LEMMA Constants ==
  /\ RevealDeadline \in Nat /\ EpochEnd \in Nat /\ LastSecond \in Nat /\ EpochEnd <= LastSecond
  /\ GracePeriodSignatures \in Nat /\ GracePeriodFinalization \in Nat
  /\ SigningPart \in Nat /\ FinalizationPart \in Nat
  /\ IsFiniteSet(Voters) /\ IsFiniteSet(Senders) /\ Voters \subseteq Senders
BY TimesAssumption, AccountsAssumption, RewardsAssumption, FS_Union DEF Senders

LEMMA GetFinalizationsSpec ==
  ASSUME relays \in Seq(Relayed)
  PROVE  /\ GetFinalizationsByRound \in Seq(Relayed)
         /\ OneOfEachSender(GetFinalizationsByRound)
         /\ \A n \in DOMAIN GetFinalizationsByRound : Counts(GetFinalizationsByRound[n].call)
<1> DEFINE P == {n \in DOMAIN relays : Counts(relays[n].call) /\ InEpoch(relays[n])}
           fs == GetFinalizations
           Q == {n \in DOMAIN fs : \A m \in 1 .. n - 1 : fs[m].from # fs[n].from}
           first == GetFinalizationsByRound
<1>1. fs = AtPositions(relays, P) /\ first = AtPositions(fs, Q)
  BY DEF GetFinalizations, GetFinalizationsByRound
<1>2. fs \in Seq(Relayed) /\ \E at : TakenFrom(fs, relays, P, Len(relays), at)
  <2> HIDE DEF fs, P
  <2> QED
    BY <1>1, AtPositionsSpec
<1>3. \A n \in 1 .. Len(fs) : Counts(fs[n].call)
  BY <1>2 DEF TakenFrom
<1> HIDE DEF fs
<1>4. first \in Seq(Relayed) /\ \E at : TakenFrom(first, fs, Q, Len(fs), at)
  <2> HIDE DEF first, Q
  <2> QED
    BY <1>1, <1>2, AtPositionsSpec
<1> HIDE DEF first
<1>5. PICK at : TakenFrom(first, fs, Q, Len(fs), at)
  BY <1>4
<1>6. DOMAIN first = 1 .. Len(first) /\ Len(first) \in Nat /\ DOMAIN fs = 1 .. Len(fs) /\ Len(fs) \in Nat
  BY <1>2, <1>4
<1>7. \A k \in 1 .. Len(first) : at[k] \in Q /\ at[k] \in 1 .. Len(fs) /\ first[k] = fs[at[k]]
  BY <1>5 DEF TakenFrom
<1>8. \A n, m \in DOMAIN first : n < m => first[n].from # first[m].from
  <2> TAKE n, m \in DOMAIN first
  <2> HAVE n < m
  <2>1. at[n] < at[m]
    BY <1>5, <1>6 DEF TakenFrom
  <2>2. at[n] \in 1 .. at[m] - 1
    BY <1>6, <1>7, <2>1
  <2> QED
    BY <1>6, <1>7, <2>2
<1>9. OneOfEachSender(first)
  <2>1. \A n, m \in DOMAIN first : n < m \/ m < n \/ n = m
    BY <1>6
  <2> QED
    BY <1>8, <2>1 DEF OneOfEachSender
<1>10. \A n \in DOMAIN first : Counts(first[n].call)
  BY <1>3, <1>6, <1>7
<1> QED
  BY <1>4, <1>9, <1>10 DEF first

LEMMA FirstSuccessfulSpec ==
  ASSUME NEW fs \in Seq(Relayed)
  PROVE  /\ FirstSuccessful(fs) \in 0 .. Len(fs)
         /\ FirstSuccessful(fs) > 0 => ~fs[FirstSuccessful(fs)].reverted
         /\ fs # <<>> /\ ~fs[1].reverted => FirstSuccessful(fs) = 1
<1> DEFINE T == {n \in 1 .. Len(fs) : ~fs[n].reverted}
<1>1. FirstSuccessful(fs) = IF T # {} THEN Min(T) ELSE 0
  BY DEF FirstSuccessful, SelectInSeq
<1>2. T \in SUBSET Nat /\ T \subseteq 1 .. Len(fs) /\ Len(fs) \in Nat
  OBVIOUS
<1>3. T # {} => Min(T) \in T /\ \A y \in T : Min(T) <= y
  <2> HIDE DEF T
  <2> QED
    BY <1>2, MinOfNat
<1>4. fs # <<>> /\ ~fs[1].reverted => 1 \in T
  OBVIOUS
<1>5. T # {} => Min(T) \in 1 .. Len(fs) /\ ~fs[Min(T)].reverted
  BY <1>3
<1> HIDE DEF T
<1> QED
  BY <1>1, <1>2, <1>3, <1>4, <1>5

(* Those that share: drawn finalizers of a call in the grace period.         *)
grace == Finalization!graceFinalizations
InGrace(f) == f.from \in finalizers /\ f.ts <= Finalization!GraceDeadline

LEMMA GraceSpec ==
  ASSUME FinalizationsOK
  PROVE  /\ grace \in Seq(Relayed) /\ OneOfEachSender(grace)
         /\ \A n \in DOMAIN grace : grace[n].from \in finalizers
         /\ finalizations # <<>> /\ InGrace(finalizations[1]) => grace # <<>> /\ grace[1] = finalizations[1]
<1> DEFINE P == {n \in DOMAIN finalizations : InGrace(finalizations[n])}
           fs == finalizations
           g == grace
<1>1. g = AtPositions(fs, P)
  BY DEF grace, Finalization!graceFinalizations, Finalization!AtPositions, AtPositions, InGrace
<1>2. fs \in Seq(Relayed) /\ OneOfEachSender(fs) /\ DOMAIN fs = 1 .. Len(fs) /\ Len(fs) \in Nat
  BY DEF FinalizationsOK
<1>3. P \subseteq 1 .. Len(fs) /\ \A n \in P : InGrace(fs[n])
  BY <1>2
<1>4. 1 \in 1 .. Len(fs) /\ InGrace(fs[1]) => 1 \in P
  BY <1>2
<1> HIDE DEF P, g, fs
<1>5. g \in Seq(Relayed) /\ \E at : TakenFrom(g, fs, P, Len(fs), at)
  BY <1>1, <1>2, AtPositionsSpec
<1>6. PICK at : TakenFrom(g, fs, P, Len(fs), at)
  BY <1>5
<1>7. DOMAIN g = 1 .. Len(g) /\ Len(g) \in Nat
  BY <1>5
<1>8. \A k \in 1 .. Len(g) : at[k] \in P /\ at[k] \in 1 .. Len(fs) /\ g[k] = fs[at[k]] /\ InGrace(g[k])
  BY <1>3, <1>6 DEF TakenFrom
<1>9. OneOfEachSender(g)
  <2> SUFFICES ASSUME NEW n \in DOMAIN g, NEW m \in DOMAIN g, g[n].from = g[m].from
               PROVE  n = m
    BY DEF OneOfEachSender
  <2>1. at[n] = at[m]
    BY <1>2, <1>7, <1>8 DEF OneOfEachSender
  <2>2. (n < m => at[n] < at[m]) /\ (m < n => at[m] < at[n]) /\ at[n] \in Int /\ at[m] \in Int
    BY <1>6, <1>7, <1>8 DEF TakenFrom
  <2> QED
    BY <1>7, <2>1, <2>2
<1>10. ASSUME fs # <<>>, InGrace(fs[1])
       PROVE  g # <<>> /\ g[1] = fs[1]
  <2>1. 1 \in P \cap (1 .. Len(fs))
    BY <1>2, <1>4, <1>10
  <2>2. PICK k \in 1 .. Len(g) : at[k] = 1
    BY <1>6, <2>1 DEF TakenFrom
  <2>3. 1 \in 1 .. Len(g)
    BY <1>7, <2>2
  <2>4. (1 < k => at[1] < at[k]) /\ at[1] \in 1 .. Len(fs)
    BY <1>6, <1>8, <2>3 DEF TakenFrom
  <2>5. k = 1
    BY <1>2, <1>7, <2>2, <2>4
  <2> QED
    BY <1>7, <1>8, <2>2, <2>3, <2>5
<1>11. \A n \in DOMAIN g : g[n].from \in finalizers
  BY <1>7, <1>8 DEF InGrace
<1> QED
  BY <1>5, <1>9, <1>10, <1>11 DEF g, fs
-----------------------------------------------------------------------------
(* Type correctness. *)
LEMMA ChainStep ==
  ASSUME ChainTypeOK, ChainNext
  PROVE  ChainTypeOK'
<1>1. CASE Tick
  BY <1>1 DEF Tick, ChainTypeOK
<1>2. ASSUME NEW from \in Senders, NEW good \in BOOLEAN, NEW readable \in BOOLEAN, Sign(from, good, readable)
      PROVE  ChainTypeOK'
  <2> DEFINE m == [from |-> from, good |-> good, readable |-> readable, ts |-> now]
  <2>1. m \in Signatures /\ (m.good => m.from \in Voters)
    BY <1>2 DEF Sign, Signatures, ChainTypeOK
  <2>2. sigs' = Append(sigs, m) /\ relayV2' = relayV2 /\ now' = now /\ relays' = relays
    BY <1>2 DEF Sign
  <2>3. sigs \in Seq(Signatures) /\ \A n \in DOMAIN sigs : sigs[n].good => sigs[n].from \in Voters
    BY DEF ChainTypeOK
  <2> HIDE DEF m
  <2>4. sigs' \in Seq(Signatures) /\ \A n \in DOMAIN sigs' : sigs'[n].good => sigs'[n].from \in Voters
    BY <2>1, <2>2, <2>3
  <2> QED
    BY <2>2, <2>4 DEF ChainTypeOK
<1>3. ASSUME NEW from \in Senders, NEW reverted \in BOOLEAN, NEW call \in RelayCalls[from], Relay(from, call, reverted)
      PROVE  ChainTypeOK'
  <2> DEFINE m == [from |-> from, call |-> call, reverted |-> reverted, ts |-> now]
  <2>1. m \in Relayed
    BY <1>3 DEF Relayed, Calls, ChainTypeOK
  <2>2. relays' = Append(relays, m) /\ relayV2' = relayV2 /\ now' = now /\ sigs' = sigs
    BY <1>3 DEF Relay
  <2> HIDE DEF m
  <2>3. relays' \in Seq(Relayed)
    BY <2>1, <2>2 DEF ChainTypeOK
  <2> QED
    BY <2>2, <2>3 DEF ChainTypeOK
<1> QED
  BY <1>1, <1>2, <1>3 DEF ChainNext

(* The steps of the finalization reward leave the rest of the round alone.   *)
FinalizationSteps == BurnReward \/ PayFirst \/ StartSharing \/ PassOver \/ Share \/ BurnRest

LEMMA FinalizationStep ==
  ASSUME FinalizationSteps
  PROVE  /\ UNCHANGED <<relayV2, now, sigs, relays, eligibleVoters, finalizations, finalizers, signingVars>>
         /\ signingPhase = "done" /\ finalizationPhase \in {"claims", "pay"} /\ finalizationPhase' \in {"pay", "done"}
<1>1. CASE BurnReward
  BY <1>1 DEF BurnReward, Finalizing, Finalization!BurnReward, Finalization!inputs, Finalization!drawn, Finalization!chainVars
<1>2. CASE PayFirst
  BY <1>2 DEF PayFirst, Finalizing, Finalization!PayFirst, Finalization!inputs, Finalization!drawn, Finalization!chainVars
<1>3. CASE StartSharing
  BY <1>3 DEF StartSharing, Finalizing, Finalization!StartSharing, Finalization!inputs, Finalization!drawn,
              Finalization!chainVars
<1>4. CASE PassOver
  BY <1>4 DEF PassOver, Finalizing, Finalization!PassOver, Finalization!inputs, Finalization!drawn, Finalization!chainVars
<1>5. CASE Share
  BY <1>5 DEF Share, Finalizing, Finalization!Share, Finalization!inputs, Finalization!drawn, Finalization!chainVars
<1>6. CASE BurnRest
  BY <1>6 DEF BurnRest, Finalizing, Finalization!BurnRest, Finalization!inputs, Finalization!drawn, Finalization!chainVars
<1> QED
  BY <1>1, <1>2, <1>3, <1>4, <1>5, <1>6 DEF FinalizationSteps

LEMMA ReadRoundStep ==
  ASSUME TypeOK, ReadRound
  PROVE  /\ signingPhase = "chain" /\ signingPhase' = "signers"
         /\ finalizationPhase = "chain" /\ finalizationPhase' = "claims"
         /\ UNCHANGED <<relayV2, now, sigs, relays, signingPaid, signingBurned, i,
                        undistributedAmount, undistributedWeight, finalizationPaid, finalizationBurned>>
         /\ FinalizationsOK' /\ finality' \in Int
         /\ eligibleVoters' \subseteq Voters /\ finalizers' \in (SUBSET Voters) \ {{}}
<1>1. UNCHANGED <<relayV2, now, sigs, relays, signingPaid, signingBurned, i,
                  undistributedAmount, undistributedWeight, finalizationPaid, finalizationBurned>>
  BY DEF ReadRound, Signing!GetSignersByRound, Finalization!ReadFinalizations,
         Signing!chainVars, Finalization!chainVars, Finalization!claims
<1>2. /\ signingPhase = "chain" /\ signingPhase' = "signers"
      /\ finalizationPhase = "chain" /\ finalizationPhase' = "claims"
      /\ finalizations' = GetFinalizationsByRound
      /\ finality' = IF FirstSuccessful(GetFinalizationsByRound) = 0 THEN -1
                     ELSE GetFinalizationsByRound[FirstSuccessful(GetFinalizationsByRound)].ts
  BY SameOperators DEF ReadRound, Signing!GetSignersByRound, Finalization!ReadFinalizations
<1>3. PICK o \in Outcomes : eligibleVoters' = o.eligible /\ finalizers' = o.drawn
  BY DEF ReadRound
<1>4. eligibleVoters' \subseteq Voters /\ finalizers' \in (SUBSET Voters) \ {{}}
  BY <1>3, VotersAssumption
<1>5. relays \in Seq(Relayed)
  BY DEF TypeOK, ChainTypeOK
<1>6. FinalizationsOK'
  <2>1. /\ finalizations' \in Seq(Relayed) /\ OneOfEachSender(finalizations')
        /\ \A n \in DOMAIN finalizations' : Counts(finalizations'[n].call)
    BY <1>2, <1>5, GetFinalizationsSpec
  <2>2. \A call : Counts(call)' = Counts(call)
    BY <1>1 DEF Counts, Decodes, ReadList, ReadSignature, NothingRead, Accept
  <2> QED
    BY <2>1, <2>2 DEF FinalizationsOK, OneOfEachSender
<1>7. finality' \in Int
  <2> DEFINE fs == GetFinalizationsByRound
  <2>1. fs \in Seq(Relayed) /\ FirstSuccessful(fs) \in 0 .. Len(fs)
    BY <1>5, GetFinalizationsSpec, FirstSuccessfulSpec
  <2> HIDE DEF fs
  <2>2. \A f \in Relayed : f.ts \in Int
    BY DEF Relayed
  <2>3. FirstSuccessful(fs) # 0 => fs[FirstSuccessful(fs)] \in Relayed
    BY <2>1
  <2> QED
    BY <1>2, <2>2, <2>3 DEF fs
<1> QED
  BY <1>1, <1>2, <1>4, <1>6, <1>7

LEMMA InitTypeOK == Init => TypeOK /\ FinalizationsOK
<1> SUFFICES ASSUME Init PROVE TypeOK /\ FinalizationsOK
  OBVIOUS
<1> USE DEF Init, ChainInit, Signing!SigningInit, Finalization!FinalizationInit
<1>1. ChainTypeOK
  BY DEF ChainTypeOK
<1>2. TypeOK
  BY <1>1 DEF TypeOK, Unread
<1>3. FinalizationsOK
  BY DEF FinalizationsOK, OneOfEachSender
<1> QED
  BY <1>2, <1>3

LEMMA SigningStep ==
  ASSUME SigningClaims
  PROVE  /\ signingPhase = "signers" /\ signingPhase' = "done"
         /\ UNCHANGED <<relayV2, now, sigs, relays, eligibleVoters, signers, finality, finalizationVars>>
BY DEF SigningClaims, Signing!SigningClaims, Signing!chainVars

LEMMA UnreadableStep ==
  ASSUME Unreadable
  PROVE  /\ signingPhase = "chain" /\ signingPhase' = "fatal"
         /\ UNCHANGED <<relayV2, now, sigs, relays, eligibleVoters, signers, finality, signingPaid, signingBurned,
                        finalizationVars>>
BY DEF Unreadable, Signing!Unreadable, Signing!chainVars

LEMMA NextTypeOK == TypeOK /\ FinalizationsOK /\ [Next]_vars => TypeOK' /\ FinalizationsOK'
<1> SUFFICES ASSUME TypeOK, FinalizationsOK, [Next]_vars PROVE TypeOK' /\ FinalizationsOK'
  OBVIOUS
<1>1. ASSUME UNCHANGED <<relayV2, now, sigs, relays>>
      PROVE  ChainTypeOK' /\ (finalizations' = finalizations => FinalizationsOK')
  <2>1. \A call : Counts(call)' = Counts(call)
    BY <1>1 DEF Counts, Decodes, ReadList, ReadSignature, NothingRead, Accept
  <2> QED
    BY <1>1, <2>1 DEF TypeOK, ChainTypeOK, FinalizationsOK, OneOfEachSender
<1>2. CASE Chain
  <2>1. ChainTypeOK'
    BY <1>2, ChainStep DEF Chain, TypeOK
  <2>2. signingPhase = "chain" /\ UNCHANGED <<eligibleVoters, signingVars, finalizationVars>>
    BY <1>2 DEF Chain
  <2>3. TypeOK'
    BY <2>1, <2>2 DEF TypeOK, Unread, signingVars, finalizationVars
  <2>4. relayV2' = relayV2
    BY <1>2 DEF Chain, ChainNext, Tick, Sign, Relay
  <2>5. \A call : Counts(call)' = Counts(call)
    BY <2>4 DEF Counts, Decodes, ReadList, ReadSignature, NothingRead, Accept
  <2>6. FinalizationsOK'
    BY <2>2, <2>5 DEF FinalizationsOK, OneOfEachSender, finalizationVars
  <2> QED
    BY <2>3, <2>6
<1>3. CASE ReadRound
  BY <1>1, <1>3, ReadRoundStep DEF TypeOK, Unread
<1>4. CASE SigningClaims
  BY <1>1, <1>4, SigningStep DEF TypeOK, Unread, finalizationVars
<1>5. CASE FinalizationSteps
  BY <1>1, <1>5, FinalizationStep DEF TypeOK, Unread, signingVars
<1>6. CASE UNCHANGED vars
  BY <1>1, <1>6 DEF TypeOK, Unread, vars, chainVars, signingVars, finalizationVars
<1>7. CASE Unreadable
  BY <1>1, <1>7, UnreadableStep DEF TypeOK, Unread, finalizationVars
<1> QED
  BY <1>2, <1>3, <1>4, <1>5, <1>6, <1>7 DEF Next, FinalizationSteps
-----------------------------------------------------------------------------
(* The finalization reward.  Each of the n drawn finalizers has an equal part *)
(* of the reward; as the parts are taken off, the wei of the remainder go to  *)
(* the last ones.                                                           *)
part == FinalizationPart \div Cardinality(finalizers)
rest == FinalizationPart % Cardinality(finalizers)
Smaller(x, y) == IF x < y THEN x ELSE y

SharedBy == {grace[j].from : j \in 1 .. i - 1} \cap eligibleVoters
Left == finalizers \ SharedBy

Sharing ==
  /\ i \in 1 .. Len(grace) + 1
  /\ undistributedWeight = Cardinality(Left)
  /\ undistributedAmount = undistributedWeight * part + Smaller(rest, undistributedWeight)
  /\ finalizationBurned = 0
  /\ \A s \in Senders : finalizationPaid[s] = 0 \/ (s \in SharedBy /\ finalizationPaid[s] \in {part, part + 1})
  /\ i > 1 /\ grace[1].from \in eligibleVoters => finalizationPaid[grace[1].from] = part

NothingPaid ==
  /\ i = 1 /\ undistributedAmount = FinalizationPart
  /\ finalizationPaid = [s \in Senders |-> 0] /\ finalizationBurned = 0

Paid == SumFunctionOnSet(finalizationPaid, Senders)

First == FirstSuccessful(finalizations)
Earliest == \* a drawn finalizer with earnings that was the first to call
  /\ finalizations # <<>> /\ ~finalizations[1].reverted
  /\ InGrace(finalizations[1]) /\ finalizations[1].from \in eligibleVoters

PaidAlike ==
  finalizationPhase = "done" /\ ~Finalization!Late => \A s \in Senders : finalizationPaid[s] > 0 =>
    s \in finalizers \cap eligibleVoters /\ finalizationPaid[s] \in {part, part + 1}
FirstTakesPart ==
  finalizationPhase = "done" /\ Earliest => finalizationPaid[finalizations[1].from] = part

FinalizationInv ==
  /\ finalizationPaid \in [Senders -> Nat]
  /\ undistributedAmount \in Int /\ finalizationBurned \in Int
  /\ finalizationPhase \in {"chain", "claims"} => NothingPaid
  /\ finalizationPhase = "pay" => Sharing
  /\ finalizationPhase # "done" => undistributedAmount + finalizationBurned + Paid = FinalizationPart
  /\ finalizationPhase = "done" => undistributedAmount = 0 /\ finalizationBurned + Paid = FinalizationPart
  /\ PaidAlike /\ FirstTakesPart

LEMMA Parts ==
  ASSUME NEW reward \in Nat, NEW n \in Nat, n > 0, NEW p, NEW r, p = reward \div n, r = reward % n
  PROVE  /\ p \in Nat /\ r \in Nat /\ r < n
         /\ reward = n * p + Smaller(r, n)
<1>1. p \in Nat /\ r \in 0 .. n - 1 /\ reward = n * p + r
  BY ModDef
<1> QED
  BY <1>1 DEF Smaller

PartsAndRest(a, w, p, r) == a = w * p + Smaller(r, w)

LEMMA TakePart ==
  ASSUME NEW p \in Nat, NEW r \in Nat, NEW w \in Nat, w > 0, NEW a, PartsAndRest(a, w, p, r)
  PROVE  /\ a \in Nat
         /\ a \div w = p + (IF r < w THEN 0 ELSE 1)
         /\ PartsAndRest(a - (a \div w), w - 1, p, r)
<1> USE DEF PartsAndRest
<1> DEFINE c == Smaller(r, w)   d == p + (IF r < w THEN 0 ELSE 1)
<1>1. c \in 0 .. w /\ (c = w) = ~(r < w) /\ d \in Nat
  BY DEF Smaller
<1>2. w * p \in Nat /\ w * (p + 1) = w * p + w /\ (w - 1) * p = w * p - p
  BY SMT
<1>3. w * d = w * p + (IF r < w THEN 0 ELSE w)
  <2>1. CASE r < w
    <3>1. d = p
      BY <2>1
    <3> QED
      BY <1>2, <2>1, <3>1
  <2>2. CASE ~(r < w)
    <3>1. d = p + 1
      BY <2>2
    <3> QED
      BY <1>2, <2>2, <3>1
  <2> QED
    BY <2>1, <2>2
<1>4. a \in Nat /\ w * d <= a /\ a < w * d + w
  <2> HIDE DEF d
  <2> QED
    BY <1>1, <1>2, <1>3 DEF Smaller
<1>5. a \div w = d
  <2> HIDE DEF d
  <2> QED
    BY <1>1, <1>4, DivUnique
<1>6. a - d = (w - 1) * p + Smaller(r, w - 1)
  BY <1>2 DEF Smaller
<1> QED
  BY <1>4, <1>5, <1>6

LEMMA InstanceTerms ==
  /\ Finalization!First = First
  /\ Finalization!Late = (First > 0 /\ finalizations[First].ts > Finalization!GraceDeadline)
  /\ Finalization!GraceDeadline = RevealDeadline + GracePeriodFinalization + 1
  /\ Finalization!graceFinalizations = grace
  /\ Finalization!ClaimAmount = undistributedAmount \div undistributedWeight
  /\ Finalization!AtFinalizer = grace[i].from
BY SameOperators DEF Finalization!First, First, Finalization!Late, Finalization!GraceDeadline, grace,
                     Finalization!ClaimAmount, Finalization!AtFinalizer

LEMMA EarliestTakesPart ==
  ASSUME FinalizationsOK, Earliest
  PROVE  First = 1 /\ ~Finalization!Late /\ grace # <<>> /\ grace[1] = finalizations[1] /\ eligibleVoters # {}
<1>1. grace # <<>> /\ grace[1] = finalizations[1]
  BY GraceSpec DEF Earliest
<1>2. First = 1
  BY FirstSuccessfulSpec DEF First, Earliest, FinalizationsOK
<1>3. finalizations[1] \in Relayed
  BY DEF FinalizationsOK, Earliest
<1>4. finalizations[1].ts \in Int
  BY <1>3 DEF Relayed
<1>5. ~Finalization!Late
  <2>1. ~(finalizations[1].ts > Finalization!GraceDeadline)
    BY <1>4, InstanceTerms, Constants DEF Earliest, InGrace
  <2> QED
    BY <1>2, <2>1, InstanceTerms DEF Finalization!Late
<1> QED
  BY <1>1, <1>2, <1>5 DEF Earliest

(* What depends on who calls and who is drawn only stays as it is.           *)
LEMMA Fixed ==
  ASSUME UNCHANGED <<eligibleVoters, finalizations, finalizers>>
  PROVE  /\ grace' = grace /\ part' = part /\ rest' = rest
         /\ (i' = i => SharedBy' = SharedBy /\ Left' = Left)
         /\ Finalization!Late' = Finalization!Late
         /\ Earliest' = Earliest
<1>1. grace' = grace
  BY DEF grace, Finalization!graceFinalizations, Finalization!AtPositions, Finalization!GraceDeadline
<1>2. part' = part /\ rest' = rest
  BY DEF part, rest
<1>3. i' = i => SharedBy' = SharedBy /\ Left' = Left
  BY <1>1 DEF SharedBy, Left
<1>4. Finalization!Late' = Finalization!Late
  BY DEF Finalization!Late, Finalization!First, Finalization!GraceDeadline, Finalization!FirstSuccessful,
         Finalization!SelectInSeq, Finalization!Min
<1>5. Earliest' = Earliest
  BY DEF Earliest, InGrace, Finalization!GraceDeadline
<1> QED
  BY <1>1, <1>2, <1>3, <1>4, <1>5

LEMMA ShareTerms ==
  /\ PaidAlike => EqualShares
  /\ FirstTakesPart => FirstCallerPaid
<1>1. Finalization!Cardinality(finalizers) = Cardinality(finalizers)
  BY DEF Finalization!Cardinality, Cardinality
<1>2. FirstTakesPart => FirstCallerPaid
  BY Zenon, <1>1 DEF FirstCallerPaid, Finalization!FirstCallerPaid, FirstTakesPart, Earliest, InGrace, part
<1>3. PaidAlike => EqualShares
  BY Zenon, <1>1, SameOperators DEF EqualShares, Finalization!EqualShares, PaidAlike, part
<1> QED
  BY <1>2, <1>3

LEMMA NothingPaidYet ==
  ASSUME NothingPaid
  PROVE  Paid = 0 /\ finalizationPaid \in [Senders -> Nat] /\ FinalizationPart \in Nat
<1>1. IsFiniteSet(Senders) /\ \A s \in Senders : finalizationPaid[s] = 0
  BY Constants DEF NothingPaid
<1>2. Paid = 0
  BY <1>1, SumZero DEF Paid
<1> QED
  BY <1>2, Constants DEF NothingPaid

LEMMA InitFinalizationInv == Init => FinalizationInv
<1> SUFFICES ASSUME Init PROVE FinalizationInv
  OBVIOUS
<1>1. finalizationPhase = "chain" /\ NothingPaid
  BY SameOperators DEF Init, Finalization!FinalizationInit, NothingPaid
<1> QED
  BY <1>1, NothingPaidYet DEF FinalizationInv, NothingPaid, PaidAlike, FirstTakesPart

LEMMA ReadRoundFinalizationInv ==
  ASSUME TypeOK, FinalizationInv, ReadRound
  PROVE  FinalizationInv'
<1>1. /\ finalizationPhase = "chain" /\ finalizationPhase' = "claims"
      /\ UNCHANGED <<i, undistributedAmount, finalizationPaid, finalizationBurned>>
  BY ReadRoundStep
<1>2. NothingPaid /\ Paid' = Paid /\ NothingPaid'
  BY <1>1 DEF FinalizationInv, NothingPaid, Paid
<1>3. PaidAlike' /\ FirstTakesPart'
  BY <1>1 DEF PaidAlike, FirstTakesPart
<1> QED
  BY <1>1, <1>2, <1>3 DEF FinalizationInv

LEMMA BurnRewardFinalizationInv ==
  ASSUME FinalizationsOK, FinalizationInv, BurnReward
  PROVE  FinalizationInv'
<1>1. /\ finalizationPhase = "claims" /\ finalizationPhase' = "done"
      /\ First = 0 \/ (~Finalization!Late /\ (grace = <<>> \/ eligibleVoters = {}))
      /\ finalizationBurned' = FinalizationPart /\ undistributedAmount' = 0
      /\ UNCHANGED <<finalizationPaid, eligibleVoters, finalizations, finalizers>>
  BY InstanceTerms DEF BurnReward, Finalization!BurnReward, Finalization!inputs, Finalization!drawn
<1>2. NothingPaid /\ Paid = 0 /\ Paid' = 0 /\ finalizationPaid' \in [Senders -> Nat] /\ FinalizationPart \in Nat
  BY <1>1, NothingPaidYet DEF FinalizationInv, Paid
<1>3. PaidAlike'
  <2>1. \A s \in Senders : ~(finalizationPaid'[s] > 0)
    BY <1>1, <1>2 DEF NothingPaid
  <2> QED
    BY <2>1 DEF PaidAlike, FirstTakesPart
<1>4. ~Earliest'
  BY <1>1, EarliestTakesPart, Fixed
<1>5. FirstTakesPart'
  BY <1>4 DEF PaidAlike, FirstTakesPart
<1> QED
  BY <1>1, <1>2, <1>3, <1>5 DEF FinalizationInv

LEMMA PayFirstFinalizationInv ==
  ASSUME FinalizationsOK, FinalizationInv, PayFirst
  PROVE  FinalizationInv'
<1> DEFINE from == finalizations[First].from
<1>1. /\ finalizationPhase = "claims" /\ finalizationPhase' = "done" /\ Finalization!Late
      /\ finalizationPaid' = [finalizationPaid EXCEPT ![from] = FinalizationPart] /\ undistributedAmount' = 0
      /\ UNCHANGED <<finalizationBurned, eligibleVoters, finalizations, finalizers>>
  BY InstanceTerms DEF PayFirst, Finalization!PayFirst, Finalization!inputs, Finalization!drawn
<1>2. NothingPaid /\ Paid = 0 /\ finalizationPaid \in [Senders -> Nat] /\ FinalizationPart \in Nat
  BY <1>1, NothingPaidYet DEF FinalizationInv
<1>3. from \in Senders
  <2>1. First \in 0 .. Len(finalizations) /\ finalizations \in Seq(Relayed)
    BY FirstSuccessfulSpec DEF FinalizationsOK, First
  <2>2. First > 0
    BY <1>1, InstanceTerms DEF Finalization!Late
  <2>3. finalizations[First] \in Relayed
    BY <2>1, <2>2
  <2> QED
    BY <2>3 DEF Relayed
<1> HIDE DEF from
<1>4. finalizationPaid' \in [Senders -> Nat]
  BY <1>1, <1>2
<1>5. Paid' = FinalizationPart
  <2>1. /\ \A s \in Senders : finalizationPaid[s] \in Int
        /\ finalizationPaid'[from] \in Int /\ finalizationPaid'[from] = FinalizationPart /\ finalizationPaid[from] = 0
        /\ \A s \in Senders : s # from => finalizationPaid'[s] = finalizationPaid[s]
    BY <1>1, <1>2, <1>3 DEF NothingPaid
  <2>2. SumFunctionOnSet(finalizationPaid', Senders) =
          SumFunctionOnSet(finalizationPaid, Senders) - finalizationPaid[from] + finalizationPaid'[from]
    BY <1>3, <2>1, Constants, SumExcept
  <2> QED
    BY <1>2, <2>1, <2>2 DEF Paid
<1>6. PaidAlike'
  BY <1>1, Fixed DEF PaidAlike, FirstTakesPart
<1>7. ~Earliest'
  BY <1>1, EarliestTakesPart, Fixed
<1>8. FirstTakesPart'
  BY <1>7 DEF PaidAlike, FirstTakesPart
<1> QED
  BY <1>1, <1>2, <1>4, <1>5, <1>6, <1>8 DEF FinalizationInv, NothingPaid

LEMMA StartSharingFinalizationInv ==
  ASSUME TypeOK, FinalizationsOK, FinalizationInv, StartSharing
  PROVE  FinalizationInv'
<1>1. /\ finalizationPhase = "claims" /\ finalizationPhase' = "pay" /\ signingPhase = "done"
      /\ grace # <<>> /\ undistributedWeight' = Cardinality(finalizers)
      /\ UNCHANGED <<i, undistributedAmount, finalizationPaid, finalizationBurned,
                     eligibleVoters, finalizations, finalizers>>
  <2>1. Finalization!Cardinality(finalizers) = Cardinality(finalizers)
    BY DEF Finalization!Cardinality, Cardinality
  <2> QED
    BY <2>1, InstanceTerms DEF StartSharing, Finalizing, Finalization!StartSharing, Finalization!inputs, Finalization!drawn
<1>2. /\ NothingPaid /\ Paid = 0 /\ finalizationPaid \in [Senders -> Nat] /\ FinalizationPart \in Nat
      /\ NothingPaid' /\ Paid' = Paid
  BY <1>1, NothingPaidYet DEF FinalizationInv, NothingPaid, Paid
<1>3. Cardinality(finalizers) \in Nat /\ Cardinality(finalizers) > 0
  <2>1. IsFiniteSet(finalizers) /\ finalizers # {}
    BY <1>1, Constants, FS_Subset DEF TypeOK
  <2>2. Cardinality(finalizers) \in Nat /\ Cardinality(finalizers) # 0
    BY <2>1, FS_CardinalityType, FS_EmptySet
  <2> QED
    BY <2>2
<1>4. SharedBy' = {} /\ Left' = finalizers
  <2>1. 1 .. i' - 1 = {}
    BY <1>1, <1>2 DEF NothingPaid
  <2>2. SharedBy' = {}
    BY <2>1 DEF SharedBy
  <2> QED
    BY <1>1, <2>2 DEF Left
<1>5. Sharing'
  <2>1. i' \in 1 .. Len(grace') + 1 /\ ~(i' > 1)
    <3>1. grace \in Seq(Relayed) /\ grace' = grace
      BY <1>1, Fixed, GraceSpec
    <3> QED
      BY <1>1, <1>2, <3>1 DEF NothingPaid
  <2>2. undistributedWeight' = Cardinality(Left')
    BY <1>1, <1>4
  <2>3. FinalizationPart = Cardinality(finalizers) * part + Smaller(rest, Cardinality(finalizers))
    BY <1>2, <1>3, Parts DEF part, rest
  <2>4. undistributedAmount' = undistributedWeight' * part' + Smaller(rest', undistributedWeight')
    BY <1>1, <1>2, <2>3, Fixed DEF NothingPaid
  <2>5. finalizationBurned' = 0 /\ \A s \in Senders : finalizationPaid'[s] = 0
    BY <1>2 DEF NothingPaid
  <2> QED
    BY <2>1, <2>2, <2>4, <2>5 DEF Sharing
<1> QED
  BY <1>1, <1>2, <1>5 DEF FinalizationInv, NothingPaid, PaidAlike, FirstTakesPart

(* The loop is at one of the drawn finalizers, which has not shared yet.     *)
LEMMA AtFinalizer ==
  ASSUME FinalizationsOK, Sharing, i <= Len(grace)
  PROVE  /\ i \in 1 .. Len(grace) /\ grace # <<>> /\ i + 1 \in 1 .. Len(grace) + 1
         /\ grace[i].from \in Senders /\ grace[i].from \in Left
         /\ {grace[j].from : j \in 1 .. (i + 1) - 1} \cap eligibleVoters =
              SharedBy \cup ({grace[i].from} \cap eligibleVoters)
<1>1. grace \in Seq(Relayed) /\ OneOfEachSender(grace) /\ \A n \in DOMAIN grace : grace[n].from \in finalizers
  BY GraceSpec
<1>2. i \in 1 .. Len(grace) /\ Len(grace) \in Nat /\ DOMAIN grace = 1 .. Len(grace)
  BY <1>1 DEF Sharing
<1>3. grace[i].from \in Senders
  <2>1. grace[i] \in Relayed
    BY <1>1, <1>2
  <2> QED
    BY <2>1 DEF Relayed
<1>4. \A j \in 1 .. i - 1 : j \in DOMAIN grace /\ j # i
  BY <1>2
<1>5. \A j \in 1 .. i - 1 : grace[j].from # grace[i].from
  BY <1>1, <1>2, <1>4 DEF OneOfEachSender
<1>6. grace[i].from \in Left
  BY <1>1, <1>2, <1>5 DEF Left, SharedBy
<1>7. 1 .. (i + 1) - 1 = (1 .. i - 1) \cup {i}
  BY <1>2
<1>8. {grace[j].from : j \in 1 .. (i + 1) - 1} \cap eligibleVoters = SharedBy \cup ({grace[i].from} \cap eligibleVoters)
  BY <1>7 DEF SharedBy
<1>9. i + 1 \in 1 .. Len(grace) + 1 /\ grace # <<>>
  BY <1>1, <1>2
<1> QED
  BY <1>2, <1>3, <1>6, <1>8, <1>9

LEMMA PassOverFinalizationInv ==
  ASSUME FinalizationsOK, FinalizationInv, PassOver
  PROVE  FinalizationInv'
<1>1. /\ finalizationPhase = "pay" /\ finalizationPhase' = "pay"
      /\ i <= Len(grace) /\ grace[i].from \notin eligibleVoters /\ i' = i + 1
      /\ UNCHANGED <<undistributedAmount, undistributedWeight, finalizationPaid, finalizationBurned,
                     eligibleVoters, finalizations, finalizers>>
  BY InstanceTerms DEF PassOver, Finalization!PassOver, Finalization!inputs, Finalization!drawn, Finalization!claims
<1>2. Sharing
  BY <1>1 DEF FinalizationInv
<1>3. SharedBy' = SharedBy /\ Left' = Left
  <2>1. SharedBy' = {grace[j].from : j \in 1 .. (i + 1) - 1} \cap eligibleVoters
    BY <1>1, Fixed DEF SharedBy
  <2> QED
    BY <1>1, <1>2, <2>1, AtFinalizer DEF Left
<1>4. i + 1 > 1 /\ grace[1].from \in eligibleVoters => i > 1
  BY <1>1, <1>2, AtFinalizer
<1>5. grace' = grace /\ part' = part /\ rest' = rest /\ i' \in 1 .. Len(grace) + 1
  BY <1>1, <1>2, AtFinalizer, Fixed
<1>6. Sharing'
  BY <1>1, <1>2, <1>3, <1>4, <1>5 DEF Sharing
<1> QED
  BY <1>1, <1>6 DEF FinalizationInv, PaidAlike, FirstTakesPart, Paid

LEMMA BurnRestFinalizationInv ==
  ASSUME TypeOK, FinalizationsOK, FinalizationInv, BurnRest
  PROVE  FinalizationInv'
<1>1. /\ finalizationPhase = "pay" /\ finalizationPhase' = "done"
      /\ i > Len(grace) /\ finalizationBurned' = undistributedAmount /\ undistributedAmount' = 0
      /\ UNCHANGED <<finalizationPaid, eligibleVoters, finalizations, finalizers>>
  BY InstanceTerms DEF BurnRest, Finalization!BurnRest, Finalization!inputs, Finalization!drawn
<1>2. /\ Sharing /\ finalizationPaid \in [Senders -> Nat] /\ undistributedAmount \in Int
      /\ undistributedAmount + finalizationBurned + Paid = FinalizationPart
  BY <1>1 DEF FinalizationInv
<1>3. Paid' = Paid /\ Paid \in Int /\ finalizationBurned = 0
  <2>1. Paid \in Int
    BY <1>2, Constants, SumInt DEF Paid
  <2> QED
    BY <1>1, <1>2, <2>1 DEF Paid, Sharing
<1>4. PaidAlike'
  <2>1. SharedBy \subseteq finalizers \cap eligibleVoters
    <3>1. grace \in Seq(Relayed) /\ \A n \in DOMAIN grace : grace[n].from \in finalizers
      BY GraceSpec
    <3>2. \A j \in 1 .. i - 1 : j \in DOMAIN grace
      BY <1>2, <3>1 DEF Sharing
    <3> QED
      BY <3>1, <3>2 DEF SharedBy
  <2>2. \A s \in Senders : finalizationPaid[s] > 0 =>
          s \in finalizers \cap eligibleVoters /\ finalizationPaid[s] \in {part, part + 1}
    BY <1>2, <2>1 DEF Sharing
  <2> QED
    BY <1>1, <2>2, Fixed DEF PaidAlike
<1>5. FirstTakesPart'
  <2> SUFFICES ASSUME Earliest' PROVE finalizationPaid'[finalizations'[1].from] = part'
    BY DEF FirstTakesPart
  <2>1. Earliest /\ part' = part
    BY <1>1, Fixed
  <2>2. grace # <<>> /\ grace[1] = finalizations[1] /\ grace \in Seq(Relayed)
    BY <2>1, EarliestTakesPart, GraceSpec
  <2>3. i > 1 /\ grace[1].from \in eligibleVoters
    BY <1>1, <1>2, <2>1, <2>2 DEF Sharing, Earliest
  <2> QED
    BY <1>1, <1>2, <2>1, <2>2, <2>3 DEF Sharing
<1> QED
  BY <1>1, <1>2, <1>3, <1>4, <1>5 DEF FinalizationInv

LEMMA ShareFinalizationInv ==
  ASSUME TypeOK, FinalizationsOK, FinalizationInv, Share
  PROVE  FinalizationInv'
<1> DEFINE from == grace[i].from
           claim == undistributedAmount \div undistributedWeight
           paid == finalizationPaid
<1>1. /\ finalizationPhase = "pay" /\ finalizationPhase' = "pay" /\ signingPhase = "done"
      /\ i <= Len(grace) /\ from \in eligibleVoters /\ i' = i + 1
      /\ undistributedAmount' = undistributedAmount - claim
      /\ undistributedWeight' = undistributedWeight - 1
      /\ paid' = [paid EXCEPT ![from] = @ + claim]
      /\ UNCHANGED <<finalizationBurned, eligibleVoters, finalizations, finalizers>>
  BY InstanceTerms DEF Share, Finalizing, Finalization!Share, Finalization!inputs, Finalization!drawn
<1>2. /\ Sharing /\ paid \in [Senders -> Nat] /\ undistributedAmount \in Int /\ finalizationBurned \in Int
      /\ undistributedAmount + finalizationBurned + Paid = FinalizationPart
  BY <1>1 DEF FinalizationInv
<1>3. /\ i \in 1 .. Len(grace) /\ grace # <<>> /\ i' \in 1 .. Len(grace) + 1
      /\ from \in Senders /\ from \in Left
  BY <1>1, <1>2, AtFinalizer
<1>4. SharedBy' = SharedBy \cup {from} /\ Left' = Left \ {from}
  <2>1. SharedBy' = {grace[j].from : j \in 1 .. (i + 1) - 1} \cap eligibleVoters
    BY <1>1, Fixed DEF SharedBy
  <2>2. {grace[j].from : j \in 1 .. (i + 1) - 1} \cap eligibleVoters = SharedBy \cup {from}
    BY <1>1, <1>2, AtFinalizer
  <2> QED
    BY <1>1, <2>1, <2>2 DEF Left
<1>5. grace' = grace /\ part' = part /\ rest' = rest
  BY <1>1, Fixed
<1>6. IsFiniteSet(finalizers) /\ IsFiniteSet(Left)
  BY Constants, FS_Subset DEF TypeOK, Left
<1>7. /\ undistributedWeight \in Nat /\ undistributedWeight > 0
      /\ undistributedWeight' = Cardinality(Left') /\ undistributedWeight <= Cardinality(finalizers)
      /\ Cardinality(finalizers) \in Nat /\ Cardinality(finalizers) > 0
  <2>1. Cardinality(Left \ {from}) = Cardinality(Left) - 1
    BY <1>3, <1>6, FS_RemoveElement
  <2>2. Cardinality(Left) \in Nat /\ Cardinality(Left) # 0 /\ Cardinality(finalizers) \in Nat
    BY <1>3, <1>6, FS_CardinalityType, FS_EmptySet
  <2>3. Cardinality(Left) <= Cardinality(finalizers)
    BY <1>6, FS_Subset DEF Left
  <2>4. undistributedWeight = Cardinality(Left)
    BY <1>2 DEF Sharing
  <2> QED
    BY <1>1, <1>4, <2>1, <2>2, <2>3, <2>4
<1>8. part \in Nat /\ rest \in Nat /\ rest < Cardinality(finalizers)
  BY <1>7, Constants, Parts DEF part, rest
<1>9. /\ undistributedAmount = undistributedWeight * part + Smaller(rest, undistributedWeight)
      /\ finalizationBurned = 0
  BY <1>2 DEF Sharing
<1>10. /\ claim = part + (IF rest < undistributedWeight THEN 0 ELSE 1)
       /\ undistributedAmount - claim = (undistributedWeight - 1) * part + Smaller(rest, undistributedWeight - 1)
  <2> HIDE DEF claim
  <2>1. part \in Nat /\ rest \in Nat /\ undistributedWeight \in Nat /\ undistributedWeight > 0
    BY <1>7, <1>8
  <2>2. PartsAndRest(undistributedAmount, undistributedWeight, part, rest)
    BY <1>9 DEF PartsAndRest
  <2>3. /\ undistributedAmount \div undistributedWeight = part + (IF rest < undistributedWeight THEN 0 ELSE 1)
        /\ PartsAndRest(undistributedAmount - (undistributedAmount \div undistributedWeight), undistributedWeight - 1, part, rest)
    BY <2>1, <2>2, TakePart
  <2> QED
    BY <2>3 DEF claim, PartsAndRest
<1> HIDE DEF from, claim
<1>11. claim \in Nat /\ claim \in {part, part + 1}
  BY <1>8, <1>10
<1>12. undistributedAmount' = undistributedWeight' * part' + Smaller(rest', undistributedWeight')
  BY <1>1, <1>5, <1>10
<1>13. from \notin SharedBy /\ paid[from] = 0
  <2>1. from \notin SharedBy
    BY <1>3 DEF Left
  <2> QED
    BY <1>2, <1>3, <2>1 DEF Sharing
<1>14. /\ paid' \in [Senders -> Nat] /\ paid'[from] = claim
       /\ \A s \in Senders : s # from => paid'[s] = paid[s]
  BY <1>1, <1>2, <1>3, <1>11, <1>13
<1>15. Paid' = Paid + claim /\ Paid \in Int
  <2>1. \A s \in Senders : paid[s] \in Int
    BY <1>2
  <2>2. paid'[from] \in Int
    BY <1>11, <1>14
  <2>3. SumFunctionOnSet(paid', Senders) = SumFunctionOnSet(paid, Senders) - paid[from] + paid'[from]
    BY <1>3, <1>14, <2>1, <2>2, Constants, SumExcept
  <2>4. SumFunctionOnSet(paid, Senders) \in Int
    BY <2>1, Constants, SumInt
  <2> QED
    BY <1>11, <1>13, <1>14, <2>3, <2>4 DEF Paid
<1>16. \A s \in Senders : paid'[s] = 0 \/ (s \in SharedBy' /\ paid'[s] \in {part, part + 1})
  <2> TAKE s \in Senders
  <2>1. paid[s] = 0 \/ (s \in SharedBy /\ paid[s] \in {part, part + 1})
    BY <1>2 DEF Sharing
  <2> QED
    BY <1>4, <1>11, <1>14, <2>1
<1>17. i' > 1 /\ grace[1].from \in eligibleVoters => paid'[grace[1].from] = part
  <2>1. CASE i = 1
    <3>1. 1 .. i - 1 = {}
      BY <2>1
    <3>2. SharedBy = {}
      BY <3>1 DEF SharedBy
    <3>3. Left = finalizers
      BY <3>2 DEF Left
    <3>4. undistributedWeight = Cardinality(finalizers)
      BY <1>2, <3>3 DEF Sharing
    <3>5. claim = part
      BY <1>7, <1>8, <1>10, <3>4
    <3> QED
      BY <1>14, <2>1, <3>5 DEF from
  <2>2. CASE i # 1
    <3>1. i > 1
      BY <1>3, <2>2
    <3>2. grace[1].from \in eligibleVoters => grace[1].from \in SharedBy
      <4>1. 1 \in 1 .. i - 1
        BY <1>3, <3>1
      <4> QED
        BY <4>1 DEF SharedBy
    <3>3. grace[1].from \in Senders
      <4>1. grace \in Seq(Relayed)
        BY GraceSpec
      <4>2. grace[1] \in Relayed
        BY <1>3, <4>1
      <4> QED
        BY <4>2 DEF Relayed
    <3>4. grace[1].from \in eligibleVoters => paid[grace[1].from] = part
      BY <1>2, <3>1 DEF Sharing
    <3> QED
      BY <1>13, <1>14, <3>2, <3>3, <3>4
  <2> QED
    BY <2>1, <2>2
<1>18. Sharing'
  BY <1>1, <1>3, <1>5, <1>7, <1>9, <1>12, <1>16, <1>17 DEF Sharing
<1>19. undistributedAmount' + finalizationBurned' + Paid' = FinalizationPart /\ undistributedAmount' \in Int
  BY <1>1, <1>2, <1>11, <1>15
<1> QED
  BY <1>1, <1>2, <1>14, <1>18, <1>19 DEF FinalizationInv, PaidAlike, FirstTakesPart

LEMMA NextFinalizationInv ==
  TypeOK /\ FinalizationsOK /\ FinalizationInv /\ [Next]_vars => FinalizationInv'
<1> SUFFICES ASSUME TypeOK, FinalizationsOK, FinalizationInv, [Next]_vars PROVE FinalizationInv'
  OBVIOUS
<1>1. ASSUME UNCHANGED <<eligibleVoters, finalizationVars>> PROVE FinalizationInv'
  <2>1. /\ grace' = grace /\ part' = part /\ rest' = rest /\ SharedBy' = SharedBy /\ Left' = Left
        /\ Finalization!Late' = Finalization!Late /\ Earliest' = Earliest
    BY <1>1, Fixed DEF finalizationVars
  <2>2. Sharing' = Sharing /\ NothingPaid' = NothingPaid /\ Paid' = Paid
    BY <1>1, <2>1 DEF Sharing, NothingPaid, Paid, finalizationVars
  <2>3. PaidAlike' /\ FirstTakesPart'
    BY <1>1, <2>1 DEF PaidAlike, FirstTakesPart, finalizationVars, FinalizationInv
  <2> QED
    BY <1>1, <2>2, <2>3 DEF FinalizationInv, finalizationVars
<1>2. CASE Chain
  BY <1>1, <1>2 DEF Chain
<1>3. CASE ReadRound
  BY <1>3, ReadRoundFinalizationInv
<1>4. CASE SigningClaims
  BY <1>1, <1>4, SigningStep
<1>5. CASE BurnReward
  BY <1>5, BurnRewardFinalizationInv
<1>6. CASE PayFirst
  BY <1>6, PayFirstFinalizationInv
<1>7. CASE StartSharing
  BY <1>7, StartSharingFinalizationInv
<1>8. CASE PassOver
  BY <1>8, PassOverFinalizationInv
<1>9. CASE Share
  BY <1>9, ShareFinalizationInv
<1>10. CASE BurnRest
  BY <1>10, BurnRestFinalizationInv
<1>11. CASE UNCHANGED vars
  BY <1>1, <1>11 DEF vars
<1>12. CASE Unreadable
  BY <1>1, <1>12, UnreadableStep
<1> QED
  BY <1>2, <1>3, <1>4, <1>5, <1>6, <1>7, <1>8, <1>9, <1>10, <1>11, <1>12 DEF Next
-----------------------------------------------------------------------------
(* The signing reward: the signatures that draw are those of the voters that *)
(* may draw, each with its own weight, in the order of the policy.           *)
sig == Signing!RewardEligibleSigs
weights == [n \in DOMAIN sig |-> PolicyWeight[sig[n]]]
portion == PortionsOf(weights, SigningPart)
PortionOf(v) == SumOf(Owned(sig, portion, v))
AllWeight == SumFunctionOnSet(PolicyWeight, Voters)
MayDraw(v) == Signing!RewardEligible(v)

LEMMA SigningTerms ==
  /\ \A s : Signing!SumOf(s) = SumOf(s)
  /\ \A w, pot : Signing!PortionsOf(w, pot) = PortionsOf(w, pot)
  /\ \A s, P : Signing!AtPositions(s, P) = AtPositions(s, P)
<1>1. \A s : Signing!SumOf(s) = SumOf(s)
  BY Zenon DEF Signing!SumOf, SumOf, Signing!FoldLeft, FoldLeft, Signing!MapThenFoldSet, MapThenFoldSet,
               Signing!Max, Max
<1>2. \A w, pot : Signing!PortionsOf(w, pot) = PortionsOf(w, pot)
  BY Zenon DEF Signing!PortionsOf, PortionsOf, Signing!LeftAfter, LeftAfter, Signing!WeightFrom, WeightFrom,
               Signing!SumOf, SumOf, Signing!FoldLeft, FoldLeft, Signing!MapThenFoldSet, MapThenFoldSet,
               Signing!Max, Max
<1>3. \A s, P : Signing!AtPositions(s, P) = AtPositions(s, P)
  BY Zenon DEF Signing!AtPositions, AtPositions
<1> QED
  BY <1>1, <1>2, <1>3

LEMMA SigSpec ==
  /\ sig \in Seq(Voters)
  /\ \A n, m \in DOMAIN sig : sig[n] = sig[m] => n = m
  /\ \A n \in DOMAIN sig : MayDraw(sig[n])
  /\ \A v \in Voters : MayDraw(v) => \E n \in DOMAIN sig : sig[n] = v
<1> DEFINE P == {n \in DOMAIN PolicyOrder : MayDraw(PolicyOrder[n])}
           g == sig
<1>1. g = AtPositions(PolicyOrder, P)
  BY SigningTerms DEF sig, Signing!RewardEligibleSigs, MayDraw
<1>2. PolicyOrder \in Seq(Voters) /\ DOMAIN PolicyOrder = 1 .. Len(PolicyOrder) /\ Len(PolicyOrder) \in Nat
  BY VotersAssumption
<1>3. \A n \in P : MayDraw(PolicyOrder[n]) /\ n \in 1 .. Len(PolicyOrder)
  BY <1>2
<1>4. \A n \in 1 .. Len(PolicyOrder) : MayDraw(PolicyOrder[n]) => n \in P
  BY <1>2
<1> HIDE DEF P, g
<1>5. g \in Seq(Voters) /\ \E at : TakenFrom(g, PolicyOrder, P, Len(PolicyOrder), at)
  BY <1>1, <1>2, AtPositionsSpec
<1>6. PICK at : TakenFrom(g, PolicyOrder, P, Len(PolicyOrder), at)
  BY <1>5
<1>7. DOMAIN g = 1 .. Len(g) /\ Len(g) \in Nat
  BY <1>5
<1>8. \A k \in 1 .. Len(g) : at[k] \in P /\ at[k] \in 1 .. Len(PolicyOrder) /\ g[k] = PolicyOrder[at[k]]
  BY <1>3, <1>6 DEF TakenFrom
<1>9. \A n, m \in DOMAIN g : g[n] = g[m] => n = m
  <2> TAKE n, m \in DOMAIN g
  <2> HAVE g[n] = g[m]
  <2>1. at[n] = at[m]
    BY <1>2, <1>7, <1>8, VotersAssumption
  <2>2. (n < m => at[n] < at[m]) /\ (m < n => at[m] < at[n]) /\ at[n] \in Int /\ at[m] \in Int
    BY <1>6, <1>7, <1>8 DEF TakenFrom
  <2> QED
    BY <1>7, <2>1, <2>2
<1>10. \A n \in DOMAIN g : MayDraw(g[n])
  BY <1>3, <1>7, <1>8
<1>11. ASSUME NEW v \in Voters, MayDraw(v) PROVE \E n \in DOMAIN g : g[n] = v
  <2>1. PICK n \in 1 .. Len(PolicyOrder) : PolicyOrder[n] = v
    BY <1>2, VotersAssumption
  <2>2. n \in P \cap (1 .. Len(PolicyOrder))
    BY <1>4, <1>11, <2>1
  <2>3. PICK k \in 1 .. Len(g) : at[k] = n
    BY <1>6, <2>2 DEF TakenFrom
  <2> QED
    BY <1>7, <1>8, <2>1, <2>3
<1> QED
  BY <1>5, <1>9, <1>10, <1>11 DEF g

LEMMA WeightsSpec ==
  /\ weights \in Seq(Nat) /\ Len(weights) = Len(sig) /\ DOMAIN weights = DOMAIN sig /\ DOMAIN sig = 1 .. Len(sig)
  /\ \A n \in DOMAIN sig : weights[n] = PolicyWeight[sig[n]]
  /\ AllWeight \in Nat /\ AllWeight > 0
  /\ SumOf(weights) \in Nat /\ SumOf(weights) <= AllWeight
  /\ \A n \in DOMAIN sig : weights[n] <= SumOf(weights)
<1>1. sig \in Seq(Voters) /\ DOMAIN sig = 1 .. Len(sig) /\ Len(sig) \in Nat /\ \A n \in DOMAIN sig : sig[n] \in Voters
  BY SigSpec
<1>2. \A v \in Voters : PolicyWeight[v] \in Nat
  BY VotersAssumption
<1>3. weights \in Seq(Nat) /\ Len(weights) = Len(sig) /\ DOMAIN weights = DOMAIN sig
      /\ \A n \in DOMAIN sig : weights[n] = PolicyWeight[sig[n]]
  BY <1>1, <1>2 DEF weights
<1>4. AllWeight \in Nat /\ \A v \in Voters : PolicyWeight[v] <= AllWeight
  BY <1>2, Constants, SumNat DEF AllWeight
<1>5. AllWeight > 0
  BY <1>2, <1>4, VotersAssumption
<1>6. SumOf(weights) = SumFunctionOnSet(weights, 1 .. Len(sig))
  <2>1. weights \in Seq(Int)
    BY <1>3
  <2> QED
    BY <1>3, <2>1, SumOfIsSum
<1>7. IsFiniteSet(1 .. Len(sig)) /\ \A n \in 1 .. Len(sig) : weights[n] \in Nat
  <2>1. 1 \in Int /\ Len(sig) \in Int
    BY <1>1
  <2>2. IsFiniteSet(1 .. Len(sig))
    BY <2>1, FS_Interval
  <2>3. \A n \in 1 .. Len(sig) : weights[n] \in Nat
    BY <1>3
  <2> QED
    BY <2>2, <2>3
<1>8. SumOf(weights) \in Nat /\ \A n \in 1 .. Len(sig) : weights[n] <= SumOf(weights)
  BY <1>6, <1>7, SumNat
<1>9. SumOf(weights) <= AllWeight
  <2> DEFINE own == [v \in Voters |-> SumFunctionOnSet(Owned(sig, weights, v), 1 .. Len(sig))]
  <2>1. SumFunctionOnSet(own, Voters) = SumFunctionOnSet(weights, 1 .. Len(sig))
    <3>1. \A v \in Voters : own[v] = SumFunctionOnSet(Owned(sig, weights, v), 1 .. Len(sig))
      OBVIOUS
    <3>2. \A n \in DOMAIN sig : weights[n] \in Int
      BY <1>1, <1>7
    <3> HIDE DEF own
    <3> QED
      BY <1>1, <3>1, <3>2, Constants, SumByOwner
  <2>2. ASSUME NEW v \in Voters PROVE own[v] \in Int /\ own[v] <= PolicyWeight[v]
    <3>1. \A n \in 1 .. Len(sig) : Owned(sig, weights, v)[n] = IF sig[n] = v THEN weights[n] ELSE 0
      BY <1>1 DEF Owned
    <3>2. CASE \E n \in 1 .. Len(sig) : sig[n] = v
      <4>1. PICK n \in 1 .. Len(sig) : sig[n] = v
        BY <3>2
      <4>2. Owned(sig, weights, v)[n] = PolicyWeight[v] /\ PolicyWeight[v] \in Int
        BY <1>1, <1>2, <1>3, <3>1, <4>1
      <4>3. \A x \in (1 .. Len(sig)) \ {n} : Owned(sig, weights, v)[x] = 0
        BY <1>1, <3>1, <4>1, SigSpec
      <4>4. SumFunctionOnSet(Owned(sig, weights, v), 1 .. Len(sig)) = Owned(sig, weights, v)[n]
        BY <1>7, <4>2, <4>3, SumOfOne
      <4> QED
        BY <4>2, <4>4
    <3>3. CASE ~\E n \in 1 .. Len(sig) : sig[n] = v
      <4>1. \A n \in 1 .. Len(sig) : Owned(sig, weights, v)[n] = 0
        BY <3>1, <3>3
      <4>2. SumFunctionOnSet(Owned(sig, weights, v), 1 .. Len(sig)) = 0
        BY <1>7, <4>1, SumZero
      <4> QED
        BY <1>2, <4>2
    <3> QED
      BY <3>2, <3>3
  <2>3. SumFunctionOnSet(own, Voters) <= SumFunctionOnSet(PolicyWeight, Voters)
    <3>1. \A v \in Voters : own[v] \in Int /\ PolicyWeight[v] \in Int /\ own[v] <= PolicyWeight[v]
      BY <1>2, <2>2
    <3> HIDE DEF own
    <3> QED
      BY <3>1, Constants, SumMono
  <2> QED
    BY <1>6, <2>1, <2>3 DEF AllWeight
<1> QED
  BY <1>1, <1>3, <1>4, <1>5, <1>8, <1>9

(* The portions are paid to those that may draw, are no less than their      *)
(* parts of the whole by weight, and add up to the reward.                   *)
LEMMA PortionOfSpec ==
  ASSUME SumOf(weights) > 0
  PROVE  /\ \A v \in Voters : PortionOf(v) \in Nat
         /\ \A v \in Voters : PortionOf(v) > 0 => MayDraw(v)
         /\ \A v \in Voters : MayDraw(v) => PortionOf(v) >= (PolicyWeight[v] * SigningPart) \div AllWeight
         /\ SumFunctionOnSet([v \in Voters |-> PortionOf(v)], Voters) = SigningPart
<1>1. sig \in Seq(Voters) /\ DOMAIN sig = 1 .. Len(sig) /\ Len(sig) \in Nat
  BY SigSpec
<1>2. weights \in Seq(Nat) /\ Len(weights) = Len(sig) /\ DOMAIN weights = DOMAIN sig
      /\ AllWeight \in Nat /\ AllWeight > 0 /\ SumOf(weights) <= AllWeight
  BY WeightsSpec
<1>3. portion \in Seq(Nat) /\ Len(portion) = Len(sig) /\ SumOf(portion) = SigningPart
  BY <1>2, Constants, PortionsSum DEF portion
<1>4. \A n \in 1 .. Len(sig) : portion[n] \in Nat /\ portion[n] >= (PolicyWeight[sig[n]] * SigningPart) \div AllWeight
  <2>1. \A n \in DOMAIN weights : portion[n] >= (weights[n] * SigningPart) \div AllWeight
    BY <1>2, Constants, PortionsFloor DEF portion
  <2>2. \A n \in 1 .. Len(sig) : weights[n] = PolicyWeight[sig[n]]
    BY <1>1, WeightsSpec
  <2>3. \A n \in 1 .. Len(sig) : portion[n] \in Nat
    BY <1>3
  <2> QED
    BY <1>1, <1>2, <2>1, <2>2, <2>3
<1>5. IsFiniteSet(1 .. Len(sig))
  <2>1. 1 \in Int /\ Len(sig) \in Int
    BY <1>1
  <2> QED
    BY <2>1, FS_Interval
<1>6. ASSUME NEW v \in Voters
      PROVE  /\ PortionOf(v) = SumFunctionOnSet(Owned(sig, portion, v), 1 .. Len(sig))
             /\ \A n \in 1 .. Len(sig) : Owned(sig, portion, v)[n] = IF sig[n] = v THEN portion[n] ELSE 0
  <2>1. \A n \in 1 .. Len(sig) : Owned(sig, portion, v)[n] = IF sig[n] = v THEN portion[n] ELSE 0
    BY <1>1 DEF Owned
  <2>2. Owned(sig, portion, v) \in Seq(Int) /\ Len(Owned(sig, portion, v)) = Len(sig)
    BY <1>1, <1>4 DEF Owned
  <2>3. PortionOf(v) = SumFunctionOnSet(Owned(sig, portion, v), 1 .. Len(Owned(sig, portion, v)))
    BY <2>2, SumOfIsSum DEF PortionOf
  <2> QED
    BY <2>1, <2>2, <2>3
<1>7. ASSUME NEW v \in Voters, NEW n \in 1 .. Len(sig), sig[n] = v
      PROVE  PortionOf(v) = portion[n]
  <2>1. \A x \in (1 .. Len(sig)) \ {n} : Owned(sig, portion, v)[x] = 0
    BY <1>1, <1>6, <1>7, SigSpec
  <2>2. Owned(sig, portion, v)[n] = portion[n] /\ Owned(sig, portion, v)[n] \in Int
    BY <1>4, <1>6, <1>7
  <2>3. SumFunctionOnSet(Owned(sig, portion, v), 1 .. Len(sig)) = Owned(sig, portion, v)[n]
    BY <1>5, <2>1, <2>2, SumOfOne
  <2> QED
    BY <1>6, <2>2, <2>3
<1>8. ASSUME NEW v \in Voters, ~\E n \in 1 .. Len(sig) : sig[n] = v
      PROVE  PortionOf(v) = 0
  <2>1. \A n \in 1 .. Len(sig) : Owned(sig, portion, v)[n] = 0
    BY <1>6, <1>8
  <2> QED
    BY <1>5, <1>6, <2>1, SumZero
<1>9. ASSUME NEW v \in Voters
      PROVE  /\ PortionOf(v) \in Nat
             /\ PortionOf(v) > 0 => MayDraw(v)
             /\ MayDraw(v) => PortionOf(v) >= (PolicyWeight[v] * SigningPart) \div AllWeight
  <2>1. CASE \E n \in 1 .. Len(sig) : sig[n] = v
    <3>1. PICK n \in 1 .. Len(sig) : sig[n] = v
      BY <2>1
    <3>2. PortionOf(v) = portion[n] /\ MayDraw(v)
      BY <1>1, <1>7, <3>1, SigSpec
    <3> QED
      BY <1>4, <3>1, <3>2
  <2>2. CASE ~\E n \in 1 .. Len(sig) : sig[n] = v
    <3>1. PortionOf(v) = 0 /\ ~MayDraw(v)
      BY <1>1, <1>8, <2>2, SigSpec
    <3> QED
      BY <3>1
  <2> QED
    BY <2>1, <2>2
<1>10. SumFunctionOnSet([v \in Voters |-> PortionOf(v)], Voters) = SigningPart
  <2> DEFINE own == [v \in Voters |-> PortionOf(v)]
  <2>1. \A v \in Voters : own[v] = SumFunctionOnSet(Owned(sig, portion, v), 1 .. Len(sig))
    BY <1>6
  <2>2. \A n \in DOMAIN sig : portion[n] \in Int
    BY <1>1, <1>4
  <2> HIDE DEF own
  <2>3. SumFunctionOnSet(own, Voters) = SumFunctionOnSet(portion, 1 .. Len(sig))
    BY <1>1, <2>1, <2>2, Constants, SumByOwner
  <2>4. portion \in Seq(Int)
    BY <1>3
  <2>5. SumOf(portion) = SumFunctionOnSet(portion, 1 .. Len(sig))
    BY <1>3, <2>4, SumOfIsSum
  <2> QED
    BY <1>3, <2>3, <2>5 DEF own
<1> QED
  BY <1>9, <1>10

SigningInv ==
  /\ signingPhase \in {"chain", "signers"} => signingPaid = [v \in Voters |-> 0]
  /\ signingPhase = "done" =>
       /\ signingBurned + SumFunctionOnSet(signingPaid, Voters) = SigningPart
       /\ \A v \in Voters : signingPaid[v] > 0 => finality >= 0 /\ MayDraw(v)
       /\ \A v \in eligibleVoters : finality >= 0 /\ MayDraw(v) =>
            signingPaid[v] >= (SigningPart * PolicyWeight[v]) \div AllWeight

LEMMA ClaimsSigningInv ==
  ASSUME TypeOK, SigningInv, SigningClaims
  PROVE  SigningInv'
<1> DEFINE burnAll == finality < 0 \/ SumOf(weights) = 0
           total == [v \in Voters |-> PortionOf(v)]
<1>1. /\ signingPhase = "signers" /\ signingPhase' = "done"
      /\ UNCHANGED <<eligibleVoters, signers, finality>>
  BY SigningStep
<1>2. signingPaid = [v \in Voters |-> 0] /\ eligibleVoters \subseteq Voters /\ IsFiniteSet(Voters) /\ SigningPart \in Nat
      /\ finality \in Int
  BY <1>1, Constants DEF SigningInv, TypeOK
<1>3. /\ burnAll => signingBurned' = SigningPart /\ signingPaid' = signingPaid
      /\ ~burnAll =>
           /\ signingPaid' = [v \in Voters |-> IF v \in eligibleVoters THEN PortionOf(v) ELSE 0]
           /\ signingBurned' = SumFunctionOnSet(total, Voters \ eligibleVoters)
  BY SigningTerms, SameOperators DEF SigningClaims, Signing!SigningClaims, sig, weights, portion, PortionOf, Owned
<1>4. \A v \in Voters : MayDraw(v)' = MayDraw(v)
  BY <1>1 DEF MayDraw, Signing!RewardEligible, Signing!DoubleSigners, Signing!Deadline
<1>5. weights \in Seq(Nat) /\ SumOf(weights) \in Nat /\ AllWeight \in Nat /\ AllWeight > 0
  BY WeightsSpec
<1>6. CASE burnAll
  <2>1. \A v \in Voters : signingPaid'[v] = 0
    BY <1>2, <1>3, <1>6
  <2>2. SumFunctionOnSet(signingPaid', Voters) = 0
    BY <1>2, <2>1, SumZero
  <2>3. ASSUME NEW v \in eligibleVoters, finality >= 0, MayDraw(v)
        PROVE  (SigningPart * PolicyWeight[v]) \div AllWeight = 0
    <3>1. SumOf(weights) = 0
      BY <1>2, <1>6, <2>3
    <3>2. PICK n \in DOMAIN sig : sig[n] = v
      BY <1>2, <2>3, SigSpec
    <3>3. PolicyWeight[v] = 0
      <4>1. weights[n] = PolicyWeight[v] /\ weights[n] <= 0 /\ PolicyWeight[v] \in Nat
        BY <1>2, <3>1, <3>2, WeightsSpec, VotersAssumption
      <4> QED
        BY <4>1
    <3> QED
      BY <1>2, <1>5, <3>3, SMT
  <2>4. AllWeight' = AllWeight
    BY DEF AllWeight
  <2>5. signingBurned' + SumFunctionOnSet(signingPaid', Voters) = SigningPart
    BY <1>2, <1>3, <1>6, <2>2
  <2>6. \A v \in eligibleVoters : finality >= 0 /\ MayDraw(v) => signingPaid'[v] >= (SigningPart * PolicyWeight[v]) \div AllWeight
    BY <1>2, <2>1, <2>3
  <2> QED
    BY <1>1, <1>2, <1>4, <2>1, <2>4, <2>5, <2>6 DEF SigningInv
<1>7. CASE ~burnAll
  <2>1. finality >= 0 /\ SumOf(weights) > 0
    BY <1>2, <1>5, <1>7
  <2>2. /\ \A v \in Voters : PortionOf(v) \in Nat
        /\ \A v \in Voters : PortionOf(v) > 0 => MayDraw(v)
        /\ \A v \in Voters : MayDraw(v) => PortionOf(v) >= (PolicyWeight[v] * SigningPart) \div AllWeight
        /\ SumFunctionOnSet(total, Voters) = SigningPart
    BY <2>1, PortionOfSpec
  <2>3. /\ \A v \in Voters \cap eligibleVoters : signingPaid'[v] = PortionOf(v) /\ total[v] = PortionOf(v)
        /\ \A v \in Voters \ eligibleVoters : signingPaid'[v] = 0
    BY <1>3, <1>7
  <2>4. \A v \in Voters : total[v] \in Int /\ signingPaid'[v] \in Int
    BY <2>2, <2>3
  <2> HIDE DEF total
  <2>5. IsFiniteSet(eligibleVoters) /\ IsFiniteSet(Voters \ eligibleVoters) /\ Voters \cap eligibleVoters = eligibleVoters
    BY <1>2, FS_Subset
  <2>6. /\ SumFunctionOnSet(total, Voters) =
            SumFunctionOnSet(total, eligibleVoters) + SumFunctionOnSet(total, Voters \ eligibleVoters)
        /\ SumFunctionOnSet(signingPaid', Voters) =
             SumFunctionOnSet(signingPaid', eligibleVoters) + SumFunctionOnSet(signingPaid', Voters \ eligibleVoters)
    BY <1>2, <2>4, SumSplit
  <2>7. SumFunctionOnSet(signingPaid', Voters \ eligibleVoters) = 0
    BY <2>3, <2>5, SumZero
  <2>8. SumFunctionOnSet(total, eligibleVoters) = SumFunctionOnSet(signingPaid', eligibleVoters)
    <3>1. \A v \in eligibleVoters : total[v] \in Int /\ signingPaid'[v] = total[v]
      BY <1>2, <2>3, <2>4
    <3> QED
      BY <2>5, <3>1, SumEqual
  <2>9. SumFunctionOnSet(total, eligibleVoters) \in Int /\ SumFunctionOnSet(total, Voters \ eligibleVoters) \in Int
    <3>1. \A v \in eligibleVoters : total[v] \in Int
      BY <1>2, <2>4
    <3>2. \A v \in Voters \ eligibleVoters : total[v] \in Int
      BY <2>4
    <3> QED
      BY <2>5, <3>1, <3>2, SumInt
  <2>10. signingBurned' = SumFunctionOnSet(total, Voters \ eligibleVoters)
    BY <1>3, <1>7
  <2>11. signingBurned' + SumFunctionOnSet(signingPaid', Voters) = SigningPart
    BY <2>2, <2>6, <2>7, <2>8, <2>9, <2>10
  <2>12. \A v \in Voters : signingPaid'[v] > 0 => finality >= 0 /\ MayDraw(v)
    BY <2>1, <2>2, <2>3
  <2>13. \A v \in eligibleVoters : MayDraw(v) => signingPaid'[v] >= (SigningPart * PolicyWeight[v]) \div AllWeight
    <3>1. \A v \in Voters : SigningPart * PolicyWeight[v] = PolicyWeight[v] * SigningPart
      <4>1. \A v \in Voters : PolicyWeight[v] \in Nat
        BY VotersAssumption
      <4>2. \A x, y \in Nat : x * y = y * x
        BY SMT
      <4> QED
        BY <1>2, <4>1, <4>2
    <3> QED
      BY <1>2, <2>2, <2>3, <2>5, <3>1
  <2>14. AllWeight' = AllWeight
    BY DEF AllWeight
  <2> QED
    BY <1>1, <1>2, <1>4, <2>11, <2>12, <2>13, <2>14 DEF SigningInv
<1> QED
  BY <1>6, <1>7

(* The retained signatures: under each hash those of the voters that signed   *)
(* it, each from one of the voter's messages.                                *)
Hashes == {Signing!Consensus, Signing!Wrong}
HashOf(m) == IF m.good /\ finality >= 0 THEN Signing!Consensus ELSE Signing!Wrong
Filed(v, hash) ==
  {n \in DOMAIN ExtractSignatures : ExtractSignatures[n].from = v /\ HashOf(ExtractSignatures[n]) = hash}

SignersInv ==
  /\ DOMAIN signers = Hashes
  /\ ~Unread => \A hash \in Hashes :
       /\ DOMAIN signers[hash] = {v \in Voters : Filed(v, hash) # {}}
       /\ \A v \in DOMAIN signers[hash] : \E n \in Filed(v, hash) : signers[hash][v] = ExtractSignatures[n].ts

LEMMA ExtractSpec ==
  ASSUME ChainTypeOK
  PROVE  /\ ExtractSignatures \in Seq(Signatures)
         /\ \A n \in DOMAIN ExtractSignatures : InEpoch(ExtractSignatures[n])
<1> DEFINE P == {n \in DOMAIN sigs : InEpoch(sigs[n])}
           e == ExtractSignatures
<1>1. e = AtPositions(sigs, P) /\ sigs \in Seq(Signatures)
  BY DEF ExtractSignatures, ChainTypeOK
<1> HIDE DEF e
<1>2. e \in Seq(Signatures) /\ \E at : TakenFrom(e, sigs, P, Len(sigs), at)
  <2> HIDE DEF P
  <2> QED
    BY <1>1, AtPositionsSpec
<1>3. \A n \in DOMAIN e : InEpoch(e[n])
  <2>1. DOMAIN e = 1 .. Len(e)
    BY <1>2
  <2> QED
    BY <1>2, <2>1 DEF TakenFrom
<1> QED
  BY <1>2, <1>3 DEF e

LEMMA ReadSignersInv ==
  ASSUME TypeOK, SignersInv, ReadRound
  PROVE  SignersInv'
<1> DEFINE e == ExtractSignatures
           Hash(m) == IF m.good /\ finality' >= 0 THEN Signing!Consensus ELSE Signing!Wrong
           filed(v, hash) == {n \in DOMAIN e : e[n].from = v /\ Hash(e[n]) = hash}
<1>1. UNCHANGED <<relayV2, sigs>> /\ signingPhase' = "signers" /\ finality' \in Int
  BY ReadRoundStep
<1>2. e' = e
  BY <1>1 DEF ExtractSignatures, AtPositions, InEpoch
<1>3. e \in Seq(Signatures) /\ DOMAIN e = 1 .. Len(e) /\ Len(e) \in Nat
  BY ExtractSpec DEF TypeOK
<1>4. \A v, hash : Filed(v, hash)' = filed(v, hash)
  BY <1>2 DEF Filed, HashOf, Signing!Consensus, Signing!Wrong
<1>5. DOMAIN signers = Hashes /\ signers' = [hash \in DOMAIN signers |-> Signing!FirstSignatures(hash)]
  BY DEF SignersInv, ReadRound, Signing!GetSignersByRound
<1>6. ASSUME NEW hash \in Hashes
      PROVE  /\ DOMAIN signers'[hash] = {v \in Voters : filed(v, hash) # {}}
             /\ \A v \in DOMAIN signers'[hash] : signers'[hash][v] = e[Min(filed(v, hash))].ts
  <2>1. signers'[hash] = Signing!FirstSignatures(hash)
    BY <1>5
  <2>2. \A m : Signing!SignedHash(m) = Hash(m)
    BY Zenon DEF Signing!SignedHash
  <2>3. \A T : Signing!Min(T) = Min(T)
    BY DEF Signing!Min, Min
  <2>4. Signing!FirstSignatures(hash) =
          [v \in {v \in Voters : filed(v, hash) # {}} |-> e[Min(filed(v, hash))].ts]
    <3> HIDE DEF Hash
    <3> QED
      BY <2>2, <2>3, SameOperators DEF Signing!FirstSignatures
  <2> HIDE DEF filed
  <2> QED
    BY <2>1, <2>4
<1>7. \A v, hash : filed(v, hash) \in SUBSET Nat
  BY <1>3
<1>8. \A v, hash : filed(v, hash) # {} => Min(filed(v, hash)) \in filed(v, hash)
  <2> HIDE DEF filed
  <2> QED
    BY <1>7, MinOfNat
<1>9. ASSUME NEW hash \in Hashes
      PROVE  /\ DOMAIN signers'[hash] = {v \in Voters : Filed(v, hash)' # {}}
             /\ \A v \in DOMAIN signers'[hash] : \E n \in Filed(v, hash)' : signers'[hash][v] = e[n].ts
  <2>1. \A v : Filed(v, hash)' = filed(v, hash)
    BY <1>4
  <2> HIDE DEF filed
  <2>2. DOMAIN signers'[hash] = {v \in Voters : Filed(v, hash)' # {}}
    BY <1>6, <2>1
  <2>3. \A v \in DOMAIN signers'[hash] : Min(filed(v, hash)) \in Filed(v, hash)'
    BY <1>6, <1>8, <2>1
  <2> QED
    BY <1>6, <2>2, <2>3
<1>10. Hashes' = Hashes /\ DOMAIN signers' = Hashes
  BY <1>5 DEF Hashes, Signing!Consensus, Signing!Wrong
<1> HIDE DEF e
<1> QED
  BY <1>1, <1>2, <1>9, <1>10 DEF SignersInv, e

LEMMA InitSigning == Init => SigningInv /\ SignersInv
BY DEF Init, Signing!SigningInit, SigningInv, SignersInv, Unread, Hashes

LEMMA NextSigningInv == TypeOK /\ SigningInv /\ SignersInv /\ [Next]_vars => SigningInv' /\ SignersInv'
<1> SUFFICES ASSUME TypeOK, SigningInv, SignersInv, [Next]_vars PROVE SigningInv' /\ SignersInv'
  OBVIOUS
<1>1. ASSUME UNCHANGED <<eligibleVoters, signingPhase, signers, finality, signingPaid, signingBurned>>
      PROVE  SigningInv'
  <2>1. \A v : MayDraw(v)' = MayDraw(v)
    BY <1>1 DEF MayDraw, Signing!RewardEligible, Signing!DoubleSigners, Signing!Deadline
  <2> QED
    BY <1>1, <2>1 DEF SigningInv, AllWeight
<1>2. ASSUME UNCHANGED <<sigs, signers, finality>>, ~Unread
      PROVE  SignersInv'
  <2>1. ExtractSignatures' = ExtractSignatures
    BY <1>2 DEF ExtractSignatures, AtPositions, InEpoch
  <2>2. \A v, hash : Filed(v, hash)' = Filed(v, hash)
    BY <1>2, <2>1 DEF Filed, HashOf
  <2> QED
    BY <1>2, <2>1, <2>2 DEF SignersInv, Hashes
<1>3. CASE Chain
  BY <1>1, <1>3 DEF Chain, SignersInv, Unread, signingVars, Hashes
<1>4. CASE ReadRound
  <2>1. SigningInv'
    <3>1. signingPhase = "chain" /\ signingPhase' = "signers" /\ signingPaid' = signingPaid
      BY <1>4, ReadRoundStep
    <3> QED
      BY <3>1 DEF SigningInv
  <2> QED
    BY <1>4, <2>1, ReadSignersInv
<1>5. CASE SigningClaims
  BY <1>2, <1>5, ClaimsSigningInv, SigningStep DEF Unread
<1>6. CASE FinalizationSteps
  BY <1>1, <1>2, <1>6, FinalizationStep DEF Unread, signingVars
<1>7. CASE UNCHANGED vars
  <2>1. SigningInv'
    BY <1>1, <1>7 DEF vars, signingVars
  <2>2. SignersInv'
    <3>1. CASE Unread
      BY <1>7, <3>1 DEF SignersInv, Unread, vars, signingVars, Hashes
    <3>2. CASE ~Unread
      BY <1>2, <1>7, <3>2 DEF vars, chainVars, signingVars
    <3> QED
      BY <3>1, <3>2
  <2> QED
    BY <2>1, <2>2
<1>8. CASE Unreadable
  BY <1>8, UnreadableStep DEF SigningInv, SignersInv, Unread, Hashes
<1> QED
  BY <1>3, <1>4, <1>5, <1>6, <1>7, <1>8 DEF Next, FinalizationSteps
-----------------------------------------------------------------------------
(* The list of signatures of a call.  What is read of it has the weight of    *)
(* different signers, of none after the last.                                *)
SigsOfACall == [index : Nat \ {0}, valid : BOOLEAN, canonical : BOOLEAN]
Readings == [ok : BOOLEAN, last : Nat, weight : Int, enough : BOOLEAN]
ListOK(list) ==
  /\ list \in Seq(SigsOfACall)
  /\ \A n \in DOMAIN list : list[n].valid => list[n].index \in DOMAIN SignerWeight

SignedUpTo(list, n) == {list[m].index : m \in {m \in 1 .. n : list[m].valid}}
OfDifferent(read, list, n) ==
  \E V \in SUBSET SignedUpTo(list, n) :
    /\ \A x \in V : x <= read.last
    /\ read.weight = SumFunctionOnSet(SignerWeight, V)

LEMMA SignersFinite ==
  ASSUME NEW list, ListOK(list), NEW n \in 0 .. Len(list)
  PROVE  /\ SignedUpTo(list, n) \subseteq DOMAIN SignerWeight /\ SignedUpTo(list, n) \subseteq Nat
         /\ IsFiniteSet(SignedUpTo(list, n))
         /\ \A V \in SUBSET SignedUpTo(list, n) : \A x \in V : SignerWeight[x] \in Nat
<1>1. SignerWeight \in Seq(Nat) /\ DOMAIN SignerWeight = 1 .. Len(SignerWeight) /\ Len(SignerWeight) \in Nat
  BY PolicyAssumption
<1>2. SignedUpTo(list, n) \subseteq DOMAIN SignerWeight
  <2>1. \A m \in 1 .. n : m \in DOMAIN list
    BY DEF ListOK
  <2> QED
    BY <2>1 DEF ListOK, SignedUpTo
<1>3. IsFiniteSet(DOMAIN SignerWeight)
  <2>1. 1 \in Int /\ Len(SignerWeight) \in Int
    BY <1>1
  <2>2. IsFiniteSet(1 .. Len(SignerWeight))
    BY <2>1, FS_Interval
  <2> QED
    BY <1>1, <2>2
<1>4. IsFiniteSet(SignedUpTo(list, n))
  BY <1>2, <1>3, FS_Subset
<1>5. \A x \in DOMAIN SignerWeight : SignerWeight[x] \in Nat /\ x \in Nat
  BY <1>1
<1> QED
  BY <1>2, <1>4, <1>5

LEMMA ReadSignatureStep ==
  ASSUME ChainTypeOK, NEW list, ListOK(list), NEW n \in 1 .. Len(list),
         NEW read \in Readings, read.ok => OfDifferent(read, list, n - 1)
  PROVE  /\ ReadSignature(read, list[n]) \in Readings
         /\ ReadSignature(read, list[n]).ok => OfDifferent(ReadSignature(read, list[n]), list, n)
<1> DEFINE s == list[n]   next == ReadSignature(read, s)
<1>1. /\ s \in SigsOfACall /\ (s.valid => s.index \in DOMAIN SignerWeight)
      /\ n \in Int /\ n - 1 \in 0 .. Len(list) /\ n \in 0 .. Len(list) /\ relayV2 \in BOOLEAN
  BY DEF ListOK, ChainTypeOK
<1>2. s.index \in Nat /\ s.valid \in BOOLEAN /\ s.canonical \in BOOLEAN
  BY <1>1 DEF SigsOfACall
<1>3. /\ read.ok \in BOOLEAN /\ read.last \in Nat /\ read.weight \in Int /\ read.enough \in BOOLEAN
  BY DEF Readings
<1>4. SignedUpTo(list, n - 1) \subseteq SignedUpTo(list, n) /\ (s.valid => s.index \in SignedUpTo(list, n))
  <2>1. n \in 1 .. n /\ \A m \in 1 .. n - 1 : m \in 1 .. n
    BY <1>1
  <2> QED
    BY <2>1 DEF SignedUpTo
<1>5. s.valid => SignerWeight[s.index] \in Nat
  BY <1>1, PolicyAssumption
<1> HIDE DEF s
<1>6. CASE next = read
  BY <1>4, <1>6 DEF OfDifferent, s
<1>7. CASE next = [read EXCEPT !.ok = FALSE]
  <2>1. next \in Readings /\ ~next.ok
    <3> HIDE DEF next
    <3> QED
      BY <1>7 DEF Readings
  <2> QED
    BY <2>1 DEF s
<1>8. CASE next = Accept(read, s) /\ read.ok /\ ~(s.index <= read.last)
  <2> DEFINE w == read.weight + (IF s.valid THEN SignerWeight[s.index] ELSE 0)
  <2>1. next = [ok |-> TRUE, last |-> s.index, weight |-> w, enough |-> relayV2 /\ w > Threshold]
    BY <1>8 DEF Accept
  <2>2. w \in Int /\ next.last = s.index /\ next.weight = w /\ next \in Readings
    <3>1. w \in Int
      BY <1>2, <1>3, <1>5
    <3> HIDE DEF w, next
    <3> QED
      BY <1>1, <1>2, <2>1, <3>1 DEF Readings
  <2>3. PICK V \in SUBSET SignedUpTo(list, n - 1) :
          (\A x \in V : x <= read.last) /\ read.weight = SumFunctionOnSet(SignerWeight, V)
    BY <1>8 DEF OfDifferent
  <2>4. /\ \A x \in V : x \in Nat /\ SignerWeight[x] \in Nat
        /\ IsFiniteSet(V)
    BY <1>1, <2>3, SignersFinite, FS_Subset
  <2>5. \A x \in V : x < s.index
    <3>1. read.last < s.index
      BY <1>2, <1>3, <1>8
    <3> QED
      BY <1>2, <1>3, <2>3, <2>4, <3>1
  <2>6. OfDifferent(next, list, n)
    <3>1. CASE s.valid
      <4> DEFINE U == V \cup {s.index}
      <4>1. s.index \notin V
        BY <1>2, <2>5
      <4>2. IsFiniteSet(U) /\ U \ {s.index} = V /\ s.index \in U
        BY <2>4, <4>1, FS_AddElement
      <4>3. \A x \in U : SignerWeight[x] \in Int
        BY <1>5, <2>4, <3>1
      <4>4. SumFunctionOnSet(SignerWeight, U) = SignerWeight[s.index] + SumFunctionOnSet(SignerWeight, V)
        <5> HIDE DEF U
        <5>1. SumFunctionOnSet(SignerWeight, U) = SignerWeight[s.index] + SumFunctionOnSet(SignerWeight, U \ {s.index})
          BY <4>2, <4>3, SumTakeOut
        <5> QED
          BY <4>2, <5>1
      <4>5. w = SumFunctionOnSet(SignerWeight, U)
        <5>1. SignerWeight[s.index] \in Int /\ w = read.weight + SignerWeight[s.index]
          BY <1>5, <3>1
        <5> HIDE DEF U, w
        <5> QED
          BY <1>3, <2>3, <4>4, <5>1
      <4>6. U \in SUBSET SignedUpTo(list, n) /\ \A x \in U : x <= s.index
        BY <1>2, <1>4, <2>4, <2>5, <3>1
      <4> HIDE DEF U, w, next
      <4> QED
        BY <2>2, <4>5, <4>6 DEF OfDifferent
    <3>2. CASE ~s.valid
      <4>1. w = read.weight
        BY <1>3, <3>2
      <4>2. V \in SUBSET SignedUpTo(list, n) /\ \A x \in V : x <= s.index
        BY <1>2, <1>4, <2>4, <2>5
      <4> HIDE DEF w, next
      <4> QED
        BY <2>2, <2>3, <4>1, <4>2 DEF OfDifferent
    <3> QED
      BY <3>1, <3>2
  <2> QED
    BY <2>2, <2>6 DEF s
<1> QED
  BY <1>6, <1>7, <1>8 DEF ReadSignature

LEMMA ReadSignatureType ==
  ASSUME ChainTypeOK, NEW list, ListOK(list), NEW n \in 1 .. Len(list), NEW read \in Readings
  PROVE  ReadSignature(read, list[n]) \in Readings
<1> DEFINE s == list[n]   w == read.weight + (IF s.valid THEN SignerWeight[s.index] ELSE 0)
<1>1. s \in SigsOfACall /\ (s.valid => s.index \in DOMAIN SignerWeight) /\ relayV2 \in BOOLEAN
  BY DEF ListOK, ChainTypeOK
<1>2. s.index \in Nat /\ (s.valid => SignerWeight[s.index] \in Nat)
  BY <1>1, PolicyAssumption DEF SigsOfACall
<1>3. w \in Int
  BY <1>2 DEF Readings
<1>4. Accept(read, s) = [ok |-> TRUE, last |-> s.index, weight |-> w, enough |-> relayV2 /\ w > Threshold]
  BY DEF Accept
<1> HIDE DEF s, w
<1>5. Accept(read, s) \in Readings
  BY <1>1, <1>2, <1>3, <1>4 DEF Readings
<1>6. [read EXCEPT !.ok = FALSE] \in Readings
  BY DEF Readings
<1>7. ReadSignature(read, s) \in {read, [read EXCEPT !.ok = FALSE], Accept(read, s)}
  BY DEF ReadSignature
<1> QED
  BY <1>5, <1>6, <1>7 DEF s

LEMMA ReadListSpec ==
  ASSUME ChainTypeOK, NEW list, ListOK(list), ReadList(list).ok
  PROVE  OfDifferent(ReadList(list), list, Len(list))
<1> DEFINE N == Len(list)
           step == [p \in (1 .. N) \X Readings |-> ReadSignature(p[2], list[p[1]])]
           Body(it) == [n \in 0 .. N |-> IF n = 0 THEN NothingRead ELSE ReadSignature(it[n - 1], list[n])]
           read == CHOOSE it : it = Body(it)
           I == {k \in Nat : k <= N => (read[k].ok => OfDifferent(read[k], list, k))}
<1>1. N \in Nat
  BY DEF ListOK
<1>2. NothingRead \in Readings
  BY DEF NothingRead, Readings
<1>3. step \in [(1 .. N) \X Readings -> Readings]
  BY ReadSignatureType
<1>4. PICK it \in [0 .. N -> Readings] : StepByStep(it, N, NothingRead, step)
  <2> HIDE DEF step, N
  <2> QED
    BY <1>1, <1>2, <1>3, NatRecursion
<1>5. it = Body(it)
  <2>1. \A n \in 1 .. N : n - 1 \in 0 .. N /\ it[n - 1] \in Readings
    BY <1>1
  <2>2. \A n \in 1 .. N : step[<<n, it[n - 1]>>] = ReadSignature(it[n - 1], list[n])
    BY <2>1
  <2>3. it = [n \in 0 .. N |-> IF n = 0 THEN NothingRead ELSE step[<<n, it[n - 1]>>]]
    BY <1>4 DEF StepByStep
  <2>4. \A n \in 0 .. N : n # 0 => n \in 1 .. N
    BY <1>1
  <2> HIDE DEF step, N
  <2> QED
    BY <2>2, <2>3, <2>4
<1>6. read = Body(read)
  <2> HIDE DEF Body
  <2> QED
    BY <1>5
<1>7. ReadList(list) = read[N]
  BY DEF ReadList
<1> HIDE DEF read
<1>8. read[0] = NothingRead /\ \A n \in 1 .. N : read[n] = ReadSignature(read[n - 1], list[n])
  BY <1>1, <1>6
<1>9. 0 \in I
  <2>1. OfDifferent(NothingRead, list, 0)
    <3>1. SumFunctionOnSet(SignerWeight, {}) = 0
      BY SumEmpty
    <3> QED
      BY <3>1 DEF OfDifferent, NothingRead
  <2> QED
    BY <1>8, <2>1
<1>10. \A k \in 0 .. N : read[k] \in Readings
  <2> DEFINE J == {k \in Nat : k <= N => read[k] \in Readings}
  <2>1. 0 \in J
    BY <1>2, <1>8
  <2>2. \A k \in Nat : k \in J => k + 1 \in J
    <3> TAKE k \in Nat
    <3> HAVE k \in J
    <3>1. k + 1 <= N => k + 1 \in 1 .. N /\ (k + 1) - 1 = k /\ read[k] \in Readings
      BY <1>1
    <3>2. k + 1 <= N => read[k + 1] \in Readings
      BY <1>8, <3>1, ReadSignatureType
    <3> QED
      BY <3>2
  <2> HIDE DEF J
  <2>3. Nat \subseteq J
    BY <2>1, <2>2, SetInduction
  <2> QED
    BY <1>1, <2>3 DEF J
<1>11. ASSUME NEW k \in Nat, k \in I, k + 1 <= N, read[k + 1].ok
       PROVE  OfDifferent(read[k + 1], list, k + 1)
  <2>1. k + 1 \in 1 .. N /\ (k + 1) - 1 = k /\ k \in 0 .. N /\ k <= N
    BY <1>1, <1>11
  <2>2. read[k + 1] = ReadSignature(read[k], list[k + 1]) /\ read[k] \in Readings
    BY <1>8, <1>10, <2>1
  <2>3. read[k].ok => OfDifferent(read[k], list, (k + 1) - 1)
    BY <1>11, <2>1
  <2> QED
    BY <1>11, <2>1, <2>2, <2>3, ReadSignatureStep
<1>12. \A k \in Nat : k \in I => k + 1 \in I
  BY <1>11
<1>13. N \in I
  <2> HIDE DEF I, N
  <2> QED
    BY <1>1, <1>9, <1>12, SetInduction
<1> QED
  BY <1>1, <1>7, <1>13

-----------------------------------------------------------------------------
IInv == TypeOK /\ FinalizationsOK /\ FinalizationInv /\ SigningInv /\ SignersInv

LEMMA SpecIInv == Spec => []IInv
<1>1. Init => IInv
  BY InitTypeOK, InitFinalizationInv, InitSigning DEF IInv
<1>2. IInv /\ [Next]_vars => IInv'
  BY NextTypeOK, NextFinalizationInv, NextSigningInv DEF IInv
<1> QED
  BY <1>1, <1>2, PTL DEF Spec

(* The round's state has the types that the model gives it. *)
THEOREM RoundTypeCorrect == Spec => []TypeOK
<1>1. IInv => TypeOK
  BY DEF IInv
<1> QED
  BY <1>1, SpecIInv, PTL

(* Every wei of the signing and of the finalization reward of a round is      *)
(* claimed once, whatever was sent and whenever (rewards/signing.go,         *)
(* rewards/finalization.go).                                                *)
THEOREM RoundIsConserved == Spec => []RoundConserved
<1>1. IInv => RoundConserved
  <2> SUFFICES ASSUME IInv PROVE RoundConserved
    OBVIOUS
  <2>1. Signing!SigningConserved
    BY SameOperators DEF IInv, SigningInv, Signing!SigningConserved
  <2>2. FinalizationInv /\ TypeOK /\ Finalization!Senders = Senders
    BY SameOperators DEF IInv
  <2>3. Paid \in Int
    <3>1. \A s \in Senders : finalizationPaid[s] \in Int
      BY <2>2 DEF FinalizationInv
    <3> QED
      BY <3>1, Constants, SumInt DEF Paid
  <2>4. /\ finalizationPhase = "done" => undistributedAmount = 0
        /\ undistributedAmount + finalizationBurned + Paid = FinalizationPart
    BY <2>2, <2>3 DEF FinalizationInv
  <2>5. Finalization!FinalizationConserved
    BY <2>2, <2>4, SameOperators DEF Finalization!FinalizationConserved, Paid
  <2> QED
    BY <2>1, <2>5 DEF RoundConserved
<1> QED
  BY <1>1, SpecIInv, PTL

(* In the grace period finalizers are paid alike, up to one wei, and only    *)
(* drawn ones with earnings in the round (getFinalizationClaims).             *)
THEOREM FinalizersPaidAlike == Spec => []EqualShares
<1>1. IInv => EqualShares
  BY ShareTerms DEF IInv, FinalizationInv
<1> QED
  BY <1>1, SpecIInv, PTL

(* Later calls take nothing from a drawn finalizer that called first          *)
(* (GetFinalizationsByRound, getFinalizationClaims).                         *)
THEOREM FirstFinalizerPaid == Spec => []FirstCallerPaid
<1>1. IInv => FirstCallerPaid
  BY ShareTerms DEF IInv, FinalizationInv
<1> QED
  BY <1>1, SpecIInv, PTL

(* What is read as a finalization has enough weight of different signers, for *)
(* lists of every length (DecodeFinalization).                               *)
THEOREM FinalizedByEnough == Spec => []EnoughSigners
<1>1. IInv => EnoughSigners
  <2> SUFFICES ASSUME IInv, NEW n \in DOMAIN finalizations
               PROVE  SumFunctionOnSet(SignerWeight, Signed(finalizations[n].call)) > Threshold
    BY DEF EnoughSigners
  <2> DEFINE list == finalizations[n].call.list   N == Len(list)
  <2>1. /\ ChainTypeOK /\ finalizations[n] \in Relayed
        /\ ReadList(list).ok /\ ReadList(list).weight > Threshold
    BY DEF IInv, TypeOK, FinalizationsOK, Counts, Decodes
  <2>2. PICK s \in Senders : finalizations[n].call \in RelayCalls[s]
    BY <2>1 DEF Relayed, Calls
  <2>3. ListOK(list)
    BY <2>2, CallsAssumption DEF ListOK, SigsOfACall
  <2> HIDE DEF list
  <2>4. N \in 0 .. Len(list) /\ N \in Nat /\ DOMAIN list = 1 .. N
    BY <2>3 DEF ListOK
  <2>5. Signed(finalizations[n].call) = SignedUpTo(list, N)
    BY <2>4 DEF Signed, SignedUpTo, list
  <2>6. PICK V \in SUBSET SignedUpTo(list, N) : ReadList(list).weight = SumFunctionOnSet(SignerWeight, V)
    BY <2>1, <2>3, ReadListSpec DEF OfDifferent
  <2>7. /\ IsFiniteSet(SignedUpTo(list, N))
        /\ \A x \in SignedUpTo(list, N) : SignerWeight[x] \in Nat
    BY <2>3, <2>4, SignersFinite
  <2>8. /\ SumFunctionOnSet(SignerWeight, V) \in Nat
        /\ SumFunctionOnSet(SignerWeight, V) <= SumFunctionOnSet(SignerWeight, SignedUpTo(list, N))
    BY <2>7, SumSubset
  <2>9. SumFunctionOnSet(SignerWeight, SignedUpTo(list, N)) \in Nat
    BY <2>7, SumNat
  <2> QED
    BY <2>1, <2>5, <2>6, <2>8, <2>9, PolicyAssumption
<1> QED
  BY <1>1, SpecIInv, PTL

(* The voters that may draw, by what they sent. *)
LEMMA MayDrawSpec ==
  ASSUME IInv, ~Unread, finality >= 0, NEW v \in Voters
  PROVE  /\ MayDraw(v) => /\ Signing!Sent(v) = Signing!Good(v)
                          /\ \E m \in Signing!Good(v) : Signing!Timely(m)
         /\ Signing!Sent(v) # {} /\ (\A m \in Signing!Sent(v) : m.good /\ Signing!Timely(m))
              => MayDraw(v) /\ v \notin Signing!DoubleSigners
<1> DEFINE e == ExtractSignatures   C == Signing!Consensus   W == Signing!Wrong
           sent == {m \in {e[n] : n \in DOMAIN e} : m.from = v}
<1>1. Signing!Sent(v) = sent /\ Signing!Good(v) = {m \in sent : m.good}
  BY SameOperators DEF Signing!Sent, Signing!Good, Signing!ToSet
<1>2. e \in Seq(Signatures) /\ \A n \in DOMAIN e : InEpoch(e[n])
  BY ExtractSpec DEF IInv, TypeOK
<1>3. /\ DOMAIN signers[C] = {u \in Voters : Filed(u, C) # {}} /\ DOMAIN signers[W] = {u \in Voters : Filed(u, W) # {}}
      /\ \A u \in DOMAIN signers[C] : \E n \in Filed(u, C) : signers[C][u] = e[n].ts
  BY DEF IInv, SignersInv, Hashes
<1>4. C # W
  BY DEF Signing!Consensus, Signing!Wrong
<1>5. /\ Filed(v, C) = {n \in DOMAIN e : e[n].from = v /\ e[n].good}
      /\ Filed(v, W) = {n \in DOMAIN e : e[n].from = v /\ ~e[n].good}
  <2>1. \A n : HashOf(e[n]) = IF e[n].good THEN C ELSE W
    BY DEF HashOf
  <2> HIDE DEF C, W, e
  <2> QED
    BY <1>4, <2>1 DEF Filed, e
<1>6. /\ \A n \in DOMAIN e : e[n].from = v => e[n] \in sent
      /\ \A m \in sent : \E n \in DOMAIN e : m = e[n] /\ e[n].from = v
  OBVIOUS
<1>7. MayDraw(v) =
        (/\ v \in DOMAIN signers[C] /\ v \notin DOMAIN signers[W]
         /\ RevealDeadline < signers[C][v]
         /\ signers[C][v] <= RevealDeadline + GracePeriodSignatures \/ signers[C][v] <= Signing!Deadline)
  BY DEF MayDraw, Signing!RewardEligible, Signing!DoubleSigners
<1>8. \A n \in DOMAIN e : e[n].ts \in Nat
  <2>1. \A n \in DOMAIN e : e[n] \in Signatures
    BY <1>2
  <2> QED
    BY <2>1 DEF Signatures
<1>9. finality \in Int /\ RevealDeadline \in Nat /\ EpochEnd \in Nat /\ GracePeriodSignatures \in Nat
  BY Constants DEF IInv, TypeOK
<1>10. Signing!Deadline = IF finality < EpochEnd THEN finality ELSE EpochEnd
  BY DEF Signing!Deadline
<1> HIDE DEF C, W, sent, e
<1>11. ASSUME MayDraw(v)
       PROVE  Signing!Sent(v) = Signing!Good(v) /\ \E m \in Signing!Good(v) : Signing!Timely(m)
  <2>1. v \in DOMAIN signers[C] /\ Filed(v, W) = {}
    BY <1>3, <1>7, <1>11
  <2>2. PICK n \in Filed(v, C) : signers[C][v] = e[n].ts
    BY <1>3, <2>1
  <2>3. n \in DOMAIN e /\ e[n].from = v /\ e[n].good /\ e[n] \in sent /\ e[n].ts \in Nat
    BY <1>5, <1>6, <1>8, <2>2
  <2>4. RevealDeadline < e[n].ts /\ (e[n].ts <= RevealDeadline + GracePeriodSignatures \/ e[n].ts <= Signing!Deadline)
    BY <1>7, <1>11, <2>2
  <2>5. Signing!Timely(e[n])
    BY <1>9, <1>10, <2>3, <2>4 DEF Signing!Timely
  <2>6. \A m \in sent : m.good
    BY <1>5, <1>6, <2>1
  <2>7. e[n] \in Signing!Good(v)
    BY <1>1, <2>3
  <2> QED
    BY <1>1, <2>5, <2>6, <2>7
<1>12. ASSUME Signing!Sent(v) # {}, \A m \in Signing!Sent(v) : m.good /\ Signing!Timely(m)
       PROVE  MayDraw(v) /\ v \notin Signing!DoubleSigners
  <2>1. \A n \in DOMAIN e : e[n].from = v => e[n].good /\ Signing!Timely(e[n])
    BY <1>1, <1>6, <1>12
  <2>2. Filed(v, W) = {} /\ Filed(v, C) # {}
    BY <1>1, <1>5, <1>6, <1>12, <2>1
  <2>3. v \in DOMAIN signers[C] /\ v \notin DOMAIN signers[W]
    BY <1>3, <2>2
  <2>4. PICK n \in Filed(v, C) : signers[C][v] = e[n].ts
    BY <1>3, <2>3
  <2>5. n \in DOMAIN e /\ Signing!Timely(e[n]) /\ e[n].ts \in Nat /\ e[n].ts <= EpochEnd
    BY <1>2, <1>5, <1>8, <2>1, <2>4 DEF InEpoch
  <2>6. RevealDeadline < e[n].ts /\ (e[n].ts <= RevealDeadline + GracePeriodSignatures \/ e[n].ts <= Signing!Deadline)
    BY <1>9, <1>10, <2>5 DEF Signing!Timely
  <2>7. v \notin Signing!DoubleSigners
    BY <2>3 DEF Signing!DoubleSigners, W
  <2> QED
    BY <1>7, <2>3, <2>4, <2>6, <2>7
<1> QED
  BY <1>11, <1>12

(* Nobody is paid for a round that was not finalized, for a signature out of  *)
(* time, or after signing two results (getSigningClaims, getDoubleSigners).   *)
THEOREM OnlyDeservingPaid == Spec => []PaidOnlyIfDeserved
<1>1. IInv => PaidOnlyIfDeserved
  <2> SUFFICES ASSUME IInv, signingPhase = "done", NEW v \in Voters, signingPaid[v] > 0
               PROVE  /\ finality >= 0
                      /\ Signing!Sent(v) = Signing!Good(v)
                      /\ \E m \in Signing!Good(v) : Signing!Timely(m)
    BY DEF PaidOnlyIfDeserved, Signing!PaidOnlyIfDeserved
  <2>1. finality >= 0 /\ MayDraw(v)
    BY DEF IInv, SigningInv
  <2> QED
    BY <2>1, MayDrawSpec DEF Unread
<1> QED
  BY <1>1, SpecIInv, PTL

(* A voter with earnings that signed the finalized result only, and in time,  *)
(* gets its share by weight whatever the others send, and owes no penalty.    *)
THEOREM HonestSignerPaid == Spec => []HonestGetsShare
<1>1. IInv => HonestGetsShare
  <2>1. Signing!SumFunctionOnSet(PolicyWeight, Voters) = AllWeight
    BY SameOperators DEF AllWeight
  <2> SUFFICES ASSUME IInv, signingPhase = "done", finality >= 0, NEW v \in eligibleVoters,
                      Signing!Sent(v) # {}, \A m \in Signing!Sent(v) : m.good /\ Signing!Timely(m)
               PROVE  /\ signingPaid[v] >= (SigningPart * PolicyWeight[v]) \div AllWeight
                      /\ Signing!Penalty(v) = 0
    BY <2>1 DEF HonestGetsShare, Signing!HonestGetsShare
  <2>2. v \in Voters
    BY DEF IInv, TypeOK
  <2>3. MayDraw(v) /\ v \notin Signing!DoubleSigners
    BY <2>2, MayDrawSpec DEF Unread
  <2>4. signingPaid[v] >= (SigningPart * PolicyWeight[v]) \div AllWeight
    BY <2>3 DEF IInv, SigningInv
  <2>5. Signing!Penalty(v) = 0
    BY <2>3 DEF Signing!Penalty
  <2> QED
    BY <2>4, <2>5
<1> QED
  BY <1>1, SpecIInv, PTL
=============================================================================
