----------------------------- MODULE RoundChain -----------------------------
(***************************************************************************)
(* What the chain records for one voting round r of one protocol and what  *)
(* the calculator reads of it.  Anybody sends signatures and relay calls   *)
(* at any second; the indexer keeps them in chain order, and the reward    *)
(* epoch is calculated only when all of it is indexed (ensureDataRange).   *)
(* Seconds are counted in the voting epochs r and r + 1: the constants     *)
(* keep their order on a real network, where the last reveal second, the   *)
(* two grace periods and the end of epoch r + 1 are 44, 59, 65 and 89      *)
(* seconds into epoch r + 1.                                               *)
(***************************************************************************)
EXTENDS Integers, Sequences, FiniteSets, SequencesExt, Subsequences

CONSTANTS Voters,                 \* voters of the signing policy
          Others,                 \* accounts that are not registered
          EpochStart,             \* first second of voting epoch r + 1
          RevealDeadline,         \* last reveal second
          QueryFrom,              \* first second the round's messages are fetched from
          GracePeriodSignatures,  \* GracePeriodForSignaturesDurationSec
          GracePeriodFinalization,\* GracePeriodForFinalizationDurationSec
          EpochEnd,               \* last second of voting epoch r + 1
          LastSecond,             \* last second the run looks at
          MaxMessages,            \* bound on the messages of the round
          MaxOfAKind,             \* bound on the signatures, and on the relay calls
          SignerWeight,           \* weights in the signing policy, by index
          Threshold,              \* its threshold
          RelayCalls              \* sender -> the relay calls it may send

ASSUME TimesAssumption ==
  /\ {EpochStart, RevealDeadline, QueryFrom, GracePeriodSignatures, GracePeriodFinalization, EpochEnd, LastSecond}
       \subseteq Nat
  /\ EpochStart <= RevealDeadline
  /\ EpochStart <= QueryFrom /\ QueryFrom <= RevealDeadline + 1
  /\ RevealDeadline + GracePeriodSignatures <= EpochEnd
  /\ RevealDeadline + GracePeriodFinalization + 1 <= EpochEnd
  /\ EpochEnd <= LastSecond

ASSUME AccountsAssumption == IsFiniteSet(Voters) /\ IsFiniteSet(Others)

(* The weights of the policy are counted from index 1. *)
ASSUME PolicyAssumption == SignerWeight \in Seq(Nat) /\ Threshold \in Nat

Senders == Voters \cup Others

(* A signature that recovers to the signer at its index has one there. *)
ASSUME CallsAssumption ==
  \A s \in Senders : \A call \in RelayCalls[s] :
    /\ call.list \in Seq([index : Nat \ {0}, valid : BOOLEAN, canonical : BOOLEAN])
    /\ \A n \in DOMAIN call.list : call.list[n].valid => call.list[n].index \in DOMAIN SignerWeight

VARIABLES relayV2, \* whether the reward epoch is finalized on Relay v2
          now,     \* current second
          sigs,    \* submitSignatures messages, in chain order
          relays   \* relay() transactions, in chain order

chainVars == <<relayV2, now, sigs, relays>>

ChainInit == relayV2 \in BOOLEAN /\ now = 0 /\ sigs = <<>> /\ relays = <<>>

Tick == now < LastSecond /\ now' = now + 1 /\ UNCHANGED <<relayV2, sigs, relays>>

HasRoom(messages) == Len(messages) < MaxOfAKind /\ Len(sigs) + Len(relays) < MaxMessages

(* A signature message; it is good if the sender's registered signing key   *)
(* signed the round's result, and otherwise recovers to some other address. *)
(* It may also be empty or of an unknown type (neither 0 nor 1), which       *)
(* nobody can read; one that is only too short is passed over.               *)
Sign(from, good, readable) ==
  /\ HasRoom(sigs)
  /\ good => from \in Voters /\ readable
  /\ sigs' = Append(sigs, [from |-> from, good |-> good, readable |-> readable, ts |-> now])
  /\ UNCHANGED <<relayV2, now, relays>>

(* DecodeFinalization: one signature of the list in a relay call.  They come *)
(* by rising index; one that does not recover to its signer is passed over,  *)
(* and Relay v2 wants canonical ones and reads no further than it must.      *)
Accept(read, sig) ==
  LET weight == read.weight + (IF sig.valid THEN SignerWeight[sig.index] ELSE 0)
  IN  [ok |-> TRUE, last |-> sig.index, weight |-> weight, enough |-> relayV2 /\ weight > Threshold]

ReadAnyIndex(read, sig) == \* faulty: the index need not rise
  IF ~read.ok \/ read.enough THEN read
  ELSE IF relayV2 /\ ~sig.canonical THEN [read EXCEPT !.ok = FALSE]
  ELSE Accept(read, sig)
ReadSignature(read, sig) ==
  IF ~read.ok \/ read.enough THEN read
  ELSE IF sig.index <= read.last \/ (relayV2 /\ ~sig.canonical) THEN [read EXCEPT !.ok = FALSE]
  ELSE Accept(read, sig)

(* The weight of a list of signatures, and whether the list is accepted.     *)
NothingRead == [ok |-> TRUE, last |-> 0, weight |-> 0, enough |-> FALSE]
ReadList(list) ==
  LET read[n \in 0 .. Len(list)] == IF n = 0 THEN NothingRead ELSE ReadSignature(read[n - 1], list[n])
  IN  read[Len(list)]

(* A call that is read as a finalization of this round: one for the Relay of *)
(* the reward epoch under its signing policy, with a list of enough weight,  *)
(* and on Relay v2 with the random number and its proof (verifyRandomProof). *)
Decodes(call) ==
  /\ relayV2 \/ Len(call.list) <= Len(SignerWeight)
  /\ ReadList(call.list).ok /\ ReadList(call.list).weight > Threshold
  /\ relayV2 => call.proof

Counts(call) ==
  /\ call.own              \* to the Relay of the reward epoch
  /\ call.about = "round"   \* not a new signing policy, another policy or another round
  /\ Decodes(call)

Finalized == \E n \in DOMAIN relays : ~relays[n].reverted

(* A relay call.  The Relay accepts one call that counts for the round, in   *)
(* voting epoch r + 1 or later, and rejects the others; a call may also run  *)
(* out of gas.  What becomes of a call that does not count is not looked at. *)
Relay(from, call, reverted) ==
  /\ HasRoom(relays)
  /\ ~Counts(call) \/ Finalized \/ now < EpochStart => reverted
  /\ relays' = Append(relays, [from |-> from, call |-> call, reverted |-> reverted, ts |-> now])
  /\ UNCHANGED <<relayV2, now, sigs>>

ChainNext ==
  \/ Tick
  \/ \E from \in Senders, good \in BOOLEAN, readable \in BOOLEAN : Sign(from, good, readable)
  \/ \E from \in Senders, reverted \in BOOLEAN : \E call \in RelayCalls[from] : Relay(from, call, reverted)

(* Only messages of voting epoch r + 1 count for round r.  Those of a whole *)
(* reward epoch are fetched at once, from the second after the reveal        *)
(* deadline of its first round: of the first round nothing earlier is seen,  *)
(* of the others everything.                                                *)
InEpoch(m) == QueryFrom <= m.ts /\ m.ts <= EpochEnd

(* ExtractSignatures: the messages are decoded before it is looked at who    *)
(* sent them, and an unreadable one stops the program.                       *)
ExtractSignatures == AtPositions(sigs, {n \in DOMAIN sigs : InEpoch(sigs[n])})
Readable == \A n \in DOMAIN sigs : InEpoch(sigs[n]) => sigs[n].readable

(* GetFinalizations: the calls that count, in voting epoch r + 1.            *)
GetFinalizations ==
  AtPositions(relays, {n \in DOMAIN relays : Counts(relays[n].call) /\ InEpoch(relays[n])})

(* GetFinalizationsByRound: the first finalization of each sender. *)
GetFinalizationsByRound ==
  LET fs == GetFinalizations
  IN  AtPositions(fs, {n \in DOMAIN fs : \A m \in 1 .. n - 1 : fs[m].from # fs[n].from})

(* firstSuccessful: the index of the first call that was not reverted, or 0. *)
FirstSuccessful(fs) == SelectInSeq(fs, LAMBDA f : ~f.reverted)

=============================================================================
