----------------------------- MODULE RewardChain -----------------------------
(***************************************************************************)
(* The life of the reward epochs on chain, as far as the calculator reads  *)
(* it from the indexed events.  Epoch e + 1 is prepared while e is current: *)
(* inflation is offered for it when e starts, anybody may offer rewards for *)
(* its feeds, voters register and a signing policy is initialized that says *)
(* at which voting round it starts.  The current epoch flips later than the *)
(* schedule, and a block has one timestamp: it may flip between two events  *)
(* of one second.  All of this module but the schedule is outside of src/.  *)
(***************************************************************************)
EXTENDS Portions, FiniteSetsExt

CONSTANTS LastEpoch,      \* reward epochs 0 .. LastEpoch
          EpochRounds,    \* RewardEpochDurationInVotingEpochs
          RoundSeconds,   \* VotingEpochDurationSeconds
          PolicyWindow,   \* NewSigningPolicyInitializationStartSeconds
          LastSecond,     \* bound on time
          PolicyOrder,    \* voters that may register, in the order they have in a policy
          InflationFeeds, \* feeds of the inflation offers
          OfferBatches,   \* community offers that may be made together: sequences of feed and amount
          Fees,           \* fees and incentives that may be paid
          MaxPayments,    \* bound on the payments and the batches of community offers
          FccActivationEpoch \* FCC fees are taken from this epoch on

ASSUME ScheduleAssumption ==
  /\ LastEpoch \in Nat /\ LastEpoch >= 2
  /\ EpochRounds \in Nat \ {0} /\ RoundSeconds \in Nat \ {0}
  /\ {PolicyWindow, LastSecond, MaxPayments, FccActivationEpoch} \subseteq Nat

ASSUME RegistryAssumption == PolicyOrder \in Seq(ToSet(PolicyOrder))

(* Feeds are ordered by their ids, numbers here; amounts are natural.        *)
ASSUME PaymentsAssumption ==
  /\ Fees \subseteq Nat
  /\ \A batch \in OfferBatches :
       batch \in Seq(ToSet(batch)) /\ \A n \in DOMAIN batch : batch[n].feed \in Int /\ batch[n].amount \in Nat

Epoch == 0 .. LastEpoch
EpochDuration == EpochRounds * RoundSeconds
ExpectedFirstVotingRound(e) == e * EpochRounds
VotingRoundStart(round) == round * RoundSeconds
ExpectedStart(e) == VotingRoundStart(ExpectedFirstVotingRound(e))
FccActive(e) == e >= FccActivationEpoch

VARIABLES now,           \* current second
          current,       \* getCurrentRewardEpochId()
          starts,        \* RewardEpochStarted: epoch -> second
          policies,      \* SigningPolicyInitialized
          registrations, \* VoterRegistered and VoterRegistrationInfo, sent together
          inflationOffers, communityOffers, incentives,
          teeInstructions, fdc2Requests,
          credited       \* what the RewardManager received for each epoch

chainVars == <<now, current, starts, policies, registrations, inflationOffers, communityOffers,
               incentives, teeInstructions, fdc2Requests, credited>>
preparation == <<starts, policies, registrations, inflationOffers>>
payments == <<communityOffers, incentives, teeInstructions, fdc2Requests>>

Inflation(e) == [rewardEpochId |-> e, amount |-> 1, ts |-> now]
Registration(v, e) == [voter |-> v, rewardEpochId |-> e, ts |-> now]
RegisteredBefore(e) ==
  [n \in DOMAIN PolicyOrder |-> [Registration(PolicyOrder[n], e) EXCEPT !.ts = ExpectedStart(e) - 1]]

(* Epoch 0 is over when the run begins, and epoch 1 starts on schedule.      *)
ChainInit ==
  /\ now = ExpectedStart(1) /\ current = 1
  /\ starts = [e \in {0, 1} |-> ExpectedStart(e)]
  /\ policies = [n \in {1, 2} |-> [rewardEpochId |-> n - 1, startRound |-> ExpectedFirstVotingRound(n - 1),
                                  voters |-> PolicyOrder, ts |-> ExpectedStart(n - 1) - 1]]
  /\ registrations = RegisteredBefore(0) \o RegisteredBefore(1)
  /\ inflationOffers = [n \in 1 .. 3 |-> [Inflation(n - 1) EXCEPT !.ts = ExpectedStart(n - 2)]]
  /\ communityOffers = <<>> /\ incentives = <<>> /\ teeInstructions = <<>> /\ fdc2Requests = <<>>
  /\ credited = [e \in Epoch |-> IF e <= 2 THEN 1 ELSE 0]

Tick ==
  /\ now < LastSecond /\ now' = now + 1
  /\ UNCHANGED <<current, preparation, payments, credited>>

Initialized(e) == \E n \in DOMAIN policies : policies[n].rewardEpochId = e
Registered(e) == {n \in DOMAIN registrations : registrations[n].rewardEpochId = e}

(* The voters register one after the other, each at a time of its own.       *)
Register(v) ==
  LET e == current + 1
  IN  /\ e <= LastEpoch /\ ~Initialized(e) /\ now >= ExpectedStart(e) - PolicyWindow
      /\ Cardinality(Registered(e)) < Len(PolicyOrder) /\ v = PolicyOrder[Cardinality(Registered(e)) + 1]
      /\ registrations' = Append(registrations, Registration(v, e))
  /\ UNCHANGED <<now, current, starts, policies, inflationOffers, payments, credited>>

(* The policy of the voters that registered in time. *)
InitializePolicy ==
  LET e == current + 1
  IN  /\ e <= LastEpoch /\ ~Initialized(e) /\ Registered(e) # {}
      /\ policies' = Append(policies, [rewardEpochId |-> e, ts |-> now,
           startRound |-> Max({ExpectedFirstVotingRound(e), now \div RoundSeconds + 1}),
           voters |-> SubSeq(PolicyOrder, 1, Cardinality(Registered(e)))])
  /\ UNCHANGED <<now, current, starts, registrations, inflationOffers, payments, credited>>

StartEpoch ==
  /\ Initialized(current + 1)
  /\ \E n \in DOMAIN policies :
       policies[n].rewardEpochId = current + 1 /\ now >= VotingRoundStart(policies[n].startRound)
  /\ current' = current + 1
  /\ starts' = [e \in 0 .. current' |-> IF e = current' THEN now ELSE starts[e]]
  /\ IF current' < LastEpoch
       THEN /\ inflationOffers' = Append(inflationOffers, Inflation(current' + 1))
            /\ credited' = [credited EXCEPT ![current' + 1] = @ + 1]
       ELSE UNCHANGED <<inflationOffers, credited>>
  /\ UNCHANGED <<now, policies, registrations, payments>>

Payments == Len(communityOffers) + Len(incentives) + Len(teeInstructions)
Credit(e, amount) == credited' = [credited EXCEPT ![e] = @ + amount]

(* Offers for the feeds of the next epoch, until its policy is made. *)
OfferRewards(batch) ==
  LET e == current + 1
  IN  /\ Payments < MaxPayments /\ e < LastEpoch /\ ~Initialized(e)
      /\ \A n \in DOMAIN communityOffers : communityOffers[n].rewardEpochId # e
      /\ communityOffers' = communityOffers \o
           [n \in DOMAIN batch |-> [rewardEpochId |-> e, feed |-> batch[n].feed, amount |-> batch[n].amount, ts |-> now]]
      /\ Credit(e, SumOf([n \in DOMAIN batch |-> batch[n].amount]))
  /\ UNCHANGED <<now, current, preparation, incentives, teeInstructions, fdc2Requests>>

OfferIncentive(amount) ==
  /\ Payments < MaxPayments
  /\ incentives' = Append(incentives, [rewardEpochId |-> current, amount |-> amount, timestampSec |-> now])
  /\ Credit(current, amount)
  /\ UNCHANGED <<now, current, preparation, communityOffers, teeInstructions, fdc2Requests>>

Instruction(fee) ==
  [instructionId |-> Len(teeInstructions) + 1, rewardEpochId |-> current, fee |-> fee, timestampSec |-> now]

(* FlareTeeManager: a TEE instruction, with all that is paid for it.         *)
SendInstruction(fee) ==
  /\ FccActive(current) /\ Payments < MaxPayments
  /\ teeInstructions' = Append(teeInstructions, Instruction(fee))
  /\ Credit(current, fee)
  /\ UNCHANGED <<now, current, preparation, communityOffers, incentives, fdc2Requests>>

(* Fdc2Hub: an attestation request takes its fee and forwards the remainder  *)
(* in the same transaction.                                                 *)
RequestAttestation(fee, remainder) ==
  /\ FccActive(current) /\ Payments < MaxPayments
  /\ fdc2Requests' = Append(fdc2Requests, [instructionId |-> Len(teeInstructions) + 1, fee |-> fee, timestampSec |-> now])
  /\ teeInstructions' = Append(teeInstructions, Instruction(remainder))
  /\ Credit(current, fee + remainder)
  /\ UNCHANGED <<now, current, preparation, communityOffers, incentives>>

ChainNext ==
  \/ Tick \/ InitializePolicy \/ StartEpoch
  \/ \E v \in ToSet(PolicyOrder) : Register(v)
  \/ \E batch \in OfferBatches : OfferRewards(batch)
  \/ \E fee \in Fees : OfferIncentive(fee) \/ SendInstruction(fee) \/ RequestAttestation(fee, fee)
=============================================================================
