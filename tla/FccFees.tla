------------------------------- MODULE FccFees -------------------------------
(***************************************************************************)
(* The fees of a reward epoch (common/fcc/fcc.go, rewards/fcc.go) and the  *)
(* window they are found in (common/fsp/funding-window.go).  On chain a fee *)
(* is credited to the epoch that is current in the block that pays it.  The *)
(* calculator finds the fees of an epoch again among the events between two *)
(* RewardEpochStarted events, both seconds included, by the epoch they name.*)
(***************************************************************************)
EXTENDS RewardChain

CONSTANT SearchEpochs   \* epochs around the schedule that are searched (2)

(* rewardEpochStartTimestamps: starts are searched only around the schedule; *)
(* RewardEpochFundingWindow needs the start of the epoch and of the next.    *)
Found(e) ==
  {s \in DOMAIN starts : /\ s \in {e, e + 1}
                         /\ starts[s] >= ExpectedStart(e) - SearchEpochs * EpochDuration
                         /\ starts[s] < ExpectedStart(e + 1) + SearchEpochs * EpochDuration}
HasWindow(e) == Found(e) = {e, e + 1}

(* What a search finds are the places of the events on the chain, which only *)
(* appends to them.                                                         *)
InHalfOpenWindow(e, events) == \* faulty
  {n \in DOMAIN events : starts[e] <= events[n].timestampSec /\ events[n].timestampSec < starts[e + 1]}
InWindow(e, events) ==
  {n \in DOMAIN events : starts[e] <= events[n].timestampSec /\ events[n].timestampSec <= starts[e + 1]}
ForEpoch(events, found, e) == {n \in found : events[n].rewardEpochId = e}

(* votingRound: clamped into the rounds of the epoch; to round 0 if its end  *)
(* is not known.                                                            *)
VotingRound(epoch, ts) == Min({Max({ts \div RoundSeconds, epoch.StartRound}), epoch.EndRound})

(* Faulty: a pair is looked for among the instructions of the epoch only.   *)
PairedOfEpoch(e, id) ==
  {n \in InWindow(e, teeInstructions) : teeInstructions[n].instructionId = id /\ teeInstructions[n].rewardEpochId = e}

(* attributeFees: the instructions that name the epoch, and the requests     *)
(* paired with one of them; a request without its pair is an error.          *)
Paired(e, id) == {n \in InWindow(e, teeInstructions) : teeInstructions[n].instructionId = id}
InstructionsOf(e) == ForEpoch(teeInstructions, InWindow(e, teeInstructions), e)
RequestsOf(e) ==
  {n \in InWindow(e, fdc2Requests) : ForEpoch(teeInstructions, Paired(e, fdc2Requests[n].instructionId), e) # {}}
AllPaired(e) == \A n \in InWindow(e, fdc2Requests) : Paired(e, fdc2Requests[n].instructionId) # {}

(* The fees by round. *)
RoundsOf(epoch, events, found) == {VotingRound(epoch, events[n].timestampSec) : n \in found}
FeesOf(epoch, events, found, round) ==
  SumFunctionOnSet([n \in DOMAIN events |-> events[n].fee],
                   {n \in found : VotingRound(epoch, events[n].timestampSec) = round})
GetEpochFees(epoch) ==
  LET e == epoch.Epoch
  IN  [r \in RoundsOf(epoch, teeInstructions, InstructionsOf(e)) \cup RoundsOf(epoch, fdc2Requests, RequestsOf(e)) |->
         FeesOf(epoch, teeInstructions, InstructionsOf(e), r) + FeesOf(epoch, fdc2Requests, RequestsOf(e), r)]
=============================================================================
