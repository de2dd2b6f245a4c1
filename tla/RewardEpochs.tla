----------------------------- MODULE RewardEpochs -----------------------------
(***************************************************************************)
(* Loading a reward epoch and its neighbours from the indexed events       *)
(* (GetRewardEpoch in common/fsp/reward-epoch.go, LoadRewardEpochs in       *)
(* rewards/epoch.go), with the voters and the funds of the epoch.  The      *)
(* events are found in windows around the schedule and around the round the *)
(* epoch started at.  A calculation that lacks an event ends with an error  *)
(* and leaves nothing behind; it can be run again.                          *)
(***************************************************************************)
EXTENDS FccFees, Subsequences

CONSTANTS PolicySearchEpochs, \* epochs around the schedule that are searched for policies (2)
          ExtraWindow,        \* extraWindow of getRewardOffers, 6 hours
          FutureSecureRandomWindow,
          Fip16Epoch          \* FIP.16 is active from this epoch on

ASSUME WindowAssumption == {SearchEpochs, PolicySearchEpochs, ExtraWindow, FutureSecureRandomWindow, Fip16Epoch} \subseteq Nat

(* The inflation configurations have a feed once. *)
ASSUME FeedsAssumption == InflationFeeds \in Seq(Int) /\ IsInjective(InflationFeeds)

VARIABLE epochs   \* what was loaded for each epoch that was calculated

epochsVars == <<chainVars, epochs>>

EpochsInit == ChainInit /\ epochs = [e \in {} |-> {}]
Chain == ChainNext /\ UNCHANGED epochs

Between(events, from, to) == {n \in DOMAIN events : from <= events[n].ts /\ events[n].ts < to} \* QueryEvents

(* The policies of an epoch and of the next that are found in the interval    *)
(* around the epoch's schedule; the last one counts.                         *)
PoliciesFor(e, of) ==
  ForEpoch(policies, Between(policies, ExpectedStart(e) - PolicySearchEpochs * EpochDuration,
                                       Min({ExpectedStart(e) + PolicySearchEpochs * EpochDuration, now})), of)
HasPolicy(e) == PoliciesFor(e, e) # {}
PolicyFor(e, of) == policies[Max(PoliciesFor(e, of))]
Policy(e) == PolicyFor(e, e)
StartRound(e) == Policy(e).startRound
StartSec(e) == VotingRoundStart(StartRound(e))

(* Faulty: the first round of the next epoch is the last one of this.        *)
EndAtNextStart(e) == IF PoliciesFor(e, e + 1) = {} THEN 0 ELSE PolicyFor(e, e + 1).startRound
EndRound(e) == IF PoliciesFor(e, e + 1) = {} THEN 0 ELSE PolicyFor(e, e + 1).startRound - 1

(* getRewardOffers: the offers since a while before the schedule of the epoch *)
(* before, and those of them that name the epoch.                           *)
OffersBefore(events, e) == Between(events, ExpectedStart(e - 1) - ExtraWindow, StartSec(e))
Offered(events, e) == ForEpoch(events, OffersBefore(events, e), e)

(* getFUIncentiveOffers *)
Incentives(e) == IF EndRound(e) = 0 THEN {} ELSE ForEpoch(incentives, InWindow(e, incentives), e)

(* getOrderedFeeds: the feeds of the inflation offers by their ids, then      *)
(* those of community offers by what was offered for them.  Before FIP.16    *)
(* what was offered so far counts again with every further offer.            *)
DoubleCounted(sum, amount, fip16Active) == sum + (sum + amount) \* faulty: FIP.16 changes nothing
AddAmount(sum, amount, fip16Active) == IF fip16Active THEN sum + amount ELSE sum + (sum + amount)
AmountPerFeed(found, feed, fip16Active) ==
  LET offers == {n \in found : communityOffers[n].feed = feed}
      sum[n \in 0 .. Len(communityOffers)] ==
        IF n = 0 THEN 0
        ELSE IF n \notin offers THEN sum[n - 1]
        ELSE IF sum[n - 1] = 0 THEN communityOffers[n].amount
        ELSE AddAmount(sum[n - 1], communityOffers[n].amount, fip16Active)
  IN  sum[Len(communityOffers)]
GetCommunityFeeds(found, fip16Active) ==
  LET feeds == {communityOffers[n].feed : n \in found}
      amount == [f \in feeds |-> AmountPerFeed(found, f, fip16Active)]
      before(f, g) == amount[f] > amount[g] \/ (amount[f] = amount[g] /\ f < g)
  IN  CHOOSE s \in SetToSeqs(feeds) : \A m, n \in DOMAIN s : m < n => before(s[m], s[n])
GetOrderedFeeds(e) ==
  LET feeds == IF Offered(inflationOffers, e) = {} THEN <<>> ELSE InflationFeeds
      community == GetCommunityFeeds(Offered(communityOffers, e), e >= Fip16Epoch)
  IN  feeds \o AtPositions(community, {n \in DOMAIN community : community[n] \notin ToSet(feeds)})

(* GetVoterIndex: the registrations in the window before the epoch starts     *)
(* that are for it and in its policy, in policy order; of each voter the     *)
(* last information in the window counts.                                   *)
ExpectedWindow(e) == Between(registrations, ExpectedStart(e) - PolicyWindow, ExpectedStart(e)) \* faulty: by the schedule
RegistrationWindow(e) == Between(registrations, StartSec(e) - PolicyWindow, StartSec(e))
KnownVoters(e) ==
  {k \in DOMAIN Policy(e).voters :
     \E n \in ForEpoch(registrations, RegistrationWindow(e), e) : registrations[n].voter = Policy(e).voters[k]}
VoterIndex(e) ==
  LET voters == AtPositions(Policy(e).voters, KnownVoters(e))
  IN  [k \in DOMAIN voters |->
         registrations[Max({n \in RegistrationWindow(e) : registrations[n].voter = voters[k]})]]

(* GetRewardEpoch finds all it needs; the funding window is read for every    *)
(* epoch whose end is known, also for the one after the epoch calculated.     *)
(* That some inflation is offered is checked before the offers of other       *)
(* epochs are taken out.  As many voters as informations are found, because   *)
(* both events of a registration are one record here.                       *)
Loadable(e) ==
  /\ HasPolicy(e)
  /\ OffersBefore(inflationOffers, e) # {}
  /\ EndRound(e) # 0 => HasWindow(e)
  /\ KnownVoters(e) # {}

(* The epoch is calculated with its two neighbours. *)
LoadRewardEpochs(e) == Loadable(e - 1) /\ Loadable(e) /\ Loadable(e + 1)

GetRewardEpoch(e) ==
  [Epoch |-> e, StartRound |-> StartRound(e), EndRound |-> EndRound(e),
   inflation |-> Offered(inflationOffers, e), community |-> Offered(communityOffers, e),
   incentives |-> Incentives(e), OrderedFeeds |-> GetOrderedFeeds(e), voters |-> VoterIndex(e)]

(* ensureDataRange: all that is needed for the rounds is indexed. *)
Indexed(e) == now >= VotingRoundStart(EndRound(e) + FutureSecureRandomWindow + 2) - 1

(* GetEpochClaims.  Nothing checks that the end of the epoch is known: else  *)
(* the loops over its rounds do nothing.  (The list of feed randoms then has  *)
(* 2^32 entries: a calculation that runs out of memory leaves nothing behind.) *)
(* The first fast-update offer is read whether there is one or not.          *)
Ready(e) ==
  /\ e \notin DOMAIN epochs
  /\ LoadRewardEpochs(e) /\ Indexed(e)
  /\ Offered(inflationOffers, e) # {}
  /\ FccActive(e) => HasWindow(e) /\ AllPaired(e)
FccRewards(epoch) == IF FccActive(epoch.Epoch) THEN GetEpochFees(epoch) ELSE [r \in {} |-> 0]
Calculate(e) ==
  /\ Ready(e)
  /\ LET epoch == GetRewardEpoch(e)
         all == [epoch |-> epoch, fees |-> FccRewards(epoch)]
     IN  epochs' = [x \in DOMAIN epochs \cup {e} |-> IF x = e THEN all ELSE epochs[x]]
  /\ UNCHANGED chainVars

CalculateNext == \E e \in 1 .. LastEpoch - 1 : Calculate(e)

EpochsNext == Chain \/ CalculateNext

(* Blocks keep coming and start the epochs that are due, and the operator     *)
(* runs the calculation again until it gets through, for an epoch whose end   *)
(* is known.  The last conjunct is weak fairness of that: CalculateNext is    *)
(* enabled when some epoch is Ready.                                        *)
Fairness ==
  /\ WF_epochsVars(Tick /\ UNCHANGED epochs)
  /\ WF_epochsVars(StartEpoch /\ UNCHANGED epochs)
  /\ \/ []<>(\A e \in 1 .. LastEpoch - 1 : ~(Ready(e) /\ EndRound(e) # 0))
     \/ []<><<CalculateNext>>_epochsVars

EpochsSpec == EpochsInit /\ [][EpochsNext]_epochsVars /\ Fairness
-----------------------------------------------------------------------------
AmountOf(events, found) == SumFunctionOnSet([n \in DOMAIN events |-> events[n].amount], found)
PolicyOf(e) == CHOOSE p \in ToSet(policies) : p.rewardEpochId = e

(* The next policy was made in time for the end of the epoch to be found.    *)
EndIsKnown(e) == PolicyOf(e + 1).ts < ExpectedStart(e) + PolicySearchEpochs * EpochDuration

(* What is divided among the rounds of the epoch, and its FCC fees.          *)
Rounds(epoch) == epoch.StartRound .. epoch.EndRound
Divided(epoch) ==
  IF Rounds(epoch) = {} THEN 0
  ELSE AmountOf(inflationOffers, epoch.inflation) + AmountOf(communityOffers, epoch.community)
         + AmountOf(incentives, epoch.incentives)
FundsFound(c) == Divided(c.epoch) + SumFunction(c.fees)

(* The offers, incentives and FCC fees found for an epoch are what the       *)
(* RewardManager received of them for it, to the wei: none is missed at the   *)
(* edge of a window, counted for two epochs, or lost by a calculation before  *)
(* the epoch was closed, wherever in the second of the flip it was paid.  It  *)
(* stays so: the funds of an epoch that was calculated cannot grow any more.  *)
(* Only a next policy that came too late for the search stands in the way.   *)
FindsWhatWasCredited == \A e \in DOMAIN epochs : EndIsKnown(e) => FundsFound(epochs[e]) = credited[e]

(* The rounds of an epoch follow those of the one before without a gap and   *)
(* without a round that is paid twice, however late an epoch started, and     *)
(* the fees are listed under rounds of the epoch.  If the next policy came    *)
(* too late the epoch has no rounds at all, never some of them or those of    *)
(* another, and fees are listed under round 0.                              *)
RoundsTile ==
  \A e \in DOMAIN epochs :
    LET epoch == epochs[e].epoch
    IN  /\ epoch.StartRound = PolicyOf(e).startRound
        /\ IF EndIsKnown(e)
             THEN /\ epoch.StartRound <= epoch.EndRound /\ epoch.EndRound + 1 = PolicyOf(e + 1).startRound
                  /\ DOMAIN epochs[e].fees \subseteq Rounds(epoch)
             ELSE Rounds(epoch) = {} /\ DOMAIN epochs[e].fees \subseteq {0}

(* Expected to fail.  "An epoch without an end round is loaded only for       *)
(* lookahead", says GetRewardEpoch; GetEpochClaims does not ask, and          *)
(* calculates the claims of such an epoch.                                  *)
LookaheadOnly == \A e \in DOMAIN epochs : epochs[e].epoch.EndRound # 0

OpenedAt(e) == Min({registrations[n].ts : n \in Registered(e)})

(* Every voter of the signing policy is known to the calculation, in policy  *)
(* order and with what it registered for this epoch, also if it registered   *)
(* after the scheduled start of the epoch.  Only a start so late that the     *)
(* first registration is out of the window stands in the way.               *)
VotersComplete ==
  \A e \in DOMAIN epochs :
    OpenedAt(e) >= VotingRoundStart(epochs[e].epoch.StartRound) - PolicyWindow =>
      LET index == epochs[e].epoch.voters
      IN  /\ [n \in DOMAIN index |-> index[n].voter] = PolicyOf(e).voters
          /\ \A n \in DOMAIN index : index[n].rewardEpochId = e

OfferedFor(feed, e) ==
  AmountOf(communityOffers, {n \in DOMAIN communityOffers :
                               communityOffers[n].rewardEpochId = e /\ communityOffers[n].feed = feed})

(* Every feed somebody offered rewards for is listed once, after those of the *)
(* inflation offers, and from FIP.16 on a feed with more offered for it is    *)
(* never listed behind one with less, however the offers were divided up.    *)
FeedsOrdered ==
  \A e \in DOMAIN epochs :
    LET feeds == epochs[e].epoch.OrderedFeeds
        community == SubSeq(feeds, Len(InflationFeeds) + 1, Len(feeds))
    IN  /\ IsPrefix(InflationFeeds, feeds)
        /\ IsInjective(feeds)
        /\ \A n \in DOMAIN communityOffers :
             communityOffers[n].rewardEpochId = e => communityOffers[n].feed \in ToSet(feeds)
        /\ e >= Fip16Epoch => \A m, n \in DOMAIN community :
             m < n => OfferedFor(community[m], e) >= OfferedFor(community[n], e)

(* Every epoch that is closed on chain and whose end is known, with policies *)
(* and starts no later than the intervals that are searched, is calculated in *)
(* the end: every request finds its pair in the same window, also one that    *)
(* belongs to a neighbour, and a calculation that failed while the policy of  *)
(* the epoch after the next was made but its start was still to come gets     *)
(* through.                                                                 *)
InReach(e) ==
  /\ current > e /\ EndIsKnown(e)
  /\ \A s \in {e - 1, e} : PolicyOf(s).ts < ExpectedStart(s) + PolicySearchEpochs * EpochDuration
  /\ \A s \in e - 1 .. e + 1 : OpenedAt(s) >= VotingRoundStart(PolicyOf(s).startRound) - PolicyWindow
  /\ \A s \in (e - 1 .. e + 2) \cap DOMAIN starts : starts[s] < ExpectedStart(s) + SearchEpochs * EpochDuration
CalculatedInTheEnd == []<>(\A e \in 1 .. LastEpoch - 1 : InReach(e) => e \in DOMAIN epochs)
=============================================================================
