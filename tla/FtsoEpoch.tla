------------------------------ MODULE FtsoEpoch ------------------------------
(***************************************************************************)
(* How the FTSO and fast-update funds of a reward epoch are laid out over   *)
(* its rounds (GetFtsoRewards in rewards/ftso.go).  The feed a round is     *)
(* rewarded for is drawn by the first secure random of a later round        *)
(* (getFeedSelectionRandoms); every round gets an equal part of the funds   *)
(* (calculateRoundRewards, calculateFURoundRewards), which is then claimed  *)
(* or burned.                                                              *)
(***************************************************************************)
EXTENDS FastUpdates

CONSTANTS StartRound, EndRound, \* rounds of the reward epoch
          WindowEnd,            \* EndRound + FutureSecureRandomWindow
          Draws,                \* numbers a secure random may give for feed selection
          TotalRewards,         \* sums of the FTSO offers
          FuRewards,            \* sums of the fast-update offers
          OrderedFeeds,         \* feeds of the reward epoch, in order
          Decimals,             \* decimals of the medians, by feed
          OldToNewFeed,         \* names of renamed feeds
          SigningBips, FinalizationBips, TotalBips,
          Logs,                 \* logs of the FastUpdater that are tried
          Medians,              \* medians a feed may have in a round
          Registered,           \* signing addresses of the registered voters
          Faults                \* what may be missing for the rounds

ASSUME RoundsAssumption ==
  /\ StartRound \in Nat /\ EndRound \in Nat /\ WindowEnd \in Nat
  /\ StartRound <= EndRound /\ EndRound <= WindowEnd
ASSUME BipsAssumption ==
  /\ SigningBips \in Nat /\ FinalizationBips \in Nat /\ TotalBips \in Nat \ {0}
  /\ SigningBips + FinalizationBips <= TotalBips
ASSUME FundsAssumption == TotalRewards \subseteq Nat /\ FuRewards \subseteq Nat
ASSUME DrawsAssumption == Draws \subseteq Nat
ASSUME MediansAssumption == \A m \in Medians : m = NoMedian \/ m.value \in Int

(* selection: rounds for which the finalizers cannot be selected (external:  *)
(* SelectVoters refuses the threshold); results: rounds and feeds whose       *)
(* quartiles could not be calculated, so that they have no result at all      *)
(* (calculateMedians).  A result without quartiles is NoMedian.              *)
ASSUME FaultsAssumption ==
  \A f \in Faults : f.selection \subseteq Nat /\ \A m \in f.results : m \in Nat \X ToSet(OrderedFeeds)

Round == StartRound .. EndRound

(* On chain the values of all feeds are published for every round.           *)
ASSUME LogsAssumption ==
  \A log \in Logs :
    /\ log.submits \in Seq(ToSet(log.submits)) /\ log.feeds \in Seq(ToSet(log.feeds))
    /\ \A r \in Round : \E e \in ToSet(log.feeds) : e.round = r
    /\ \A e \in ToSet(log.feeds) : \A n \in DOMAIN FeedConfigs : e.values[n] \in Int /\ e.decimals[n] \in Nat

totalRounds == EndRound - StartRound + 1
Nil == 0   \* no random

VARIABLES secure,     \* rounds with a secure random
          draw,       \* the number the random of each round gives
          totalReward, fuReward, \* the funds
          log,        \* the events of the FastUpdater
          faults,     \* what is missing
          phase,      \* "select", "ahead", "reward", "claim", "done" or "fatal"
          round,      \* the round the loop is at
          randoms,    \* feedSelectionRandoms: round whose random is used, or Nil
          roundRewards, fuRoundRewards, \* round -> Amount, Feed, ShouldBurn
          claimed,    \* wei claimed or burned so far
          fuClaims    \* fast-update claims of the rounds so far: burned, or one for each update

inputs == <<secure, draw, totalReward, fuReward, log, faults>>
vars == <<inputs, phase, round, randoms, roundRewards, fuRoundRewards, claimed, fuClaims>>

Init ==
  /\ secure \in SUBSET (StartRound .. WindowEnd)
  /\ draw \in [StartRound .. WindowEnd -> Draws]
  /\ \A r \in (StartRound .. WindowEnd) \ secure : draw[r] = 0
  /\ totalReward \in TotalRewards /\ fuReward \in FuRewards
  /\ log \in Logs /\ faults \in Faults
  /\ phase = "select" /\ round = StartRound + 1
  /\ randoms = <<>>
  /\ roundRewards = <<>> /\ fuRoundRewards = <<>>
  /\ claimed = 0 /\ fuClaims = <<>>

Filled(n, r) == randoms \o [k \in 1 .. n - Len(randoms) |-> r]

(* Faulty: a secure round gives the random to itself, too.                   *)
SelectOwn ==
  /\ phase = "select" /\ round <= EndRound
  /\ randoms' = IF round \in secure THEN Filled(round - StartRound + 1, round) ELSE randoms
  /\ round' = round + 1
  /\ UNCHANGED <<inputs, phase, roundRewards, fuRoundRewards, claimed, fuClaims>>

(* getFeedSelectionRandoms: a secure round gives the random to all rounds    *)
(* before it that have none yet.                                            *)
SelectRandom ==
  /\ phase = "select" /\ round <= EndRound
  /\ randoms' = IF round \in secure THEN Filled(round - StartRound, round) ELSE randoms
  /\ round' = round + 1
  /\ UNCHANGED <<inputs, phase, roundRewards, fuRoundRewards, claimed, fuClaims>>

SelectDone ==
  /\ phase = "select" /\ round > EndRound
  /\ phase' = "ahead" /\ round' = EndRound + 1
  /\ UNCHANGED <<inputs, randoms, roundRewards, fuRoundRewards, claimed, fuClaims>>

(* ... and the first secure round after the reward epoch, up to WindowEnd,   *)
(* gives it to the rest.                                                    *)
LookAhead ==
  /\ phase = "ahead" /\ round <= WindowEnd /\ round \notin secure
  /\ round' = round + 1
  /\ UNCHANGED <<inputs, phase, randoms, roundRewards, fuRoundRewards, claimed, fuClaims>>

FillRest ==
  /\ phase = "ahead" /\ (round > WindowEnd \/ round \in secure)
  /\ randoms' = Filled(totalRounds, IF round > WindowEnd THEN Nil ELSE round)
  /\ phase' = "reward"
  /\ UNCHANGED <<inputs, round, roundRewards, fuRoundRewards, claimed, fuClaims>>

(* A feed of the fast-update offer can be drawn if it, or the feed it was    *)
(* renamed to, is a feed of the reward epoch.                               *)
Renamed(f) == IF f \in DOMAIN OldToNewFeed THEN OldToNewFeed[f] ELSE "none"
AnyFeed(f) == TRUE \* faulty
Selectable(f) == Renamed(f) \in ToSet(OrderedFeeds) \/ f \in ToSet(OrderedFeeds)
selectableFeedIndexes ==
  AtPositions([n \in DOMAIN FeedConfigs |-> n], {n \in DOMAIN FeedConfigs : Selectable(FeedConfigs[n].feed)})

(* Without a feed to draw the calculator divides by zero (rewards.go:83).    *)
ASSUME FeedsAssumption ==
  /\ OrderedFeeds \in Seq(ToSet(OrderedFeeds)) /\ OrderedFeeds # <<>>
  /\ \A f \in ToSet(OrderedFeeds) : Decimals[f] \in Nat /\ f # "none"
  /\ \E n \in DOMAIN FeedConfigs : Selectable(FeedConfigs[n].feed)

RoundAmountDown(total, r) == total \div totalRounds  \* faulty
RoundAmount(total, r) == EqualPart(total, totalRounds, r - StartRound)

(* Which of n feeds the random of the round draws, or 0. *)
Drawn(r, n) ==
  LET random == randoms[r - StartRound + 1]
  IN  IF random = Nil THEN 0 ELSE (draw[random] % n) + 1

(* Faulty: the place among the feeds that can be drawn.                      *)
PlaceDrawn(r) == Drawn(r, Len(selectableFeedIndexes))
FeedIndex(r) ==
  LET selectedIndex == Drawn(r, Len(selectableFeedIndexes))
  IN  IF selectedIndex = 0 THEN 0 ELSE selectableFeedIndexes[selectedIndex]

(* calculateRoundRewards, calculateFURoundRewards: without a random the round *)
(* is to be burned.                                                         *)
CalculateRoundRewards ==
  /\ phase = "reward"
  /\ roundRewards' = [r \in Round |-> [Amount |-> RoundAmount(totalReward, r), Feed |-> Drawn(r, Len(OrderedFeeds))]]
  /\ fuRoundRewards' = [r \in Round |-> [Amount |-> RoundAmount(fuReward, r), Feed |-> FeedIndex(r)]]
  /\ phase' = "claim" /\ round' = StartRound
  /\ UNCHANGED <<inputs, randoms, claimed, fuClaims>>

ShouldBurn(reward) == reward.Feed = 0

(* A round without a feed is burned.                                        *)
BurnRound ==
  /\ phase = "claim" /\ round <= EndRound /\ ShouldBurn(roundRewards[round])
  /\ claimed' = claimed + roundRewards[round].Amount
  /\ round' = round + 1
  /\ UNCHANGED <<inputs, phase, randoms, roundRewards, fuRoundRewards, fuClaims>>

(* The three parts of the round's reward, each of which is handed out or     *)
(* burned as a whole (MedianReward, FtsoRound).                             *)
SigningReward(amount) == (amount * SigningBips) \div TotalBips
FinalizationReward(amount) == (amount * FinalizationBips) \div TotalBips
MedianReward(amount) == amount - (SigningReward(amount) + FinalizationReward(amount))

(* The feed of the reward epoch a feed of the fast-update offer stands for.  *)
FuFeed(index) ==
  LET f == FeedConfigs[index].feed IN IF f \in ToSet(OrderedFeeds) THEN f ELSE Renamed(f)

Found(index) == FuFeed(index) \in ToSet(OrderedFeeds)

FUpdateClaims(r, median) ==
  LET reward == fuRoundRewards[r]
      submitters == SubmittersOf(log, r)
      burn == CheckBurnReward(reward.Feed, FeedsOf(log, r), submitters, median, Decimals[FuFeed(reward.Feed)])
  IN  [round |-> r, median |-> median,
       burned |-> IF burn THEN reward.Amount ELSE 0,
       paid |-> IF burn THEN <<>> ELSE EqualParts(reward.Amount, Len(submitters))]

(* Ends the program before the round's fast updates are paid: no result for   *)
(* the feed of the round (a nil pointer in getMedianClaims), no finalizers,   *)
(* the feed of the offer not found, or no result for it.                     *)
Missing(r) ==
  LET feed == OrderedFeeds[roundRewards[r].Feed]
      index == fuRoundRewards[r].Feed
  IN  \/ <<r, feed>> \in faults.results
      \/ r \in faults.selection
      \/ ~Found(index)
      \/ <<r, FuFeed(index)>> \in faults.results

(* An update that is to be paid must be of a registered voter.               *)
Known(claims) == claims.paid = <<>> \/ ToSet(SubmittersOf(log, claims.round)) \subseteq Registered

ClaimRound ==
  /\ phase = "claim" /\ round <= EndRound /\ ~ShouldBurn(roundRewards[round])
  /\ ~Missing(round)
  /\ LET amount == roundRewards[round].Amount
     IN  claimed' = claimed + MedianReward(amount) + SigningReward(amount) + FinalizationReward(amount)
  /\ \E median \in Medians :
       /\ Known(FUpdateClaims(round, median))
       /\ fuClaims' = Append(fuClaims, FUpdateClaims(round, median))
  /\ round' = round + 1
  /\ UNCHANGED <<inputs, phase, randoms, roundRewards, fuRoundRewards>>

(* logger.Fatal or a panic in the round: nothing is published.               *)
StopRound ==
  /\ phase = "claim" /\ round <= EndRound /\ ~ShouldBurn(roundRewards[round])
  /\ ~Missing(round) => \E median \in Medians : ~Known(FUpdateClaims(round, median))
  /\ phase' = "fatal"
  /\ UNCHANGED <<inputs, round, randoms, roundRewards, fuRoundRewards, claimed, fuClaims>>

ClaimsDone ==
  /\ phase = "claim" /\ round > EndRound
  /\ phase' = "done"
  /\ UNCHANGED <<inputs, round, randoms, roundRewards, fuRoundRewards, claimed, fuClaims>>

Next ==
  \/ SelectRandom \/ SelectDone \/ LookAhead \/ FillRest
  \/ CalculateRoundRewards
  \/ BurnRound \/ ClaimRound \/ StopRound \/ ClaimsDone

(* The calculator is one sequential program: it goes on while it can.        *)
Spec == Init /\ [][Next]_vars /\ WF_vars(Next)
-----------------------------------------------------------------------------
FirstSecureAfter(r) == LET later == {s \in secure : s > r} IN IF later = {} THEN Nil ELSE Min(later)

(* The feed of a round is drawn by the first secure random after it, in the  *)
(* epoch or in the window after it, never by its own or an earlier one: when *)
(* the values of the round are submitted nobody can know which feed is paid. *)
(* Only when there is no such random is the round burned.                    *)
FeedDrawnByNextSecure ==
  phase \in {"reward", "claim", "done", "fatal"} =>
    randoms = [n \in 1 .. totalRounds |-> FirstSecureAfter(StartRound + n - 1)]

(* The FTSO funds are claimed or burned to the last wei, however they divide *)
(* by the rounds and however many of these have no feed.                     *)
FtsoConserved == phase = "done" => claimed = totalReward

FuClaimed(c) == c.burned + SumOf(c.paid)

(* The fast-update part of every round that has a feed is claimed or burned   *)
(* to the last wei, however many updates were sent.                         *)
FuConservedWithFeed ==
  phase = "done" =>
    SumOf([n \in DOMAIN fuClaims |-> FuClaimed(fuClaims[n])])
      = SumFunctionOnSet([r \in Round |-> RoundAmount(fuReward, r)], {r \in Round : ~ShouldBurn(fuRoundRewards[r])})

(* What was published on chain for a feed of the offer. *)
Published(feed, r) ==
  LET n == CHOOSE n \in DOMAIN FeedConfigs : FeedConfigs[n].feed = feed
  IN  [value |-> FeedsOf(log, r).values[n], decimals |-> FeedsOf(log, r).decimals[n], band |-> FeedConfigs[n].band]
FeedDrawn(r) ==
  LET able == AtPositions(FeedConfigs, {n \in DOMAIN FeedConfigs :
                {FeedConfigs[n].feed, Renamed(FeedConfigs[n].feed)} \cap ToSet(OrderedFeeds) # {}})
  IN  able[(draw[randoms[r - StartRound + 1]] % Len(able)) + 1].feed

(* The submitters of a round are paid exactly if the value published for the  *)
(* feed that was drawn is, as a number, within the band around the median of  *)
(* that feed, whatever the decimals of the two, the place of the feed in the  *)
(* offer and the name it has by now; with a negative median never.           *)
FuPaidWithinBand ==
  \A n \in DOMAIN fuClaims :
    LET c == fuClaims[n]
        p == Published(FeedDrawn(c.round), c.round)
        feed == FeedDrawn(c.round)
        of == PowerOfTen(Decimals[IF feed \in ToSet(OrderedFeeds) THEN feed ELSE OldToNewFeed[feed]])
        difference == p.value * of - c.median.value * PowerOfTen(p.decimals)
    IN  c.paid # <<>> <=>
          /\ SubmittersOf(log, c.round) # <<>>
          /\ c.median # NoMedian
          /\ Max({difference, -difference}) * TotalPPM <= c.median.value * PowerOfTen(p.decimals) * p.band

(* The feed of the epoch that a feed of the offer is the name of.            *)
Current(feed) == IF feed \in ToSet(OrderedFeeds) THEN feed ELSE OldToNewFeed[feed]

(* A round for which the inputs lack something: its finalizers, the result of *)
(* one of the two feeds drawn for it, or the registration of a submitter.    *)
Lacking(r) ==
  LET random == FirstSecureAfter(r)
      feed == OrderedFeeds[(draw[random] % Len(OrderedFeeds)) + 1]
  IN  /\ random # Nil
      /\ \/ r \in faults.selection
         \/ {<<r, feed>>, <<r, Current(FeedDrawn(r))>>} \cap faults.results # {}
         \/ ~(ToSet(SubmittersOf(log, r)) \subseteq Registered)

(* The calculation comes to its end, unless the inputs lack something for a   *)
(* round it reaches; then it stops at that round.  "FastUpdate feed not       *)
(* found" (ftso.go:188) is never the reason: only feeds that are found again  *)
(* under their own or their new name are drawn.                             *)
Terminates == <>(phase = "done" \/ (phase = "fatal" /\ Lacking(round)))

(* The fast-update part of a round without a feed is burned, as the log      *)
(* says ("[FU] No secure random found for round %d, burning reward",         *)
(* rewards.go:79) and checkBurnReward provides for: all fast-update funds    *)
(* are claimed or burned.                                                   *)
FuConserved ==
  phase = "done" => SumOf([n \in DOMAIN fuClaims |-> FuClaimed(fuClaims[n])]) = fuReward
=============================================================================
