# Verification of the FSP reward calculator

TLA+ models of `fsp-reward-calculator`, their model-checking runs and the
theorems proved about them. `tlc -config X.cfg M` checks a run,
`tlapm M.tla` the proofs of a module; PROJECT.json lists the runs, which lines
of the code each definition stands for, what was found, and which hazards of
the code the properties answer.

## The program

The calculator computes the reward claims of one reward epoch of the Flare
Systems Protocol from a database of indexed transactions and events. It is a
batch program: it reads an epoch that is over, computes, writes a list of
claims with the root of their Merkle tree, and ends. Every data provider has to
reproduce that root, so the result must be a function of what is on the chain.

    main -> CalculateResults (rewards/calculate.go)
      GetEpochClaims (rewards/epoch.go)
        LoadRewardEpochs        previous, current and next reward epoch
        GetSubmit1, GetSubmit2, GetSubmitSignatures, GetFinalizations
        GetFtsoRewards          FTSO and fast-update claims
        GetFdcRewards           FDC claims
        GetFccRewards           FCC fee claims
        calcConditions          the change of each voter's passes
      MergeClaims               one claim per beneficiary, type and sign
      ApplyPenalties            penalties against rewards
      applyMinConditions        claims of voters without passes are burned
      buildResults              Merkle tree

### Components

| component | state and operations | interacts with | properties that make it correct | modelled by |
|---|---|---|---|---|
| Weighted distribution (`median.go`, `signing.go` twice, `fdc-signing.go`, `finalization.go`) | remaining wei and weight; draw, pass over, burn the rest | every reward | one fair claim each, conservation to the wei, no zero divisor | WeightedSplit, Payout, Portions |
| Commit, reveal, random (`common/ftso/round.go`, `random.go`, `decoding.go`) | commits, reveals, offenders, random of each round | feed selection, reveal penalties, median | a secure random cannot be influenced by withholding; spoiling is punished | CommitReveal |
| Median and accuracy rewards (`common/ftso/median.go`, `rewards/median.go`) | weighted quartiles, bands, turnout, split | feed of the round, voter split | a majority decides, every provider agrees, equal votes are paid alike | MedianReward |
| FTSO signing (`common/ftso/round.go`, `rewards/signing.go`) | signatures by hash; split by policy weight; penalties | median (who is eligible), finalizations | only honest and timely signers are paid, and they are paid at least their share | SigningReward in FtsoRound |
| Finalization (`common/fsp/round.go`, `rewards/finalization.go`) | first call per sender; equal shares | median, signing, FDC | whole reward, equal shares, divisor never exhausted | FinalizationReward in FtsoRound |
| Relay messages (`common/fsp/decoding.go`, `submissions.go`) | which calls are finalizations of a round | signing, finalization, FDC | different signers with more than the threshold | RoundChain |
| FTSO reward epoch (`rewards/ftso.go`, `rewards.go`) | feed randoms, funds per round | randoms, ledger | feed drawn by the next secure random, funds given away, the loop stops only where the inputs lack something | FtsoEpoch |
| Fast updates (`fupdates.go`, `common/ftso/fast-updates.go`) | values, submitters, band around the median | FTSO epoch | paid exactly within the band, in equal parts | FastUpdates in FtsoEpoch |
| FDC (`fdc*.go`, `bitVote.go`, `common/fdc`) | bit votes, signatures, consensus bit vote, offenders, funds per round | finalization, conditions | majority decides, followers are paid, only offenders are penalised, funds given away | FdcEpoch |
| Voter split (`SigningWeightClaimsForVoter`) | fee, delegators, stakers of nodes | all rewards and penalties | conserved, stakers protected, penalties divide like rewards | VoterSplit |
| Minimal conditions (`min-conditions.go`, `epoch.go`) | four counts per voter, change of passes | FTSO, FU, FDC, validators' file | a spotless voter gains a pass, one that missed too much does not | MinConditions |
| Ledger (`merge.go`, `calculate.go`, `result.go`) | maps of claims, burned amount | everything above | same result in every map order, sum preserved | Ledger |
| Reward epoch loading (`common/fsp`) | events joined into voters, offers, feeds, rounds | everything | rounds tile, voters and feeds complete, funds found = credited | RewardEpochs |
| FCC fees (`common/fcc/fcc.go`, `funding-window.go`) | window of an epoch, fees by round | the chain's current reward epoch | found = credited | FccFees in RewardEpochs |
| Parameters and time (`common/params`) | schedule and deadlines | everything | | constants, RewardChain |
| Command line, logging, contract bindings | | | | not modelled |

### What is hard

* **Rounding.** Every division of funds is one of integers, in a loop, and one
  wei too much or too few is a different Merkle root, or one of the program's
  fatal checks.
* **Order and time of messages.** Anybody sends anything at any second;
  deadlines of several kinds apply to the same message, inclusive or not.
* **Map iteration.** Go maps are iterated over in a random order.
* **Reward epoch boundaries.** Randoms, registrations, offers and fees of
  neighbouring reward epochs take part; the chain flips its epoch independently
  of the schedule.
* **Partial failure.** A round without a random, an epoch whose neighbour
  cannot be loaded yet, a fetch that fails, a voter that appears in one
  component and not in another.

There is no concurrency inside the program and nothing is persisted between
runs, so there are no crash-recovery or locking models: a calculation that
fails leaves nothing behind and is run again. The interleavings that matter are
those of the accounts on the chain, and of the calculation with the chain's
reward epochs.

## Modules

    WeightedSplit -> Payout                    one distribution, refinement
    Portions                                   the same as a function
    Subsequences                               loops that keep some elements of a list
      MedianReward, FastUpdates -> FtsoEpoch, FdcEpoch
    RoundChain -> SigningReward, FinalizationReward -> FtsoRound
    RewardChain -> FccFees -> RewardEpochs
    CommitReveal, VoterSplit, MinConditions, Ledger

    FoldLemmas                                 what the proofs share
      SplitProofs          of WeightedSplit, VoterSplit and MedianReward
      ParticipationProofs  of CommitReveal and MinConditions
      FtsoRoundProofs, FtsoEpochProofs, FdcEpochProofs, RewardEpochsProofs, LedgerProofs

Amounts are small naturals; the code uses `big.Int`, so there is no overflow to
model except the `uint16` of the remaining signing weight, which `WeightCovers`
covers, and the `int32` of feed values, which MedianReward keeps (`SignBit`).

**Payout** is the abstract specification: claimants with weights, some of which
are to have a claim. `Give` gives one of them its claim, no less than the floor of
its exact share and at most a wei for each earlier claim more; `Close` burns the
rest, which is nothing if nobody with weight was left out.

**WeightedSplit** is the loop all distributions share. Its entries are the
sorted records of the median, the signatures, the nodes of a voter, the voters
of the policy or the finalizers; `kind` tells what the variant of the loop does
with the entry: pay it, burn its draw, or pass it over. It implements Payout: an
entry's share is its claim, and what the loop keeps as the total of its claims
has to be the sum of the shares, at the end with the burned rest the pot.
**Portions** is the same loop as a function, for modules in which it is one
step, and the equal division of an amount over rounds or updates.
**Subsequences** has the elements of a sequence at some positions, in order: the
loops that pass over messages, events or requests.

**RoundChain** is the environment of one voting round: signatures and relay
calls by registered and other accounts, in any order, with what the calculator
reads of them: the interval of the query, the filter by voting epoch, the first
call per sender. Seconds are those of the two voting epochs of a round, and the
constants keep the order of the real deadlines (in epoch r + 1: reveal deadline
at second 44, end of signature grace 59, of finalization grace 65, end of the
epoch 89). A relay call is a record: the Relay it went to, what it is about, its
list of signatures (index, whether it recovers to its signer, whether it is
canonical), and whether the random number's proof fits; `Decodes` reads the list
as DecodeFinalization does, for Relay v1 and v2. The Relay contract is outside
the repository; that it accepts at most one root per round, and none before
epoch r + 1, is an assumption. Of the first round of a reward epoch the
calculator sees nothing before the reveal deadline, of the others it does
(`QueryFrom`). A signature message that is empty or of an unknown type ends the
program, whoever sent it (`Readable`, and `Unreadable` in SigningReward); one
that is only too short is passed over.

**SigningReward** has `GetSignersByRound`, which sorts the signatures by hash,
first per voter and hash, and `SigningClaims`, which selects and pays. A message
is good if it recovers to the signing key of its sender under the finalized
hash. **FinalizationReward** has the loop of `getFinalizationClaims`, branch by
branch. **FtsoRound** composes both over one RoundChain, as GetFtsoRewards does:
both read the same calls, and the same voters with a median reward are eligible
in both. Each keeps its properties, with the variables renamed by INSTANCE.

**CommitReveal** lets accounts commit in epoch r and reveal in epoch r + 1, any
number of times, over several rounds; `Registered` changes at a reward epoch
boundary. Then the offenders of each round are found and the randoms are
calculated. The reveal that matches a commit is the committed number.

**MedianReward** goes from the revealed values to the claims: decoding with
empty and cut-off values, votes in any order that their map may list them in,
quartiles by their code-level definition (`RobustQuartiles` states what they are
for), turnout, the bands with the wrap-around of `int32`, and the split.
Selection at the quartiles (a hash) is a free choice.

**FastUpdates** has the band test and the equal parts; **FtsoEpoch** is
`GetFtsoRewards`: the feed random of every round, round rewards, and the loop
over the rounds with its early `continue`. The three FTSO parts of a round are
claimed as wholes, which the other modules justify; fast updates are claimed in
full. The loop ends the program (`StopRound`, phase `"fatal"`) where a round lacks
something it needs: finalizers, a result for the feed that was drawn or for the
fast-update feed, the latter among the feeds of the epoch, or the registration of
a submitter that is to be paid. `Faults` are the inputs that may be missing.

**FdcEpoch** is `GetFdcRewards` with all it calls but the finalization claims,
which FinalizationReward has: in the first loop what the voters sent for a round
and its consensus bit vote, then the funds of all rounds, then the second loop
with signing claims, offenders and penalties. A voter's messages are a history
in chain order; the order of messages of different voters has no effect in the
code, which keys everything by voter. Signatures are seen from `QueryFrom` on: in
the first round of the epoch only those after the reveal deadline. The program
ends at an unreadable message, also one of an account that is not registered
(`Unreadable`), at an offer whose configurations have no share, by which it would
divide (`NoShares`), and if the finalizers cannot be selected (`NoFinalizers`).
The fees here are those of the attestation requests of FDC; those that FccFees
finds come from other contracts.

**VoterSplit** is `SigningWeightClaimsForVoter`, and `generateClaimsForVoter`
for an accuracy reward before FIP.16. Its properties compare the
result with that of a second call, for a smaller amount, because penalties go
through the same function.

**MinConditions** counts, round by round, what the conditions are about, and
then computes the change of passes. Fast updates are counted for every submitter,
also one that is no voter (`Others`): the total is made of all of them. If the
validators' file cannot be fetched the program ends (`FetchFails`). `missed`
records, from the inputs only, how many values and rewarded FDC rounds each voter
was without.

**Ledger** is `CalculateResults` after the claims are known. A map iteration is
a set of entries of which any is taken next.

**RewardChain** is the life of the reward epochs on chain, outside the
repository: registration, signing policy, late starts, inflation and community
offers, incentives, and payments that are credited to the current epoch.
**FccFees** finds the fees of an epoch again, and **RewardEpochs** is
`GetEpochClaims` without the rewards of the rounds: loading the epoch and its
neighbours, with the windows each kind of event is searched in. `Calculate` may
run at any time; where the code returns an error or ends, it is not enabled, and
leaves nothing behind. That the end of the epoch is not known is no such case: if
the next policy was made after the interval that is searched, the epoch is
calculated without rounds. FCC fees are taken from an activation epoch on
(`FccActive`).

Every MC module gives constants their values. Operators marked *faulty* are
plausible mistakes in the definition next to them; each property is checked to
notice one of them (PROJECT.json, `mutants`), and none is part of a
specification.

## Runs

All runs are exhaustive for their bounds and finish within about two and a half
minutes.
They use `CHECK_DEADLOCK FALSE` because every model ends: so does the program.

| run | bounds | why they are enough |
|---|---|---|
| WeightedSplit | 3 entries, weights 0..3, pots 0..5 | zero weights at every place, pots smaller and larger than the weights, all kinds; the general case is proved |
| MedianReward | 3 voters of weight 0, 1 or 3, 4-bit values, 6 reveals (two empty ones), 3 settings of a feed | ties, a voter with a majority, zero weights in the middle, a band that wraps around, both bands alone and together, turnout missed |
| CommitReveal | 2 accounts, 3 rounds, numbers 0/1 modulo 2, benching of one round, one of the accounts registered later | one account can spoil, be benched, and spoil again; an offence before registration |
| FtsoRound | 2 voters of weight 1 and 2 and an outsider, 3 messages with at most 2 of a kind, seconds 0..4 with one between all deadlines, 8 kinds of relay call, 4 pairs of eligible and drawn voters | repeated, early, wrong, unreadable and late signatures of one voter together with a finalization; repeated and reverted calls; every way a list of signatures fails |
| FdcEpoch | 3 voters, 2 rounds; in the first 3 bit-vote and 7 signature histories for each voter and every combination of them; no offer, one without and one with shares | a majority against any behaviour of the others, ties, a message of each kind that is early, late, repeated, wrong, undecodable or missing; early signatures in a first round, where they are not seen, and in the second, where they are; duplicate, malformed and unpopular requests |
| FtsoEpoch | 3 rounds, 2 to look ahead, 3 fast-update feeds, one of them renamed and one gone, more and fewer decimals, 3 logs (one with an update of an unregistered account), 3 sets of faults, medians of both signs or none | every pattern of secure rounds; values on, within and outside each edge of a band |
| VoterSplit | amounts to 12, 3 nodes, weights 0..2 | all roundings of both fees |
| MinConditions | 2 voters, one of them without a fee, and an account that is no voter, 3 rounds, one feed, at most 1 update of each in a round | thresholds between the counts that occur; an offence in a round that was rewarded, updates of others in the total |
| Ledger | 4 claims out of 9, 2 voters | reward and penalty of the same and of different types, exact, larger, smaller |
| RewardEpochs | epochs 0..3 of 2 rounds of a second, up to second 7, 2 voters, one payment or batch of four offers, policies searched for within one epoch of the schedule, FCC fees from epoch 2 on | on-time and late starts of both boundaries, registrations before and after the schedule, payments before and after a flip in the same second, next policies too late for the search, a calculation at every moment |

What the properties say is stated above each of them. The important ones:

* no wei is lost or made, at any level: `Refines`, `Conserved`,
  `RoundConserved`, `FtsoConserved`, `FuConservedWithFeed`, `FdcConserved`, and
  for the epoch `FindsWhatWasCredited` (found, not handed out: `FuConserved` fails);
* nobody can take what an honest account earned, or profit from sending more:
  `HonestGetsShare`, `FirstCallerPaid`, `EqualShares`, `FollowerPaid`,
  `MajorityDecides`, `InnerShare`, `RobustQuartiles`, `EnoughSigners`;
* penalties and exclusions have a cause: `PaidOnlyIfDeserved`,
  `PenalisedForCause`, `AbsenceCostsPass`, `SpotlessGainsPass`;
* a random was settled before anybody could react: `SecureIsCommitted`,
  `SettledBeforeReveals`, `SpoilsOncePerWindow`, `FeedDrawnByNextSecure`;
* every provider comes to the same result: `OrderIndependent`, `Fip16Settles`,
  `FeedsOrdered`, `VotersComplete`, `RoundsTile`;
* the calculation ends: `NoPanic`, `Terminates`, `CalculatedInTheEnd`.

### Disagreements between code and its documentation

Two runs expect a violation of what the repository says of itself:

* **LookaheadOnly**: a comment of `GetRewardEpoch` says that an epoch without an
  end round is loaded only for lookahead. `GetEpochClaims` does not ask: when the
  next policy was made after the two epochs that are searched, it calculates the
  epoch with an end round of zero.
* **FuConserved**: the fast-update part of a round without a random is neither
  claimed nor burned, although the log says so and a branch is there for it.

`GetSignersByRound` keeps the first signature of a voter, where its doc comment
(`common/ftso/round.go:19`) says the last; SigningReward has what the code does,
and `HonestGetsShare` is stated for voters all of whose signatures are in time.

An epoch without an end round has, in the model and in the code, loops over its
rounds that do nothing: no FTSO or FDC funds are claimed, and FCC fees are
claimed under round 0 (`RoundsTile`). Before that, `getFeedSelectionRandoms`
makes a list for the rounds of the epoch, whose number wraps around to almost
2^32. On a machine without the memory for it such a calculation fails, which the
model has too: `Calculate` need not be taken.

Behaviour the models show that no document decides: before FIP.16 a feed whose
votes have no weight ends the calculation, and a vote without weight next to the
middle makes the median depend on map order (`Fip16Settles` holds for FIP.16
only); a sender's successful relay call is lost behind its own earlier reverted
one; before FIP.16 offers for a community feed count repeatedly; an epoch that
starts more than a policy window after its first registration loses the voters
registered before (`VotersComplete` names the condition); a fast update of an
account that is no voter of the epoch, in a round in which updates are paid, ends
the calculation (`Terminates` excuses it).

Two properties say less than their names may suggest. `EqualVotesPaidAlike` bounds
what the order of the drawing makes of equal votes; the wrap-around of `int32`
that the same run has is about who is in a band, and does not affect it.
`FeedsOrdered` is checked for the community offers of one epoch of the run, and
says of epochs before FIP.16 only that each feed is listed once, behind those of
the inflation offers.

## Fairness and liveness

* **FtsoEpoch** assumes `WF(Next)`: the calculator is one sequential program
  that goes on while it can. A fatal check is a step to the phase `"fatal"`, after
  which none is enabled. `Terminates` says that the loop comes to its end, or stops
  at a round for which the inputs lack something (`Lacking`), stated in terms of
  the randoms and events and not of the loop's own tests.
* **RewardEpochs** assumes that time passes, that an epoch that is due is
  started (blocks keep coming, and starting one is part of a block), and that
  the operator runs the calculation again until it gets through (weak fairness
  of `CalculateNext`, written out with `Ready`, which says when an epoch can be
  calculated, and for epochs whose end is known). Nothing is assumed of registrations, policies or
  payments. `CalculatedInTheEnd` is stated for epochs that are closed, with
  policies, starts and registrations within the intervals that are searched.

The other models state safety only: they are bounded loops over their inputs.

## Proofs

A run checks a property for one small choice of the constants; the theorems
state it for all that satisfy the assumptions, that is for any number of
voters, rounds, messages, requests and claims, and for all weights, amounts and
fees. Each assumption is named, stands next to the constants it is about and is
evaluated by the run of its module.

**FoldLemmas** holds what all proofs share: the arithmetic of a portion (a floor
of a product, its bounds, and that a draw keeps both inequalities of `Ratio`
below); induction, on a set of numbers instead of a predicate (`LeastNat`,
`SetInduction`, `NatRecursion`); that the folds of the community modules are
sums, whatever the order (`SumTakeOut`, `SumSplit`, `SumOfIsSum`), that a sum
may be taken by owner or by key (`SumByOwner`, `SumByKey`); what `PortionsOf`
computes (`PortionsSum`: exactly the pot; `PortionsFloor`: at least the floor
of the proportional share; `PortionsCeiling`: at most that share and a wei per
earlier entry; `PortionsMono`: of a smaller pot nobody gets more), that a sum
along a list of different elements is one over the set of them (`SumAlong`), and
what `AtPositions` and `SetToSeqs` give.

**SplitProofs** is about the three ways in which an amount is divided.

*WeightedSplit*: `TypeOK`, `Conservation`, `WeightCovers`, `Exhausted` and
`AtLeastFloor` are invariants of the distribution loop, no step violates
`AtMostOnePerEarlierDraw`, and the loop implements `Payout`. None of the
invariants is inductive alone. `IInv` adds

* `SumsOK`: what the first loop has summed is the running total of the weights,
* `WeightLeft`: the weight left covers the entries to come, exactly if nobody
  was passed over,
* `Ratio`: with *a* wei and *t* weight left of a pot *P* and a total weight *T*,
  `P*t <= a*T <= P*t + drawn*T`: the price of a unit of weight never falls, and
  rises by at most a wei per draw.

`Ratio` is what makes the floor hold for later entries, `WeightLeft` with it
gives exhaustion. The refinement adds `Booked`: what is booked as claims is the sum
of the shares drawn so far, and nobody behind the loop has one. Then a draw is a
`Give` (its floor is `AtLeastFloor` of the next state, its excess and that it is
there to be given are `Ratio`), the end is a `Close`, whose burned rest is zero by
`Exhausted`, and every other step stutters. `Conservation` and `Exhausted` are
parts of this argument and are not checked apart.

*VoterSplit*: `Conserved`, `PenaltyFits`, `StakersFloor`. The invariant says
that the loop over the nodes computes `PortionsOf`: after *n* nodes it has
handed out the first *n* portions (`NodesDraw`), from a pot from which the fees
were taken (`FeeTaken`). Hence the fatal check is never reached, and comparing
two calls is a lemma on `PortionsOf`. Assumed: fees are at most 100 %, and some
weight is positive.

*MedianReward*: `RobustQuartiles`, `Fip16Settles`, `InnerShare`,
`EqualVotesPaidAlike`. The invariant `MedianIInv` says little of the steps (the
votes are a sorted order of those who take part, the quartiles are theirs, and
what is paid is what the loop draws), but needs it all: none of the four follows
from the values of `quartiles` and `paid` alone. The work is about one sorted
order: the weight up to a place in it is the weight of the set of voters up to
there (`SortedAlong`), the three scans of calculateFeedMedian stop where the
weight before is too little and the weight up to there is enough (`ScansStop`),
and so a set with more weight than one of the sides has values on the other
(`Outweighed`). For two orders of the same votes, more weight up to a vote in one
than before a vote in the other means a value at least as large (`Crossing`);
each scan stops at such a pair, from either side. At exactly half of the weight
the same is true of the next votes, because with FIP.16 each of them has weight:
without it, a vote of no weight can be the next in one order and not in the
other. `InnerShare` and `EqualVotesPaidAlike` rest on `NormWeightsSpec`: the
weights that are drawn by sum up to the weight of the primary band if the
secondary one has none, else to the product of both and a million.
Assumed: one place in the policy for each voter, weights and raw values that are
not negative, and a primary share of at most the whole.

**ParticipationProofs**, for CommitReveal: `SecureIsCommitted`, `SpoilsOncePerWindow`,
and the action property `SettledBeforeReveals`. The invariant (`Calculated`) says
what GetRoundReveals and CalculateRandoms computed from what is on the chain; the
rest is about which accounts the chain still lets change something. Assumed:
finitely many accounts, whatever subset of them is registered. For MinConditions:
`SpotlessGainsPass` and `AbsenceCostsPass`, by `ValuesCounted` and `RoundsCounted`:
what a voter is counted for and what it missed are, after every round, all the
values and all the rewarded rounds there were. `RestIsMissed` turns a threshold for
the one into a bound on the other, and `PartOfUpdatesMeets` shows that the
rounding of the expected updates is in the voter's favour. Assumed: an epoch has
rounds and feeds, someone has weight, and the desired self-bond is at least the
minimal one.

**FtsoRoundProofs**: `RoundConserved`, `PaidOnlyIfDeserved`, `HonestGetsShare`,
`EqualShares`, `FirstCallerPaid`, `EnoughSigners`. While finalizers share, `Sharing`
(in `FinalizationInv`) has the weight left as the number of drawn finalizers
still to come, so the divisor is positive, and the amount left as that many
parts and what is left of the rest; `PaidAlike` and `FirstTakesPart` follow the shares. `SigningInv` has what the
signing loop pays as portions of the policy weights of those who signed,
`SignersInv` which signature was kept of each voter and hash. `EnoughSigners` is
proved of the lists of signatures that `Decodes` accepts, of any length. Assumed:
the order of the deadlines, finitely many accounts, one place in the policy for
each voter, someone with weight, and someone drawn.

**FtsoEpochProofs**: `FeedDrawnByNextSecure` and `FtsoConserved` by `DrawnSoFar` (the
rounds that have a random so far, and that there is no secure one since) and
`ClaimedSoFar` (the claimed amount is the sum of the first equal parts).
`FuConservedWithFeed` and `FuPaidWithinBand` by `FuInv`, which says of every round
done what was drawn, paid and burned for it, also if a later round ends the
program; the second rests on `BandTest`,
that comparing values scaled to a common number of decimals with a band rounded
down is comparing numbers. Assumed: the values of all feeds are published for
every round, at least one feed of the fast-update offer is selectable, a feed
is configured once, and signing and finalization do not exceed the whole.

**FdcEpochProofs**: `PenalisedForCause`, `MajorityDecides`, `FdcConserved`,
`FollowerPaid`. `ReadSoFar` and `ClaimedSoFar` say that the consensus bit votes
and the claims of the rounds that were gone through are those of their messages;
the work is in the lemmas about one round: that the heaviest bit vote is a
majority's (`MajorityIsHeaviest`), that merging requests keeps the sum of their fees
(`MergedFees`), that the parts of the offer and of the fees add up (`RewardSpec`,
`RoundClaimed`), by a total share that `NoShares` leaves positive. Assumed: one
place in the policy for each voter, and someone with weight.

**RewardEpochsProofs**: `FindsWhatWasCredited`, `RoundsTile`, `VotersComplete`,
`FeedsOrdered`. What a calculation loads, it searches in windows of the
schedule, while the chain opens and starts its epochs when it does; and what was
right when it was calculated has to stay right. The invariant has three parts.
`ChainInv` is about the chain: policies are in order, name later and later
rounds, and have the voters that registered for them; an epoch starts no earlier
than the round of its policy; every event lies between the starts of the epochs
next to the one it is for. With it, a window that is found has all events of the
epoch, and the filter by epoch keeps no other. `CreditInv` is about the
contract: what is credited to an epoch is the sum of the events that name it.
`FoundInv` says that each calculation has found exactly the events of its epoch,
its policy's voters and all its feeds, or no end of the epoch, and then no rounds
and only fees under round 0; it is kept by later steps of the chain
because the epoch is over, so that no step adds an event, a credit or a voter to
it. Fees summed by round add up to the sum over their events, and the sorting of
the feeds is the one that SetToSeqs has, of which there always is one. Assumed:
rounds and epochs of some length, amounts and fees that are not negative, and a
feed listed once in the inflation configurations. Nothing is assumed of how late
an epoch starts or how long the windows are: a calculation that does not find
the policies returns an error, and `VotersComplete` names the condition under
which it finds the voters.

**LedgerProofs**: `OrderIndependent`, `NoPanic`, `MetKeepsRewards`. `Merging`,
`Indexing`, `Settling` and `Decided` describe each map in terms of the part of
the iteration that is done, as a sum over a set of claims that mentions no
order, so that what is published at the end is a function of the claims.
Assumed: the burn address has no penalty (penalties are made of rewards, which
are not negative there), published passes are not negative, and an address
belongs to one voter. `MetKeepsRewards` needs the last two.

Every invariant and action property of the runs that pass is proved. Only
model-checked are the liveness properties `Terminates` and `CalculatedInTheEnd`:
the prover does not reason about fairness or about when an action is enabled.
That the two runs of *Disagreements* fail is a matter of one counterexample each.

## Not modelled

* Contract bindings (generated), command line, logging, files, hashing and the
  Merkle tree: input and output without decisions.
* Byte formats of messages and events, the two formats of the registries'
  events, and the settings of a feed that are only carried along.
* The pseudo-random drawing of finalizers and of voters at the quartiles, which
  are free choices.
* The fetching of the validators' file and of passes over the network: what
  they return, or that they fail, is an input of MinConditions (`NodeLists`,
  `FetchFails`) and Ledger.
* Failures of the database: they end the program and nothing is published.

## Plan

* The byte formats of messages, as relations between lists of bytes and records,
  should a property be about them.
* The formats of the registries' events before and after their upgrade.
