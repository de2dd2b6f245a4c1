---------------------------- MODULE WeightedSplit ----------------------------
(***************************************************************************)
(* The loop that divides a pot of wei over weighted entries, in the order  *)
(* in which the entries are listed.  An entry that draws gets              *)
(*     floor(weight * what is left / weight that is left)                  *)
(* and both remainders shrink before the next entry draws, so the rounding *)
(* of every entry is passed on to those after it.  The calculator has five *)
(* copies of the loop:                                                     *)
(*   rewards/median.go        accuracy reward over the rewarded voters     *)
(*   rewards/signing.go       signing reward over the signatures, and the  *)
(*                            stakers' part of a claim over the nodes      *)
(*   rewards/fdc-signing.go   FDC signing reward over the signing policy   *)
(*   rewards/finalization.go  finalization reward, weight 1 per finalizer  *)
(* They differ in what they do with an entry that is not to be paid:       *)
(* signing.go lets it draw and burns its share, fdc-signing.go and         *)
(* finalization.go pass it over and burn what is left at the end.          *)
(***************************************************************************)
EXTENDS Integers, Functions

CONSTANTS N,       \* number of entries
          Weights, \* weights an entry may have
          Pots     \* pots that may be divided

ASSUME NAssumption == N \in Nat
ASSUME WeightsAssumption == Weights \subseteq Nat
ASSUME PotsAssumption == Pots \subseteq Nat

Entry == 1 .. N
Kind == {"pay", "burn", "skip"}

VARIABLES weight,          \* weight of each entry
          kind,            \* whether an entry is paid, burned or passed over
          pot,             \* the wei to divide
          phase,           \* "sum", "pay" or "done"
          i,               \* the entry the loop is at
          sums,            \* running totals of the first loop, sums[k] after k entries
          availableReward, \* wei not yet drawn
          availableWeight, \* weight not yet drawn
          share,           \* what each entry has drawn
          totalReward,     \* total of the claims, paid or burned
          drawn            \* number of entries that have drawn (history)

inputs == <<weight, kind, pot>>
vars == <<weight, kind, pot, phase, i, sums, availableReward, availableWeight,
          share, totalReward, drawn>>

Init ==
  /\ weight \in [Entry -> Weights]
  /\ kind \in [Entry -> Kind]
  /\ pot \in Pots
  /\ phase = "sum"
  /\ i = 1
  /\ sums = [k \in 0 .. N |-> 0]
  /\ availableReward = pot
  /\ availableWeight = 0
  /\ share = [k \in Entry |-> 0]
  /\ totalReward = 0
  /\ drawn = 0

(* Faulty: only the weight of the entries that are paid counts. *)
AddPaidWeight ==
  /\ phase = "sum" /\ i <= N
  /\ sums' = [sums EXCEPT ![i] = sums[i - 1] + (IF kind[i] = "pay" THEN weight[i] ELSE 0)]
  /\ i' = i + 1
  /\ UNCHANGED <<inputs, phase, availableReward, availableWeight, share, totalReward, drawn>>

(* First loop: the total weight. *)
AddWeight ==
  /\ phase = "sum" /\ i <= N
  /\ sums' = [sums EXCEPT ![i] = sums[i - 1] + weight[i]]
  /\ i' = i + 1
  /\ UNCHANGED <<inputs, phase, availableReward, availableWeight, share, totalReward, drawn>>

(* Nobody has weight: the whole pot is burned. *)
BurnAll ==
  /\ phase = "sum" /\ i > N /\ sums[N] = 0
  /\ phase' = "done"
  /\ totalReward' = totalReward + availableReward
  /\ availableReward' = 0
  /\ UNCHANGED <<inputs, i, sums, availableWeight, share, drawn>>

StartPaying ==
  /\ phase = "sum" /\ i > N /\ sums[N] > 0
  /\ phase' = "pay"
  /\ i' = 1
  /\ availableWeight' = sums[N]
  /\ UNCHANGED <<inputs, sums, availableReward, share, totalReward, drawn>>

(* Second loop: an entry without weight, or one to be passed over. *)
PassOver ==
  /\ phase = "pay" /\ i <= N
  /\ kind[i] = "skip" \/ weight[i] = 0
  /\ i' = i + 1
  /\ UNCHANGED <<inputs, phase, sums, availableReward, availableWeight, share, totalReward, drawn>>

(* Faulty ways to compute a portion, for the mutants of Portion: rounded    *)
(* up, of the whole pot, by the whole weight.                               *)
PortionUp(w, a, t) == (w * a + t - 1) \div t
PortionOfPot(w, a, t) == (w * pot) \div t
PortionOfTotal(w, a, t) == (w * a) \div sums[N]

(* What an entry of weight w draws from amount a when the weight left is t. *)
Portion(w, a, t) == (w * a) \div t

(* Faulty: what is drawn is not added to the claims. *)
DrawUncounted ==
  /\ phase = "pay" /\ i <= N
  /\ kind[i] # "skip" /\ weight[i] > 0
  /\ share' = [share EXCEPT ![i] = Portion(weight[i], availableReward, availableWeight)]
  /\ availableReward' = availableReward - share'[i]
  /\ availableWeight' = availableWeight - weight[i]
  /\ drawn' = drawn + 1
  /\ i' = i + 1
  /\ UNCHANGED <<inputs, phase, sums, totalReward>>

(* An entry draws its portion; a paid and a burned entry differ only in who *)
(* the claim is for.                                                        *)
Draw ==
  /\ phase = "pay" /\ i <= N
  /\ kind[i] # "skip" /\ weight[i] > 0
  /\ share' = [share EXCEPT ![i] = Portion(weight[i], availableReward, availableWeight)]
  /\ availableReward' = availableReward - share'[i]
  /\ availableWeight' = availableWeight - weight[i]
  /\ totalReward' = totalReward + share'[i]
  /\ drawn' = drawn + 1
  /\ i' = i + 1
  /\ UNCHANGED <<inputs, phase, sums>>

(* After the loop: what nobody drew is burned. *)
BurnRest ==
  /\ phase = "pay" /\ i > N
  /\ phase' = "done"
  /\ totalReward' = totalReward + availableReward
  /\ availableReward' = 0
  /\ UNCHANGED <<inputs, i, sums, availableWeight, share, drawn>>

Next == AddWeight \/ BurnAll \/ StartPaying \/ PassOver \/ Draw \/ BurnRest

Spec == Init /\ [][Next]_vars

-----------------------------------------------------------------------------
TypeOK ==
  /\ weight \in [Entry -> Nat]
  /\ kind \in [Entry -> Kind]
  /\ pot \in Nat
  /\ phase \in {"sum", "pay", "done"}
  /\ i \in 1 .. N + 1
  /\ sums \in [0 .. N -> Nat]
  /\ availableReward \in Nat
  /\ availableWeight \in Nat
  /\ share \in [Entry -> Nat]
  /\ totalReward \in Nat
  /\ drawn \in Nat

(* At every point of every loop the claims made so far and what is left add *)
(* up to the pot, and when the loop is over the claims are the whole pot:   *)
(* the check "totalReward is not equal to rewardShare" of median.go:143     *)
(* cannot fire.                                                             *)
Conservation ==
  /\ totalReward + availableReward = pot
  /\ phase = "done" => totalReward = pot

(* The code divides only by a positive remaining weight, one that covers    *)
(* the entry: "availableWeight is zero, this should never happen"           *)
(* (median.go:112) and "no weight for signer" (fdc-signing.go:53) cannot    *)
(* fire, and the uint16 and big.Int subtractions never go below zero.       *)
WeightCovers ==
  phase = "pay" /\ i <= N /\ kind[i] # "skip" => weight[i] <= availableWeight

(* When no entry is passed over the loop itself gives away the last wei:    *)
(* BurnRest then has nothing to burn, which is what makes the check         *)
(* "remainingStakeAmount is not zero" of signing.go:210 dead.               *)
Exhausted ==
  phase = "pay" /\ i > N /\ (\A k \in Entry : kind[k] # "skip") => availableReward = 0

Drew(k) == phase # "sum" /\ sums[N] > 0 /\ kind[k] # "skip" /\ (phase = "pay" => k < i)

(* Rounding is never at the expense of a later entry: whoever draws gets at *)
(* least the floor of its exact proportional share of the whole pot.        *)
AtLeastFloor == \A k \in Entry : Drew(k) => share[k] >= Portion(weight[k], pot, sums[N])

(* ... and the wei of rounding a later entry inherits are at most one per   *)
(* entry that drew before it: a draw exceeds the exact share by no more.    *)
AtMostOnePerEarlierDraw ==
  [][Draw => share'[i] * sums[N] <= weight[i] * pot + drawn * sums[N]]_vars

Eligible == {k \in Entry : kind[k] # "skip" /\ weight[k] > 0}
SharesOf == SumFunctionOnSet(share, Entry)

Promise == INSTANCE Payout WITH
  Claimants <- Entry, eligible <- Eligible, given <- {k \in Eligible : Drew(k)}, claim <- share,
  burned <- totalReward - SharesOf, closed <- (phase = "done")

(* The loop implements the abstract distribution: every entry that is to be   *)
(* paid or burned draws once, within the two bounds, and the total of the     *)
(* claims that the loop keeps is always that of the shares, and in the end,   *)
(* with what is burned, the pot: the check "totalReward is not equal to      *)
(* rewardShare" (median.go:143) cannot fire.                                *)
Refines == Promise!PayoutSpec
=============================================================================
