------------------------------ MODULE SplitProofs -----------------------------
(***************************************************************************)
(* How an amount is divided is correct for all inputs.                      *)
(*                                                                         *)
(* The distribution loop is correct for every number of entries, every     *)
(* weight and every pot.  The inductive invariant relates the two          *)
(* remainders: what is left of the weight is the weight not yet drawn      *)
(* (SumsOK, WeightLeft), and the wei left per weight left stay between the *)
(* ratio of the start and that plus one wei per draw (Ratio).              *)
(*                                                                         *)
(* The split of what a voter earns is correct for every amount, every fee   *)
(* and any number of nodes of any weight.  The inductive invariant says     *)
(* that the loop over the nodes computes PortionsOf: what is left after     *)
(* each node, and the weight that is left.  What a smaller amount would     *)
(* give (PenaltyFits) is then a matter of the lemmas about PortionsOf.      *)
(*                                                                         *)
(* The median and the rewards around it are correct for any number of       *)
(* voters, all weights and all values.  The inductive invariant says that   *)
(* the votes are a sorted order of those who take part, and the quartiles   *)
(* theirs.  What the scans stop at in one order, they stop at in every      *)
(* other (Crossing), and what is summed along the signing policy order is   *)
(* summed over the voters (SumAlongPolicy).                                *)
(***************************************************************************)
EXTENDS WeightedSplit, VoterSplit, MedianReward, FoldLemmas

(* sums holds the running totals of the entries the first loop has passed. *)
SumsOK ==
  /\ sums[0] = 0
  /\ \A k \in Entry : (phase # "sum" \/ k < i) =>
       /\ sums[k] = sums[k - 1] + weight[k]
       /\ sums[k] <= sums[IF phase = "sum" THEN i - 1 ELSE N]

(* The first loop gives nothing away. *)
NothingYet ==
  phase = "sum" => availableReward = pot /\ totalReward = 0 /\ drawn = 0

(* The weight left is at least that of the entries to come, and exactly that *)
(* if nobody with weight was passed over.                                    *)
WeightLeft ==
  phase = "pay" =>
    /\ sums[N] - sums[i - 1] <= availableWeight
    /\ (\A k \in Entry : kind[k] = "skip" => weight[k] = 0) => availableWeight = sums[N] - sums[i - 1]
    /\ sums[N] > 0

(* The wei left per weight left. *)
Ratio ==
  phase = "pay" =>
    /\ pot * availableWeight <= availableReward * sums[N]
    /\ availableReward * sums[N] <= pot * availableWeight + drawn * sums[N]
    /\ availableWeight = 0 => availableReward = 0

IInv == TypeOK /\ Conservation /\ SumsOK /\ NothingYet /\ WeightLeft /\ Ratio /\ AtLeastFloor

(* The loop starts in the invariant. *)
LEMMA InitIInv == Init => IInv
<1> SUFFICES ASSUME Init PROVE IInv
  OBVIOUS
<1> USE DEF Init, Entry
<1>1. TypeOK
  <2>1. weight \in [Entry -> Nat] /\ kind \in [Entry -> Kind] /\ pot \in Nat
    BY WeightsAssumption, PotsAssumption
  <2>2. sums \in [0 .. N -> Nat] /\ share \in [Entry -> Nat]
    OBVIOUS
  <2>3. i \in 1 .. N + 1 /\ phase \in {"sum", "pay", "done"}
    BY NAssumption
  <2> QED
    BY <2>1, <2>2, <2>3 DEF TypeOK
<1>2. Conservation /\ SumsOK /\ NothingYet /\ WeightLeft /\ Ratio /\ AtLeastFloor
  BY NAssumption, <1>1 DEF TypeOK, Conservation, SumsOK, NothingYet, WeightLeft, Ratio, AtLeastFloor, Drew
<1> QED
  BY <1>1, <1>2 DEF IInv

(* Within the invariant the loop divides by a weight that covers the entry. *)
LEMMA IInvWeightCovers == IInv => WeightCovers
<1> SUFFICES ASSUME IInv, phase = "pay", i <= N
             PROVE  weight[i] <= availableWeight
  BY DEF WeightCovers
<1>1. i \in Entry /\ N \in Nat /\ sums \in [0 .. N -> Nat] /\ availableWeight \in Nat /\ weight[i] \in Nat
  BY NAssumption DEF IInv, TypeOK, Entry
<1>2. sums[i] = sums[i - 1] + weight[i] /\ sums[i] <= sums[N]
  BY <1>1 DEF IInv, SumsOK
<1>3. sums[N] - sums[i - 1] <= availableWeight
  BY DEF IInv, WeightLeft
<1>4. i - 1 \in 0 .. N /\ sums[i] \in Nat /\ sums[i - 1] \in Nat /\ sums[N] \in Nat
  BY <1>1 DEF Entry
<1> QED
  BY <1>1, <1>2, <1>3, <1>4

(* When the loop is through and passed over nobody, nothing is left. *)
LEMMA IInvExhausted == IInv => Exhausted
<1> SUFFICES ASSUME IInv, phase = "pay", i > N, \A k \in Entry : kind[k] # "skip"
             PROVE  availableReward = 0
  BY DEF Exhausted
<1>1. i - 1 = N
  BY NAssumption DEF IInv, TypeOK
<1>2. sums[N] \in Nat
  BY NAssumption DEF IInv, TypeOK
<1>3. availableWeight = 0
  BY <1>1, <1>2 DEF IInv, WeightLeft
<1> QED
  BY <1>3 DEF IInv, Ratio

(* The facts about one draw, from the lemmas on portions. *)
LEMMA DrawFacts ==
  ASSUME IInv, Draw
  PROVE  LET q == Portion(weight[i], availableReward, availableWeight)
         IN  /\ q \in 0 .. availableReward
             /\ weight[i] <= availableWeight
             /\ pot * (availableWeight - weight[i]) <= (availableReward - q) * sums[N]
             /\ (availableReward - q) * sums[N]
                  <= pot * (availableWeight - weight[i]) + (drawn + 1) * sums[N]
             /\ availableWeight - weight[i] = 0 => availableReward - q = 0
             /\ Portion(weight[i], pot, sums[N]) <= q
             /\ q * sums[N] <= weight[i] * pot + drawn * sums[N]
<1> DEFINE w == weight[i]
           a == availableReward
           t == availableWeight
           T == sums[N]
<1>1. w \in Nat /\ a \in Nat /\ t \in Nat /\ pot \in Nat /\ T \in Nat /\ drawn \in Nat
  BY NAssumption DEF IInv, TypeOK, Entry, Draw
<1>2. w <= t
  BY IInvWeightCovers DEF WeightCovers, Draw
<1>3. w > 0 /\ T > 0
  BY DEF Draw, IInv, WeightLeft
<1>4. pot * t <= a * T /\ a * T <= pot * t + drawn * T
  BY DEF Draw, IInv, Ratio
<1> HIDE DEF w, a, t, T
<1>5. t > 0
  BY <1>1, <1>2, <1>3
<1>6. (w * a) \div t \in 0 .. a
  BY <1>1, <1>2, <1>5, PortionBound
<1>7. pot * (t - w) <= (a - (w * a) \div t) * T
  BY <1>1, <1>2, <1>4, <1>5, RatioNotLowered
<1>8. (a - (w * a) \div t) * T <= pot * (t - w) + (drawn + 1) * T
  BY <1>1, <1>2, <1>4, <1>5, RatioRaisedByOne
<1>9. (w * pot) \div T <= (w * a) \div t
  BY <1>1, <1>3, <1>4, <1>5, PortionAtLeastFloor
<1>10. ((w * a) \div t) * T <= w * pot + drawn * T
  BY <1>1, <1>2, <1>4, <1>5, PortionAtMost
<1>11. t - w = 0 => a - (w * a) \div t = 0
  <2> SUFFICES ASSUME t - w = 0 PROVE a - (w * a) \div t = 0
    OBVIOUS
  <2>1. w = t
    BY <1>1
  <2>2. (t * a) \div t = a
    BY <1>1, <1>5, PortionOfAll
  <2> QED
    BY <1>1, <2>1, <2>2
<1> QED
  BY <1>2, <1>6, <1>7, <1>8, <1>9, <1>10, <1>11 DEF Portion, w, a, t, T

(* The invariant is inductive, one case per action. *)
LEMMA NextIInv == IInv /\ [Next]_vars => IInv'
<1> SUFFICES ASSUME IInv, [Next]_vars PROVE IInv'
  OBVIOUS
<1> USE NAssumption DEF IInv
<1>1. CASE AddWeight
  <2> USE <1>1 DEF AddWeight, inputs
  <2>1. i \in Entry /\ i - 1 \in 0 .. N /\ i \in 0 .. N
    BY DEF TypeOK, Entry
  <2>2. sums[i - 1] + weight[i] \in Nat
    BY <2>1 DEF TypeOK
  <2>3. TypeOK'
    BY <2>1, <2>2 DEF TypeOK
  <2>4. SumsOK'
    <3>1. sums'[0] = 0
      BY <2>1 DEF SumsOK, TypeOK, Entry
    <3>2. ASSUME NEW k \in Entry, k < i + 1
          PROVE  sums'[k] = sums'[k - 1] + weight[k] /\ sums'[k] <= sums'[i]
      <4>1. CASE k = i
        BY <2>1, <2>2, <4>1 DEF TypeOK, Entry
      <4>2. CASE k < i
        <5>1. k \in 0 .. N /\ k - 1 \in 0 .. N /\ k # i /\ k - 1 # i
          BY <4>2, <2>1 DEF Entry
        <5>2. sums'[k] = sums[k] /\ sums'[k - 1] = sums[k - 1] /\ sums'[i] = sums[i - 1] + weight[i]
          BY <2>1, <5>1 DEF TypeOK
        <5>3. sums[k] = sums[k - 1] + weight[k] /\ sums[k] <= sums[i - 1]
          BY <4>2 DEF SumsOK
        <5>4. sums[k] \in Nat /\ sums[i - 1] \in Nat /\ weight[i] \in Nat
          BY <2>1, <5>1 DEF TypeOK
        <5> QED
          BY <5>2, <5>3, <5>4
      <4> QED
        BY <3>2, <4>1, <4>2, <2>1 DEF Entry
    <3>3. phase' = "sum" /\ i' = i + 1 /\ i' - 1 = i /\ weight' = weight
      BY <2>1 DEF Entry
    <3> QED
      BY <3>1, <3>2, <3>3 DEF SumsOK
  <2>5. Conservation' /\ NothingYet' /\ WeightLeft' /\ Ratio' /\ AtLeastFloor'
    BY DEF Conservation, NothingYet, WeightLeft, Ratio, AtLeastFloor, Drew
  <2> QED
    BY <2>3, <2>4, <2>5
<1>2. CASE BurnAll
  <2> USE <1>2 DEF BurnAll, inputs
  <2>1. TypeOK'
    BY DEF TypeOK
  <2>2. i - 1 = N
    BY DEF TypeOK
  <2>3. SumsOK'
    <3>1. \A k \in Entry : k < i
      BY DEF TypeOK, Entry
    <3>2. \A k \in Entry : sums[k] = sums[k - 1] + weight[k] /\ sums[k] <= sums[N]
      BY <2>2, <3>1 DEF SumsOK
    <3> QED
      BY <3>2 DEF SumsOK
  <2>4. Conservation' /\ NothingYet' /\ WeightLeft' /\ Ratio' /\ AtLeastFloor'
    BY DEF Conservation, NothingYet, WeightLeft, Ratio, AtLeastFloor, Drew, TypeOK
  <2> QED
    BY <2>1, <2>3, <2>4
<1>3. CASE StartPaying
  <2> USE <1>3 DEF StartPaying, inputs
  <2>1. sums[N] \in Nat /\ pot \in Nat /\ availableReward = pot /\ drawn = 0 /\ sums[0] = 0
    BY DEF TypeOK, NothingYet, SumsOK
  <2>2. TypeOK'
    BY <2>1 DEF TypeOK
  <2>3. i - 1 = N
    BY DEF TypeOK
  <2>4. SumsOK'
    <3>1. \A k \in Entry : k < i
      BY DEF TypeOK, Entry
    <3>2. \A k \in Entry : sums[k] = sums[k - 1] + weight[k] /\ sums[k] <= sums[N]
      BY <2>3, <3>1 DEF SumsOK
    <3> QED
      BY <2>1, <3>2 DEF SumsOK
  <2>5. Conservation' /\ NothingYet'
    BY DEF Conservation, NothingYet
  <2>6. WeightLeft'
    BY <2>1 DEF WeightLeft
  <2>7. Ratio'
    BY <2>1 DEF Ratio
  <2>8. AtLeastFloor'
    BY DEF AtLeastFloor, Drew, Entry
  <2> QED
    BY <2>2, <2>4, <2>5, <2>6, <2>7, <2>8
<1>4. CASE PassOver
  <2> USE <1>4 DEF PassOver, inputs
  <2>1. i \in Entry
    BY DEF TypeOK, Entry
  <2>2. TypeOK'
    BY <2>1 DEF TypeOK, Entry
  <2>3. SumsOK' /\ Conservation' /\ NothingYet' /\ Ratio'
    BY DEF SumsOK, Conservation, NothingYet, Ratio
  <2>4. WeightLeft'
    <3>1. sums[i] = sums[i - 1] + weight[i] /\ weight[i] \in Nat
      BY <2>1 DEF SumsOK, TypeOK
    <3>2. sums[i] \in Nat /\ sums[i - 1] \in Nat /\ sums[N] \in Nat /\ availableWeight \in Nat
      BY <2>1 DEF TypeOK, Entry
    <3>3. (i + 1) - 1 = i
      BY <2>1 DEF Entry
    <3> QED
      BY <2>1, <3>1, <3>2, <3>3 DEF WeightLeft
  <2>5. AtLeastFloor'
    <3> SUFFICES ASSUME NEW k \in Entry, kind[k] # "skip", k < i + 1
                 PROVE  share[k] >= Portion(weight[k], pot, sums[N])
      BY DEF AtLeastFloor, Drew
    <3>1. CASE k < i
      BY <3>1 DEF AtLeastFloor, Drew, WeightLeft
    <3>2. CASE k = i
      <4>1. weight[i] = 0 /\ pot \in Nat /\ sums[N] \in Nat /\ sums[N] > 0 /\ share[i] \in Nat
        BY <2>1, <3>2 DEF TypeOK, WeightLeft
      <4>2. (0 * pot) \div sums[N] = 0
        BY <4>1, SMT
      <4> QED
        BY <3>2, <4>1, <4>2 DEF Portion
    <3> QED
      BY <2>1, <3>1, <3>2 DEF Entry
  <2> QED
    BY <2>2, <2>3, <2>4, <2>5
<1>5. CASE Draw
  <2> DEFINE q == Portion(weight[i], availableReward, availableWeight)
  <2>1. /\ q \in 0 .. availableReward
        /\ weight[i] <= availableWeight
        /\ pot * (availableWeight - weight[i]) <= (availableReward - q) * sums[N]
        /\ (availableReward - q) * sums[N]
             <= pot * (availableWeight - weight[i]) + (drawn + 1) * sums[N]
        /\ availableWeight - weight[i] = 0 => availableReward - q = 0
        /\ Portion(weight[i], pot, sums[N]) <= q
    BY <1>5, DrawFacts
  <2>2. i \in Entry /\ i \in 1 .. N
    BY <1>5 DEF Draw, TypeOK, Entry
  <2>3. share'[i] = q /\ \A k \in Entry : k # i => share'[k] = share[k]
    BY <1>5, <2>2 DEF Draw, TypeOK
  <2>4. /\ share' = [share EXCEPT ![i] = q]
        /\ availableReward' = availableReward - q
        /\ availableWeight' = availableWeight - weight[i]
        /\ totalReward' = totalReward + q
        /\ drawn' = drawn + 1 /\ i' = i + 1
        /\ phase = "pay" /\ phase' = "pay" /\ sums' = sums
        /\ weight' = weight /\ kind' = kind /\ pot' = pot
    BY <1>5, <2>3 DEF Draw, inputs
  <2> HIDE DEF q
  <2>5. TypeOK'
    <3>1. q \in Nat /\ availableReward - q \in Nat /\ totalReward + q \in Nat /\ drawn + 1 \in Nat
      BY <2>1 DEF TypeOK
    <3>2. availableWeight - weight[i] \in Nat /\ i + 1 \in 1 .. N + 1
      BY <2>1, <2>2 DEF TypeOK
    <3>3. share' \in [Entry -> Nat]
      BY <2>4, <3>1 DEF TypeOK
    <3> QED
      BY <2>4, <3>1, <3>2, <3>3 DEF TypeOK
  <2>6. SumsOK'
    BY <2>4 DEF SumsOK
  <2>7. Conservation' /\ NothingYet'
    BY <2>1, <2>4 DEF Conservation, NothingYet, TypeOK
  <2>8. WeightLeft'
    <3>1. sums[i] = sums[i - 1] + weight[i] /\ weight[i] \in Nat
      BY <2>2, <2>4 DEF SumsOK, TypeOK
    <3>2. sums[i] \in Nat /\ sums[i - 1] \in Nat /\ sums[N] \in Nat /\ availableWeight \in Nat
      BY <2>2 DEF TypeOK
    <3>3. (i + 1) - 1 = i
      BY <2>2
    <3> QED
      BY <2>4, <3>1, <3>2, <3>3 DEF WeightLeft
  <2>9. Ratio'
    BY <2>1, <2>4 DEF Ratio
  <2>10. AtLeastFloor'
    <3> SUFFICES ASSUME NEW k \in Entry, kind[k] # "skip", k < i + 1
                 PROVE  share'[k] >= Portion(weight[k], pot, sums[N])
      BY <2>4 DEF AtLeastFloor, Drew
    <3>1. CASE k = i
      <4>1. pot \in Nat /\ sums[N] \in Nat /\ sums[N] > 0 /\ weight[i] \in Nat
        BY <2>2, <2>4 DEF TypeOK, WeightLeft
      <4>2. weight[i] * pot \in Nat
        BY <4>1, SMT
      <4>3. Portion(weight[i], pot, sums[N]) \in Nat
        BY <4>1, <4>2, DivDef DEF Portion
      <4> QED
        BY <2>1, <2>3, <3>1, <4>3
    <3>2. CASE k < i
      <4>1. share'[k] = share[k]
        <5>1. k # i
          BY <2>2, <3>2
        <5> QED
          BY <2>3, <5>1
      <4>2. share[k] >= Portion(weight[k], pot, sums[N])
        BY <2>4, <3>2 DEF AtLeastFloor, Drew, WeightLeft
      <4> QED
        BY <4>1, <4>2
    <3> QED
      BY <2>2, <3>1, <3>2 DEF Entry
  <2> QED
    BY <2>5, <2>6, <2>7, <2>8, <2>9, <2>10
<1>6. CASE BurnRest
  <2> USE <1>6 DEF BurnRest, inputs
  <2>1. TypeOK'
    BY DEF TypeOK
  <2>2. SumsOK' /\ Conservation' /\ NothingYet' /\ WeightLeft' /\ Ratio'
    BY DEF SumsOK, Conservation, NothingYet, WeightLeft, Ratio, TypeOK
  <2>3. AtLeastFloor'
    BY DEF AtLeastFloor, Drew, TypeOK, Entry
  <2> QED
    BY <2>1, <2>2, <2>3
<1>7. CASE UNCHANGED vars
  BY <1>7 DEF vars, inputs, TypeOK, Conservation, SumsOK, NothingYet, WeightLeft, Ratio, AtLeastFloor, Drew
<1> QED
  BY <1>1, <1>2, <1>3, <1>4, <1>5, <1>6, <1>7 DEF Next

(* The invariant holds in every reachable state. *)
LEMMA SpecIInv == Spec => []IInv
  BY InitIInv, NextIInv, PTL DEF Spec

(* Every variable keeps its type: no remainder of the loop is ever negative. *)
THEOREM TypeCorrect == Spec => []TypeOK
<1>1. IInv => TypeOK
  BY DEF IInv
<1> QED
  BY <1>1, SpecIInv, PTL

(* No division by a weight that is zero or smaller than the entry's. *)
THEOREM SplitNeverOverdraws == Spec => []WeightCovers
  BY IInvWeightCovers, SpecIInv, PTL

(* If every entry draws, the draws alone use up the pot. *)
THEOREM SplitExhausts == Spec => []Exhausted
  BY IInvExhausted, SpecIInv, PTL

(* Nobody who draws gets less than the floor of its share. *)
THEOREM SplitAtLeastFloor == Spec => []AtLeastFloor
<1>1. IInv => AtLeastFloor
  BY DEF IInv
<1> QED
  BY <1>1, SpecIInv, PTL

(* A draw exceeds the exact share by at most one wei per earlier draw. *)
THEOREM SplitBoundedExcess == Spec => AtMostOnePerEarlierDraw
<1>1. ASSUME IInv, Draw
      PROVE  share'[i] * sums[N] <= weight[i] * pot + drawn * sums[N]
  <2>1. i \in Entry
    BY <1>1 DEF Draw, IInv, TypeOK, Entry
  <2>2. share'[i] = Portion(weight[i], availableReward, availableWeight)
    BY <1>1, <2>1 DEF Draw, IInv, TypeOK
  <2> QED
    BY <1>1, <2>2, DrawFacts
<1>2. IInv /\ [Next]_vars =>
        [Draw => share'[i] * sums[N] <= weight[i] * pot + drawn * sums[N]]_vars
  BY <1>1
<1> QED
  BY <1>2, SpecIInv, PTL DEF Spec, AtMostOnePerEarlierDraw

Handed == {k \in Eligible : Drew(k)}

(* The running total of the claims is that of the shares, which are zero for  *)
(* those that have not drawn, and those that have are counted.               *)
Booked ==
  /\ phase # "done" => totalReward = SharesOf
  /\ phase = "sum" => share = [k \in Entry |-> 0]
  /\ phase = "pay" => drawn = Cardinality(Handed) /\ \A k \in Entry : k >= i => share[k] = 0

LEMMA EntriesFinite == IsFiniteSet(Entry)
<1>1. 1 \in Int /\ N \in Int
  BY NAssumption
<1> QED
  BY <1>1, FS_Interval DEF Entry

(* The first loop adds up all weights. *)
LEMMA SumsTotal ==
  ASSUME IInv, phase # "sum"
  PROVE  SumFunctionOnSet(weight, Entry) = sums[N]
<1> DEFINE left == [n \in 0 .. N |-> -sums[n]]
<1>1. sums \in [0 .. N -> Nat] /\ sums[0] = 0 /\ N \in Nat
  BY NAssumption DEF IInv, TypeOK, SumsOK
<1>2. \A k \in 1 .. N : sums[k] = sums[k - 1] + weight[k] /\ weight[k] \in Nat
  BY DEF IInv, TypeOK, SumsOK, Entry
<1>3. \A k \in 1 .. N : k - 1 \in 0 .. N /\ k \in 0 .. N
  BY <1>1
<1>4. \A n \in 0 .. N : left[n] \in Int
  BY <1>1
<1>5. \A n \in 1 .. N : weight[n] = left[n - 1] - left[n]
  BY <1>1, <1>2, <1>3
<1>6. left[0] = 0 /\ left[N] = -sums[N] /\ sums[N] \in Nat
  BY <1>1
<1> HIDE DEF left
<1>7. SumFunctionOnSet(weight, 1 .. N) = left[0] - left[N]
  BY <1>1, <1>4, <1>5, SumOfSteps
<1> QED
  BY <1>6, <1>7 DEF Entry

(* Nobody has weight if the total is zero. *)
LEMMA NoneEligible ==
  ASSUME IInv, phase # "sum" \/ i > N, sums[N] = 0
  PROVE  Eligible = {}
<1> SUFFICES ASSUME NEW k \in Entry PROVE weight[k] = 0
  BY DEF Eligible
<1>1. sums \in [0 .. N -> Nat] /\ weight[k] \in Nat /\ k \in 0 .. N /\ k - 1 \in 0 .. N
  BY NAssumption DEF IInv, TypeOK, Entry
<1>2. sums[k] = sums[k - 1] + weight[k] /\ sums[k] <= sums[N]
  <2>1. CASE phase # "sum"
    BY <2>1 DEF IInv, SumsOK
  <2>2. CASE phase = "sum" /\ i > N
    <3>1. k < i /\ i - 1 = N
      BY <2>2, NAssumption DEF IInv, TypeOK, Entry
    <3> QED
      BY <2>2, <3>1 DEF IInv, SumsOK
  <2> QED
    BY <2>1, <2>2
<1>3. sums[k] \in Nat /\ sums[k - 1] \in Nat
  BY <1>1
<1> QED
  BY <1>1, <1>2, <1>3

(* A draw adds to the shares what it adds to the claims. *)
LEMMA DrawBooks ==
  ASSUME IInv, Booked, Draw
  PROVE  LET q == Portion(weight[i], availableReward, availableWeight)
         IN  /\ i \in Eligible /\ i \notin Handed /\ Handed' = Handed \cup {i}
             /\ Eligible' = Eligible
             /\ share' = [share EXCEPT ![i] = q] /\ share'[i] = q
             /\ SharesOf' = SharesOf + q /\ totalReward' = totalReward + q
             /\ SharesOf \in Int /\ q \in Nat
             /\ Cardinality(Handed') = Cardinality(Handed) + 1 /\ IsFiniteSet(Handed)
<1> DEFINE q == Portion(weight[i], availableReward, availableWeight)
<1>1. i \in Entry /\ kind[i] # "skip" /\ weight[i] > 0 /\ share \in [Entry -> Nat] /\ share[i] = 0
  BY DEF Draw, IInv, TypeOK, Entry, Booked
<1>2. q \in Nat
  BY DrawFacts DEF IInv, TypeOK
<1>3. share' = [share EXCEPT ![i] = q] /\ share'[i] = q /\ totalReward' = totalReward + q
  BY <1>1 DEF Draw
<1> HIDE DEF q
<1>4. Eligible' = Eligible /\ i \in Eligible
  BY <1>1 DEF Eligible, Draw, inputs
<1>5. sums[N] > 0 /\ phase = "pay" /\ phase' = "pay" /\ i' = i + 1 /\ sums' = sums /\ kind' = kind
  BY DEF Draw, IInv, WeightLeft, inputs
<1>6. i \notin Handed /\ Handed' = Handed \cup {i}
  <2>1. \A k \in Entry : Drew(k) <=> kind[k] # "skip" /\ k < i
    BY <1>5 DEF Drew
  <2>2. \A k \in Entry : Drew(k)' <=> kind[k] # "skip" /\ k < i + 1
    BY <1>5 DEF Drew
  <2>3. \A k \in Entry : k < i + 1 <=> k < i \/ k = i
    BY <1>1 DEF Entry
  <2>4. Eligible \subseteq Entry /\ ~(i < i)
    BY <1>1 DEF Eligible, Entry
  <2> QED
    BY <1>1, <1>4, <2>1, <2>2, <2>3, <2>4 DEF Handed
<1>7. SharesOf \in Int /\ SharesOf' = SharesOf + q
  <2> DEFINE f == share'
  <2>1. \A k \in Entry : share[k] \in Int
    BY <1>1
  <2>2. f[i] = q /\ q \in Int /\ \A k \in Entry : k # i => f[k] = share[k]
    BY <1>1, <1>2, <1>3
  <2> HIDE DEF f
  <2>3. SumFunctionOnSet(f, Entry) = SumFunctionOnSet(share, Entry) - share[i] + f[i]
    BY <1>1, <2>1, <2>2, EntriesFinite, SumExcept
  <2>4. SumFunctionOnSet(share, Entry) \in Int
    BY <2>1, EntriesFinite, SumInt
  <2>5. SharesOf' = SumFunctionOnSet(f, Entry)
    BY DEF SharesOf, Entry, f
  <2> QED
    BY <1>1, <1>2, <2>2, <2>3, <2>4, <2>5 DEF SharesOf
<1>8. IsFiniteSet(Handed)
  <2>1. Handed \subseteq Entry
    BY DEF Handed, Eligible
  <2> QED
    BY <2>1, EntriesFinite, FS_Subset
<1>9. Cardinality(Handed \cup {i}) = Cardinality(Handed) + 1
  BY <1>6, <1>8, FS_AddElement
<1> QED
  BY <1>2, <1>3, <1>4, <1>6, <1>7, <1>8, <1>9 DEF q

LEMMA InitBooked == Init => Booked
<1> SUFFICES ASSUME Init PROVE Booked
  OBVIOUS
<1>1. share = [k \in Entry |-> 0] /\ totalReward = 0 /\ phase = "sum"
  BY DEF Init
<1>2. SharesOf = 0
  BY <1>1, EntriesFinite, SumZero DEF SharesOf
<1> QED
  BY <1>1, <1>2 DEF Booked

LEMMA NextBooked == IInv /\ Booked /\ [Next]_vars => Booked'
<1> SUFFICES ASSUME IInv, Booked, [Next]_vars PROVE Booked'
  OBVIOUS
<1>1. ASSUME UNCHANGED <<share, totalReward>> PROVE SharesOf' = SharesOf
  BY <1>1 DEF SharesOf, Entry
<1>2. CASE AddWeight
  BY <1>1, <1>2 DEF AddWeight, Booked, Entry
<1>3. CASE BurnAll
  BY <1>3 DEF BurnAll, Booked
<1>4. CASE StartPaying
  <2>1. phase' = "pay" /\ i' = 1 /\ UNCHANGED <<share, totalReward, drawn>> /\ phase = "sum"
    BY <1>4 DEF StartPaying
  <2>2. Handed' = {}
    <3>1. \A k \in Entry : ~(k < 1)
      BY NAssumption DEF Entry
    <3>2. \A k \in Entry : ~Drew(k)'
      BY <2>1, <3>1 DEF Drew
    <3>3. Eligible' \subseteq Entry
      BY DEF Eligible, Entry
    <3> QED
      BY <3>2, <3>3 DEF Handed
  <2>3. drawn = 0
    BY <2>1 DEF IInv, NothingYet
  <2>4. \A k \in Entry : share[k] = 0
    BY <2>1 DEF Booked
  <2> QED
    BY <1>1, <2>1, <2>2, <2>3, <2>4, FS_EmptySet DEF Booked, Entry
<1>5. CASE PassOver
  <2>1. phase = "pay" /\ phase' = "pay" /\ i' = i + 1 /\ UNCHANGED <<inputs, sums, share, totalReward, drawn>>
        /\ i \in Entry /\ (kind[i] = "skip" \/ weight[i] = 0)
    BY <1>5 DEF PassOver, IInv, TypeOK, Entry
  <2>2. Handed' = Handed
    <3>1. \A k \in Entry : k # i => (k < i + 1 <=> k < i)
      BY <2>1 DEF Entry
    <3>2. i \notin Eligible /\ Eligible' = Eligible /\ Eligible \subseteq Entry
      BY <2>1 DEF Eligible, inputs, Entry
    <3>3. \A k \in Entry : k # i => (Drew(k)' <=> Drew(k))
      BY <2>1, <3>1 DEF Drew, inputs
    <3> QED
      BY <3>2, <3>3 DEF Handed
  <2>3. \A k \in Entry : k >= i + 1 => k >= i
    BY <2>1 DEF Entry
  <2> QED
    BY <1>1, <2>1, <2>2, <2>3 DEF Booked, Entry
<1>6. CASE Draw
  <2>1. phase = "pay" /\ phase' = "pay" /\ i' = i + 1 /\ drawn' = drawn + 1 /\ i \in Entry
    BY <1>6 DEF Draw, IInv, TypeOK, Entry
  <2> DEFINE q == Portion(weight[i], availableReward, availableWeight)
  <2>2. /\ share' = [share EXCEPT ![i] = q]
        /\ SharesOf' = SharesOf + q /\ totalReward' = totalReward + q
        /\ Cardinality(Handed') = Cardinality(Handed) + 1
    BY <1>6, DrawBooks
  <2> HIDE DEF q
  <2>3. \A k \in Entry : k >= i + 1 => share'[k] = 0
    <3>1. \A k \in Entry : k >= i + 1 => k # i /\ k >= i
      BY <2>1 DEF Entry
    <3>2. share \in [Entry -> Nat]
      BY DEF IInv, TypeOK
    <3> QED
      BY <2>1, <2>2, <3>1, <3>2 DEF Booked
  <2> QED
    BY <2>1, <2>2, <2>3 DEF Booked, Entry
<1>7. CASE BurnRest
  BY <1>7 DEF BurnRest, Booked
<1>8. CASE UNCHANGED vars
  <2>1. Handed' = Handed
    BY <1>8 DEF Handed, Eligible, Drew, Entry, vars
  <2> QED
    BY <1>1, <1>8, <2>1 DEF Booked, vars, Entry
<1> QED
  BY <1>2, <1>3, <1>4, <1>5, <1>6, <1>7, <1>8 DEF Next

LEMMA SpecBooked == Spec => [](IInv /\ Booked)
<1>1. Init => IInv /\ Booked
  BY InitIInv, InitBooked
<1>2. IInv /\ Booked /\ [Next]_vars => (IInv /\ Booked)'
  BY NextIInv, NextBooked
<1> QED
  BY <1>1, <1>2, PTL DEF Spec

(* The operators of the community modules, as Payout has them. *)
LEMMA SameOperators ==
  /\ \A f, S : Promise!SumFunctionOnSet(f, S) = SumFunctionOnSet(f, S)
  /\ \A S : Promise!Cardinality(S) = Cardinality(S)
<1>1. \A f, S : Promise!SumFunctionOnSet(f, S) = SumFunctionOnSet(f, S)
  BY Zenon DEF Promise!SumFunctionOnSet, SumFunctionOnSet, Promise!FoldFunctionOnSet,
     FoldFunctionOnSet, Promise!MapThenFoldSet, MapThenFoldSet
<1>2. \A S : Promise!Cardinality(S) = Cardinality(S)
  BY Zenon DEF Promise!Cardinality, Cardinality
<1> QED
  BY <1>1, <1>2

(* What stays as it is while nothing is handed out. *)
LEMMA Unmapped ==
  ASSUME UNCHANGED <<inputs, share, totalReward>>, Handed' = Handed, (phase = "done")' = (phase = "done")
  PROVE  UNCHANGED Promise!payoutVars
<1>1. Eligible' = Eligible /\ SharesOf' = SharesOf
  BY DEF Eligible, SharesOf, Entry, inputs
<1> QED
  BY <1>1 DEF Promise!payoutVars, Promise!payoutInputs, Handed, inputs

(* The loop is over when all have drawn, or nobody can. *)
LEMMA CloseMaps ==
  ASSUME IInv, Booked, BurnAll \/ BurnRest
  PROVE  Promise!Close
<1>1. /\ phase # "done" /\ phase' = "done"
      /\ totalReward' = totalReward + availableReward
      /\ UNCHANGED <<inputs, sums, share, i>>
      /\ i > N
  BY DEF BurnAll, BurnRest
<1>2. totalReward = SharesOf /\ totalReward + availableReward = pot
      /\ totalReward \in Nat /\ availableReward \in Nat /\ pot \in Nat
  BY <1>1 DEF Booked, IInv, TypeOK, Conservation
<1>3. SharesOf' = SharesOf /\ Eligible' = Eligible
  BY <1>1 DEF SharesOf, Eligible, Entry, inputs
<1>4. Handed = Eligible /\ Handed' = Eligible
  <2>1. CASE BurnAll
    <3>1. Eligible = {}
      BY <1>1, <2>1, NoneEligible DEF BurnAll
    <3> QED
      BY <1>3, <3>1 DEF Handed
  <2>2. CASE BurnRest
    <3>1. phase = "pay" /\ sums[N] > 0
      BY <2>2 DEF BurnRest, IInv, WeightLeft
    <3>2. \A k \in Entry : k < i
      BY <1>1, NAssumption DEF IInv, TypeOK, Entry
    <3>3. \A k \in Eligible : Drew(k) /\ Drew(k)'
      BY <1>1, <3>1, <3>2 DEF Drew, Eligible, inputs
    <3> QED
      BY <1>3, <3>3 DEF Handed
  <2> QED
    BY <2>1, <2>2
<1>5. ASSUME SumFunctionOnSet(weight, Entry) > 0, Eligible = {k \in Entry : weight[k] > 0}
      PROVE  availableReward = 0
  <2>1. CASE BurnAll
    <3>1. \A k \in Entry : weight[k] = 0
      <4>1. Eligible = {}
        BY <1>1, <2>1, NoneEligible DEF BurnAll
      <4> QED
        BY <1>5, <4>1 DEF IInv, TypeOK
    <3>2. SumFunctionOnSet(weight, Entry) = 0
      BY <3>1, EntriesFinite, SumZero
    <3> QED
      BY <1>5, <3>2
  <2>2. CASE BurnRest
    <3>1. phase = "pay"
      BY <2>2 DEF BurnRest
    <3>2. availableWeight = 0
      <4>1. i - 1 = N /\ sums[N] \in Nat
        BY <1>1, NAssumption DEF IInv, TypeOK
      <4>2. \A k \in Entry : kind[k] = "skip" => weight[k] = 0
        <5>1. \A k \in Entry : kind[k] = "skip" => ~(weight[k] > 0) /\ weight[k] \in Nat
          BY <1>5 DEF Eligible, IInv, TypeOK
        <5> QED
          BY <5>1
      <4>3. availableWeight = sums[N] - sums[i - 1]
        BY <3>1, <4>2 DEF IInv, WeightLeft
      <4> QED
        BY <4>1, <4>3
    <3> QED
      BY <3>1, <3>2 DEF IInv, Ratio
  <2> QED
    BY <2>1, <2>2
<1>6. (totalReward - SharesOf)' = pot - SharesOf /\ pot - SharesOf = availableReward
  BY <1>1, <1>2, <1>3
<1>7. (phase = "done") = FALSE /\ (phase = "done")' = TRUE
  BY <1>1
<1>8. pot' = pot /\ weight' = weight /\ share' = share
  BY <1>1 DEF inputs
<1>9. (totalReward - SharesOf)' >= 0
  BY <1>2, <1>6
<1>10. {k \in Eligible : Drew(k)} = Eligible /\ {k \in Eligible : Drew(k)}' = Eligible
  BY <1>4 DEF Handed
<1>11. SharesOf = SumFunctionOnSet(share, Entry)
  BY DEF SharesOf
<1>12. SumFunctionOnSet(weight, Entry) > 0 /\ Eligible = {k \in Entry : weight[k] > 0}
       => (totalReward - SharesOf)' = 0
  BY <1>5, <1>6
<1> QED
  BY <1>3, <1>6, <1>7, <1>8, <1>9, <1>10, <1>11, <1>12, SameOperators
     DEF Promise!Close, Promise!Granted, Promise!Total, Promise!payoutInputs

LEMMA GiveMaps ==
  ASSUME IInv, Booked, Draw
  PROVE  Promise!Give(i)
<1> DEFINE q == Portion(weight[i], availableReward, availableWeight)
<1>1. /\ i \in Eligible /\ i \notin Handed /\ Handed' = Handed \cup {i}
      /\ Eligible' = Eligible
      /\ share' = [share EXCEPT ![i] = q]
      /\ SharesOf' = SharesOf + q /\ totalReward' = totalReward + q
      /\ SharesOf \in Int /\ q \in Nat
  BY DrawBooks
<1>2. /\ q \in 0 .. availableReward
      /\ Portion(weight[i], pot, sums[N]) <= q
      /\ q * sums[N] <= weight[i] * pot + drawn * sums[N]
  BY DrawFacts
<1>3. phase = "pay" /\ phase' = "pay" /\ UNCHANGED inputs
  BY DEF Draw
<1>4. SumFunctionOnSet(weight, Entry) = sums[N] /\ drawn = Cardinality(Handed)
  BY <1>3, SumsTotal DEF Booked
<1>5. totalReward = SharesOf /\ availableReward = pot - SharesOf /\ pot \in Nat
      /\ totalReward \in Nat /\ availableReward \in Nat
  BY <1>3 DEF Booked, IInv, TypeOK, Conservation
<1> HIDE DEF q
<1>6. Promise!Fair(i, q)
  <2> DEFINE T == SumFunctionOnSet(weight, Entry)
             c == Cardinality(Handed)
  <2>1. Portion(weight[i], pot, T) <= q /\ q * T <= weight[i] * pot + c * T
    BY <1>2, <1>4
  <2>2. q <= pot - SharesOf
    BY <1>2, <1>5
  <2>3. (weight[i] * pot) \div T <= q
    BY <2>1 DEF Portion
  <2> HIDE DEF T, c
  <2>4. Promise!Total = T /\ Promise!Granted = SharesOf /\ {k \in Eligible : Drew(k)} = Handed
    BY SameOperators DEF Promise!Total, Promise!Granted, T, SharesOf, Handed
  <2> QED
    BY <2>1, <2>2, <2>3, <2>4, SameOperators, Zenon DEF Promise!Fair, c
<1>7. q \in 0 .. pot
  BY <1>2, <1>5
<1>8. (totalReward - SharesOf)' = totalReward - SharesOf
  BY <1>1, <1>5
<1> QED
  BY <1>1, <1>3, <1>6, <1>7, <1>8 DEF Promise!Give, Promise!payoutInputs, Handed, inputs

(* The loop implements the abstract distribution of Payout: each entry that  *)
(* is to draw gets one fair claim, and the claims and what is burned are the  *)
(* pot, for any number of entries, all weights and all pots.                 *)
THEOREM SplitImplementsPayout == Spec => Refines
<1>1. Init => Promise!PayoutInit
  <2> SUFFICES ASSUME Init PROVE Promise!PayoutInit
    OBVIOUS
  <2>1. weight \in [Entry -> Nat] /\ pot \in Nat /\ phase = "sum" /\ share = [k \in Entry |-> 0]
    BY WeightsAssumption, PotsAssumption DEF Init
  <2>2. totalReward - SharesOf = 0
    BY <2>1, InitBooked DEF Init, Booked
  <2>3. Handed = {} /\ Eligible \subseteq {k \in Entry : weight[k] > 0}
    BY <2>1 DEF Handed, Eligible, Drew
  <2>4. (phase = "done") = FALSE
    BY <2>1
  <2> QED
    BY <2>1, <2>2, <2>3, <2>4 DEF Promise!PayoutInit, Handed
<1>2. IInv /\ Booked /\ [Next]_vars => [Promise!PayoutNext]_(Promise!payoutVars)
  <2> SUFFICES ASSUME IInv, Booked, [Next]_vars
               PROVE  Promise!PayoutNext \/ UNCHANGED Promise!payoutVars
    OBVIOUS
  <2>1. CASE AddWeight \/ StartPaying
    <3>1. UNCHANGED <<inputs, share, totalReward>> /\ phase = "sum" /\ phase' \in {"sum", "pay"}
          /\ (phase' = "pay" => i' = 1)
      BY <2>1 DEF AddWeight, StartPaying
    <3>2. Handed = {} /\ Handed' = {}
      <4>1. \A k \in Entry : ~(k < 1)
        BY NAssumption DEF Entry
      <4>2. Eligible' \subseteq Entry /\ Eligible \subseteq Entry
        BY DEF Eligible, Entry
      <4> QED
        BY <3>1, <4>1, <4>2 DEF Handed, Drew
    <3> QED
      BY <3>1, <3>2, Unmapped
  <2>2. CASE PassOver
    <3>1. UNCHANGED <<inputs, share, totalReward, sums>> /\ phase = "pay" /\ phase' = "pay" /\ i' = i + 1
          /\ i \in Entry /\ (kind[i] = "skip" \/ weight[i] = 0)
      BY <2>2 DEF PassOver, IInv, TypeOK, Entry
    <3>2. Handed' = Handed
      <4>1. \A k \in Entry : k # i => (k < i + 1 <=> k < i)
        BY <3>1 DEF Entry
      <4>2. i \notin Eligible /\ Eligible' = Eligible /\ Eligible \subseteq Entry
        BY <3>1 DEF Eligible, inputs, Entry
      <4>3. \A k \in Entry : k # i => (Drew(k)' <=> Drew(k))
        BY <3>1, <4>1 DEF Drew, inputs
      <4> QED
        BY <4>2, <4>3 DEF Handed
    <3> QED
      BY <3>1, <3>2, Unmapped
  <2>3. CASE Draw
    <3>1. i \in Entry
      BY <2>3 DEF Draw, IInv, TypeOK, Entry
    <3> QED
      BY <2>3, <3>1, GiveMaps DEF Promise!PayoutNext
  <2>4. CASE BurnAll \/ BurnRest
    BY <2>4, CloseMaps DEF Promise!PayoutNext
  <2>5. CASE UNCHANGED vars
    <3>1. Handed' = Handed
      BY <2>5 DEF Handed, Eligible, Drew, Entry, vars
    <3> QED
      BY <2>5, <3>1, Unmapped DEF vars, inputs
  <2> QED
    BY <2>1, <2>2, <2>3, <2>4, <2>5 DEF Next
<1> QED
  BY <1>1, <1>2, SpecBooked, PTL DEF Spec, Refines, Promise!PayoutSpec
-----------------------------------------------------------------------------
(* The split of what a voter earns. *)
Pot == StakingAmount(amount) - StakingFee(StakingAmount(amount))
DelegationPart(a) == a - StakingAmount(a)

SplitTypeOK ==
  /\ amount \in Nat /\ cappedWeight \in Nat
  /\ nodeWeights \in [1 .. Nodes -> Nat]
  /\ cappedWeight + SumOf(nodeWeights) > 0
  /\ delegationFeeBips \in 0 .. TotalBips
  /\ fip16 \in BOOLEAN /\ accuracy \in BOOLEAN
  /\ stage \in {"split", "nodes", "done", "fatal"}
  /\ node \in 1 .. Nodes + 1
  /\ fee \in Int /\ wnat \in Int
  /\ mirror \in [1 .. Nodes -> Int]
  /\ remainingStakeAmount \in Int /\ remainingStakeWeight \in Int

(* Nothing is claimed before the split. *)
NothingClaimed ==
  stage = "split" =>
    node = 1 /\ remainingStakeAmount = 0 /\ mirror = [n \in 1 .. Nodes |-> 0]

(* The accuracy reward is divided without the nodes. *)
WithoutNodes ==
  stage # "split" /\ accuracy =>
    /\ stage = "done" /\ fee + wnat = amount
    /\ remainingStakeAmount = 0 /\ mirror = [n \in 1 .. Nodes |-> 0]

(* The fee and the delegators' part do not change while the nodes draw. *)
FeeTaken ==
  stage # "split" /\ ~accuracy =>
    /\ fee = DelegationFee(DelegationPart(amount)) + StakingFee(StakingAmount(amount))
    /\ wnat = DelegationPart(amount) - DelegationFee(DelegationPart(amount))

(* The loop over the nodes hands out PortionsOf of the stakers' pot. *)
NodesDraw ==
  stage # "split" /\ ~accuracy =>
    /\ remainingStakeAmount = LeftAfter(nodeWeights, Pot)[node - 1]
    /\ remainingStakeWeight = WeightFrom(nodeWeights, node)
    /\ \A n \in 1 .. Nodes : mirror[n] = IF n < node THEN PortionsOf(nodeWeights, Pot)[n] ELSE 0
    /\ SumFunctionOnSet(mirror, 1 .. Nodes) + remainingStakeAmount = Pot
    /\ stage = "done" => node = Nodes + 1

SplitIInv ==
  /\ SplitTypeOK /\ NothingClaimed /\ WithoutNodes /\ FeeTaken /\ NodesDraw
  /\ stage # "fatal"
-----------------------------------------------------------------------------
(* The weights of the nodes are a sequence, and their staked weight counts    *)
(* exactly if it is not zero.                                                *)
LEMMA NodeWeights ==
  ASSUME SplitTypeOK
  PROVE  /\ nodeWeights \in Seq(Nat) /\ Len(nodeWeights) = Nodes /\ DOMAIN nodeWeights = 1 .. Nodes
         /\ stakedWeight \in Nat /\ EffectiveStakedWeight \in Nat
         /\ stakedWeight = 0 => EffectiveStakedWeight = 0
         /\ cappedWeight + EffectiveStakedWeight > 0
<1>1. nodeWeights \in Seq(Nat) /\ Len(nodeWeights) = Nodes /\ DOMAIN nodeWeights = 1 .. Nodes
  BY InputsAssumption DEF SplitTypeOK
<1>2. stakedWeight \in Nat
  BY <1>1, WeightFromStep DEF stakedWeight
<1>3. stakedWeight * StakeWeightMultiplier \in Nat /\ (stakedWeight > 0 => stakedWeight * StakeWeightMultiplier > 0)
      /\ (stakedWeight = 0 => stakedWeight * StakeWeightMultiplier = 0)
  BY <1>2, MultiplierAssumption
<1>4. EffectiveStakedWeight \in Nat /\ (stakedWeight > 0 => EffectiveStakedWeight > 0)
      /\ (stakedWeight = 0 => EffectiveStakedWeight = 0)
  BY <1>2, <1>3 DEF EffectiveStakedWeight
<1>5. cappedWeight \in Nat /\ cappedWeight + stakedWeight > 0
  BY DEF SplitTypeOK, stakedWeight
<1> QED
  BY <1>1, <1>2, <1>4, <1>5

(* What each of the three divisions takes, is part of the amount, and grows   *)
(* with it no faster than the amount.                                        *)
LEMMA PartsOfAmount ==
  ASSUME SplitTypeOK, NEW a \in Nat
  PROVE  /\ StakingAmount(a) \in 0 .. a
         /\ DelegationFee(a) \in 0 .. a
         /\ StakingFee(a) \in 0 .. a
<1> DEFINE E == EffectiveStakedWeight
           T == cappedWeight + EffectiveStakedWeight
           F == Min({delegationFeeBips, CappedStakingFeeBips})
<1>1. E \in Nat /\ T \in Nat /\ T > 0 /\ E <= T
  BY NodeWeights DEF SplitTypeOK
<1>2. F \in Nat /\ F <= TotalBips /\ TotalBips \in Nat /\ TotalBips > 0 /\ delegationFeeBips \in Nat /\ delegationFeeBips <= TotalBips
  BY MinOfTwo, BipsAssumption DEF SplitTypeOK
<1> HIDE DEF E, T, F
<1>3. (E * a) \div T \in 0 .. a /\ (F * a) \div TotalBips \in 0 .. a /\ (delegationFeeBips * a) \div TotalBips \in 0 .. a
  BY <1>1, <1>2, PortionBound
<1>4. E * a = a * E /\ F * a = a * F /\ delegationFeeBips * a = a * delegationFeeBips
  BY <1>1, <1>2
<1> QED
  BY <1>3, <1>4 DEF E, T, F, StakingAmount, DelegationFee, StakingFee

LEMMA PartsGrow ==
  ASSUME SplitTypeOK, NEW a \in Nat, NEW b \in Nat, a <= b
  PROVE  /\ StakingAmount(a) <= StakingAmount(b)
         /\ a - StakingAmount(a) <= b - StakingAmount(b)
         /\ DelegationFee(a) <= DelegationFee(b)
         /\ a - DelegationFee(a) <= b - DelegationFee(b)
         /\ StakingFee(a) <= StakingFee(b)
         /\ a - StakingFee(a) <= b - StakingFee(b)
<1> DEFINE E == EffectiveStakedWeight
           T == cappedWeight + EffectiveStakedWeight
           F == Min({delegationFeeBips, CappedStakingFeeBips})
<1>1. E \in Nat /\ T \in Nat /\ T > 0 /\ E <= T
  BY NodeWeights DEF SplitTypeOK
<1>2. F \in Nat /\ F <= TotalBips /\ TotalBips \in Nat /\ TotalBips > 0 /\ delegationFeeBips \in Nat /\ delegationFeeBips <= TotalBips
  BY MinOfTwo, BipsAssumption DEF SplitTypeOK
<1> HIDE DEF E, T, F
<1>3. /\ (E * a) \div T <= (E * b) \div T
      /\ a - (E * a) \div T <= b - (E * b) \div T
  BY <1>1, RestMono
<1>4. /\ (F * a) \div TotalBips <= (F * b) \div TotalBips
      /\ a - (F * a) \div TotalBips <= b - (F * b) \div TotalBips
  BY <1>2, RestMono
<1>5. /\ (delegationFeeBips * a) \div TotalBips <= (delegationFeeBips * b) \div TotalBips
      /\ a - (delegationFeeBips * a) \div TotalBips <= b - (delegationFeeBips * b) \div TotalBips
  BY <1>2, RestMono
<1>6. E * a = a * E /\ F * a = a * F /\ delegationFeeBips * a = a * delegationFeeBips
      /\ E * b = b * E /\ F * b = b * F /\ delegationFeeBips * b = b * delegationFeeBips
  BY <1>1, <1>2
<1> QED
  BY <1>3, <1>4, <1>5, <1>6 DEF E, T, F, StakingAmount, DelegationFee, StakingFee

(* What is left for the stakers is an amount, and none if they have no weight. *)
LEMMA PotOfStakers ==
  ASSUME SplitTypeOK
  PROVE  /\ Pot \in Nat /\ DelegationPart(amount) \in Nat
         /\ StakingFee(StakingAmount(amount)) \in Nat /\ DelegationFee(DelegationPart(amount)) \in Nat
         /\ SumOf(nodeWeights) > 0 \/ Pot = 0
<1>1. amount \in Nat
  BY DEF SplitTypeOK
<1>2. StakingAmount(amount) \in 0 .. amount
  BY <1>1, PartsOfAmount
<1>3. StakingFee(StakingAmount(amount)) \in 0 .. StakingAmount(amount)
  BY <1>2, PartsOfAmount
<1>4. DelegationPart(amount) \in Nat
  BY <1>1, <1>2 DEF DelegationPart
<1>5. DelegationFee(DelegationPart(amount)) \in 0 .. DelegationPart(amount)
  BY <1>4, PartsOfAmount
<1>6. CASE stakedWeight = 0
  <2>1. EffectiveStakedWeight = 0 /\ cappedWeight \in Nat /\ cappedWeight > 0
    BY <1>6, NodeWeights DEF SplitTypeOK
  <2>2. StakingAmount(amount) = 0
    <3>1. amount * 0 = 0 /\ 0 \div cappedWeight = 0 /\ cappedWeight + 0 = cappedWeight
      BY <1>1, <2>1
    <3> QED
      BY <2>1, <3>1 DEF StakingAmount
  <2>3. Pot = 0
    BY <1>2, <1>3, <2>2 DEF Pot
  <2> QED
    BY <1>2, <1>3, <1>4, <1>5, <2>3 DEF Pot
<1>7. CASE stakedWeight # 0
  <2>1. SumOf(nodeWeights) > 0
    BY <1>7, NodeWeights DEF stakedWeight
  <2> QED
    BY <1>2, <1>3, <1>4, <1>5, <2>1 DEF Pot
<1> QED
  BY <1>6, <1>7

(* The constant operators of the split depend on the call only. *)
LEMMA InputsFixed ==
  ASSUME SplitTypeOK, UNCHANGED call
  PROVE  /\ Pot' = Pot /\ DelegationPart(amount)' = DelegationPart(amount)
         /\ DelegationFee(DelegationPart(amount))' = DelegationFee(DelegationPart(amount))
         /\ StakingFee(StakingAmount(amount))' = StakingFee(StakingAmount(amount))
  BY DEF call, Pot, DelegationPart, DelegationFee, StakingFee, StakingAmount, EffectiveStakedWeight, stakedWeight

LEMMA SplitInitIInv == SplitInit => SplitIInv
<1> SUFFICES ASSUME SplitInit PROVE SplitIInv
  OBVIOUS
<1>1. SplitTypeOK
  <2>1. amount \in Nat /\ cappedWeight \in Nat /\ delegationFeeBips \in 0 .. TotalBips
    BY InputsAssumption DEF SplitInit
  <2>2. nodeWeights \in [1 .. Nodes -> Nat]
    BY InputsAssumption DEF SplitInit
  <2>3. node \in 1 .. Nodes + 1 /\ mirror \in [1 .. Nodes -> Int]
    BY InputsAssumption DEF SplitInit
  <2> QED
    BY <2>1, <2>2, <2>3 DEF SplitInit, SplitTypeOK
<1>2. NothingClaimed /\ WithoutNodes /\ FeeTaken /\ NodesDraw /\ stage # "fatal"
  BY DEF SplitInit, NothingClaimed, WithoutNodes, FeeTaken, NodesDraw
<1> QED
  BY <1>1, <1>2 DEF SplitIInv

LEMMA SplitNextIInv == SplitIInv /\ [SplitNext]_splitVars => SplitIInv'
<1> SUFFICES ASSUME SplitIInv, [SplitNext]_splitVars PROVE SplitIInv'
  OBVIOUS
<1> USE DEF SplitIInv
<1>1. Nodes \in Nat
  BY InputsAssumption
<1>2. nodeWeights \in Seq(Nat) /\ Len(nodeWeights) = Nodes /\ DOMAIN nodeWeights = 1 .. Nodes
      /\ \A n \in 1 .. Nodes : nodeWeights[n] \in Nat
  BY NodeWeights DEF SplitTypeOK
<1>3. Pot \in Nat /\ DelegationPart(amount) \in Nat
      /\ StakingFee(StakingAmount(amount)) \in Nat /\ DelegationFee(DelegationPart(amount)) \in Nat
      /\ (SumOf(nodeWeights) > 0 \/ Pot = 0)
  BY PotOfStakers
<1>4. \A n \in 0 .. Nodes : LeftAfter(nodeWeights, Pot)[n] \in Nat
  BY <1>2, <1>3, LeftAfterSpec
<1>5. \A n \in 1 .. Nodes :
        LeftAfter(nodeWeights, Pot)[n] = LeftAfter(nodeWeights, Pot)[n - 1]
          - (IF nodeWeights[n] = 0 THEN 0
             ELSE (nodeWeights[n] * LeftAfter(nodeWeights, Pot)[n - 1]) \div WeightFrom(nodeWeights, n))
  BY <1>2, <1>3, LeftAfterSpec
<1>6. /\ \A n \in 1 .. Nodes + 1 : WeightFrom(nodeWeights, n) \in Nat
      /\ \A n \in 1 .. Nodes : WeightFrom(nodeWeights, n) = nodeWeights[n] + WeightFrom(nodeWeights, n + 1)
  BY <1>2, WeightFromStep
<1>7. CASE ParticipationSplit
  <2>1. amount \in Nat /\ DelegationFee(amount) \in 0 .. amount
    BY PartsOfAmount DEF SplitTypeOK
  <2>2. SplitTypeOK'
    BY <1>7, <2>1 DEF ParticipationSplit, SplitTypeOK, call
  <2>3. WithoutNodes'
    BY <1>7, <2>1 DEF ParticipationSplit, WithoutNodes, NothingClaimed, call
  <2>4. NothingClaimed' /\ FeeTaken' /\ NodesDraw' /\ stage' # "fatal"
    BY <1>7 DEF ParticipationSplit, NothingClaimed, FeeTaken, NodesDraw, call
  <2> QED
    BY <2>2, <2>3, <2>4
<1>8. CASE SplitFee
  <2>1. node = 1 /\ mirror = [n \in 1 .. Nodes |-> 0] /\ stage' = "nodes" /\ ~accuracy'
        /\ UNCHANGED <<call, node, mirror>>
    BY <1>8 DEF SplitFee, NothingClaimed, call
  <2>2. /\ fee' = DelegationFee(DelegationPart(amount)) + StakingFee(StakingAmount(amount))
        /\ wnat' = DelegationPart(amount) - DelegationFee(DelegationPart(amount))
        /\ remainingStakeAmount' = Pot /\ remainingStakeWeight' = stakedWeight
    BY <1>8 DEF SplitFee, DelegationPart, Pot
  <2>3. /\ Pot' = Pot /\ DelegationPart(amount)' = DelegationPart(amount)
        /\ DelegationFee(DelegationPart(amount))' = DelegationFee(DelegationPart(amount))
        /\ StakingFee(StakingAmount(amount))' = StakingFee(StakingAmount(amount))
    BY <2>1, InputsFixed
  <2>4. WeightFrom(nodeWeights, 1) = stakedWeight /\ stakedWeight \in Nat /\ LeftAfter(nodeWeights, Pot)[0] = Pot
    BY <1>2, <1>3, WeightFromStep, LeftAfterSpec DEF stakedWeight
  <2>5. SplitTypeOK'
    <3>1. fee' \in Int /\ wnat' \in Int /\ remainingStakeAmount' \in Int /\ remainingStakeWeight' \in Int
      BY <1>3, <2>2, <2>4
    <3> QED
      BY <2>1, <3>1 DEF SplitTypeOK, call
  <2>6. FeeTaken'
    BY <2>2, <2>3 DEF FeeTaken
  <2>7. NodesDraw'
    <3>1. SumFunctionOnSet(mirror, 1 .. Nodes) = 0
      <4>1. IsFiniteSet(1 .. Nodes) /\ \A x \in 1 .. Nodes : mirror[x] = 0
        BY <1>1, <2>1, FS_Interval
      <4> QED
        BY <4>1, SumZero
    <3>2. nodeWeights' = nodeWeights /\ node' = 1 /\ node' - 1 = 0 /\ mirror' = mirror
      BY <2>1 DEF call
    <3>3. \A n \in 1 .. Nodes : mirror[n] = 0 /\ ~(n < 1)
      BY <2>1
    <3> QED
      BY <1>3, <2>1, <2>2, <2>3, <2>4, <3>1, <3>2, <3>3 DEF NodesDraw
  <2> QED
    BY <2>1, <2>5, <2>6, <2>7 DEF NothingClaimed, WithoutNodes
<1>9. CASE NodeClaim
  <2>1. /\ stage = "nodes" /\ node \in 1 .. Nodes /\ ~accuracy /\ node' = node + 1
        /\ UNCHANGED <<call, stage, fee, wnat>>
    BY <1>1, <1>9 DEF NodeClaim, SplitTypeOK, WithoutNodes
  <2>2. /\ Pot' = Pot /\ DelegationPart(amount)' = DelegationPart(amount)
        /\ DelegationFee(DelegationPart(amount))' = DelegationFee(DelegationPart(amount))
        /\ StakingFee(StakingAmount(amount))' = StakingFee(StakingAmount(amount))
    BY <2>1, InputsFixed
  <2> DEFINE left == LeftAfter(nodeWeights, Pot)
  <2>3. /\ remainingStakeAmount = left[node - 1] /\ remainingStakeWeight = WeightFrom(nodeWeights, node)
        /\ \A n \in 1 .. Nodes : mirror[n] = IF n < node THEN PortionsOf(nodeWeights, Pot)[n] ELSE 0
        /\ SumFunctionOnSet(mirror, 1 .. Nodes) + remainingStakeAmount = Pot
    BY <2>1 DEF NodesDraw
  <2>4. left[node - 1] \in Nat /\ left[node] \in Nat
    <3>1. node - 1 \in 0 .. Nodes /\ node \in 0 .. Nodes
      BY <1>1, <2>1
    <3> QED
      BY <1>4, <3>1
  <2>5. NodeAmount = left[node - 1] - left[node]
    <3>1. left[node] = left[node - 1] - (IF nodeWeights[node] = 0 THEN 0
                                   ELSE (nodeWeights[node] * left[node - 1]) \div WeightFrom(nodeWeights, node))
      BY <1>5, <2>1
    <3>2. nodeWeights[node] \in Nat
      BY <1>2, <2>1
    <3>3. CASE nodeWeights[node] = 0
      BY <2>4, <3>1, <3>3 DEF NodeAmount
    <3>4. CASE nodeWeights[node] # 0
      <4> DEFINE W == WeightFrom(nodeWeights, node)
      <4>1. W \in Nat /\ W > 0 /\ nodeWeights[node] <= W
        BY <1>2, <2>1, <3>2, <3>4, WeightFromStep
      <4> HIDE DEF W, left
      <4>2. (nodeWeights[node] * left[node - 1]) \div W \in 0 .. left[node - 1]
        BY <2>4, <3>2, <4>1, PortionBound
      <4>3. nodeWeights[node] * left[node - 1] = left[node - 1] * nodeWeights[node]
        BY <2>4, <3>2
      <4>4. left[node] = left[node - 1] - (nodeWeights[node] * left[node - 1]) \div W
        BY <3>1, <3>4 DEF W
      <4>5. NodeAmount = (left[node - 1] * nodeWeights[node]) \div W
        BY <2>3, <3>2, <3>4 DEF NodeAmount, W
      <4> QED
        BY <2>4, <4>2, <4>3, <4>4, <4>5
    <3> QED
      BY <3>3, <3>4
  <2>6. NodeAmount = PortionsOf(nodeWeights, Pot)[node]
    BY <1>2, <2>1, <2>5 DEF PortionsOf
  <2>7. remainingStakeAmount' = left[node]
    <3>1. remainingStakeAmount' = remainingStakeAmount - NodeAmount
      BY <1>9 DEF NodeClaim
    <3> HIDE DEF left
    <3> QED
      BY <2>3, <2>4, <2>5, <3>1
  <2>8. remainingStakeWeight' = WeightFrom(nodeWeights, node + 1)
    <3>1. WeightFrom(nodeWeights, node) = nodeWeights[node] + WeightFrom(nodeWeights, node + 1)
      BY <1>6, <2>1
    <3>2. node + 1 \in 1 .. Nodes + 1
      BY <1>1, <2>1
    <3>3. WeightFrom(nodeWeights, node + 1) \in Nat /\ nodeWeights[node] \in Nat
      BY <1>2, <1>6, <2>1, <3>2
    <3> QED
      BY <1>9, <2>3, <3>1, <3>3 DEF NodeClaim
  <2>9. mirror' = [mirror EXCEPT ![node] = NodeAmount] /\ NodeAmount \in Int
    <3> HIDE DEF left
    <3> QED
      BY <1>9, <2>4, <2>5 DEF NodeClaim
  <2>10. \A n \in 1 .. Nodes : mirror'[n] = IF n = node THEN NodeAmount ELSE mirror[n]
    BY <2>9 DEF SplitTypeOK
  <2>11. SumFunctionOnSet(mirror', 1 .. Nodes) = SumFunctionOnSet(mirror, 1 .. Nodes) + NodeAmount
    <3>1. IsFiniteSet(1 .. Nodes) /\ \A x \in 1 .. Nodes : mirror[x] \in Int
      BY <1>1, FS_Interval DEF SplitTypeOK
    <3>2. mirror[node] = 0 /\ mirror'[node] = NodeAmount /\ \A x \in 1 .. Nodes : x # node => mirror'[x] = mirror[x]
      BY <2>1, <2>3, <2>10
    <3>3. SumFunctionOnSet(mirror', 1 .. Nodes) = SumFunctionOnSet(mirror, 1 .. Nodes) - mirror[node] + mirror'[node]
      <4> DEFINE S == 1 .. Nodes   f == mirror   g == mirror'
      <4>1. IsFiniteSet(S) /\ (\A x \in S : f[x] \in Int) /\ node \in S /\ g[node] \in Int
            /\ \A x \in S : x # node => g[x] = f[x]
        BY <2>1, <2>9, <3>1, <3>2
      <4> HIDE DEF S, f, g
      <4>2. SumFunctionOnSet(g, S) = SumFunctionOnSet(f, S) - f[node] + g[node]
        BY <4>1, SumExcept
      <4> QED
        BY <4>2 DEF S, f, g
    <3>4. SumFunctionOnSet(mirror, 1 .. Nodes) \in Int
      BY <3>1, SumInt
    <3> QED
      BY <2>9, <3>2, <3>3, <3>4
  <2>12. SplitTypeOK'
    <3>1. mirror' \in [1 .. Nodes -> Int]
      BY <2>9 DEF SplitTypeOK
    <3>2. node' \in 1 .. Nodes + 1
      BY <1>1, <2>1
    <3>3. remainingStakeAmount' \in Int /\ remainingStakeWeight' \in Int
      <4>1. WeightFrom(nodeWeights, node + 1) \in Nat
        BY <1>1, <1>2, <2>1, WeightFromStep
      <4> QED
        BY <2>4, <2>7, <2>8, <4>1
    <3> QED
      BY <2>1, <3>1, <3>2, <3>3 DEF SplitTypeOK, call
  <2>13. NodesDraw'
    <3>1. nodeWeights' = nodeWeights /\ node' - 1 = node /\ stage' = "nodes"
      BY <1>1, <2>1 DEF call
    <3>2. \A n \in 1 .. Nodes : mirror'[n] = IF n < node' THEN PortionsOf(nodeWeights, Pot)[n] ELSE 0
      BY <1>1, <2>1, <2>3, <2>6, <2>10
    <3>3. SumFunctionOnSet(mirror', 1 .. Nodes) + remainingStakeAmount' = Pot
      <4>1. SumFunctionOnSet(mirror, 1 .. Nodes) \in Int
        <5>1. IsFiniteSet(1 .. Nodes) /\ \A x \in 1 .. Nodes : mirror[x] \in Int
          BY <1>1, FS_Interval DEF SplitTypeOK
        <5> QED
          BY <5>1, SumInt
      <4> HIDE DEF left
      <4> QED
        BY <1>3, <2>3, <2>4, <2>5, <2>7, <2>11, <4>1
    <3> QED
      BY <2>1, <2>2, <2>7, <2>8, <3>1, <3>2, <3>3 DEF NodesDraw
  <2>14. FeeTaken'
    BY <2>1, <2>2 DEF FeeTaken, call
  <2> QED
    BY <2>1, <2>12, <2>13, <2>14 DEF NothingClaimed, WithoutNodes, call
<1>10. CASE NodesDone
  <2>1. stage = "nodes" /\ node = Nodes + 1 /\ ~accuracy
        /\ UNCHANGED <<call, node, fee, wnat, mirror, remainingStakeAmount, remainingStakeWeight>>
    BY <1>1, <1>10 DEF NodesDone, SplitTypeOK, WithoutNodes
  <2>2. remainingStakeAmount = 0
    <3>1. LeftAfter(nodeWeights, Pot)[Nodes] = 0
      BY <1>2, <1>3, PortionsSum
    <3> QED
      BY <1>1, <2>1, <3>1 DEF NodesDraw
  <2>3. stage' = "done"
    BY <1>10, <2>2 DEF NodesDone
  <2>4. /\ Pot' = Pot /\ DelegationPart(amount)' = DelegationPart(amount)
        /\ DelegationFee(DelegationPart(amount))' = DelegationFee(DelegationPart(amount))
        /\ StakingFee(StakingAmount(amount))' = StakingFee(StakingAmount(amount))
    BY <2>1, InputsFixed
  <2>5. SplitTypeOK'
    BY <2>1, <2>3 DEF SplitTypeOK, call
  <2>6. FeeTaken' /\ NodesDraw'
    BY <2>1, <2>3, <2>4 DEF FeeTaken, NodesDraw, call
  <2> QED
    BY <2>1, <2>3, <2>5, <2>6 DEF NothingClaimed, WithoutNodes, call
<1>11. CASE UNCHANGED splitVars
  <2>1. UNCHANGED call
    BY <1>11 DEF splitVars
  <2>2. /\ Pot' = Pot /\ DelegationPart(amount)' = DelegationPart(amount)
        /\ DelegationFee(DelegationPart(amount))' = DelegationFee(DelegationPart(amount))
        /\ StakingFee(StakingAmount(amount))' = StakingFee(StakingAmount(amount))
    BY <2>1, InputsFixed
  <2> QED
    BY <1>11, <2>2 DEF splitVars, call, SplitTypeOK, NothingClaimed, WithoutNodes, FeeTaken, NodesDraw
<1> QED
  BY <1>7, <1>8, <1>9, <1>10, <1>11 DEF SplitNext
-----------------------------------------------------------------------------
(* The claims of the nodes are a sequence; what they add up to.              *)
LEMMA MirrorSum ==
  ASSUME SplitIInv
  PROVE  /\ SumOf(mirror) \in Int
         /\ stage # "split" /\ ~accuracy => SumOf(mirror) + remainingStakeAmount = Pot
         /\ stage # "split" /\ accuracy => SumOf(mirror) = 0
<1> USE DEF SplitIInv
<1>1. mirror \in Seq(Int) /\ Len(mirror) = Nodes /\ IsFiniteSet(1 .. Nodes)
  BY InputsAssumption, FS_Interval DEF SplitTypeOK
<1>2. SumOf(mirror) = SumFunctionOnSet(mirror, 1 .. Nodes) /\ SumOf(mirror) \in Int
  BY <1>1, SumOfIsSum, SumOfInt
<1>3. stage # "split" /\ accuracy => SumFunctionOnSet(mirror, 1 .. Nodes) = 0
  <2> SUFFICES ASSUME stage # "split", accuracy
               PROVE  SumFunctionOnSet(mirror, 1 .. Nodes) = 0
    OBVIOUS
  <2>1. \A n \in 1 .. Nodes : mirror[n] = 0
    BY DEF WithoutNodes
  <2> QED
    BY <1>1, <2>1, SumZero
<1> QED
  BY <1>2, <1>3 DEF NodesDraw

LEMMA SplitSpecIInv == SplitSpec => []SplitIInv
  BY SplitInitIInv, SplitNextIInv, PTL DEF SplitSpec

(* Every variable keeps its type, for every number of nodes and all weights. *)
THEOREM VoterTypeCorrect == SplitSpec => []SplitTypeOK
<1>1. SplitIInv => SplitTypeOK
  BY DEF SplitIInv
<1> QED
  BY <1>1, SplitSpecIInv, PTL

(* The fee, the delegators' part and the claims of the nodes are the amount   *)
(* (SigningWeightClaimsForVoter), and the loop over the nodes always ends     *)
(* with nothing left: the calculator never stops there (signing.go:211).     *)
THEOREM SplitOfVoterConserves == SplitSpec => []Conserved
<1>1. ASSUME SplitIInv PROVE Conserved
  <2>1. stage # "split" => fee + wnat + SumOf(mirror) + remainingStakeAmount = amount
    <3> SUFFICES ASSUME stage # "split"
                 PROVE  fee + wnat + SumOf(mirror) + remainingStakeAmount = amount
      OBVIOUS
    <3>1. CASE accuracy
      BY <1>1, <3>1, MirrorSum DEF SplitIInv, SplitTypeOK, WithoutNodes
    <3>2. CASE ~accuracy
      <4>1. SumOf(mirror) + remainingStakeAmount = Pot /\ SumOf(mirror) \in Int /\ remainingStakeAmount \in Int
        BY <1>1, <3>2, MirrorSum DEF SplitIInv, SplitTypeOK
      <4>2. fee = DelegationFee(DelegationPart(amount)) + StakingFee(StakingAmount(amount))
            /\ wnat = DelegationPart(amount) - DelegationFee(DelegationPart(amount))
        BY <1>1, <3>2 DEF SplitIInv, FeeTaken
      <4>3. amount \in Nat /\ StakingAmount(amount) \in 0 .. amount
        BY <1>1, PartsOfAmount DEF SplitIInv, SplitTypeOK
      <4>4. DelegationPart(amount) = amount - StakingAmount(amount)
            /\ Pot = StakingAmount(amount) - StakingFee(StakingAmount(amount))
        BY DEF DelegationPart, Pot
      <4>5. DelegationFee(DelegationPart(amount)) \in Nat /\ StakingFee(StakingAmount(amount)) \in Nat
        BY <1>1, PotOfStakers DEF SplitIInv
      <4> DEFINE s == StakingAmount(amount)   sf == StakingFee(s)
                 d == DelegationPart(amount)  df == DelegationFee(d)   m == SumOf(mirror)
      <4> HIDE DEF s, sf, d, df, m
      <4>6. m + remainingStakeAmount = s - sf /\ fee = df + sf /\ wnat = d - df /\ d = amount - s
        BY <4>1, <4>2, <4>4 DEF s, sf, d, df, m
      <4>7. m \in Int /\ s \in Int /\ sf \in Int /\ df \in Int
        BY <4>1, <4>3, <4>5 DEF s, sf, d, df, m
      <4>8. fee + wnat + m + remainingStakeAmount = amount
        BY <4>1, <4>3, <4>6, <4>7
      <4> QED
        BY <4>8 DEF m
    <3> QED
      BY <3>1, <3>2
  <2> QED
    BY <1>1, <2>1 DEF Conserved, SplitIInv
<1> QED
  BY <1>1, SplitSpecIInv, PTL

(* A penalty no larger than the reward is no larger in the fee, in the        *)
(* delegators' part and for every node: ApplyPenalties finds for each part a  *)
(* claim that pays it, whatever the weights.                                 *)
THEOREM PenaltyFitsReward == SplitSpec => []PenaltyFits
<1>1. ASSUME SplitIInv PROVE PenaltyFits
  <2> SUFFICES ASSUME stage = "done", ~accuracy, NEW penalty \in 0 .. amount
               PROVE  LET stakingAmount == StakingAmount(penalty)
                          delegationAmount == penalty - stakingAmount
                          parts == PortionsOf(nodeWeights, stakingAmount - StakingFee(stakingAmount))
                      IN  /\ DelegationFee(delegationAmount) + StakingFee(stakingAmount) <= fee
                          /\ delegationAmount - DelegationFee(delegationAmount) <= wnat
                          /\ \A n \in 1 .. Nodes : parts[n] <= mirror[n]
    BY DEF PenaltyFits
  <2> DEFINE sp == StakingAmount(penalty)   sa == StakingAmount(amount)
             dp == penalty - sp             da == amount - sa
  <2>1. SplitTypeOK /\ amount \in Nat /\ penalty \in Nat /\ penalty <= amount
    BY <1>1 DEF SplitIInv, SplitTypeOK
  <2>2. sp \in 0 .. penalty /\ sa \in 0 .. amount /\ sp <= sa /\ dp <= da
    BY <2>1, PartsOfAmount, PartsGrow
  <2> HIDE DEF sp, sa
  <2>3. sp \in Nat /\ sa \in Nat /\ dp \in Nat /\ da \in Nat
    BY <2>1, <2>2
  <2> HIDE DEF dp, da
  <2>4. StakingFee(sp) <= StakingFee(sa) /\ sp - StakingFee(sp) <= sa - StakingFee(sa)
        /\ DelegationFee(dp) <= DelegationFee(da) /\ dp - DelegationFee(dp) <= da - DelegationFee(da)
    BY <2>1, <2>2, <2>3, PartsGrow
  <2>5. StakingFee(sp) \in 0 .. sp /\ StakingFee(sa) \in 0 .. sa
        /\ DelegationFee(dp) \in 0 .. dp /\ DelegationFee(da) \in 0 .. da
    BY <2>1, <2>3, PartsOfAmount
  <2>6. fee = DelegationFee(da) + StakingFee(sa) /\ wnat = da - DelegationFee(da)
    BY <1>1 DEF SplitIInv, FeeTaken, DelegationPart, da, sa
  <2>7. DelegationFee(dp) + StakingFee(sp) <= fee /\ dp - DelegationFee(dp) <= wnat
    <3>1. DelegationFee(dp) \in Int /\ DelegationFee(da) \in Int /\ StakingFee(sp) \in Int /\ StakingFee(sa) \in Int
      BY <2>3, <2>5
    <3>2. DelegationFee(dp) + StakingFee(sp) <= DelegationFee(da) + StakingFee(sa)
      BY <2>4, <3>1
    <3> QED
      BY <2>4, <2>6, <3>2
  <2>8. \A n \in 1 .. Nodes : PortionsOf(nodeWeights, sp - StakingFee(sp))[n] <= mirror[n]
    <3>1. sp - StakingFee(sp) \in Nat /\ sa - StakingFee(sa) \in Nat
      BY <2>3, <2>5
    <3>2. nodeWeights \in Seq(Nat) /\ DOMAIN nodeWeights = 1 .. Nodes
      BY <2>1, NodeWeights
    <3>3. \A n \in 1 .. Nodes :
            PortionsOf(nodeWeights, sp - StakingFee(sp))[n] <= PortionsOf(nodeWeights, sa - StakingFee(sa))[n]
      BY <2>4, <3>1, <3>2, PortionsMono
    <3>4. \A n \in 1 .. Nodes : mirror[n] = PortionsOf(nodeWeights, sa - StakingFee(sa))[n]
      <4>1. node = Nodes + 1 /\ \A n \in 1 .. Nodes : mirror[n] = IF n < node THEN PortionsOf(nodeWeights, Pot)[n] ELSE 0
        BY <1>1 DEF SplitIInv, NodesDraw
      <4>2. \A n \in 1 .. Nodes : n < node
        BY <4>1, InputsAssumption
      <4> QED
        BY <4>1, <4>2 DEF Pot, sa
    <3> QED
      BY <3>3, <3>4
  <2> QED
    BY <2>7, <2>8 DEF sp, dp
<1> QED
  BY <1>1, SplitSpecIInv, PTL

(* What is left of a part a of the weight E of T, once a fee of at most f of   *)
(* B is taken, is no less than its exact value, two roundings aside.         *)
LEMMA FloorOfPot ==
  ASSUME NEW a \in Nat, NEW E \in Nat, NEW T \in Nat, T > 0, NEW B \in Nat, B > 0,
         NEW F \in Nat, NEW f \in Nat, F <= f, f <= B
  PROVE  LET s == (a * E) \div T
             y == s - (s * F) \div B
         IN  (y + 1) * B * T >= a * E * (B - f) - B * T
<1> DEFINE s == (a * E) \div T
           q == (s * F) \div B
           x == a * E
           r == B - f
<1>1. x \in Nat /\ r \in Nat /\ r <= B
  BY SMT
<1>2. s \in Nat /\ x <= T * s + T
  BY <1>1, DivDef
<1> HIDE DEF s, x
<1>3. s * F \in Nat
  BY <1>2, SMT
<1>4. q \in Nat /\ B * q <= s * F
  BY <1>3, DivDef
<1> HIDE DEF q
<1>5. F * s <= f * s
  BY <1>2, MulMono
<1>6. s * r = s * B - s * f /\ s * f = f * s /\ s * F = F * s
  BY <1>2, SMT DEF r
<1>7. (s - q) * B = s * B - B * q
  BY <1>2, <1>4, SMT
<1>8. s * r <= (s - q) * B
  BY <1>2, <1>3, <1>4, <1>5, <1>6, <1>7, SMT
<1> HIDE DEF r
<1>9. (s * r) * T <= ((s - q) * B) * T
  BY <1>1, <1>2, <1>4, <1>8, MulMono, SMT
<1>10. x * r <= (T * s + T) * r
  BY <1>1, <1>2, MulMono, SMT
<1>11. (T * s + T) * r = (s * r) * T + r * T
  BY <1>1, <1>2, SMT
<1>12. r * T <= B * T
  BY <1>1, MulMono
<1>13. (s - q + 1) * B * T = ((s - q) * B) * T + B * T
  BY <1>2, <1>4, SMT
<1>14. B * T \in Nat
  BY SMT
<1>15. (s - q + 1) * B * T >= x * r - B * T
  <2> DEFINE u == ((s - q) * B) * T   v == (s * r) * T   w == r * T   z == B * T   p == x * r
             t == (T * s + T) * r    g == (s - q + 1) * B * T
  <2>1. u \in Int /\ v \in Int /\ w \in Int /\ z \in Int /\ p \in Int /\ z >= 0
    BY <1>1, <1>2, <1>4, <1>14, SMT
  <2> HIDE DEF u, v, w, z, p, t, g
  <2>2. v <= u /\ p <= t /\ t = v + w /\ w <= z /\ g = u + z
    BY <1>9, <1>10, <1>11, <1>12, <1>13 DEF u, v, w, z, p, t, g
  <2>3. g >= p - z
    BY <2>1, <2>2
  <2> QED
    BY <2>3 DEF g, p, z
<1> QED
  BY <1>15 DEF s, q, x, r

(* The stakers get at least what their part of the weight leaves them at the  *)
(* capped fee, for every fee the voter sets and every distribution of their   *)
(* weight over the nodes.                                                   *)
THEOREM StakersKeepFloor == SplitSpec => []StakersFloor
<1>1. ASSUME SplitIInv PROVE StakersFloor
  <2> SUFFICES ASSUME stage = "done", ~accuracy
               PROVE  (SumOf(mirror) + 1) * TotalBips * (cappedWeight + EffectiveStakedWeight)
                        >= amount * EffectiveStakedWeight * (TotalBips - CappedStakingFeeBips)
                           - TotalBips * (cappedWeight + EffectiveStakedWeight)
    BY DEF StakersFloor
  <2> DEFINE E == EffectiveStakedWeight
             T == cappedWeight + EffectiveStakedWeight
             F == Min({delegationFeeBips, CappedStakingFeeBips})
  <2>1. E \in Nat /\ T \in Nat /\ T > 0 /\ amount \in Nat
    BY <1>1, NodeWeights DEF SplitIInv, SplitTypeOK
  <2>2. F \in Nat /\ F <= CappedStakingFeeBips /\ CappedStakingFeeBips \in Nat
        /\ CappedStakingFeeBips <= TotalBips /\ TotalBips \in Nat /\ TotalBips > 0
    BY <1>1, MinOfTwo, BipsAssumption DEF SplitIInv, SplitTypeOK
  <2>3. SumOf(mirror) = Pot
    <3>1. Nodes \in Nat /\ node = Nodes + 1
      BY <1>1, InputsAssumption DEF SplitIInv, NodesDraw
    <3>2. LeftAfter(nodeWeights, Pot)[Nodes] = 0
      BY <1>1, NodeWeights, PotOfStakers, PortionsSum DEF SplitIInv
    <3>3. remainingStakeAmount = 0
      BY <1>1, <3>1, <3>2 DEF SplitIInv, NodesDraw
    <3>4. SumOf(mirror) \in Int /\ SumOf(mirror) + remainingStakeAmount = Pot
      BY <1>1, MirrorSum
    <3> QED
      BY <3>3, <3>4
  <2>4. Pot = (amount * E) \div T - (((amount * E) \div T) * F) \div TotalBips
    BY DEF Pot, StakingFee, StakingAmount
  <2> HIDE DEF E, T, F
  <2>5. (Pot + 1) * TotalBips * T
          >= amount * E * (TotalBips - CappedStakingFeeBips) - TotalBips * T
    BY <2>1, <2>2, <2>4, FloorOfPot
  <2> QED
    BY <2>3, <2>5 DEF E, T
<1> QED
  BY <1>1, SplitSpecIInv, PTL
-----------------------------------------------------------------------------
(* The quartiles of the votes, and what the voters within them are paid. *)
MedianTypeOK ==
  /\ votingWeight \in [Voters -> Nat] /\ fip16Active \in BOOLEAN
  /\ feed.primary \in 0 .. TotalPpm /\ {feed.turnout, feed.width} \subseteq Nat
  /\ reveal \in [Voters -> Seq(0 .. 2 * SignBit - 1)]

LEMMA VotersFinite == IsFiniteSet(Voters) /\ \A v \in Voters : \E n \in DOMAIN PolicyOrder : PolicyOrder[n] = v
<1>1. Voters = {PolicyOrder[k] : k \in DOMAIN PolicyOrder}
  BY DEF Voters, ToSet
<1>2. IsFiniteSet(DOMAIN PolicyOrder)
  <2>1. Len(PolicyOrder) \in Nat /\ DOMAIN PolicyOrder = 1 .. Len(PolicyOrder)
    BY PolicyAssumption
  <2>2. 1 \in Int /\ Len(PolicyOrder) \in Int
    BY <2>1
  <2> QED
    BY <2>1, <2>2, FS_Interval
<1>3. \A k, l \in DOMAIN PolicyOrder : PolicyOrder[k] = PolicyOrder[l] => k = l
  BY PolicyAssumption DEF IsInjective
<1> DEFINE S == DOMAIN PolicyOrder
           h == PolicyOrder
           T == Voters
           f == [k \in S |-> 0]
           g == [v \in T |-> 0]
<1>4. /\ \A x \in S : f[x] \in Int
      /\ \A x, y \in S : h[x] = h[y] => x = y
      /\ T = {h[x] : x \in S}
      /\ \A x \in S : g[h[x]] = f[x]
  BY <1>1, <1>3
<1>5. IsFiniteSet(S)
  BY <1>2
<1> HIDE DEF S, h, T, f, g
<1>6. IsFiniteSet(T)
  BY <1>4, <1>5, SumImage
<1> QED
  BY <1>1, <1>6 DEF T

(* Who takes part has a value, and some weight if FIP.16 is active.          *)
LEMMA ParticipantsSpec ==
  ASSUME MedianTypeOK
  PROVE  /\ Participants \subseteq Voters /\ IsFiniteSet(Participants)
         /\ \A v \in Participants : Value(v) \in Int /\ votingWeight[v] \in Nat
         /\ fip16Active => \A v \in Participants : votingWeight[v] > 0
<1>1. Participants \subseteq Voters
  BY DEF Participants
<1>2. IsFiniteSet(Participants)
  BY <1>1, VotersFinite, FS_Subset
<1>3. ASSUME NEW v \in Participants
      PROVE  Value(v) \in Int /\ votingWeight[v] \in Nat
  <2>1. v \in Voters /\ reveal[v] \in Seq(0 .. 2 * SignBit - 1) /\ votingWeight[v] \in Nat
    BY <1>1 DEF MedianTypeOK
  <2>2. FeedIndex \in Nat /\ FeedIndex >= 1 /\ SignBit \in Nat /\ SignBit >= 1
    BY WidthAssumption
  <2>3. FeedIndex <= Len(reveal[v])
    <3>1. ~(Len(reveal[v]) < FeedIndex)
      BY DEF Participants, IsEmpty
    <3>2. Len(reveal[v]) \in Nat
      BY <2>1
    <3> QED
      BY <2>2, <3>1, <3>2
  <2>4. FeedIndex \in DOMAIN reveal[v]
    BY <2>1, <2>2, <2>3
  <2>5. reveal[v][FeedIndex] \in Int
    <3> DEFINE B == 0 .. 2 * SignBit - 1
           s == reveal[v]
    <3>1. s \in Seq(B) /\ B \subseteq Int /\ FeedIndex \in DOMAIN s
      BY <2>1, <2>4
    <3> HIDE DEF B, s
    <3>2. FeedIndex \in 1 .. Len(s)
      BY <2>2, <2>3 DEF s
    <3>3. s[FeedIndex] \in B
      BY <3>1, <3>2, ElementOfSeq
    <3>4. s[FeedIndex] \in Int
      BY <3>1, <3>3
    <3> QED
      BY <3>4 DEF s
  <2>6. Value(v) \in Int
    <3> DEFINE x == reveal[v][FeedIndex] - SignBit   d == 2 * SignBit
    <3>1. x + SignBit \in Int /\ d \in Nat /\ d > 0
      BY <2>2, <2>5
    <3> HIDE DEF x, d
    <3>2. (x + SignBit) % d \in Int
      BY <3>1
    <3> QED
      BY <2>2, <3>2 DEF Value, Wrap, x, d
  <2> QED
    BY <2>1, <2>6
<1>4. ASSUME fip16Active, NEW v \in Participants
      PROVE  votingWeight[v] > 0
  BY <1>4 DEF Participants
<1> QED
  BY <1>1, <1>2, <1>3, <1>4

FirstOf(o, n) == {o[k] : k \in 1 .. n}

(* What calculateFeedMedian relies on as it goes along the sorted votes: the *)
(* weight up to a vote is that of the voters up to it, whoever has a larger  *)
(* value comes after it, and whoever has a smaller one before it.            *)
Along(o) ==
  /\ o \in Seq(Participants)
  /\ \A n \in DOMAIN o : Value(o[n]) \in Int /\ votingWeight[o[n]] \in Nat
  /\ \A m, n \in DOMAIN o : m <= n => Value(o[m]) <= Value(o[n])
  /\ \A n \in 0 .. Len(o) : /\ WeightUpTo(o, n) \in Nat /\ WeightUpTo(o, n) = WeightOf(FirstOf(o, n))
                            /\ FirstOf(o, n) \in SUBSET Participants
  /\ WeightUpTo(o, 0) = 0 /\ WeightUpTo(o, Len(o)) = WeightOf(Participants)
  /\ \A n \in DOMAIN o : WeightUpTo(o, n) = WeightUpTo(o, n - 1) + votingWeight[o[n]]
  /\ \A n \in DOMAIN o : WeightFromTop(o, n) = WeightOf(Participants) - WeightUpTo(o, n - 1)
  /\ \A n \in DOMAIN o : \A H \in SUBSET Participants :
       /\ WeightOf(H) \in Nat
       /\ (\A v \in H : Value(o[n]) < Value(v)) => WeightOf(H) + WeightUpTo(o, n) <= WeightOf(Participants)
       /\ (\A v \in H : Value(v) < Value(o[n])) => WeightOf(H) <= WeightUpTo(o, n - 1)

LEMMA SortedAlong ==
  ASSUME MedianTypeOK, NEW o \in Sorted
  PROVE  Along(o)
<1> DEFINE P == Participants
           w == votingWeight
           N0 == Len(o)
<1>1. IsFiniteSet(P) /\ \A v \in P : Value(v) \in Int /\ w[v] \in Nat /\ w[v] \in Int
  BY ParticipantsSpec
<1>2. o \in SetToSeqs(P) /\ \A m, n \in DOMAIN o : m < n => Value(o[m]) <= Value(o[n])
  BY DEF Sorted
<1>3. o \in Seq(P) /\ IsInjective(o) /\ \A x \in P : \E n \in DOMAIN o : o[n] = x
  BY <1>1, <1>2, AllListed
<1>4. N0 \in Nat /\ DOMAIN o = 1 .. N0 /\ \A n \in 1 .. N0 : o[n] \in P
  BY <1>3
<1>5. \A m, n \in DOMAIN o : m <= n => Value(o[m]) <= Value(o[n])
  <2> TAKE m, n \in DOMAIN o
  <2> HAVE m <= n
  <2>1. Value(o[n]) \in Int /\ m \in Int /\ n \in Int
    BY <1>1, <1>4
  <2> QED
    BY <1>2, <2>1
<1>6. \A H \in SUBSET P : WeightOf(H) \in Nat
  BY <1>1, SumSubset DEF WeightOf
<1>7. ASSUME NEW m \in Nat, NEW n \in Nat, m <= n, n <= N0
      PROVE  /\ IsFiniteSet({o[k] : k \in m + 1 .. n})
             /\ SumOf([k \in 1 .. n - m |-> w[o[m + k]]]) = WeightOf({o[k] : k \in m + 1 .. n})
  <2>1. \A x \in P : w[x] \in Int
    BY <1>1
  <2> DEFINE T == {o[k] : k \in m + 1 .. n}
             f == [k \in 1 .. n - m |-> w[o[m + k]]]
  <2>2. TermsAlong(P, w, o, m, n, T, f)
    BY <1>3, <1>7, <2>1 DEF TermsAlong
  <2> HIDE DEF P, w, T, f
  <2>3. IsFiniteSet(T) /\ SumOf(f) = SumFunctionOnSet(w, T)
    BY <2>2, SumAlong
  <2> QED
    BY <2>3 DEF WeightOf, w, T, f
<1>8. ASSUME NEW n \in 0 .. N0
      PROVE  /\ FirstOf(o, n) \in SUBSET P
             /\ WeightUpTo(o, n) = WeightOf(FirstOf(o, n)) /\ WeightUpTo(o, n) \in Nat
  <2>1. n \in Nat /\ 0 \in Nat /\ 0 <= n /\ n <= N0 /\ n - 0 = n /\ 0 + 1 = 1 /\ \A k \in 1 .. n : 0 + k = k
    BY <1>4
  <2>2. SumOf([k \in 1 .. n - 0 |-> w[o[0 + k]]]) = WeightOf({o[k] : k \in 0 + 1 .. n})
    BY <1>7, <2>1
  <2>3. [k \in 1 .. n - 0 |-> w[o[0 + k]]] = [k \in 1 .. n |-> w[o[k]]]
    BY <2>1
  <2>4. WeightUpTo(o, n) = WeightOf(FirstOf(o, n))
    BY <2>1, <2>2, <2>3 DEF WeightUpTo, FirstOf
  <2>5. FirstOf(o, n) \in SUBSET P
    BY <1>4, <2>1 DEF FirstOf
  <2> QED
    BY <1>6, <2>4, <2>5
<1>9. FirstOf(o, N0) = P
  <2>1. \A x \in P : x \in FirstOf(o, N0)
    BY <1>3, <1>4 DEF FirstOf
  <2> QED
    BY <1>4, <1>8, <2>1
<1>10. WeightUpTo(o, 0) = 0 /\ WeightUpTo(o, N0) = WeightOf(P)
  <2>1. FirstOf(o, 0) = {}
    BY DEF FirstOf
  <2>2. WeightOf({}) = 0
    BY SumEmpty DEF WeightOf
  <2>3. 0 \in 0 .. N0 /\ N0 \in 0 .. N0
    BY <1>4
  <2> QED
    BY <1>8, <1>9, <2>1, <2>2, <2>3
<1>11. \A T \in SUBSET P : WeightOf(P) = WeightOf(T) + WeightOf(P \ T)
  BY <1>1, SumSplit DEF WeightOf
<1>12. ASSUME NEW n \in DOMAIN o
       PROVE  WeightUpTo(o, n) = WeightUpTo(o, n - 1) + w[o[n]]
  <2>1. n \in 1 .. N0 /\ n \in 0 .. N0 /\ n - 1 \in 0 .. N0
    BY <1>4
  <2>2. FirstOf(o, n) = FirstOf(o, n - 1) \cup {o[n]} /\ o[n] \notin FirstOf(o, n - 1)
    <3>1. \A k \in 1 .. n : k \in 1 .. n - 1 \/ k = n
      BY <2>1
    <3>2. \A k \in 1 .. n - 1 : k \in 1 .. n /\ k \in DOMAIN o /\ k # n
      BY <1>4, <2>1
    <3>3. n \in 1 .. n
      BY <2>1
    <3>4. \A k \in 1 .. n - 1 : o[k] # o[n]
      BY <1>3, <3>2 DEF IsInjective
    <3> QED
      BY <3>1, <3>2, <3>3, <3>4 DEF FirstOf
  <2>3. FirstOf(o, n) \in SUBSET P /\ o[n] \in FirstOf(o, n) /\ FirstOf(o, n) \ {o[n]} = FirstOf(o, n - 1)
    BY <1>8, <2>1, <2>2
  <2>4. IsFiniteSet(FirstOf(o, n)) /\ \A x \in FirstOf(o, n) : w[x] \in Int
    BY <1>1, <2>3, FS_Subset
  <2>5. SumFunctionOnSet(w, FirstOf(o, n)) = w[o[n]] + SumFunctionOnSet(w, FirstOf(o, n - 1))
    BY <2>3, <2>4, SumTakeOut
  <2>6. WeightUpTo(o, n) = w[o[n]] + WeightUpTo(o, n - 1)
    BY <1>8, <2>1, <2>5 DEF WeightOf
  <2>7. w[o[n]] \in Int /\ WeightUpTo(o, n - 1) \in Int
    BY <1>1, <1>4, <1>8, <2>1
  <2> QED
    BY <2>6, <2>7
<1>13. ASSUME NEW n \in DOMAIN o
       PROVE  WeightFromTop(o, n) = WeightOf(P) - WeightUpTo(o, n - 1)
  <2> DEFINE m == n - 1
  <2>1. n \in 1 .. N0 /\ m \in Nat /\ m <= N0 /\ m \in 0 .. N0 /\ N0 - m = N0 - n + 1 /\ m + 1 = n
        /\ \A k \in 1 .. N0 - m : m + k = n + k - 1
    BY <1>4
  <2>2. SumOf([k \in 1 .. N0 - m |-> w[o[m + k]]]) = WeightOf({o[k] : k \in m + 1 .. N0})
    <3>1. N0 \in Nat /\ m \in Nat /\ m <= N0 /\ N0 <= N0
      BY <1>4, <2>1
    <3> HIDE DEF m, N0, w
    <3> QED
      BY <1>7, <3>1
  <2>3. [k \in 1 .. N0 - m |-> w[o[m + k]]] = [k \in 1 .. N0 - n + 1 |-> w[o[n + k - 1]]]
    BY <2>1
  <2>4. WeightFromTop(o, n) = WeightOf({o[k] : k \in m + 1 .. N0})
    BY <2>2, <2>3 DEF WeightFromTop
  <2>5. {o[k] : k \in m + 1 .. N0} = P \ FirstOf(o, m)
    <3>1. \A k \in 1 .. N0 : k \in m + 1 .. N0 \/ k \in 1 .. m
      BY <1>4, <2>1
    <3>2. \A k \in m + 1 .. N0 : k \in DOMAIN o /\ o[k] \in P /\ \A l \in 1 .. m : l \in DOMAIN o /\ l # k
      BY <1>4, <2>1
    <3>3. \A k \in m + 1 .. N0 : \A l \in 1 .. m : o[l] # o[k]
      BY <1>3, <3>2 DEF IsInjective
    <3>4. \A k \in m + 1 .. N0 : o[k] \in P \ FirstOf(o, m)
      BY <3>2, <3>3 DEF FirstOf
    <3>5. ASSUME NEW x \in P, x \notin FirstOf(o, m)
          PROVE  \E k \in m + 1 .. N0 : o[k] = x
      <4>1. PICK k \in 1 .. N0 : o[k] = x
        BY <1>3, <1>4
      <4>2. k \notin 1 .. m
        BY <3>5, <4>1 DEF FirstOf
      <4> QED
        BY <3>1, <4>1, <4>2
    <3> HIDE DEF m, P, N0
    <3>6. \A x : x \in {o[k] : k \in m + 1 .. N0} => x \in P \ FirstOf(o, m)
      BY <3>4
    <3>7. \A x : x \in P \ FirstOf(o, m) => x \in {o[k] : k \in m + 1 .. N0}
      BY <3>5
    <3> QED
      BY <3>6, <3>7
  <2>6. FirstOf(o, m) \in SUBSET P /\ WeightUpTo(o, m) = WeightOf(FirstOf(o, m)) /\ WeightUpTo(o, m) \in Nat
    BY <1>8, <2>1
  <2>7. WeightOf(P) = WeightOf(FirstOf(o, m)) + WeightOf(P \ FirstOf(o, m))
    BY <1>11, <2>6
  <2>8. WeightOf(P \ FirstOf(o, m)) \in Nat /\ WeightOf(P) \in Nat
    BY <1>6
  <2> HIDE DEF m, N0, P, w
  <2>9. WeightFromTop(o, n) = WeightOf(P \ FirstOf(o, m))
    BY <2>4, <2>5
  <2>10. WeightOf(P \ FirstOf(o, m)) = WeightOf(P) - WeightUpTo(o, m)
    BY <2>6, <2>7, <2>8
  <2>11. WeightFromTop(o, n) = WeightOf(P) - WeightUpTo(o, m)
    BY <2>9, <2>10
  <2> QED
    BY <2>11 DEF m
<1>14. ASSUME NEW n \in DOMAIN o, NEW H \in SUBSET P
       PROVE  /\ (\A v \in H : Value(o[n]) < Value(v)) => WeightOf(H) + WeightUpTo(o, n) <= WeightOf(P)
              /\ (\A v \in H : Value(v) < Value(o[n])) => WeightOf(H) <= WeightUpTo(o, n - 1)
  <2>1. n \in 1 .. N0 /\ n \in 0 .. N0 /\ n - 1 \in 0 .. N0 /\ \A k \in 1 .. n : k \in DOMAIN o /\ k <= n
    BY <1>4
  <2>2. ASSUME \A v \in H : Value(o[n]) < Value(v)
        PROVE  WeightOf(H) + WeightUpTo(o, n) <= WeightOf(P)
    <3>1. \A k \in 1 .. n : Value(o[k]) <= Value(o[n]) /\ Value(o[k]) \in Int
      BY <1>1, <1>4, <1>5, <2>1
    <3>2. \A k \in 1 .. n : o[k] \notin H
      <4> TAKE k \in 1 .. n
      <4>1. Value(o[n]) \in Int /\ Value(o[k]) \in Int /\ Value(o[k]) <= Value(o[n])
        BY <1>1, <1>4, <3>1
      <4>2. ~(Value(o[n]) < Value(o[k]))
        BY <4>1
      <4> QED
        BY <2>2, <4>2
    <3>3. FirstOf(o, n) \in SUBSET P /\ WeightUpTo(o, n) = WeightOf(FirstOf(o, n)) /\ WeightUpTo(o, n) \in Nat
      BY <1>8, <2>1
    <3>4. H \in SUBSET (P \ FirstOf(o, n))
      BY <3>2 DEF FirstOf
    <3>5. WeightOf(H) \in Nat /\ WeightOf(H) <= WeightOf(P \ FirstOf(o, n))
      <4>1. IsFiniteSet(P \ FirstOf(o, n)) /\ \A x \in P \ FirstOf(o, n) : w[x] \in Nat
        BY <1>1, FS_Subset
      <4> QED
        BY <3>4, <4>1, SumSubset DEF WeightOf
    <3>6. WeightOf(P) = WeightOf(FirstOf(o, n)) + WeightOf(P \ FirstOf(o, n))
      BY <1>11, <3>3
    <3>7. WeightOf(P \ FirstOf(o, n)) \in Nat
      BY <1>6
    <3> QED
      BY <3>3, <3>5, <3>6, <3>7
  <2>3. ASSUME \A v \in H : Value(v) < Value(o[n])
        PROVE  WeightOf(H) <= WeightUpTo(o, n - 1)
    <3>1. ASSUME NEW v \in H
          PROVE  v \in FirstOf(o, n - 1)
      <4>1. PICK k \in 1 .. N0 : o[k] = v
        BY <1>3, <1>4
      <4>2. Value(o[n]) \in Int /\ Value(o[k]) \in Int /\ Value(o[k]) < Value(o[n])
        BY <1>1, <1>4, <2>1, <2>3, <4>1
      <4>3. ~(n <= k)
        <5>1. n <= k => Value(o[n]) <= Value(o[k])
          BY <1>4, <1>5, <4>1
        <5> QED
          BY <4>2, <5>1
      <4>4. k \in 1 .. n - 1
        BY <2>1, <4>1, <4>3
      <4> QED
        BY <4>1, <4>4 DEF FirstOf
    <3>2. FirstOf(o, n - 1) \in SUBSET P /\ WeightUpTo(o, n - 1) = WeightOf(FirstOf(o, n - 1))
      BY <1>8, <2>1
    <3>3. IsFiniteSet(FirstOf(o, n - 1)) /\ \A x \in FirstOf(o, n - 1) : w[x] \in Nat
      BY <1>1, <3>2, FS_Subset
    <3>4. H \in SUBSET FirstOf(o, n - 1)
      BY <3>1
    <3>5. WeightOf(H) <= WeightOf(FirstOf(o, n - 1))
      BY <3>3, <3>4, SumSubset DEF WeightOf
    <3> QED
      BY <3>2, <3>5
  <2> QED
    BY <2>2, <2>3
<1> HIDE DEF P, w, N0
<1>15. /\ o \in Seq(Participants)
       /\ \A n \in DOMAIN o : Value(o[n]) \in Int /\ votingWeight[o[n]] \in Nat
  BY <1>1, <1>3, <1>4 DEF P, w
<1>16. \A n \in 0 .. Len(o) : /\ WeightUpTo(o, n) \in Nat /\ WeightUpTo(o, n) = WeightOf(FirstOf(o, n))
                              /\ FirstOf(o, n) \in SUBSET Participants
  BY <1>8 DEF P, N0
<1>17. \A n \in DOMAIN o : WeightUpTo(o, n) = WeightUpTo(o, n - 1) + votingWeight[o[n]]
  BY <1>12 DEF w
<1>18. \A n \in DOMAIN o : WeightFromTop(o, n) = WeightOf(Participants) - WeightUpTo(o, n - 1)
  BY <1>13 DEF P
<1>19. WeightUpTo(o, 0) = 0 /\ WeightUpTo(o, Len(o)) = WeightOf(Participants)
  BY <1>10 DEF P, N0
<1>20. \A n \in DOMAIN o : \A H \in SUBSET Participants :
       /\ WeightOf(H) \in Nat
       /\ (\A v \in H : Value(o[n]) < Value(v)) => WeightOf(H) + WeightUpTo(o, n) <= WeightOf(Participants)
       /\ (\A v \in H : Value(v) < Value(o[n])) => WeightOf(H) <= WeightUpTo(o, n - 1)
  BY <1>6, <1>14 DEF P
<1> QED
  BY <1>5, <1>15, <1>16, <1>17, <1>18, <1>19, <1>20 DEF Along

(* Where the scans of calculateFeedMedian stop: a at the first quartile, m at *)
(* the median, c at the third quartile.                                      *)
StopsAt(o, a, m, c) ==
  LET W == WeightOf(Participants)
  IN  /\ a \in DOMAIN o /\ m \in DOMAIN o /\ c \in DOMAIN o
      /\ W \div 4 < WeightUpTo(o, a) /\ WeightUpTo(o, a - 1) <= W \div 4
      /\ W <= 2 * WeightUpTo(o, m) /\ 2 * WeightUpTo(o, m - 1) < W
      /\ W \div 4 < W - WeightUpTo(o, c - 1) /\ W - WeightUpTo(o, c) <= W \div 4
      /\ 2 * WeightUpTo(o, m) = W => m + 1 \in DOMAIN o
      /\ Quartiles(o).Q1 = Value(o[a]) /\ Quartiles(o).Q3 = Value(o[c])
      /\ Quartiles(o).Median = IF 2 * WeightUpTo(o, m) = W THEN (Value(o[m]) + Value(o[m + 1])) \div 2 ELSE Value(o[m])

LEMMA ScansStop ==
  ASSUME MedianTypeOK, WeightOf(Participants) # 0, NEW o \in Sorted
  PROVE  \E a, m, c \in DOMAIN o : StopsAt(o, a, m, c)
<1> DEFINE W == WeightOf(Participants)
           U(n) == WeightUpTo(o, n)
           N0 == Len(o)
           Q == W \div 4
           SA == {n \in DOMAIN o : U(n) > Quarter(o)}
           SM == {n \in DOMAIN o : U(n) >= Half(o)}
           SC == {n \in DOMAIN o : WeightFromTop(o, n) > Quarter(o)}
<1>1. Along(o)
  BY SortedAlong
<1>2. N0 \in Nat /\ DOMAIN o = 1 .. N0
  BY <1>1 DEF Along
<1>3. \A n \in 0 .. N0 : U(n) \in Nat
  BY <1>1 DEF Along
<1>4. U(0) = 0 /\ U(N0) = W /\ \A n \in DOMAIN o : WeightFromTop(o, n) = W - U(n - 1)
  BY <1>1 DEF Along
<1>5. W \in Nat /\ W > 0 /\ N0 \in 0 .. N0
  BY <1>2, <1>3, <1>4
<1>6. Q \in Nat /\ Q < W /\ Quarter(o) = Q
  BY <1>4, <1>5 DEF Quarter
<1>7. Half(o) \in Nat /\ \A x \in Nat : (x >= Half(o) <=> 2 * x >= W)
  BY <1>4, <1>5 DEF Half
<1>8. N0 >= 1 /\ 1 \in DOMAIN o /\ N0 \in DOMAIN o
  BY <1>2, <1>4, <1>5
<1>9. \A n \in DOMAIN o : n \in Nat /\ n \in 0 .. N0 /\ n - 1 \in 0 .. N0 /\ (n - 1 = 0 \/ n - 1 \in DOMAIN o) /\ (n = N0 \/ n + 1 \in DOMAIN o)
                          /\ (n + 1) - 1 = n
  BY <1>2
<1>10. SA \in SUBSET Nat /\ N0 \in SA
  BY <1>4, <1>6, <1>8, <1>9
<1>11. SM \in SUBSET Nat /\ N0 \in SM
  <2>1. U(N0) >= Half(o)
    BY <1>4, <1>5, <1>7
  <2> QED
    BY <1>8, <1>9, <2>1
<1>12. SC \in SUBSET (1 .. N0) /\ 1 \in SC
  <2>1. 1 - 1 = 0 /\ W - 0 = W
    BY <1>5
  <2> QED
    BY <1>2, <1>4, <1>6, <1>8, <2>1
<1> DEFINE a == Min(SA)
           m == Min(SM)
           c == Max(SC)
<1>13. a \in SA /\ \A y \in SA : a <= y
  <2> HIDE DEF SA
  <2> QED
    BY <1>10, MinOfNat
<1>14. m \in SM /\ \A y \in SM : m <= y
  <2> HIDE DEF SM
  <2> QED
    BY <1>11, MinOfNat
<1>15. c \in SC /\ \A y \in SC : y <= c
  <2> HIDE DEF SC, N0
  <2> QED
    BY <1>2, <1>12, MaxOfPositions
<1>16. a \in DOMAIN o /\ m \in DOMAIN o /\ c \in DOMAIN o
  BY <1>13, <1>14, <1>15
<1>17. Quartiles(o).Q1 = Value(o[a]) /\ Quartiles(o).Q3 = Value(o[c]) /\ MedianAt(o) = m
  BY DEF Quartiles, MedianAt
<1>18. Quartiles(o).Median = IF 2 * U(m) = W THEN (Value(o[m]) + Value(o[m + 1])) \div 2 ELSE Value(o[m])
  <2>1. IsMean(o) <=> 2 * U(m) = W
    BY <1>4, <1>17 DEF IsMean
  <2>2. Quartiles(o).Median = IF IsMean(o) THEN (Value(o[m]) + Value(o[m + 1])) \div 2 ELSE Value(o[m])
    BY <1>17 DEF Quartiles
  <2> QED
    BY <2>1, <2>2
<1> HIDE DEF W, U, N0, Q, a, m, c
<1>19. Q < U(a) /\ U(a - 1) <= Q
  <2>1. U(a) > Q
    BY <1>6, <1>13
  <2>2. U(a) \in Nat /\ U(a - 1) \in Nat /\ a \in Nat
    BY <1>3, <1>9, <1>16
  <2>3. CASE a - 1 = 0
    BY <1>4, <1>6, <2>1, <2>2, <2>3
  <2>4. CASE a - 1 \in DOMAIN o
    <3>1. ~(a <= a - 1)
      BY <2>2
    <3>2. a - 1 \notin SA
      BY <1>13, <3>1
    <3>3. ~(U(a - 1) > Q)
      BY <1>6, <2>4, <3>2
    <3> QED
      BY <1>6, <2>1, <2>2, <3>3
  <2> QED
    BY <1>9, <1>16, <2>3, <2>4
<1>20. W <= 2 * U(m) /\ 2 * U(m - 1) < W
  <2>1. U(m) \in Nat /\ U(m - 1) \in Nat /\ m \in Nat
    BY <1>3, <1>9, <1>16
  <2>2. 2 * U(m) >= W
    BY <1>7, <1>14, <2>1
  <2>3. CASE m - 1 = 0
    BY <1>4, <1>5, <2>1, <2>2, <2>3
  <2>4. CASE m - 1 \in DOMAIN o
    <3>1. ~(m <= m - 1)
      BY <2>1
    <3>2. m - 1 \notin SM
      BY <1>14, <3>1
    <3>3. ~(2 * U(m - 1) >= W)
      BY <1>7, <2>1, <2>4, <3>2
    <3> QED
      BY <1>5, <2>1, <2>2, <3>3
  <2> QED
    BY <1>9, <1>16, <2>3, <2>4
<1>21. Q < W - U(c - 1) /\ W - U(c) <= Q
  <2>1. U(c) \in Nat /\ U(c - 1) \in Nat /\ c \in Nat
    BY <1>3, <1>9, <1>16
  <2>2. W - U(c - 1) > Q
    BY <1>4, <1>6, <1>15
  <2>3. CASE c = N0
    <3>1. U(c) = W
      BY <1>4, <2>3
    <3> QED
      BY <1>5, <1>6, <2>1, <2>2, <3>1
  <2>4. CASE c + 1 \in DOMAIN o
    <3>1. ~(c + 1 <= c)
      BY <2>1
    <3>2. c + 1 \notin SC
      BY <1>15, <3>1
    <3>3. ~(W - U((c + 1) - 1) > Q)
      BY <1>4, <1>6, <2>4, <3>2
    <3>4. (c + 1) - 1 = c
      BY <2>1
    <3>5. ~(W - U(c) > Q)
      BY <3>3, <3>4
    <3> QED
      BY <1>5, <1>6, <2>1, <2>2, <3>5
  <2> QED
    BY <1>9, <1>16, <2>3, <2>4
<1>22. 2 * U(m) = W => m + 1 \in DOMAIN o
  <2>1. m = N0 => U(m) = W
    BY <1>4
  <2>2. 2 * U(m) = W => U(m) # W
    BY <1>5
  <2> QED
    BY <1>9, <1>16, <2>1, <2>2
<1>23. StopsAt(o, a, m, c)
  BY <1>16, <1>17, <1>18, <1>19, <1>20, <1>21, <1>22 DEF StopsAt, W, U, Q
<1> QED
  BY <1>16, <1>23

(* Whoever has more weight than the votes that one scan leaves behind it, and *)
(* than those another one has before it, has values on both sides.           *)
LEMMA Outweighed ==
  ASSUME MedianTypeOK, NEW o \in Sorted, NEW H \in SUBSET Participants, NEW n \in DOMAIN o
  PROVE  /\ WeightOf(H) + WeightUpTo(o, n) > WeightOf(Participants) => \E u \in H : Value(u) <= Value(o[n])
         /\ WeightOf(H) > WeightUpTo(o, n - 1) => \E v \in H : Value(o[n]) <= Value(v)
<1>1. Along(o)
  BY SortedAlong
<1>2. \A v \in H : Value(v) \in Int
  BY ParticipantsSpec
<1>3. Value(o[n]) \in Int
  BY <1>1 DEF Along
<1>4. /\ WeightOf(H) \in Nat
      /\ (\A v \in H : Value(o[n]) < Value(v)) => WeightOf(H) + WeightUpTo(o, n) <= WeightOf(Participants)
      /\ (\A v \in H : Value(v) < Value(o[n])) => WeightOf(H) <= WeightUpTo(o, n - 1)
  BY <1>1 DEF Along
<1>5. WeightUpTo(o, n) \in Nat /\ WeightUpTo(o, n - 1) \in Nat /\ WeightOf(Participants) \in Nat
  <2>1. Len(o) \in Nat /\ DOMAIN o = 1 .. Len(o)
    BY <1>1 DEF Along
  <2>2. n \in 0 .. Len(o) /\ n - 1 \in 0 .. Len(o) /\ Len(o) \in 0 .. Len(o)
    BY <2>1
  <2> QED
    BY <1>1, <2>2 DEF Along
<1>6. ASSUME WeightOf(H) + WeightUpTo(o, n) > WeightOf(Participants), \A u \in H : ~(Value(u) <= Value(o[n]))
      PROVE  FALSE
  <2>1. \A v \in H : Value(o[n]) < Value(v)
    BY <1>2, <1>3, <1>6
  <2> QED
    BY <1>4, <1>5, <1>6, <2>1
<1>7. ASSUME WeightOf(H) > WeightUpTo(o, n - 1), \A v \in H : ~(Value(o[n]) <= Value(v))
      PROVE  FALSE
  <2>1. \A v \in H : Value(v) < Value(o[n])
    BY <1>2, <1>3, <1>7
  <2> QED
    BY <1>4, <1>5, <1>7, <2>1
<1> QED
  BY <1>6, <1>7

LEMMA Robust ==
  ASSUME MedianTypeOK, WeightOf(Participants) # 0, NEW o \in Sorted, NEW H \in SUBSET Participants
  PROVE  /\ 2 * WeightOf(H) > WeightOf(Participants) => Within(Quartiles(o).Median, H)
         /\ 4 * WeightOf(H) > 3 * WeightOf(Participants) => Within(Quartiles(o).Q1, H) /\ Within(Quartiles(o).Q3, H)
<1> DEFINE W == WeightOf(Participants)
           X == WeightOf(H)
           U(n) == WeightUpTo(o, n)
           V(n) == Value(o[n])
           From(n) == X + U(n) > W
           To(n) == X > U(n - 1)
<1>1. Along(o)
  BY SortedAlong
<1>2. PICK a, m, c \in DOMAIN o : StopsAt(o, a, m, c)
  BY ScansStop
<1>3. \A n \in DOMAIN o : V(n) \in Int /\ U(n) \in Nat /\ U(n - 1) \in Nat
  <2>1. Len(o) \in Nat /\ DOMAIN o = 1 .. Len(o)
    BY <1>1 DEF Along
  <2>2. \A n \in DOMAIN o : n \in 0 .. Len(o) /\ n - 1 \in 0 .. Len(o)
    BY <2>1
  <2> QED
    BY <1>1, <2>2 DEF Along
<1>4. W \in Nat /\ X \in Nat /\ \A v \in H : Value(v) \in Int
  <2>1. X \in Nat /\ W \in Nat
    <3>1. Participants \in SUBSET Participants
      OBVIOUS
    <3> QED
      BY <1>1, <1>2, <3>1 DEF Along
  <2> QED
    BY <2>1, ParticipantsSpec
<1>5. \A n \in DOMAIN o : (From(n) => \E u \in H : Value(u) <= V(n)) /\ (To(n) => \E v \in H : V(n) <= Value(v))
  BY Outweighed
<1>6. /\ W \div 4 < U(a) /\ U(a - 1) <= W \div 4
      /\ W <= 2 * U(m) /\ 2 * U(m - 1) < W
      /\ W \div 4 < W - U(c - 1) /\ W - U(c) <= W \div 4
      /\ 2 * U(m) = W => m + 1 \in DOMAIN o
      /\ Quartiles(o).Q1 = V(a) /\ Quartiles(o).Q3 = V(c)
      /\ Quartiles(o).Median = IF 2 * U(m) = W THEN (V(m) + V(m + 1)) \div 2 ELSE V(m)
  BY <1>2 DEF StopsAt
<1>7. \A j, n \in DOMAIN o : j <= n => V(j) <= V(n)
  BY <1>1 DEF Along
<1>8. m \in Int /\ (m + 1) - 1 = m /\ m <= m + 1
  <2>1. DOMAIN o = 1 .. Len(o)
    BY <1>1 DEF Along
  <2> QED
    BY <2>1
<1> HIDE DEF W, X, U, V
<1>9. ASSUME 2 * X > W
      PROVE  Within(Quartiles(o).Median, H)
  <2>1. From(m)
    BY <1>3, <1>4, <1>6, <1>9
  <2>2. PICK u \in H : Value(u) <= V(m)
    BY <1>5, <2>1
  <2>3. CASE 2 * U(m) = W
    <3>1. m + 1 \in DOMAIN o /\ V(m) \in Int /\ V(m + 1) \in Int /\ V(m) <= V(m + 1)
      BY <1>3, <1>6, <1>7, <1>8, <2>3
    <3>2. To(m + 1)
      BY <1>3, <1>4, <1>8, <1>9, <2>3
    <3>3. PICK v \in H : V(m + 1) <= Value(v)
      BY <1>5, <3>1, <3>2
    <3>4. Quartiles(o).Median = (V(m) + V(m + 1)) \div 2
      BY <1>6, <2>3
    <3>5. (V(m) + V(m + 1)) \div 2 \in Int /\ V(m) <= (V(m) + V(m + 1)) \div 2 /\ (V(m) + V(m + 1)) \div 2 <= V(m + 1)
      BY <3>1
    <3>6. Value(u) \in Int /\ Value(v) \in Int
      BY <1>4
    <3>7. Value(u) <= Quartiles(o).Median /\ Quartiles(o).Median <= Value(v)
      BY <2>2, <3>1, <3>3, <3>4, <3>5, <3>6
    <3> QED
      BY <3>7 DEF Within
  <2>4. CASE 2 * U(m) # W
    <3>1. To(m)
      BY <1>3, <1>4, <1>6, <1>9
    <3>2. PICK v \in H : V(m) <= Value(v)
      BY <1>5, <3>1
    <3>3. Quartiles(o).Median = V(m)
      BY <1>6, <2>4
    <3> QED
      BY <2>2, <3>2, <3>3 DEF Within
  <2> QED
    BY <2>3, <2>4
<1>10. ASSUME 4 * X > 3 * W
       PROVE  Within(Quartiles(o).Q1, H) /\ Within(Quartiles(o).Q3, H)
  <2>1. From(a) /\ To(a)
    BY <1>3, <1>4, <1>6, <1>10
  <2>2. From(c) /\ To(c)
    BY <1>3, <1>4, <1>6, <1>10
  <2>3. Within(V(a), H) /\ Within(V(c), H)
    BY <1>5, <2>1, <2>2 DEF Within
  <2> QED
    BY <1>6, <2>3
<1> QED
  BY <1>9, <1>10 DEF W, X

(* Two orders of the same votes: more weight up to a vote of the one than    *)
(* before a vote of the other.                                              *)
LEMMA Crossing ==
  ASSUME MedianTypeOK, NEW o \in Sorted, NEW p \in Sorted, NEW n \in DOMAIN o, NEW k \in DOMAIN p,
         WeightUpTo(o, n) > WeightUpTo(p, k - 1)
  PROVE  Value(p[k]) <= Value(o[n])
<1>1. Along(o) /\ Along(p)
  BY SortedAlong
<1>2. Len(o) \in Nat /\ DOMAIN o = 1 .. Len(o) /\ Len(p) \in Nat /\ DOMAIN p = 1 .. Len(p)
  BY <1>1 DEF Along
<1>3. n \in 0 .. Len(o) /\ k - 1 \in 0 .. Len(p)
  BY <1>2
<1>4. /\ WeightUpTo(o, n) = WeightOf(FirstOf(o, n)) /\ WeightUpTo(o, n) \in Nat /\ WeightUpTo(p, k - 1) \in Nat
      /\ FirstOf(o, n) \in SUBSET Participants
      /\ Value(o[n]) \in Int /\ Value(p[k]) \in Int
  BY <1>1, <1>3 DEF Along
<1>5. \A v \in FirstOf(o, n) : Value(v) \in Int /\ Value(v) <= Value(o[n])
  <2>1. \A j \in 1 .. n : j \in DOMAIN o /\ j <= n
    BY <1>2
  <2>2. \A j \in 1 .. n : Value(o[j]) \in Int /\ Value(o[j]) <= Value(o[n])
    BY <1>1, <2>1 DEF Along
  <2> QED
    BY <2>2 DEF FirstOf
<1>6. (\A v \in FirstOf(o, n) : Value(v) < Value(p[k])) => WeightOf(FirstOf(o, n)) <= WeightUpTo(p, k - 1)
  BY <1>1, <1>4 DEF Along
<1>7. ASSUME ~(Value(p[k]) <= Value(o[n]))
      PROVE  FALSE
  <2>1. \A v \in FirstOf(o, n) : Value(v) < Value(p[k])
    BY <1>4, <1>5, <1>7
  <2> QED
    BY <1>4, <1>6, <2>1
<1> QED
  BY <1>7

(* The quartiles of votes with weight do not depend on their order.          *)
LEMMA QuartilesSettled ==
  ASSUME MedianTypeOK, WeightOf(Participants) # 0, fip16Active, NEW o \in Sorted, NEW p \in Sorted
  PROVE  Quartiles(o) = Quartiles(p)
<1> DEFINE W == WeightOf(Participants)
           U(n) == WeightUpTo(o, n)
           V(n) == Value(o[n])
           UP(n) == WeightUpTo(p, n)
           VP(n) == Value(p[n])
<1>1. Along(o) /\ Along(p)
  BY SortedAlong
<1>2. PICK a, m, c \in DOMAIN o : StopsAt(o, a, m, c)
  BY ScansStop
<1>3. PICK b, k, d \in DOMAIN p : StopsAt(p, b, k, d)
  BY ScansStop
<1>4. /\ \A n \in DOMAIN o : V(n) \in Int /\ U(n) \in Nat /\ U(n - 1) \in Nat /\ n \in Int
      /\ \A n \in DOMAIN p : VP(n) \in Int /\ UP(n) \in Nat /\ UP(n - 1) \in Nat /\ n \in Int
  <2> SUFFICES ASSUME NEW q \in Sorted, Along(q)
               PROVE  \A n \in DOMAIN q : /\ Value(q[n]) \in Int /\ n \in Int
                                          /\ WeightUpTo(q, n) \in Nat /\ WeightUpTo(q, n - 1) \in Nat
    BY <1>1
  <2>1. Len(q) \in Nat /\ DOMAIN q = 1 .. Len(q)
    BY DEF Along
  <2>2. \A n \in DOMAIN q : n \in Int /\ n \in 0 .. Len(q) /\ n - 1 \in 0 .. Len(q)
    BY <2>1
  <2> QED
    BY <2>2 DEF Along
<1>5. /\ \A n \in DOMAIN o : U(n) > U(n - 1)
      /\ \A n \in DOMAIN p : UP(n) > UP(n - 1)
  <2>1. \A v \in Participants : votingWeight[v] \in Nat /\ votingWeight[v] > 0
    BY ParticipantsSpec
  <2>2. \A n \in DOMAIN o : o[n] \in Participants /\ U(n) = U(n - 1) + votingWeight[o[n]]
    BY <1>1 DEF Along
  <2>3. \A n \in DOMAIN p : p[n] \in Participants /\ UP(n) = UP(n - 1) + votingWeight[p[n]]
    BY <1>1 DEF Along
  <2> QED
    BY <1>4, <2>1, <2>2, <2>3
<1>6. /\ \A n \in DOMAIN o, j \in DOMAIN p : U(n) > UP(j - 1) => VP(j) <= V(n)
      /\ \A n \in DOMAIN o, j \in DOMAIN p : UP(j) > U(n - 1) => V(n) <= VP(j)
  BY Crossing
<1>7. /\ W \div 4 < U(a) /\ U(a - 1) <= W \div 4
      /\ W <= 2 * U(m) /\ 2 * U(m - 1) < W
      /\ W \div 4 < W - U(c - 1) /\ W - U(c) <= W \div 4
      /\ 2 * U(m) = W => m + 1 \in DOMAIN o
      /\ Quartiles(o).Q1 = V(a) /\ Quartiles(o).Q3 = V(c)
      /\ Quartiles(o).Median = IF 2 * U(m) = W THEN (V(m) + V(m + 1)) \div 2 ELSE V(m)
  BY <1>2 DEF StopsAt
<1>8. /\ W \div 4 < UP(b) /\ UP(b - 1) <= W \div 4
      /\ W <= 2 * UP(k) /\ 2 * UP(k - 1) < W
      /\ W \div 4 < W - UP(d - 1) /\ W - UP(d) <= W \div 4
      /\ 2 * UP(k) = W => k + 1 \in DOMAIN p
      /\ Quartiles(p).Q1 = VP(b) /\ Quartiles(p).Q3 = VP(d)
      /\ Quartiles(p).Median = IF 2 * UP(k) = W THEN (VP(k) + VP(k + 1)) \div 2 ELSE VP(k)
  BY <1>3 DEF StopsAt
<1>9. W \in Nat
  <2>1. Participants \in SUBSET Participants
    OBVIOUS
  <2> QED
    BY <1>1, <1>2, <2>1 DEF Along
<1>10. DOMAIN Quartiles(o) = {"Q1", "Median", "Q3"} /\ Quartiles(o) = [Q1 |-> Quartiles(o).Q1, Median |-> Quartiles(o).Median, Q3 |-> Quartiles(o).Q3]
       /\ Quartiles(p) = [Q1 |-> Quartiles(p).Q1, Median |-> Quartiles(p).Median, Q3 |-> Quartiles(p).Q3]
  BY DEF Quartiles
<1> HIDE DEF W, U, V, UP, VP
<1>11. W \div 4 \in Int
  BY <1>9
<1>12. V(a) = VP(b)
  <2>1. U(a) > UP(b - 1) /\ UP(b) > U(a - 1)
    BY <1>4, <1>7, <1>8, <1>11
  <2> QED
    BY <1>4, <1>6, <2>1
<1>13. V(m) = VP(k)
  <2>1. U(m) > UP(k - 1) /\ UP(k) > U(m - 1)
    BY <1>4, <1>7, <1>8, <1>9
  <2> QED
    BY <1>4, <1>6, <2>1
<1>14. V(c) = VP(d)
  <2>1. U(c) > UP(d - 1) /\ UP(d) > U(c - 1)
    BY <1>4, <1>7, <1>8, <1>9, <1>11
  <2> QED
    BY <1>4, <1>6, <2>1
<1>15. V(m) <= V(m + 1) \/ 2 * U(m) # W
  <2>1. \A j, n \in DOMAIN o : j <= n => V(j) <= V(n)
    BY <1>1 DEF Along, V
  <2> QED
    BY <1>4, <1>7, <2>1
<1>16. VP(k) <= VP(k + 1) \/ 2 * UP(k) # W
  <2>1. \A j, n \in DOMAIN p : j <= n => VP(j) <= VP(n)
    BY <1>1 DEF Along, VP
  <2> QED
    BY <1>4, <1>8, <2>1
<1>17. (m + 1) - 1 = m /\ (k + 1) - 1 = k
  BY <1>4
<1>18. CASE 2 * U(m) = W /\ V(m) < V(m + 1)
  <2>1. m + 1 \in DOMAIN o /\ V(m + 1) \in Int
    BY <1>4, <1>7, <1>18
  <2>2. ~(UP(k) > U(m))
    <3>1. UP(k) > U((m + 1) - 1) => V(m + 1) <= VP(k)
      BY <1>6, <2>1
    <3> QED
      BY <1>4, <1>13, <1>17, <1>18, <2>1, <3>1
  <2>3. 2 * UP(k) = W /\ UP(k) = U(m)
    BY <1>4, <1>8, <1>9, <1>18, <2>2
  <2>4. k + 1 \in DOMAIN p
    BY <1>8, <2>3
  <2>5. U(m + 1) > UP((k + 1) - 1) /\ UP(k + 1) > U((m + 1) - 1)
    BY <1>5, <1>17, <2>1, <2>3, <2>4
  <2>6. V(m + 1) = VP(k + 1)
    BY <1>4, <1>6, <2>1, <2>4, <2>5
  <2>7. Quartiles(o).Median = Quartiles(p).Median
    BY <1>7, <1>8, <1>13, <1>18, <2>3, <2>6
  <2> QED
    BY <1>7, <1>8, <1>10, <1>12, <1>14, <2>7
<1>19. CASE 2 * UP(k) = W /\ VP(k) < VP(k + 1)
  <2>1. k + 1 \in DOMAIN p /\ VP(k + 1) \in Int
    BY <1>4, <1>8, <1>19
  <2>2. ~(U(m) > UP(k))
    <3>1. U(m) > UP((k + 1) - 1) => VP(k + 1) <= V(m)
      BY <1>6, <2>1
    <3> QED
      BY <1>4, <1>13, <1>17, <1>19, <2>1, <3>1
  <2>3. 2 * U(m) = W /\ UP(k) = U(m)
    <3>1. U(m) \in Nat /\ UP(k) \in Nat
      BY <1>4
    <3>2. W <= 2 * U(m) /\ 2 * UP(k) = W
      BY <1>7, <1>19
    <3> QED
      BY <1>9, <2>2, <3>1, <3>2
  <2>4. m + 1 \in DOMAIN o
    BY <1>7, <2>3
  <2>5. U(m + 1) > UP((k + 1) - 1) /\ UP(k + 1) > U((m + 1) - 1)
    BY <1>5, <1>17, <2>1, <2>3, <2>4
  <2>6. V(m + 1) = VP(k + 1)
    BY <1>4, <1>6, <2>1, <2>4, <2>5
  <2>7. Quartiles(o).Median = Quartiles(p).Median
    BY <1>7, <1>8, <1>13, <1>19, <2>3, <2>6
  <2> QED
    BY <1>7, <1>8, <1>10, <1>12, <1>14, <2>7
<1>20. CASE ~(2 * U(m) = W /\ V(m) < V(m + 1)) /\ ~(2 * UP(k) = W /\ VP(k) < VP(k + 1))
  <2>1. Quartiles(o).Median = V(m)
    <3>1. CASE 2 * U(m) = W
      <4>1. V(m + 1) \in Int /\ V(m) \in Int
        BY <1>4, <1>7, <3>1
      <4>2. V(m + 1) = V(m)
        BY <1>15, <1>20, <3>1, <4>1
      <4>3. (V(m) + V(m)) \div 2 = V(m)
        BY <4>1
      <4> QED
        BY <1>7, <3>1, <4>2, <4>3
    <3>2. CASE 2 * U(m) # W
      BY <1>7, <3>2
    <3> QED
      BY <3>1, <3>2
  <2>2. Quartiles(p).Median = VP(k)
    <3>1. CASE 2 * UP(k) = W
      <4>1. VP(k + 1) \in Int /\ VP(k) \in Int
        BY <1>4, <1>8, <3>1
      <4>2. VP(k + 1) = VP(k)
        BY <1>16, <1>20, <3>1, <4>1
      <4>3. (VP(k) + VP(k)) \div 2 = VP(k)
        BY <4>1
      <4> QED
        BY <1>8, <3>1, <4>2, <4>3
    <3>2. CASE 2 * UP(k) # W
      BY <1>8, <3>2
    <3> QED
      BY <3>1, <3>2
  <2> QED
    BY <1>7, <1>8, <1>10, <1>12, <1>13, <1>14, <2>1, <2>2
<1> QED
  BY <1>18, <1>19, <1>20

(* Once calculated, the votes are a sorted order of those who take part, and *)
(* the quartiles are theirs; only votes without any weight have none.        *)
VotesCounted ==
  /\ step \in {"claims", "done"} =>
       votes \in Sorted /\ (votes # <<>> => WeightOf(Participants) # 0 /\ quartiles = Quartiles(votes))
  /\ step = "fatal" => votes \in Sorted /\ votes # <<>> /\ WeightOf(Participants) = 0

(* What each voter is paid, from what the loop draws at its position.        *)
PaidFor(weights) ==
  [v \in Voters |-> SumOf([n \in DOMAIN PortionsOf(weights, Reward) |->
                             IF PolicyOrder[n] = v THEN PortionsOf(weights, Reward)[n] ELSE 0])]

(* Nobody is paid before the claims, nor if the reward is burned.            *)
PaidAsDrawn ==
  /\ step # "done" => paid = Nobody
  /\ step = "done" =>
       \/ (votes = <<>> \/ ~EnoughParticipation \/ SumOf(NormWeights(selected)) = 0) /\ paid = Nobody
       \/ votes # <<>> /\ SumOf(NormWeights(selected)) > 0 /\ paid = PaidFor(NormWeights(selected))

MedianIInv == MedianTypeOK /\ step \in {"median", "claims", "done", "fatal"} /\ VotesCounted /\ PaidAsDrawn

(* Who takes part, and how the votes are weighed, depends on the inputs only. *)
LEMMA MedianInputsFixed ==
  ASSUME UNCHANGED medianInputs
  PROVE  /\ Participants' = Participants /\ WeightOf(Participants)' = WeightOf(Participants)
         /\ WeightOf(Voters)' = WeightOf(Voters) /\ Sorted' = Sorted
<1>1. Participants' = Participants
  BY DEF medianInputs, Participants, IsEmpty
<1>2. \A v : Value(v)' = Value(v)
  BY DEF medianInputs, Value
<1>3. Sorted' = Sorted
  BY <1>1, <1>2 DEF Sorted
<1> QED
  BY <1>1, <1>3 DEF medianInputs, WeightOf, Voters

LEMMA QuartilesFixed ==
  ASSUME UNCHANGED medianInputs
  PROVE  Quartiles(votes)' = Quartiles(votes')
<1>1. votingWeight' = votingWeight /\ reveal' = reveal
  BY DEF medianInputs
<1> QED
  BY <1>1 DEF Quartiles, MedianAt, IsMean, Half, Quarter, WeightUpTo, WeightFromTop, Value

LEMMA BandsFixed ==
  ASSUME UNCHANGED <<medianInputs, votes, quartiles>>
  PROVE  NormWeights(selected)' = NormWeights(selected') /\ EnoughParticipation' = EnoughParticipation
<1>1. votingWeight' = votingWeight /\ reveal' = reveal /\ feed' = feed /\ votes' = votes /\ quartiles' = quartiles
  BY DEF medianInputs
<1>2. EnoughParticipation' = EnoughParticipation
  BY <1>1, MedianInputsFixed DEF EnoughParticipation
<1>3. Pct' = Pct /\ AtQuartile' = AtQuartile /\ Inner' = Inner
  BY <1>1 DEF Pct, AtQuartile, Inner, Value, lowPct, highPct, secondaryBandDiff
<1>4. Iqr(selected)' = Iqr(selected')
  BY <1>1, <1>3 DEF Iqr
<1>5. WeightOf(Pct)' = WeightOf(Pct) /\ WeightOf(Iqr(selected))' = WeightOf(Iqr(selected'))
  BY <1>1, <1>3, <1>4 DEF WeightOf
<1>6. NormWeights(selected)' = NormWeights(selected')
  BY <1>1, <1>3, <1>4, <1>5 DEF NormWeights, NormWeight
<1> QED
  BY <1>2, <1>6

LEMMA MedianInitIInv == MedianInit => MedianIInv
<1> SUFFICES ASSUME MedianInit PROVE MedianIInv
  OBVIOUS
<1>1. votingWeight \in [Voters -> Nat] /\ reveal \in [Voters -> Seq(0 .. 2 * SignBit - 1)]
  <2>1. VotingWeights \subseteq Nat
    BY PolicyAssumption
  <2> QED
    BY <2>1, RevealsAssumption DEF MedianInit
<1>2. feed.primary \in 0 .. TotalPpm /\ {feed.turnout, feed.width} \subseteq Nat
  BY SettingsAssumption DEF MedianInit
<1> QED
  BY <1>1, <1>2 DEF MedianInit, MedianIInv, MedianTypeOK, VotesCounted, PaidAsDrawn

LEMMA MedianNextIInv == MedianIInv /\ [MedianNext]_medianVars => MedianIInv'
<1> SUFFICES ASSUME MedianIInv, [MedianNext]_medianVars PROVE MedianIInv'
  OBVIOUS
<1> USE DEF MedianIInv
<1>1. UNCHANGED medianInputs
  BY DEF MedianNext, CalculateMedian, BurnTurnout, BurnBands, PayBands, medianVars
<1>2. MedianTypeOK'
  BY <1>1 DEF MedianTypeOK, medianInputs, Voters
<1>3. /\ Participants' = Participants /\ WeightOf(Participants)' = WeightOf(Participants)
      /\ Sorted' = Sorted /\ Quartiles(votes)' = Quartiles(votes')
  BY <1>1, MedianInputsFixed, QuartilesFixed
<1>4. step' \in {"median", "claims", "done", "fatal"}
  BY DEF MedianNext, CalculateMedian, BurnTurnout, BurnBands, PayBands, medianVars
<1>5. VotesCounted'
  <2>1. CASE CalculateMedian
    BY <1>3, <2>1 DEF CalculateMedian, VotesCounted
  <2>2. CASE BurnTurnout \/ BurnBands \/ PayBands
    <3>1. step = "claims" /\ step' = "done" /\ votes' = votes /\ quartiles' = quartiles
      BY <2>2 DEF BurnTurnout, BurnBands, PayBands, MayPay
    <3> QED
      BY <1>3, <3>1 DEF VotesCounted
  <2>3. CASE UNCHANGED medianVars
    BY <1>3, <2>3 DEF medianVars, VotesCounted
  <2> QED
    BY <2>1, <2>2, <2>3 DEF MedianNext
<1>6. PaidAsDrawn'
  <2>1. Nobody' = Nobody
    BY DEF Nobody, Voters
  <2>2. CASE CalculateMedian
    BY <2>1, <2>2 DEF CalculateMedian, PaidAsDrawn
  <2>3. ASSUME step = "claims", step' = "done", UNCHANGED <<votes, quartiles>>
        PROVE  /\ NormWeights(selected)' = NormWeights(selected') /\ EnoughParticipation' = EnoughParticipation
               /\ paid = Nobody
               /\ SumOf(NormWeights(selected))' = SumOf(NormWeights(selected'))
               /\ PaidFor(NormWeights(selected))' = PaidFor(NormWeights(selected'))
    <3>1. NormWeights(selected)' = NormWeights(selected') /\ EnoughParticipation' = EnoughParticipation
      BY <1>1, <2>3, BandsFixed
    <3>2. paid = Nobody
      BY <2>3 DEF PaidAsDrawn
    <3> QED
      BY <3>1, <3>2 DEF PaidFor, Voters
  <2>4. CASE BurnTurnout
    <3>1. step = "claims" /\ step' = "done" /\ UNCHANGED <<votes, quartiles>>
          /\ (votes = <<>> \/ ~EnoughParticipation) /\ paid' = paid
      BY <2>4 DEF BurnTurnout
    <3> QED
      BY <2>1, <2>3, <3>1 DEF PaidAsDrawn
  <2>5. CASE BurnBands
    <3>1. step = "claims" /\ step' = "done" /\ UNCHANGED <<votes, quartiles>>
          /\ SumOf(NormWeights(selected')) = 0 /\ paid' = paid
      BY <2>5 DEF BurnBands, MayPay
    <3> QED
      BY <2>1, <2>3, <3>1 DEF PaidAsDrawn
  <2>6. CASE PayBands
    <3>1. step = "claims" /\ step' = "done" /\ UNCHANGED <<votes, quartiles>> /\ votes # <<>>
          /\ SumOf(NormWeights(selected')) > 0
      BY <2>6 DEF PayBands, MayPay
    <3>2. paid' = PaidFor(NormWeights(selected'))
      BY <2>6 DEF PayBands, PaidFor
    <3> QED
      BY <2>3, <3>1, <3>2 DEF PaidAsDrawn
  <2>7. CASE UNCHANGED medianVars
    <3>1. selected' = selected /\ step' = step /\ paid' = paid /\ votes' = votes /\ quartiles' = quartiles
      BY <2>7 DEF medianVars
    <3>2. NormWeights(selected)' = NormWeights(selected) /\ EnoughParticipation' = EnoughParticipation
      BY <1>1, <3>1, BandsFixed
    <3>3. PaidFor(NormWeights(selected))' = PaidFor(NormWeights(selected))
      BY <3>2 DEF PaidFor, Voters
    <3> QED
      BY <2>1, <3>1, <3>2, <3>3 DEF PaidAsDrawn
  <2> QED
    BY <2>2, <2>4, <2>5, <2>6, <2>7 DEF MedianNext
<1> QED
  BY <1>2, <1>4, <1>5, <1>6

LEMMA MedianSpecIInv == MedianSpec => []MedianIInv
  BY MedianInitIInv, MedianNextIInv, PTL DEF MedianSpec

(* The voters in the bands are among those who have a vote. *)
LEMMA BandsSpec ==
  ASSUME MedianTypeOK, NEW o \in Sorted
  PROVE  /\ ToSet(o) = Participants /\ ToSet(o) \subseteq Voters
         /\ \A S \in SUBSET Voters : IsFiniteSet(S) /\ WeightOf(S) \in Nat /\ \A v \in S : votingWeight[v] <= WeightOf(S)
         /\ \A S \in SUBSET Voters : \A T \in SUBSET S : WeightOf(T) <= WeightOf(S)
<1>1. IsFiniteSet(Participants) /\ Participants \subseteq Voters
  BY ParticipantsSpec
<1>2. o \in SetToSeqs(Participants)
  BY DEF Sorted
<1>3. o \in Seq(Participants) /\ \A x \in Participants : \E n \in DOMAIN o : o[n] = x
  BY <1>1, <1>2, AllListed
<1>4. ToSet(o) = Participants
  BY <1>3 DEF ToSet
<1>5. ASSUME NEW S \in SUBSET Voters
      PROVE  /\ IsFiniteSet(S) /\ WeightOf(S) \in Nat /\ \A v \in S : votingWeight[v] <= WeightOf(S)
             /\ \A T \in SUBSET S : WeightOf(T) <= WeightOf(S)
  <2>1. IsFiniteSet(S)
    BY VotersFinite, FS_Subset
  <2>2. \A v \in S : votingWeight[v] \in Nat
    BY DEF MedianTypeOK
  <2>3. SumFunctionOnSet(votingWeight, S) \in Nat /\ \A v \in S : votingWeight[v] <= SumFunctionOnSet(votingWeight, S)
    BY <2>1, <2>2, SumNat
  <2>4. \A T \in SUBSET S : SumFunctionOnSet(votingWeight, T) <= SumFunctionOnSet(votingWeight, S)
    BY <2>1, <2>2, SumSubset
  <2> QED
    BY <2>1, <2>3, <2>4 DEF WeightOf
<1> QED
  BY <1>1, <1>4, <1>5

(* What is summed along the signing policy order is summed over the voters.  *)
LEMMA SumAlongPolicy ==
  ASSUME NEW g, \A v \in Voters : g[v] \in Nat, NEW s, s = [n \in DOMAIN PolicyOrder |-> g[PolicyOrder[n]]]
  PROVE  /\ s \in Seq(Nat) /\ Len(s) = Len(PolicyOrder) /\ DOMAIN s = DOMAIN PolicyOrder
         /\ SumOf(s) = SumFunctionOnSet(g, Voters)
<1> DEFINE D == 1 .. Len(PolicyOrder)
<1>1. Len(PolicyOrder) \in Nat /\ DOMAIN PolicyOrder = D /\ \A n \in D : PolicyOrder[n] \in Voters
  BY PolicyAssumption
<1>2. s \in Seq(Nat) /\ Len(s) = Len(PolicyOrder) /\ DOMAIN s = D
  BY <1>1
<1>3. SumOf(s) = SumFunctionOnSet(s, D)
  <2>1. s \in Seq(Int)
    BY <1>1, <1>2
  <2> QED
    BY <1>2, <2>1, SumOfIsSum
<1>4. IsFiniteSet(D)
  <2>1. 1 \in Int /\ Len(PolicyOrder) \in Int
    BY <1>1
  <2> QED
    BY <2>1, FS_Interval
<1>5. /\ \A x \in D : s[x] \in Int
      /\ \A x, y \in D : PolicyOrder[x] = PolicyOrder[y] => x = y
      /\ Voters = {PolicyOrder[x] : x \in D}
      /\ \A x \in D : g[PolicyOrder[x]] = s[x]
  <2>1. \A x, y \in D : PolicyOrder[x] = PolicyOrder[y] => x = y
    BY <1>1, PolicyAssumption DEF IsInjective
  <2>2. Voters = {PolicyOrder[x] : x \in D}
    BY <1>1 DEF Voters, ToSet
  <2>3. \A x \in D : s[x] \in Int /\ g[PolicyOrder[x]] = s[x]
    BY <1>1
  <2> QED
    BY <2>1, <2>2, <2>3
<1> HIDE DEF D
<1>6. SumFunctionOnSet(g, Voters) = SumFunctionOnSet(s, D)
  BY <1>4, <1>5, SumImage
<1> QED
  BY <1>1, <1>2, <1>3, <1>6

(* The weight drawn by in total (getMedianClaims checks it for zero).        *)
NormTotal(iqr) ==
  IF WeightOf(Pct) = 0 THEN WeightOf(iqr) ELSE TotalPpm * WeightOf(Pct) * WeightOf(iqr)

LEMMA NormWeightsSpec ==
  ASSUME MedianTypeOK, votes \in Sorted, NEW chosen
  PROVE  /\ NormWeights(chosen) \in Seq(Nat) /\ Len(NormWeights(chosen)) = Len(PolicyOrder)
         /\ DOMAIN NormWeights(chosen) = DOMAIN PolicyOrder
         /\ SumOf(NormWeights(chosen)) = NormTotal(Iqr(chosen)) /\ NormTotal(Iqr(chosen)) \in Nat
<1> DEFINE iqr == Iqr(chosen)
           P == WeightOf(Pct)
           X == WeightOf(iqr)
           p == feed.primary
           q == TotalPpm - feed.primary
           inIqr == [v \in Voters |-> IF v \in iqr THEN votingWeight[v] ELSE 0]
           inPct == [v \in Voters |-> IF v \in Pct THEN votingWeight[v] ELSE 0]
           norm == [v \in Voters |-> NormWeight(v, iqr)]
           onIqr == [v \in Voters |-> (p * P) * inIqr[v]]
           onPct == [v \in Voters |-> (q * X) * inPct[v]]
<1>1. iqr \in SUBSET Voters /\ Pct \in SUBSET Voters
  <2>1. ToSet(votes) \subseteq Voters
    BY BandsSpec
  <2> QED
    BY <2>1 DEF Iqr, Inner, AtQuartile, Pct
<1>2. P \in Nat /\ X \in Nat
  BY <1>1, BandsSpec
<1>3. p \in Nat /\ q \in Nat /\ p + q = TotalPpm /\ TotalPpm \in Nat
  BY WidthAssumption DEF MedianTypeOK
<1>4. IsFiniteSet(Voters) /\ \A v \in Voters : votingWeight[v] \in Nat /\ votingWeight[v] \in Int
  BY VotersFinite DEF MedianTypeOK
<1>5. X = SumFunctionOnSet(inIqr, Voters) /\ P = SumFunctionOnSet(inPct, Voters)
  <2>1. SumFunctionOnSet(votingWeight, iqr) = SumFunctionOnSet(inIqr, Voters)
    <3>1. \A x \in Voters : inIqr[x] = IF x \in iqr THEN votingWeight[x] ELSE 0
      OBVIOUS
    <3> HIDE DEF inIqr, iqr
    <3> QED
      BY <1>1, <1>4, <3>1, SumWhere
  <2>2. SumFunctionOnSet(votingWeight, Pct) = SumFunctionOnSet(inPct, Voters)
    <3>1. \A x \in Voters : inPct[x] = IF x \in Pct THEN votingWeight[x] ELSE 0
      OBVIOUS
    <3> HIDE DEF inPct
    <3> QED
      BY <1>1, <1>4, <3>1, SumWhere
  <2> QED
    BY <2>1, <2>2 DEF WeightOf
<1>6. \A v \in Voters : inIqr[v] \in Nat /\ inPct[v] \in Nat
  BY <1>4
<1>7. \A v \in Voters : norm[v] = IF P = 0 THEN inIqr[v] ELSE onIqr[v] + onPct[v]
  <2> TAKE v \in Voters
  <2>1. votingWeight[v] \in Nat
    BY <1>4
  <2>2. (IF v \in iqr THEN p * votingWeight[v] * P ELSE 0) = onIqr[v]
    BY <1>2, <1>3, <2>1
  <2>3. (IF v \in Pct THEN q * votingWeight[v] * X ELSE 0) = onPct[v]
    BY <1>2, <1>3, <2>1
  <2> HIDE DEF onIqr, onPct, X
  <2> QED
    BY <2>2, <2>3 DEF NormWeight, X
<1>8. \A v \in Voters : onIqr[v] \in Nat /\ onPct[v] \in Nat
  <2>1. p * P \in Nat /\ q * X \in Nat
    BY <1>2, <1>3
  <2> HIDE DEF p, P, q, X, inIqr, inPct
  <2> QED
    BY <1>6, <2>1
<1>9. \A v \in Voters : norm[v] \in Nat
  <2> HIDE DEF norm, onIqr, onPct, inIqr, inPct
  <2> QED
    BY <1>6, <1>7, <1>8
<1>10. SumFunctionOnSet(onIqr, Voters) = (p * P) * X /\ SumFunctionOnSet(onPct, Voters) = (q * X) * P
  <2>1. p * P \in Int /\ q * X \in Int
    BY <1>2, <1>3
  <2>2. /\ \A v \in Voters : inIqr[v] \in Int /\ onIqr[v] = (p * P) * inIqr[v]
        /\ \A v \in Voters : inPct[v] \in Int /\ onPct[v] = (q * X) * inPct[v]
    BY <1>6
  <2> HIDE DEF p, P, q, X, inIqr, inPct, onIqr, onPct
  <2>3. SumFunctionOnSet(onIqr, Voters) = (p * P) * SumFunctionOnSet(inIqr, Voters)
    BY <1>4, <2>1, <2>2, SumScale
  <2>4. SumFunctionOnSet(onPct, Voters) = (q * X) * SumFunctionOnSet(inPct, Voters)
    BY <1>4, <2>1, <2>2, SumScale
  <2> QED
    BY <1>5, <2>3, <2>4
<1>11. SumFunctionOnSet(norm, Voters) = NormTotal(iqr)
  <2>1. CASE P = 0
    <3>1. \A v \in Voters : inIqr[v] \in Int /\ norm[v] = inIqr[v]
      BY <1>6, <1>7, <2>1
    <3> HIDE DEF norm, inIqr
    <3>2. SumFunctionOnSet(inIqr, Voters) = SumFunctionOnSet(norm, Voters)
      BY <1>4, <3>1, SumEqual
    <3> QED
      BY <1>5, <2>1, <3>2 DEF NormTotal
  <2>2. CASE P # 0
    <3>1. \A v \in Voters : onIqr[v] \in Int /\ onPct[v] \in Int /\ norm[v] = onIqr[v] + onPct[v]
      BY <1>7, <1>8, <2>2
    <3> HIDE DEF norm, onIqr, onPct
    <3>2. SumFunctionOnSet(norm, Voters) = SumFunctionOnSet(onIqr, Voters) + SumFunctionOnSet(onPct, Voters)
      BY <1>4, <3>1, SumPlus
    <3>3. (p * P) * X + (q * X) * P = (p + q) * (P * X)
      <4> HIDE DEF p, P, q, X
      <4> QED
        BY <1>2, <1>3
    <3>4. (p + q) * (P * X) = TotalPpm * P * X
      <4> HIDE DEF p, P, q, X
      <4> QED
        BY <1>2, <1>3
    <3> QED
      BY <1>10, <2>2, <3>2, <3>3, <3>4 DEF NormTotal
  <2> QED
    BY <2>1, <2>2
<1>12. NormWeights(chosen) = [n \in DOMAIN PolicyOrder |-> norm[PolicyOrder[n]]]
  <2>1. \A n \in DOMAIN PolicyOrder : PolicyOrder[n] \in Voters
    BY PolicyAssumption
  <2> QED
    BY <2>1 DEF NormWeights
<1>13. NormTotal(iqr) \in Nat
  <2>1. TotalPpm * P * X \in Nat
    BY <1>2, <1>3
  <2> QED
    BY <1>2, <2>1 DEF NormTotal
<1> HIDE DEF norm, iqr
<1>14. /\ NormWeights(chosen) \in Seq(Nat) /\ Len(NormWeights(chosen)) = Len(PolicyOrder)
       /\ DOMAIN NormWeights(chosen) = DOMAIN PolicyOrder
       /\ SumOf(NormWeights(chosen)) = SumFunctionOnSet(norm, Voters)
  BY <1>9, <1>12, SumAlongPolicy
<1> QED
  BY <1>11, <1>13, <1>14 DEF iqr

(* A voter is listed once: it is paid what is drawn at its position.         *)
LEMMA PaidAtPosition ==
  ASSUME NEW w \in Seq(Nat), Len(w) = Len(PolicyOrder), SumOf(w) > 0, NEW n \in DOMAIN PolicyOrder
  PROVE  PaidFor(w)[PolicyOrder[n]] = PortionsOf(w, Reward)[n] /\ PortionsOf(w, Reward)[n] \in Nat
<1> DEFINE parts == PortionsOf(w, Reward)
           D == 1 .. Len(PolicyOrder)
           own == [k \in DOMAIN parts |-> IF PolicyOrder[k] = PolicyOrder[n] THEN parts[k] ELSE 0]
<1>1. Len(PolicyOrder) \in Nat /\ DOMAIN PolicyOrder = D /\ PolicyOrder[n] \in Voters
  BY PolicyAssumption
<1>2. Reward \in Nat
  BY SettingsAssumption
<1>3. parts \in Seq(Nat) /\ Len(parts) = Len(w)
  BY <1>2, PortionsSum
<1>4. DOMAIN parts = D /\ \A k \in D : parts[k] \in Nat
  BY <1>3
<1>5. PaidFor(w)[PolicyOrder[n]] = SumOf(own)
  BY <1>1 DEF PaidFor
<1> HIDE DEF parts
<1>6. own \in Seq(Int) /\ Len(own) = Len(PolicyOrder)
  BY <1>1, <1>4
<1>7. SumOf(own) = SumFunctionOnSet(own, D)
  BY <1>6, SumOfIsSum
<1>8. n \in D /\ own[n] \in Int /\ own[n] = parts[n]
  BY <1>1, <1>4
<1>9. \A k \in D \ {n} : own[k] = 0
  <2>1. \A k \in D : PolicyOrder[k] = PolicyOrder[n] => k = n
    BY <1>1, <1>8, PolicyAssumption DEF IsInjective
  <2> QED
    BY <1>4, <2>1
<1>10. IsFiniteSet(D)
  <2>1. 1 \in Int /\ Len(PolicyOrder) \in Int
    BY <1>1
  <2> QED
    BY <2>1, FS_Interval
<1>11. SumFunctionOnSet(own, D) = own[n]
  <2> HIDE DEF own, D
  <2> QED
    BY <1>8, <1>9, <1>10, SumOfOne
<1> QED
  BY <1>4, <1>5, <1>7, <1>8, <1>11 DEF parts

(* Who has more than half of the weight that counts decides the median, and  *)
(* with more than three quarters both quartiles, for any number of voters,   *)
(* all weights and all values (calculateFeedMedian).                        *)
THEOREM QuartilesAreRobust == MedianSpec => []RobustQuartiles
<1>1. ASSUME MedianIInv PROVE RobustQuartiles
  <2> USE DEF MedianIInv
  <2> SUFFICES ASSUME Calculated, NEW H \in SUBSET ToSet(votes)
               PROVE  /\ 2 * WeightOf(H) > WeightOf(Participants) => Within(quartiles.Median, H)
                      /\ 4 * WeightOf(H) > 3 * WeightOf(Participants) => Within(quartiles.Q1, H) /\ Within(quartiles.Q3, H)
    BY <1>1 DEF RobustQuartiles
  <2>1. votes \in Sorted /\ WeightOf(Participants) # 0 /\ quartiles = Quartiles(votes)
    BY <1>1 DEF Calculated, VotesCounted
  <2>2. H \in SUBSET Participants
    BY <1>1, <2>1, BandsSpec
  <2> QED
    BY <1>1, <2>1, <2>2, Robust
<1> QED
  BY <1>1, MedianSpecIInv, PTL

(* With FIP.16 every data provider comes to the same quartiles in whatever   *)
(* order its map lists the votes, and always comes to some: the reads past   *)
(* the end (median.go:119) and of a missing result are out of reach.         *)
THEOREM ProvidersSettle == MedianSpec => []Fip16Settles
<1>1. ASSUME MedianIInv, fip16Active PROVE step # "fatal"
  <2> USE DEF MedianIInv
  <2> SUFFICES ASSUME step = "fatal" PROVE FALSE
    OBVIOUS
  <2>1. votes \in Sorted /\ votes # <<>> /\ WeightOf(Participants) = 0
    BY <1>1 DEF VotesCounted
  <2>2. votes \in Seq(Participants)
    BY <1>1, <2>1, SortedAlong DEF Along
  <2>3. PICK v \in Participants : TRUE
    BY <2>1, <2>2
  <2>4. v \in Voters /\ Participants \in SUBSET Voters /\ votingWeight[v] \in Nat /\ votingWeight[v] > 0
    BY <1>1, ParticipantsSpec
  <2>5. votingWeight[v] <= WeightOf(Participants)
    BY <1>1, <2>1, <2>4, BandsSpec
  <2> QED
    BY <2>1, <2>4, <2>5
<1>2. ASSUME MedianIInv, fip16Active, Calculated, NEW o \in Sorted PROVE Quartiles(o) = quartiles
  <2> USE DEF MedianIInv
  <2>1. votes \in Sorted /\ WeightOf(Participants) # 0 /\ quartiles = Quartiles(votes)
    BY <1>2 DEF Calculated, VotesCounted
  <2> QED
    BY <1>2, <2>1, QuartilesSettled
<1>3. MedianIInv => Fip16Settles
  BY <1>1, <1>2 DEF Fip16Settles
<1> QED
  BY <1>3, MedianSpecIInv, PTL

(* A voter strictly between the quartiles is paid at least its part of the   *)
(* primary band's share, whoever randomSelect selects at the quartiles, for  *)
(* every reward, setting and weight (getMedianClaims, weightedDistribution). *)
THEOREM InnerVotersKeepShare == MedianSpec => []InnerShare
<1>1. ASSUME MedianIInv, step = "done", votes # <<>>, EnoughParticipation,
             NEW v \in Inner, votingWeight[v] > 0
      PROVE  paid[v] >= (Reward * feed.primary * votingWeight[v]) \div (TotalPpm * WeightOf(Inner \cup AtQuartile))
  <2> USE DEF MedianIInv
  <2> DEFINE iqr == Iqr(selected)
             w == NormWeights(selected)
             P == WeightOf(Pct)
             X == WeightOf(iqr)
             Y == WeightOf(Inner \cup AtQuartile)
             T == SumOf(w)
             x == votingWeight[v]
             p == feed.primary
  <2>1. votes \in Sorted
    BY <1>1 DEF VotesCounted
  <2>2. w \in Seq(Nat) /\ Len(w) = Len(PolicyOrder) /\ T = NormTotal(iqr) /\ T \in Nat
    BY <1>1, <2>1, NormWeightsSpec
  <2>3. Inner \cup AtQuartile \in SUBSET Voters /\ iqr \in SUBSET (Inner \cup AtQuartile) /\ Pct \in SUBSET Voters
        /\ iqr \in SUBSET Voters /\ v \in iqr /\ v \in Voters
    <3>1. ToSet(votes) \subseteq Voters
      BY <1>1, <2>1, BandsSpec
    <3> QED
      BY <3>1 DEF Iqr, Inner, AtQuartile, Pct
  <2>4. x \in Nat /\ P \in Nat /\ X \in Nat /\ Y \in Nat /\ x <= X /\ X <= Y
    <3>1. x \in Nat
      BY <1>1, <2>3 DEF MedianTypeOK
    <3>2. P \in Nat /\ X \in Nat /\ Y \in Nat /\ x <= X
      BY <1>1, <2>1, <2>3, BandsSpec
    <3>3. X <= Y
      BY <1>1, <2>1, <2>3, BandsSpec
    <3> QED
      BY <3>1, <3>2, <3>3
  <2>5. p \in Nat /\ p <= TotalPpm /\ TotalPpm \in Nat /\ TotalPpm > 0 /\ Reward \in Nat
    BY <1>1, WidthAssumption, SettingsAssumption DEF MedianTypeOK
  <2>6. PICK n \in DOMAIN PolicyOrder : PolicyOrder[n] = v
    BY <2>3, VotersFinite
  <2>7. w[n] = NormWeight(v, iqr) /\ n \in DOMAIN w
    BY <2>6 DEF NormWeights
  <2>8. T > 0
    <3>1. T = IF P = 0 THEN X ELSE TotalPpm * P * X
      BY <2>2 DEF NormTotal
    <3>2. X > 0
      BY <1>1, <2>4
    <3>3. P # 0 => TotalPpm * P > 0 /\ TotalPpm * P \in Nat
      BY <2>4, <2>5
    <3>4. P # 0 => TotalPpm * P * X > 0
      BY <2>4, <3>2, <3>3
    <3> QED
      BY <3>1, <3>2, <3>4
  <2>9. paid[v] = PortionsOf(w, Reward)[n]
    <3>1. paid = PaidFor(w)
      BY <1>1, <2>2, <2>8 DEF PaidAsDrawn
    <3> QED
      BY <2>2, <2>6, <2>8, <3>1, PaidAtPosition
  <2>10. paid[v] \in Int /\ paid[v] >= (w[n] * Reward) \div T
    <3>1. T <= T
      BY <2>2
    <3> QED
      BY <2>2, <2>5, <2>7, <2>8, <2>9, <3>1, PortionsFloor
  <2>11. w[n] \in Nat
    BY <2>2, <2>7
  <2>12. (Reward * p * x) * T <= (w[n] * Reward) * (TotalPpm * Y)
    <3>1. CASE P = 0
      <4>1. w[n] = x /\ T = X
        BY <2>2, <2>3, <2>7, <3>1 DEF NormWeight, NormTotal
      <4>2. p * X <= TotalPpm * Y
        <5>1. p * X <= TotalPpm * X
          BY <2>4, <2>5, MulMono
        <5>2. X * TotalPpm <= Y * TotalPpm
          BY <2>4, <2>5, MulMono
        <5>3. p * X \in Nat /\ TotalPpm * X \in Nat /\ TotalPpm * X = X * TotalPpm /\ TotalPpm * Y = Y * TotalPpm
              /\ Y * TotalPpm \in Nat
          BY <2>4, <2>5
        <5> QED
          BY <5>1, <5>2, <5>3
      <4>3. (p * X) * (x * Reward) <= (TotalPpm * Y) * (x * Reward)
        <5>1. p * X \in Int /\ TotalPpm * Y \in Int /\ x * Reward \in Nat
          BY <2>4, <2>5
        <5> QED
          BY <4>2, <5>1, MulMono
      <4>4. (Reward * p * x) * X = (p * X) * (x * Reward) /\ (x * Reward) * (TotalPpm * Y) = (TotalPpm * Y) * (x * Reward)
        <5> HIDE DEF P, X, Y, T, x, p, w
        <5> QED
          BY <2>4, <2>5
      <4> QED
        BY <4>1, <4>3, <4>4
    <3>2. CASE P # 0
      <4>1. T = TotalPpm * P * X /\ w[n] >= p * x * P
        <5>1. T = TotalPpm * P * X
          BY <2>2, <3>2 DEF NormTotal
        <5>2. w[n] = p * x * P + (IF v \in Pct THEN (TotalPpm - p) * x * X ELSE 0)
          BY <2>3, <2>7, <3>2 DEF NormWeight
        <5>3. p * x * P \in Nat /\ (TotalPpm - p) * x * X \in Nat
          <6>1. TotalPpm - p \in Nat
            BY <2>5
          <6> HIDE DEF P, X, Y, T, x, p, w
          <6> QED
            BY <2>4, <2>5, <6>1
        <5> HIDE DEF P, X, Y, T, x, p, w
        <5> QED
          BY <5>1, <5>2, <5>3
      <4> DEFINE a == p * x * P   b == w[n]   c == TotalPpm * X   d == TotalPpm * Y
      <4>2. a \in Nat /\ b \in Nat /\ c \in Nat /\ d \in Nat /\ a <= b
        <5> HIDE DEF P, X, Y, T, x, p, w
        <5> QED
          BY <2>4, <2>5, <2>11, <4>1
      <4>3. c <= d
        <5>1. X * TotalPpm <= Y * TotalPpm
          BY <2>4, <2>5, MulMono
        <5>2. c = X * TotalPpm /\ d = Y * TotalPpm
          BY <2>4, <2>5
        <5> QED
          BY <5>1, <5>2
      <4>4. (Reward * p * x) * T = (a * c) * Reward
        <5>1. (Reward * p * x) * (TotalPpm * P * X) = ((p * x * P) * (TotalPpm * X)) * Reward
          <6> HIDE DEF P, X, Y, T, x, p, w
          <6> QED
            BY <2>4, <2>5
        <5> QED
          BY <4>1, <5>1
      <4> HIDE DEF a, b, c, d
      <4>5. a * c <= b * d
        <5>1. a * c <= b * c
          BY <4>2, MulMono
        <5>2. c * b <= d * b
          BY <4>2, <4>3, MulMono
        <5>3. a * c \in Int /\ b * c \in Int /\ b * c = c * b /\ b * d = d * b /\ b * d \in Int
          BY <4>2
        <5> QED
          BY <5>1, <5>2, <5>3
      <4>6. (a * c) * Reward <= (b * d) * Reward
        <5>1. a * c \in Int /\ b * d \in Int
          BY <4>2
        <5> QED
          BY <2>5, <4>5, <5>1, MulMono
      <4>7. (b * d) * Reward = (b * Reward) * d
        BY <2>5, <4>2
      <4> QED
        BY <4>4, <4>6, <4>7 DEF b, d
    <3> QED
      BY <3>1, <3>2
  <2>13. (Reward * p * x) \div (TotalPpm * Y) <= (w[n] * Reward) \div T
    <3>1. Reward * p * x \in Nat /\ TotalPpm * Y \in Nat /\ w[n] * Reward \in Nat
      <4> HIDE DEF P, X, Y, T, x, p, w
      <4> QED
        BY <2>4, <2>5, <2>11
    <3>2. TotalPpm * Y > 0
      <4>1. Y > 0
        BY <1>1, <2>4
      <4> HIDE DEF Y
      <4> QED
        BY <2>4, <2>5, <4>1
    <3> HIDE DEF P, X, Y, T, x, p, w
    <3> QED
      BY <2>2, <2>8, <2>12, <3>1, <3>2, FloorMono
  <2>14. (Reward * p * x) \div (TotalPpm * Y) \in Int /\ (w[n] * Reward) \div T \in Int
    <3>1. TotalPpm * Y \in Nat /\ TotalPpm * Y > 0
      <4>1. Y > 0
        BY <1>1, <2>4
      <4> HIDE DEF Y
      <4> QED
        BY <2>4, <2>5, <4>1
    <3>2. Reward * p * x \in Nat /\ w[n] * Reward \in Nat
      <4> HIDE DEF P, X, Y, T, x, p, w
      <4> QED
        BY <2>4, <2>5, <2>11
    <3> HIDE DEF P, X, Y, T, x, p, w
    <3> QED
      BY <2>2, <2>8, <3>1, <3>2, DivDef
  <2> HIDE DEF w, T, Y, p, x
  <2>15. paid[v] >= (Reward * p * x) \div (TotalPpm * Y)
    BY <2>10, <2>13, <2>14
  <2> QED
    BY <2>15 DEF p, x, Y
<1>2. MedianIInv => InnerShare
  BY <1>1 DEF InnerShare
<1> QED
  BY <1>2, MedianSpecIInv, PTL

(* Voters with the same value, weight and luck are paid alike, but for less  *)
(* than a wei for each voter of the policy.                                 *)
THEOREM VotersPaidAlike == MedianSpec => []EqualVotesPaidAlike
<1>1. ASSUME MedianIInv, step = "done", NEW u \in Voters, NEW v \in Voters, SameVote(u, v)
      PROVE  Abs(paid[u] - paid[v]) < Len(PolicyOrder)
  <2> USE DEF MedianIInv
  <2> DEFINE w == NormWeights(selected)
             portion == PortionsOf(w, Reward)
  <2>1. votes \in Sorted
    BY <1>1 DEF VotesCounted
  <2>2. PICK m \in DOMAIN PolicyOrder : PolicyOrder[m] = u
    BY VotersFinite
  <2>3. PICK n \in DOMAIN PolicyOrder : PolicyOrder[n] = v
    BY VotersFinite
  <2>4. Len(PolicyOrder) \in Nat /\ Len(PolicyOrder) > 0
    <3>1. Len(PolicyOrder) \in Nat /\ m \in 1 .. Len(PolicyOrder)
      BY PolicyAssumption
    <3> QED
      BY <3>1
  <2>5. CASE paid = Nobody
    <3>1. paid[u] = 0 /\ paid[v] = 0
      BY <2>5 DEF Nobody
    <3> QED
      BY <2>4, <3>1 DEF Abs
  <2>6. CASE SumOf(w) > 0 /\ paid = PaidFor(w)
    <3>1. w \in Seq(Nat) /\ Len(w) = Len(PolicyOrder) /\ DOMAIN w = DOMAIN PolicyOrder
      BY <1>1, <2>1, NormWeightsSpec
    <3>2. paid[u] = portion[m] /\ portion[m] \in Nat
      BY <2>2, <2>6, <3>1, PaidAtPosition
    <3>3. paid[v] = portion[n] /\ portion[n] \in Nat
      BY <2>3, <2>6, <3>1, PaidAtPosition
    <3>4. w[m] = w[n]
      <4>1. u \in ToSet(votes) /\ v \in ToSet(votes) /\ Value(u) = Value(v) /\ votingWeight[u] = votingWeight[v]
            /\ ((u \in selected) <=> (v \in selected))
        BY <1>1 DEF SameVote
      <4>2. ((u \in Iqr(selected)) <=> (v \in Iqr(selected))) /\ ((u \in Pct) <=> (v \in Pct))
        BY <4>1 DEF Iqr, Inner, AtQuartile, Pct
      <4>3. NormWeight(u, Iqr(selected)) = NormWeight(v, Iqr(selected))
        BY <4>1, <4>2 DEF NormWeight
      <4> QED
        BY <2>2, <2>3, <4>3 DEF NormWeights
    <3>5. Reward \in Nat
      BY SettingsAssumption
    <3> HIDE DEF w
    <3>6. portion[m] - portion[n] < Len(w)
      BY <2>6, <3>1, <3>4, <3>5, PortionsAlike
    <3>7. portion[n] - portion[m] < Len(w)
      BY <2>6, <3>1, <3>4, <3>5, PortionsAlike
    <3> HIDE DEF portion
    <3> QED
      BY <2>4, <3>1, <3>2, <3>3, <3>6, <3>7 DEF Abs
  <2> QED
    BY <1>1, <2>5, <2>6 DEF PaidAsDrawn
<1>2. MedianIInv => EqualVotesPaidAlike
  BY <1>1 DEF EqualVotesPaidAlike
<1> QED
  BY <1>2, MedianSpecIInv, PTL
=============================================================================
