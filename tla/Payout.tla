------------------------------- MODULE Payout -------------------------------
(***************************************************************************)
(* What a distribution loop of the calculator promises, whatever order and *)
(* arithmetic it uses: each claimant that is to have one gets one claim,    *)
(* fair by its weight among all, and the claims and what is burned are the  *)
(* pot, to the wei (rewards/fcc.go:15-18 states this for the whole epoch).  *)
(***************************************************************************)
EXTENDS Integers, FiniteSets, Functions

CONSTANT Claimants

VARIABLES pot,      \* the wei to hand out
          weight,   \* weights of the claimants
          eligible, \* those that are to have a claim
          given,    \* those that have theirs
          claim,    \* what each was given
          burned,   \* wei that were burned
          closed    \* nothing is handed out any more

payoutInputs == <<pot, weight, eligible>>
payoutVars == <<payoutInputs, given, claim, burned, closed>>

PayoutInit ==
  /\ pot \in Nat /\ weight \in [Claimants -> Nat]
  /\ eligible \subseteq {k \in Claimants : weight[k] > 0}
  /\ given = {} /\ claim = [k \in Claimants |-> 0]
  /\ burned = 0 /\ closed = FALSE

Total == SumFunctionOnSet(weight, Claimants)
Granted == SumFunctionOnSet(claim, Claimants)

(* No less than the floor of the exact share, no more than the share and a    *)
(* wei for each claim before, and nothing that was given away already.       *)
Fair(k, wei) ==
  /\ (weight[k] * pot) \div Total <= wei
  /\ wei * Total <= weight[k] * pot + Cardinality(given) * Total
  /\ wei <= pot - Granted

Give(k) ==
  /\ ~closed /\ k \in eligible \ given
  /\ given' = given \cup {k}
  /\ \E wei \in 0 .. pot : Fair(k, wei) /\ claim' = [claim EXCEPT ![k] = wei]
  /\ UNCHANGED <<payoutInputs, burned, closed>>

(* When all have theirs the rest is burned: nothing, if nobody with weight    *)
(* was left out.                                                            *)
Close ==
  /\ ~closed /\ given = eligible
  /\ burned' = pot - Granted /\ burned' >= 0
  /\ Total > 0 /\ eligible = {k \in Claimants : weight[k] > 0} => burned' = 0
  /\ closed' = TRUE
  /\ UNCHANGED <<payoutInputs, given, claim>>

PayoutNext == (\E k \in Claimants : Give(k)) \/ Close

PayoutSpec == PayoutInit /\ [][PayoutNext]_payoutVars
=============================================================================
