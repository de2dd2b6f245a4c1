------------------------------- MODULE Ledger -------------------------------
(***************************************************************************)
(* The last stage of the calculator, CalculateResults of                   *)
(* rewards/calculate.go: the claims of the whole reward epoch are merged   *)
(* (MergeClaims), penalties are set against rewards (ApplyPenalties), the  *)
(* claims of voters without passes are burned (applyMinConditions) and     *)
(* what remains is hashed into the published result (buildResults).        *)
(*                                                                         *)
(* The merged claims, the rewards and the penalties are Go maps, which the *)
(* code iterates over in an order that changes from run to run; the result *)
(* is a Merkle root that every data provider has to reproduce.             *)
(***************************************************************************)
EXTENDS Integers, Sequences, SequencesExt, FiniteSetsExt, Functions

CONSTANTS RawClaims,     \* claims the reward components may produce
          MaxClaims,     \* number of claims an epoch may have
          BurnAddress,   \* beneficiary of everything that is burned
          Voters,        \* voters of the epoch's signing policy
          AddressesOf,   \* each voter's identity, delegation and node addresses
          Passes,        \* passes a voter may have after the previous epoch
          PassDeltas     \* changes of the passes the conditions may yield

(* Penalties go to voters, never to the burn address.  The passes published   *)
(* for an epoch are not negative (the bounds of calculate.go:71).  The chain  *)
(* registers an address for one voter only.                                 *)
ASSUME ClaimsAssumption ==
  /\ MaxClaims \in Nat
  /\ \A c \in RawClaims : c.amount \in Int /\ (c.to = BurnAddress => c.amount >= 0)
ASSUME PassesAssumption == Passes \subseteq Nat /\ PassDeltas \subseteq Int
ASSUME AddressesAssumption ==
  \A v \in Voters : BurnAddress \notin AddressesOf[v]
                    /\ \A w \in Voters : AddressesOf[v] \cap AddressesOf[w] # {} => v = w

Key == [to : {c.to : c \in RawClaims}, type : {c.type : c \in RawClaims}, positive : BOOLEAN]

VARIABLES network,    \* whether the minimal conditions apply ("flare") or not ("coston")
          claims,     \* the epoch's claims, in the order they were computed
          phase,      \* "merge", "index", "settle", "conditions", "build", "done" or "panic"
          k,          \* the claim MergeClaims is at
          merged,     \* byBeneficiaryTypeAndSign: key -> amount
          todo,       \* entries the current map iteration has not visited
          rewards,    \* rewardByBeneficiaryAndType
          penalties,  \* penaltyByBeneficiaryAndType
          burnAmount,
          result,     \* claims that come out of the current stage
          delta,      \* each voter's change of passes, as the conditions yielded it
          passes,     \* each voter's passes, as applyMinConditions computed them
          published   \* the claims under the Merkle root

vars == <<network, claims, phase, k, merged, todo, rewards, penalties, burnAmount,
          result, delta, passes, published>>

EmptyMap == [x \in {} |-> 0]
Put(map, key, value) == [x \in DOMAIN map \cup {key} |-> IF x = key THEN value ELSE map[x]]
BurnClaim(amount) == [to |-> BurnAddress, type |-> "Direct", amount |-> amount]
SumAmounts(cs) == SumFunctionOnSet([c \in cs |-> c.amount], cs)
MergedClaims == {[to |-> x.to, type |-> x.type, amount |-> merged[x]] : x \in DOMAIN merged}

Init ==
  /\ network \in {"flare", "coston"}
  /\ claims \in SeqOf(RawClaims, MaxClaims)
  /\ phase = "merge"
  /\ k = 1
  /\ merged = EmptyMap /\ rewards = EmptyMap /\ penalties = EmptyMap
  /\ todo = {}
  /\ burnAmount = 0
  /\ result = {} /\ published = {}
  /\ delta = EmptyMap /\ passes = EmptyMap

-----------------------------------------------------------------------------
(* MergeClaims: one claim is added to the amount of its beneficiary, type   *)
(* and sign; an amount of zero counts as a penalty.                         *)
SignKey(c) == [to |-> c.to, type |-> c.type, positive |-> c.amount > 0]

MergeClaim ==
  /\ phase = "merge" /\ k <= Len(claims)
  /\ LET c == claims[k]
         old == IF SignKey(c) \in DOMAIN merged THEN merged[SignKey(c)] ELSE 0
     IN  merged' = Put(merged, SignKey(c), old + c.amount)
  /\ k' = k + 1
  /\ UNCHANGED <<network, claims, phase, todo, rewards, penalties, burnAmount, result, delta, passes, published>>

MergeDone ==
  /\ phase = "merge" /\ k > Len(claims)
  /\ phase' = "index"
  /\ todo' = DOMAIN merged
  /\ UNCHANGED <<network, claims, k, merged, rewards, penalties, burnAmount, result, delta, passes, published>>

(* ApplyPenalties, first loop: claims to the burn address are collected,    *)
(* the others are indexed as rewards or penalties.                          *)
Beneficiary(x) == [to |-> x.to, type |-> "any"] \* faulty: penalties regardless of the type
Account(x) == [to |-> x.to, type |-> x.type]

IndexClaim ==
  /\ phase = "index"
  /\ \E x \in todo :
       /\ todo' = todo \ {x}
       /\ \/ /\ x.to = BurnAddress
             /\ burnAmount' = burnAmount + merged[x]
             /\ UNCHANGED <<rewards, penalties>>
          \/ /\ x.to # BurnAddress /\ merged[x] > 0
             /\ rewards' = Put(rewards, Account(x), merged[x])
             /\ UNCHANGED <<burnAmount, penalties>>
          \/ /\ x.to # BurnAddress /\ merged[x] <= 0
             /\ penalties' = Put(penalties, Account(x), merged[x])
             /\ UNCHANGED <<burnAmount, rewards>>
  /\ UNCHANGED <<network, claims, phase, k, merged, result, delta, passes, published>>

IndexDone ==
  /\ phase = "index" /\ todo = {}
  /\ phase' = "settle"
  /\ todo' = DOMAIN rewards
  /\ UNCHANGED <<network, claims, k, merged, rewards, penalties, burnAmount, result, delta, passes, published>>

(* ApplyPenalties, second loop: a penalty eats the reward of its            *)
(* beneficiary and type, and what it eats is burned.                        *)
SettleReward ==
  /\ phase = "settle"
  /\ \E x \in todo :
       LET remainder == rewards[x] + (IF x \in DOMAIN penalties THEN penalties[x] ELSE 0)
       IN  /\ todo' = todo \ {x}
           /\ \/ /\ remainder > 0
                 /\ burnAmount' = burnAmount + (rewards[x] - remainder)
                 /\ result' = result \cup {[to |-> x.to, type |-> x.type, amount |-> remainder]}
              \/ /\ remainder <= 0
                 /\ burnAmount' = burnAmount + rewards[x]
                 /\ UNCHANGED result
  /\ UNCHANGED <<network, claims, phase, k, merged, rewards, penalties, delta, passes, published>>

(* ... the burned amount becomes one claim, and the totals are compared.    *)
WithBurn(cs, amount) == IF amount > 0 THEN cs \cup {BurnClaim(amount)} ELSE cs

SettleDone ==
  /\ phase = "settle" /\ todo = {}
  /\ result' = WithBurn(result, burnAmount)
  /\ phase' = IF SumAmounts({c \in MergedClaims : c.amount > 0}) # SumAmounts(result')
                THEN "panic"
                ELSE IF network = "flare" THEN "conditions" ELSE "build"
  /\ UNCHANGED <<network, claims, k, merged, todo, rewards, penalties, burnAmount, delta, passes, published>>

-----------------------------------------------------------------------------
(* applyMinConditions: the passes are the ones of the previous epoch, zero  *)
(* for everybody if they cannot be fetched, plus this epoch's change; the   *)
(* claims to an address of a voter with negative passes are burned.         *)
VotersOnly(p) == UNION {AddressesOf[v] : v \in {v \in Voters : p[v] < 0}}                 \* faulty
NoPassLeft(p) == {BurnAddress} \cup UNION {AddressesOf[v] : v \in {v \in Voters : p[v] <= 0}} \* faulty
BurnAddresses(p) == {BurnAddress} \cup UNION {AddressesOf[v] : v \in {v \in Voters : p[v] < 0}}

ApplyMinConditions(current) ==
  /\ phase = "conditions"
  /\ delta' \in [Voters -> PassDeltas]
  /\ passes' = [v \in Voters |-> current[v] + delta'[v]]
  /\ LET burned == {c \in result : c.to \in BurnAddresses(passes')}
     IN  result' = WithBurn(result \ burned, SumAmounts(burned))
  /\ phase' = "build"
  /\ UNCHANGED <<network, claims, k, merged, todo, rewards, penalties, burnAmount, published>>

FetchedPasses == \E current \in [Voters -> Passes] : ApplyMinConditions(current)
FetchFailed == ApplyMinConditions([v \in Voters |-> 0])

(* buildResults: there is no Merkle root without a claim. *)
BuildResults ==
  /\ phase = "build"
  /\ phase' = IF result = {} THEN "panic" ELSE "done"
  /\ published' = result
  /\ UNCHANGED <<network, claims, k, merged, todo, rewards, penalties, burnAmount, result, delta, passes>>

Next ==
  \/ MergeClaim \/ MergeDone
  \/ IndexClaim \/ IndexDone
  \/ SettleReward \/ SettleDone
  \/ FetchedPasses \/ FetchFailed
  \/ BuildResults

Spec == Init /\ [][Next]_vars
-----------------------------------------------------------------------------
(* What the epoch's claims say about an account, a beneficiary and a type. *)
AmountsAt(ns) == SumFunctionOnSet([n \in ns |-> claims[n].amount], ns)
Earned(a) == AmountsAt({n \in DOMAIN claims : Account(claims[n]) = a /\ claims[n].amount > 0})
Penalty(a) == AmountsAt({n \in DOMAIN claims : Account(claims[n]) = a /\ claims[n].amount < 0})
Funds == AmountsAt({n \in DOMAIN claims : claims[n].amount > 0})

(* The claims that survive the penalties ... *)
Survivors ==
  {[to |-> a.to, type |-> a.type, amount |-> Earned(a) + Penalty(a)] :
     a \in {a \in {Account(claims[n]) : n \in DOMAIN claims} :
              a.to # BurnAddress /\ Earned(a) > 0 /\ Earned(a) + Penalty(a) > 0}}

(* ... and those that survive the minimal conditions. *)
Kept == IF network = "flare" THEN {c \in Survivors : c.to \notin BurnAddresses(passes)} ELSE Survivors

(* Whatever the order of the map iterations, what is published is the same   *)
(* set of claims, each account's rewards less its own penalties, and the     *)
(* burn claim is the rest of the funds: providers that agree on the claims   *)
(* agree on the Merkle root.                                                 *)
OrderIndependent ==
  phase = "done" => published = WithBurn(Kept, Funds - SumAmounts(Kept))

(* The panic "Claim sum does not match result sum" (merge.go:116) cannot     *)
(* fire: the only way to fail is an epoch without any positive claim, for    *)
(* which there is no Merkle root.                                            *)
NoPanic == phase = "panic" => Funds = 0

(* A voter that met every condition keeps what survived its penalties, also  *)
(* when the passes of the previous epoch could not be fetched and everybody  *)
(* counts as having none (calculate.go:51).                                  *)
MetKeepsRewards ==
  phase = "done" /\ network = "flare" =>
    \A v \in Voters : delta[v] >= 0 => {c \in Survivors : c.to \in AddressesOf[v]} \subseteq published
=============================================================================
