----------------------------- MODULE LedgerProofs -----------------------------
(***************************************************************************)
(* What is published does not depend on the order of map iterations, for     *)
(* any list of claims, any voters and any passes.                           *)
(***************************************************************************)
EXTENDS Ledger, FoldLemmas

Amount == [n \in DOMAIN claims |-> claims[n].amount]
Accounts == {Account(claims[n]) : n \in DOMAIN claims}
Rewarded == {a \in Accounts : a.to # BurnAddress /\ Earned(a) > 0}
Burned == AmountsAt({n \in DOMAIN claims : claims[n].to = BurnAddress})
Left(a) == Earned(a) + Penalty(a)
Lost(a) == IF Left(a) > 0 THEN Earned(a) - Left(a) ELSE Earned(a)
LeftClaim(a) == [to |-> a.to, type |-> a.type, amount |-> Left(a)]

ClaimsOK == claims \in Seq(RawClaims) /\ network \in {"flare", "coston"}

(* The amounts under each key are those of the claims merged so far.         *)
Keys(m) == {SignKey(claims[n]) : n \in 1 .. m}
Under(x, m) == {n \in 1 .. m : SignKey(claims[n]) = x}
Merging ==
  /\ k \in 1 .. Len(claims) + 1
  /\ DOMAIN merged = Keys(k - 1)
  /\ \A x \in DOMAIN merged : merged[x] = AmountsAt(Under(x, k - 1))
  /\ phase # "merge" => k = Len(claims) + 1
  /\ phase = "merge" => /\ todo = {} /\ burnAmount = 0 /\ result = {}
                        /\ DOMAIN rewards = {} /\ DOMAIN penalties = {}

(* What is indexed so far. *)
ToReward(x) == x.to # BurnAddress /\ merged[x] > 0
ToPenalise(x) == x.to # BurnAddress /\ merged[x] <= 0
Indexing ==
  phase = "index" =>
    LET seen == DOMAIN merged \ todo
    IN  /\ todo \subseteq DOMAIN merged
        /\ result = {}
        /\ burnAmount = SumFunctionOnSet(merged, {x \in seen : x.to = BurnAddress})
        /\ DOMAIN rewards = {Account(x) : x \in {x \in seen : ToReward(x)}}
        /\ \A x \in seen : ToReward(x) => rewards[Account(x)] = merged[x]
        /\ DOMAIN penalties = {Account(x) : x \in {x \in seen : ToPenalise(x)}}
        /\ \A x \in seen : ToPenalise(x) => penalties[Account(x)] = merged[x]

(* What is settled so far. *)
Settling ==
  phase = "settle" =>
    LET seen == Rewarded \ todo
    IN  /\ todo \subseteq Rewarded
        /\ \A a \in Rewarded : rewards[a] = Earned(a)
                               /\ Penalty(a) = IF a \in DOMAIN penalties THEN penalties[a] ELSE 0
        /\ result = {LeftClaim(a) : a \in {a \in seen : Left(a) > 0}}
        /\ burnAmount = Burned + SumFunctionOnSet([a \in Rewarded |-> Lost(a)], seen)

(* The funds are kept, or claimed for the burn address. *)
Decided ==
  /\ phase \in {"merge", "index", "settle", "conditions", "build", "done", "panic"}
  /\ phase = "conditions" => network = "flare" /\ result = WithBurn(Survivors, Funds - SumAmounts(Survivors))
  /\ phase \in {"build", "done"} => result = WithBurn(Kept, Funds - SumAmounts(Kept))
  /\ phase = "done" => published = result
  /\ phase = "panic" => Funds = 0
  /\ phase \in {"build", "done"} /\ network = "flare" => \A v \in Voters : delta[v] >= 0 => passes[v] \in Nat

IInv == ClaimsOK /\ Merging /\ Indexing /\ Settling /\ Decided
-----------------------------------------------------------------------------
(* The sums of amounts: by position, and by account.                         *)
LEMMA AmountsAtSpec ==
  ASSUME ClaimsOK
  PROVE  /\ Len(claims) \in Nat /\ DOMAIN claims = 1 .. Len(claims) /\ IsFiniteSet(DOMAIN claims)
         /\ \A n \in DOMAIN claims : /\ claims[n] \in RawClaims /\ Amount[n] = claims[n].amount
                                     /\ Amount[n] \in Int
                                     /\ claims[n].to = BurnAddress => Amount[n] >= 0
         /\ \A ns \in SUBSET DOMAIN claims : AmountsAt(ns) = SumFunctionOnSet(Amount, ns) /\ AmountsAt(ns) \in Int
<1>1. Len(claims) \in Nat /\ DOMAIN claims = 1 .. Len(claims) /\ \A n \in DOMAIN claims : claims[n] \in RawClaims
  BY DEF ClaimsOK
<1>2. IsFiniteSet(DOMAIN claims)
  <2>1. 1 \in Int /\ Len(claims) \in Int
    BY <1>1
  <2> QED
    BY <1>1, <2>1, FS_Interval
<1>3. \A n \in DOMAIN claims : Amount[n] = claims[n].amount /\ Amount[n] \in Int
                               /\ (claims[n].to = BurnAddress => Amount[n] >= 0)
  BY <1>1, ClaimsAssumption DEF Amount
<1>4. ASSUME NEW ns \in SUBSET DOMAIN claims
      PROVE  AmountsAt(ns) = SumFunctionOnSet(Amount, ns) /\ AmountsAt(ns) \in Int
  <2> DEFINE g == [n \in ns |-> claims[n].amount]
  <2>1. IsFiniteSet(ns)
    BY <1>2, FS_Subset
  <2>2. \A n \in ns : Amount[n] \in Int /\ g[n] = Amount[n]
    BY <1>3
  <2>3. AmountsAt(ns) = SumFunctionOnSet(g, ns)
    BY DEF AmountsAt
  <2> HIDE DEF g
  <2>4. SumFunctionOnSet(Amount, ns) = SumFunctionOnSet(g, ns)
    BY <2>1, <2>2, SumEqual
  <2>5. SumFunctionOnSet(Amount, ns) \in Int
    BY <2>1, <2>2, SumInt
  <2> QED
    BY <2>3, <2>4, <2>5
<1> QED
  BY <1>1, <1>2, <1>3, <1>4

LEMMA AmountsAdd ==
  ASSUME ClaimsOK, NEW ns \in SUBSET DOMAIN claims, NEW m \in DOMAIN claims, m \notin ns
  PROVE  AmountsAt(ns \cup {m}) = AmountsAt(ns) + claims[m].amount
<1> DEFINE t == ns \cup {m}
<1>1. t \in SUBSET DOMAIN claims /\ m \in t /\ t \ {m} = ns
  OBVIOUS
<1>2. IsFiniteSet(t) /\ \A n \in t : Amount[n] \in Int
  BY <1>1, AmountsAtSpec, FS_Subset
<1> HIDE DEF t
<1>3. SumFunctionOnSet(Amount, t) = Amount[m] + SumFunctionOnSet(Amount, t \ {m})
  BY <1>1, <1>2, SumTakeOut
<1>4. AmountsAt(t) = claims[m].amount + AmountsAt(ns) /\ claims[m].amount \in Int /\ AmountsAt(ns) \in Int
  BY <1>1, <1>3, AmountsAtSpec
<1> QED
  BY <1>4 DEF t

(* A sum of positive amounts is positive, and what is nothing adds nothing.  *)
LEMMA AmountsSign ==
  ASSUME ClaimsOK, NEW ns \in SUBSET DOMAIN claims
  PROVE  /\ AmountsAt({}) = 0
         /\ (\A n \in ns : claims[n].amount > 0) /\ ns # {} => AmountsAt(ns) > 0
         /\ (\A n \in ns : claims[n].amount >= 0) => AmountsAt(ns) >= 0
         /\ (\A n \in ns : claims[n].amount <= 0) => AmountsAt(ns) <= 0
         /\ \A ms \in SUBSET ns : (\A n \in ns \ ms : claims[n].amount = 0) => AmountsAt(ns) = AmountsAt(ms)
<1>1. /\ IsFiniteSet(ns) /\ \A n \in ns : Amount[n] \in Int /\ Amount[n] = claims[n].amount
      /\ AmountsAt(ns) = SumFunctionOnSet(Amount, ns) /\ AmountsAt(ns) \in Int
  BY AmountsAtSpec, FS_Subset
<1>2. AmountsAt({}) = 0
  BY AmountsAtSpec, SumEmpty
<1>3. ASSUME \A n \in ns : claims[n].amount >= 0
      PROVE  AmountsAt(ns) >= 0 /\ \A n \in ns : claims[n].amount <= AmountsAt(ns)
  <2>1. \A n \in ns : Amount[n] \in Nat
    BY <1>1, <1>3
  <2> QED
    BY <1>1, <2>1, SumNat
<1>4. ASSUME \A n \in ns : claims[n].amount > 0, ns # {}
      PROVE  AmountsAt(ns) > 0
  <2>1. PICK n \in ns : TRUE
    BY <1>4
  <2>2. claims[n].amount > 0 /\ claims[n].amount \in Int
    BY <1>1, <1>4
  <2>3. \A m \in ns : claims[m].amount >= 0
    BY <1>1, <1>4
  <2>4. claims[n].amount <= AmountsAt(ns)
    BY <1>3, <2>3
  <2> QED
    BY <1>1, <2>2, <2>4
<1>5. ASSUME \A n \in ns : claims[n].amount <= 0
      PROVE  AmountsAt(ns) <= 0
  <2> DEFINE z == [n \in ns |-> 0]
  <2>1. \A n \in ns : Amount[n] \in Int /\ z[n] \in Int /\ Amount[n] <= z[n] /\ z[n] = 0
    BY <1>1, <1>5
  <2> HIDE DEF z
  <2>2. SumFunctionOnSet(Amount, ns) <= SumFunctionOnSet(z, ns)
    BY <1>1, <2>1, SumMono
  <2>3. SumFunctionOnSet(z, ns) = 0
    BY <1>1, <2>1, SumZero
  <2> QED
    BY <1>1, <2>2, <2>3
<1>6. ASSUME NEW ms \in SUBSET ns, \A n \in ns \ ms : claims[n].amount = 0
      PROVE  AmountsAt(ns) = AmountsAt(ms)
  <2>1. SumFunctionOnSet(Amount, ns) = SumFunctionOnSet(Amount, ms) + SumFunctionOnSet(Amount, ns \ ms)
    BY <1>1, SumSplit
  <2>2. IsFiniteSet(ns \ ms) /\ \A n \in ns \ ms : Amount[n] = 0
    BY <1>1, <1>6, FS_Subset
  <2>3. SumFunctionOnSet(Amount, ns \ ms) = 0
    BY <2>2, SumZero
  <2>4. AmountsAt(ms) = SumFunctionOnSet(Amount, ms) /\ AmountsAt(ms) \in Int
    <3>1. ms \in SUBSET DOMAIN claims
      OBVIOUS
    <3> QED
      BY <3>1, AmountsAtSpec
  <2> QED
    BY <1>1, <2>1, <2>3, <2>4
<1> QED
  BY <1>2, <1>3, <1>4, <1>5, <1>6
-----------------------------------------------------------------------------
(* The keys of an account: its rewards and its penalties.                    *)
PositiveKey(a) == [to |-> a.to, type |-> a.type, positive |-> TRUE]
OtherKey(a) == [to |-> a.to, type |-> a.type, positive |-> FALSE]

LEMMA KeySpec ==
  ASSUME NEW c
  PROVE  /\ Account(SignKey(c)) = Account(c) /\ SignKey(c).to = c.to
         /\ Account(c).to = c.to /\ Account(c) = [to |-> Account(c).to, type |-> Account(c).type]
         /\ c.amount > 0 => SignKey(c) = PositiveKey(Account(c))
         /\ ~(c.amount > 0) => SignKey(c) = OtherKey(Account(c))
         /\ \A d : Account(d) = Account(c) /\ (c.amount > 0) = (d.amount > 0) => SignKey(d) = SignKey(c)
         /\ \A d : SignKey(d) = SignKey(c) => Account(d) = Account(c) /\ d.to = c.to /\ (c.amount > 0) = (d.amount > 0)
<1> DEFINE pos(d) == d.amount > 0
<1>1. \A d : SignKey(d) = [to |-> d.to, type |-> d.type, positive |-> pos(d)]
  BY DEF SignKey
<1>2. \A d : Account(d) = [to |-> d.to, type |-> d.type]
  BY DEF Account
<1> HIDE DEF pos
<1>3. \A d : SignKey(d).to = d.to /\ SignKey(d).type = d.type /\ SignKey(d).positive = pos(d)
  BY <1>1
<1>4. \A d : Account(d).to = d.to /\ Account(d).type = d.type
  BY <1>2
<1>5. Account(SignKey(c)) = Account(c)
  BY <1>2, <1>3
<1>6. Account(c) = [to |-> Account(c).to, type |-> Account(c).type]
  BY <1>2, <1>4
<1>7. ASSUME NEW d, Account(d) = Account(c), pos(c) = pos(d) PROVE SignKey(d) = SignKey(c)
  BY <1>1, <1>4, <1>7
<1>8. ASSUME NEW d, SignKey(d) = SignKey(c) PROVE Account(d) = Account(c) /\ d.to = c.to /\ pos(c) = pos(d)
  <2>1. d.to = c.to /\ d.type = c.type /\ pos(d) = pos(c)
    BY <1>3, <1>8
  <2> QED
    BY <1>2, <2>1
<1>9. pos(c) = TRUE => SignKey(c) = PositiveKey(Account(c))
  BY <1>1, <1>4 DEF PositiveKey
<1>10. pos(c) = FALSE => SignKey(c) = OtherKey(Account(c))
  BY <1>1, <1>4 DEF OtherKey
<1>11. (pos(c) <=> pos(c) = TRUE) /\ (~pos(c) <=> pos(c) = FALSE)
  BY DEF pos
<1> QED
  BY <1>3, <1>4, <1>5, <1>6, <1>7, <1>8, <1>9, <1>10, <1>11 DEF pos

(* When all claims are merged, the keys hold what each account earned and    *)
(* what it is penalised for.                                                *)
LEMMA MergedSpec ==
  ASSUME ClaimsOK, Merging, phase # "merge"
  PROVE  /\ IsFiniteSet(DOMAIN merged)
         /\ \A x \in DOMAIN merged :
              /\ merged[x] \in Int /\ Account(x) \in Accounts /\ Account(x).to = x.to
              /\ merged[x] > 0 => x = PositiveKey(Account(x)) /\ merged[x] = Earned(Account(x))
              /\ merged[x] <= 0 => x = OtherKey(Account(x)) /\ merged[x] = Penalty(Account(x))
              /\ x.to = BurnAddress => merged[x] >= 0
         /\ \A a \in Accounts :
              /\ Earned(a) \in Nat /\ Penalty(a) \in Int /\ Penalty(a) <= 0
              /\ Earned(a) > 0 => \E x \in DOMAIN merged : Account(x) = a /\ merged[x] > 0
              /\ Penalty(a) < 0 => \E x \in DOMAIN merged : Account(x) = a /\ merged[x] <= 0
<1> DEFINE L == Len(claims)
<1>1. /\ L \in Nat /\ DOMAIN claims = 1 .. L /\ IsFiniteSet(DOMAIN claims) /\ k - 1 = L
      /\ \A n \in DOMAIN claims : claims[n].amount \in Int /\ (claims[n].to = BurnAddress => claims[n].amount >= 0)
  BY AmountsAtSpec DEF Merging
<1>2. DOMAIN merged = {SignKey(claims[n]) : n \in DOMAIN claims}
      /\ \A x \in DOMAIN merged : merged[x] = AmountsAt({n \in DOMAIN claims : SignKey(claims[n]) = x})
  <2>1. Keys(k - 1) = {SignKey(claims[n]) : n \in DOMAIN claims}
    BY <1>1 DEF Keys
  <2>2. \A x : Under(x, k - 1) = {n \in DOMAIN claims : SignKey(claims[n]) = x}
    BY <1>1 DEF Under
  <2> QED
    BY <2>1, <2>2 DEF Merging
<1> HIDE DEF L
<1>3. IsFiniteSet(DOMAIN merged)
  <2> DEFINE key == [n \in DOMAIN claims |-> SignKey(claims[n])]
  <2>1. key \in Surjection(DOMAIN claims, DOMAIN merged)
    BY <1>2 DEF Surjection
  <2> HIDE DEF key
  <2> QED
    BY <1>1, <2>1, FS_Surjection
<1>4. ASSUME NEW x \in DOMAIN merged
      PROVE  /\ merged[x] \in Int /\ Account(x) \in Accounts /\ Account(x).to = x.to
             /\ merged[x] > 0 => x = PositiveKey(Account(x)) /\ merged[x] = Earned(Account(x))
             /\ merged[x] <= 0 => x = OtherKey(Account(x)) /\ merged[x] = Penalty(Account(x))
             /\ x.to = BurnAddress => merged[x] >= 0
  <2>1. PICK m \in DOMAIN claims : x = SignKey(claims[m])
    BY <1>2
  <2> DEFINE c == claims[m]
             U == {n \in DOMAIN claims : SignKey(claims[n]) = x}
             a == Account(c)
  <2>2. Account(x) = a /\ a \in Accounts /\ a.to = x.to /\ x.to = c.to
    BY <2>1, KeySpec DEF Accounts
  <2>3. m \in U /\ U \in SUBSET DOMAIN claims /\ merged[x] = AmountsAt(U)
    BY <1>2, <2>1
  <2>4. AmountsAt(U) \in Int
    BY <2>3, AmountsAtSpec
  <2>5. ASSUME c.amount > 0
        PROVE  merged[x] > 0 /\ x = PositiveKey(a) /\ merged[x] = Earned(a)
    <3>1. U = {n \in DOMAIN claims : Account(claims[n]) = a /\ claims[n].amount > 0}
      <4>1. \A n \in DOMAIN claims : SignKey(claims[n]) = x => Account(claims[n]) = a /\ claims[n].amount > 0
        BY <2>1, <2>5, KeySpec
      <4>2. \A n \in DOMAIN claims : Account(claims[n]) = a /\ claims[n].amount > 0 => SignKey(claims[n]) = x
        <5> SUFFICES ASSUME NEW n \in DOMAIN claims, Account(claims[n]) = a, claims[n].amount > 0
                     PROVE  SignKey(claims[n]) = x
          OBVIOUS
        <5>1. (c.amount > 0) = (claims[n].amount > 0)
          BY <2>5
        <5> QED
          BY <2>1, <5>1, KeySpec
      <4> QED
        BY <4>1, <4>2
    <3>2. \A n \in U : claims[n].amount > 0
      BY <3>1
    <3>3. AmountsAt(U) > 0
      <4> HIDE DEF U
      <4> QED
        BY <2>3, <3>2, AmountsSign
    <3>4. AmountsAt(U) = Earned(a)
      BY <3>1 DEF Earned
    <3> QED
      BY <2>1, <2>3, <2>5, <3>3, <3>4, KeySpec
  <2>6. ASSUME ~(c.amount > 0)
        PROVE  merged[x] <= 0 /\ x = OtherKey(a) /\ merged[x] = Penalty(a)
    <3> DEFINE P == {n \in DOMAIN claims : Account(claims[n]) = a /\ claims[n].amount < 0}
    <3>1. \A n \in DOMAIN claims : SignKey(claims[n]) = x => Account(claims[n]) = a /\ ~(claims[n].amount > 0)
      BY <2>1, <2>6, KeySpec
    <3>2. \A n \in DOMAIN claims : Account(claims[n]) = a /\ claims[n].amount < 0 => SignKey(claims[n]) = x
      <4> SUFFICES ASSUME NEW n \in DOMAIN claims, Account(claims[n]) = a, claims[n].amount < 0
                   PROVE  SignKey(claims[n]) = x
        OBVIOUS
      <4>1. ~(claims[n].amount > 0)
        BY <1>1
      <4>2. (c.amount > 0) = (claims[n].amount > 0)
        BY <2>6, <4>1
      <4> QED
        BY <2>1, <4>2, KeySpec
    <3>3. P \subseteq U /\ (\A n \in U \ P : claims[n].amount = 0) /\ \A n \in U : claims[n].amount <= 0
      BY <1>1, <3>1, <3>2
    <3>4. AmountsAt(U) <= 0 /\ AmountsAt(U) = AmountsAt(P)
      <4>1. P \in SUBSET U
        BY <3>3
      <4> HIDE DEF U, P
      <4> QED
        BY <2>3, <3>3, <4>1, AmountsSign
    <3>5. AmountsAt(P) = Penalty(a)
      BY DEF Penalty
    <3> QED
      BY <2>1, <2>3, <2>6, <3>4, <3>5, KeySpec
  <2>7. x.to = BurnAddress => merged[x] >= 0
    <3> SUFFICES ASSUME x.to = BurnAddress PROVE merged[x] >= 0
      OBVIOUS
    <3>1. \A n \in U : claims[n].amount >= 0
      BY <1>1, <2>1, KeySpec
    <3> HIDE DEF U
    <3> QED
      BY <2>3, <3>1, AmountsSign
  <2> HIDE DEF U, c, a
  <2> QED
    BY <2>2, <2>3, <2>4, <2>5, <2>6, <2>7
<1>5. ASSUME NEW a \in Accounts
      PROVE  /\ Earned(a) \in Nat /\ Penalty(a) \in Int /\ Penalty(a) <= 0
             /\ Earned(a) > 0 => \E x \in DOMAIN merged : Account(x) = a /\ merged[x] > 0
             /\ Penalty(a) < 0 => \E x \in DOMAIN merged : Account(x) = a /\ merged[x] <= 0
  <2> DEFINE E == {n \in DOMAIN claims : Account(claims[n]) = a /\ claims[n].amount > 0}
             P == {n \in DOMAIN claims : Account(claims[n]) = a /\ claims[n].amount < 0}
  <2>1. Earned(a) = AmountsAt(E) /\ Penalty(a) = AmountsAt(P)
    BY DEF Earned, Penalty
  <2>2. /\ E \in SUBSET DOMAIN claims /\ P \in SUBSET DOMAIN claims
        /\ \A n \in E : claims[n].amount >= 0 /\ claims[n].amount > 0 /\ Account(claims[n]) = a
        /\ \A n \in P : claims[n].amount <= 0 /\ claims[n].amount < 0 /\ Account(claims[n]) = a
    BY <1>1
  <2> HIDE DEF E, P
  <2>3. AmountsAt(E) \in Int /\ AmountsAt(P) \in Int
    BY <2>2, AmountsAtSpec
  <2>4. AmountsAt(E) >= 0 /\ AmountsAt(P) <= 0 /\ AmountsAt({}) = 0
    BY <2>2, AmountsSign
  <2>5. ASSUME Earned(a) > 0 PROVE \E x \in DOMAIN merged : Account(x) = a /\ merged[x] > 0
    <3>1. PICK n \in E : TRUE
      BY <2>1, <2>4, <2>5
    <3> DEFINE x == SignKey(claims[n])
    <3>2. x \in DOMAIN merged /\ Account(x) = a
      BY <1>2, <2>2, KeySpec
    <3>3. x = PositiveKey(a)
      BY <2>2, KeySpec
    <3>4. PositiveKey(a) # OtherKey(a)
      <4>1. PositiveKey(a).positive = TRUE /\ OtherKey(a).positive = FALSE
        BY DEF PositiveKey, OtherKey
      <4> QED
        BY <4>1
    <3> HIDE DEF x
    <3>5. merged[x] > 0
      BY <1>4, <3>2, <3>3, <3>4
    <3> QED
      BY <3>2, <3>5
  <2>6. ASSUME Penalty(a) < 0 PROVE \E x \in DOMAIN merged : Account(x) = a /\ merged[x] <= 0
    <3>1. PICK n \in P : TRUE
      BY <2>1, <2>4, <2>6
    <3> DEFINE x == SignKey(claims[n])
    <3>2. x \in DOMAIN merged /\ Account(x) = a
      BY <1>2, <2>2, KeySpec
    <3>3. x = OtherKey(a)
      <4>1. ~(claims[n].amount > 0)
        BY <1>1, <2>2
      <4> QED
        BY <2>2, <4>1, KeySpec
    <3>4. PositiveKey(a) # OtherKey(a)
      <4>1. PositiveKey(a).positive = TRUE /\ OtherKey(a).positive = FALSE
        BY DEF PositiveKey, OtherKey
      <4> QED
        BY <4>1
    <3> HIDE DEF x
    <3>5. merged[x] <= 0
      BY <1>4, <3>2, <3>3, <3>4
    <3> QED
      BY <3>2, <3>5
  <2> QED
    BY <2>1, <2>3, <2>4, <2>5, <2>6
<1> QED
  BY <1>3, <1>4, <1>5
-----------------------------------------------------------------------------
(* What is merged under the keys of some claims is the sum of these.         *)
LEMMA KeyTotals ==
  ASSUME ClaimsOK, Merging, phase # "merge", NEW P \in SUBSET DOMAIN claims,
         \A m, n \in DOMAIN claims : SignKey(claims[m]) = SignKey(claims[n]) /\ m \in P => n \in P,
         NEW K, K = {SignKey(claims[n]) : n \in P}
  PROVE  K \subseteq DOMAIN merged /\ SumFunctionOnSet(merged, K) = AmountsAt(P)
<1> DEFINE L == Len(claims)
           V == DOMAIN merged
           D == DOMAIN claims
           key == [n \in D |-> SignKey(claims[n])]
           p == [n \in D |-> IF n \in P THEN Amount[n] ELSE 0]
           own == [x \in V |-> IF x \in K THEN merged[x] ELSE 0]
           U(x) == {n \in 1 .. L : key[n] = x}
           group == [x \in V |-> U(x)]
<1>1. /\ L \in Nat /\ D = 1 .. L /\ IsFiniteSet(D) /\ k - 1 = L
      /\ \A n \in D : Amount[n] \in Int
      /\ \A ns \in SUBSET D : AmountsAt(ns) = SumFunctionOnSet(Amount, ns)
  BY AmountsAtSpec DEF Merging
<1>2. \A n \in D : key[n] = SignKey(claims[n]) /\ p[n] = (IF n \in P THEN Amount[n] ELSE 0) /\ p[n] \in Int
  BY <1>1
<1>3. V = {key[n] : n \in D} /\ \A x \in V : merged[x] = AmountsAt(U(x))
  <2>1. Keys(k - 1) = {key[n] : n \in D}
    BY <1>1, <1>2 DEF Keys
  <2>2. \A x : Under(x, k - 1) = U(x)
    BY <1>1, <1>2 DEF Under
  <2> QED
    BY <2>1, <2>2 DEF Merging
<1>4. IsFiniteSet(V) /\ \A x \in V : merged[x] \in Int
  BY MergedSpec
<1>5. K = {key[n] : n \in P} /\ K \subseteq V /\ \A m, n \in D : key[m] = key[n] /\ m \in P => n \in P
  <2>1. \A n \in D : key[n] = SignKey(claims[n])
    BY <1>2
  <2>2. P \subseteq D
    OBVIOUS
  <2>3. \A m, n \in D : SignKey(claims[m]) = SignKey(claims[n]) /\ m \in P => n \in P
    OBVIOUS
  <2> HIDE DEF key
  <2>4. K = {key[n] : n \in P}
    BY <2>1, <2>2
  <2> QED
    BY <1>3, <2>1, <2>2, <2>3, <2>4
<1>6. \A x \in V : own[x] = IF x \in K THEN merged[x] ELSE 0
  OBVIOUS
<1> HIDE DEF key, p, own, D, V, L
<1>7. ASSUME NEW x \in V PROVE own[x] = SumFunctionOnSet(p, U(x))
  <2>1. U(x) \in SUBSET D /\ IsFiniteSet(U(x)) /\ merged[x] = SumFunctionOnSet(Amount, U(x))
    <3>1. U(x) \in SUBSET D
      BY <1>1
    <3> QED
      BY <1>1, <1>3, <3>1, FS_Subset
  <2>2. CASE x \in K
    <3>1. \A n \in U(x) : n \in P
      <4>1. PICK m \in P : key[m] = x
        BY <1>5, <2>2
      <4>2. m \in D /\ \A n \in U(x) : n \in D /\ key[n] = key[m]
        BY <1>1, <4>1 DEF D
      <4> QED
        BY <1>5, <4>1, <4>2
    <3>2. \A n \in U(x) : Amount[n] \in Int /\ p[n] = Amount[n]
      BY <1>1, <1>2, <2>1, <3>1
    <3> HIDE DEF U
    <3>3. SumFunctionOnSet(Amount, U(x)) = SumFunctionOnSet(p, U(x))
      BY <2>1, <3>2, SumEqual
    <3> QED
      BY <1>6, <2>1, <2>2, <3>3
  <2>3. CASE x \notin K
    <3>1. \A n \in U(x) : n \notin P
      BY <1>5, <2>3
    <3>2. \A n \in U(x) : p[n] = 0
      BY <1>2, <2>1, <3>1
    <3> HIDE DEF U
    <3>3. SumFunctionOnSet(p, U(x)) = 0
      BY <2>1, <3>2, SumZero
    <3> QED
      BY <1>6, <2>3, <3>3
  <2> QED
    BY <2>2, <2>3
<1>8. SumFunctionOnSet(own, V) = SumFunctionOnSet(p, 1 .. L)
  <2>1. \A n \in 1 .. L : key[n] \in V /\ p[n] \in Int
    BY <1>1, <1>2, <1>3
  <2>2. \A x \in V : \A n : n \in group[x] <=> n \in 1 .. L /\ key[n] = x
    OBVIOUS
  <2>3. \A x \in V : own[x] = SumFunctionOnSet(p, group[x])
    BY <1>7
  <2>4. IsFiniteSet(V) /\ L \in Nat
    BY <1>1, <1>4
  <2> HIDE DEF group, U
  <2> QED
    BY <2>1, <2>2, <2>3, <2>4, SumByKey
<1>9. SumFunctionOnSet(Amount, P) = SumFunctionOnSet(p, D)
  <2>1. P \in SUBSET D
    BY DEF D
  <2> QED
    BY <1>1, <1>2, <2>1, SumWhere
<1>10. SumFunctionOnSet(merged, K) = SumFunctionOnSet(own, V)
  BY <1>4, <1>5, <1>6, SumWhere
<1>11. AmountsAt(P) = SumFunctionOnSet(Amount, P)
  BY <1>1 DEF D
<1> QED
  BY <1>1, <1>5, <1>8, <1>9, <1>10, <1>11 DEF V

LEMMA AccountsSpec ==
  ASSUME ClaimsOK
  PROVE  IsFiniteSet(Accounts) /\ IsFiniteSet(Rewarded) /\ Rewarded \subseteq Accounts
         /\ \A a \in Accounts : a = [to |-> a.to, type |-> a.type]
<1> DEFINE own == [n \in DOMAIN claims |-> Account(claims[n])]
<1>1. own \in Surjection(DOMAIN claims, Accounts)
  BY DEF Surjection, Accounts
<1>2. IsFiniteSet(DOMAIN claims)
  BY AmountsAtSpec
<1> HIDE DEF own
<1>3. IsFiniteSet(Accounts)
  BY <1>1, <1>2, FS_Surjection
<1>4. Rewarded \subseteq Accounts
  BY DEF Rewarded
<1>5. \A a \in Accounts : a = [to |-> a.to, type |-> a.type]
  BY KeySpec DEF Accounts
<1> QED
  BY <1>3, <1>4, <1>5, FS_Subset

(* The funds are those of the burn address and what is earned.               *)
LEMMA FundsSpec ==
  ASSUME ClaimsOK, Merging, phase # "merge"
  PROVE  /\ Burned \in Nat /\ Funds \in Nat
         /\ Burned = SumFunctionOnSet(merged, {x \in DOMAIN merged : x.to = BurnAddress})
         /\ Funds = SumFunctionOnSet(merged, {x \in DOMAIN merged : merged[x] > 0})
         /\ Funds = Burned + SumFunctionOnSet([a \in Rewarded |-> Earned(a)], Rewarded)
<1> DEFINE D == DOMAIN claims
           A == {n \in D : claims[n].amount > 0}
           B == {n \in D : claims[n].to = BurnAddress}
           R == {n \in D : claims[n].to # BurnAddress /\ claims[n].amount > 0}
           key == [n \in D |-> Account(claims[n])]
           p == [n \in D |-> IF n \in R THEN Amount[n] ELSE 0]
           earned == [a \in Rewarded |-> Earned(a)]
           own == [a \in Accounts |-> IF a \in Rewarded THEN Earned(a) ELSE 0]
           U(a) == {n \in 1 .. Len(claims) : key[n] = a}
           group == [a \in Accounts |-> U(a)]
<1>1. /\ Len(claims) \in Nat /\ D = 1 .. Len(claims) /\ IsFiniteSet(D) /\ k - 1 = Len(claims)
      /\ \A n \in D : Amount[n] \in Int /\ Amount[n] = claims[n].amount
                      /\ (claims[n].to = BurnAddress => claims[n].amount >= 0)
      /\ \A ns \in SUBSET D : AmountsAt(ns) = SumFunctionOnSet(Amount, ns) /\ AmountsAt(ns) \in Int
  BY AmountsAtSpec DEF Merging
<1>2. \A m, n \in D : SignKey(claims[m]) = SignKey(claims[n]) =>
                        claims[m].to = claims[n].to /\ ((claims[m].amount > 0) <=> (claims[n].amount > 0))
  BY KeySpec
<1>3. DOMAIN merged = {SignKey(claims[n]) : n \in D}
  <2>1. Keys(k - 1) = {SignKey(claims[n]) : n \in D}
    BY <1>1 DEF Keys
  <2> QED
    BY <2>1 DEF Merging
<1>4. Burned = SumFunctionOnSet(merged, {x \in DOMAIN merged : x.to = BurnAddress})
  <2>1. {x \in DOMAIN merged : x.to = BurnAddress} = {SignKey(claims[n]) : n \in B}
    <3>1. \A n \in D : SignKey(claims[n]).to = claims[n].to
      BY KeySpec
    <3> HIDE DEF D
    <3> QED
      BY <1>3, <3>1
  <2>2. \A m, n \in D : SignKey(claims[m]) = SignKey(claims[n]) /\ m \in B => n \in B
    BY <1>2
  <2>3. B \in SUBSET D
    OBVIOUS
  <2>4. Burned = AmountsAt(B)
    BY DEF Burned
  <2> HIDE DEF B
  <2>5. SumFunctionOnSet(merged, {x \in DOMAIN merged : x.to = BurnAddress}) = AmountsAt(B)
    BY <2>1, <2>2, <2>3, KeyTotals
  <2> QED
    BY <2>4, <2>5
<1>5. Funds = SumFunctionOnSet(merged, {x \in DOMAIN merged : merged[x] > 0})
  <2>1. \A n \in D : merged[SignKey(claims[n])] > 0 <=> claims[n].amount > 0
    <3> TAKE n \in D
    <3> DEFINE x == SignKey(claims[n])   a == Account(claims[n])
    <3>1. x \in DOMAIN merged /\ Account(x) = a
      BY <1>3, KeySpec
    <3>2. merged[x] \in Int /\ (merged[x] > 0 => x = PositiveKey(a)) /\ (merged[x] <= 0 => x = OtherKey(a))
      BY <3>1, MergedSpec
    <3>3. PositiveKey(a) # OtherKey(a)
      <4>1. PositiveKey(a).positive = TRUE /\ OtherKey(a).positive = FALSE
        BY DEF PositiveKey, OtherKey
      <4> QED
        BY <4>1
    <3>4. claims[n].amount > 0 => x = PositiveKey(a)
      BY KeySpec
    <3>5. ~(claims[n].amount > 0) => x = OtherKey(a)
      BY KeySpec
    <3> HIDE DEF x, a
    <3>6. merged[x] > 0 <=> claims[n].amount > 0
      BY <3>2, <3>3, <3>4, <3>5
    <3> QED
      BY <3>6 DEF x
  <2>2. {x \in DOMAIN merged : merged[x] > 0} = {SignKey(claims[n]) : n \in A}
    BY <1>3, <2>1
  <2>3. \A m, n \in D : SignKey(claims[m]) = SignKey(claims[n]) /\ m \in A => n \in A
    BY <1>2
  <2>4. A \in SUBSET D
    OBVIOUS
  <2>5. Funds = AmountsAt(A)
    BY DEF Funds
  <2> HIDE DEF A
  <2>6. SumFunctionOnSet(merged, {x \in DOMAIN merged : merged[x] > 0}) = AmountsAt(A)
    BY <2>2, <2>3, <2>4, KeyTotals
  <2> QED
    BY <2>5, <2>6
<1>6. Burned \in Nat /\ Funds \in Nat
  <2>1. B \in SUBSET D /\ A \in SUBSET D /\ (\A n \in B : claims[n].amount >= 0) /\ \A n \in A : claims[n].amount >= 0
    BY <1>1
  <2>2. Burned = AmountsAt(B) /\ Funds = AmountsAt(A)
    BY DEF Burned, Funds
  <2> HIDE DEF A, B
  <2>3. AmountsAt(B) >= 0 /\ AmountsAt(A) >= 0
    BY <2>1, AmountsSign
  <2> QED
    BY <1>1, <2>1, <2>2, <2>3
<1>7. Funds = Burned + AmountsAt(R)
  <2> DEFINE BA == {n \in B : claims[n].amount > 0}
  <2>1. R \in SUBSET A /\ A \ R = BA /\ A \in SUBSET D /\ IsFiniteSet(A) /\ BA \in SUBSET B /\ B \in SUBSET D
    BY <1>1, FS_Subset
  <2>2. \A n \in B \ BA : claims[n].amount = 0
    BY <1>1
  <2>3. Burned = AmountsAt(B) /\ Funds = AmountsAt(A)
    BY DEF Burned, Funds
  <2> HIDE DEF A, B, R, BA
  <2>4. SumFunctionOnSet(Amount, A) = SumFunctionOnSet(Amount, R) + SumFunctionOnSet(Amount, BA)
    <3>1. \A n \in A : Amount[n] \in Int
      BY <1>1, <2>1
    <3>2. SumFunctionOnSet(Amount, A) = SumFunctionOnSet(Amount, R) + SumFunctionOnSet(Amount, A \ R)
      BY <2>1, <3>1, SumSplit
    <3> QED
      BY <2>1, <3>2
  <2>5. AmountsAt(B) = AmountsAt(BA)
    BY <2>1, <2>2, AmountsSign
  <2>6. /\ AmountsAt(A) = SumFunctionOnSet(Amount, A) /\ AmountsAt(R) = SumFunctionOnSet(Amount, R)
        /\ AmountsAt(BA) = SumFunctionOnSet(Amount, BA) /\ AmountsAt(R) \in Int /\ AmountsAt(BA) \in Int
    <3>1. R \in SUBSET D /\ BA \in SUBSET D
      BY <2>1
    <3> QED
      BY <1>1, <2>1, <3>1
  <2> QED
    BY <2>3, <2>4, <2>5, <2>6
<1>8. /\ IsFiniteSet(Accounts) /\ Rewarded \in SUBSET Accounts
      /\ \A a \in Accounts : Earned(a) \in Nat
      /\ \A a \in Accounts : a.to # BurnAddress /\ Earned(a) > 0 <=> a \in Rewarded
      /\ \A a \in Rewarded : earned[a] = Earned(a)
  BY AccountsSpec, MergedSpec DEF Rewarded
<1>9. /\ \A n \in D : key[n] = Account(claims[n]) /\ key[n] \in Accounts /\ key[n].to = claims[n].to
      /\ \A n \in D : p[n] = (IF n \in R THEN Amount[n] ELSE 0) /\ p[n] \in Int
      /\ \A a \in Accounts : own[a] = IF a \in Rewarded THEN Earned(a) ELSE 0
  BY <1>1, KeySpec DEF Accounts
<1> HIDE DEF key, p, own, earned, D
<1>10. ASSUME NEW a \in Accounts PROVE own[a] = SumFunctionOnSet(p, U(a))
  <2> DEFINE E == {n \in D : key[n] = a /\ claims[n].amount > 0}
  <2>1. U(a) \in SUBSET D /\ E \in SUBSET U(a) /\ IsFiniteSet(U(a))
    <3>1. U(a) \in SUBSET D /\ E \in SUBSET U(a)
      BY <1>1
    <3> HIDE DEF E, U
    <3> QED
      BY <1>1, <3>1, FS_Subset
  <2>2. Earned(a) = AmountsAt(E)
    <3>1. E = {n \in DOMAIN claims : Account(claims[n]) = a /\ claims[n].amount > 0}
      BY <1>9 DEF D
    <3> QED
      BY <3>1 DEF Earned
  <2>3. CASE a.to # BurnAddress
    <3>1. \A n \in U(a) : p[n] = IF n \in E THEN Amount[n] ELSE 0
      BY <1>1, <1>9, <2>3
    <3>2. \A n \in U(a) : Amount[n] \in Int
      BY <1>1
    <3> HIDE DEF U, E
    <3>3. SumFunctionOnSet(Amount, E) = SumFunctionOnSet(p, U(a))
      BY <2>1, <3>1, <3>2, SumWhere
    <3>4. E \in SUBSET D
      BY <2>1
    <3>5. Earned(a) = SumFunctionOnSet(p, U(a))
      BY <1>1, <2>2, <3>3, <3>4
    <3>6. a \notin Rewarded => Earned(a) = 0
      BY <1>8, <2>3
    <3> QED
      BY <1>9, <3>5, <3>6
  <2>4. CASE a.to = BurnAddress
    <3>1. \A n \in U(a) : p[n] = 0
      BY <1>1, <1>9, <2>4
    <3> HIDE DEF U, E
    <3>2. SumFunctionOnSet(p, U(a)) = 0
      BY <2>1, <3>1, SumZero
    <3>3. a \notin Rewarded
      BY <1>8, <2>4
    <3> QED
      BY <1>9, <3>2, <3>3
  <2> QED
    BY <2>3, <2>4
<1>11. SumFunctionOnSet(own, Accounts) = SumFunctionOnSet(p, 1 .. Len(claims))
  <2> DEFINE N == Len(claims)
             V == Accounts
  <2>1. \A n \in 1 .. N : key[n] \in V /\ p[n] \in Int
    BY <1>1, <1>9
  <2>2. \A a \in V : \A n : n \in group[a] <=> n \in 1 .. N /\ key[n] = a
    OBVIOUS
  <2>3. \A a \in V : own[a] = SumFunctionOnSet(p, group[a])
    BY <1>10
  <2>4. IsFiniteSet(V) /\ N \in Nat
    BY <1>1, <1>8
  <2> HIDE DEF group, U, N, V, A, B, R
  <2>5. SumFunctionOnSet(own, V) = SumFunctionOnSet(p, 1 .. N)
    BY <2>1, <2>2, <2>3, <2>4, SumByKey, SMTT(30)
  <2> QED
    BY <2>5 DEF N, V
<1>12. SumFunctionOnSet(Amount, R) = SumFunctionOnSet(p, D)
  <2>1. R \in SUBSET D /\ \A n \in D : Amount[n] \in Int
    BY <1>1
  <2>2. \A n \in D : p[n] = IF n \in R THEN Amount[n] ELSE 0
    BY <1>9
  <2>3. IsFiniteSet(D)
    BY <1>1
  <2> HIDE DEF R
  <2> QED
    BY <2>1, <2>2, <2>3, SumWhere
<1>13. SumFunctionOnSet(earned, Rewarded) = SumFunctionOnSet(own, Accounts)
  <2> DEFINE all == [a \in Accounts |-> Earned(a)]
  <2>1. (\A a \in Accounts : all[a] \in Int /\ own[a] = IF a \in Rewarded THEN all[a] ELSE 0)
        /\ \A a \in Rewarded : all[a] \in Int /\ earned[a] = all[a]
    BY <1>8, <1>9
  <2> HIDE DEF all
  <2>2. SumFunctionOnSet(all, Rewarded) = SumFunctionOnSet(own, Accounts)
    BY <1>8, <2>1, SumWhere
  <2>3. SumFunctionOnSet(all, Rewarded) = SumFunctionOnSet(earned, Rewarded)
    BY <2>1, AccountsSpec, SumEqual
  <2> QED
    BY <2>2, <2>3
<1>14. AmountsAt(R) = SumFunctionOnSet(Amount, R)
  <2>1. R \in SUBSET D
    BY DEF D
  <2> QED
    BY <1>1, <2>1
<1> QED
  BY <1>1, <1>4, <1>5, <1>6, <1>7, <1>11, <1>12, <1>13, <1>14 DEF earned
-----------------------------------------------------------------------------
(* The amount of some claims.                                                *)
LEMMA AmountsOfSome ==
  ASSUME NEW cs, IsFiniteSet(cs), \A c \in cs : c.amount \in Int
  PROVE  /\ SumAmounts(cs) \in Int
         /\ (\A c \in cs : c.amount >= 0) => SumAmounts(cs) \in Nat
         /\ (\A c \in cs : c.amount > 0) /\ cs # {} => SumAmounts(cs) > 0
         /\ \A ds \in SUBSET cs : SumAmounts(cs) = SumAmounts(ds) + SumAmounts(cs \ ds)
<1> DEFINE g(ds) == [c \in ds |-> c.amount]
<1>1. \A ds : SumAmounts(ds) = SumFunctionOnSet(g(ds), ds)
  BY DEF SumAmounts
<1>2. \A ds \in SUBSET cs : IsFiniteSet(ds) /\ \A c \in ds : g(ds)[c] = c.amount /\ g(ds)[c] \in Int /\ g(cs)[c] = g(ds)[c]
  BY FS_Subset
<1>3. cs \in SUBSET cs
  OBVIOUS
<1> HIDE DEF g
<1>4. SumAmounts(cs) \in Int
  BY <1>1, <1>2, <1>3, SumInt
<1>5. ASSUME \A c \in cs : c.amount >= 0
      PROVE  SumAmounts(cs) \in Nat /\ \A c \in cs : c.amount <= SumAmounts(cs)
  <2>1. \A c \in cs : g(cs)[c] \in Nat /\ g(cs)[c] = c.amount
    BY <1>2, <1>3, <1>5
  <2>2. SumFunctionOnSet(g(cs), cs) \in Nat /\ \A c \in cs : g(cs)[c] <= SumFunctionOnSet(g(cs), cs)
    BY <2>1, SumNat
  <2> QED
    BY <1>1, <2>1, <2>2
<1>6. ASSUME \A c \in cs : c.amount > 0, cs # {}
      PROVE  SumAmounts(cs) > 0
  <2>1. PICK c \in cs : TRUE
    BY <1>6
  <2>2. c.amount > 0 /\ c.amount \in Int /\ \A d \in cs : d.amount >= 0
    BY <1>6
  <2> QED
    BY <1>4, <1>5, <2>2
<1>7. ASSUME NEW ds \in SUBSET cs
      PROVE  SumAmounts(cs) = SumAmounts(ds) + SumAmounts(cs \ ds)
  <2>1. cs \ ds \in SUBSET cs
    OBVIOUS
  <2>2. SumFunctionOnSet(g(cs), cs) = SumFunctionOnSet(g(cs), ds) + SumFunctionOnSet(g(cs), cs \ ds)
    <3>1. \A c \in cs : g(cs)[c] \in Int
      BY <1>2, <1>3
    <3> QED
      BY <3>1, SumSplit
  <2>3. \A es \in SUBSET cs : SumFunctionOnSet(g(cs), es) = SumFunctionOnSet(g(es), es)
    <3> SUFFICES ASSUME NEW es \in SUBSET cs PROVE SumFunctionOnSet(g(cs), es) = SumFunctionOnSet(g(es), es)
      OBVIOUS
    <3> DEFINE f == g(cs)   h == g(es)
    <3>1. IsFiniteSet(es) /\ \A c \in es : f[c] \in Int /\ h[c] = f[c]
      BY <1>2
    <3> HIDE DEF f, h
    <3>2. SumFunctionOnSet(f, es) = SumFunctionOnSet(h, es)
      BY <3>1, SumEqual
    <3> QED
      BY <3>2 DEF f, h
  <2> QED
    BY <1>1, <2>1, <2>2, <2>3
<1> QED
  BY <1>4, <1>5, <1>6, <1>7

(* A burn claim adds its amount to the claims of others.                     *)
LEMMA AddBurn ==
  ASSUME NEW cs, IsFiniteSet(cs), \A c \in cs : c.amount \in Int /\ c.to # BurnAddress, NEW b \in Nat
  PROVE  /\ SumAmounts(WithBurn(cs, b)) = SumAmounts(cs) + b
         /\ IsFiniteSet(WithBurn(cs, b)) /\ \A c \in WithBurn(cs, b) : c.amount \in Int
<1>1. SumAmounts(cs) \in Int
  BY AmountsOfSome
<1>2. CASE b = 0
  BY <1>1, <1>2 DEF WithBurn
<1>3. CASE b > 0
  <2> DEFINE c == BurnClaim(b)   ds == cs \cup {c}
  <2>1. c.amount = b /\ c.to = BurnAddress
    BY DEF BurnClaim
  <2>2. WithBurn(cs, b) = ds
    BY <1>3 DEF WithBurn
  <2> HIDE DEF c
  <2>3. IsFiniteSet(ds) /\ cs \in SUBSET ds /\ ds \ cs = {c} /\ \A d \in ds : d.amount \in Int
    BY <2>1, FS_AddElement
  <2>4. SumAmounts({c}) = b
    <3> DEFINE g == [d \in {c} |-> d.amount]   S == {c}
    <3>1. IsFiniteSet({c})
      BY FS_Singleton
    <3>2. IsFiniteSet(S) /\ c \in S /\ g[c] \in Int /\ (\A x \in S \ {c} : g[x] = 0) /\ g[c] = b
      BY <2>1, <3>1
    <3>3. SumAmounts({c}) = SumFunctionOnSet(g, S)
      BY DEF SumAmounts
    <3> HIDE DEF g, S
    <3> QED
      BY <3>2, <3>3, SumOfOne
  <2> HIDE DEF ds
  <2>5. SumAmounts(ds) = SumAmounts(cs) + SumAmounts(ds \ cs)
    BY <2>3, AmountsOfSome
  <2> QED
    BY <2>2, <2>3, <2>4, <2>5
<1> QED
  BY <1>2, <1>3
-----------------------------------------------------------------------------
(* The survivors and the rest: what the penalties take is the rest of the    *)
(* funds.                                                                   *)
LEMMA SurvivorsSpec ==
  ASSUME ClaimsOK, Merging, phase # "merge"
  PROVE  /\ Survivors = {LeftClaim(a) : a \in {a \in Rewarded : Left(a) > 0}}
         /\ IsFiniteSet(Survivors)
         /\ \A c \in Survivors : c.amount \in Int /\ c.amount > 0 /\ c.to # BurnAddress
         /\ SumAmounts(Survivors) \in Nat /\ Funds - SumAmounts(Survivors) \in Nat
         /\ Burned + SumFunctionOnSet([a \in Rewarded |-> Lost(a)], Rewarded) = Funds - SumAmounts(Survivors)
<1> DEFINE S == {a \in Rewarded : Left(a) > 0}
           lft == [a \in Rewarded |-> Left(a)]
           kpt == [a \in Rewarded |-> IF a \in S THEN Left(a) ELSE 0]
           lost == [a \in Rewarded |-> Lost(a)]
           earned == [a \in Rewarded |-> Earned(a)]
           h == [a \in S |-> LeftClaim(a)]
           T == {LeftClaim(a) : a \in S}
           g == [c \in T |-> c.amount]
<1>1. Survivors = T
  BY DEF Survivors, Rewarded, Accounts, Left, LeftClaim
<1>2. IsFiniteSet(Rewarded) /\ IsFiniteSet(S) /\ S \in SUBSET Rewarded
  <2>1. S \in SUBSET Rewarded
    OBVIOUS
  <2> HIDE DEF S
  <2> QED
    BY <2>1, AccountsSpec, FS_Subset
<1>3. \A a \in Rewarded : /\ Earned(a) \in Nat /\ Penalty(a) \in Int /\ Penalty(a) <= 0
                          /\ a.to # BurnAddress /\ a = [to |-> a.to, type |-> a.type]
  BY MergedSpec, AccountsSpec DEF Rewarded
<1>4. \A a \in Rewarded : /\ Left(a) \in Int /\ Lost(a) \in Nat
                          /\ Earned(a) = (IF a \in S THEN Left(a) ELSE 0) + Lost(a)
  BY <1>3 DEF Left, Lost
<1>5. \A a \in S : LeftClaim(a).to = a.to /\ LeftClaim(a).type = a.type /\ LeftClaim(a).amount = Left(a)
  BY DEF LeftClaim
<1>6. /\ \A a \in Rewarded : lft[a] = Left(a) /\ kpt[a] = (IF a \in S THEN lft[a] ELSE 0)
      /\ \A a \in Rewarded : lost[a] = Lost(a) /\ earned[a] = Earned(a)
      /\ \A a \in S : h[a] = LeftClaim(a) /\ g[h[a]] = Left(a) /\ Left(a) > 0
  BY <1>5
<1>7. \A a, b \in S : h[a] = h[b] => a = b
  <2> SUFFICES ASSUME NEW a \in S, NEW b \in S, h[a] = h[b] PROVE a = b
    OBVIOUS
  <2>1. a.to = b.to /\ a.type = b.type
    BY <1>5, <1>6
  <2>2. a = [to |-> a.to, type |-> a.type] /\ b = [to |-> b.to, type |-> b.type]
    BY <1>3
  <2> QED
    BY <2>1, <2>2
<1>8. T = {h[a] : a \in S}
  OBVIOUS
<1>9. \A c \in T : c.amount \in Int /\ c.amount > 0 /\ c.to # BurnAddress
  BY <1>3, <1>4, <1>5
<1>10. SumAmounts(T) = SumFunctionOnSet(g, T)
  BY DEF SumAmounts
<1> HIDE DEF S, lft, kpt, lost, earned, h, T, g
<1>11. IsFiniteSet(T) /\ SumFunctionOnSet(g, T) = SumFunctionOnSet(lft, S)
  <2>1. \A a \in S : lft[a] \in Int /\ g[h[a]] = lft[a]
    BY <1>2, <1>4, <1>6
  <2> QED
    BY <1>2, <1>7, <1>8, <2>1, SumImage
<1>12. SumFunctionOnSet(lft, S) = SumFunctionOnSet(kpt, Rewarded)
  <2>1. \A a \in Rewarded : lft[a] \in Int /\ kpt[a] = IF a \in S THEN lft[a] ELSE 0
    BY <1>4, <1>6
  <2> QED
    BY <1>2, <2>1, SumWhere
<1>13. SumFunctionOnSet(earned, Rewarded) = SumFunctionOnSet(kpt, Rewarded) + SumFunctionOnSet(lost, Rewarded)
  <2>1. \A a \in Rewarded : kpt[a] \in Int /\ lost[a] \in Int /\ earned[a] = kpt[a] + lost[a]
    BY <1>4, <1>6
  <2> QED
    BY <1>2, <2>1, SumPlus
<1>14. SumFunctionOnSet(lost, Rewarded) \in Nat
  <2>1. \A a \in Rewarded : lost[a] \in Nat
    BY <1>4, <1>6
  <2> QED
    BY <1>2, <2>1, SumNat
<1>15. SumAmounts(T) \in Nat
  <2>1. \A c \in T : c.amount \in Int /\ c.amount >= 0
    BY <1>9
  <2> QED
    BY <1>11, <2>1, AmountsOfSome
<1>16. Funds = Burned + SumFunctionOnSet(earned, Rewarded) /\ Burned \in Nat /\ Funds \in Nat
  BY FundsSpec DEF earned
<1>17. Burned + SumFunctionOnSet(lost, Rewarded) = Funds - SumAmounts(T) /\ Funds - SumAmounts(T) \in Nat
  BY <1>10, <1>11, <1>12, <1>13, <1>14, <1>15, <1>16
<1> QED
  BY <1>1, <1>9, <1>11, <1>15, <1>17 DEF S, T, lost

(* The positive merged claims hold the funds.                                *)
LEMMA PositiveMergedClaims ==
  ASSUME ClaimsOK, Merging, phase # "merge"
  PROVE  SumAmounts({c \in MergedClaims : c.amount > 0}) = Funds
<1> DEFINE S == {x \in DOMAIN merged : merged[x] > 0}
           claim(x) == [to |-> x.to, type |-> x.type, amount |-> merged[x]]
           h == [x \in S |-> claim(x)]
           T == {c \in MergedClaims : c.amount > 0}
           g == [c \in T |-> c.amount]
<1>1. /\ IsFiniteSet(S) /\ S \subseteq DOMAIN merged
      /\ \A x \in S : merged[x] \in Int /\ merged[x] > 0 /\ x = PositiveKey(Account(x))
  <2>1. S \in SUBSET DOMAIN merged /\ \A x \in S : merged[x] > 0
    OBVIOUS
  <2> HIDE DEF S
  <2> QED
    BY <2>1, MergedSpec, FS_Subset
<1>2. T = {claim(x) : x \in S}
  BY DEF MergedClaims
<1>3. \A x \in S : h[x] = claim(x) /\ h[x].to = x.to /\ h[x].type = x.type /\ h[x].amount = merged[x] /\ h[x] \in T
  BY <1>2
<1>4. \A x, y \in S : h[x] = h[y] => x = y
  <2> SUFFICES ASSUME NEW x \in S, NEW y \in S, h[x] = h[y] PROVE x = y
    OBVIOUS
  <2>1. x.to = y.to /\ x.type = y.type
    BY <1>3
  <2>2. Account(x) = Account(y)
    BY <2>1 DEF Account
  <2> HIDE DEF S
  <2> QED
    BY <1>1, <2>2
<1>5. \A x \in S : g[h[x]] = merged[x]
  BY <1>3
<1>6. SumAmounts(T) = SumFunctionOnSet(g, T)
  BY DEF SumAmounts
<1>7. T = {h[x] : x \in S}
  BY <1>2
<1> HIDE DEF S, h, T, g
<1>8. SumFunctionOnSet(g, T) = SumFunctionOnSet(merged, S)
  BY <1>1, <1>4, <1>5, <1>7, SumImage
<1>9. Funds = SumFunctionOnSet(merged, S)
  BY FundsSpec DEF S
<1> QED
  BY <1>6, <1>8, <1>9 DEF T
-----------------------------------------------------------------------------
(* What the conditions burn is the rest of the funds as well.                *)
LEMMA ConditionsSpec ==
  ASSUME ClaimsOK, Merging, phase # "merge",
         NEW burning, BurnAddress \in burning,
         NEW before, before = WithBurn(Survivors, Funds - SumAmounts(Survivors)),
         NEW out, out = {c \in before : c.to \in burning},
         NEW kept, kept = {c \in Survivors : c.to \notin burning}
  PROVE  before \ out = kept /\ SumAmounts(out) = Funds - SumAmounts(kept)
<1> DEFINE rest == Funds - SumAmounts(Survivors)
<1>1. /\ rest \in Nat /\ IsFiniteSet(Survivors) /\ SumAmounts(Survivors) \in Nat /\ Funds \in Nat
      /\ \A c \in Survivors : c.amount \in Int /\ c.amount > 0 /\ c.to # BurnAddress
  BY SurvivorsSpec, FundsSpec
<1>2. before = WithBurn(Survivors, rest)
  OBVIOUS
<1> HIDE DEF rest
<1>3. IsFiniteSet(before) /\ SumAmounts(before) = SumAmounts(Survivors) + rest /\ \A c \in before : c.amount \in Int
  BY <1>1, <1>2, AddBurn
<1>4. \A c \in before : c \in Survivors \/ c.to = BurnAddress
  BY <1>2 DEF WithBurn, BurnClaim
<1>5. Survivors \subseteq before
  BY <1>2 DEF WithBurn
<1>6. before \ out = kept
  BY <1>4, <1>5
<1>7. SumAmounts(before) = SumAmounts(out) + SumAmounts(kept)
  <2>1. out \in SUBSET before
    OBVIOUS
  <2>2. SumAmounts(before) = SumAmounts(out) + SumAmounts(before \ out)
    BY <1>3, <2>1, AmountsOfSome
  <2> QED
    BY <1>6, <2>2
<1>8. SumAmounts(out) \in Int /\ SumAmounts(kept) \in Int
  <2>1. /\ IsFiniteSet(out) /\ \A c \in out : c.amount \in Int
        /\ IsFiniteSet(kept) /\ \A c \in kept : c.amount \in Int
    <3>1. out \in SUBSET before /\ kept \in SUBSET Survivors
      OBVIOUS
    <3> QED
      BY <1>1, <1>3, <3>1, FS_Subset
  <2> QED
    BY <2>1, AmountsOfSome
<1>9. rest = Funds - SumAmounts(Survivors)
  BY DEF rest
<1>10. SumAmounts(out) = Funds - SumAmounts(kept)
  <2> DEFINE a == SumAmounts(out)   b == SumAmounts(kept)   c == SumAmounts(before)   d == SumAmounts(Survivors)
  <2>1. a \in Int /\ b \in Int /\ d \in Int /\ Funds \in Int /\ c = a + b /\ c = d + rest /\ rest = Funds - d
    BY <1>1, <1>3, <1>7, <1>8, <1>9
  <2> HIDE DEF a, b, c, d
  <2>2. a = Funds - b
    BY <2>1
  <2> QED
    BY <2>2 DEF a, b
<1> QED
  BY <1>6, <1>10

(* The claims do not change, nor what is computed from them.                 *)
LEMMA FixedClaims ==
  ASSUME claims' = claims
  PROVE  /\ \A ns : AmountsAt(ns)' = AmountsAt(ns)
         /\ \A a : Earned(a)' = Earned(a) /\ Penalty(a)' = Penalty(a) /\ Left(a)' = Left(a) /\ Lost(a)' = Lost(a)
         /\ \A a : LeftClaim(a)' = LeftClaim(a)
         /\ \A x, m : Under(x, m)' = Under(x, m)
         /\ \A m : Keys(m)' = Keys(m)
         /\ Funds' = Funds /\ Burned' = Burned /\ Rewarded' = Rewarded /\ Survivors' = Survivors
<1>1. \A ns : AmountsAt(ns)' = AmountsAt(ns)
  BY DEF AmountsAt
<1>2. \A a : Earned(a)' = Earned(a) /\ Penalty(a)' = Penalty(a)
  BY DEF Earned, Penalty, AmountsAt
<1>3. \A a : Left(a)' = Left(a) /\ Lost(a)' = Lost(a) /\ LeftClaim(a)' = LeftClaim(a)
  BY <1>2 DEF Left, Lost, LeftClaim
<1>4. Funds' = Funds /\ Burned' = Burned
  BY DEF Funds, Burned, AmountsAt
<1>5. Rewarded' = Rewarded
  BY <1>2 DEF Rewarded, Accounts
<1>6. Survivors' = Survivors
  BY <1>2 DEF Survivors
<1>7. (\A x, m : Under(x, m)' = Under(x, m)) /\ \A m : Keys(m)' = Keys(m)
  BY DEF Under, Keys
<1> QED
  BY <1>1, <1>2, <1>3, <1>4, <1>5, <1>6, <1>7

-----------------------------------------------------------------------------
LEMMA InitIInv == Init => IInv
<1> SUFFICES ASSUME Init PROVE IInv
  OBVIOUS
<1>1. ClaimsOK
  BY DEF Init, ClaimsOK, SeqOf
<1>2. Len(claims) \in Nat
  BY <1>1, AmountsAtSpec
<1>3. Merging
  <2>1. DOMAIN merged = {} /\ DOMAIN rewards = {} /\ DOMAIN penalties = {}
    BY DEF Init, EmptyMap
  <2>2. Keys(k - 1) = {}
    BY DEF Init, Keys
  <2> QED
    BY <1>2, <2>1, <2>2 DEF Init, Merging
<1>4. Indexing /\ Settling /\ Decided
  BY DEF Init, Indexing, Settling, Decided
<1> QED
  BY <1>1, <1>3, <1>4 DEF IInv

LEMMA MergeClaimStep == IInv /\ MergeClaim => IInv'
<1> SUFFICES ASSUME IInv, MergeClaim PROVE IInv'
  OBVIOUS
<1> DEFINE x == SignKey(claims[k])
<1>1. ClaimsOK /\ Merging /\ phase = "merge" /\ Decided /\ claims' = claims
  BY DEF IInv, MergeClaim
<1>2. ClaimsOK'
  BY <1>1 DEF ClaimsOK, MergeClaim
<1>3. /\ Len(claims) \in Nat /\ DOMAIN claims = 1 .. Len(claims)
      /\ k \in 1 .. Len(claims) /\ k - 1 \in Nat /\ k' = k + 1 /\ (k + 1) - 1 = k
      /\ claims[k].amount \in Int
  <2>1. Len(claims) \in Nat /\ DOMAIN claims = 1 .. Len(claims) /\ \A n \in DOMAIN claims : claims[n].amount \in Int
    BY <1>1, AmountsAtSpec
  <2>2. k \in 1 .. Len(claims) + 1 /\ k <= Len(claims) /\ k' = k + 1
    BY <1>1 DEF Merging, MergeClaim
  <2> QED
    BY <2>1, <2>2
<1>4. merged' = Put(merged, x, (IF x \in DOMAIN merged THEN merged[x] ELSE 0) + claims[k].amount)
  BY DEF MergeClaim
<1>5. DOMAIN merged = Keys(k - 1) /\ \A y \in DOMAIN merged : merged[y] = AmountsAt(Under(y, k - 1))
  BY <1>1 DEF Merging
<1>6. Keys(k) = Keys(k - 1) \cup {x}
  BY <1>3 DEF Keys
<1>7. /\ Under(x, k) = Under(x, k - 1) \cup {k} /\ k \notin Under(x, k - 1)
      /\ \A y : y # x => Under(y, k) = Under(y, k - 1)
      /\ \A y : y \notin Keys(k - 1) => Under(y, k - 1) = {}
      /\ \A y : Under(y, k - 1) \in SUBSET DOMAIN claims
  BY <1>3 DEF Under, Keys
<1> HIDE DEF x
<1>8. DOMAIN merged' = Keys(k)
  BY <1>4, <1>5, <1>6 DEF Put
<1>9. ASSUME NEW y \in DOMAIN merged' PROVE merged'[y] = AmountsAt(Under(y, k))
  <2>1. CASE y = x
    <3>1. AmountsAt(Under(x, k)) = AmountsAt(Under(x, k - 1)) + claims[k].amount
      BY <1>1, <1>3, <1>7, AmountsAdd
    <3>2. x \notin DOMAIN merged => AmountsAt(Under(x, k - 1)) = 0
      <4>1. {} \in SUBSET DOMAIN claims
        OBVIOUS
      <4>2. AmountsAt({}) = 0
        BY <1>1, <4>1, AmountsSign
      <4> QED
        BY <1>5, <1>7, <4>2
    <3>3. merged'[x] = (IF x \in DOMAIN merged THEN merged[x] ELSE 0) + claims[k].amount
      BY <1>4, <1>8, <2>1 DEF Put
    <3> QED
      BY <1>5, <2>1, <3>1, <3>2, <3>3
  <2>2. CASE y # x
    <3>1. y \in DOMAIN merged /\ merged'[y] = merged[y]
      BY <1>4, <1>5, <1>6, <1>8, <2>2 DEF Put
    <3> QED
      BY <1>5, <1>7, <2>2, <3>1
  <2> QED
    BY <2>1, <2>2
<1>10. Merging'
  <2>1. /\ phase' = "merge" /\ todo' = todo /\ burnAmount' = burnAmount /\ result' = result
        /\ rewards' = rewards /\ penalties' = penalties
    BY <1>1 DEF MergeClaim
  <2>2. todo = {} /\ burnAmount = 0 /\ result = {} /\ DOMAIN rewards = {} /\ DOMAIN penalties = {}
    BY <1>1 DEF Merging
  <2>3. k' \in 1 .. Len(claims') + 1
    BY <1>1, <1>3
  <2>4. Keys(k - 1)' = Keys(k) /\ \A y : Under(y, k - 1)' = Under(y, k)
    BY <1>1, <1>3 DEF Keys, Under
  <2>5. \A y : AmountsAt(Under(y, k - 1))' = AmountsAt(Under(y, k))
    BY <1>1, <2>4 DEF AmountsAt
  <2> QED
    BY <1>8, <1>9, <2>1, <2>2, <2>3, <2>4, <2>5 DEF Merging
<1>11. Indexing' /\ Settling' /\ Decided'
  <2>1. phase' = "merge"
    BY <1>1 DEF MergeClaim
  <2> QED
    BY <2>1 DEF Indexing, Settling, Decided
<1> QED
  BY <1>2, <1>10, <1>11 DEF IInv

(* What is merged stays.                                                     *)
LEMMA FixedMerging ==
  ASSUME ClaimsOK, Merging, UNCHANGED <<claims, network, k, merged>>, phase' # "merge",
         phase # "merge" \/ k > Len(claims)
  PROVE  ClaimsOK' /\ Merging'
<1>1. ClaimsOK'
  BY DEF ClaimsOK
<1>2. Len(claims) \in Nat
  BY AmountsAtSpec
<1>3. k = Len(claims) + 1
  BY <1>2 DEF Merging
<1>4. Keys(k - 1)' = Keys(k - 1) /\ \A y : Under(y, k - 1)' = Under(y, k - 1)
  BY DEF Keys, Under
<1>5. \A y : AmountsAt(Under(y, k - 1))' = AmountsAt(Under(y, k - 1))
  BY <1>4 DEF AmountsAt
<1>6. Merging'
  BY <1>3, <1>4, <1>5 DEF Merging
<1> QED
  BY <1>1, <1>6

LEMMA MergeDoneStep == IInv /\ MergeDone => IInv'
<1> SUFFICES ASSUME IInv, MergeDone PROVE IInv'
  OBVIOUS
<1>1. /\ ClaimsOK /\ Merging /\ phase = "merge" /\ phase' = "index" /\ k > Len(claims)
      /\ UNCHANGED <<claims, network, k, merged, result, burnAmount, rewards, penalties>>
      /\ todo' = DOMAIN merged
  BY DEF IInv, MergeDone
<1>2. ClaimsOK' /\ Merging'
  BY <1>1, FixedMerging
<1>3. result = {} /\ burnAmount = 0 /\ DOMAIN rewards = {} /\ DOMAIN penalties = {}
  BY <1>1 DEF Merging
<1>4. Indexing'
  <2>1. DOMAIN merged' \ todo' = {} /\ todo' \subseteq DOMAIN merged'
    BY <1>1
  <2>2. SumFunctionOnSet(merged', {}) = 0
    BY SumEmpty
  <2>3. {x \in {} : x.to = BurnAddress} = {}
    OBVIOUS
  <2> QED
    BY <1>1, <1>3, <2>1, <2>2, <2>3 DEF Indexing
<1>5. Settling' /\ Decided'
  BY <1>1 DEF Settling, Decided
<1> QED
  BY <1>2, <1>4, <1>5 DEF IInv

LEMMA IndexClaimStep == IInv /\ IndexClaim => IInv'
<1> SUFFICES ASSUME IInv, IndexClaim PROVE IInv'
  OBVIOUS
<1>1. /\ ClaimsOK /\ Merging /\ Indexing /\ phase = "index" /\ phase' = "index"
      /\ UNCHANGED <<claims, network, k, merged, result>>
  BY DEF IInv, IndexClaim
<1>2. ClaimsOK' /\ Merging'
  BY <1>1, FixedMerging
<1>3. PICK x \in todo : /\ todo' = todo \ {x}
                        /\ \/ /\ x.to = BurnAddress
                              /\ burnAmount' = burnAmount + merged[x]
                              /\ UNCHANGED <<rewards, penalties>>
                           \/ /\ x.to # BurnAddress /\ merged[x] > 0
                              /\ rewards' = Put(rewards, Account(x), merged[x])
                              /\ UNCHANGED <<burnAmount, penalties>>
                           \/ /\ x.to # BurnAddress /\ merged[x] <= 0
                              /\ penalties' = Put(penalties, Account(x), merged[x])
                              /\ UNCHANGED <<burnAmount, rewards>>
  BY DEF IndexClaim
<1> DEFINE seen == DOMAIN merged \ todo
           seen2 == DOMAIN merged \ todo'
           burn(s) == {y \in s : y.to = BurnAddress}
           good(s) == {y \in s : ToReward(y)}
           bad(s) == {y \in s : ToPenalise(y)}
<1>4. /\ todo \subseteq DOMAIN merged
      /\ result = {}
      /\ burnAmount = SumFunctionOnSet(merged, burn(seen))
      /\ DOMAIN rewards = {Account(y) : y \in good(seen)}
      /\ \A y \in seen : ToReward(y) => rewards[Account(y)] = merged[y]
      /\ DOMAIN penalties = {Account(y) : y \in bad(seen)}
      /\ \A y \in seen : ToPenalise(y) => penalties[Account(y)] = merged[y]
  BY <1>1 DEF Indexing
<1>5. x \in DOMAIN merged /\ x \notin seen /\ seen2 = seen \cup {x} /\ todo' \subseteq DOMAIN merged
  BY <1>3, <1>4
<1>6. /\ IsFiniteSet(DOMAIN merged)
      /\ \A y \in DOMAIN merged : /\ merged[y] \in Int
                                  /\ merged[y] > 0 => y = PositiveKey(Account(y))
                                  /\ merged[y] <= 0 => y = OtherKey(Account(y))
  BY <1>1, MergedSpec
<1>7. /\ ToReward(x) <=> x.to # BurnAddress /\ merged[x] > 0
      /\ ToPenalise(x) <=> x.to # BurnAddress /\ merged[x] <= 0
      /\ ToReward(x) => ~ToPenalise(x)
  BY <1>5, <1>6 DEF ToReward, ToPenalise
<1>8. burnAmount' = SumFunctionOnSet(merged, burn(seen2))
  <2>1. CASE x.to = BurnAddress
    <3> DEFINE b == burn(seen2)
    <3>1. x \in b /\ b \ {x} = burn(seen) /\ b \in SUBSET DOMAIN merged
      BY <1>5, <2>1
    <3>2. burnAmount' = burnAmount + merged[x]
      BY <1>3, <2>1
    <3>3. SumFunctionOnSet(merged, burn(seen)) \in Int
      <4>1. burn(seen) \in SUBSET DOMAIN merged
        OBVIOUS
      <4> HIDE DEF burn, seen
      <4>2. IsFiniteSet(burn(seen)) /\ \A y \in burn(seen) : merged[y] \in Int
        BY <1>6, <4>1, FS_Subset
      <4> QED
        BY <4>2, SumInt
    <3> HIDE DEF b, burn, seen
    <3>4. IsFiniteSet(b) /\ \A y \in b : merged[y] \in Int
      BY <1>6, <3>1, FS_Subset
    <3>5. SumFunctionOnSet(merged, b) = merged[x] + SumFunctionOnSet(merged, b \ {x})
      BY <3>1, <3>4, SumTakeOut
    <3>6. merged[x] \in Int
      BY <3>1, <3>4
    <3> DEFINE s == SumFunctionOnSet(merged, burn(seen))
    <3>7. SumFunctionOnSet(merged, b) = merged[x] + s /\ burnAmount = s
      BY <1>4, <3>1, <3>5
    <3>8. s \in Int
      BY <3>3
    <3> HIDE DEF s
    <3>9. burnAmount' = SumFunctionOnSet(merged, b)
      BY <3>2, <3>6, <3>7, <3>8
    <3> QED
      BY <3>9 DEF b
  <2>2. CASE x.to # BurnAddress
    <3>1. burn(seen2) = burn(seen) /\ burnAmount' = burnAmount
      BY <1>3, <1>5, <2>2
    <3> QED
      BY <1>4, <3>1
  <2> QED
    BY <2>1, <2>2
<1>9. /\ DOMAIN rewards' = {Account(y) : y \in good(seen2)}
      /\ \A y \in seen2 : ToReward(y) => rewards'[Account(y)] = merged[y]
  <2>1. CASE ToReward(x)
    <3>1. rewards' = Put(rewards, Account(x), merged[x])
      BY <1>3, <1>5, <1>6, <1>7, <2>1
    <3>2. good(seen2) = good(seen) \cup {x}
      BY <1>5, <2>1
    <3>3. DOMAIN rewards' = DOMAIN rewards \cup {Account(x)}
      BY <3>1 DEF Put
    <3>4. DOMAIN rewards' = {Account(y) : y \in good(seen2)}
      BY <1>4, <3>2, <3>3
    <3>5. ASSUME NEW y \in seen2, ToReward(y) PROVE rewards'[Account(y)] = merged[y]
      <4>1. CASE y = x
        BY <3>1, <3>3, <4>1 DEF Put
      <4>2. CASE y # x
        <5>1. y \in seen /\ y \in DOMAIN merged /\ merged[y] > 0 /\ merged[x] > 0
          BY <1>5, <2>1, <3>5, <4>2 DEF ToReward
        <5>2. Account(y) # Account(x)
          BY <1>5, <1>6, <4>2, <5>1
        <5>3. Account(y) \in DOMAIN rewards
          BY <1>4, <3>5, <5>1
        <5>4. rewards'[Account(y)] = rewards[Account(y)]
          BY <3>1, <5>2, <5>3 DEF Put
        <5> QED
          BY <1>4, <3>5, <5>1, <5>4
      <4> QED
        BY <4>1, <4>2
    <3> QED
      BY <3>4, <3>5
  <2>2. CASE ~ToReward(x)
    <3>1. rewards' = rewards /\ good(seen2) = good(seen)
      BY <1>3, <1>5, <1>7, <2>2
    <3>2. \A y \in seen2 : ToReward(y) => y \in seen
      BY <1>5, <2>2
    <3> QED
      BY <1>4, <3>1, <3>2
  <2> QED
    BY <2>1, <2>2
<1>10. /\ DOMAIN penalties' = {Account(y) : y \in bad(seen2)}
       /\ \A y \in seen2 : ToPenalise(y) => penalties'[Account(y)] = merged[y]
  <2>1. CASE ToPenalise(x)
    <3>1. penalties' = Put(penalties, Account(x), merged[x])
      BY <1>3, <1>5, <1>6, <1>7, <2>1
    <3>2. bad(seen2) = bad(seen) \cup {x}
      BY <1>5, <2>1
    <3>3. DOMAIN penalties' = DOMAIN penalties \cup {Account(x)}
      BY <3>1 DEF Put
    <3>4. DOMAIN penalties' = {Account(y) : y \in bad(seen2)}
      BY <1>4, <3>2, <3>3
    <3>5. ASSUME NEW y \in seen2, ToPenalise(y) PROVE penalties'[Account(y)] = merged[y]
      <4>1. CASE y = x
        BY <3>1, <3>3, <4>1 DEF Put
      <4>2. CASE y # x
        <5>1. y \in seen /\ y \in DOMAIN merged /\ merged[y] <= 0 /\ merged[x] <= 0
          BY <1>5, <2>1, <3>5, <4>2 DEF ToPenalise
        <5>2. Account(y) # Account(x)
          BY <1>5, <1>6, <4>2, <5>1
        <5>3. Account(y) \in DOMAIN penalties
          BY <1>4, <3>5, <5>1
        <5>4. penalties'[Account(y)] = penalties[Account(y)]
          BY <3>1, <5>2, <5>3 DEF Put
        <5> QED
          BY <1>4, <3>5, <5>1, <5>4
      <4> QED
        BY <4>1, <4>2
    <3> QED
      BY <3>4, <3>5
  <2>2. CASE ~ToPenalise(x)
    <3>1. penalties' = penalties /\ bad(seen2) = bad(seen)
      BY <1>3, <1>5, <1>7, <2>2
    <3>2. \A y \in seen2 : ToPenalise(y) => y \in seen
      BY <1>5, <2>2
    <3> QED
      BY <1>4, <3>1, <3>2
  <2> QED
    BY <2>1, <2>2
<1>11. Indexing'
  <2>1. \A y : (ToReward(y)' <=> ToReward(y)) /\ (ToPenalise(y)' <=> ToPenalise(y))
    BY <1>1 DEF ToReward, ToPenalise
  <2> QED
    BY <1>1, <1>4, <1>5, <1>8, <1>9, <1>10, <2>1 DEF Indexing
<1>12. Settling' /\ Decided'
  BY <1>1 DEF Settling, Decided
<1> QED
  BY <1>2, <1>11, <1>12 DEF IInv

LEMMA IndexDoneStep == IInv /\ IndexDone => IInv'
<1> SUFFICES ASSUME IInv, IndexDone PROVE IInv'
  OBVIOUS
<1>1. /\ ClaimsOK /\ Merging /\ Indexing /\ phase = "index" /\ phase' = "settle" /\ todo = {}
      /\ UNCHANGED <<claims, network, k, merged, result, burnAmount, rewards, penalties>>
      /\ todo' = DOMAIN rewards
  BY DEF IInv, IndexDone
<1>2. ClaimsOK' /\ Merging'
  BY <1>1, FixedMerging
<1> DEFINE good == {x \in DOMAIN merged : ToReward(x)}
           bad == {x \in DOMAIN merged : ToPenalise(x)}
<1>3. /\ result = {}
      /\ burnAmount = SumFunctionOnSet(merged, {x \in DOMAIN merged : x.to = BurnAddress})
      /\ DOMAIN rewards = {Account(x) : x \in good}
      /\ \A x \in good : rewards[Account(x)] = merged[x]
      /\ DOMAIN penalties = {Account(x) : x \in bad}
      /\ \A x \in bad : penalties[Account(x)] = merged[x]
  <2>1. DOMAIN merged \ todo = DOMAIN merged
    BY <1>1
  <2> QED
    BY <1>1, <2>1 DEF Indexing
<1>4. /\ \A x \in DOMAIN merged :
           /\ merged[x] \in Int /\ Account(x) \in Accounts /\ Account(x).to = x.to
           /\ merged[x] > 0 => x = PositiveKey(Account(x)) /\ merged[x] = Earned(Account(x))
           /\ merged[x] <= 0 => x = OtherKey(Account(x)) /\ merged[x] = Penalty(Account(x))
      /\ \A a \in Accounts :
           /\ Earned(a) \in Nat /\ Penalty(a) \in Int /\ Penalty(a) <= 0
           /\ Earned(a) > 0 => \E x \in DOMAIN merged : Account(x) = a /\ merged[x] > 0
           /\ Penalty(a) < 0 => \E x \in DOMAIN merged : Account(x) = a /\ merged[x] <= 0
  BY <1>1, MergedSpec
<1>5. \A x \in good : Account(x) \in Rewarded /\ rewards[Account(x)] = Earned(Account(x))
  BY <1>3, <1>4 DEF ToReward, Rewarded
<1>6. \A a \in Rewarded : \E x \in good : Account(x) = a
  BY <1>4 DEF ToReward, Rewarded
<1>7. DOMAIN rewards = Rewarded /\ \A a \in Rewarded : rewards[a] = Earned(a)
  BY <1>3, <1>5, <1>6
<1>8. ASSUME NEW a \in Rewarded
      PROVE  Penalty(a) = IF a \in DOMAIN penalties THEN penalties[a] ELSE 0
  <2>1. a \in Accounts /\ a.to # BurnAddress
    BY DEF Rewarded
  <2>2. CASE a \in DOMAIN penalties
    <3>1. PICK x \in bad : Account(x) = a
      BY <1>3, <2>2
    <3>2. penalties[a] = merged[x]
      BY <1>3, <3>1
    <3>3. merged[x] = Penalty(a)
      BY <1>4, <3>1 DEF ToPenalise
    <3> QED
      BY <2>2, <3>2, <3>3
  <2>3. CASE a \notin DOMAIN penalties
    <3>1. \A x \in DOMAIN merged : Account(x) = a => ~(merged[x] <= 0)
      BY <1>3, <1>4, <2>1, <2>3 DEF ToPenalise
    <3>2. ~(Penalty(a) < 0) /\ Penalty(a) \in Int /\ Penalty(a) <= 0
      BY <1>4, <2>1, <3>1
    <3> QED
      BY <2>3, <3>2
  <2> QED
    BY <2>2, <2>3
<1> HIDE DEF good, bad
<1>9. burnAmount = Burned + SumFunctionOnSet([a \in Rewarded |-> Lost(a)], {})
  <2>1. burnAmount = Burned /\ Burned \in Nat
    BY <1>1, <1>3, FundsSpec
  <2>2. SumFunctionOnSet([a \in Rewarded |-> Lost(a)], {}) = 0
    BY SumEmpty
  <2> QED
    BY <2>1, <2>2
<1>10. Settling'
  <2>1. /\ Rewarded' = Rewarded /\ Burned' = Burned
        /\ \A a : Earned(a)' = Earned(a) /\ Penalty(a)' = Penalty(a) /\ Lost(a)' = Lost(a)
    BY <1>1, FixedClaims
  <2>2. Rewarded' \ todo' = {} /\ todo' \subseteq Rewarded'
    BY <1>1, <1>7, <2>1
  <2>3. [a \in Rewarded |-> Lost(a)]' = [a \in Rewarded |-> Lost(a)]
    BY <2>1
  <2>4. burnAmount' = Burned' + SumFunctionOnSet([a \in Rewarded |-> Lost(a)], {})'
    BY <1>1, <1>9, <2>1, <2>3
  <2>5. \A a \in Rewarded' : rewards'[a] = Earned(a)' /\ Penalty(a)' = IF a \in DOMAIN penalties' THEN penalties'[a] ELSE 0
    BY <1>1, <1>7, <1>8, <2>1
  <2>6. result' = {LeftClaim(a) : a \in {a \in {} : Left(a) > 0}}'
    BY <1>1, <1>3
  <2> QED
    BY <2>2, <2>4, <2>5, <2>6 DEF Settling
<1>11. Indexing' /\ Decided'
  BY <1>1 DEF Indexing, Decided
<1> QED
  BY <1>2, <1>10, <1>11 DEF IInv

LEMMA SettleRewardStep == IInv /\ SettleReward => IInv'
<1> SUFFICES ASSUME IInv, SettleReward PROVE IInv'
  OBVIOUS
<1> DEFINE remainder(x) == rewards[x] + (IF x \in DOMAIN penalties THEN penalties[x] ELSE 0)
           seen == Rewarded \ todo
           seen2 == Rewarded \ todo'
           lost == [a \in Rewarded |-> Lost(a)]
           settled(s) == {LeftClaim(a) : a \in {a \in s : Left(a) > 0}}
<1>1. /\ ClaimsOK /\ Merging /\ Settling /\ phase = "settle" /\ phase' = "settle"
      /\ UNCHANGED <<claims, network, k, merged, rewards, penalties>>
  BY DEF IInv, SettleReward
<1>2. ClaimsOK' /\ Merging'
  BY <1>1, FixedMerging
<1>3. PICK x \in todo : /\ todo' = todo \ {x}
                        /\ \/ /\ remainder(x) > 0
                              /\ burnAmount' = burnAmount + (rewards[x] - remainder(x))
                              /\ result' = result \cup {[to |-> x.to, type |-> x.type, amount |-> remainder(x)]}
                           \/ /\ remainder(x) <= 0
                              /\ burnAmount' = burnAmount + rewards[x]
                              /\ UNCHANGED result
  BY DEF SettleReward
<1>4. /\ todo \subseteq Rewarded
      /\ \A a \in Rewarded : rewards[a] = Earned(a)
                             /\ Penalty(a) = IF a \in DOMAIN penalties THEN penalties[a] ELSE 0
      /\ result = settled(seen)
      /\ burnAmount = Burned + SumFunctionOnSet(lost, seen)
  BY <1>1 DEF Settling
<1>5. x \in Rewarded /\ x \notin seen /\ seen2 = seen \cup {x} /\ seen2 \ {x} = seen /\ todo' \subseteq Rewarded
      /\ seen2 \in SUBSET Rewarded
  BY <1>3, <1>4
<1>6. IsFiniteSet(Rewarded) /\ Burned \in Nat
      /\ \A a \in Rewarded : Earned(a) \in Nat /\ Penalty(a) \in Int
  BY <1>1, AccountsSpec, FundsSpec, MergedSpec
<1>7. remainder(x) = Left(x) /\ Left(x) \in Int /\ rewards[x] = Earned(x) /\ Earned(x) \in Nat /\ x \in seen2
  BY <1>4, <1>5, <1>6 DEF Left
<1>8. \A a \in Rewarded : lost[a] = Lost(a) /\ lost[a] \in Int
  BY <1>6 DEF Lost, Left
<1> HIDE DEF remainder
<1>9. result' = settled(seen2)
  <2>1. CASE Left(x) > 0
    <3>1. result' = result \cup {LeftClaim(x)}
      BY <1>3, <1>7, <2>1 DEF LeftClaim
    <3> QED
      BY <1>4, <1>5, <2>1, <3>1
  <2>2. CASE ~(Left(x) > 0)
    <3>1. result' = result
      BY <1>3, <1>7, <2>2
    <3> QED
      BY <1>4, <1>5, <2>2, <3>1
  <2> QED
    BY <2>1, <2>2
<1>10. burnAmount' = burnAmount + Lost(x)
  BY <1>3, <1>7 DEF Lost
<1> HIDE DEF lost, seen, seen2
<1>11. SumFunctionOnSet(lost, seen2) = Lost(x) + SumFunctionOnSet(lost, seen)
       /\ SumFunctionOnSet(lost, seen) \in Int /\ Lost(x) \in Int
  <2>1. IsFiniteSet(seen2) /\ IsFiniteSet(seen)
    BY <1>5, <1>6, FS_Subset
  <2>2. \A a \in seen2 : lost[a] \in Int
    BY <1>5, <1>8
  <2>3. SumFunctionOnSet(lost, seen2) = lost[x] + SumFunctionOnSet(lost, seen2 \ {x})
    BY <1>7, <2>1, <2>2, SumTakeOut
  <2>4. \A a \in seen : lost[a] \in Int
    BY <1>5, <2>2
  <2>5. SumFunctionOnSet(lost, seen) \in Int
    BY <2>1, <2>4, SumInt
  <2> QED
    BY <1>5, <1>8, <2>3, <2>5
<1>12. burnAmount' = Burned + SumFunctionOnSet(lost, seen2)
  <2> DEFINE s == SumFunctionOnSet(lost, seen)
  <2>1. SumFunctionOnSet(lost, seen2) = Lost(x) + s /\ s \in Int /\ Lost(x) \in Int /\ burnAmount = Burned + s
    BY <1>4, <1>11
  <2> HIDE DEF s
  <2> QED
    BY <1>6, <1>10, <2>1
<1>13. Settling'
  <2>1. /\ Rewarded' = Rewarded /\ Burned' = Burned
        /\ \A a : /\ Earned(a)' = Earned(a) /\ Penalty(a)' = Penalty(a) /\ Lost(a)' = Lost(a)
                  /\ Left(a)' = Left(a) /\ LeftClaim(a)' = LeftClaim(a)
    BY <1>1, FixedClaims
  <2>2. [a \in Rewarded |-> Lost(a)]' = lost
    BY <2>1 DEF lost
  <2>3. Rewarded' \ todo' = seen2 /\ todo' \subseteq Rewarded'
    BY <1>5, <2>1 DEF seen2
  <2>4. \A a \in Rewarded' : rewards'[a] = Earned(a)' /\ Penalty(a)' = IF a \in DOMAIN penalties' THEN penalties'[a] ELSE 0
    BY <1>1, <1>4, <2>1
  <2>5. result' = {LeftClaim(a)' : a \in {a \in seen2 : Left(a)' > 0}}
    BY <1>9, <2>1
  <2>6. burnAmount' = Burned' + SumFunctionOnSet([a \in Rewarded |-> Lost(a)]', seen2)
    BY <1>12, <2>1, <2>2
  <2> QED
    BY <2>3, <2>4, <2>5, <2>6 DEF Settling
<1>14. Indexing' /\ Decided'
  BY <1>1 DEF Indexing, Decided
<1> QED
  BY <1>2, <1>13, <1>14 DEF IInv

(* The comparison of the totals cannot fail.                                 *)
LEMMA SettleDoneStep == IInv /\ SettleDone => IInv'
<1> SUFFICES ASSUME IInv, SettleDone PROVE IInv'
  OBVIOUS
<1> DEFINE rest == Funds - SumAmounts(Survivors)
<1>1. /\ ClaimsOK /\ Merging /\ Settling /\ phase = "settle" /\ todo = {}
      /\ UNCHANGED <<claims, network, k, merged, passes, delta>>
      /\ result' = WithBurn(result, burnAmount)
      /\ phase' = IF SumAmounts({c \in MergedClaims : c.amount > 0}) # SumAmounts(result')
                    THEN "panic"
                    ELSE IF network = "flare" THEN "conditions" ELSE "build"
      /\ network \in {"flare", "coston"}
  BY DEF IInv, SettleDone, ClaimsOK
<1>2. phase' \in {"panic", "conditions", "build"}
  BY <1>1
<1>3. ClaimsOK' /\ Merging'
  BY <1>1, <1>2, FixedMerging
<1>4. /\ IsFiniteSet(Survivors) /\ SumAmounts(Survivors) \in Nat /\ rest \in Nat
      /\ \A c \in Survivors : c.amount \in Int /\ c.to # BurnAddress
      /\ Survivors = {LeftClaim(a) : a \in {a \in Rewarded : Left(a) > 0}}
      /\ Burned + SumFunctionOnSet([a \in Rewarded |-> Lost(a)], Rewarded) = rest
  BY <1>1, SurvivorsSpec
<1>5. result = Survivors /\ burnAmount = rest
  <2>1. Rewarded \ todo = Rewarded
    BY <1>1
  <2>2. /\ result = {LeftClaim(a) : a \in {a \in Rewarded : Left(a) > 0}}
        /\ burnAmount = Burned + SumFunctionOnSet([a \in Rewarded |-> Lost(a)], Rewarded)
    BY <1>1, <2>1 DEF Settling
  <2> QED
    BY <1>4, <2>2
<1>6. result' = WithBurn(Survivors, rest)
  BY <1>1, <1>5
<1>7. SumAmounts(result') = Funds
  <2>1. Funds \in Nat
    BY <1>1, FundsSpec
  <2>2. rest = Funds - SumAmounts(Survivors)
    OBVIOUS
  <2> HIDE DEF rest
  <2>3. SumAmounts(result') = SumAmounts(Survivors) + rest
    BY <1>4, <1>6, AddBurn
  <2> QED
    BY <1>4, <2>1, <2>2, <2>3
<1>8. SumAmounts({c \in MergedClaims : c.amount > 0}) = Funds
  BY <1>1, PositiveMergedClaims
<1>9. phase' = IF network = "flare" THEN "conditions" ELSE "build"
  BY <1>1, <1>7, <1>8
<1>10. Funds' = Funds /\ Survivors' = Survivors
  BY <1>1, FixedClaims
<1>11. result' = WithBurn(Survivors, Funds - SumAmounts(Survivors))'
  BY <1>6, <1>10
<1>12. phase' = "build" => network' # "flare" /\ Kept' = Survivors'
  BY <1>1, <1>9 DEF Kept
<1>13. phase' = "conditions" => network' = "flare"
  BY <1>1, <1>9
<1>14. Decided'
  BY <1>9, <1>11, <1>12, <1>13 DEF Decided
<1>15. Indexing' /\ Settling'
  BY <1>2 DEF Indexing, Settling
<1> QED
  BY <1>3, <1>14, <1>15 DEF IInv

LEMMA ApplyMinConditionsStep ==
  ASSUME IInv, NEW current, \A v \in Voters : current[v] \in Nat, ApplyMinConditions(current)
  PROVE  IInv'
<1> DEFINE burning == BurnAddresses(passes')
           out == {c \in result : c.to \in burning}
           kept == {c \in Survivors : c.to \notin burning}
<1>1. /\ ClaimsOK /\ Merging /\ Decided /\ phase = "conditions" /\ phase' = "build"
      /\ UNCHANGED <<claims, network, k, merged>>
      /\ delta' \in [Voters -> PassDeltas]
      /\ passes' = [v \in Voters |-> current[v] + delta'[v]]
      /\ result' = WithBurn(result \ out, SumAmounts(out))
  BY DEF IInv, ApplyMinConditions
<1>2. ClaimsOK' /\ Merging'
  BY <1>1, FixedMerging
<1>3. network = "flare" /\ result = WithBurn(Survivors, Funds - SumAmounts(Survivors))
  BY <1>1 DEF Decided
<1>4. BurnAddress \in burning
  BY DEF BurnAddresses
<1>5. Kept' = kept /\ Funds' = Funds
  <2>1. Survivors' = Survivors /\ Funds' = Funds
    BY <1>1, FixedClaims
  <2>2. network' = "flare"
    BY <1>1, <1>3
  <2> QED
    BY <2>1, <2>2 DEF Kept
<1>6. out = {c \in result : c.to \in burning} /\ kept = {c \in Survivors : c.to \notin burning}
  OBVIOUS
<1> HIDE DEF burning, out, kept
<1>7. result \ out = kept /\ SumAmounts(out) = Funds - SumAmounts(kept)
  <2>1. phase # "merge"
    BY <1>1
  <2> QED
    BY <1>1, <1>3, <1>4, <1>6, <2>1, ConditionsSpec
<1>8. result' = WithBurn(kept, Funds - SumAmounts(kept))
  BY <1>1, <1>7
<1>9. result' = WithBurn(Kept, Funds - SumAmounts(Kept))'
  BY <1>5, <1>8
<1>10. \A v \in Voters : delta'[v] >= 0 => passes'[v] \in Nat
  <2>1. \A v \in Voters : delta'[v] \in Int
    BY <1>1, PassesAssumption
  <2> QED
    BY <1>1, <2>1
<1>11. Decided'
  BY <1>1, <1>9, <1>10 DEF Decided
<1>12. Indexing' /\ Settling'
  BY <1>1 DEF Indexing, Settling
<1> QED
  BY <1>2, <1>11, <1>12 DEF IInv

LEMMA BuildResultsStep == IInv /\ BuildResults => IInv'
<1> SUFFICES ASSUME IInv, BuildResults PROVE IInv'
  OBVIOUS
<1>1. /\ ClaimsOK /\ Merging /\ Decided /\ phase = "build"
      /\ phase' = IF result = {} THEN "panic" ELSE "done"
      /\ published' = result
      /\ UNCHANGED <<claims, network, k, merged, passes, delta, result>>
  BY DEF IInv, BuildResults
<1>2. phase' \in {"panic", "done"}
  BY <1>1
<1>3. ClaimsOK' /\ Merging'
  BY <1>1, <1>2, FixedMerging
<1>4. /\ result = WithBurn(Kept, Funds - SumAmounts(Kept))
      /\ network = "flare" => \A v \in Voters : delta[v] >= 0 => passes[v] \in Nat
  BY <1>1 DEF Decided
<1>5. Funds' = Funds /\ Survivors' = Survivors
  BY <1>1, FixedClaims
<1>6. Kept' = Kept
  BY <1>1, <1>5 DEF Kept
<1>7. result = {} => Funds = 0
  <2> SUFFICES ASSUME result = {} PROVE Funds = 0
    OBVIOUS
  <2>1. Kept = {} /\ ~(Funds - SumAmounts(Kept) > 0)
    BY <1>4 DEF WithBurn
  <2>2. SumAmounts({}) = 0
    BY SumEmpty DEF SumAmounts
  <2>3. Funds \in Nat
    BY <1>1, FundsSpec
  <2> QED
    BY <2>1, <2>2, <2>3
<1>8. Decided'
  <2>1. CASE result = {}
    <3>1. phase' = "panic" /\ Funds' = 0
      BY <1>1, <1>5, <1>7, <2>1
    <3> QED
      BY <3>1 DEF Decided
  <2>2. CASE result # {}
    <3>1. phase' = "done" /\ published' = result'
      BY <1>1, <2>2
    <3>2. result' = WithBurn(Kept, Funds - SumAmounts(Kept))'
      BY <1>1, <1>4, <1>5, <1>6
    <3>3. network' = "flare" => \A v \in Voters : delta'[v] >= 0 => passes'[v] \in Nat
      BY <1>1, <1>4
    <3> QED
      BY <3>1, <3>2, <3>3 DEF Decided
  <2> QED
    BY <2>1, <2>2
<1>9. Indexing' /\ Settling'
  BY <1>2 DEF Indexing, Settling
<1> QED
  BY <1>3, <1>8, <1>9 DEF IInv

LEMMA StutterStep == IInv /\ UNCHANGED vars => IInv'
<1> SUFFICES ASSUME IInv, UNCHANGED vars PROVE IInv'
  OBVIOUS
<1>1. UNCHANGED <<network, claims, phase, k, merged, todo, rewards, penalties, burnAmount, result, delta, passes, published>>
  BY DEF vars
<1>2. ClaimsOK' /\ Merging'
  <2>1. \A ns : AmountsAt(ns)' = AmountsAt(ns)
    BY <1>1 DEF AmountsAt
  <2>2. Keys(k - 1)' = Keys(k - 1) /\ \A y : Under(y, k - 1)' = Under(y, k - 1)
    BY <1>1 DEF Keys, Under
  <2>3. \A y : AmountsAt(Under(y, k - 1))' = AmountsAt(Under(y, k - 1))
    BY <1>1, <2>2 DEF AmountsAt
  <2> QED
    BY <1>1, <2>2, <2>3 DEF IInv, ClaimsOK, Merging
<1>3. /\ \A a : Earned(a)' = Earned(a) /\ Penalty(a)' = Penalty(a) /\ Left(a)' = Left(a) /\ Lost(a)' = Lost(a)
      /\ \A a : LeftClaim(a)' = LeftClaim(a)
      /\ Funds' = Funds /\ Burned' = Burned /\ Rewarded' = Rewarded /\ Survivors' = Survivors
  BY <1>1, FixedClaims
<1>4. Indexing'
  <2>1. \A y : (ToReward(y)' <=> ToReward(y)) /\ (ToPenalise(y)' <=> ToPenalise(y))
    BY <1>1 DEF ToReward, ToPenalise
  <2> QED
    BY <1>1, <2>1 DEF IInv, Indexing
<1>5. Settling'
  <2>1. [a \in Rewarded |-> Lost(a)]' = [a \in Rewarded |-> Lost(a)]
    BY <1>3
  <2> QED
    BY <1>1, <1>3, <2>1 DEF IInv, Settling
<1>6. Decided'
  <2>1. Kept' = Kept
    BY <1>1, <1>3 DEF Kept
  <2> QED
    BY <1>1, <1>3, <2>1 DEF IInv, Decided
<1> QED
  BY <1>2, <1>4, <1>5, <1>6 DEF IInv

LEMMA NextStep == IInv /\ [Next]_vars => IInv'
<1> SUFFICES ASSUME IInv, [Next]_vars PROVE IInv'
  OBVIOUS
<1>1. CASE MergeClaim
  BY <1>1, MergeClaimStep
<1>2. CASE MergeDone
  BY <1>2, MergeDoneStep
<1>3. CASE IndexClaim
  BY <1>3, IndexClaimStep
<1>4. CASE IndexDone
  BY <1>4, IndexDoneStep
<1>5. CASE SettleReward
  BY <1>5, SettleRewardStep
<1>6. CASE SettleDone
  BY <1>6, SettleDoneStep
<1>7. CASE FetchedPasses
  <2>1. PICK current \in [Voters -> Passes] : ApplyMinConditions(current)
    BY <1>7 DEF FetchedPasses
  <2>2. \A v \in Voters : current[v] \in Nat
    BY PassesAssumption
  <2> QED
    BY <2>1, <2>2, ApplyMinConditionsStep
<1>8. CASE FetchFailed
  <2> DEFINE none == [v \in Voters |-> 0]
  <2>1. ApplyMinConditions(none)
    BY <1>8 DEF FetchFailed
  <2>2. \A v \in Voters : none[v] \in Nat
    OBVIOUS
  <2> HIDE DEF none
  <2> QED
    BY <2>1, <2>2, ApplyMinConditionsStep
<1>9. CASE BuildResults
  BY <1>9, BuildResultsStep
<1>10. CASE UNCHANGED vars
  BY <1>10, StutterStep
<1> QED
  BY <1>1, <1>2, <1>3, <1>4, <1>5, <1>6, <1>7, <1>8, <1>9, <1>10 DEF Next

(* The inductive invariant of the last stage: what has been merged, indexed  *)
(* and settled so far does not depend on the order it was visited in         *)
(* (CalculateResults of rewards/calculate.go).                              *)
THEOREM LedgerInvariant == Spec => []IInv
<1> QED
  BY InitIInv, NextStep, PTL DEF Spec

(* Whatever the order of the map iterations, the claims published for an     *)
(* epoch are the same set: each account's rewards less its own penalties,    *)
(* without those burned for lack of passes, and one burn claim of the rest   *)
(* of the funds (merge.go, min-conditions.go).                              *)
THEOREM SameClaimsWhateverTheOrder == Spec => []OrderIndependent
<1>1. IInv => OrderIndependent
  BY DEF IInv, Decided, OrderIndependent
<1> QED
  BY <1>1, LedgerInvariant, PTL

(* The comparison of the sums before and after the penalties never panics    *)
(* (merge.go:116), nor does an epoch with a positive claim.                  *)
THEOREM TotalsAgree == Spec => []NoPanic
<1>1. IInv => NoPanic
  BY DEF IInv, Decided, NoPanic
<1> QED
  BY <1>1, LedgerInvariant, PTL

(* A voter that met the conditions of the epoch keeps everything its         *)
(* penalties left, also when the previous passes could not be fetched        *)
(* (calculate.go:51).                                                       *)
THEOREM MetConditionsKeepRewards == Spec => []MetKeepsRewards
<1>1. IInv => MetKeepsRewards
  <2> SUFFICES ASSUME IInv, phase = "done", network = "flare", NEW v \in Voters, delta[v] >= 0,
                      NEW c \in Survivors, c.to \in AddressesOf[v]
               PROVE  c \in published
    BY DEF MetKeepsRewards
  <2>1. passes[v] \in Nat /\ published = WithBurn(Kept, Funds - SumAmounts(Kept))
    BY DEF IInv, Decided
  <2>2. c.to \notin BurnAddresses(passes)
    <3>1. c.to # BurnAddress
      BY AddressesAssumption
    <3>2. \A w \in Voters : c.to \in AddressesOf[w] => ~(passes[w] < 0)
      <4> SUFFICES ASSUME NEW w \in Voters, c.to \in AddressesOf[w] PROVE ~(passes[w] < 0)
        OBVIOUS
      <4>1. v = w
        BY AddressesAssumption
      <4> QED
        BY <2>1, <4>1
    <3> QED
      BY <3>1, <3>2 DEF BurnAddresses
  <2>3. c \in Kept
    BY <2>2 DEF Kept
  <2> QED
    BY <2>1, <2>3 DEF WithBurn
<1> QED
  BY <1>1, LedgerInvariant, PTL
=============================================================================
