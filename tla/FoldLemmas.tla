------------------------------ MODULE FoldLemmas ------------------------------
(***************************************************************************)
(* What the proofs of the components rest on: the arithmetic of portions,   *)
(* induction, and the folds of the community modules.                      *)
(*                                                                         *)
(* The model adds up claims, weights and fees with SumFunctionOnSet and     *)
(* FoldLeft, which are defined by recursion over the subsets of a domain;   *)
(* PortionsOf and AtPositions are recursive functions.  The induction used  *)
(* here is on a set of numbers instead of a predicate (LeastNat), so that   *)
(* each proof states what it inducts on as a set.                          *)
(***************************************************************************)
EXTENDS Portions, Subsequences, FiniteSetTheorems, SequenceTheorems, WellFoundedInduction, TLAPS

(* Arithmetic of floor(w * a / t), the portion every distribution loop of    *)
(* the calculator draws (rewards/signing.go:112-115 and its copies):        *)
(* w a weight, a the wei left, t the weight left, p and T the whole pot      *)
(* and the whole weight, d a number of earlier draws.                       *)

(* The quotient is the largest number of whole t in x. *)
LEMMA DivDef ==
  ASSUME NEW x \in Nat, NEW t \in Nat, t > 0
  PROVE  /\ x \div t \in Nat
         /\ t * (x \div t) <= x
         /\ x < t * (x \div t) + t
  BY SMT

LEMMA ModDef ==
  ASSUME NEW x \in Nat, NEW t \in Nat, t > 0
  PROVE  /\ x \div t \in Nat /\ x % t \in 0 .. t - 1
         /\ x = t * (x \div t) + (x % t)
<1>1. x \div t \in Nat
  BY DivDef
<1>2. x % t \in 0 .. t - 1
  BY SMT
<1>3. x = t * (x \div t) + (x % t)
  BY SMT
<1> QED
  BY <1>1, <1>2, <1>3

(* The same for an amount of either sign: the quotient is rounded down. *)
LEMMA DivOfInt ==
  ASSUME NEW x \in Int, NEW t \in Nat, t > 0
  PROVE  x \div t \in Int /\ t * (x \div t) <= x /\ x < t * (x \div t) + t
  BY SMT

(* Multiplying by a natural number keeps the order. *)
LEMMA MulMono ==
  ASSUME NEW a \in Int, NEW b \in Int, NEW c \in Nat, a <= b
  PROVE  a * c <= b * c
  BY SMT

(* A positive factor can be dropped from both sides. *)
LEMMA MulCancel ==
  ASSUME NEW a \in Int, NEW b \in Int, NEW c \in Nat, c > 0, a * c <= b * c
  PROVE  a <= b
  BY SMT

(* A portion never exceeds what is left. *)
LEMMA PortionBound ==
  ASSUME NEW w \in Nat, NEW a \in Nat, NEW t \in Nat, t > 0, w <= t
  PROVE  (w * a) \div t \in 0 .. a
<1> DEFINE q == (w * a) \div t
<1>1. w * a \in Nat
  BY SMT
<1>2. q \in Nat /\ t * q <= w * a
  BY DivDef, <1>1
<1>3. w * a <= t * a
  BY MulMono
<1>4. q * t <= a * t
  BY <1>2, <1>3, SMT
<1> QED
  BY <1>2, <1>4, MulCancel

(* The last entry, whose weight is all that is left, draws everything. *)
LEMMA PortionOfAll ==
  ASSUME NEW a \in Nat, NEW t \in Nat, t > 0
  PROVE  (t * a) \div t = a
  BY SMT

(* A draw does not lower the wei left per weight left ... *)
LEMMA RatioNotLowered ==
  ASSUME NEW w \in Nat, NEW a \in Nat, NEW t \in Nat, NEW p \in Nat, NEW T \in Nat,
         t > 0, w <= t, p * t <= a * T
  PROVE  p * (t - w) <= (a - (w * a) \div t) * T
<1> DEFINE q == (w * a) \div t
<1>1. w * a \in Nat
  BY SMT
<1>2. q \in Nat /\ q * t <= w * a
  BY DivDef, <1>1, SMT
<1> HIDE DEF q
<1>3. (q * t) * T <= (w * a) * T
  BY <1>1, <1>2, MulMono, SMT
<1>4. (p * t) * (t - w) <= (a * T) * (t - w)
  BY MulMono, SMT
<1>5. (p * (t - w)) * t = (p * t) * (t - w)
  BY SMT
<1>6. ((a - q) * T) * t = (a * T) * (t - w) + ((w * a) * T - (q * t) * T)
  BY <1>2, SMT
<1>7. (p * (t - w)) * t <= ((a - q) * T) * t
  BY <1>2, <1>3, <1>4, <1>5, <1>6, SMT
<1> QED
  BY <1>2, <1>7, MulCancel, SMT DEF q

(* ... and raises it by less than one wei. *)
LEMMA RatioRaisedByOne ==
  ASSUME NEW w \in Nat, NEW a \in Nat, NEW t \in Nat, NEW p \in Nat, NEW T \in Nat, NEW d \in Nat,
         t > 0, w <= t, a * T <= p * t + d * T
  PROVE  (a - (w * a) \div t) * T <= p * (t - w) + (d + 1) * T
<1> DEFINE q == (w * a) \div t
<1>1. w * a \in Nat
  BY SMT
<1>2. q \in Nat /\ w * a <= q * t + t
  BY DivDef, <1>1, SMT
<1> HIDE DEF q
<1>3. (w * a) * T <= (q * t + t) * T
  BY <1>1, <1>2, MulMono, SMT
<1>4. (a * T) * (t - w) <= (p * t + d * T) * (t - w)
  BY MulMono, SMT
<1>5. ((a - q) * T) * t = (a * T) * (t - w) + (w * a) * T - (q * t + t) * T + t * T
  BY <1>2, SMT
<1>6. (p * t + d * T) * (t - w) = (p * (t - w)) * t + (d * T) * t - (d * T) * w
  BY SMT
<1>7. 0 <= (d * T) * w
  BY SMT
<1>8. (p * (t - w) + (d + 1) * T) * t = (p * (t - w)) * t + (d * T) * t + t * T
  BY SMT
<1>9. ((a - q) * T) * t <= (p * (t - w) + (d + 1) * T) * t
  <2> DEFINE x == (a * T) * (t - w)   y == (w * a) * T   z == (q * t + t) * T
             u == (p * (t - w)) * t   v == (d * T) * t   g == (d * T) * w   h == t * T
  <2>1. x \in Int /\ y \in Int /\ z \in Int /\ u \in Int /\ v \in Int /\ g \in Int /\ h \in Int
    BY <1>2, SMT
  <2> HIDE DEF x, y, z, u, v, g, h
  <2>2. x <= u + v - g /\ y <= z /\ 0 <= g
    BY <1>3, <1>4, <1>6, <1>7 DEF x, y, z, u, v, g
  <2>3. x + y - z + h <= u + v + h
    BY <2>1, <2>2
  <2> QED
    BY <2>3, <1>5, <1>8 DEF x, y, z, u, v, h
<1> QED
  BY <1>2, <1>9, MulCancel, SMT DEF q

(* A portion is at least the floor of the proportional share of the pot. *)
LEMMA PortionAtLeastFloor ==
  ASSUME NEW w \in Nat, NEW a \in Nat, NEW t \in Nat, NEW p \in Nat, NEW T \in Nat,
         t > 0, T > 0, p * t <= a * T
  PROVE  (w * p) \div T <= (w * a) \div t
<1> DEFINE q == (w * a) \div t   f == (w * p) \div T
<1>1. w * a \in Nat /\ w * p \in Nat
  BY SMT
<1>2. q \in Nat /\ w * a < t * q + t
  BY DivDef, <1>1
<1>3. f \in Nat /\ T * f <= w * p
  BY DivDef, <1>1
<1> HIDE DEF q, f
<1>4. (T * f) * t <= (w * p) * t
  BY <1>1, <1>3, MulMono, SMT
<1>5. (p * t) * w <= (a * T) * w
  BY MulMono, SMT
<1>6. (T * f) * t = (f * t) * T /\ (w * p) * t = (p * t) * w /\ (a * T) * w = (w * a) * T
  BY <1>3, SMT
<1>7. (f * t) * T <= (w * a) * T
  BY <1>1, <1>3, <1>4, <1>5, <1>6, SMT
<1>8. f * t \in Nat
  BY <1>3, SMT
<1>9. f * t <= w * a
  BY <1>1, <1>7, <1>8, MulCancel
<1>10. f * t < (q + 1) * t
  BY <1>1, <1>2, <1>8, <1>9, SMT
<1>11. ~ (q + 1 <= f)
  <2> SUFFICES ASSUME q + 1 <= f PROVE FALSE
    OBVIOUS
  <2>1. (q + 1) * t <= f * t
    BY <1>2, <1>3, MulMono, SMT
  <2> QED
    BY <1>2, <1>8, <1>10, <2>1, SMT
<1> QED
  BY <1>2, <1>3, <1>11, SMT DEF q, f

(* A portion exceeds the exact share by at most one wei per earlier draw. *)
LEMMA PortionAtMost ==
  ASSUME NEW w \in Nat, NEW a \in Nat, NEW t \in Nat, NEW p \in Nat, NEW T \in Nat, NEW d \in Nat,
         t > 0, w <= t, a * T <= p * t + d * T
  PROVE  ((w * a) \div t) * T <= w * p + d * T
<1> DEFINE q == (w * a) \div t
<1>1. w * a \in Nat
  BY SMT
<1>2. q \in Nat /\ q * t <= w * a
  BY DivDef, <1>1, SMT
<1> HIDE DEF q
<1>3. (q * t) * T <= (w * a) * T
  BY <1>1, <1>2, MulMono, SMT
<1>4. (a * T) * w <= (p * t + d * T) * w
  BY MulMono, SMT
<1>5. w * (d * T) <= t * (d * T)
  BY MulMono, SMT
<1>6. (q * t) * T = (q * T) * t /\ (w * a) * T = (a * T) * w
  BY <1>2, SMT
<1>7. (p * t + d * T) * w = (w * p) * t + w * (d * T)
  BY SMT
<1>8. (w * p + d * T) * t = (w * p) * t + t * (d * T)
  BY SMT
<1>9. (q * T) * t <= (w * p + d * T) * t
  <2> DEFINE x == (q * T) * t   y == (a * T) * w   z == (w * p) * t
             u == w * (d * T)   v == t * (d * T)
  <2>1. x \in Int /\ y \in Int /\ z \in Int /\ u \in Int /\ v \in Int
    BY <1>2, SMT
  <2> HIDE DEF x, y, z, u, v
  <2>2. x <= y /\ y <= z + u /\ u <= v
    BY <1>3, <1>4, <1>5, <1>6, <1>7 DEF x, y, z, u, v
  <2>3. x <= z + v
    BY <2>1, <2>2
  <2> QED
    BY <2>3, <1>8 DEF x, z, v
<1> QED
  BY <1>2, <1>9, MulCancel, SMT DEF q

LEMMA DivUnique ==
  ASSUME NEW x \in Nat, NEW t \in Nat, t > 0, NEW d \in Nat, t * d <= x, x < t * d + t
  PROVE  x \div t = d
<1> DEFINE q == x \div t
<1>1. q \in Nat /\ t * q <= x /\ x < t * q + t
  BY DivDef
<1> HIDE DEF q
<1>2. q < d => FALSE
  <2> SUFFICES ASSUME q < d PROVE FALSE
    OBVIOUS
  <2>1. (q + 1) * t <= d * t
    BY <1>1, MulMono
  <2>2. (q + 1) * t = t * q + t /\ d * t = t * d /\ t * d \in Nat /\ t * q \in Nat
    BY <1>1, SMT
  <2> QED
    BY <1>1, <2>1, <2>2
<1>3. d < q => FALSE
  <2> SUFFICES ASSUME d < q PROVE FALSE
    OBVIOUS
  <2>1. (d + 1) * t <= q * t
    BY <1>1, MulMono
  <2>2. (d + 1) * t = t * d + t /\ q * t = t * q /\ t * d \in Nat /\ t * q \in Nat
    BY <1>1, SMT
  <2> QED
    BY <1>1, <2>1, <2>2
<1>4. q = d
  BY <1>1, <1>2, <1>3
<1> QED
  BY <1>4 DEF q
-----------------------------------------------------------------------------
(* Every non-empty set of natural numbers has a least element. *)
LEMMA LeastNat ==
  ASSUME NEW T, T \subseteq Nat, T # {}
  PROVE  \E x \in T : \A y \in T : x <= y
<1> DEFINE R == OpToRel(<, Nat)
<1>1. IsWellFoundedOn(R, Nat)
  BY NatLessThanWellFounded
<1>2. \A x, y \in Nat : y < x => <<y, x>> \in R
  BY DEF OpToRel
<1> HIDE DEF R
<1>3. \E x \in T : \A y \in T : <<y, x>> \notin R
  BY <1>1, WFMin
<1>4. \A x, y \in T : <<y, x>> \notin R => x <= y
  BY <1>2
<1> QED
  BY <1>3, <1>4

(* Induction: a set with 0 and with the successor of each of its numbers. *)
LEMMA SetInduction ==
  ASSUME NEW T, 0 \in T, \A n \in Nat : n \in T => n + 1 \in T
  PROVE  Nat \subseteq T
<1> SUFFICES ASSUME Nat \ T # {} PROVE FALSE
  OBVIOUS
<1>1. PICK x \in Nat \ T : \A y \in Nat \ T : x <= y
  BY LeastNat
<1>2. x # 0 /\ x - 1 \in Nat /\ x - 1 \in T
  BY <1>1
<1> QED
  BY <1>1, <1>2

(* Induction over the subsets of a finite set. *)
LEMMA SubsetInduction ==
  ASSUME NEW S, IsFiniteSet(S), NEW F, {} \in F,
         \A s \in SUBSET S : (s # {} /\ \A x \in s : s \ {x} \in F) => s \in F
  PROVE  SUBSET S \subseteq F
<1> DEFINE I == {n \in Nat : \A s \in SUBSET S : Cardinality(s) = n => s \in F}
<1>1. \A s \in SUBSET S : IsFiniteSet(s) /\ Cardinality(s) \in Nat
  BY FS_Subset, FS_CardinalityType
<1>2. 0 \in I
  BY <1>1, FS_EmptySet
<1>3. ASSUME NEW n \in Nat, n \in I
      PROVE  n + 1 \in I
  <2> SUFFICES ASSUME NEW s \in SUBSET S, Cardinality(s) = n + 1
               PROVE  s \in F
    OBVIOUS
  <2>1. s # {}
    BY <1>1, FS_EmptySet
  <2>2. \A x \in s : Cardinality(s \ {x}) = Cardinality(s) - 1
    BY <1>1, FS_RemoveElement
  <2>3. \A x \in s : Cardinality(s \ {x}) = n
    BY <2>2
  <2> QED
    BY <1>3, <2>1, <2>3
<1>4. Nat \subseteq I
  <2> HIDE DEF I
  <2> QED
    BY <1>2, <1>3, SetInduction
<1> QED
  BY <1>1, <1>4

(* it is the function of the subsets of S that takes out one element, which  *)
(* pick chooses, and goes on with the rest.                                  *)
Recursive(it, S, base, pick, step) ==
  it = [s \in SUBSET S |-> IF s = {} THEN base ELSE step[<<pick[s], it[s \ {pick[s]}]>>]]

(* Such a function exists, and its values stay in the set step leads to.     *)
LEMMA SubsetRecursion ==
  ASSUME NEW S, IsFiniteSet(S), NEW V, NEW base \in V, NEW pick, NEW step \in [S \X V -> V],
         \A s \in SUBSET S : s # {} => pick[s] \in s
  PROVE  \E it \in [SUBSET S -> V] : Recursive(it, S, base, pick, step)
<1> DEFINE Upto(n) == {s \in SUBSET S : Cardinality(s) <= n}
           Body(it, s) == IF s = {} THEN base ELSE step[<<pick[s], it[s \ {pick[s]}]>>]
           I == {n \in Nat : \E it \in [Upto(n) -> V] : \A s \in Upto(n) : it[s] = Body(it, s)}
<1>1. \A s \in SUBSET S : IsFiniteSet(s) /\ Cardinality(s) \in Nat /\ (Cardinality(s) = 0 <=> s = {})
  BY FS_Subset, FS_CardinalityType, FS_EmptySet
<1>2. \A s \in SUBSET S : s # {} => s \ {pick[s]} \in SUBSET S /\ Cardinality(s \ {pick[s]}) = Cardinality(s) - 1
  BY <1>1, FS_RemoveElement
<1>3. 0 \in I
  <2> DEFINE it == [s \in Upto(0) |-> base]
  <2>1. \A s \in Upto(0) : s = {}
    BY <1>1
  <2>2. it \in [Upto(0) -> V] /\ \A s \in Upto(0) : it[s] = Body(it, s)
    BY <2>1
  <2> QED
    BY <2>2
<1>4. ASSUME NEW n \in Nat, n \in I
      PROVE  n + 1 \in I
  <2>1. PICK it \in [Upto(n) -> V] : \A s \in Upto(n) : it[s] = Body(it, s)
    BY <1>4
  <2> DEFINE next == [s \in Upto(n + 1) |-> IF s \in Upto(n) THEN it[s] ELSE Body(it, s)]
  <2>2. \A s \in Upto(n + 1) : s # {} => pick[s] \in S /\ s \ {pick[s]} \in Upto(n)
    BY <1>1, <1>2
  <2>3. \A s \in Upto(n + 1) : Body(it, s) \in V
    BY <2>2
  <2>4. next \in [Upto(n + 1) -> V]
    BY <2>3
  <2>5. Upto(n) \subseteq Upto(n + 1)
    BY <1>1
  <2>6. \A s \in Upto(n + 1) : s # {} => next[s \ {pick[s]}] = it[s \ {pick[s]}]
    BY <2>2, <2>5
  <2>7. \A s \in Upto(n + 1) : next[s] = Body(next, s)
    BY <2>1, <2>6
  <2>8. \E new \in [Upto(n + 1) -> V] : \A s \in Upto(n + 1) : new[s] = Body(new, s)
    <3> HIDE DEF next, Upto, Body
    <3> QED
      BY <2>4, <2>7
  <2>9. n + 1 \in Nat
    OBVIOUS
  <2> HIDE DEF Upto, Body
  <2> QED
    BY <2>8, <2>9
<1>5. Nat \subseteq I
  <2> HIDE DEF I
  <2> QED
    BY <1>3, <1>4, SetInduction
<1>6. Cardinality(S) \in I
  BY <1>1, <1>5
<1>7. Upto(Cardinality(S)) = SUBSET S
  BY <1>1, FS_Subset
<1>8. PICK it \in [SUBSET S -> V] : \A s \in SUBSET S : it[s] = Body(it, s)
  BY <1>6, <1>7
<1>9. Recursive(it, S, base, pick, step)
  BY <1>8 DEF Recursive
<1> QED
  BY <1>9

(* What SumFunctionOnSet computes: the sums of f over the subsets of S. *)
Chosen(s) == CHOOSE x \in s : TRUE
Sums(f, S) ==
  CHOOSE it : it = [s \in SUBSET S |-> IF s = {} THEN 0 ELSE f[Chosen(s)] + it[s \ {Chosen(s)}]]

LEMMA ChosenIn == \A s : s # {} => Chosen(s) \in s
  BY DEF Chosen

LEMMA SumsSpec ==
  ASSUME NEW S, IsFiniteSet(S), NEW f, \A x \in S : f[x] \in Int
  PROVE  /\ SumFunctionOnSet(f, S) = Sums(f, S)[S]
         /\ \A s \in SUBSET S : Sums(f, S)[s] \in Int
         /\ Sums(f, S)[{}] = 0
         /\ \A s \in SUBSET S : s # {} => Sums(f, S)[s] = f[Chosen(s)] + Sums(f, S)[s \ {Chosen(s)}]
<1> DEFINE pick == [s \in SUBSET S |-> Chosen(s)]
           step == [p \in S \X Int |-> f[p[1]] + p[2]]
           Sum(it) == [s \in SUBSET S |-> IF s = {} THEN 0 ELSE f[Chosen(s)] + it[s \ {Chosen(s)}]]
<1>1. \A s \in SUBSET S : s # {} => pick[s] \in s
  BY ChosenIn
<1>2. step \in [S \X Int -> Int] /\ \A x \in S, n \in Int : step[<<x, n>>] = f[x] + n
  OBVIOUS
<1>3. PICK it \in [SUBSET S -> Int] :
        Recursive(it, S, 0, pick, step)
  <2>1. 0 \in Int
    OBVIOUS
  <2> HIDE DEF pick, step
  <2> QED
    BY <1>1, <1>2, <2>1, SubsetRecursion, Zenon
<1>4. it = Sum(it)
  <2>1. ASSUME NEW s \in SUBSET S, s # {}
        PROVE  it[s] = f[Chosen(s)] + it[s \ {Chosen(s)}]
    <3>1. it[s] = step[<<pick[s], it[s \ {pick[s]}]>>]
      <4> HIDE DEF pick, step
      <4> QED
        BY <1>3, <2>1 DEF Recursive
    <3>2. pick[s] \in S /\ it[s \ {pick[s]}] \in Int
      BY <1>1, <2>1
    <3>3. it[s] = f[pick[s]] + it[s \ {pick[s]}]
      <4> HIDE DEF pick, step
      <4> QED
        BY <1>2, <3>1, <3>2
    <3> QED
      BY <3>3
  <2>2. it[{}] = 0
    BY <1>3 DEF Recursive
  <2> QED
    BY <2>1, <2>2
<1>5. Sums(f, S) = Sum(Sums(f, S))
  BY <1>4 DEF Sums
<1>6. \A s \in SUBSET S : s # {} =>
        Sums(f, S)[s] = f[Chosen(s)] + Sums(f, S)[s \ {Chosen(s)}]
  BY <1>5
<1>7. Sums(f, S)[{}] = 0
  BY <1>5
<1>8. SumFunctionOnSet(f, S) = Sums(f, S)[S]
  BY DEF Sums, Chosen, SumFunctionOnSet, FoldFunctionOnSet, MapThenFoldSet
<1>9. \A s \in SUBSET S : Sums(f, S)[s] \in Int
  <2> DEFINE G == {s \in SUBSET S : Sums(f, S)[s] \in Int}
  <2>1. {} \in G
    BY <1>7
  <2>2. ASSUME NEW s \in SUBSET S, s # {}, \A x \in s : s \ {x} \in G
        PROVE  s \in G
    <3>1. PICK c \in s : Sums(f, S)[s] = f[c] + Sums(f, S)[s \ {c}]
      BY <1>6, <2>2, ChosenIn
    <3>2. f[c] \in Int /\ Sums(f, S)[s \ {c}] \in Int
      BY <2>2
    <3> QED
      BY <3>1, <3>2
  <2>3. SUBSET S \subseteq G
    <3> HIDE DEF G
    <3> QED
      BY <2>1, <2>2, SubsetInduction
  <2> QED
    BY <2>3
<1> QED
  BY <1>6, <1>7, <1>8, <1>9


(* A sum depends on the values in the set only. *)
LEMMA SumsAgree ==
  ASSUME NEW S, IsFiniteSet(S), NEW f, \A x \in S : f[x] \in Int,
         NEW T, IsFiniteSet(T), NEW g, \A x \in T : g[x] \in Int,
         NEW u \in SUBSET (S \cap T), \A x \in u : f[x] = g[x]
  PROVE  Sums(f, S)[u] = Sums(g, T)[u]
<1> DEFINE G == {s \in SUBSET u : Sums(f, S)[s] = Sums(g, T)[s]}
<1>1. {} \in G
  BY SumsSpec
<1>2. \A s \in SUBSET S : s # {} => Sums(f, S)[s] = f[Chosen(s)] + Sums(f, S)[s \ {Chosen(s)}]
  BY SumsSpec
<1>3. \A s \in SUBSET T : s # {} => Sums(g, T)[s] = g[Chosen(s)] + Sums(g, T)[s \ {Chosen(s)}]
  BY SumsSpec
<1>4. ASSUME NEW s \in SUBSET u, s # {}, \A x \in s : s \ {x} \in G
      PROVE  s \in G
  <2> DEFINE c == Chosen(s)
  <2>1. c \in s /\ Sums(f, S)[s \ {c}] = Sums(g, T)[s \ {c}] /\ f[c] = g[c]
    BY <1>4, ChosenIn
  <2>2. s \in SUBSET S /\ s \in SUBSET T
    BY <1>4
  <2>3. Sums(f, S)[s] = f[c] + Sums(f, S)[s \ {c}]
    BY <1>4, <2>2, <1>2
  <2>4. Sums(g, T)[s] = g[c] + Sums(g, T)[s \ {c}]
    BY <1>4, <2>2, <1>3
  <2> QED
    BY <2>1, <2>3, <2>4
<1>5. IsFiniteSet(u)
  BY FS_Subset
<1>6. SUBSET u \subseteq G
  <2> HIDE DEF G
  <2> QED
    BY <1>1, <1>4, <1>5, SubsetInduction
<1> QED
  BY <1>6

LEMMA SumsOfSubset ==
  ASSUME NEW S, IsFiniteSet(S), NEW f, \A x \in S : f[x] \in Int, NEW T \in SUBSET S
  PROVE  SumFunctionOnSet(f, T) = Sums(f, S)[T]
<1>1. IsFiniteSet(T) /\ \A x \in T : f[x] \in Int
  BY FS_Subset
<1>2. SumFunctionOnSet(f, T) = Sums(f, T)[T]
  BY <1>1, SumsSpec
<1>3. T \in SUBSET (S \cap T)
  OBVIOUS
<1>4. Sums(f, S)[T] = Sums(f, T)[T]
  BY <1>1, <1>3, SumsAgree
<1> QED
  BY <1>2, <1>4

LEMMA SumEqual ==
  ASSUME NEW S, IsFiniteSet(S), NEW f, \A x \in S : f[x] \in Int, NEW g, \A x \in S : g[x] = f[x]
  PROVE  SumFunctionOnSet(f, S) = SumFunctionOnSet(g, S)
<1>1. S \in SUBSET (S \cap S) /\ (\A x \in S : g[x] \in Int) /\ (\A x \in S : f[x] = g[x])
  OBVIOUS
<1>2. Sums(f, S)[S] = Sums(g, S)[S]
  BY <1>1, SumsAgree
<1>3. SumFunctionOnSet(f, S) = Sums(f, S)[S] /\ SumFunctionOnSet(g, S) = Sums(g, S)[S]
  BY <1>1, SumsSpec
<1> QED
  BY <1>2, <1>3

LEMMA SumInt ==
  ASSUME NEW S, IsFiniteSet(S), NEW f, \A x \in S : f[x] \in Int
  PROVE  SumFunctionOnSet(f, S) \in Int
BY SumsSpec

LEMMA SumEmpty ==
  ASSUME NEW f
  PROVE  SumFunctionOnSet(f, {}) = 0
<1>1. IsFiniteSet({}) /\ \A x \in {} : f[x] \in Int
  BY FS_EmptySet
<1> QED
  BY <1>1, SumsSpec

(* The order in which the elements are taken is of no consequence: any of    *)
(* them can be taken out.                                                   *)
LEMMA SumTakeOut ==
  ASSUME NEW S, IsFiniteSet(S), NEW f, \A x \in S : f[x] \in Int, NEW a \in S
  PROVE  SumFunctionOnSet(f, S) = f[a] + SumFunctionOnSet(f, S \ {a})
<1> DEFINE sum == Sums(f, S)
           G == {s \in SUBSET S : \A x \in s : sum[s] = f[x] + sum[s \ {x}]}
<1>1. {} \in G
  OBVIOUS
<1>2. \A s \in SUBSET S : s # {} => sum[s] = f[Chosen(s)] + sum[s \ {Chosen(s)}]
  BY SumsSpec
<1>3. ASSUME NEW s \in SUBSET S, s # {}, \A x \in s : s \ {x} \in G
      PROVE  s \in G
  <2> SUFFICES ASSUME NEW x \in s PROVE sum[s] = f[x] + sum[s \ {x}]
    OBVIOUS
  <2>1. PICK c \in s : sum[s] = f[c] + sum[s \ {c}]
    BY <1>3, <1>2, ChosenIn
  <2>2. CASE x = c
    BY <2>1, <2>2
  <2>3. CASE x # c
    <3> DEFINE rest == sum[(s \ {x}) \ {c}]
    <3>1. (s \ {c}) \ {x} = (s \ {x}) \ {c}
      OBVIOUS
    <3>2. sum[s \ {c}] = f[x] + rest
      BY <1>3, <2>3, <3>1
    <3>3. sum[s \ {x}] = f[c] + rest
      BY <1>3, <2>3
    <3>4. f[x] \in Int /\ f[c] \in Int /\ rest \in Int
      BY SumsSpec
    <3> HIDE DEF sum, rest
    <3> QED
      BY <2>1, <3>2, <3>3, <3>4
  <2> QED
    BY <2>2, <2>3
<1>4. SUBSET S \subseteq G
  <2> HIDE DEF G
  <2> QED
    BY <1>1, <1>3, SubsetInduction
<1>5. S \in SUBSET S /\ S \ {a} \in SUBSET S
  OBVIOUS
<1>6. sum[S] = f[a] + sum[S \ {a}]
  BY <1>4
<1>7. SumFunctionOnSet(f, S) = sum[S] /\ SumFunctionOnSet(f, S \ {a}) = sum[S \ {a}]
  BY <1>5, SumsOfSubset
<1> QED
  BY <1>6, <1>7

(* One value changes. *)
LEMMA SumExcept ==
  ASSUME NEW S, IsFiniteSet(S), NEW f, \A x \in S : f[x] \in Int, NEW a \in S,
         NEW g, g[a] \in Int, \A x \in S : x # a => g[x] = f[x]
  PROVE  SumFunctionOnSet(g, S) = SumFunctionOnSet(f, S) - f[a] + g[a]
<1>1. IsFiniteSet(S \ {a}) /\ \A x \in S \ {a} : f[x] \in Int
  BY FS_Subset
<1>2. \A x \in S : g[x] \in Int
  OBVIOUS
<1>3. SumFunctionOnSet(f, S) = f[a] + SumFunctionOnSet(f, S \ {a})
  BY SumTakeOut
<1>4. SumFunctionOnSet(g, S) = g[a] + SumFunctionOnSet(g, S \ {a})
  BY <1>2, SumTakeOut
<1>5. \A x \in S \ {a} : g[x] = f[x]
  OBVIOUS
<1>6. SumFunctionOnSet(f, S \ {a}) = SumFunctionOnSet(g, S \ {a})
  BY <1>1, <1>5, SumEqual
<1>7. SumFunctionOnSet(f, S \ {a}) \in Int
  BY <1>1, SumInt
<1> QED
  BY <1>3, <1>4, <1>6, <1>7

(* A positive number of positions has a last one. *)
LEMMA MaxOfPositions ==
  ASSUME NEW n \in Nat, NEW t \in SUBSET (1 .. n), t # {}
  PROVE  Max(t) \in t /\ \A y \in t : y <= Max(t)
<1> DEFINE T == {m \in Nat : n - m \in t}
<1>1. \A y \in t : y \in Int /\ y <= n /\ n - y \in Nat /\ n - (n - y) = y
  OBVIOUS
<1>2. \A y \in t : n - y \in T
  BY <1>1
<1>3. PICK d \in T : \A e \in T : d <= e
  <2>1. T \subseteq Nat /\ T # {}
    BY <1>2
  <2> HIDE DEF T
  <2> QED
    BY <2>1, LeastNat
<1>4. n - d \in t /\ \A y \in t : n - d >= y
  BY <1>1, <1>2, <1>3
<1>5. Max(t) \in t /\ \A y \in t : Max(t) >= y
  BY <1>4 DEF Max
<1> QED
  BY <1>5

(* A sum over a sequence, from left to right, is the sum over its positions. *)
LEMMA SumOfIsSum ==
  ASSUME NEW s \in Seq(Int)
  PROVE  SumOf(s) = SumFunctionOnSet(s, 1 .. Len(s))
<1> DEFINE D == 1 .. Len(s)
           pick == [t \in SUBSET D |-> Max(t)]
           step == [p \in D \X Int |-> p[2] + s[p[1]]]
           Body(it) == [t \in SUBSET D |-> IF t = {} THEN 0 ELSE it[t \ {Max(t)}] + s[Max(t)]]
           fold == CHOOSE it : it = Body(it)
<1>1. DOMAIN s = D /\ Len(s) \in Nat /\ \A x \in D : s[x] \in Int
  OBVIOUS
<1>2. IsFiniteSet(D) /\ \A n \in Nat : IsFiniteSet(1 .. n)
  BY <1>1, FS_Interval
<1>3. \A t \in SUBSET D : t # {} => Max(t) \in t /\ \A y \in t : y <= Max(t)
  BY <1>1, MaxOfPositions
<1>4. \A t \in SUBSET D : t # {} => pick[t] \in t
  BY <1>3
<1>5. step \in [D \X Int -> Int] /\ \A x \in D, n \in Int : step[<<x, n>>] = n + s[x]
  BY <1>1
<1>6. PICK it \in [SUBSET D -> Int] : Recursive(it, D, 0, pick, step)
  <2>1. 0 \in Int
    OBVIOUS
  <2> HIDE DEF pick, step, D
  <2> QED
    BY <1>2, <1>4, <1>5, <2>1, SubsetRecursion, Zenon
<1>7. it = Body(it)
  <2>1. ASSUME NEW t \in SUBSET D, t # {}
        PROVE  it[t] = it[t \ {Max(t)}] + s[Max(t)]
    <3>1. it[t] = step[<<pick[t], it[t \ {pick[t]}]>>]
      <4> HIDE DEF pick, step
      <4> QED
        BY <1>6, <2>1 DEF Recursive
    <3>2. pick[t] \in D /\ it[t \ {pick[t]}] \in Int
      BY <1>4, <2>1
    <3>3. it[t] = it[t \ {pick[t]}] + s[pick[t]]
      <4> HIDE DEF pick, step
      <4> QED
        BY <1>5, <3>1, <3>2
    <3> QED
      BY <3>3
  <2>2. it[{}] = 0
    BY <1>6 DEF Recursive
  <2> QED
    BY <2>1, <2>2
<1>8. fold = Body(fold)
  BY <1>7
<1>9. SumOf(s) = fold[D]
  BY <1>1 DEF SumOf, FoldLeft, MapThenFoldSet
<1>10. fold[{}] = 0 /\ \A t \in SUBSET D : t # {} => fold[t] = fold[t \ {Max(t)}] + s[Max(t)]
  BY <1>8
<1> DEFINE I == {n \in Nat : n <= Len(s) => fold[1 .. n] = SumFunctionOnSet(s, 1 .. n)}
<1>11. 0 \in I
  <2>1. 1 .. 0 = {}
    OBVIOUS
  <2> QED
    BY <1>10, <2>1, SumEmpty
<1>12. ASSUME NEW n \in Nat, n \in I, n + 1 <= Len(s)
       PROVE  fold[1 .. n + 1] = SumFunctionOnSet(s, 1 .. n + 1)
  <2> DEFINE t == 1 .. n + 1
  <2>1. t \in SUBSET D /\ t # {} /\ n + 1 \in t /\ IsFiniteSet(t)
    BY <1>1, <1>2, <1>12
  <2>2. Max(t) = n + 1
    <3>1. Max(t) \in t /\ n + 1 <= Max(t)
      BY <1>3, <2>1
    <3> QED
      BY <3>1
  <2>3. t \ {n + 1} = 1 .. n
    OBVIOUS
  <2>4. fold[t] = fold[1 .. n] + s[n + 1]
    BY <1>10, <2>1, <2>2, <2>3
  <2>5. SumFunctionOnSet(s, t) = s[n + 1] + SumFunctionOnSet(s, 1 .. n)
    <3>1. \A x \in t : s[x] \in Int
      BY <1>1, <2>1
    <3>2. SumFunctionOnSet(s, t) = s[n + 1] + SumFunctionOnSet(s, t \ {n + 1})
      <4> HIDE DEF t
      <4> QED
        BY <2>1, <3>1, SumTakeOut
    <3> QED
      BY <2>3, <3>2
  <2>6. SumFunctionOnSet(s, 1 .. n) \in Int /\ s[n + 1] \in Int
    <3>1. IsFiniteSet(1 .. n) /\ \A x \in 1 .. n : s[x] \in Int
      BY <1>1, <1>2, <1>12
    <3> QED
      BY <1>1, <1>12, <3>1, SumInt
  <2>7. fold[1 .. n] = SumFunctionOnSet(s, 1 .. n)
    BY <1>12
  <2> HIDE DEF fold, t
  <2>8. fold[t] = SumFunctionOnSet(s, t)
    BY <2>4, <2>5, <2>6, <2>7
  <2> QED
    BY <2>8 DEF t
<1>13. Nat \subseteq I
  <2>1. ASSUME NEW n \in Nat, n \in I PROVE n + 1 \in I
    <3>1. n + 1 \in Nat
      OBVIOUS
    <3>2. n + 1 <= Len(s) => fold[1 .. n + 1] = SumFunctionOnSet(s, 1 .. n + 1)
      BY <1>12, <2>1
    <3> HIDE DEF fold
    <3> QED
      BY <3>1, <3>2
  <2> HIDE DEF I
  <2> QED
    BY <1>11, <2>1, SetInduction
<1>14. Len(s) \in I
  BY <1>1, <1>13
<1>15. fold[1 .. Len(s)] = SumFunctionOnSet(s, 1 .. Len(s))
  <2> HIDE DEF fold
  <2> QED
    BY <1>1, <1>14
<1> HIDE DEF fold
<1> QED
  BY <1>9, <1>15

(* The sum over the first k positions, one position at a time. *)
LEMMA SumOfPositions ==
  ASSUME NEW m \in Int, NEW n \in Int, NEW f, \A x \in m .. n : f[x] \in Int
  PROVE  /\ IsFiniteSet(m .. n)
         /\ SumFunctionOnSet(f, m .. n) \in Int
         /\ n < m => SumFunctionOnSet(f, m .. n) = 0
         /\ m <= n => SumFunctionOnSet(f, m .. n) = f[n] + SumFunctionOnSet(f, m .. n - 1)
         /\ m <= n => SumFunctionOnSet(f, m .. n) = f[m] + SumFunctionOnSet(f, m + 1 .. n)
<1>1. IsFiniteSet(m .. n)
  BY FS_Interval
<1>2. SumFunctionOnSet(f, m .. n) \in Int
  BY <1>1, SumInt
<1>3. n < m => m .. n = {}
  OBVIOUS
<1>4. m <= n => n \in m .. n /\ (m .. n) \ {n} = m .. n - 1 /\ m \in m .. n /\ (m .. n) \ {m} = m + 1 .. n
  OBVIOUS
<1>5. \A a \in m .. n : SumFunctionOnSet(f, m .. n) = f[a] + SumFunctionOnSet(f, (m .. n) \ {a})
  BY <1>1, SumTakeOut
<1> QED
  BY <1>1, <1>2, <1>3, <1>4, <1>5, SumEmpty

LEMMA SumOfInt ==
  ASSUME NEW s \in Seq(Int)
  PROVE  SumOf(s) \in Int
<1>1. 1 \in Int /\ Len(s) \in Int /\ \A x \in 1 .. Len(s) : s[x] \in Int
  OBVIOUS
<1> QED
  BY <1>1, SumOfPositions, SumOfIsSum

(* A sum of zeros is nothing. *)
LEMMA SumZero ==
  ASSUME NEW S, IsFiniteSet(S), NEW f, \A x \in S : f[x] = 0
  PROVE  SumFunctionOnSet(f, S) = 0
<1> DEFINE G == {s \in SUBSET S : SumFunctionOnSet(f, s) = 0}
<1>1. {} \in G
  BY SumEmpty
<1>2. ASSUME NEW s \in SUBSET S, s # {}, \A x \in s : s \ {x} \in G
      PROVE  s \in G
  <2>1. IsFiniteSet(s) /\ \A y \in s : f[y] \in Int
    BY FS_Subset
  <2>2. PICK x \in s : SumFunctionOnSet(f, s) = f[x] + SumFunctionOnSet(f, s \ {x})
    BY <1>2, <2>1, SumTakeOut
  <2> QED
    BY <1>2, <2>2
<1>3. SUBSET S \subseteq G
  <2> HIDE DEF G
  <2> QED
    BY <1>1, <1>2, SubsetInduction
<1> QED
  BY <1>3

(* A sum of natural numbers is one, and no smaller than any of them. *)
LEMMA SumNat ==
  ASSUME NEW S, IsFiniteSet(S), NEW f, \A x \in S : f[x] \in Nat
  PROVE  /\ SumFunctionOnSet(f, S) \in Nat
         /\ \A x \in S : f[x] <= SumFunctionOnSet(f, S)
<1>1. \A x \in S : f[x] \in Int
  OBVIOUS
<1> DEFINE G == {s \in SUBSET S : SumFunctionOnSet(f, s) \in Nat}
<1>2. {} \in G
  BY SumEmpty
<1>3. \A s \in SUBSET S : \A x \in s : SumFunctionOnSet(f, s) = f[x] + SumFunctionOnSet(f, s \ {x})
  <2> TAKE s \in SUBSET S
  <2> TAKE x \in s
  <2>1. IsFiniteSet(s) /\ \A y \in s : f[y] \in Int
    BY <1>1, FS_Subset
  <2> QED
    BY <2>1, SumTakeOut
<1>4. ASSUME NEW s \in SUBSET S, s # {}, \A x \in s : s \ {x} \in G
      PROVE  s \in G
  <2>1. PICK x \in s : SumFunctionOnSet(f, s) = f[x] + SumFunctionOnSet(f, s \ {x})
    BY <1>3, <1>4
  <2>2. SumFunctionOnSet(f, s \ {x}) \in Nat
    BY <1>4
  <2> QED
    BY <2>1, <2>2
<1>5. SUBSET S \subseteq G
  <2> HIDE DEF G
  <2> QED
    BY <1>2, <1>4, SubsetInduction
<1>6. \A s \in SUBSET S : SumFunctionOnSet(f, s) \in Nat
  BY <1>5
<1>7. \A x \in S : SumFunctionOnSet(f, S) = f[x] + SumFunctionOnSet(f, S \ {x})
  BY <1>3
<1>8. \A x \in S : SumFunctionOnSet(f, S \ {x}) \in Nat
  BY <1>6
<1>9. SumFunctionOnSet(f, S) \in Nat
  BY <1>6
<1>10. ASSUME NEW x \in S PROVE f[x] <= SumFunctionOnSet(f, S)
  <2>1. SumFunctionOnSet(f, S) = f[x] + SumFunctionOnSet(f, S \ {x})
    BY <1>7
  <2>2. SumFunctionOnSet(f, S \ {x}) \in Nat
    BY <1>8
  <2> QED
    BY <2>1, <2>2
<1> QED
  BY <1>9, <1>10

(* The weight that is left falls by that of the entry passed. *)
LEMMA WeightFromIsSum ==
  ASSUME NEW w \in Seq(Nat), NEW n \in 1 .. Len(w) + 1
  PROVE  WeightFrom(w, n) = SumFunctionOnSet(w, n .. Len(w))
<1> DEFINE rest == SubSeq(w, n, Len(w))
           I == {k \in Nat : n + k - 1 <= Len(w) =>
                   SumFunctionOnSet(rest, 1 .. k) = SumFunctionOnSet(w, n .. n + k - 1)}
<1>1. Len(w) \in Nat /\ n \in Int /\ \A x \in 1 .. Len(w) : w[x] \in Nat
  OBVIOUS
<1>2. /\ rest \in Seq(Nat) /\ Len(rest) = Len(w) - n + 1
      /\ \A x \in 1 .. Len(w) - n + 1 : rest[x] = w[n + x - 1]
  BY <1>1, SubSeqProperties
<1>3. 0 \in I
  <2>1. 1 .. 0 = {} /\ n .. n + 0 - 1 = {}
    BY <1>1
  <2> QED
    BY <2>1, SumEmpty
<1>4. ASSUME NEW k \in Nat, k \in I, n + (k + 1) - 1 <= Len(w)
      PROVE  SumFunctionOnSet(rest, 1 .. k + 1) = SumFunctionOnSet(w, n .. n + (k + 1) - 1)
  <2>1. \A x \in 1 .. k + 1 : rest[x] \in Int
    BY <1>1, <1>2, <1>4
  <2>2. SumFunctionOnSet(rest, 1 .. k + 1) = rest[k + 1] + SumFunctionOnSet(rest, 1 .. (k + 1) - 1)
    <3>1. 1 \in Int /\ k + 1 \in Int /\ 1 <= k + 1
      OBVIOUS
    <3> HIDE DEF rest
    <3> QED
      BY <2>1, <3>1, SumOfPositions
  <2>3. \A x \in n .. n + (k + 1) - 1 : w[x] \in Int
    BY <1>1, <1>4
  <2>4. n + (k + 1) - 1 \in Int /\ n <= n + (k + 1) - 1
    BY <1>1
  <2>5. SumFunctionOnSet(w, n .. n + (k + 1) - 1)
          = w[n + (k + 1) - 1] + SumFunctionOnSet(w, n .. n + (k + 1) - 1 - 1)
    BY <1>1, <2>3, <2>4, SumOfPositions
  <2>6. (k + 1) - 1 = k /\ n + (k + 1) - 1 - 1 = n + k - 1 /\ rest[k + 1] = w[n + (k + 1) - 1]
    BY <1>1, <1>2, <1>4
  <2>7. SumFunctionOnSet(rest, 1 .. k) = SumFunctionOnSet(w, n .. n + k - 1)
    BY <1>1, <1>4
  <2> HIDE DEF rest
  <2> QED
    BY <2>2, <2>5, <2>6, <2>7
<1>5. \A k \in Nat : k \in I => k + 1 \in I
  <2> HIDE DEF rest
  <2> QED
    BY <1>4
<1>6. Nat \subseteq I
  <2> HIDE DEF I
  <2> QED
    BY <1>3, <1>5, SetInduction
<1>7. Len(rest) \in I /\ n + Len(rest) - 1 = Len(w)
  BY <1>1, <1>2, <1>6
<1>8. SumFunctionOnSet(rest, 1 .. Len(rest)) = SumFunctionOnSet(w, n .. Len(w))
  <2> HIDE DEF rest
  <2> QED
    BY <1>7
<1>9. SumOf(rest) = SumFunctionOnSet(rest, 1 .. Len(rest))
  <2>1. rest \in Seq(Int)
    BY <1>2
  <2> HIDE DEF rest
  <2> QED
    BY <2>1, SumOfIsSum
<1> QED
  BY <1>8, <1>9 DEF WeightFrom

LEMMA WeightFromStep ==
  ASSUME NEW w \in Seq(Nat)
  PROVE  /\ WeightFrom(w, 1) = SumOf(w)
         /\ WeightFrom(w, Len(w) + 1) = 0
         /\ \A n \in 1 .. Len(w) + 1 : WeightFrom(w, n) \in Nat
         /\ \A n \in 1 .. Len(w) :
              WeightFrom(w, n) = w[n] + WeightFrom(w, n + 1) /\ w[n] <= WeightFrom(w, n)
<1>1. Len(w) \in Nat /\ w \in Seq(Int) /\ \A x \in 1 .. Len(w) : w[x] \in Nat
  OBVIOUS
<1>2. WeightFrom(w, 1) = SumOf(w)
  BY <1>1, WeightFromIsSum, SumOfIsSum
<1>3. WeightFrom(w, Len(w) + 1) = 0
  <2>1. Len(w) + 1 .. Len(w) = {}
    BY <1>1
  <2> QED
    BY <1>1, <2>1, WeightFromIsSum, SumEmpty
<1>4. \A n \in 1 .. Len(w) + 1 : WeightFrom(w, n) \in Nat
  <2> TAKE n \in 1 .. Len(w) + 1
  <2>1. IsFiniteSet(n .. Len(w)) /\ \A x \in n .. Len(w) : w[x] \in Nat
    BY <1>1, FS_Interval
  <2> QED
    BY <2>1, WeightFromIsSum, SumNat
<1>5. ASSUME NEW n \in 1 .. Len(w)
      PROVE  WeightFrom(w, n) = w[n] + WeightFrom(w, n + 1)
  <2>1. n \in Int /\ Len(w) \in Int /\ n <= Len(w) /\ \A x \in n .. Len(w) : w[x] \in Int
    BY <1>1
  <2>2. SumFunctionOnSet(w, n .. Len(w)) = w[n] + SumFunctionOnSet(w, n + 1 .. Len(w))
    BY <2>1, SumOfPositions
  <2>3. n \in 1 .. Len(w) + 1 /\ n + 1 \in 1 .. Len(w) + 1
    BY <1>1
  <2> QED
    BY <2>2, <2>3, WeightFromIsSum
<1>6. \A n \in 1 .. Len(w) : w[n] \in Nat /\ WeightFrom(w, n + 1) \in Nat
  BY <1>1, <1>4
<1> QED
  BY <1>2, <1>3, <1>4, <1>5, <1>6

(* A function of 0 .. N that is defined by its value at 0 and step by step. *)
StepByStep(it, N, base, step) ==
  it = [n \in 0 .. N |-> IF n = 0 THEN base ELSE step[<<n, it[n - 1]>>]]

LEMMA NatRecursion ==
  ASSUME NEW N \in Nat, NEW V, NEW base \in V, NEW step \in [(1 .. N) \X V -> V]
  PROVE  \E it \in [0 .. N -> V] : StepByStep(it, N, base, step)
<1> DEFINE Body(it, n) == IF n = 0 THEN base ELSE step[<<n, it[n - 1]>>]
           I == {k \in Nat : k <= N => \E it \in [0 .. k -> V] : \A n \in 0 .. k : it[n] = Body(it, n)}
<1>1. 0 \in I
  <2> DEFINE it == [n \in 0 .. 0 |-> base]
  <2>1. it \in [0 .. 0 -> V] /\ \A n \in 0 .. 0 : it[n] = Body(it, n)
    OBVIOUS
  <2> QED
    BY <2>1
<1>2. ASSUME NEW k \in Nat, k \in I, k + 1 <= N
      PROVE  \E it \in [0 .. k + 1 -> V] : \A n \in 0 .. k + 1 : it[n] = Body(it, n)
  <2>1. PICK it \in [0 .. k -> V] : \A n \in 0 .. k : it[n] = Body(it, n)
    BY <1>2
  <2> DEFINE next == [n \in 0 .. k + 1 |-> IF n <= k THEN it[n] ELSE step[<<n, it[n - 1]>>]]
  <2>2. it[k] \in V /\ step[<<k + 1, it[k]>>] \in V
    BY <1>2
  <2>3. next \in [0 .. k + 1 -> V]
    BY <2>2
  <2>4. \A n \in 0 .. k + 1 : next[n] = Body(next, n)
    <3>1. \A n \in 0 .. k : next[n] = it[n]
      OBVIOUS
    <3>2. next[k + 1] = step[<<k + 1, it[k]>>]
      OBVIOUS
    <3>3. \A n \in 0 .. k : (n # 0 => next[n - 1] = it[n - 1]) /\ it[n] = Body(it, n)
      BY <2>1, <3>1
    <3>4. \A n \in 0 .. k : next[n] = Body(next, n)
      <4> HIDE DEF next
      <4> QED
        BY <3>1, <3>3
    <3>5. next[k + 1] = Body(next, k + 1)
      <4>1. k + 1 # 0 /\ (k + 1) - 1 = k /\ next[k] = it[k]
        BY <3>1
      <4> HIDE DEF next
      <4> QED
        BY <3>2, <4>1
    <3>6. \A n \in 0 .. k + 1 : n \in 0 .. k \/ n = k + 1
      OBVIOUS
    <3> HIDE DEF next, Body
    <3> QED
      BY <3>4, <3>5, <3>6
  <2> HIDE DEF next, Body
  <2> QED
    BY <2>3, <2>4
<1>3. \A k \in Nat : k \in I => k + 1 \in I
  <2> TAKE k \in Nat
  <2> HAVE k \in I
  <2>1. k + 1 \in Nat
    OBVIOUS
  <2>2. k + 1 <= N => \E it \in [0 .. k + 1 -> V] : \A n \in 0 .. k + 1 : it[n] = Body(it, n)
    BY <1>2
  <2> HIDE DEF Body
  <2> QED
    BY <2>1, <2>2
<1>4. Nat \subseteq I
  <2> HIDE DEF I
  <2> QED
    BY <1>1, <1>3, SetInduction
<1>5. PICK it \in [0 .. N -> V] : \A n \in 0 .. N : it[n] = Body(it, n)
  BY <1>4
<1>6. StepByStep(it, N, base, step)
  BY <1>5 DEF StepByStep
<1> QED
  BY <1>6

(* What is left of the pot, entry by entry. *)
LEMMA LeftAfterSpec ==
  ASSUME NEW w \in Seq(Nat), NEW pot \in Nat
  PROVE  /\ LeftAfter(w, pot)[0] = pot
         /\ \A n \in 0 .. Len(w) : LeftAfter(w, pot)[n] \in Nat
         /\ \A n \in 1 .. Len(w) :
              LeftAfter(w, pot)[n] =
                LeftAfter(w, pot)[n - 1]
                  - (IF w[n] = 0 THEN 0 ELSE (w[n] * LeftAfter(w, pot)[n - 1]) \div WeightFrom(w, n))
<1> DEFINE N == Len(w)
           Draw(n, a) == IF w[n] = 0 THEN 0 ELSE (w[n] * a) \div WeightFrom(w, n)
           step == [p \in (1 .. N) \X Nat |-> p[2] - Draw(p[1], p[2])]
           Body(it) == [n \in 0 .. N |-> IF n = 0 THEN pot ELSE it[n - 1] - Draw(n, it[n - 1])]
<1>1. N \in Nat /\ \A n \in 1 .. N : w[n] \in Nat
  OBVIOUS
<1>2. \A n \in 1 .. N : WeightFrom(w, n) \in Nat /\ w[n] <= WeightFrom(w, n)
  BY <1>1, WeightFromStep
<1>3. ASSUME NEW n \in 1 .. N, NEW a \in Nat
      PROVE  Draw(n, a) \in 0 .. a
  <2>1. CASE w[n] = 0
    BY <2>1
  <2>2. CASE w[n] # 0
    <3>1. w[n] \in Nat /\ WeightFrom(w, n) \in Nat /\ WeightFrom(w, n) > 0 /\ w[n] <= WeightFrom(w, n)
      BY <1>1, <1>2, <2>2
    <3>2. (w[n] * a) \div WeightFrom(w, n) \in 0 .. a
      BY <3>1, PortionBound
    <3> QED
      BY <2>2, <3>2
  <2> QED
    BY <2>1, <2>2
<1>4. step \in [(1 .. N) \X Nat -> Nat] /\ \A n \in 1 .. N, a \in Nat : step[<<n, a>>] = a - Draw(n, a)
  <2>1. \A n \in 1 .. N, a \in Nat : a - Draw(n, a) \in Nat
    <3> TAKE n \in 1 .. N, a \in Nat
    <3>1. Draw(n, a) \in 0 .. a
      BY <1>3
    <3> HIDE DEF Draw
    <3> QED
      BY <3>1
  <2> HIDE DEF Draw
  <2> QED
    BY <2>1
<1>5. PICK it \in [0 .. N -> Nat] : StepByStep(it, N, pot, step)
  <2> HIDE DEF step, N
  <2> QED
    BY <1>1, <1>4, NatRecursion
<1>6. it = Body(it)
  <2>1. it[0] = pot
    BY <1>1, <1>5 DEF StepByStep
  <2>2. ASSUME NEW n \in 1 .. N
        PROVE  it[n] = it[n - 1] - Draw(n, it[n - 1])
    <3>1. it[n] = step[<<n, it[n - 1]>>]
      <4> HIDE DEF step
      <4> QED
        BY <1>1, <1>5 DEF StepByStep
    <3>2. it[n - 1] \in Nat
      BY <1>1
    <3> HIDE DEF step, Draw
    <3> QED
      BY <1>4, <3>1, <3>2
  <2>3. \A n \in 0 .. N : it[n] = IF n = 0 THEN pot ELSE it[n - 1] - Draw(n, it[n - 1])
    <3> HIDE DEF Draw
    <3> QED
      BY <2>1, <2>2
  <2> HIDE DEF Draw
  <2> QED
    BY <2>3
<1> DEFINE left == CHOOSE l : l = Body(l)
<1>7. LeftAfter(w, pot) = left
  BY DEF LeftAfter
<1>8. left = Body(left)
  BY <1>6
<1> HIDE DEF left
<1>9. left[0] = pot
  BY <1>1, <1>8
<1>10. \A n \in 1 .. N : left[n] = left[n - 1] - Draw(n, left[n - 1])
  <2> HIDE DEF Draw
  <2> QED
    BY <1>1, <1>8
<1> DEFINE I == {k \in Nat : k <= N => left[k] \in Nat}
<1>11. Nat \subseteq I
  <2>1. 0 \in I
    BY <1>9
  <2>2. ASSUME NEW k \in Nat, k \in I PROVE k + 1 \in I
    <3> SUFFICES ASSUME k + 1 <= N PROVE left[k + 1] \in Nat
      OBVIOUS
    <3>1. k + 1 \in 1 .. N /\ (k + 1) - 1 = k /\ left[k] \in Nat
      BY <1>1, <2>2
    <3>2. left[k + 1] = left[k] - Draw(k + 1, left[k])
      <4> HIDE DEF Draw
      <4> QED
        BY <1>10, <3>1
    <3>3. Draw(k + 1, left[k]) \in 0 .. left[k]
      BY <1>3, <3>1
    <3> HIDE DEF Draw
    <3> QED
      BY <3>1, <3>2, <3>3
  <2> HIDE DEF I
  <2> QED
    BY <2>1, <2>2, SetInduction
<1>12. \A n \in 0 .. N : left[n] \in Nat
  BY <1>1, <1>11
<1> QED
  BY <1>7, <1>9, <1>10, <1>12

(* Division keeps the order. *)
LEMMA DivMono ==
  ASSUME NEW x \in Nat, NEW y \in Nat, NEW t \in Nat, t > 0, x <= y
  PROVE  x \div t <= y \div t
<1> DEFINE p == x \div t   q == y \div t
<1>1. p \in Nat /\ q \in Nat /\ t * p <= x /\ y < t * q + t
  BY DivDef
<1> HIDE DEF p, q
<1>2. t * p < t * q + t
  BY <1>1
<1>3. ~(q + 1 <= p)
  <2> SUFFICES ASSUME q + 1 <= p PROVE FALSE
    OBVIOUS
  <2>1. (q + 1) * t <= p * t
    BY <1>1, MulMono
  <2>2. (q + 1) * t = t * q + t /\ p * t = t * p
    BY <1>1
  <2>3. t * p \in Int /\ t * q \in Int
    BY <1>1
  <2> QED
    BY <1>2, <2>1, <2>2, <2>3
<1>4. p <= q
  BY <1>1, <1>3
<1> QED
  BY <1>4 DEF p, q

(* A larger amount never leaves less after one draw. *)
LEMMA RestMono ==
  ASSUME NEW w \in Nat, NEW t \in Nat, t > 0, w <= t, NEW a \in Nat, NEW b \in Nat, a <= b
  PROVE  /\ (w * a) \div t <= (w * b) \div t
         /\ a - (w * a) \div t <= b - (w * b) \div t
<1> DEFINE p == (w * a) \div t   q == (w * b) \div t
<1>1. w * a \in Nat /\ w * b \in Nat
  BY SMT
<1>2. w * a <= w * b
  <2>1. a * w <= b * w
    BY MulMono
  <2> QED
    BY <2>1
<1>3. p <= q
  BY <1>1, <1>2, DivMono
<1>4. p \in Nat /\ q \in Nat /\ w * a < t * p + t /\ t * q <= w * b
  BY <1>1, DivDef
<1> HIDE DEF p, q
<1>5. w * b - w * a <= t * (b - a)
  <2>1. w * (b - a) <= t * (b - a)
    BY MulMono
  <2>2. w * (b - a) = w * b - w * a
    BY SMT
  <2> QED
    BY <2>1, <2>2
<1>6. t * q - t * p < t * (b - a) + t
  <2> DEFINE x == w * a   y == w * b   z == t * p   u == t * q   v == t * (b - a)
  <2>1. x \in Int /\ y \in Int /\ z \in Int /\ u \in Int /\ v \in Int
    BY <1>4
  <2>2. x < z + t /\ u <= y /\ y - x <= v
    BY <1>4, <1>5
  <2> HIDE DEF x, y, z, u, v
  <2>3. u - z < v + t
    BY <2>1, <2>2
  <2> QED
    BY <2>3 DEF z, u, v
<1>7. ~(b - a + 1 <= q - p)
  <2> SUFFICES ASSUME b - a + 1 <= q - p PROVE FALSE
    OBVIOUS
  <2>1. (b - a + 1) * t <= (q - p) * t
    BY <1>4, MulMono
  <2>2. (b - a + 1) * t = t * (b - a) + t /\ (q - p) * t = t * q - t * p
    BY <1>4
  <2>3. t * q - t * p \in Int /\ t * (b - a) + t \in Int
    BY <1>4
  <2> QED
    BY <1>6, <2>1, <2>2, <2>3
<1> QED
  BY <1>3, <1>4, <1>7 DEF p, q

(* A larger pot never gives an entry less, nor leaves less. *)
LEMMA PortionsMono ==
  ASSUME NEW w \in Seq(Nat), NEW x \in Nat, NEW y \in Nat, x <= y
  PROVE  /\ \A n \in 0 .. Len(w) : LeftAfter(w, x)[n] <= LeftAfter(w, y)[n]
         /\ \A n \in DOMAIN w : PortionsOf(w, x)[n] <= PortionsOf(w, y)[n]
<1> DEFINE N == Len(w)
           lx == LeftAfter(w, x)
           ly == LeftAfter(w, y)
           Draw(n, a) == IF w[n] = 0 THEN 0 ELSE (w[n] * a) \div WeightFrom(w, n)
<1>1. N \in Nat /\ DOMAIN w = 1 .. N
  OBVIOUS
<1>2. \A n \in 1 .. N : w[n] \in Nat /\ WeightFrom(w, n) \in Nat /\ w[n] <= WeightFrom(w, n)
  BY <1>1, WeightFromStep
<1>3. lx[0] = x /\ ly[0] = y /\ \A n \in 0 .. N : lx[n] \in Nat /\ ly[n] \in Nat
  BY LeftAfterSpec
<1>4. \A n \in 1 .. N : lx[n] = lx[n - 1] - Draw(n, lx[n - 1]) /\ ly[n] = ly[n - 1] - Draw(n, ly[n - 1])
  BY LeftAfterSpec
<1>5. ASSUME NEW n \in 1 .. N, NEW a \in Nat, NEW b \in Nat, a <= b
      PROVE  Draw(n, a) \in Int /\ Draw(n, b) \in Int /\ Draw(n, a) <= Draw(n, b) /\ a - Draw(n, a) <= b - Draw(n, b)
  <2>1. CASE w[n] = 0
    BY <1>5, <2>1
  <2>2. CASE w[n] # 0
    <3>1. w[n] \in Nat /\ WeightFrom(w, n) \in Nat /\ WeightFrom(w, n) > 0 /\ w[n] <= WeightFrom(w, n)
      BY <1>2, <2>2
    <3>2. /\ (w[n] * a) \div WeightFrom(w, n) <= (w[n] * b) \div WeightFrom(w, n)
          /\ a - (w[n] * a) \div WeightFrom(w, n) <= b - (w[n] * b) \div WeightFrom(w, n)
      BY <1>5, <3>1, RestMono
    <3>3. (w[n] * a) \div WeightFrom(w, n) \in Int /\ (w[n] * b) \div WeightFrom(w, n) \in Int
      BY <3>1, PortionBound
    <3> QED
      BY <2>2, <3>2, <3>3
  <2> QED
    BY <2>1, <2>2
<1> DEFINE I == {k \in Nat : k <= N => lx[k] <= ly[k]}
<1>6. Nat \subseteq I
  <2> HIDE DEF Draw, lx, ly, N
  <2>1. 0 \in I
    BY <1>3
  <2>2. ASSUME NEW k \in Nat, k \in I PROVE k + 1 \in I
    <3> SUFFICES ASSUME k + 1 <= N PROVE lx[k + 1] <= ly[k + 1]
      OBVIOUS
    <3>1. k + 1 \in 1 .. N /\ (k + 1) - 1 = k /\ lx[k] \in Nat /\ ly[k] \in Nat /\ lx[k] <= ly[k]
      BY <1>1, <1>3, <2>2
    <3> QED
      BY <1>4, <1>5, <3>1
  <2> HIDE DEF I
  <2> QED
    BY <2>1, <2>2, SetInduction
<1>7. \A n \in 0 .. N : lx[n] <= ly[n]
  BY <1>1, <1>6
<1>8. \A n \in 1 .. N : lx[n - 1] - lx[n] <= ly[n - 1] - ly[n]
  <2> HIDE DEF Draw, lx, ly, N
  <2> TAKE n \in 1 .. N
  <2>1. lx[n - 1] \in Nat /\ ly[n - 1] \in Nat /\ lx[n - 1] <= ly[n - 1]
    BY <1>1, <1>3, <1>7
  <2>2. lx[n] = lx[n - 1] - Draw(n, lx[n - 1]) /\ ly[n] = ly[n - 1] - Draw(n, ly[n - 1])
    BY <1>4
  <2>3. Draw(n, lx[n - 1]) \in Int /\ Draw(n, ly[n - 1]) \in Int /\ Draw(n, lx[n - 1]) <= Draw(n, ly[n - 1])
    BY <1>5, <2>1
  <2> QED
    BY <2>1, <2>2, <2>3
<1>9. \A n \in 1 .. N : PortionsOf(w, x)[n] = lx[n - 1] - lx[n] /\ PortionsOf(w, y)[n] = ly[n - 1] - ly[n]
  BY <1>1 DEF PortionsOf
<1> QED
  BY <1>1, <1>7, <1>8, <1>9

(* If anybody has weight the portions are the whole pot, to the last wei,    *)
(* and nothing is left behind the last entry.                               *)
LEMMA PortionsSum ==
  ASSUME NEW w \in Seq(Nat), NEW pot \in Nat, SumOf(w) > 0 \/ pot = 0
  PROVE  /\ PortionsOf(w, pot) \in Seq(Nat) /\ Len(PortionsOf(w, pot)) = Len(w)
         /\ SumOf(PortionsOf(w, pot)) = pot
         /\ LeftAfter(w, pot)[Len(w)] = 0
<1> DEFINE N == Len(w)
           left == LeftAfter(w, pot)
           parts == PortionsOf(w, pot)
<1>1. N \in Nat /\ DOMAIN w = 1 .. N
  OBVIOUS
<1>2. \A n \in 1 .. N : w[n] \in Nat /\ WeightFrom(w, n) = w[n] + WeightFrom(w, n + 1)
  BY <1>1, WeightFromStep
<1>3. (WeightFrom(w, 1) > 0 \/ pot = 0) /\ WeightFrom(w, N + 1) = 0 /\ \A n \in 1 .. N + 1 : WeightFrom(w, n) \in Nat
  BY WeightFromStep
<1>4. left[0] = pot /\ \A n \in 0 .. N : left[n] \in Nat
  BY LeftAfterSpec
<1>5. \A n \in 1 .. N :
        left[n] = left[n - 1] - (IF w[n] = 0 THEN 0 ELSE (w[n] * left[n - 1]) \div WeightFrom(w, n))
  BY LeftAfterSpec
<1> HIDE DEF left
<1>6. ASSUME NEW n \in 1 .. N
      PROVE  left[n] <= left[n - 1] /\ (WeightFrom(w, n + 1) = 0 /\ WeightFrom(w, n) # 0 => left[n] = 0)
  <2>1. left[n - 1] \in Nat /\ left[n] \in Nat
    BY <1>1, <1>4
  <2>2. CASE w[n] = 0
    <3>1. left[n] = left[n - 1] - 0
      BY <1>5, <2>2
    <3>2. WeightFrom(w, n) = WeightFrom(w, n + 1)
      BY <1>1, <1>2, <1>3, <2>2
    <3> QED
      BY <2>1, <3>1, <3>2
  <2>3. CASE w[n] # 0
    <3> DEFINE W == WeightFrom(w, n)
    <3>1. w[n] \in Nat /\ W \in Nat /\ W > 0 /\ w[n] <= W /\ (WeightFrom(w, n + 1) = 0 => w[n] = W)
      BY <1>1, <1>2, <1>3, <2>3
    <3>2. left[n] = left[n - 1] - (w[n] * left[n - 1]) \div W
      BY <1>5, <2>3
    <3> HIDE DEF W
    <3>3. (w[n] * left[n - 1]) \div W \in 0 .. left[n - 1]
      BY <2>1, <3>1, PortionBound
    <3>4. (W * left[n - 1]) \div W = left[n - 1]
      BY <2>1, <3>1, PortionOfAll
    <3>5. left[n] <= left[n - 1]
      BY <2>1, <3>2, <3>3
    <3>6. w[n] = W => left[n] = 0
      BY <2>1, <3>2, <3>4
    <3> QED
      BY <3>1, <3>5, <3>6
  <2> QED
    BY <2>2, <2>3
<1>7. \A n \in 1 .. N : parts[n] = left[n - 1] - left[n]
  BY <1>1 DEF PortionsOf, left
<1>8. parts \in Seq(Nat) /\ Len(parts) = N
  <2>1. \A n \in 1 .. N : left[n - 1] - left[n] \in Nat
    <3> TAKE n \in 1 .. N
    <3>1. left[n - 1] \in Nat /\ left[n] \in Nat
      BY <1>1, <1>4
    <3> QED
      BY <1>6, <3>1
  <2>2. parts = [n \in 1 .. N |-> left[n - 1] - left[n]]
    BY <1>1 DEF PortionsOf, left
  <2>3. parts \in [1 .. N -> Nat]
    BY <2>1, <2>2
  <2> HIDE DEF parts
  <2> QED
    BY <1>1, <2>3
<1> DEFINE I == {k \in Nat : k <= N =>
                   /\ SumFunctionOnSet(parts, 1 .. k) = pot - left[k]
                   /\ WeightFrom(w, k + 1) = 0 => left[k] = 0}
<1>9. Nat \subseteq I
  <2>1. 0 \in I
    <3>1. SumFunctionOnSet(parts, 1 .. 0) = 0
      <4>1. 1 .. 0 = {}
        OBVIOUS
      <4> QED
        BY <4>1, SumEmpty
    <3> HIDE DEF parts
    <3> QED
      BY <1>3, <1>4, <3>1
  <2>2. ASSUME NEW k \in Nat, k \in I PROVE k + 1 \in I
    <3> SUFFICES ASSUME k + 1 <= N
                 PROVE  /\ SumFunctionOnSet(parts, 1 .. k + 1) = pot - left[k + 1]
                        /\ WeightFrom(w, (k + 1) + 1) = 0 => left[k + 1] = 0
      OBVIOUS
    <3>1. k + 1 \in 1 .. N /\ (k + 1) - 1 = k /\ left[k] \in Nat /\ left[k + 1] \in Nat
      BY <1>1, <1>4
    <3>2. SumFunctionOnSet(parts, 1 .. k) = pot - left[k] /\ (WeightFrom(w, k + 1) = 0 => left[k] = 0)
      BY <2>2, <3>1
    <3>3. \A x \in 1 .. k + 1 : parts[x] \in Int
      <4> HIDE DEF parts
      <4> QED
        BY <1>1, <1>8
    <3>4. SumFunctionOnSet(parts, 1 .. k + 1) = parts[k + 1] + SumFunctionOnSet(parts, 1 .. k)
      <4>1. 1 \in Int /\ k + 1 \in Int /\ 1 <= k + 1
        OBVIOUS
      <4> HIDE DEF parts
      <4> QED
        BY <3>1, <3>3, <4>1, SumOfPositions
    <3>5. parts[k + 1] = left[k] - left[k + 1]
      BY <1>7, <3>1
    <3> HIDE DEF parts
    <3>6. SumFunctionOnSet(parts, 1 .. k + 1) = pot - left[k + 1]
      BY <3>1, <3>2, <3>4, <3>5
    <3>7. WeightFrom(w, (k + 1) + 1) = 0 => left[k + 1] = 0
      BY <1>6, <3>1, <3>2
    <3> QED
      BY <3>6, <3>7
  <2> HIDE DEF I
  <2> QED
    BY <2>1, <2>2, SetInduction
<1>10. SumFunctionOnSet(parts, 1 .. N) = pot - 0 /\ left[N] = 0
  <2>1. N \in I
    BY <1>1, <1>9
  <2> HIDE DEF parts
  <2> QED
    BY <1>1, <1>3, <2>1
<1>11. SumOf(parts) = SumFunctionOnSet(parts, 1 .. N)
  <2>1. parts \in Seq(Int)
    BY <1>8
  <2> HIDE DEF parts
  <2> QED
    BY <1>8, <2>1, SumOfIsSum
<1> QED
  BY <1>8, <1>10, <1>11 DEF left
-----------------------------------------------------------------------------
(* at says from which position each element of a comes: a are the elements   *)
(* of s at the positions in P up to n, in their order.                       *)
TakenFrom(a, s, P, n, at) ==
  /\ at \in [1 .. Len(a) -> P \cap (1 .. n)]
  /\ \A k \in 1 .. Len(a) : a[k] = s[at[k]]
  /\ \A j, k \in 1 .. Len(a) : j < k => at[j] < at[k]
  /\ \A x \in P \cap (1 .. n) : \E k \in 1 .. Len(a) : at[k] = x

(* The loop goes through the list position by position. *)
KeptSoFar(s, P, kept) ==
  /\ AtPositions(s, P) = kept[Len(s)] /\ kept[0] = <<>>
  /\ \A n \in 1 .. Len(s) : kept[n] = IF n \in P THEN Append(kept[n - 1], s[n]) ELSE kept[n - 1]

LEMMA AtPositionsSteps ==
  ASSUME NEW E, NEW s \in Seq(E), NEW P
  PROVE  \E kept : KeptSoFar(s, P, kept)
<1> DEFINE N == Len(s)
           Keep(n, a) == IF n \in P THEN Append(a, s[n]) ELSE a
           step == [p \in (1 .. N) \X Seq(E) |-> Keep(p[1], p[2])]
           Body(it) == [n \in 0 .. N |-> IF n = 0 THEN <<>> ELSE Keep(n, it[n - 1])]
           kept == CHOOSE it : it = Body(it)
<1>1. N \in Nat /\ <<>> \in Seq(E) /\ \A n \in 1 .. N : s[n] \in E
  OBVIOUS
<1>2. step \in [(1 .. N) \X Seq(E) -> Seq(E)]
      /\ \A n \in 1 .. N, a \in Seq(E) : step[<<n, a>>] = Keep(n, a)
  BY <1>1
<1>3. PICK it \in [0 .. N -> Seq(E)] : StepByStep(it, N, <<>>, step)
  <2> HIDE DEF step, N
  <2> QED
    BY <1>1, <1>2, NatRecursion
<1>4. it = Body(it)
  <2>1. it[0] = <<>>
    BY <1>1, <1>3 DEF StepByStep
  <2>2. ASSUME NEW n \in 1 .. N
        PROVE  it[n] = Keep(n, it[n - 1])
    <3>1. it[n] = step[<<n, it[n - 1]>>]
      <4> HIDE DEF step
      <4> QED
        BY <1>1, <1>3 DEF StepByStep
    <3>2. it[n - 1] \in Seq(E)
      BY <1>1
    <3> HIDE DEF step, Keep
    <3> QED
      BY <1>2, <3>1, <3>2
  <2>3. \A n \in 0 .. N : it[n] = IF n = 0 THEN <<>> ELSE Keep(n, it[n - 1])
    <3> HIDE DEF Keep
    <3> QED
      BY <2>1, <2>2
  <2> HIDE DEF Keep
  <2> QED
    BY <2>3
<1>5. kept = Body(kept)
  BY <1>4
<1>6. AtPositions(s, P) = kept[N]
  BY DEF AtPositions
<1>7. kept[0] = <<>> /\ \A n \in 1 .. N : kept[n] = Keep(n, kept[n - 1])
  <2> HIDE DEF kept, Keep
  <2> QED
    BY <1>1, <1>5
<1>8. KeptSoFar(s, P, kept)
  <2> HIDE DEF kept
  <2> QED
    BY <1>6, <1>7 DEF KeptSoFar
<1> QED
  BY <1>8

LEMMA AtPositionsSpec ==
  ASSUME NEW E, NEW s \in Seq(E), NEW P
  PROVE  /\ AtPositions(s, P) \in Seq(E)
         /\ \E at : TakenFrom(AtPositions(s, P), s, P, Len(s), at)
<1> DEFINE N == Len(s)
<1>1. N \in Nat /\ <<>> \in Seq(E) /\ \A n \in 1 .. N : s[n] \in E
  OBVIOUS
<1>2. PICK kept : KeptSoFar(s, P, kept)
  BY AtPositionsSteps
<1>3. AtPositions(s, P) = kept[N]
  BY <1>2 DEF KeptSoFar
<1>4. kept[0] = <<>> /\ \A n \in 1 .. N : kept[n] = IF n \in P THEN Append(kept[n - 1], s[n]) ELSE kept[n - 1]
  BY <1>2 DEF KeptSoFar
<1> DEFINE I == {n \in Nat : n <= N => kept[n] \in Seq(E) /\ \E at : TakenFrom(kept[n], s, P, n, at)}
<1>5. 0 \in I
  <2>1. TakenFrom(<<>>, s, P, 0, [k \in 1 .. 0 |-> 0])
    BY DEF TakenFrom
  <2> QED
    BY <1>1, <1>4, <2>1
<1>6. ASSUME NEW n \in Nat, n \in I, n + 1 <= N
      PROVE  kept[n + 1] \in Seq(E) /\ \E at : TakenFrom(kept[n + 1], s, P, n + 1, at)
  <2> DEFINE a == kept[n]
  <2>1. a \in Seq(E) /\ \E at : TakenFrom(a, s, P, n, at)
    BY <1>6
  <2>2. kept[n + 1] = IF n + 1 \in P THEN Append(a, s[n + 1]) ELSE a
    <3>1. n + 1 \in 1 .. N /\ (n + 1) - 1 = n
      BY <1>1, <1>6
    <3> QED
      BY <1>4, <3>1
  <2> HIDE DEF a
  <2>3. PICK at : TakenFrom(a, s, P, n, at)
    BY <2>1
  <2>4. CASE n + 1 \in P
    <3> DEFINE b == Append(a, s[n + 1])
               new == [k \in 1 .. Len(a) + 1 |-> IF k = Len(a) + 1 THEN n + 1 ELSE at[k]]
    <3>1. s[n + 1] \in E /\ Len(a) \in Nat
      BY <1>1, <1>6, <2>1
    <3>2. b \in Seq(E) /\ Len(b) = Len(a) + 1 /\ b[Len(a) + 1] = s[n + 1]
          /\ \A k \in 1 .. Len(a) : b[k] = a[k]
      BY <2>1, <3>1
    <3>3. at \in [1 .. Len(a) -> P \cap (1 .. n)]
      BY <2>3 DEF TakenFrom
    <3>4. new \in [1 .. Len(b) -> P \cap (1 .. n + 1)]
      BY <2>4, <3>1, <3>2, <3>3
    <3>5. \A k \in 1 .. Len(a) : new[k] = at[k] /\ at[k] <= n /\ at[k] \in Nat
      BY <3>1, <3>3
    <3>6. new[Len(a) + 1] = n + 1
      BY <3>1
    <3> HIDE DEF b, new
    <3>7. \A k \in 1 .. Len(b) : b[k] = s[new[k]]
      BY <2>3, <3>1, <3>2, <3>5, <3>6 DEF TakenFrom
    <3>8. \A j, k \in 1 .. Len(b) : j < k => new[j] < new[k]
      <4> TAKE j, k \in 1 .. Len(b)
      <4> HAVE j < k
      <4>1. j \in 1 .. Len(a)
        BY <3>1, <3>2
      <4>2. CASE k = Len(a) + 1
        BY <3>5, <3>6, <4>1, <4>2
      <4>3. CASE k # Len(a) + 1
        <5>1. k \in 1 .. Len(a)
          BY <3>1, <3>2, <4>3
        <5> QED
          BY <2>3, <3>5, <4>1, <5>1 DEF TakenFrom
      <4> QED
        BY <4>2, <4>3
    <3>9. \A x \in P \cap (1 .. n + 1) : \E k \in 1 .. Len(b) : new[k] = x
      <4> TAKE x \in P \cap (1 .. n + 1)
      <4>1. CASE x = n + 1
        BY <3>1, <3>2, <3>6, <4>1
      <4>2. CASE x # n + 1
        <5>1. x \in P \cap (1 .. n)
          BY <4>2
        <5>2. PICK k \in 1 .. Len(a) : at[k] = x
          BY <2>3, <5>1 DEF TakenFrom
        <5> QED
          BY <3>1, <3>2, <3>5, <5>2
      <4> QED
        BY <4>1, <4>2
    <3>10. TakenFrom(b, s, P, n + 1, new)
      BY <3>4, <3>7, <3>8, <3>9 DEF TakenFrom
    <3>11. kept[n + 1] = b
      BY <2>2, <2>4 DEF b
    <3> QED
      BY <3>2, <3>10, <3>11
  <2>5. CASE n + 1 \notin P
    <3>1. P \cap (1 .. n + 1) = P \cap (1 .. n)
      BY <2>5
    <3>2. TakenFrom(a, s, P, n + 1, at)
      BY <2>3, <3>1 DEF TakenFrom
    <3> QED
      BY <2>1, <2>2, <2>5, <3>2
  <2> QED
    BY <2>4, <2>5
<1>7. Nat \subseteq I
  <2>1. ASSUME NEW n \in Nat, n \in I PROVE n + 1 \in I
    <3>1. n + 1 \in Nat
      OBVIOUS
    <3>2. n + 1 <= N => kept[n + 1] \in Seq(E) /\ \E at : TakenFrom(kept[n + 1], s, P, n + 1, at)
      BY <1>6, <2>1
    <3> QED
      BY <3>1, <3>2
  <2> HIDE DEF I
  <2> QED
    BY <1>5, <2>1, SetInduction
<1>8. N \in I
  BY <1>1, <1>7
<1> QED
  BY <1>1, <1>3, <1>8
-----------------------------------------------------------------------------
(* More of sums: parts, order, one term, and who owns the terms.             *)
LEMMA SumSplit ==
  ASSUME NEW S, IsFiniteSet(S), NEW f, \A x \in S : f[x] \in Int, NEW T \in SUBSET S
  PROVE  SumFunctionOnSet(f, S) = SumFunctionOnSet(f, T) + SumFunctionOnSet(f, S \ T)
<1> DEFINE G == {t \in SUBSET T : SumFunctionOnSet(f, (S \ T) \cup t) = SumFunctionOnSet(f, t) + SumFunctionOnSet(f, S \ T)}
<1>1. IsFiniteSet(T) /\ IsFiniteSet(S \ T)
  BY FS_Subset
<1>2. SumFunctionOnSet(f, S \ T) \in Int
  BY <1>1, SumInt
<1>3. {} \in G
  BY <1>2, SumEmpty
<1>4. ASSUME NEW t \in SUBSET T, t # {}, \A x \in t : t \ {x} \in G
      PROVE  t \in G
  <2>1. PICK x \in t : TRUE
    BY <1>4
  <2>2. IsFiniteSet(t) /\ IsFiniteSet((S \ T) \cup t) /\ IsFiniteSet(t \ {x})
    BY <1>1, FS_Subset
  <2>3. SumFunctionOnSet(f, t) = f[x] + SumFunctionOnSet(f, t \ {x})
    BY <2>2, SumTakeOut
  <2>4. x \in (S \ T) \cup t /\ \A y \in (S \ T) \cup t : f[y] \in Int
    OBVIOUS
  <2>5. SumFunctionOnSet(f, (S \ T) \cup t) = f[x] + SumFunctionOnSet(f, ((S \ T) \cup t) \ {x})
    BY <2>2, <2>4, SumTakeOut
  <2>6. SumFunctionOnSet(f, ((S \ T) \cup t) \ {x}) = SumFunctionOnSet(f, (S \ T) \cup (t \ {x}))
    <3>1. ((S \ T) \cup t) \ {x} = (S \ T) \cup (t \ {x})
      OBVIOUS
    <3> QED
      BY <3>1
  <2>7. SumFunctionOnSet(f, (S \ T) \cup (t \ {x})) = SumFunctionOnSet(f, t \ {x}) + SumFunctionOnSet(f, S \ T)
    BY <1>4
  <2>8. SumFunctionOnSet(f, t \ {x}) \in Int /\ f[x] \in Int
    BY <2>2, SumInt
  <2>9. SumFunctionOnSet(f, (S \ T) \cup t) = SumFunctionOnSet(f, t) + SumFunctionOnSet(f, S \ T)
    <3> HIDE DEF G
    <3> QED
      BY <1>2, <2>3, <2>5, <2>6, <2>7, <2>8
  <2> QED
    BY <2>9
<1>5. SUBSET T \subseteq G
  <2> HIDE DEF G
  <2> QED
    BY <1>1, <1>3, <1>4, SubsetInduction
<1>6. (S \ T) \cup T = S /\ T \in G
  BY <1>5
<1> QED
  BY <1>6

LEMMA SumSubset ==
  ASSUME NEW S, IsFiniteSet(S), NEW f, \A x \in S : f[x] \in Nat, NEW T \in SUBSET S
  PROVE  SumFunctionOnSet(f, T) \in Nat /\ SumFunctionOnSet(f, T) <= SumFunctionOnSet(f, S)
<1>1. IsFiniteSet(T) /\ IsFiniteSet(S \ T)
  BY FS_Subset
<1>2. SumFunctionOnSet(f, T) \in Nat /\ SumFunctionOnSet(f, S \ T) \in Nat
  BY <1>1, SumNat
<1>3. SumFunctionOnSet(f, S) = SumFunctionOnSet(f, T) + SumFunctionOnSet(f, S \ T)
  BY SumSplit
<1> QED
  BY <1>2, <1>3

LEMMA SumMono ==
  ASSUME NEW S, IsFiniteSet(S), NEW f, NEW g, \A x \in S : f[x] \in Int /\ g[x] \in Int /\ f[x] <= g[x]
  PROVE  SumFunctionOnSet(f, S) <= SumFunctionOnSet(g, S)
<1> DEFINE G == {t \in SUBSET S : SumFunctionOnSet(f, t) <= SumFunctionOnSet(g, t)}
<1>1. {} \in G
  BY SumEmpty
<1>2. ASSUME NEW t \in SUBSET S, t # {}, \A x \in t : t \ {x} \in G
      PROVE  t \in G
  <2>1. PICK x \in t : TRUE
    BY <1>2
  <2>2. IsFiniteSet(t) /\ IsFiniteSet(t \ {x}) /\ \A y \in t : f[y] \in Int /\ g[y] \in Int
    BY FS_Subset
  <2>3. SumFunctionOnSet(f, t) = f[x] + SumFunctionOnSet(f, t \ {x})
    BY <2>2, SumTakeOut
  <2>4. SumFunctionOnSet(g, t) = g[x] + SumFunctionOnSet(g, t \ {x})
    BY <2>2, SumTakeOut
  <2>5. SumFunctionOnSet(f, t \ {x}) \in Int /\ SumFunctionOnSet(g, t \ {x}) \in Int
    BY <2>2, SumInt
  <2>6. SumFunctionOnSet(f, t \ {x}) <= SumFunctionOnSet(g, t \ {x}) /\ f[x] \in Int /\ g[x] \in Int /\ f[x] <= g[x]
    BY <1>2
  <2>7. SumFunctionOnSet(f, t) <= SumFunctionOnSet(g, t)
    BY <2>3, <2>4, <2>5, <2>6
  <2> QED
    BY <2>7
<1>3. SUBSET S \subseteq G
  <2> HIDE DEF G
  <2> QED
    BY <1>1, <1>2, SubsetInduction
<1> QED
  BY <1>3

LEMMA SumOfOne ==
  ASSUME NEW S, IsFiniteSet(S), NEW f, NEW a \in S, f[a] \in Int, \A x \in S \ {a} : f[x] = 0
  PROVE  SumFunctionOnSet(f, S) = f[a]
<1>1. \A x \in S : f[x] \in Int
  OBVIOUS
<1>2. SumFunctionOnSet(f, S) = f[a] + SumFunctionOnSet(f, S \ {a})
  BY <1>1, SumTakeOut
<1>3. IsFiniteSet(S \ {a})
  BY FS_Subset
<1>4. SumFunctionOnSet(f, S \ {a}) = 0
  BY <1>3, SumZero
<1> QED
  BY <1>2, <1>4

(* What v owns of the terms p, if the owners are s: a term more goes to its   *)
(* owner, so the owners have all of them together.                          *)
Owned(s, p, v) == [n \in DOMAIN s |-> IF s[n] = v THEN p[n] ELSE 0]

LEMMA SumByOwner ==
  ASSUME NEW V, IsFiniteSet(V), NEW s \in Seq(V), NEW p, \A n \in DOMAIN s : p[n] \in Int,
         NEW own, \A v \in V : own[v] = SumFunctionOnSet(Owned(s, p, v), 1 .. Len(s))
  PROVE  SumFunctionOnSet(own, V) = SumFunctionOnSet(p, 1 .. Len(s))
<1> DEFINE N == Len(s)
           Upto(k) == [v \in V |-> SumFunctionOnSet(Owned(s, p, v), 1 .. k)]
           I == {k \in Nat : k <= N => SumFunctionOnSet(Upto(k), V) = SumFunctionOnSet(p, 1 .. k)}
<1>1. N \in Nat /\ DOMAIN s = 1 .. N
  OBVIOUS
<1>2. \A v \in V : \A k \in 1 .. N : Owned(s, p, v)[k] = IF s[k] = v THEN p[k] ELSE 0
  BY <1>1 DEF Owned
<1>3. ASSUME NEW v \in V, NEW k \in Nat, k <= N
      PROVE  SumFunctionOnSet(Owned(s, p, v), 1 .. k) \in Int
  <2>1. 1 \in Int /\ k \in Int /\ \A x \in 1 .. k : Owned(s, p, v)[x] \in Int
    BY <1>1, <1>2, <1>3
  <2> QED
    BY <2>1, SumOfPositions
<1>4. 0 \in I
  <2>1. 1 .. 0 = {}
    OBVIOUS
  <2>2. \A v \in V : Upto(0)[v] = 0
    BY <2>1, SumEmpty
  <2>3. SumFunctionOnSet(Upto(0), V) = 0
    <3> HIDE DEF Upto
    <3> QED
      BY <2>2, SumZero
  <2>4. SumFunctionOnSet(p, 1 .. 0) = 0
    BY <2>1, SumEmpty
  <2> HIDE DEF Upto
  <2> QED
    BY <2>3, <2>4
<1>5. ASSUME NEW k \in Nat, k + 1 <= N, SumFunctionOnSet(Upto(k), V) = SumFunctionOnSet(p, 1 .. k)
      PROVE  SumFunctionOnSet(Upto(k + 1), V) = SumFunctionOnSet(p, 1 .. k + 1)
  <2>1. k + 1 \in Int /\ 1 \in Int /\ 1 <= k + 1 /\ (k + 1) - 1 = k /\ k + 1 \in 1 .. N /\ k + 1 \in Nat /\ k <= N
    BY <1>1, <1>5
  <2>2. \A v \in V : \A x \in 1 .. k + 1 : Owned(s, p, v)[x] \in Int
    BY <1>1, <1>2, <2>1
  <2>3. \A v \in V : SumFunctionOnSet(Owned(s, p, v), 1 .. k + 1) =
                       Owned(s, p, v)[k + 1] + SumFunctionOnSet(Owned(s, p, v), 1 .. k)
    <3> TAKE v \in V
    <3>1. \A x \in 1 .. k + 1 : Owned(s, p, v)[x] \in Int
      BY <2>2
    <3>2. SumFunctionOnSet(Owned(s, p, v), 1 .. k + 1) =
            Owned(s, p, v)[k + 1] + SumFunctionOnSet(Owned(s, p, v), 1 .. (k + 1) - 1)
      BY <2>1, <3>1, SumOfPositions
    <3> QED
      BY <2>1, <3>2
  <2>4. \A x \in 1 .. k + 1 : p[x] \in Int
    BY <1>1, <2>1
  <2>5. SumFunctionOnSet(p, 1 .. k + 1) = p[k + 1] + SumFunctionOnSet(p, 1 .. k) /\ SumFunctionOnSet(p, 1 .. k) \in Int
    <3>1. SumFunctionOnSet(p, 1 .. k + 1) = p[k + 1] + SumFunctionOnSet(p, 1 .. (k + 1) - 1)
      BY <2>1, <2>4, SumOfPositions
    <3>2. k \in Int /\ \A x \in 1 .. k : p[x] \in Int
      BY <2>4
    <3>3. SumFunctionOnSet(p, 1 .. k) \in Int
      BY <2>1, <3>2, SumOfPositions
    <3> QED
      BY <2>1, <3>1, <3>3
  <2>6. s[k + 1] \in V /\ p[k + 1] \in Int
    BY <1>1, <2>1
  <2>7. \A v \in V : Upto(k)[v] \in Int
    BY <1>3, <2>1
  <2>8. \A v \in V : Upto(k + 1)[v] = Owned(s, p, v)[k + 1] + Upto(k)[v]
    BY <2>3
  <2>9. \A v \in V : Upto(k + 1)[v] = (IF s[k + 1] = v THEN p[k + 1] ELSE 0) + Upto(k)[v]
    <3> HIDE DEF Upto
    <3> QED
      BY <1>2, <2>1, <2>8
  <2>10. /\ Upto(k + 1)[s[k + 1]] = p[k + 1] + Upto(k)[s[k + 1]]
         /\ Upto(k + 1)[s[k + 1]] \in Int
         /\ \A v \in V : v # s[k + 1] => Upto(k + 1)[v] = Upto(k)[v]
    <3> HIDE DEF Upto
    <3> QED
      BY <2>6, <2>7, <2>9
  <2>11. SumFunctionOnSet(Upto(k + 1), V) =
           SumFunctionOnSet(Upto(k), V) - Upto(k)[s[k + 1]] + Upto(k + 1)[s[k + 1]]
    <3> HIDE DEF Upto
    <3> QED
      BY <2>6, <2>7, <2>10, SumExcept
  <2>12. Upto(k)[s[k + 1]] \in Int
    BY <2>6, <2>7
  <2> HIDE DEF Upto
  <2> QED
    BY <1>5, <2>5, <2>6, <2>10, <2>11, <2>12
<1>6. \A k \in Nat : k \in I => k + 1 \in I
  <2> TAKE k \in Nat
  <2> HAVE k \in I
  <2>1. k + 1 \in Nat /\ (k + 1 <= N => k <= N)
    BY <1>1
  <2>2. k + 1 <= N => SumFunctionOnSet(Upto(k + 1), V) = SumFunctionOnSet(p, 1 .. k + 1)
    <3> HIDE DEF Upto
    <3> QED
      BY <1>5, <2>1
  <2> HIDE DEF Upto
  <2> QED
    BY <2>1, <2>2
<1>7. N \in I
  <2> HIDE DEF I
  <2> QED
    BY <1>1, <1>4, <1>6, SetInduction
<1>8. SumFunctionOnSet(Upto(N), V) = SumFunctionOnSet(p, 1 .. N)
  <2> HIDE DEF Upto
  <2> QED
    BY <1>1, <1>7
<1>9. \A v \in V : Upto(N)[v] \in Int /\ own[v] = Upto(N)[v]
  BY <1>1, <1>3
<1>10. SumFunctionOnSet(Upto(N), V) = SumFunctionOnSet(own, V)
  <2> HIDE DEF Upto
  <2> QED
    BY <1>9, SumEqual
<1> QED
  BY <1>8, <1>10

LEMMA MinOfNat ==
  ASSUME NEW T \in SUBSET Nat, T # {}
  PROVE  Min(T) \in T /\ \A y \in T : Min(T) <= y
<1>1. \E x \in T : \A y \in T : x <= y
  BY LeastNat
<1> QED
  BY <1>1 DEF Min

(* However much of the weight T of all does not draw: an entry draws its     *)
(* part of the whole at least, rounded down.                                *)
LEMMA PortionsFloor ==
  ASSUME NEW w \in Seq(Nat), NEW pot \in Nat, NEW T \in Nat, T > 0, SumOf(w) <= T
  PROVE  \A n \in DOMAIN w : PortionsOf(w, pot)[n] \in Int /\ PortionsOf(w, pot)[n] >= (w[n] * pot) \div T
<1> DEFINE N == Len(w)
           left == LeftAfter(w, pot)
           I == {k \in Nat : k <= N => pot * WeightFrom(w, k + 1) <= left[k] * T}
<1>1. N \in Nat /\ DOMAIN w = 1 .. N
  OBVIOUS
<1>2. \A n \in 1 .. N : w[n] \in Nat /\ WeightFrom(w, n) = w[n] + WeightFrom(w, n + 1) /\ w[n] <= WeightFrom(w, n)
  BY <1>1, WeightFromStep
<1>3. WeightFrom(w, 1) = SumOf(w) /\ \A n \in 1 .. N + 1 : WeightFrom(w, n) \in Nat
  BY WeightFromStep
<1>4. left[0] = pot /\ \A n \in 0 .. N : left[n] \in Nat
  BY LeftAfterSpec
<1>5. \A n \in 1 .. N :
        left[n] = left[n - 1] - (IF w[n] = 0 THEN 0 ELSE (w[n] * left[n - 1]) \div WeightFrom(w, n))
  BY LeftAfterSpec
<1>6. \A n \in 1 .. N : PortionsOf(w, pot)[n] = left[n - 1] - left[n]
  BY <1>1 DEF PortionsOf
<1> HIDE DEF left
<1>7. 0 \in I
  <2>1. WeightFrom(w, 1) \in Nat /\ WeightFrom(w, 1) <= T
    BY <1>1, <1>3
  <2>2. pot * WeightFrom(w, 1) <= pot * T
    <3>1. WeightFrom(w, 1) * pot <= T * pot
      BY <2>1, MulMono
    <3> QED
      BY <2>1, <3>1, SMT
  <2>3. 0 + 1 = 1 /\ left[0] = pot /\ 0 \in Nat
    BY <1>4
  <2> QED
    BY <2>2, <2>3
<1>8. ASSUME NEW k \in Nat, k + 1 <= N, pot * WeightFrom(w, k + 1) <= left[k] * T
      PROVE  pot * WeightFrom(w, (k + 1) + 1) <= left[k + 1] * T
  <2> DEFINE n == k + 1   t == WeightFrom(w, n)   a == left[k]
  <2>1. n \in 1 .. N /\ n - 1 = k /\ n + 1 \in 1 .. N + 1 /\ k \in 0 .. N
    BY <1>1, <1>8
  <2>2. t \in Nat /\ a \in Nat /\ w[n] \in Nat /\ w[n] <= t /\ WeightFrom(w, n + 1) \in Nat /\ t = w[n] + WeightFrom(w, n + 1)
    BY <1>2, <1>3, <1>4, <2>1
  <2>3. left[n] = a - (IF w[n] = 0 THEN 0 ELSE (w[n] * a) \div t)
    BY <1>5, <2>1
  <2>4. pot * t <= a * T
    BY <1>8
  <2> HIDE DEF n, t, a
  <2>5. CASE w[n] = 0
    <3>1. left[n] = a /\ WeightFrom(w, n + 1) = t
      BY <2>2, <2>3, <2>5
    <3> QED
      BY <2>4, <3>1 DEF n
  <2>6. CASE w[n] # 0
    <3>1. t > 0 /\ WeightFrom(w, n + 1) = t - w[n]
      BY <2>2, <2>6
    <3>2. pot * (t - w[n]) <= (a - (w[n] * a) \div t) * T
      BY <2>2, <2>4, <3>1, RatioNotLowered
    <3>3. left[n] = a - (w[n] * a) \div t
      BY <2>3, <2>6
    <3>4. pot * WeightFrom(w, n + 1) <= left[n] * T
      BY <3>1, <3>2, <3>3
    <3> QED
      BY <3>4 DEF n
  <2> QED
    BY <2>5, <2>6
<1>9. \A k \in Nat : k \in I => k + 1 \in I
  <2> TAKE k \in Nat
  <2> HAVE k \in I
  <2>1. k + 1 \in Nat /\ (k + 1 <= N => k <= N)
    BY <1>1
  <2>2. k + 1 <= N => pot * WeightFrom(w, (k + 1) + 1) <= left[k + 1] * T
    BY <1>8, <2>1
  <2> QED
    BY <2>1, <2>2
<1>10. Nat \subseteq I
  <2> HIDE DEF I
  <2> QED
    BY <1>7, <1>9, SetInduction
<1>11. ASSUME NEW n \in 1 .. N
       PROVE  PortionsOf(w, pot)[n] \in Int /\ PortionsOf(w, pot)[n] >= (w[n] * pot) \div T
  <2> DEFINE t == WeightFrom(w, n)   a == left[n - 1]
  <2>1. n - 1 \in Nat /\ n - 1 <= N /\ (n - 1) + 1 = n /\ n - 1 \in 0 .. N /\ n \in 0 .. N /\ n \in 1 .. N + 1
    BY <1>1
  <2>2. pot * t <= a * T
    BY <1>10, <2>1
  <2>3. t \in Nat /\ a \in Nat /\ w[n] \in Nat /\ w[n] <= t /\ left[n] \in Nat
    BY <1>2, <1>3, <1>4, <2>1
  <2>4. left[n] = a - (IF w[n] = 0 THEN 0 ELSE (w[n] * a) \div t)
    BY <1>5
  <2>5. PortionsOf(w, pot)[n] = a - left[n]
    BY <1>6
  <2> HIDE DEF t, a
  <2>6. CASE w[n] = 0
    <3>1. (w[n] * pot) \div T = 0
      BY <2>6, SMT
    <3> QED
      BY <2>3, <2>4, <2>5, <2>6, <3>1
  <2>7. CASE w[n] # 0
    <3>1. t > 0
      BY <2>3, <2>7
    <3>2. (w[n] * pot) \div T <= (w[n] * a) \div t
      BY <2>2, <2>3, <3>1, PortionAtLeastFloor
    <3>3. (w[n] * a) \div t \in Nat /\ (w[n] * pot) \div T \in Nat
      <4>1. w[n] * a \in Nat /\ w[n] * pot \in Nat
        BY <2>3, SMT
      <4> QED
        BY <2>3, <3>1, <4>1, DivDef
    <3>4. PortionsOf(w, pot)[n] = (w[n] * a) \div t
      BY <2>3, <2>4, <2>5, <2>7, <3>3
    <3> QED
      BY <3>2, <3>3, <3>4
  <2> QED
    BY <2>6, <2>7
<1> QED
  BY <1>1, <1>11

(* The sums of two functions make the sum of their sums. *)
LEMMA SumPlus ==
  ASSUME NEW S, IsFiniteSet(S), NEW f, NEW g, NEW h,
         \A x \in S : f[x] \in Int /\ g[x] \in Int /\ h[x] = f[x] + g[x]
  PROVE  SumFunctionOnSet(h, S) = SumFunctionOnSet(f, S) + SumFunctionOnSet(g, S)
<1> DEFINE G == {t \in SUBSET S : SumFunctionOnSet(h, t) = SumFunctionOnSet(f, t) + SumFunctionOnSet(g, t)}
<1>1. {} \in G
  BY SumEmpty
<1>2. ASSUME NEW t \in SUBSET S, t # {}, \A x \in t : t \ {x} \in G
      PROVE  t \in G
  <2>1. PICK x \in t : TRUE
    BY <1>2
  <2>2. IsFiniteSet(t) /\ IsFiniteSet(t \ {x})
        /\ \A y \in t : f[y] \in Int /\ g[y] \in Int /\ h[y] \in Int /\ h[y] = f[y] + g[y]
    BY FS_Subset
  <2>3. /\ SumFunctionOnSet(f, t) = f[x] + SumFunctionOnSet(f, t \ {x})
        /\ SumFunctionOnSet(g, t) = g[x] + SumFunctionOnSet(g, t \ {x})
        /\ SumFunctionOnSet(h, t) = h[x] + SumFunctionOnSet(h, t \ {x})
    BY <2>2, SumTakeOut
  <2>4. SumFunctionOnSet(f, t \ {x}) \in Int /\ SumFunctionOnSet(g, t \ {x}) \in Int
    BY <2>2, SumInt
  <2>5. SumFunctionOnSet(h, t \ {x}) = SumFunctionOnSet(f, t \ {x}) + SumFunctionOnSet(g, t \ {x})
    BY <1>2
  <2> QED
    BY <2>2, <2>3, <2>4, <2>5
<1> HIDE DEF G
<1>3. S \in G
  BY <1>1, <1>2, SubsetInduction
<1> QED
  BY <1>3 DEF G

(* The sum over some elements, as a sum over all. *)
LEMMA SumWhere ==
  ASSUME NEW S, IsFiniteSet(S), NEW f, \A x \in S : f[x] \in Int, NEW T \in SUBSET S,
         NEW g, \A x \in S : g[x] = IF x \in T THEN f[x] ELSE 0
  PROVE  SumFunctionOnSet(f, T) = SumFunctionOnSet(g, S)
<1>1. IsFiniteSet(T) /\ IsFiniteSet(S \ T)
  BY FS_Subset
<1>2. SumFunctionOnSet(f, T) = SumFunctionOnSet(g, T)
  BY <1>1, SumEqual
<1>3. SumFunctionOnSet(g, S \ T) = 0
  BY <1>1, SumZero
<1>4. SumFunctionOnSet(g, S) = SumFunctionOnSet(g, T) + SumFunctionOnSet(g, S \ T)
  BY SumSplit
<1>5. SumFunctionOnSet(f, T) \in Int
  BY <1>1, SumInt
<1> QED
  BY <1>2, <1>3, <1>4, <1>5

(* What is taken step by step from an amount is what is gone of it.          *)
LEMMA SumOfSteps ==
  ASSUME NEW N \in Nat, NEW left, \A n \in 0 .. N : left[n] \in Int,
         NEW taken, \A n \in 1 .. N : taken[n] = left[n - 1] - left[n]
  PROVE  SumFunctionOnSet(taken, 1 .. N) = left[0] - left[N]
<1> DEFINE I == {k \in Nat : k <= N => SumFunctionOnSet(taken, 1 .. k) = left[0] - left[k]}
<1>1. 0 \in I
  <2>1. 1 .. 0 = {} /\ 0 \in 0 .. N
    OBVIOUS
  <2>2. left[0] \in Int
    BY <2>1
  <2> QED
    BY <2>1, <2>2, SumEmpty
<1>2. \A k \in Nat : k \in I => k + 1 \in I
  <2> SUFFICES ASSUME NEW k \in Nat, k + 1 <= N, SumFunctionOnSet(taken, 1 .. k) = left[0] - left[k]
               PROVE  SumFunctionOnSet(taken, 1 .. k + 1) = left[0] - left[k + 1]
    OBVIOUS
  <2> DEFINE n == k + 1
  <2>1. n \in Int /\ 1 \in Int /\ 1 <= n /\ n - 1 = k /\ n \in 1 .. N /\ k \in 0 .. N /\ n \in 0 .. N /\ 0 \in 0 .. N
    OBVIOUS
  <2>2. \A x \in 1 .. N : taken[x] \in Int
    <3> TAKE x \in 1 .. N
    <3>1. x - 1 \in 0 .. N /\ x \in 0 .. N
      OBVIOUS
    <3>2. left[x - 1] \in Int /\ left[x] \in Int
      BY <3>1
    <3>3. taken[x] = left[x - 1] - left[x]
      OBVIOUS
    <3> QED
      BY <3>2, <3>3
  <2>3. \A x \in 1 .. n : taken[x] \in Int
    BY <2>1, <2>2
  <2> HIDE DEF n
  <2>4. SumFunctionOnSet(taken, 1 .. n) = taken[n] + SumFunctionOnSet(taken, 1 .. n - 1)
    BY <2>1, <2>3, SumOfPositions
  <2>5. taken[n] = left[k] - left[n] /\ left[k] \in Int /\ left[n] \in Int /\ left[0] \in Int
    BY <2>1
  <2>6. SumFunctionOnSet(taken, 1 .. n) = left[0] - left[n]
    BY <2>1, <2>4, <2>5
  <2> QED
    BY <2>6 DEF n
<1>3. Nat \subseteq I
  <2> HIDE DEF I
  <2> QED
    BY <1>1, <1>2, SetInduction
<1> QED
  BY <1>3

(* The equal parts of a pot are the whole of it. *)
LEMMA EqualPartsSum ==
  ASSUME NEW len \in Nat \ {0}, NEW pot \in Nat, NEW part, \A n \in 1 .. len : part[n] = EqualPart(pot, len, n - 1)
  PROVE  (\A n \in 1 .. len : part[n] \in Nat) /\ SumFunctionOnSet(part, 1 .. len) = pot
<1> DEFINE q == pot \div len   m == pot % len
           left == [n \in 0 .. len |-> pot - (n * q + (IF n < m THEN n ELSE m))]
<1>1. q \in Nat /\ m \in 0 .. len - 1 /\ pot = len * q + m
  BY ModDef
<1>2. \A n \in 1 .. len : part[n] = q + (IF n - 1 < m THEN 1 ELSE 0)
  BY DEF EqualPart
<1> HIDE DEF q, m
<1>3. \A n \in 0 .. len : n * q \in Nat
  BY <1>1, SMT
<1>4. \A n \in 0 .. len : left[n] \in Int
  BY <1>1, <1>3
<1>5. \A n \in 1 .. len : part[n] = left[n - 1] - left[n]
  <2> TAKE n \in 1 .. len
  <2>1. n - 1 \in 0 .. len /\ n \in 0 .. len
    OBVIOUS
  <2>2. n * q = (n - 1) * q + q
    BY <1>1, SMT
  <2> QED
    BY <1>1, <1>2, <1>3, <2>1, <2>2
<1>6. left[0] = pot /\ left[len] = 0
  <2>1. 0 * q = 0 /\ 0 \in 0 .. len /\ len \in 0 .. len
    BY <1>1, SMT
  <2> QED
    BY <1>1, <2>1
<1> HIDE DEF left
<1>7. SumFunctionOnSet(part, 1 .. len) = left[0] - left[len]
  BY <1>4, <1>5, SumOfSteps
<1>8. \A n \in 1 .. len : part[n] \in Nat
  BY <1>1, <1>2
<1> QED
  BY <1>6, <1>7, <1>8

(* A sum may be taken in any order that has every element once. *)
LEMMA SumInOrder ==
  ASSUME NEW V, IsFiniteSet(V), NEW s \in Seq(V), NEW f, \A v \in V : f[v] \in Int,
         \A v \in V : \E n \in DOMAIN s : s[n] = v,
         \A m, n \in DOMAIN s : s[m] = s[n] => m = n,
         NEW p, \A n \in DOMAIN s : p[n] = f[s[n]]
  PROVE  SumFunctionOnSet(f, V) = SumFunctionOnSet(p, 1 .. Len(s))
<1>1. DOMAIN s = 1 .. Len(s) /\ Len(s) \in Nat /\ \A n \in DOMAIN s : s[n] \in V
  OBVIOUS
<1>2. IsFiniteSet(1 .. Len(s))
  <2>1. 1 \in Int /\ Len(s) \in Int
    BY <1>1
  <2> QED
    BY <2>1, FS_Interval
<1>3. ASSUME NEW v \in V
      PROVE  f[v] = SumFunctionOnSet(Owned(s, p, v), 1 .. Len(s))
  <2>1. PICK n \in DOMAIN s : s[n] = v
    OBVIOUS
  <2>2. \A k \in 1 .. Len(s) : Owned(s, p, v)[k] = IF k = n THEN f[v] ELSE 0
    BY <1>1, <2>1 DEF Owned
  <2>3. n \in 1 .. Len(s) /\ Owned(s, p, v)[n] = f[v] /\ f[v] \in Int
    BY <1>1, <2>1, <2>2
  <2>4. \A k \in (1 .. Len(s)) \ {n} : Owned(s, p, v)[k] = 0
    BY <2>2
  <2> QED
    BY <1>2, <2>3, <2>4, SumOfOne
<1>4. \A n \in DOMAIN s : p[n] \in Int
  BY <1>1
<1> QED
  BY <1>3, <1>4, SumByOwner
-----------------------------------------------------------------------------
(* The elements kept are those at the places kept. *)
TakenAt(s, places) == [k \in 1 .. Len(places) |-> s[places[k]]]

LEMMA AtPositionsOfPlaces ==
  ASSUME NEW E, NEW s \in Seq(E), NEW P,
         NEW places, places = AtPositions([n \in DOMAIN s |-> n], P)
  PROVE  /\ places \in Seq(P \cap DOMAIN s)
         /\ P \cap DOMAIN s # {} => Len(places) > 0
         /\ AtPositions(s, P) = TakenAt(s, places)
<1> DEFINE N == Len(s)
           id == [n \in DOMAIN s |-> n]
           K == P \cap DOMAIN s
           At(a) == [k \in 1 .. Len(a) |-> s[a[k]]]
<1>1. /\ N \in Nat /\ DOMAIN s = 1 .. N /\ id \in Seq(1 .. N) /\ Len(id) = N
      /\ \A n \in 1 .. N : id[n] = n
  OBVIOUS
<1> HIDE DEF id
<1>2. PICK kept : KeptSoFar(s, P, kept)
  BY AtPositionsSteps
<1>3. PICK at : KeptSoFar(id, P, at)
  BY <1>1, AtPositionsSteps
<1> DEFINE I == {n \in Nat : n <= N => at[n] \in Seq(K) /\ kept[n] = At(at[n])}
<1>4. 0 \in I
  BY <1>2, <1>3 DEF KeptSoFar
<1>5. ASSUME NEW n \in Nat, n \in I, n + 1 <= N
      PROVE  at[n + 1] \in Seq(K) /\ kept[n + 1] = At(at[n + 1])
  <2>1. n + 1 \in 1 .. N /\ (n + 1) - 1 = n
    BY <1>1, <1>5
  <2>2. at[n] \in Seq(K) /\ kept[n] = At(at[n])
    BY <1>5, <2>1
  <2>3. /\ kept[n + 1] = IF n + 1 \in P THEN Append(kept[n], s[n + 1]) ELSE kept[n]
        /\ at[n + 1] = IF n + 1 \in P THEN Append(at[n], n + 1) ELSE at[n]
    BY <1>1, <1>2, <1>3, <2>1 DEF KeptSoFar
  <2>4. CASE n + 1 \in P
    <3> DEFINE a == at[n]
    <3>1. n + 1 \in K /\ a \in Seq(K) /\ Len(a) \in Nat
      BY <1>1, <2>1, <2>2, <2>4
    <3>2. at[n + 1] = Append(a, n + 1) /\ kept[n + 1] = Append(At(a), s[n + 1])
      BY <2>2, <2>3, <2>4
    <3> HIDE DEF a, K
    <3>3. Append(a, n + 1) \in Seq(K) /\ Len(Append(a, n + 1)) = Len(a) + 1
          /\ \A k \in 1 .. Len(a) + 1 : Append(a, n + 1)[k] = IF k = Len(a) + 1 THEN n + 1 ELSE a[k]
      BY <3>1
    <3>4. At(a) \in Seq({s[k] : k \in K}) /\ Len(At(a)) = Len(a) /\ \A k \in 1 .. Len(a) : At(a)[k] = s[a[k]]
      BY <3>1
    <3>5. Append(At(a), s[n + 1]) = At(Append(a, n + 1))
      <4> DEFINE b == At(a)
      <4> HIDE DEF b
      <4>1. Append(b, s[n + 1]) = [k \in 1 .. Len(a) + 1 |-> IF k = Len(a) + 1 THEN s[n + 1] ELSE b[k]]
        BY <3>1, <3>4 DEF b
      <4>2. \A k \in 1 .. Len(a) + 1 : (IF k = Len(a) + 1 THEN s[n + 1] ELSE b[k]) = s[Append(a, n + 1)[k]]
        BY <3>1, <3>3, <3>4 DEF b
      <4> QED
        BY <3>3, <4>1, <4>2 DEF b
    <3> QED
      BY <3>2, <3>3, <3>5
  <2>5. CASE n + 1 \notin P
    BY <2>2, <2>3, <2>5
  <2> QED
    BY <2>4, <2>5
<1>6. Nat \subseteq I
  <2>1. ASSUME NEW n \in Nat, n \in I PROVE n + 1 \in I
    <3>1. n + 1 <= N => at[n + 1] \in Seq(K) /\ kept[n + 1] = At(at[n + 1])
      BY <1>5, <2>1, Zenon
    <3>2. n + 1 \in Nat
      OBVIOUS
    <3> HIDE DEF K, At, N
    <3> QED
      BY <3>1, <3>2
  <2> HIDE DEF I
  <2> QED
    BY <1>4, <2>1, SetInduction
<1>7. at[N] \in Seq(K) /\ kept[N] = At(at[N])
  <2>1. N \in I /\ N \in Nat
    BY <1>1, <1>6
  <2> HIDE DEF K, At, N
  <2> QED
    BY <2>1
<1>8. places = at[N] /\ AtPositions(s, P) = kept[N]
  BY <1>1, <1>2, <1>3 DEF KeptSoFar, id
<1>9. ASSUME K # {} PROVE Len(places) > 0
  <2>1. PICK from : TakenFrom(AtPositions(id, P), id, P, Len(id), from)
    BY <1>1, AtPositionsSpec
  <2>2. PICK x \in P \cap (1 .. N) : TRUE
    BY <1>1, <1>9
  <2>3. PICK k \in 1 .. Len(places) : from[k] = x
    BY <1>1, <2>1, <2>2 DEF TakenFrom, id
  <2> QED
    BY <1>7, <1>8, <2>3
<1>10. AtPositions(s, P) = TakenAt(s, places)
  BY <1>7, <1>8 DEF TakenAt
<1> QED
  BY <1>7, <1>8, <1>9, <1>10
-----------------------------------------------------------------------------
(* A sum does not change when its terms are renamed.                         *)
LEMMA SumImage ==
  ASSUME NEW S, IsFiniteSet(S), NEW f, \A x \in S : f[x] \in Int,
         NEW h, \A x, y \in S : h[x] = h[y] => x = y,
         NEW T, T = {h[x] : x \in S}, NEW g, \A x \in S : g[h[x]] = f[x]
  PROVE  IsFiniteSet(T) /\ SumFunctionOnSet(g, T) = SumFunctionOnSet(f, S)
<1> DEFINE Im(s) == {h[x] : x \in s}
           F == {s \in SUBSET S : IsFiniteSet(Im(s)) /\ SumFunctionOnSet(g, Im(s)) = SumFunctionOnSet(f, s)}
<1>1. {} \in F
  <2>1. Im({}) = {}
    OBVIOUS
  <2> QED
    BY <2>1, SumEmpty, FS_EmptySet
<1>2. ASSUME NEW s \in SUBSET S, s # {}, \A x \in s : s \ {x} \in F
      PROVE  s \in F
  <2>1. PICK x \in s : TRUE
    BY <1>2
  <2>2. s \ {x} \in F
    BY <1>2
  <2>3. Im(s) = Im(s \ {x}) \cup {h[x]} /\ Im(s) \ {h[x]} = Im(s \ {x})
    OBVIOUS
  <2>4. IsFiniteSet(Im(s))
    <3>1. IsFiniteSet(Im(s \ {x}))
      BY <2>2
    <3>2. IsFiniteSet(Im(s \ {x}) \cup {h[x]})
      <4> HIDE DEF Im
      <4> QED
        BY <3>1, FS_AddElement
    <3> HIDE DEF Im
    <3> QED
      BY <2>3, <3>2
  <2>5. h[x] \in Im(s) /\ (\A y \in Im(s) : g[y] \in Int) /\ g[h[x]] = f[x]
    OBVIOUS
  <2>6. SumFunctionOnSet(g, Im(s)) = g[h[x]] + SumFunctionOnSet(g, Im(s) \ {h[x]})
    <3> HIDE DEF Im
    <3> QED
      BY <2>4, <2>5, SumTakeOut
  <2>7. IsFiniteSet(s) /\ \A y \in s : f[y] \in Int
    BY FS_Subset
  <2>8. SumFunctionOnSet(f, s) = f[x] + SumFunctionOnSet(f, s \ {x})
    BY <2>1, <2>7, SumTakeOut
  <2>9. SumFunctionOnSet(g, Im(s \ {x})) = SumFunctionOnSet(f, s \ {x})
    BY <2>2
  <2>10. SumFunctionOnSet(g, Im(s)) = SumFunctionOnSet(f, s)
    <3> HIDE DEF Im, F
    <3> QED
      BY <2>3, <2>5, <2>6, <2>8, <2>9
  <2> QED
    BY <2>4, <2>10
<1>3. S \in F
  <2> HIDE DEF F
  <2> QED
    BY <1>1, <1>2, SubsetInduction
<1> QED
  BY <1>3

(* The sums of the terms by key are the sum of all terms. *)
LEMMA SumByKey ==
  ASSUME NEW V, IsFiniteSet(V), NEW key, NEW N \in Nat, \A n \in 1 .. N : key[n] \in V,
         NEW p, \A n \in 1 .. N : p[n] \in Int,
         NEW group, \A v \in V : \A n : n \in group[v] <=> n \in 1 .. N /\ key[n] = v,
         NEW own, \A v \in V : own[v] = SumFunctionOnSet(p, group[v])
  PROVE  SumFunctionOnSet(own, V) = SumFunctionOnSet(p, 1 .. N)
<1> DEFINE s == [n \in 1 .. N |-> key[n]]
           D == 1 .. N
<1>1. s \in Seq(V) /\ Len(s) = N /\ DOMAIN s = D /\ \A n \in D : s[n] = key[n]
  OBVIOUS
<1>2. IsFiniteSet(D)
  <2>1. 1 \in Int /\ N \in Int
    OBVIOUS
  <2> QED
    BY <2>1, FS_Interval
<1> HIDE DEF s, D
<1>3. ASSUME NEW v \in V PROVE own[v] = SumFunctionOnSet(Owned(s, p, v), 1 .. Len(s))
  <2> DEFINE P == {n \in D : key[n] = v}
             g == Owned(s, p, v)
  <2>1. \A n \in D : g[n] = IF n \in P THEN p[n] ELSE 0
    BY <1>1 DEF Owned
  <2>2. P \in SUBSET D /\ \A n \in D : p[n] \in Int
    BY DEF D
  <2>3. own[v] = SumFunctionOnSet(p, P)
    <3>1. group[v] = P
      BY DEF D
    <3> QED
      BY <3>1
  <2> HIDE DEF P, g
  <2>4. SumFunctionOnSet(p, P) = SumFunctionOnSet(g, D)
    BY <1>2, <2>1, <2>2, SumWhere
  <2> QED
    BY <1>1, <2>3, <2>4 DEF D, g
<1>4. \A n \in DOMAIN s : p[n] \in Int
  BY <1>1 DEF D
<1>5. SumFunctionOnSet(own, V) = SumFunctionOnSet(p, 1 .. Len(s))
  BY <1>1, <1>3, <1>4, SumByOwner
<1> QED
  BY <1>1, <1>5
-----------------------------------------------------------------------------
(* The larger and the smaller of two numbers. *)
LEMMA MaxOfTwo ==
  ASSUME NEW a \in Int, NEW b \in Int
  PROVE  Max({a, b}) = IF a <= b THEN b ELSE a
<1>1. CASE a <= b
  <2>1. b \in {a, b} /\ \A y \in {a, b} : b >= y
    BY <1>1
  <2>2. \A m \in {a, b} : (\A y \in {a, b} : m >= y) => m = b
    BY <1>1
  <2> QED
    BY <1>1, <2>1, <2>2 DEF Max
<1>2. CASE b < a
  <2>1. a \in {a, b} /\ \A y \in {a, b} : a >= y
    BY <1>2
  <2>2. \A m \in {a, b} : (\A y \in {a, b} : m >= y) => m = a
    BY <1>2
  <2> QED
    BY <1>2, <2>1, <2>2 DEF Max
<1> QED
  BY <1>1, <1>2

LEMMA MinOfTwo ==
  ASSUME NEW a \in Int, NEW b \in Int
  PROVE  Min({a, b}) = IF a <= b THEN a ELSE b
<1>1. CASE a <= b
  <2>1. a \in {a, b} /\ \A y \in {a, b} : a <= y
    BY <1>1
  <2>2. \A m \in {a, b} : (\A y \in {a, b} : m <= y) => m = a
    BY <1>1
  <2> QED
    BY <1>1, <2>1, <2>2 DEF Min
<1>2. CASE b < a
  <2>1. b \in {a, b} /\ \A y \in {a, b} : b <= y
    BY <1>2
  <2>2. \A m \in {a, b} : (\A y \in {a, b} : m <= y) => m = b
    BY <1>2
  <2> QED
    BY <1>2, <2>1, <2>2 DEF Min
<1> QED
  BY <1>1, <1>2

LEMMA MaxOfOne ==
  ASSUME NEW a \in Int
  PROVE  Max({a}) = a
<1>1. {a, a} = {a}
  OBVIOUS
<1> QED
  BY <1>1, MaxOfTwo

(* One more term of a sum. *)
LEMMA SumAppend ==
  ASSUME NEW S, IsFiniteSet(S), NEW f, \A n \in S : f[n] \in Int, NEW g, \A n \in S : g[n] = f[n],
         NEW new, new \notin S, g[new] \in Int
  PROVE  /\ SumFunctionOnSet(f, S) \in Int
         /\ SumFunctionOnSet(g, S) = SumFunctionOnSet(f, S)
         /\ SumFunctionOnSet(g, S \cup {new}) = SumFunctionOnSet(f, S) + g[new]
<1> DEFINE T == S \cup {new}
<1>1. SumFunctionOnSet(g, S) = SumFunctionOnSet(f, S) /\ SumFunctionOnSet(f, S) \in Int
  BY SumEqual, SumInt
<1>2. IsFiniteSet(T) /\ T \ {new} = S /\ new \in T /\ \A n \in T : g[n] \in Int
  BY FS_AddElement
<1>3. SumFunctionOnSet(g, T) = g[new] + SumFunctionOnSet(g, S)
  BY <1>2, SumTakeOut
<1> QED
  BY <1>1, <1>3

(* The sums of some terms by key are the sum of these terms. *)
GroupedSums(V, N, S, key, p, group, own) ==
  /\ IsFiniteSet(V) /\ N \in Nat /\ S \in SUBSET (1 .. N)
  /\ \A n \in S : key[n] \in V /\ p[n] \in Int
  /\ \A v \in V : \A n : n \in group[v] <=> n \in S /\ key[n] = v
  /\ \A v \in V : own[v] = SumFunctionOnSet(p, group[v])

LEMMA SumByGroup ==
  ASSUME NEW V, NEW N, NEW S, NEW key, NEW p, NEW group, NEW own, GroupedSums(V, N, S, key, p, group, own)
  PROVE  SumFunctionOnSet(own, V) = SumFunctionOnSet(p, S)
<1>3. /\ IsFiniteSet(V) /\ N \in Nat /\ S \in SUBSET (1 .. N)
      /\ \A n \in S : key[n] \in V
      /\ \A n \in S : p[n] \in Int
      /\ \A v \in V : \A n : n \in group[v] <=> n \in S /\ key[n] = v
      /\ \A v \in V : own[v] = SumFunctionOnSet(p, group[v])
  BY DEF GroupedSums
<1> USE <1>3
<1>1. CASE S = {}
  <2>1. \A v \in V : own[v] = 0
    <3>1. \A v \in V : group[v] = {}
      BY <1>1
    <3> QED
      BY <3>1, SumEmpty
  <2>2. SumFunctionOnSet(own, V) = 0
    BY <2>1, SumZero
  <2> QED
    BY <1>1, <2>2, SumEmpty
<1>2. ASSUME NEW a \in S
      PROVE  SumFunctionOnSet(own, V) = SumFunctionOnSet(p, S)
  <2> DEFINE D == 1 .. N
             key2 == [n \in D |-> IF n \in S THEN key[n] ELSE key[a]]
             p2 == [n \in D |-> IF n \in S THEN p[n] ELSE 0]
             group2 == [v \in V |-> {n \in D : key2[n] = v}]
  <2>1. \A n \in D : key2[n] \in V /\ p2[n] \in Int
    OBVIOUS
  <2>2. IsFiniteSet(D)
    <3>1. 1 \in Int /\ N \in Int
      OBVIOUS
    <3> QED
      BY ONLY <3>1, FS_Interval
  <2>3. \A n \in D : p2[n] = IF n \in S THEN p[n] ELSE 0
    OBVIOUS
  <2>4. SumFunctionOnSet(p, S) = SumFunctionOnSet(p2, D)
    <3> HIDE DEF p2, D
    <3>1. S \in SUBSET D
      BY DEF D
    <3>2. IsFiniteSet(S)
      BY <2>2, <3>1, FS_Subset
    <3>3. SumFunctionOnSet(p2, D) = SumFunctionOnSet(p2, S) + SumFunctionOnSet(p2, D \ S)
      <4>1. \A n \in D : p2[n] \in Int
        BY <2>1
      <4> QED
        BY ONLY <2>2, <3>1, <4>1, SumSplit
    <3>4. SumFunctionOnSet(p2, S) = SumFunctionOnSet(p, S) /\ SumFunctionOnSet(p, S) \in Int
      <4>1. \A n \in S : p[n] \in Int /\ p2[n] = p[n]
        BY <2>3, <3>1
      <4> QED
        BY ONLY <3>2, <4>1, SumEqual, SumInt
    <3>5. SumFunctionOnSet(p2, D \ S) = 0
      <4>1. IsFiniteSet(D \ S) /\ \A n \in D \ S : p2[n] = 0
        BY <2>2, <2>3, FS_Subset
      <4> QED
        BY <4>1, SumZero
    <3> QED
      BY <3>3, <3>4, <3>5
  <2>5. ASSUME NEW v \in V
        PROVE  own[v] = SumFunctionOnSet(p2, group2[v])
    <3> DEFINE P == {n \in S : key[n] = v}
               Q == {n \in D : key2[n] = v}
    <3>1. P \in SUBSET Q /\ Q \in SUBSET D
      OBVIOUS
    <3>2. \A n \in P : p[n] \in Int /\ p2[n] = p[n]
      OBVIOUS
    <3>3. \A n \in Q \ P : p2[n] = 0
      OBVIOUS
    <3>4. group2[v] = Q /\ group[v] = P /\ own[v] = SumFunctionOnSet(p, group[v])
      OBVIOUS
    <3> HIDE DEF P, Q, group2, p2, D
    <3>5. IsFiniteSet(P) /\ IsFiniteSet(Q) /\ IsFiniteSet(Q \ P)
      BY <2>2, <3>1, FS_Subset
    <3>6. \A n \in Q : p2[n] \in Int
      BY <2>1, <3>1
    <3>7. SumFunctionOnSet(p2, Q) = SumFunctionOnSet(p2, P) + SumFunctionOnSet(p2, Q \ P)
      BY <3>1, <3>5, <3>6, SumSplit
    <3>8. SumFunctionOnSet(p2, P) = SumFunctionOnSet(p, P) /\ SumFunctionOnSet(p, P) \in Int
      BY <3>2, <3>5, SumEqual, SumInt
    <3>9. SumFunctionOnSet(p2, Q \ P) = 0
      BY <3>3, <3>5, SumZero
    <3> QED
      BY <3>4, <3>7, <3>8, <3>9
  <2>6. \A v \in V : \A n : n \in group2[v] <=> n \in 1 .. N /\ key2[n] = v
    OBVIOUS
  <2>7. \A n \in 1 .. N : key2[n] \in V /\ p2[n] \in Int
    BY <2>1
  <2>8. \A v \in V : own[v] = SumFunctionOnSet(p2, group2[v])
    BY <2>5
  <2>9. N \in Nat /\ IsFiniteSet(V)
    OBVIOUS
  <2> HIDE DEF group2, key2, p2, D
  <2>10. SumFunctionOnSet(own, V) = SumFunctionOnSet(p2, 1 .. N)
    BY ONLY <2>6, <2>7, <2>8, <2>9, SumByKey, SMTT(30)
  <2> QED
    BY <2>4, <2>10 DEF D
<1> QED
  BY <1>1, <1>2

(* All elements, in their order, are the sequence. *)
LEMMA AllPositions ==
  ASSUME NEW E, NEW s \in Seq(E), NEW P, DOMAIN s \subseteq P
  PROVE  AtPositions(s, P) = s
<1> DEFINE N == Len(s)
           a == AtPositions(s, P)
<1>1. N \in Nat /\ DOMAIN s = 1 .. N /\ s = [n \in 1 .. N |-> s[n]]
  OBVIOUS
<1>2. PICK kept : KeptSoFar(s, P, kept)
  BY AtPositionsSteps
<1> DEFINE T == {n \in Nat : n <= N => kept[n] \in Seq(E) /\ Len(kept[n]) = n /\ \A k \in 1 .. n : kept[n][k] = s[k]}
<1>8. kept[0] = <<>> /\ \A m \in 1 .. N : m \in P => kept[m] = Append(kept[m - 1], s[m])
  BY <1>2 DEF KeptSoFar
<1>3. 0 \in T
  <2>1. kept[0] \in Seq(E) /\ Len(kept[0]) = 0
    BY <1>8
  <2> QED
    BY <2>1
<1>4. ASSUME NEW n \in Nat, n \in T
      PROVE  n + 1 \in T
  <2> DEFINE m == n + 1
  <2>1. CASE m <= N
    <3>1. kept[n] \in Seq(E) /\ Len(kept[n]) = n /\ \A k \in 1 .. n : kept[n][k] = s[k]
      BY <1>1, <1>4, <2>1
    <3>2. m \in 1 .. N /\ m \in P /\ m - 1 = n
      BY <1>1, <2>1
    <3>3. kept[m] = Append(kept[n], s[m]) /\ s[m] \in E
      <4>1. kept[m] = Append(kept[m - 1], s[m])
        BY <1>8, <3>2
      <4>2. s[m] \in E
        BY <1>1, <3>2
      <4> QED
        BY <3>2, <4>1, <4>2
    <3>4. kept[m] \in Seq(E) /\ Len(kept[m]) = m /\ \A k \in 1 .. m : kept[m][k] = s[k]
      <4> DEFINE b == kept[n]
                 c == kept[m]
      <4> HIDE DEF b, c
      <4>1. b \in Seq(E) /\ Len(b) = n /\ c = Append(b, s[m]) /\ s[m] \in E /\ \A k \in 1 .. n : b[k] = s[k]
        BY <3>1, <3>3 DEF b, c
      <4>2. c \in Seq(E) /\ Len(c) = m /\ c[m] = s[m] /\ \A k \in 1 .. n : c[k] = b[k]
        BY <4>1
      <4>3. \A k \in 1 .. m : c[k] = s[k]
        <5> TAKE k \in 1 .. m
        <5>1. k = m \/ k \in 1 .. n
          OBVIOUS
        <5> QED
          BY <4>1, <4>2, <5>1
      <4> QED
        BY <4>2, <4>3 DEF c
    <3> QED
      BY <3>4
  <2>2. CASE ~(m <= N)
    BY <2>2
  <2> QED
    BY <2>1, <2>2
<1>5. N \in T
  <2> HIDE DEF T, N
  <2> QED
    BY <1>1, <1>3, <1>4, SetInduction
<1>6. a \in Seq(E) /\ Len(a) = N /\ \A k \in 1 .. N : a[k] = s[k]
  BY <1>1, <1>2, <1>5 DEF KeptSoFar
<1>7. a = s
  <2> HIDE DEF a, N
  <2>1. a = [k \in 1 .. N |-> a[k]]
    BY <1>6
  <2> QED
    BY <1>1, <1>6, <2>1
<1> QED
  BY <1>7

(* A finite set that is strictly ordered has a last element. *)
StrictOrder(S, R) ==
  /\ \A x \in S : <<x, x>> \notin R
  /\ \A x, y \in S : x # y => <<x, y>> \in R \/ <<y, x>> \in R
  /\ \A x, y, z \in S : <<x, y>> \in R /\ <<y, z>> \in R => <<x, z>> \in R

LEMMA LastInOrder ==
  ASSUME NEW S, IsFiniteSet(S), NEW R, StrictOrder(S, R), NEW T \in SUBSET S, T # {}
  PROVE  \E x \in T : \A y \in T \ {x} : <<y, x>> \in R
<1> DEFINE Good(U) == \E x \in U : \A y \in U \ {x} : <<y, x>> \in R
           F == {U \in SUBSET S : U # {} => Good(U)}
<1>1. {} \in F
  OBVIOUS
<1>2. ASSUME NEW U \in SUBSET S, U # {}, \A x \in U : U \ {x} \in F
      PROVE  Good(U)
  <2>1. PICK a \in U : TRUE
    BY <1>2
  <2>2. CASE U \ {a} = {}
    BY <2>1, <2>2
  <2>3. CASE U \ {a} # {}
    <3>1. PICK x \in U \ {a} : \A y \in (U \ {a}) \ {x} : <<y, x>> \in R
      BY <1>2, <2>3
    <3>2. a \in S /\ x \in S /\ a # x
      BY <2>1, <3>1
    <3>3. CASE <<a, x>> \in R
      BY <3>1, <3>3
    <3>4. CASE <<x, a>> \in R
      <4>1. ASSUME NEW y \in U \ {a}
            PROVE  <<y, a>> \in R
        <5>1. y = x \/ <<y, x>> \in R
          BY <3>1
        <5> QED
          BY <3>2, <3>4, <5>1 DEF StrictOrder
      <4> QED
        BY <4>1
    <3> QED
      BY <3>2, <3>3, <3>4 DEF StrictOrder
  <2> QED
    BY <2>2, <2>3
<1>3. SUBSET S \subseteq F
  <2>1. \A U \in SUBSET S : (U # {} /\ \A x \in U : U \ {x} \in F) => U \in F
    BY <1>2
  <2> HIDE DEF F
  <2> QED
    BY <1>1, <2>1, SubsetInduction
<1> QED
  BY <1>3

(* What SetToSeqs makes of a set lists each of its elements, once.           *)
LEMMA AllListed ==
  ASSUME NEW S, IsFiniteSet(S), NEW s \in SetToSeqs(S)
  PROVE  /\ s \in Seq(S) /\ IsInjective(s)
         /\ \A x \in S : \E n \in DOMAIN s : s[n] = x
<1> DEFINE c == Cardinality(S)
<1>1. c \in Nat
  BY FS_CardinalityType
<1>2. s \in [1 .. c -> S] /\ \A i, j \in 1 .. c : i # j => s[i] # s[j]
  BY DEF SetToSeqs
<1> HIDE DEF c
<1>3. s \in Seq(S) /\ DOMAIN s = 1 .. c
  BY <1>1, <1>2, SeqDef
<1>4. IsInjective(s)
  BY <1>2, <1>3 DEF IsInjective
<1>5. ASSUME NEW x \in S, \A n \in DOMAIN s : s[n] # x
      PROVE  FALSE
  <2> DEFINE V == S \ {x}
             D == 1 .. c
  <2>1. IsFiniteSet(V) /\ Cardinality(V) = c - 1
    BY FS_RemoveElement DEF c
  <2>2. IsFiniteSet(D) /\ Cardinality(D) = c
    <3>1. 1 \in Int /\ c \in Int
      BY <1>1
    <3>2. IsFiniteSet(1 .. c) /\ Cardinality(1 .. c) = IF 1 > c THEN 0 ELSE c - 1 + 1
      BY <3>1, FS_Interval
    <3> QED
      BY <1>1, <3>2
  <2>3. s \in [D -> V]
    <3>1. s = [n \in D |-> s[n]]
      BY <1>2
    <3>2. \A n \in D : s[n] \in V
      BY <1>2, <1>3, <1>5
    <3> QED
      BY <3>1, <3>2
  <2> HIDE DEF V, D
  <2>4. \E i, j \in D : i # j /\ s[i] = s[j]
    <3>1. Cardinality(V) < Cardinality(D)
      BY <1>1, <2>1, <2>2
    <3> QED
      BY <2>1, <2>2, <2>3, <3>1, FS_PigeonHole
  <2> QED
    BY <1>2, <2>4 DEF D
<1> QED
  BY <1>3, <1>4, <1>5

(* A common factor of all terms. *)
LEMMA SumScale ==
  ASSUME NEW S, IsFiniteSet(S), NEW c \in Int, NEW f, NEW g, \A x \in S : f[x] \in Int /\ g[x] = c * f[x]
  PROVE  SumFunctionOnSet(g, S) = c * SumFunctionOnSet(f, S)
<1> DEFINE G == {t \in SUBSET S : SumFunctionOnSet(g, t) = c * SumFunctionOnSet(f, t)}
<1>1. {} \in G
  BY SumEmpty
<1>2. ASSUME NEW t \in SUBSET S, t # {}, \A x \in t : t \ {x} \in G
      PROVE  t \in G
  <2>1. PICK x \in t : TRUE
    BY <1>2
  <2>2. \A y \in S : c * f[y] \in Int
    OBVIOUS
  <2>3. IsFiniteSet(t) /\ IsFiniteSet(t \ {x}) /\ \A y \in t : f[y] \in Int /\ g[y] \in Int /\ g[y] = c * f[y]
    BY <2>2, FS_Subset
  <2>4. /\ SumFunctionOnSet(f, t) = f[x] + SumFunctionOnSet(f, t \ {x})
        /\ SumFunctionOnSet(g, t) = g[x] + SumFunctionOnSet(g, t \ {x})
    BY <2>3, SumTakeOut
  <2>5. SumFunctionOnSet(f, t \ {x}) \in Int
    BY <2>3, SumInt
  <2>6. SumFunctionOnSet(g, t \ {x}) = c * SumFunctionOnSet(f, t \ {x})
    BY <1>2
  <2>7. c * (f[x] + SumFunctionOnSet(f, t \ {x})) = c * f[x] + c * SumFunctionOnSet(f, t \ {x})
    BY <2>3, <2>5, SMT
  <2> QED
    BY <2>3, <2>4, <2>6, <2>7
<1> HIDE DEF G
<1>3. S \in G
  BY <1>1, <1>2, SubsetInduction
<1> QED
  BY <1>3 DEF G

(* f lists the terms of a sum along the places m + 1 .. n of a list of       *)
(* different elements, T has the elements at these places.                   *)
TermsAlong(S, w, o, m, n, T, f) ==
  /\ \A x \in S : w[x] \in Int
  /\ o \in Seq(S) /\ IsInjective(o)
  /\ m \in Nat /\ n \in Nat /\ m <= n /\ n <= Len(o)
  /\ T = {o[k] : k \in m + 1 .. n}
  /\ f = [k \in 1 .. n - m |-> w[o[m + k]]]

(* The sum along a list is the sum over the elements listed.                 *)
LEMMA SumAlong ==
  ASSUME NEW S, NEW w, NEW o, NEW m, NEW n, NEW T, NEW f, TermsAlong(S, w, o, m, n, T, f)
  PROVE  IsFiniteSet(T) /\ SumOf(f) = SumFunctionOnSet(w, T)
<1>0. /\ \A x \in S : w[x] \in Int
      /\ o \in Seq(S) /\ IsInjective(o)
      /\ m \in Nat /\ n \in Nat /\ m <= n /\ n <= Len(o)
  BY DEF TermsAlong
<1> DEFINE D == m + 1 .. n
           places == {o[k] : k \in D}
           E == 1 .. n - m
           terms == [k \in E |-> w[o[m + k]]]
           h == [k \in E |-> o[m + k]]
<1>1. \A k \in E : m + k \in D /\ m + k \in DOMAIN o /\ o[m + k] \in S
  BY <1>0
<1>2. terms \in Seq(Int) /\ Len(terms) = n - m
  <2>1. n - m \in Nat /\ terms \in [E -> Int]
    BY <1>0, <1>1
  <2> QED
    BY <2>1, SeqDef
<1>3. IsFiniteSet(E)
  <2>1. 1 \in Int /\ n - m \in Int
    BY <1>0
  <2> QED
    BY <2>1, FS_Interval
<1>4. \A k, l \in E : h[k] = h[l] => k = l
  <2> TAKE k, l \in E
  <2>1. m + k \in DOMAIN o /\ m + l \in DOMAIN o /\ h[k] = o[m + k] /\ h[l] = o[m + l]
    BY <1>1
  <2>2. h[k] = h[l] => m + k = m + l
    BY <1>0, <2>1 DEF IsInjective
  <2> QED
    BY <1>0, <2>2
<1>5. places = {h[k] : k \in E}
  <2>1. \A k \in D : k - m \in E /\ m + (k - m) = k
    BY <1>0
  <2>2. \A k \in D : \E l \in E : o[k] = h[l]
    <3> TAKE k \in D
    <3>1. k - m \in E /\ o[k] = h[k - m]
      BY <2>1
    <3> QED
      BY <3>1
  <2>3. \A l \in E : \E k \in D : o[k] = h[l]
    BY <1>1
  <2> HIDE DEF D, E, h
  <2>4. \A x : x \in places => x \in {h[k] : k \in E}
    BY <2>2
  <2>5. \A x : x \in {h[k] : k \in E} => x \in places
    BY <2>3
  <2> QED
    BY <2>4, <2>5
<1>6. \A k \in E : terms[k] \in Int /\ w[h[k]] = terms[k]
  BY <1>0, <1>1
<1>7. T = places /\ f = terms
  BY DEF TermsAlong
<1> HIDE DEF D, places, E, terms, h
<1>8. IsFiniteSet(places) /\ SumFunctionOnSet(w, places) = SumFunctionOnSet(terms, E)
  BY ONLY <1>3, <1>4, <1>5, <1>6, SumImage
<1>9. SumOf(terms) = SumFunctionOnSet(terms, E)
  BY <1>2, SumOfIsSum DEF E
<1> QED
  BY <1>7, <1>8, <1>9

(* A larger part of a smaller whole. *)
LEMMA FloorMono ==
  ASSUME NEW a \in Nat, NEW b \in Nat, NEW c \in Nat, NEW d \in Nat, b > 0, d > 0, a * d <= c * b
  PROVE  a \div b <= c \div d
<1> DEFINE q == a \div b   r == c \div d
<1>1. q \in Nat /\ b * q <= a
  BY DivDef
<1>2. r \in Nat /\ c < d * r + d
  BY DivDef
<1> HIDE DEF q, r
<1>3. ~(r + 1 <= q)
  <2> SUFFICES ASSUME r + 1 <= q PROVE FALSE
    OBVIOUS
  <2>1. (r + 1) * (b * d) <= q * (b * d)
    <3>1. b * d \in Nat
      BY SMT
    <3> QED
      BY <1>1, <1>2, <3>1, MulMono
  <2>2. (b * q) * d <= a * d
    <3>1. b * q \in Nat
      BY <1>1, SMT
    <3> QED
      BY <1>1, <3>1, MulMono
  <2>3. c + 1 <= d * r + d /\ c + 1 \in Nat /\ d * r + d \in Nat
    BY <1>2, SMT
  <2>4. (c + 1) * b <= (d * r + d) * b
    BY <2>3, MulMono
  <2>5. /\ (r + 1) * (b * d) = (d * r + d) * b
        /\ q * (b * d) = (b * q) * d
        /\ (c + 1) * b = c * b + b
    BY <1>1, <1>2, SMT
  <2>6. a * d \in Int /\ c * b \in Int /\ (b * q) * d \in Int /\ (d * r + d) * b \in Int
    BY <1>1, <1>2, SMT
  <2> QED
    BY <2>1, <2>2, <2>4, <2>5, <2>6
<1> QED
  BY <1>1, <1>2, <1>3 DEF q, r

(* An entry draws its part of the whole at most, and a wei for each entry    *)
(* before it.                                                               *)
LEMMA PortionsCeiling ==
  ASSUME NEW w \in Seq(Nat), NEW pot \in Nat, SumOf(w) > 0
  PROVE  \A n \in DOMAIN w :
           PortionsOf(w, pot)[n] \in Nat /\ PortionsOf(w, pot)[n] * SumOf(w) <= w[n] * pot + (n - 1) * SumOf(w)
<1> DEFINE N == Len(w)
           T == SumOf(w)
           left == LeftAfter(w, pot)
           I == {k \in Nat : k <= N => left[k] * T <= pot * WeightFrom(w, k + 1) + k * T}
<1>1. N \in Nat /\ DOMAIN w = 1 .. N
  OBVIOUS
<1>2. \A n \in 1 .. N : w[n] \in Nat /\ WeightFrom(w, n) = w[n] + WeightFrom(w, n + 1) /\ w[n] <= WeightFrom(w, n)
  BY <1>1, WeightFromStep
<1>3. WeightFrom(w, 1) = T /\ \A n \in 1 .. N + 1 : WeightFrom(w, n) \in Nat
  BY WeightFromStep
<1>4. left[0] = pot /\ \A n \in 0 .. N : left[n] \in Nat
  BY LeftAfterSpec
<1>5. \A n \in 1 .. N :
        left[n] = left[n - 1] - (IF w[n] = 0 THEN 0 ELSE (w[n] * left[n - 1]) \div WeightFrom(w, n))
  BY LeftAfterSpec
<1>6. \A n \in 1 .. N : PortionsOf(w, pot)[n] = left[n - 1] - left[n]
  BY <1>1 DEF PortionsOf
<1>7. T \in Nat /\ T > 0
  BY <1>1, <1>3
<1> HIDE DEF left, T
<1>8. 0 \in I
  <2>1. 0 + 1 = 1 /\ left[0] = pot /\ 0 \in Nat /\ WeightFrom(w, 1) = T
    BY <1>3, <1>4
  <2>2. pot * T <= pot * T + 0 * T
    BY <1>7, SMT
  <2> QED
    BY <2>1, <2>2
<1>9. ASSUME NEW k \in Nat, k + 1 <= N, left[k] * T <= pot * WeightFrom(w, k + 1) + k * T
      PROVE  left[k + 1] * T <= pot * WeightFrom(w, (k + 1) + 1) + (k + 1) * T
  <2> DEFINE n == k + 1   t == WeightFrom(w, n)   a == left[k]
  <2>1. n \in 1 .. N /\ n - 1 = k /\ n + 1 \in 1 .. N + 1 /\ k \in 0 .. N
    BY <1>1, <1>9
  <2>2. t \in Nat /\ a \in Nat /\ w[n] \in Nat /\ w[n] <= t /\ WeightFrom(w, n + 1) \in Nat /\ t = w[n] + WeightFrom(w, n + 1)
    BY <1>2, <1>3, <1>4, <2>1
  <2>3. left[n] = a - (IF w[n] = 0 THEN 0 ELSE (w[n] * a) \div t)
    BY <1>5, <2>1
  <2>4. a * T <= pot * t + k * T
    BY <1>9
  <2> HIDE DEF I, n, t, a
  <2>5. (k + 1) * T = k * T + T /\ k * T \in Nat /\ a * T \in Nat /\ pot * t \in Nat
    BY <1>7, <2>2, SMT
  <2>6. CASE w[n] = 0
    <3>1. left[n] = a /\ WeightFrom(w, n + 1) = t
      BY <2>2, <2>3, <2>6
    <3>2. a * T <= pot * t + (k + 1) * T
      BY <1>7, <2>4, <2>5
    <3> QED
      BY <3>1, <3>2 DEF n
  <2>7. CASE w[n] # 0
    <3>1. t > 0 /\ WeightFrom(w, n + 1) = t - w[n]
      BY <2>2, <2>7
    <3>2. (a - (w[n] * a) \div t) * T <= pot * (t - w[n]) + (k + 1) * T
      BY <1>7, <2>2, <2>4, <3>1, RatioRaisedByOne
    <3>3. left[n] = a - (w[n] * a) \div t
      BY <2>3, <2>7
    <3>4. left[n] * T <= pot * WeightFrom(w, n + 1) + (k + 1) * T
      BY <3>1, <3>2, <3>3
    <3> QED
      BY <3>4 DEF n
  <2> QED
    BY <2>6, <2>7 DEF n
<1>10. \A k \in Nat : k \in I => k + 1 \in I
  <2> TAKE k \in Nat
  <2> HAVE k \in I
  <2>1. k + 1 \in Nat /\ (k + 1 <= N => k <= N)
    BY <1>1
  <2>2. k + 1 <= N => left[k + 1] * T <= pot * WeightFrom(w, (k + 1) + 1) + (k + 1) * T
    BY <1>9, <2>1
  <2> QED
    BY <2>1, <2>2
<1>11. Nat \subseteq I
  <2> HIDE DEF I
  <2> QED
    BY <1>8, <1>10, SetInduction
<1>12. ASSUME NEW n \in 1 .. N
       PROVE  PortionsOf(w, pot)[n] \in Nat /\ PortionsOf(w, pot)[n] * T <= w[n] * pot + (n - 1) * T
  <2> DEFINE t == WeightFrom(w, n)   a == left[n - 1]   d == n - 1
  <2>1. d \in Nat /\ d <= N /\ d + 1 = n /\ d \in 0 .. N /\ n \in 0 .. N /\ n \in 1 .. N + 1
    BY <1>1
  <2>2. a * T <= pot * t + d * T
    BY <1>11, <2>1
  <2>3. t \in Nat /\ a \in Nat /\ w[n] \in Nat /\ w[n] <= t /\ left[n] \in Nat
    BY <1>2, <1>3, <1>4, <2>1
  <2>4. left[n] = a - (IF w[n] = 0 THEN 0 ELSE (w[n] * a) \div t)
    BY <1>5
  <2>5. PortionsOf(w, pot)[n] = a - left[n]
    BY <1>6
  <2> HIDE DEF t, a, d
  <2>6. CASE w[n] = 0
    <3>1. PortionsOf(w, pot)[n] = 0
      BY <2>3, <2>4, <2>5, <2>6
    <3>2. 0 * T <= w[n] * pot + d * T
      BY <1>7, <2>1, <2>3, SMT
    <3> QED
      BY <3>1, <3>2 DEF d
  <2>7. CASE w[n] # 0
    <3>1. t > 0
      BY <2>3, <2>7
    <3>2. ((w[n] * a) \div t) * T <= w[n] * pot + d * T
      BY <1>7, <2>1, <2>2, <2>3, <3>1, PortionAtMost
    <3>3. (w[n] * a) \div t \in Nat
      <4>1. w[n] * a \in Nat
        BY <2>3, SMT
      <4> QED
        BY <2>3, <3>1, <4>1, DivDef
    <3>4. PortionsOf(w, pot)[n] = (w[n] * a) \div t
      BY <2>3, <2>4, <2>5, <2>7, <3>3
    <3> QED
      BY <3>2, <3>3, <3>4 DEF d
  <2> QED
    BY <2>6, <2>7
<1> QED
  BY <1>1, <1>12 DEF T

(* Entries of the same weight draw the same, but for a wei for each entry.   *)
LEMMA PortionsAlike ==
  ASSUME NEW w \in Seq(Nat), NEW pot \in Nat, SumOf(w) > 0,
         NEW m \in DOMAIN w, NEW n \in DOMAIN w, w[m] = w[n]
  PROVE  PortionsOf(w, pot)[m] - PortionsOf(w, pot)[n] < Len(w)
<1> DEFINE T == SumOf(w)   x == PortionsOf(w, pot)[m]   y == PortionsOf(w, pot)[n]   c == w[n] * pot   f == c \div T
<1>1. Len(w) \in Nat /\ m \in 1 .. Len(w) /\ n \in 1 .. Len(w) /\ w[n] \in Nat
  OBVIOUS
<1>2. T \in Nat /\ T > 0
  <2>1. T \in Int
    <3>1. w \in Seq(Int)
      <4>1. \A k \in DOMAIN w : w[k] \in Int
        OBVIOUS
      <4> QED
        BY <4>1
    <3> QED
      BY <3>1, SumOfInt
  <2> QED
    BY <2>1
<1>3. x \in Nat /\ x * T <= c + (m - 1) * T
  BY PortionsCeiling
<1>4. y \in Int /\ y >= f
  <2>1. SumOf(w) \in Nat /\ SumOf(w) <= SumOf(w)
    BY <1>2
  <2> QED
    BY <2>1, PortionsFloor
<1>5. c \in Nat
  BY <1>1, SMT
<1>6. f \in Nat /\ c < T * f + T
  BY <1>2, <1>5, DivDef
<1> HIDE DEF T, x, y, c, f
<1>7. x * T < (f + m) * T
  <2>1. (f + m) * T = (T * f + T) + (m - 1) * T /\ x * T \in Int /\ T * f + T \in Int /\ (m - 1) * T \in Int
    BY <1>1, <1>2, <1>3, <1>6, SMT
  <2> QED
    BY <2>1, <1>3, <1>5, <1>6
<1>8. x < f + m
  <2> SUFFICES ASSUME f + m <= x PROVE FALSE
    BY <1>1, <1>3, <1>6
  <2>0. f + m \in Nat
    BY <1>1, <1>6
  <2>1. (f + m) * T <= x * T
    BY ONLY f + m <= x, <2>0, <1>2, <1>3, MulMono
  <2>2. (f + m) * T \in Int /\ x * T \in Int
    BY <1>1, <1>2, <1>3, <1>6, SMT
  <2> QED
    BY <1>7, <2>1, <2>2
<1>9. x - y < Len(w)
  BY <1>1, <1>3, <1>4, <1>6, <1>8
<1> QED
  BY <1>9 DEF x, y
=============================================================================
