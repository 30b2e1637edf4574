--------------------------- MODULE AmountsProofs ----------------------------
(***************************************************************************)
(* What Amounts promises, for any prices, any order and any size of the    *)
(* decimal context.                                                        *)
(*                                                                         *)
(* The library's induction theorems take an operator, which the provers    *)
(* cannot instantiate; the induction here is over sets: a set of naturals  *)
(* (or of subsets of a finite set) that is closed under the step is all of *)
(* them.  It gives the powers of ten, and the folds that add up an order,  *)
(* the equations they are defined by.                                      *)
(***************************************************************************)
EXTENDS Amounts, TLAPS, FiniteSetTheorems

-----------------------------------------------------------------------------
(* Induction.                                                              *)

LEMMA NatSetInduction ==
  ASSUME NEW T \in SUBSET Nat, 0 \in T, \A k \in T : k + 1 \in T
  PROVE  T = Nat
<1> DEFINE R == OpToRel(<, Nat)
           U == Nat \ T
<1>1. SUFFICES ASSUME U # {} PROVE FALSE
  OBVIOUS
<1>2. PICK x \in U : \A y \in U : ~ (<<y, x>> \in R)
  <2> HIDE DEF R
  <2>1. U \subseteq Nat
    OBVIOUS
  <2>2. IsWellFoundedOn(R, Nat)
    BY NatLessThanWellFounded DEF R
  <2> HIDE DEF U
  <2> QED BY <2>1, <2>2, <1>1, WFMin
<1>3. x \in Nat /\ x # 0 /\ x \notin T
  OBVIOUS
<1>4. x - 1 \in Nat /\ x - 1 < x /\ (x - 1) + 1 = x
  BY <1>3
<1>5. <<x - 1, x>> \in R
  BY <1>3, <1>4 DEF OpToRel
<1>6. x - 1 \in T
  BY <1>2, <1>5, <1>4
<1>7. (x - 1) + 1 \in T
  BY <1>6
<1> QED BY <1>7, <1>3, <1>4

LEMMA FiniteSetInduction ==
  ASSUME NEW S, IsFiniteSet(S), NEW K \in SUBSET SUBSET S,
         \A t \in SUBSET S : (\A u \in (SUBSET t) \ {t} : u \in K) => t \in K
  PROVE  K = SUBSET S
<1> DEFINE R == StrictSubsetOrdering(S)
           U == (SUBSET S) \ K
<1>1. SUFFICES ASSUME U # {} PROVE FALSE
  OBVIOUS
<1>2. PICK t \in U : \A u \in U : ~ (<<u, t>> \in R)
  <2> HIDE DEF R
  <2>1. U \subseteq SUBSET S
    OBVIOUS
  <2>2. IsWellFoundedOn(R, SUBSET S)
    BY FS_StrictSubsetOrderingWellFounded, FS_FiniteSubsetsOfFinite DEF R
  <2> HIDE DEF U
  <2> QED BY <2>1, <2>2, <1>1, WFMin
<1>3. \A u \in (SUBSET t) \ {t} : u \in K
  BY <1>2 DEF StrictSubsetOrdering
<1> QED BY <1>2, <1>3

-----------------------------------------------------------------------------
(* Powers of ten.                                                          *)

TenTo(f, n) ==
  f \in [0 .. n -> Nat] /\ f[0] = 1 /\ \A k \in 1 .. n : f[k] = 10 * f[k - 1]

LEMMA TenToExists == \A n \in Nat : \E f : TenTo(f, n)
<1> DEFINE T == {n \in Nat : \E f : TenTo(f, n)}
<1>1. 0 \in T
  <2>1. TenTo([k \in 0 .. 0 |-> 1], 0)
    BY DEF TenTo
  <2> QED BY <2>1
<1>2. ASSUME NEW n \in T PROVE n + 1 \in T
  <2>1. PICK f : TenTo(f, n)
    BY DEF T
  <2> DEFINE g == [k \in 0 .. n + 1 |-> IF k = n + 1 THEN 10 * f[n] ELSE f[k]]
  <2>2. n \in Nat /\ n \in 0 .. n /\ f[n] \in Nat /\ g \in [0 .. n + 1 -> Nat]
    BY <2>1 DEF TenTo
  <2>3. g[0] = 1
    BY <2>1, <2>2 DEF TenTo
  <2>4. ASSUME NEW k \in 1 .. n + 1 PROVE g[k] = 10 * g[k - 1]
    <3>1. CASE k = n + 1
      BY <3>1, <2>2
    <3>2. CASE k # n + 1
      BY <3>2, <2>1, <2>2 DEF TenTo
    <3> QED BY <3>1, <3>2
  <2> HIDE DEF g
  <2>5. TenTo(g, n + 1)
    BY <2>2, <2>3, <2>4 DEF TenTo
  <2> QED BY <2>2, <2>5
<1> HIDE DEF T
<1>3. T = Nat
  BY <1>1, <1>2, NatSetInduction DEF T
<1> QED BY <1>3 DEF T

LEMMA TenToUnique ==
  ASSUME NEW m \in Nat, NEW f, TenTo(f, m),
         NEW n \in Nat, n <= m, NEW g, TenTo(g, n)
  PROVE  \A k \in 0 .. n : f[k] = g[k]
<1> DEFINE T == {k \in Nat : k <= n => f[k] = g[k]}
<1>1. 0 \in T
  BY DEF TenTo
<1>2. ASSUME NEW k \in T PROVE k + 1 \in T
  BY DEF TenTo
<1> HIDE DEF T
<1>3. T = Nat
  BY <1>1, <1>2, NatSetInduction DEF T
<1> QED BY <1>3 DEF T

LEMMA TenDef == Ten = [k \in Nat |-> IF k = 0 THEN 1 ELSE 10 * Ten[k - 1]]
<1> DEFINE F(n) == CHOOSE f : TenTo(f, n)
           t == [n \in Nat |-> F(n)[n]]
<1>1. \A n \in Nat : TenTo(F(n), n)
  BY TenToExists
<1> HIDE DEF F
<1>2. t[0] = 1
  BY <1>1 DEF TenTo
<1>3. ASSUME NEW n \in Nat, n # 0 PROVE t[n] = 10 * t[n - 1]
  <2>1. n - 1 \in Nat /\ n - 1 <= n
    BY <1>3
  <2>2. TenTo(F(n), n) /\ TenTo(F(n - 1), n - 1)
    BY <2>1, <1>1
  <2>3. F(n)[n - 1] = F(n - 1)[n - 1]
    BY <2>1, <2>2, TenToUnique
  <2>4. F(n)[n] = 10 * F(n)[n - 1]
    BY <2>2, <1>3 DEF TenTo
  <2> QED BY <2>1, <2>3, <2>4
<1>4. t = [k \in Nat |-> IF k = 0 THEN 1 ELSE 10 * t[k - 1]]
  BY <1>2, <1>3
<1>5. \E x : x = [k \in Nat |-> IF k = 0 THEN 1 ELSE 10 * x[k - 1]]
  <2> HIDE DEF t
  <2> QED BY <1>4
<1> QED BY <1>5, Zenon DEF Ten

LEMMA TenSucc == Ten[0] = 1 /\ \A k \in Nat : Ten[k + 1] = 10 * Ten[k]
BY TenDef

LEMMA TenType == \A k \in Nat : Ten[k] \in Nat \ {0}
<1> DEFINE T == {k \in Nat : Ten[k] \in Nat \ {0}}
<1>1. 0 \in T
  BY TenSucc
<1>2. ASSUME NEW k \in T PROVE k + 1 \in T
  BY TenSucc
<1> HIDE DEF T
<1>3. T = Nat
  BY <1>1, <1>2, NatSetInduction DEF T
<1> QED BY <1>3 DEF T

LEMMA TenSum == \A a, b \in Nat : Ten[a + b] = Ten[a] * Ten[b]
<1> SUFFICES ASSUME NEW a \in Nat PROVE \A b \in Nat : Ten[a + b] = Ten[a] * Ten[b]
  OBVIOUS
<1> DEFINE T == {b \in Nat : Ten[a + b] = Ten[a] * Ten[b]}
<1>1. 0 \in T
  BY TenSucc, TenType
<1>2. ASSUME NEW b \in T PROVE b + 1 \in T
  <2>1. b \in Nat /\ Ten[a + b] = Ten[a] * Ten[b]
    OBVIOUS
  <2>2. Ten[a + (b + 1)] = 10 * Ten[a + b]
    <3>1. a + (b + 1) = (a + b) + 1 /\ a + b \in Nat
      BY <2>1
    <3> QED BY <3>1, TenSucc
  <2>3. Ten[b + 1] = 10 * Ten[b]
    BY <2>1, TenSucc
  <2>4. Ten[a] \in Nat /\ Ten[b] \in Nat
    BY <2>1, TenType
  <2>5. 10 * (Ten[a] * Ten[b]) = Ten[a] * (10 * Ten[b])
    BY <2>4
  <2> QED BY <2>1, <2>2, <2>3, <2>5
<1> HIDE DEF T
<1>3. T = Nat
  BY <1>1, <1>2, NatSetInduction DEF T
<1> QED BY <1>3 DEF T

LEMMA TenBig == \A k \in Nat : k < Ten[k]
<1> DEFINE T == {k \in Nat : k < Ten[k]}
<1>1. 0 \in T
  BY TenSucc
<1>2. ASSUME NEW k \in T PROVE k + 1 \in T
  BY TenSucc, TenType
<1> HIDE DEF T
<1>3. T = Nat
  BY <1>1, <1>2, NatSetInduction DEF T
<1> QED BY <1>3 DEF T

LEMMA TenOrder ==
  ASSUME NEW a \in Nat, NEW b \in Nat
  PROVE  /\ a <= b => Ten[a] <= Ten[b]
         /\ a < b => 10 * Ten[a] <= Ten[b]
         /\ Ten[a] < Ten[b] => a < b
<1>1. ASSUME NEW c \in Nat, NEW d \in Nat, c <= d PROVE Ten[c] <= Ten[d]
  <2>1. d - c \in Nat /\ c + (d - c) = d
    BY <1>1
  <2>2. Ten[d] = Ten[c] * Ten[d - c]
    BY <2>1, TenSum
  <2>3. Ten[c] \in Nat /\ Ten[d - c] \in Nat /\ Ten[d - c] >= 1
    BY <2>1, TenType
  <2> QED BY <2>2, <2>3
<1>2. ASSUME a < b PROVE 10 * Ten[a] <= Ten[b]
  <2>1. Ten[a + 1] = 10 * Ten[a]
    BY TenSucc
  <2>2. a + 1 \in Nat /\ a + 1 <= b
    BY <1>2
  <2> QED BY <2>1, <2>2, <1>1
<1>3. ASSUME Ten[a] < Ten[b] PROVE a < b
  <2>1. CASE b <= a
    <3>1. Ten[b] <= Ten[a]
      BY <2>1, <1>1
    <3>2. Ten[a] \in Nat /\ Ten[b] \in Nat
      BY TenType
    <3> QED BY <3>1, <3>2, <1>3
  <2> QED BY <2>1
<1> QED BY <1>1, <1>2, <1>3

-----------------------------------------------------------------------------
(* Folds: the two that the model uses, over one function each.             *)

Add(kind, x, y) == IF kind = "money" THEN add(x, y) ELSE x + y
Nothing(kind) == IF kind = "money" THEN Zero ELSE 0
Any(s) == CHOOSE x \in s : TRUE

Solves(kind, g, f, S) ==
  g = [s \in SUBSET S |->
         IF s = {} THEN Nothing(kind) ELSE Add(kind, f[Any(s)], g[s \ {Any(s)}])]
Solution(kind, f, S) == CHOOSE g : Solves(kind, g, f, S)
Total(kind, f, S) == Solution(kind, f, S)[S]

LEMMA AnyIn == ASSUME NEW s, s # {} PROVE Any(s) \in s
BY DEF Any

LEMMA SolvesUnique ==
  ASSUME NEW kind, NEW f, NEW S, IsFiniteSet(S), NEW s \in SUBSET S,
         NEW g, NEW h, Solves(kind, g, f, S), Solves(kind, h, f, s)
  PROVE  g[s] = h[s]
<1> DEFINE K == {t \in SUBSET s : g[t] = h[t]}
<1>1. ASSUME NEW t \in SUBSET s, \A u \in (SUBSET t) \ {t} : u \in K PROVE t \in K
  <2>1. CASE t = {}
    BY <2>1 DEF Solves
  <2>2. CASE t # {}
    <3> DEFINE x == Any(t)
    <3>1. x \in t /\ t \ {x} \in (SUBSET t) \ {t}
      BY <2>2, AnyIn
    <3>2. g[t \ {x}] = h[t \ {x}]
      BY <3>1, <1>1
    <3>3. g[t] = Add(kind, f[x], g[t \ {x}])
      BY <2>2 DEF Solves
    <3>4. h[t] = Add(kind, f[x], h[t \ {x}])
      BY <2>2 DEF Solves
    <3> QED BY <3>2, <3>3, <3>4
  <2> QED BY <2>1, <2>2
<1>2. IsFiniteSet(s)
  BY FS_Subset
<1> HIDE DEF K
<1>3. K \in SUBSET SUBSET s
  BY DEF K
<1>4. K = SUBSET s
  BY <1>1, <1>2, <1>3, FiniteSetInduction
<1>5. s \in SUBSET s
  OBVIOUS
<1> QED BY <1>4, <1>5 DEF K

LEMMA SolvesExists ==
  ASSUME NEW kind, NEW f, NEW S, IsFiniteSet(S)
  PROVE  \A t \in SUBSET S : Solves(kind, Solution(kind, f, t), f, t)
<1> DEFINE Sol(t) == Solution(kind, f, t)
           K == {t \in SUBSET S : Solves(kind, Sol(t), f, t)}
<1>1. ASSUME NEW t \in SUBSET S, \A u \in (SUBSET t) \ {t} : u \in K PROVE t \in K
  <2> DEFINE x == Any(t)
             v == IF t = {} THEN Nothing(kind)
                  ELSE Add(kind, f[x], Sol(t \ {x})[t \ {x}])
             g == [u \in SUBSET t |-> IF u = t THEN v ELSE Sol(u)[u]]
  <2>1. ASSUME NEW u \in SUBSET t, u # {}
        PROVE  g[u] = Add(kind, f[Any(u)], g[u \ {Any(u)}])
    <3> DEFINE y == Any(u)
    <3>1. y \in u /\ u \ {y} \in (SUBSET u) \ {u} /\ u \ {y} # t
      BY <2>1, AnyIn
    <3>2. g[u \ {y}] = Sol(u \ {y})[u \ {y}]
      BY <3>1
    <3>3. CASE u = t
      BY <3>2, <3>3, <2>1
    <3>4. CASE u # t
      <4>1. Solves(kind, Sol(u), f, u) /\ Solves(kind, Sol(u \ {y}), f, u \ {y})
        BY <1>1, <3>1, <3>4
      <4>2. IsFiniteSet(u)
        BY FS_Subset
      <4>3. Sol(u)[u \ {y}] = Sol(u \ {y})[u \ {y}]
        <5>1. u \ {y} \in SUBSET u
          OBVIOUS
        <5> HIDE DEF Sol, y
        <5> QED BY <4>1, <4>2, <5>1, SolvesUnique
      <4>4. Sol(u)[u] = Add(kind, f[y], Sol(u)[u \ {y}])
        BY <4>1, <2>1 DEF Solves
      <4>5. g[u] = Sol(u)[u]
        BY <3>4
      <4> HIDE DEF g
      <4> QED BY <4>3, <4>4, <4>5, <3>2
    <3> QED BY <3>3, <3>4
  <2>2. g[{}] = Nothing(kind)
    <3>1. CASE t = {}
      BY <3>1
    <3>2. CASE t # {}
      <4>1. Solves(kind, Sol({}), f, {})
        BY <3>2, <1>1
      <4> QED BY <4>1, <3>2 DEF Solves
    <3> QED BY <3>1, <3>2
  <2>3. g = [u \in SUBSET t |-> g[u]]
    OBVIOUS
  <2> HIDE DEF g
  <2>4. Solves(kind, g, f, t)
    BY <2>1, <2>2, <2>3 DEF Solves
  <2>5. Solves(kind, Sol(t), f, t)
    BY <2>4, Zenon DEF Solution
  <2> QED BY <2>5
<1> HIDE DEF K
<1>2. K \in SUBSET SUBSET S
  BY DEF K
<1>3. K = SUBSET S
  BY <1>1, <1>2, FiniteSetInduction
<1> QED BY <1>3 DEF K

LEMMA TotalEmpty == ASSUME NEW kind, NEW f PROVE Total(kind, f, {}) = Nothing(kind)
<1>1. Solves(kind, Solution(kind, f, {}), f, {})
  BY SolvesExists, FS_EmptySet
<1> QED BY <1>1 DEF Solves, Total

LEMMA TotalStep ==
  ASSUME NEW kind, NEW f, NEW S, IsFiniteSet(S), S # {}
  PROVE  \E x \in S : Total(kind, f, S) = Add(kind, f[x], Total(kind, f, S \ {x}))
<1> DEFINE x == Any(S)
<1>1. x \in S /\ S \ {x} \in SUBSET S
  BY AnyIn
<1>2. /\ Solves(kind, Solution(kind, f, S), f, S)
      /\ Solves(kind, Solution(kind, f, S \ {x}), f, S \ {x})
  BY <1>1, SolvesExists
<1>3. Solution(kind, f, S)[S \ {x}] = Solution(kind, f, S \ {x})[S \ {x}]
  <2> HIDE DEF x
  <2> QED BY <1>1, <1>2, SolvesUnique
<1>4. Solution(kind, f, S)[S] = Add(kind, f[x], Solution(kind, f, S)[S \ {x}])
  BY <1>2 DEF Solves
<1> QED BY <1>1, <1>3, <1>4 DEF Total

(* What the model folds is such a total.                                   *)
LEMMA FoldIsTotal == \A f : FoldFunction(add, Zero, f) = Total("money", f, DOMAIN f)
BY Zenon DEF FoldFunction, FoldFunctionOnSet, MapThenFoldSet,
             Total, Solution, Solves, Add, Nothing, Any

Sum(f, S) == Total("number", f, S)

LEMMA SumIsTotal == \A f, S : SumFunctionOnSet(f, S) = Sum(f, S)
BY Zenon DEF SumFunctionOnSet, FoldFunctionOnSet, MapThenFoldSet,
             Sum, Total, Solution, Solves, Add, Nothing, Any

LEMMA SumEmpty == \A f : Sum(f, {}) = 0
BY TotalEmpty DEF Sum, Nothing

LEMMA SumStep ==
  ASSUME NEW f, NEW S, IsFiniteSet(S), S # {}
  PROVE  \E x \in S : Sum(f, S) = f[x] + Sum(f, S \ {x})
<1>1. PICK x \in S :
        Total("number", f, S) = Add("number", f[x], Total("number", f, S \ {x}))
  BY TotalStep
<1> QED BY <1>1 DEF Sum, Add

LEMMA SumType ==
  ASSUME NEW f, NEW S, IsFiniteSet(S), \A x \in S : f[x] \in Nat
  PROVE  \A t \in SUBSET S : Sum(f, t) \in Nat
<1> DEFINE K == {t \in SUBSET S : Sum(f, t) \in Nat}
<1>1. ASSUME NEW t \in SUBSET S, \A u \in (SUBSET t) \ {t} : u \in K PROVE t \in K
  <2>1. CASE t = {}
    BY <2>1, SumEmpty
  <2>2. CASE t # {}
    <3>1. IsFiniteSet(t)
      BY FS_Subset
    <3>2. PICK x \in t : Sum(f, t) = f[x] + Sum(f, t \ {x})
      BY <2>2, <3>1, SumStep
    <3>3. t \ {x} \in K
      BY <1>1
    <3> QED BY <3>2, <3>3
  <2> QED BY <2>1, <2>2
<1> HIDE DEF K
<1>2. K \in SUBSET SUBSET S
  BY DEF K
<1>3. K = SUBSET S
  BY <1>1, <1>2, FiniteSetInduction
<1> QED BY <1>3 DEF K

(* The order in which a sum is taken does not matter.                      *)
LEMMA SumRemove ==
  ASSUME NEW f, NEW S, IsFiniteSet(S), \A x \in S : f[x] \in Nat
  PROVE  \A t \in SUBSET S : \A x \in t : Sum(f, t) = f[x] + Sum(f, t \ {x})
<1> DEFINE K == {t \in SUBSET S : \A x \in t : Sum(f, t) = f[x] + Sum(f, t \ {x})}
<1>1. ASSUME NEW t \in SUBSET S, \A u \in (SUBSET t) \ {t} : u \in K PROVE t \in K
  <2> SUFFICES ASSUME NEW x \in t PROVE Sum(f, t) = f[x] + Sum(f, t \ {x})
    OBVIOUS
  <2>1. IsFiniteSet(t)
    BY FS_Subset
  <2>2. PICK y \in t : Sum(f, t) = f[y] + Sum(f, t \ {y})
    BY <2>1, SumStep
  <2>3. CASE x # y
    <3>1. t \ {y} \in (SUBSET t) \ {t} /\ t \ {x} \in (SUBSET t) \ {t}
      OBVIOUS
    <3>2. Sum(f, t \ {y}) = f[x] + Sum(f, (t \ {y}) \ {x})
      BY <1>1, <3>1, <2>3
    <3>3. Sum(f, t \ {x}) = f[y] + Sum(f, (t \ {x}) \ {y})
      BY <1>1, <3>1, <2>3
    <3>4. (t \ {y}) \ {x} = (t \ {x}) \ {y}
      OBVIOUS
    <3>5. Sum(f, (t \ {y}) \ {x}) \in Nat
      BY SumType
    <3> QED BY <2>2, <3>2, <3>3, <3>4, <3>5
  <2> QED BY <2>2, <2>3
<1> HIDE DEF K
<1>2. K \in SUBSET SUBSET S
  BY DEF K
<1>3. K = SUBSET S
  BY <1>1, <1>2, FiniteSetInduction
<1> QED BY <1>3 DEF K

LEMMA SumAtLeast ==
  ASSUME NEW f, NEW S, IsFiniteSet(S), \A x \in S : f[x] \in Nat, NEW x \in S
  PROVE  f[x] <= Sum(f, S)
<1>1. Sum(f, S) = f[x] + Sum(f, S \ {x})
  BY SumRemove
<1>2. Sum(f, S \ {x}) \in Nat
  BY SumType
<1> QED BY <1>1, <1>2

(* Nor do the names of what is added up.                                   *)
LEMMA SumReindexed ==
  ASSUME NEW S, IsFiniteSet(S), NEW name,
         \A i, j \in S : name[i] = name[j] => i = j,
         NEW f, NEW g, \A i \in S : f[i] = g[name[i]] /\ f[i] \in Nat
  PROVE  Sum(f, S) = Sum(g, {name[i] : i \in S})
<1> DEFINE N(t) == {name[i] : i \in t}
           K == {t \in SUBSET S : Sum(f, t) = Sum(g, N(t))}
<1>1. IsFiniteSet(N(S)) /\ \A n \in N(S) : g[n] \in Nat
  <2> DEFINE h == [i \in S |-> name[i]]
  <2>1. h \in Surjection(S, N(S))
    BY DEF Surjection
  <2> QED BY <2>1, FS_Surjection
<1>2. ASSUME NEW t \in SUBSET S, \A u \in (SUBSET t) \ {t} : u \in K PROVE t \in K
  <2>1. CASE t = {}
    BY <2>1, SumEmpty
  <2>2. CASE t # {}
    <3>1. IsFiniteSet(t)
      BY FS_Subset
    <3>2. PICK x \in t : Sum(f, t) = f[x] + Sum(f, t \ {x})
      BY <2>2, <3>1, SumStep
    <3>3. t \ {x} \in K
      BY <1>2
    <3>4. N(t) \in SUBSET N(S) /\ name[x] \in N(t) /\ N(t \ {x}) = N(t) \ {name[x]}
      OBVIOUS
    <3>5. Sum(g, N(t)) = g[name[x]] + Sum(g, N(t) \ {name[x]})
      <4> HIDE DEF N
      <4> QED BY <3>4, <1>1, SumRemove
    <3> QED BY <3>2, <3>3, <3>4, <3>5
  <2> QED BY <2>1, <2>2
<1> HIDE DEF K
<1>3. K \in SUBSET SUBSET S
  BY DEF K
<1>4. K = SUBSET S
  BY <1>2, <1>3, FiniteSetInduction
<1> QED BY <1>4 DEF K

(* Sums of amounts that differ in proportion to what is counted.           *)
LEMMA SumOfDifferences ==
  ASSUME NEW S, IsFiniteSet(S), NEW u, NEW v, NEW w, NEW a \in Nat, NEW b \in Nat,
         NEW c \in Nat,
         \A x \in S : /\ u[x] \in Nat /\ v[x] \in Nat /\ w[x] \in Nat
                     /\ 20 * (u[x] * a - v[x] * b) <= c * w[x]
                     /\ -20 * (u[x] * a - v[x] * b) <= c * w[x]
  PROVE  /\ 20 * (Sum(u, S) * a - Sum(v, S) * b) <= c * Sum(w, S)
         /\ -20 * (Sum(u, S) * a - Sum(v, S) * b) <= c * Sum(w, S)
<1> DEFINE Close(p, q, r) ==
             20 * (p * a - q * b) <= c * r /\ -20 * (p * a - q * b) <= c * r
           K == {t \in SUBSET S : Close(Sum(u, t), Sum(v, t), Sum(w, t))}
<1>1. ASSUME NEW p \in Nat, NEW q \in Nat, NEW r \in Nat, Close(p, q, r),
             NEW p2 \in Nat, NEW q2 \in Nat, NEW r2 \in Nat, Close(p2, q2, r2)
      PROVE  Close(p + p2, q + q2, r + r2)
  <2>1. /\ (p + p2) * a = p * a + p2 * a
        /\ (q + q2) * b = q * b + q2 * b
        /\ c * (r + r2) = c * r + c * r2
    OBVIOUS
  <2>2. p * a \in Nat /\ p2 * a \in Nat /\ q * b \in Nat /\ q2 * b \in Nat
        /\ c * r \in Nat /\ c * r2 \in Nat
    OBVIOUS
  <2> QED BY <1>1, <2>1, <2>2
<1>2. ASSUME NEW t \in SUBSET S, \A s \in (SUBSET t) \ {t} : s \in K PROVE t \in K
  <2>1. CASE t = {}
    BY <2>1, SumEmpty
  <2>2. CASE t # {}
    <3>1. PICK x \in t : TRUE
      BY <2>2
    <3>2. /\ Sum(u, t) = u[x] + Sum(u, t \ {x})
          /\ Sum(v, t) = v[x] + Sum(v, t \ {x})
          /\ Sum(w, t) = w[x] + Sum(w, t \ {x})
      BY SumRemove
    <3>3. Sum(u, t \ {x}) \in Nat /\ Sum(v, t \ {x}) \in Nat /\ Sum(w, t \ {x}) \in Nat
      BY SumType
    <3>4. t \ {x} \in K
      BY <1>2
    <3>5. Close(Sum(u, t \ {x}), Sum(v, t \ {x}), Sum(w, t \ {x}))
      BY <3>4
    <3>6. u[x] \in Nat /\ v[x] \in Nat /\ w[x] \in Nat /\ Close(u[x], v[x], w[x])
      OBVIOUS
    <3>7. Close(Sum(u, t), Sum(v, t), Sum(w, t))
      <4> HIDE DEF Close, K
      <4> QED BY <3>2, <3>3, <3>5, <3>6, <1>1
    <3> QED BY <3>7
  <2> QED BY <2>1, <2>2
<1> HIDE DEF K
<1>3. K \in SUBSET SUBSET S
  BY DEF K
<1>4. K = SUBSET S
  BY <1>2, <1>3, FiniteSetInduction
<1> QED BY <1>4 DEF K

-----------------------------------------------------------------------------
(* Integer arithmetic.                                                     *)

LEMMA Cancel ==
  ASSUME NEW a \in Nat, NEW b \in Nat, NEW c \in Nat \ {0}
  PROVE  /\ a * c < b * c <=> a < b
         /\ a * c <= b * c <=> a <= b
         /\ a * c = b * c <=> a = b
<1>1. ASSUME NEW p \in Nat, NEW q \in Nat, p < q PROVE p * c < q * c
  <2>1. q - p \in Nat /\ q - p >= 1 /\ q * c = p * c + (q - p) * c
    BY <1>1
  <2>2. (q - p) * c >= 1
    BY <2>1
  <2> QED BY <2>1, <2>2
<1>2. a * c \in Nat /\ b * c \in Nat
  OBVIOUS
<1>3. a < b => a * c < b * c
  BY <1>1
<1>4. b < a => b * c < a * c
  BY <1>1
<1> QED BY <1>2, <1>3, <1>4

LEMMA Exactly ==
  ASSUME NEW m \in Nat, NEW c \in Nat \ {0}
  PROVE  (m * c) % c = 0 /\ (m * c) \div c = m
OBVIOUS

LEMMA DivAtLeast ==
  ASSUME NEW a \in Nat, NEW b \in Nat, NEW c \in Nat \ {0}, b * c <= a
  PROVE  b <= a \div c
OBVIOUS

LEMMA DivBounds ==
  ASSUME NEW a \in Nat, NEW c \in Nat \ {0}
  PROVE  /\ a \div c \in Nat /\ a % c \in Nat
         /\ a = c * (a \div c) + (a % c)
         /\ a % c < c
OBVIOUS

(* Rounding goes to one of the nearest integers.                           *)
LEMMA Rounding ==
  ASSUME NEW a \in Nat, NEW b \in Nat \ {0}, NEW r \in {HalfUp(a, b), HalfEven(a, b)}
  PROVE  /\ r \in Nat
         /\ 2 * (r * b - a) <= b
         /\ -2 * (r * b - a) <= b
<1>1. CASE r = HalfUp(a, b)
  <2> DEFINE x == 2 * a + b
             c == 2 * b
  <2>1. x \in Nat /\ c \in Nat \ {0} /\ r = x \div c
    BY <1>1 DEF HalfUp
  <2>2. r \in Nat /\ x = c * r + (x % c) /\ x % c \in Nat /\ x % c < c
    <3> HIDE DEF x, c
    <3> QED BY <2>1, DivBounds
  <2>3. c * r = 2 * (r * b)
    BY <2>2
  <2>4. r * b \in Nat
    BY <2>2
  <2> QED BY <2>2, <2>3, <2>4
<1>2. CASE r = HalfEven(a, b) /\ r # HalfUp(a, b)
  <2>1. r = a \div b /\ 2 * (a % b) = b
    BY <1>2 DEF HalfEven
  <2>2. r \in Nat /\ a = b * r + (a % b) /\ a % b \in Nat
    BY <2>1, DivBounds
  <2>3. b * r = r * b /\ r * b \in Nat
    BY <2>2
  <2> QED BY <2>1, <2>2, <2>3
<1> QED BY <1>1, <1>2

LEMMA RoundingAtLeast ==
  ASSUME NEW a \in Nat, NEW b \in Nat \ {0}, NEW c \in Nat, c * b <= a,
         NEW r \in {HalfUp(a, b), HalfEven(a, b)}
  PROVE  c <= r
<1>1. r \in Nat /\ -2 * (r * b - a) <= b
  BY Rounding
<1>2. CASE r < c
  <2>1. r + 1 <= c
    BY <1>1, <1>2
  <2>2. (r + 1) * b <= c * b /\ (r + 1) * b = r * b + b /\ r * b \in Nat
    BY <2>1, <1>1, Cancel
  <2>3. c * b \in Nat
    OBVIOUS
  <2> QED BY <1>1, <2>2, <2>3
<1> QED BY <1>1, <1>2

LEMMA RoundingExact ==
  ASSUME NEW c \in Nat, NEW b \in Nat \ {0}
  PROVE  HalfUp(c * b, b) = c /\ HalfEven(c * b, b) = c
<1>1. ASSUME NEW r \in {HalfUp(c * b, b), HalfEven(c * b, b)} PROVE r = c
  <2>1. c * b \in Nat
    OBVIOUS
  <2>2. r \in Nat /\ 2 * (r * b - c * b) <= b
    BY <2>1, Rounding
  <2>3. c <= r
    BY <2>1, RoundingAtLeast
  <2>4. CASE c < r
    <3>1. c + 1 <= r
      BY <2>2, <2>4
    <3>2. (c + 1) * b <= r * b /\ (c + 1) * b = c * b + b /\ r * b \in Nat
      BY <2>2, <3>1, Cancel
    <3> QED BY <2>1, <2>2, <3>2
  <2> QED BY <2>2, <2>3, <2>4
<1> QED BY <1>1

-----------------------------------------------------------------------------
(* Decimals that are a whole number m of minor units.                      *)

Money == [n : Nat, e : 0 .. Scale]

IsAmount(x, d, m) ==
  x \in Money /\ m \in Nat /\ x.n * Ten[d] = m * Ten[x.e]

(* Equal, or both beyond the context.                                      *)
Near(m, k) == m = k \/ (m >= Ten[Precision] /\ k >= Ten[Precision])

LEMMA MinorUnits ==
  ASSUME NEW x, NEW d \in Nat, NEW m, IsAmount(x, d, m)
  PROVE  _crypto_minor_units(x, d) = m
<1>1. m \in Nat /\ x.e \in Nat /\ Ten[x.e] \in Nat \ {0}
  BY TenType, AmountsAssumption DEF IsAmount, Money
<1>2. (m * Ten[x.e]) % Ten[x.e] = 0 /\ (m * Ten[x.e]) \div Ten[x.e] = m
  BY <1>1, Exactly
<1> QED BY <1>2 DEF IsAmount, _crypto_minor_units

LEMMA RescaledAmount ==
  ASSUME NEW x, NEW d \in Nat, NEW m, IsAmount(x, d, m), NEW e \in 0 .. Scale, x.e <= e
  PROVE  IsAmount(Rescaled(x, e), d, m) /\ Rescaled(x, e).e = e
<1>1. m \in Nat /\ x.n \in Nat /\ x.e \in Nat /\ e \in Nat /\ e - x.e \in Nat
  BY AmountsAssumption DEF IsAmount, Money
<1>2. /\ Ten[x.e] \in Nat /\ Ten[e - x.e] \in Nat /\ Ten[d] \in Nat
      /\ Ten[e] = Ten[x.e] * Ten[e - x.e]
  <2>1. x.e + (e - x.e) = e
    BY <1>1
  <2>2. Ten[x.e + (e - x.e)] = Ten[x.e] * Ten[e - x.e]
    BY <1>1, TenSum
  <2> QED BY <1>1, <2>1, <2>2, TenType
<1>3. Rescaled(x, e) = [n |-> x.n * Ten[e - x.e], e |-> e]
  BY <1>1 DEF Rescaled
<1>4. (x.n * Ten[e - x.e]) * Ten[d] = m * Ten[e]
  <2> DEFINE n == x.n
             p == Ten[e - x.e]
             q == Ten[d]
             r == Ten[x.e]
  <2>1. n * q = m * r
    BY DEF IsAmount
  <2>2. n \in Nat /\ p \in Nat /\ q \in Nat /\ r \in Nat
    BY <1>1, <1>2
  <2> HIDE DEF n, p, q, r
  <2>3. (n * p) * q = (n * q) * p /\ (m * r) * p = m * (r * p)
    BY <1>1, <2>2
  <2>4. (n * p) * q = m * (r * p)
    BY <2>1, <2>3
  <2> QED BY <2>4, <1>2 DEF n, p, q, r
<1>5. x.n * Ten[e - x.e] \in Nat
  BY <1>1, <1>2
<1> QED BY <1>1, <1>3, <1>4, <1>5 DEF IsAmount, Money

LEMMA StoredAmount ==
  ASSUME NEW x, NEW d \in Nat, NEW m, IsAmount(x, d, m)
  PROVE  IsAmount(_crypto_params(x), d, m)
<1>1. x.e \in 0 .. Scale /\ Scale \in 0 .. Scale
  BY AmountsAssumption DEF IsAmount, Money
<1>2. x.e <= Scale
  BY <1>1, AmountsAssumption
<1> QED BY <1>1, <1>2, RescaledAmount DEF _crypto_params

LEMMA SameAmount ==
  ASSUME NEW d \in Nat, NEW m, NEW x, IsAmount(x, d, m), NEW y, IsAmount(y, d, m)
  PROVE  Same(x, y)
<1> DEFINE r == Rescaled(x, Scale)
           s == Rescaled(y, Scale)
<1>1. Scale \in 0 .. Scale /\ x.e <= Scale /\ y.e <= Scale
  BY AmountsAssumption DEF IsAmount, Money
<1>2. IsAmount(r, d, m) /\ r.e = Scale /\ IsAmount(s, d, m) /\ s.e = Scale
  BY <1>1, RescaledAmount
<1> HIDE DEF r, s
<1>3. r.n * Ten[d] = s.n * Ten[d] /\ r.n \in Nat /\ s.n \in Nat
  BY <1>2 DEF IsAmount, Money
<1>4. r.n = s.n
  BY <1>3, TenType, Cancel
<1>5. r = s
  BY <1>2, <1>4 DEF IsAmount, Money
<1> QED BY <1>5 DEF Same, r, s

(* The number of digits that a result has too many.                        *)
Drops(x, k) ==
  x.n < Ten[Precision + k] /\ (k = 0 \/ x.n >= Ten[Precision + k - 1])

LEMMA DropsExists ==
  ASSUME NEW x, x.n \in Nat
  PROVE  \E k \in 0 .. x.n : Drops(x, k)
<1> DEFINE n == x.n
           U == {k \in Nat : n < Ten[Precision + k]}
           T == {k \in Nat : \A j \in 0 .. k : j \notin U}
<1>1. Precision \in Nat
  BY AmountsAssumption
<1>2. n \in U
  <2>1. Ten[n] <= Ten[Precision + n]
    BY <1>1, TenOrder
  <2>2. n < Ten[n] /\ Ten[n] \in Nat /\ Ten[Precision + n] \in Nat
    BY <1>1, TenBig, TenType
  <2> QED BY <2>1, <2>2
<1>3. SUFFICES ASSUME \A k \in 0 .. n : ~ Drops(x, k) PROVE FALSE
  OBVIOUS
<1>4. 0 \in T
  BY <1>3, <1>1 DEF Drops
<1>5. ASSUME NEW k \in T PROVE k + 1 \in T
  <2>1. k < n
    BY <1>2
  <2>2. ~ Drops(x, k + 1) /\ k + 1 # 0 /\ Precision + (k + 1) - 1 = Precision + k
    BY <1>1, <1>3, <2>1
  <2>3. k \notin U /\ k \in Nat
    OBVIOUS
  <2>4. n >= Ten[Precision + k]
    BY <2>3, <1>1, TenType
  <2>5. k + 1 \notin U
    BY <2>2, <2>4 DEF Drops
  <2> HIDE DEF U
  <2>6. \A j \in 0 .. k + 1 : j \notin U
    BY <2>3, <2>5
  <2> QED BY <2>6, <2>3
<1> HIDE DEF T, U
<1>6. T = Nat
  BY <1>4, <1>5, NatSetInduction DEF T
<1>7. n \notin U
  BY <1>6 DEF T
<1> QED BY <1>2, <1>7

(* An operation's result is exact, unless it is beyond the context; then   *)
(* so is what it is rounded to.                                            *)
LEMMA InContextAmount ==
  ASSUME NEW x, NEW d \in 0 .. Scale, NEW m, IsAmount(x, d, m)
  PROVE  \E k \in Nat : IsAmount(InContext(x), d, k) /\ Near(k, m)
<1> DEFINE n == x.n
           e == x.e
           P == Precision
           drop == CHOOSE k \in 0 .. x.n : Drops(x, k)
           h == HalfEven(n, Ten[drop])
<1>1. n \in Nat /\ e \in Nat /\ e <= Scale /\ m \in Nat /\ n * Ten[d] = m * Ten[e]
  BY AmountsAssumption DEF IsAmount, Money
<1>2. P \in Nat \ {0} /\ Scale \in Nat /\ d \in Nat /\ d <= Scale /\ P - 1 \in Nat
  BY AmountsAssumption
<1>3. drop \in 0 .. n /\ Drops(x, drop)
  BY <1>1, DropsExists
<1>4. InContext(x) = [n |-> h * Ten[IF drop > e THEN drop - e ELSE 0],
                      e |-> IF drop > e THEN 0 ELSE e - drop]
  BY Zenon DEF InContext, Drops
<1> HIDE DEF drop
<1>5. drop \in Nat /\ n < Ten[P + drop] /\ (drop = 0 \/ n >= Ten[P + drop - 1])
  BY <1>1, <1>3 DEF Drops
<1> HIDE DEF n, e, P
<1>6. CASE drop = 0
  <2>1. Ten[drop] = 1 /\ Ten[0] = 1
    BY <1>6, TenSucc
  <2>2. h = n
    BY <2>1, <1>1, RoundingExact
  <2>3. InContext(x) = [n |-> n, e |-> e]
    BY <1>4, <1>6, <2>1, <2>2, <1>1
  <2>4. x = [n |-> n, e |-> e]
    BY DEF IsAmount, Money, n, e
  <2> QED BY <2>3, <2>4, <1>1 DEF Near
<1>7. CASE drop # 0
  <2>1. Ten[drop] \in Nat \ {0} /\ Ten[d] \in Nat \ {0} /\ Ten[e] \in Nat \ {0}
        /\ Ten[P] \in Nat \ {0} /\ Ten[P - 1] \in Nat \ {0}
    BY <1>1, <1>2, <1>5, TenType
  <2>2. drop - 1 \in Nat /\ P + drop - 1 = (P - 1) + drop /\ P + drop - 1 \in Nat
    BY <1>2, <1>5, <1>7
  <2>3. n >= Ten[P - 1] * Ten[drop]
    BY <2>2, <1>2, <1>5, <1>7, TenSum
  <2>4. h \in Nat /\ h >= Ten[P - 1]
    BY <2>1, <2>3, <1>1, Rounding, RoundingAtLeast
  <2>5. CASE m < Ten[P]
    <3>1. Ten[P + drop - 1 + d] < Ten[P + e]
      <4>1. Ten[P + drop - 1 + d] = Ten[P + drop - 1] * Ten[d]
        BY <2>2, <1>2, TenSum
      <4>2. Ten[P + e] = Ten[P] * Ten[e]
        BY <1>1, <1>2, TenSum
      <4>3. Ten[P + drop - 1] * Ten[d] <= n * Ten[d]
        BY <2>1, <2>2, <1>1, <1>5, <1>7, TenType, Cancel
      <4>4. m * Ten[e] < Ten[P] * Ten[e]
        BY <2>1, <2>5, <1>1, Cancel
      <4>5. Ten[P + drop - 1] * Ten[d] \in Nat /\ Ten[P] * Ten[e] \in Nat
            /\ n * Ten[d] \in Nat
        BY <2>1, <2>2, <1>1, TenType
      <4> QED BY <4>1, <4>2, <4>3, <4>4, <4>5, <1>1
    <3>2. P + drop - 1 + d < P + e
      <4>1. P + drop - 1 + d \in Nat /\ P + e \in Nat
        BY <2>2, <1>1, <1>2
      <4> QED BY <4>1, <3>1, TenOrder
    <3>3. drop <= e /\ drop + d <= e
      BY <3>2, <1>1, <1>2, <1>5
    <3> DEFINE r == e - d - drop
               c == m * Ten[r]
    <3>4. r \in Nat /\ e - d \in Nat /\ e - drop \in Nat
      BY <3>3, <1>1, <1>2, <1>5
    <3>5. /\ Ten[e] = Ten[e - d] * Ten[d]
          /\ Ten[e - d] = Ten[r] * Ten[drop]
          /\ Ten[e - drop] = Ten[r] * Ten[d]
      <4>1. (e - d) + d = e /\ r + drop = e - d /\ r + d = e - drop
        BY <1>1, <1>2, <1>5
      <4> HIDE DEF r
      <4>2. /\ Ten[(e - d) + d] = Ten[e - d] * Ten[d]
            /\ Ten[r + drop] = Ten[r] * Ten[drop]
            /\ Ten[r + d] = Ten[r] * Ten[d]
        BY <3>4, <1>2, <1>5, TenSum
      <4> QED BY <4>1, <4>2
    <3>6. Ten[r] \in Nat /\ Ten[e - d] \in Nat
      BY <3>4, TenType
    <3>7. n = m * Ten[e - d]
      <4>1. (m * Ten[e - d]) * Ten[d] = m * Ten[e]
        BY <3>5, <3>6, <2>1, <1>1
      <4>2. m * Ten[e - d] \in Nat
        BY <3>6, <1>1
      <4> QED BY <4>1, <4>2, <2>1, <1>1, Cancel
    <3>8. c \in Nat /\ n = c * Ten[drop]
      <4> HIDE DEF r
      <4> QED BY <3>5, <3>6, <3>7, <2>1, <1>1
    <3>9. h = c
      <4> HIDE DEF c
      <4> QED BY <3>8, <2>1, RoundingExact
    <3>10. InContext(x) = [n |-> c, e |-> e - drop]
      <4>1. ~ (drop > e) /\ Ten[0] = 1
        BY <3>3, <1>1, <1>5, TenSucc
      <4> HIDE DEF c
      <4> QED BY <4>1, <3>8, <3>9, <1>4
    <3>11. c * Ten[d] = m * Ten[e - drop]
      <4> HIDE DEF r
      <4> QED BY <3>5, <3>6, <2>1, <1>1
    <3>12. e - drop \in 0 .. Scale
      BY <3>4, <1>1, <1>2, <1>5
    <3>13. IsAmount(InContext(x), d, m)
      <4> HIDE DEF c
      <4> QED BY <3>8, <3>10, <3>11, <3>12, <1>1 DEF IsAmount, Money
    <3> QED BY <3>13, <1>1 DEF Near
  <2>6. CASE m >= Ten[P]
    <3>1. Ten[P + e] < Ten[P + drop + d]
      <4>1. Ten[P + drop + d] = Ten[P + drop] * Ten[d] /\ Ten[P + e] = Ten[P] * Ten[e]
        <5>1. P + drop \in Nat
          BY <1>2, <1>5
        <5> QED BY <5>1, <1>1, <1>2, TenSum
      <4>2. n * Ten[d] < Ten[P + drop] * Ten[d]
        BY <2>1, <1>1, <1>2, <1>5, TenType, Cancel
      <4>3. Ten[P] * Ten[e] <= m * Ten[e]
        BY <2>1, <2>6, <1>1, Cancel
      <4>4. Ten[P + drop] * Ten[d] \in Nat /\ Ten[P] * Ten[e] \in Nat
            /\ n * Ten[d] \in Nat
        BY <2>1, <1>1, <1>2, <1>5, TenType
      <4> QED BY <4>1, <4>2, <4>3, <4>4, <1>1
    <3>2. P + e < P + drop + d
      <4>1. P + e \in Nat /\ P + drop + d \in Nat
        BY <1>1, <1>2, <1>5
      <4> QED BY <4>1, <3>1, TenOrder
    <3>3. e < drop + d
      BY <3>2, <1>1, <1>2, <1>5
    <3> DEFINE f == IF drop > e THEN drop - e ELSE 0
               g == IF drop > e THEN 0 ELSE e - drop
               k == h * Ten[f] * Ten[d - g]
    <3>4. f \in Nat /\ g \in 0 .. Scale /\ g <= d /\ d - g \in Nat /\ f + (d - g) >= 1
      BY <3>3, <1>1, <1>2, <1>5, <1>7
    <3>5. InContext(x) = [n |-> h * Ten[f], e |-> g]
      BY <1>4
    <3> HIDE DEF f, g
    <3>6. Ten[f] \in Nat /\ Ten[d - g] \in Nat /\ Ten[g] \in Nat /\ h * Ten[f] \in Nat
      BY <3>4, <2>4, <1>2, TenType
    <3>7. k \in Nat
      BY <3>6
    <3>8. (h * Ten[f]) * Ten[d] = k * Ten[g]
      <4>1. Ten[d] = Ten[d - g] * Ten[g]
        <5>1. (d - g) + g = d /\ g \in Nat
          BY <3>4, <1>2
        <5> QED BY <5>1, <3>4, TenSum
      <4>2. (h * Ten[f]) * (Ten[d - g] * Ten[g]) = ((h * Ten[f]) * Ten[d - g]) * Ten[g]
        <5> DEFINE a == h * Ten[f]
        <5>1. a \in Nat
          BY <3>6
        <5> HIDE DEF a
        <5>2. a * (Ten[d - g] * Ten[g]) = (a * Ten[d - g]) * Ten[g]
          BY <5>1, <3>6
        <5> QED BY <5>2 DEF a
      <4> QED BY <4>1, <4>2
    <3>9. k >= Ten[P]
      <4>1. Ten[f + (d - g)] = Ten[f] * Ten[d - g]
        BY <3>4, TenSum
      <4>2. Ten[f + (d - g)] >= 10
        <5>1. 10 * Ten[0] <= Ten[f + (d - g)]
          BY <3>4, TenOrder
        <5> QED BY <5>1, TenSucc, <3>4, TenType
      <4>3. Ten[P] = 10 * Ten[P - 1]
        <5>1. (P - 1) + 1 = P
          BY <1>2
        <5> QED BY <5>1, <1>2, TenSucc
      <4> DEFINE t == Ten[f + (d - g)]
      <4>4. t \in Nat /\ t >= 10
        BY <4>2, <3>4, TenType
      <4>5. k = h * t
        BY <4>1, <3>6, <2>4
      <4> HIDE DEF t, k
      <4>6. h * t >= Ten[P - 1] * t /\ Ten[P - 1] * t >= Ten[P - 1] * 10
        BY <4>4, <2>1, <2>4, Cancel
      <4>7. h * t \in Nat /\ Ten[P - 1] * t \in Nat
        BY <4>4, <2>1, <2>4
      <4> QED BY <4>3, <4>5, <4>6, <4>7, <2>1
    <3> HIDE DEF k
    <3>10. IsAmount(InContext(x), d, k)
      BY <3>4, <3>5, <3>6, <3>7, <3>8 DEF IsAmount, Money
    <3> QED BY <3>7, <3>9, <3>10, <2>6 DEF Near, P
  <2> QED BY <2>1, <2>5, <2>6, <1>1
<1> QED BY <1>6, <1>7

LEMMA NearAdded ==
  ASSUME NEW a \in Nat, NEW b \in Nat, Near(a, b),
         NEW c \in Nat, NEW d \in Nat, Near(c, d)
  PROVE  Near(a + c, b + d)
<1>1. Ten[Precision] \in Nat
  BY TenType, AmountsAssumption
<1> QED BY <1>1 DEF Near

LEMMA AddedAmounts ==
  ASSUME NEW d \in 0 .. Scale,
         NEW x, NEW m, IsAmount(x, d, m), NEW y, NEW k, IsAmount(y, d, k)
  PROVE  \E r \in Nat : IsAmount(add(x, y), d, r) /\ Near(r, m + k)
<1> DEFINE e == IF x.e > y.e THEN x.e ELSE y.e
           p == Rescaled(x, e)
           q == Rescaled(y, e)
           z == [n |-> p.n + q.n, e |-> e]
<1>1. d \in Nat /\ e \in 0 .. Scale /\ x.e <= e /\ y.e <= e /\ m \in Nat /\ k \in Nat
  BY AmountsAssumption DEF IsAmount, Money
<1>2. add(x, y) = InContext(z)
  BY DEF add
<1> HIDE DEF e
<1>3. IsAmount(p, d, m) /\ p.e = e /\ IsAmount(q, d, k) /\ q.e = e
  BY <1>1, RescaledAmount
<1> HIDE DEF p, q
<1>4. /\ p.n \in Nat /\ q.n \in Nat /\ e \in Nat /\ Ten[e] \in Nat /\ Ten[d] \in Nat
      /\ p.n * Ten[d] = m * Ten[e] /\ q.n * Ten[d] = k * Ten[e]
  BY <1>1, <1>3, TenType, AmountsAssumption DEF IsAmount, Money
<1>5. (p.n + q.n) * Ten[d] = (m + k) * Ten[e]
  <2>1. /\ (p.n + q.n) * Ten[d] = p.n * Ten[d] + q.n * Ten[d]
        /\ (m + k) * Ten[e] = m * Ten[e] + k * Ten[e]
    BY <1>1, <1>4
  <2> QED BY <2>1, <1>4
<1>6. IsAmount(z, d, m + k)
  BY <1>1, <1>4, <1>5 DEF IsAmount, Money
<1> HIDE DEF z
<1> QED BY <1>2, <1>6, InContextAmount

LEMMA MultipliedAmount ==
  ASSUME NEW d \in 0 .. Scale, NEW x, NEW m, IsAmount(x, d, m), NEW quantity \in Nat
  PROVE  \E r \in Nat : /\ IsAmount(_multiply_crypto(x, quantity), d, r)
                       /\ Near(r, m * quantity)
<1> DEFINE z == [x EXCEPT !.n = @ * quantity]
<1>1. /\ x \in Money /\ x.n \in Nat /\ x.e \in 0 .. Scale /\ x.e \in Nat /\ d \in Nat
      /\ m \in Nat /\ Ten[x.e] \in Nat /\ Ten[d] \in Nat /\ x.n * Ten[d] = m * Ten[x.e]
  BY TenType, AmountsAssumption DEF IsAmount, Money
<1>2. z.n = x.n * quantity /\ z.e = x.e /\ z \in Money
  BY <1>1 DEF Money
<1>3. (x.n * quantity) * Ten[d] = (m * quantity) * Ten[x.e]
  <2>1. /\ (x.n * quantity) * Ten[d] = (x.n * Ten[d]) * quantity
        /\ (m * quantity) * Ten[x.e] = (m * Ten[x.e]) * quantity
    BY <1>1
  <2> QED BY <2>1, <1>1
<1>4. IsAmount(z, d, m * quantity)
  BY <1>1, <1>2, <1>3 DEF IsAmount
<1>5. _multiply_crypto(x, quantity) = InContext(z)
  BY DEF _multiply_crypto
<1> HIDE DEF z
<1> QED BY <1>4, <1>5, InContextAmount

(* The sum of an order: exact, or beyond the context.                      *)
LEMMA TotalAmount ==
  ASSUME NEW d \in 0 .. Scale, NEW S, IsFiniteSet(S), NEW f, NEW m,
         \A x \in S : IsAmount(f[x], d, m[x])
  PROVE  \E r \in Nat : IsAmount(Total("money", f, S), d, r) /\ Near(r, Sum(m, S))
<1> DEFINE Good(t) == \E r \in Nat : /\ IsAmount(Total("money", f, t), d, r)
                                    /\ Near(r, Sum(m, t))
           K == {t \in SUBSET S : Good(t)}
<1>0. \A x \in S : m[x] \in Nat
  BY DEF IsAmount
<1>1. ASSUME NEW t \in SUBSET S, \A u \in (SUBSET t) \ {t} : u \in K PROVE t \in K
  <2>1. CASE t = {}
    <3>1. IsAmount(Zero, d, 0)
      <4>1. d \in Nat /\ Ten[d] \in Nat /\ Ten[0] \in Nat
        BY TenType, AmountsAssumption
      <4> QED BY <4>1, AmountsAssumption DEF IsAmount, Money, Zero
    <3>2. Total("money", f, t) = Zero /\ Sum(m, t) = 0
      BY <2>1, TotalEmpty, SumEmpty DEF Nothing
    <3>3. Good(t)
      BY <3>1, <3>2 DEF Near
    <3> QED BY <3>3
  <2>2. CASE t # {}
    <3>1. IsFiniteSet(t)
      BY FS_Subset
    <3>2. PICK x \in t :
            Total("money", f, t) = Add("money", f[x], Total("money", f, t \ {x}))
      BY <2>2, <3>1, TotalStep
    <3>3. t \ {x} \in K
      BY <1>1
    <3>4. PICK r \in Nat : /\ IsAmount(Total("money", f, t \ {x}), d, r)
                          /\ Near(r, Sum(m, t \ {x}))
      BY <3>3
    <3>5. Total("money", f, t) = add(f[x], Total("money", f, t \ {x}))
      BY <3>2 DEF Add
    <3>6. PICK q \in Nat : /\ IsAmount(add(f[x], Total("money", f, t \ {x})), d, q)
                          /\ Near(q, m[x] + r)
      <4>1. IsAmount(f[x], d, m[x])
        OBVIOUS
      <4> QED BY <4>1, <3>4, AddedAmounts
    <3>7. Sum(m, t) = m[x] + Sum(m, t \ {x}) /\ Sum(m, t \ {x}) \in Nat /\ m[x] \in Nat
      BY <1>0, SumRemove, SumType
    <3>8. Near(m[x] + r, m[x] + Sum(m, t \ {x}))
      <4>1. Near(m[x], m[x])
        BY DEF Near
      <4> QED BY <4>1, <3>4, <3>7, NearAdded
    <3>9. Near(q, Sum(m, t))
      BY <3>6, <3>7, <3>8 DEF Near
    <3>10. Good(t)
      BY <3>5, <3>6, <3>9
    <3> QED BY <3>10
  <2> QED BY <2>1, <2>2
<1> HIDE DEF K
<1>2. K \in SUBSET SUBSET S
  BY DEF K
<1>3. K = SUBSET S
  BY <1>1, <1>2, FiniteSetInduction
<1>4. S \in K
  BY <1>3
<1> QED BY <1>4 DEF K

LEMMA SumNear ==
  ASSUME NEW S, IsFiniteSet(S), NEW a, NEW b,
         \A x \in S : a[x] \in Nat /\ b[x] \in Nat /\ Near(a[x], b[x])
  PROVE  Near(Sum(a, S), Sum(b, S))
<1> DEFINE K == {t \in SUBSET S : Near(Sum(a, t), Sum(b, t))}
<1>1. ASSUME NEW t \in SUBSET S, \A u \in (SUBSET t) \ {t} : u \in K PROVE t \in K
  <2>1. CASE t = {}
    BY <2>1, SumEmpty DEF Near
  <2>2. CASE t # {}
    <3>1. PICK x \in t : TRUE
      BY <2>2
    <3>2. /\ Sum(a, t) = a[x] + Sum(a, t \ {x}) /\ Sum(a, t \ {x}) \in Nat
          /\ Sum(b, t) = b[x] + Sum(b, t \ {x}) /\ Sum(b, t \ {x}) \in Nat
      BY SumRemove, SumType
    <3>3. t \ {x} \in K
      BY <1>1
    <3>4. Near(Sum(a, t \ {x}), Sum(b, t \ {x})) /\ Near(a[x], b[x])
      BY <3>3
    <3> HIDE DEF K
    <3>5. Near(Sum(a, t), Sum(b, t))
      BY <3>2, <3>4, NearAdded
    <3> QED BY <3>5 DEF K
  <2> QED BY <2>1, <2>2
<1> HIDE DEF K
<1>2. K \in SUBSET SUBSET S
  BY DEF K
<1>3. K = SUBSET S
  BY <1>1, <1>2, FiniteSetInduction
<1>4. S \in K
  BY <1>3
<1> QED BY <1>4 DEF K

-----------------------------------------------------------------------------
(* Prices.                                                                 *)

(* The digits after the point that a quotient is computed to.              *)
Digits(a, b, k) ==
  /\ a * Ten[k] >= b * Ten[Precision - 1]
  /\ k = 0 \/ a * Ten[k - 1] < b * Ten[Precision - 1]

LEMMA DigitsExist ==
  ASSUME NEW a \in Nat \ {0}, NEW b \in Nat \ {0}
  PROVE  \E k \in 0 .. Precision + b : Digits(a, b, k)
<1> DEFINE n == Precision + b
           goal == b * Ten[Precision - 1]
           U == {k \in Nat : a * Ten[k] >= goal}
           T == {k \in Nat : \A j \in 0 .. k : j \notin U}
<1>1. Precision \in Nat \ {0} /\ Precision - 1 \in Nat /\ n \in Nat
  BY AmountsAssumption
<1>2. goal \in Nat
  BY <1>1, TenType
<1>3. n \in U
  <2>1. Ten[n] = Ten[Precision] * Ten[b]
    BY <1>1, TenSum
  <2>2. /\ Ten[Precision] \in Nat /\ Ten[Precision - 1] \in Nat
        /\ Ten[b] \in Nat /\ Ten[n] \in Nat
    BY <1>1, TenType
  <2>3. Ten[Precision - 1] <= Ten[Precision] /\ b <= Ten[b]
    BY <1>1, <2>2, TenOrder, TenBig
  <2>4. b * Ten[Precision - 1] <= Ten[b] * Ten[Precision]
    <3> DEFINE p == Ten[Precision - 1]
               q == Ten[Precision]
               r == Ten[b]
    <3>1. p \in Nat /\ q \in Nat /\ r \in Nat /\ p <= q /\ b <= r
      BY <2>2, <2>3
    <3> HIDE DEF p, q, r
    <3>2. b * p <= b * q
      BY <3>1
    <3>3. b * q <= r * q
      BY <3>1
    <3>4. b * p \in Nat /\ b * q \in Nat /\ r * q \in Nat
      BY <3>1
    <3>5. b * p <= r * q
      BY <3>2, <3>3, <3>4
    <3> QED BY <3>5 DEF p, q, r
  <2>5. Ten[b] * Ten[Precision] = Ten[n]
    BY <2>1, <2>2
  <2>6. Ten[n] <= a * Ten[n]
    BY <2>2
  <2>7. a * Ten[n] \in Nat
    BY <2>2
  <2>8. goal <= a * Ten[n]
    BY <2>2, <2>4, <2>5, <2>6, <2>7, <1>2
  <2> QED BY <1>1, <1>2, <2>7, <2>8
<1>4. SUFFICES ASSUME \A k \in 0 .. n : ~ Digits(a, b, k) PROVE FALSE
  OBVIOUS
<1> HIDE DEF n
<1>5. 0 \in T
  BY <1>1, <1>4 DEF Digits
<1>6. ASSUME NEW k \in T PROVE k + 1 \in T
  <2>1. k \notin U /\ k \in Nat
    OBVIOUS
  <2>2. k < n
    BY <1>1, <1>3
  <2>3. ~ Digits(a, b, k + 1) /\ k + 1 # 0 /\ (k + 1) - 1 = k
    BY <1>1, <1>4, <2>1, <2>2
  <2>4. a * Ten[k] < goal
    BY <2>1, <1>2, TenType
  <2>5. k + 1 \notin U
    BY <2>3, <2>4 DEF Digits
  <2> HIDE DEF U
  <2>6. \A j \in 0 .. k + 1 : j \notin U
    BY <2>1, <2>5
  <2> QED BY <2>1, <2>6
<1> HIDE DEF T, U
<1>7. T = Nat
  BY <1>5, <1>6, NatSetInduction DEF T
<1>8. n \notin U
  BY <1>1, <1>7 DEF T
<1> QED BY <1>3, <1>8

(* A converted price is within 11/20 of a minor unit of the exact one.     *)
LEMMA ConvertedPrice ==
  ASSUME NEW cents \in Nat, NEW a \in PaymentAsset, to_crypto(cents, a) # NoAmount
  PROVE  \E n \in Nat :
           /\ to_crypto(cents, a) = [n |-> n, e |-> a.decimals]
           /\ 20 * (n * (100 * a.rate) - cents * Ten[a.decimals]) <= 11 * (100 * a.rate)
           /\ -20 * (n * (100 * a.rate) - cents * Ten[a.decimals]) <= 11 * (100 * a.rate)
<1> DEFINE b == 100 * a.rate
           d == a.decimals
           quotient == Quotient(cents, b)
           quantized == Rescaled(quotient, d)
           P == Precision
           close(x) == /\ 20 * (x * b - cents * Ten[d]) <= 11 * b
                       /\ -20 * (x * b - cents * Ten[d]) <= 11 * b
<1>1. b \in Nat \ {0} /\ d \in Nat /\ d <= Scale
  BY AmountsAssumption DEF PaymentAsset
<1>2. P \in Nat \ {0} /\ P - 1 \in Nat
  BY AmountsAssumption
<1>3. to_crypto(cents, a) = quantized /\ quantized.n < Ten[P] /\ quantized.e = d
  BY DEF to_crypto, Rescaled
<1>4. Ten[d] \in Nat \ {0} /\ Ten[P] \in Nat \ {0} /\ Ten[P - 1] \in Nat \ {0}
  BY <1>1, <1>2, TenType
<1> HIDE DEF b, d
<1>5. SUFFICES quantized.n \in Nat /\ close(quantized.n)
  <2>1. quantized = [n |-> quantized.n, e |-> d]
    BY <1>3 DEF Rescaled
  <2> HIDE DEF quantized
  <2> QED BY <1>3, <2>1 DEF b, d
<1>6. CASE cents = 0
  <2>1. quotient = [n |-> 0, e |-> 0]
    BY <1>6 DEF Quotient
  <2>2. quantized.n = 0
    <3>1. quantized = [n |-> 0 * Ten[d - 0], e |-> d]
      BY <2>1, <1>1 DEF Rescaled
    <3>2. d - 0 = d
      BY <1>1
    <3>3. quantized = [n |-> 0 * Ten[d], e |-> d]
      BY <3>1, <3>2
    <3> QED BY <3>3, <1>4
  <2> HIDE DEF quantized
  <2> QED BY <2>2, <1>1, <1>4, <1>6
<1>7. CASE cents # 0
  <2> DEFINE k == CHOOSE j \in 0 .. P + b : Digits(cents, b, j)
             q == HalfEven(cents * Ten[k], b)
  <2>1. k \in 0 .. P + b /\ Digits(cents, b, k)
    BY <1>1, <1>7, DigitsExist
  <2>2. quotient = [n |-> q, e |-> k]
    BY <1>7, Zenon DEF Quotient, Digits
  <2> HIDE DEF k
  <2>3. k \in Nat /\ cents * Ten[k] >= b * Ten[P - 1] /\ Ten[k] \in Nat \ {0}
        /\ cents * Ten[k] \in Nat
    BY <2>1, <1>1, <1>2, TenType DEF Digits
  <2>4. /\ q \in Nat
        /\ 2 * (q * b - cents * Ten[k]) <= b
        /\ -2 * (q * b - cents * Ten[k]) <= b
    BY <2>3, <1>1, Rounding
  <2>5. Ten[P - 1] <= q
    <3>1. Ten[P - 1] * b = b * Ten[P - 1]
      BY <1>1, <1>4
    <3> QED BY <3>1, <2>3, <1>1, <1>4, RoundingAtLeast
  <2> HIDE DEF q
  <2>6. CASE d > k
    <3>1. quantized.n = q * Ten[d - k]
      BY <2>2, <2>3, <2>6, <1>1 DEF Rescaled
    <3>2. d - k \in Nat /\ Ten[d - k] \in Nat /\ Ten[d - k] >= 10
      <4>1. d - k \in Nat /\ 0 < d - k
        BY <2>3, <2>6, <1>1
      <4>2. 10 * Ten[0] <= Ten[d - k]
        BY <4>1, TenOrder
      <4> QED BY <4>1, <4>2, TenSucc, TenType
    <3>3. Ten[P] = Ten[P - 1] * 10
      <4>1. (P - 1) + 1 = P
        BY <1>2
      <4>2. Ten[P] = 10 * Ten[P - 1]
        BY <4>1, <1>2, TenSucc
      <4> QED BY <4>2, <1>4
    <3> DEFINE t == Ten[d - k]
               u == Ten[P - 1]
    <3>4. t \in Nat /\ t >= 10 /\ u \in Nat /\ u <= q
      BY <3>2, <2>5, <1>4
    <3> HIDE DEF t, u
    <3>5. u * 10 <= q * 10 /\ q * 10 <= q * t /\ q * t \in Nat
      BY <3>4, <2>4
    <3>6. Ten[P] <= quantized.n
      BY <3>1, <3>3, <3>4, <3>5, <2>4 DEF t, u
    <3> QED BY <1>3, <1>4, <3>1, <3>5, <3>6 DEF t
  <2>7. CASE d = k
    <3>1. quantized.n = q
      <4>1. quantized.n = q * Ten[d - k] /\ d - k = 0
        BY <2>2, <2>3, <2>7, <1>1 DEF Rescaled
      <4> QED BY <4>1, <2>4, TenSucc
    <3>2. q * b \in Nat
      BY <2>4, <1>1
    <3> HIDE DEF quantized
    <3> QED BY <3>1, <3>2, <2>3, <2>4, <2>7, <1>1
  <2>8. CASE d < k
    <3> DEFINE t == Ten[k - d]
               h == HalfUp(q, t)
    <3>1. quantized.n = h
      BY <2>2, <2>3, <2>8, <1>1 DEF Rescaled
    <3>2. k - d \in Nat /\ d + (k - d) = k /\ 0 < k - d
      BY <2>3, <2>8, <1>1
    <3>3. t \in Nat \ {0} /\ t >= 10 /\ Ten[k] = Ten[d] * t
      <4>1. 10 * Ten[0] <= Ten[k - d]
        BY <3>2, TenOrder
      <4>2. Ten[d + (k - d)] = Ten[d] * Ten[k - d]
        BY <3>2, <1>1, TenSum
      <4> QED BY <4>1, <4>2, <3>2, TenSucc, TenType
    <3> HIDE DEF t
    <3>4. /\ h \in Nat
          /\ 2 * (h * t - q) <= t
          /\ -2 * (h * t - q) <= t
      BY <3>3, <2>4, Rounding
    <3> HIDE DEF h, quantized
    <3> DEFINE z == h * b - cents * Ten[d]
    <3>5. h * b \in Nat /\ cents * Ten[d] \in Nat /\ z \in Int /\ h * t \in Nat
          /\ b * t \in Nat /\ b * q \in Nat /\ b * (h * t) \in Nat
      BY <3>3, <3>4, <2>4, <1>1, <1>4
    <3>6. z * t = b * (h * t) - cents * Ten[k]
      <4>1. (h * b) * t = b * (h * t)
        BY <3>3, <3>4, <1>1
      <4>2. (cents * Ten[d]) * t = cents * Ten[k]
        BY <3>3, <1>4
      <4>3. (h * b - cents * Ten[d]) * t = (h * b) * t - (cents * Ten[d]) * t
        BY <3>3, <3>5
      <4> QED BY <4>1, <4>2, <4>3
    <3>7. 2 * (b * (h * t) - b * q) <= b * t /\ -2 * (b * (h * t) - b * q) <= b * t
      <4> DEFINE y == h * t
      <4>1. y \in Nat /\ 2 * (y - q) <= t /\ -2 * (y - q) <= t
        BY <3>4, <3>5
      <4> HIDE DEF y
      <4>2. b * (2 * (y - q)) <= b * t /\ b * (-2 * (y - q)) <= b * t
        BY <4>1, <3>3, <2>4, <1>1
      <4>3. b * (2 * (y - q)) = 2 * (b * y - b * q)
            /\ b * (-2 * (y - q)) = -2 * (b * y - b * q)
        BY <4>1, <2>4, <1>1
      <4> QED BY <4>2, <4>3 DEF y
    <3>8. q * b = b * q
      BY <2>4, <1>1
    <3>9. 2 * (z * t) <= b * t + b /\ -2 * (z * t) <= b * t + b
      <4>1. z * t \in Int
        BY <3>3, <3>5
      <4> HIDE DEF z
      <4> QED BY <4>1, <3>5, <3>6, <3>7, <3>8, <2>3, <2>4, <1>1
    <3>10. 10 * b <= b * t
      <4>1. b * 10 <= b * t
        BY <3>3, <1>1
      <4> QED BY <4>1, <1>1
    <3>11. 20 * (z * t) <= 11 * (b * t) /\ -20 * (z * t) <= 11 * (b * t)
      <4>1. z * t \in Int
        BY <3>3, <3>5
      <4> HIDE DEF z
      <4> QED BY <4>1, <3>5, <3>9, <3>10, <1>1
    <3>12. 20 * z <= 11 * b /\ -20 * z <= 11 * b
      <4> HIDE DEF z
      <4>1. ASSUME NEW v \in Int, v * t <= 0 PROVE v <= 0
        <5>1. v >= 1 => v * t >= t
          BY <3>3
        <5> QED BY <4>1, <5>1, <3>3
      <4>2. (20 * z - 11 * b) * t = 20 * (z * t) - 11 * (b * t)
            /\ (-20 * z - 11 * b) * t = -20 * (z * t) - 11 * (b * t)
        BY <3>3, <3>5, <1>1
      <4>3. z * t \in Int /\ 20 * z - 11 * b \in Int /\ -20 * z - 11 * b \in Int
        BY <3>3, <3>5, <1>1
      <4>4. 20 * z - 11 * b <= 0 /\ -20 * z - 11 * b <= 0
        <5>1. (20 * z - 11 * b) * t <= 0 /\ (-20 * z - 11 * b) * t <= 0
          BY <4>2, <4>3, <3>5, <3>11
        <5> QED BY <5>1, <4>1, <4>3
      <4> QED BY <4>4, <3>5, <1>1
    <3> QED BY <3>1, <3>4, <3>12
  <2> QED BY <2>3, <2>6, <2>7, <2>8, <1>1
<1> QED BY <1>6, <1>7

LEMMA PriceType ==
  ASSUME NEW c \in Catalogs, NEW s \in Selections
  PROVE  unit_price_usd(c, s) \in Nat
<1>1. /\ c.base \in Nat /\ c.delta[s.variant] \in Nat
      /\ s.options \in SUBSET AddOns /\ \A v \in AddOns : c.extra[v] \in Nat
  BY AmountsAssumption DEF Catalogs, Selections
<1>2. IsFiniteSet(AddOns)
  BY AmountsAssumption
<1>3. Sum(c.extra, s.options) \in Nat
  BY <1>1, <1>2, SumType
<1>4. SumFunctionOnSet(c.extra, s.options) \in Nat
  BY <1>3, SumIsTotal
<1> QED BY <1>1, <1>4 DEF unit_price_usd

-----------------------------------------------------------------------------
(* Lines and rows.                                                         *)

(* A line or a row: its subtotal is its unit price as often as ordered.    *)
Consistent(r, d) ==
  /\ r.quantity \in Nat
  /\ \E n, m \in Nat : /\ IsAmount(r.unit, d, n) /\ IsAmount(r.subtotal, d, m)
                      /\ Near(m, n * r.quantity)

IsLine(r) == r = [unit |-> r.unit, quantity |-> r.quantity, subtotal |-> r.subtotal]

minor(x, d) == _crypto_minor_units(x, d)

LEMMA ConsistentMinor ==
  ASSUME NEW r, NEW d \in Nat, Consistent(r, d)
  PROVE  /\ minor(r.unit, d) \in Nat /\ minor(r.subtotal, d) \in Nat
         /\ IsAmount(r.unit, d, minor(r.unit, d))
         /\ IsAmount(r.subtotal, d, minor(r.subtotal, d))
         /\ Near(minor(r.subtotal, d), minor(r.unit, d) * r.quantity)
<1>1. PICK n \in Nat, m \in Nat : /\ IsAmount(r.unit, d, n) /\ IsAmount(r.subtotal, d, m)
                                /\ Near(m, n * r.quantity)
  BY DEF Consistent
<1>2. minor(r.unit, d) = n /\ minor(r.subtotal, d) = m
  BY <1>1, MinorUnits DEF minor
<1> QED BY <1>1, <1>2

LEMMA PricedLine ==
  ASSUME catalog \in Catalogs, NEW s \in Selections, NEW q \in Quantities,
         NEW a \in PaymentAsset, from_product(s, q, a).subtotal # NoAmount
  PROVE  LET item == from_product(s, q, a)
             u == minor(item.unit, a.decimals) * q
             v == q * unit_price_usd(catalog, s)
             b == 100 * a.rate
         IN  /\ Consistent(item, a.decimals)
             /\ item.quantity = q
             /\ 20 * (u * b - v * Ten[a.decimals]) <= (11 * b) * q
             /\ -20 * (u * b - v * Ten[a.decimals]) <= (11 * b) * q
<1> DEFINE d == a.decimals
           b == 100 * a.rate
           cents == unit_price_usd(catalog, s)
           unit == to_crypto(cents, a)
           item == from_product(s, q, a)
<1>1. /\ q \in Nat /\ d \in 0 .. Scale /\ d \in Nat /\ b \in Nat /\ cents \in Nat
      /\ Ten[d] \in Nat
  BY PriceType, TenType, AmountsAssumption DEF PaymentAsset
<1>2. /\ unit # NoAmount /\ item.unit = unit /\ item.quantity = q
      /\ item.subtotal = _multiply_crypto(unit, q)
  BY DEF from_product
<1>3. PICK n \in Nat : /\ unit = [n |-> n, e |-> d]
                       /\ 20 * (n * b - cents * Ten[d]) <= 11 * b
                       /\ -20 * (n * b - cents * Ten[d]) <= 11 * b
  BY <1>1, <1>2, ConvertedPrice
<1>4. IsAmount(unit, d, n)
  BY <1>1, <1>3 DEF IsAmount, Money
<1> HIDE DEF d, b, cents, unit, item
<1>5. PICK m \in Nat : IsAmount(_multiply_crypto(unit, q), d, m) /\ Near(m, n * q)
  BY <1>1, <1>4, MultipliedAmount
<1>6. Consistent(item, d)
  BY <1>1, <1>2, <1>4, <1>5 DEF Consistent
<1>7. minor(item.unit, d) = n
  BY <1>1, <1>2, <1>4, MinorUnits DEF minor
<1> DEFINE y == n * b - cents * Ten[d]
           z == (n * q) * b - (q * cents) * Ten[d]
<1>8. y \in Int /\ z = y * q /\ y * q \in Int
  <2>1. (n * q) * b = (n * b) * q /\ (q * cents) * Ten[d] = (cents * Ten[d]) * q
    BY <1>1
  <2>2. (n * b - cents * Ten[d]) * q = (n * b) * q - (cents * Ten[d]) * q
    BY <1>1
  <2>3. n * b \in Nat /\ cents * Ten[d] \in Nat
    BY <1>1
  <2>4. y \in Int
    BY <2>3
  <2> HIDE DEF y
  <2>5. y * q \in Int
    BY <2>4, <1>1
  <2> QED BY <2>1, <2>2, <2>4, <2>5 DEF y
<1>9. 20 * y <= 11 * b /\ -20 * y <= 11 * b
  BY <1>3
<1> HIDE DEF y, z
<1>10. ASSUME NEW v \in Int, v <= 11 * b PROVE v * q <= (11 * b) * q
  <2>1. 11 * b - v \in Nat /\ (11 * b - v) * q \in Nat
    BY <1>1, <1>10
  <2>2. (11 * b - v) * q = (11 * b) * q - v * q
    BY <1>1
  <2>3. v * q \in Int /\ (11 * b) * q \in Int
    BY <1>1
  <2> QED BY <2>1, <2>2, <2>3
<1>11. 20 * z <= (11 * b) * q /\ -20 * z <= (11 * b) * q
  <2>1. (20 * y) * q <= (11 * b) * q /\ (-20 * y) * q <= (11 * b) * q
    BY <1>8, <1>9, <1>10
  <2>2. (20 * y) * q = 20 * (y * q) /\ (-20 * y) * q = -20 * (y * q)
    BY <1>1, <1>8
  <2> QED BY <2>1, <2>2, <1>8
<1> QED BY <1>2, <1>6, <1>7, <1>11 DEF d, b, cents, item, z

LEMMA MaxIn ==
  ASSUME NEW k \in Nat, NEW I \in SUBSET (1 .. k), I # {}
  PROVE  Max(I) \in I
<1>1. SUFFICES \E x \in I : \A y \in I : x >= y
  BY Zenon DEF Max
<1>2. SUFFICES ASSUME \A x \in I : \E y \in I : y > x PROVE FALSE
  OBVIOUS
<1> DEFINE T == {j \in Nat : \E x \in I : x >= j}
<1>3. 0 \in T
  <2>1. PICK x \in I : TRUE
    OBVIOUS
  <2> QED BY <2>1
<1>4. ASSUME NEW j \in T PROVE j + 1 \in T
  <2>1. PICK x \in I : x >= j
    OBVIOUS
  <2>2. PICK y \in I : y > x
    BY <1>2
  <2>3. y \in Nat /\ x \in Nat /\ j \in Nat /\ y >= j + 1
    BY <2>1, <2>2
  <2> QED BY <2>3
<1> HIDE DEF T
<1>5. T = Nat
  BY <1>3, <1>4, NatSetInduction DEF T
<1>6. k + 1 \in T
  BY <1>5
<1> QED BY <1>6 DEF T

LEMMA RequestType ==
  ASSUME NEW request \in Requests
  PROVE  /\ IsFiniteSet(DOMAIN request)
         /\ \E k \in Nat : DOMAIN request = 1 .. k
         /\ \A i \in DOMAIN request : /\ request[i].selection \in Selections
                                     /\ request[i].quantity \in Quantities
<1>1. PICK k \in 1 .. MaxLines :
        request \in [1 .. k -> [selection : Selections, quantity : Quantities]]
  BY DEF Requests
<1>2. IsFiniteSet(1 .. k)
  BY FS_Interval, AmountsAssumption
<1> QED BY <1>1, <1>2, AmountsAssumption

(* What the rows of an order add up to, in the code's own arithmetic.      *)
LEMMA RowsTotal ==
  ASSUME NEW d \in 0 .. Scale, NEW R, IsFiniteSet(DOMAIN R),
         \A s \in DOMAIN R : Consistent(R[s], d)
  PROVE  \E r \in Nat :
           /\ IsAmount(_total_amount(R), d, r)
           /\ Near(r, Sum([s \in DOMAIN R |-> minor(R[s].subtotal, d)], DOMAIN R))
<1> DEFINE S == DOMAIN R
           f == [s \in S |-> R[s].subtotal]
           m == [s \in S |-> minor(R[s].subtotal, d)]
<1>1. d \in Nat
  BY AmountsAssumption
<1>2. \A s \in S : IsAmount(f[s], d, m[s])
  BY <1>1, ConsistentMinor
<1>3. _total_amount(R) = Total("money", f, S)
  <2>1. FoldFunction(add, Zero, f) = Total("money", f, DOMAIN f)
    BY FoldIsTotal
  <2>2. DOMAIN f = S
    OBVIOUS
  <2> QED BY <2>1, <2>2 DEF _total_amount
<1> HIDE DEF f, m
<1>4. \E r \in Nat : IsAmount(Total("money", f, S), d, r) /\ Near(r, Sum(m, S))
  BY <1>2, TotalAmount
<1> QED BY <1>3, <1>4 DEF m

(* The store's total, from the unit prices, against the subtotals.         *)
LEMMA ApprovedTotal ==
  ASSUME NEW d \in 0 .. Scale, IsFiniteSet(DOMAIN rows),
         \A s \in DOMAIN rows : Consistent(rows[s], d)
  PROVE  \E r \in Nat :
           /\ IsAmount(ApprovalTotal, d, r)
           /\ Near(r, Sum([s \in DOMAIN rows |-> minor(rows[s].subtotal, d)], DOMAIN rows))
<1> DEFINE S == DOMAIN rows
           f == [s \in S |-> _multiply_crypto(rows[s].unit, rows[s].quantity)]
           m == [s \in S |-> minor(f[s], d)]
           p == [s \in S |-> minor(rows[s].subtotal, d)]
<1>1. d \in Nat
  BY AmountsAssumption
<1>2. ASSUME NEW s \in S
      PROVE  /\ IsAmount(f[s], d, m[s]) /\ m[s] \in Nat
             /\ p[s] \in Nat /\ Near(m[s], p[s])
  <2> DEFINE r == rows[s]
  <2>1. /\ minor(r.unit, d) \in Nat /\ minor(r.subtotal, d) \in Nat
        /\ IsAmount(r.unit, d, minor(r.unit, d)) /\ r.quantity \in Nat
        /\ Near(minor(r.subtotal, d), minor(r.unit, d) * r.quantity)
    BY <1>1, ConsistentMinor DEF Consistent
  <2>2. PICK k \in Nat : /\ IsAmount(_multiply_crypto(r.unit, r.quantity), d, k)
                        /\ Near(k, minor(r.unit, d) * r.quantity)
    BY <2>1, MultipliedAmount
  <2>3. IsAmount(f[s], d, k)
    BY <2>2
  <2>4. m[s] = k
    BY <2>3, <1>1, MinorUnits DEF minor
  <2>5. p[s] = minor(r.subtotal, d)
    OBVIOUS
  <2> QED BY <2>1, <2>2, <2>3, <2>4, <2>5 DEF Near
<1>3. ApprovalTotal = Total("money", f, S)
  <2>1. FoldFunction(add, Zero, f) = Total("money", f, DOMAIN f)
    BY FoldIsTotal
  <2>2. DOMAIN f = S
    OBVIOUS
  <2> QED BY <2>1, <2>2 DEF ApprovalTotal
<1> HIDE DEF f, m, p
<1>4. PICK r \in Nat : IsAmount(Total("money", f, S), d, r) /\ Near(r, Sum(m, S))
  BY <1>2, TotalAmount
<1>5. Near(Sum(m, S), Sum(p, S))
  BY <1>2, SumNear
<1>6. Near(r, Sum(p, S))
  BY <1>4, <1>5 DEF Near
<1> QED BY <1>3, <1>4, <1>6 DEF p

(* The rows of a new order.                                                *)
LEMMA UpsertedRows ==
  ASSUME NEW request \in Requests, NEW d \in 0 .. Scale, NEW items,
         DOMAIN items = DOMAIN request,
         \A i \in DOMAIN items : IsLine(items[i]) /\ Consistent(items[i], d),
         NEW R, R = Upserted(request, items)
  PROVE  /\ IsFiniteSet(DOMAIN R)
         /\ \A s \in DOMAIN R : Consistent(R[s], d)
         /\ (\A i, j \in DOMAIN request :
                request[i].selection = request[j].selection => i = j)
            => Sum([s \in DOMAIN R |-> minor(R[s].subtotal, d)], DOMAIN R)
                 = Sum([i \in DOMAIN items |-> minor(items[i].subtotal, d)], DOMAIN items)
<1> DEFINE D == DOMAIN request
           name == [i \in D |-> request[i].selection]
           N == {name[i] : i \in D}
           Lines(s) == {i \in D : request[i].selection = s}
           item(s) == items[Max(Lines(s))]
           stored(r) == [r EXCEPT !.unit = _crypto_params(@), !.subtotal = _crypto_params(@)]
<1>1. IsFiniteSet(D) /\ d \in Nat
  BY RequestType, AmountsAssumption
<1>2. PICK k \in Nat : D = 1 .. k
  BY RequestType
<1>3. N = {request[i].selection : i \in D}
  OBVIOUS
<1>4. R = [s \in N |-> stored(item(s))]
  BY <1>3 DEF Upserted
<1>5. IsFiniteSet(N)
  <2>1. name \in Surjection(D, N)
    BY DEF Surjection
  <2> QED BY <2>1, <1>1, FS_Surjection
<1>6. ASSUME NEW s \in N PROVE Max(Lines(s)) \in Lines(s)
  <2>1. Lines(s) \in SUBSET (1 .. k) /\ Lines(s) # {}
    BY <1>2
  <2> HIDE DEF Lines
  <2> QED BY <2>1, MaxIn
<1>7. ASSUME NEW r, IsLine(r), Consistent(r, d)
      PROVE  Consistent(stored(r), d) /\ minor(stored(r).subtotal, d) = minor(r.subtotal, d)
  <2>1. /\ stored(r).unit = _crypto_params(r.unit)
        /\ stored(r).subtotal = _crypto_params(r.subtotal)
        /\ stored(r).quantity = r.quantity
    BY <1>7 DEF IsLine
  <2> HIDE DEF stored
  <2>2. PICK n \in Nat, m \in Nat : /\ IsAmount(r.unit, d, n) /\ IsAmount(r.subtotal, d, m)
                                  /\ Near(m, n * r.quantity)
    BY <1>7 DEF Consistent
  <2>3. IsAmount(stored(r).unit, d, n) /\ IsAmount(stored(r).subtotal, d, m)
    BY <2>1, <2>2, <1>1, StoredAmount
  <2>4. minor(stored(r).subtotal, d) = m /\ minor(r.subtotal, d) = m
    BY <2>2, <2>3, <1>1, MinorUnits DEF minor
  <2> QED BY <2>1, <2>2, <2>3, <2>4, <1>7 DEF Consistent
<1> HIDE DEF stored
<1>8. \A s \in N : item(s) \in {items[i] : i \in D}
  <2> HIDE DEF N
  <2> QED BY <1>6
<1>9. \A s \in DOMAIN R : Consistent(R[s], d)
  <2> SUFFICES ASSUME NEW s \in N PROVE Consistent(stored(item(s)), d)
    BY <1>4
  <2>1. IsLine(item(s)) /\ Consistent(item(s), d)
    BY <1>8
  <2> HIDE DEF item
  <2> QED BY <2>1, <1>7
<1>10. ASSUME \A i, j \in D : request[i].selection = request[j].selection => i = j
       PROVE  Sum([s \in DOMAIN R |-> minor(R[s].subtotal, d)], DOMAIN R)
                = Sum([i \in DOMAIN items |-> minor(items[i].subtotal, d)], DOMAIN items)
  <2> DEFINE f == [i \in D |-> minor(items[i].subtotal, d)]
             g == [s \in N |-> minor(R[s].subtotal, d)]
  <2>1. ASSUME NEW i \in D PROVE f[i] = g[name[i]] /\ f[i] \in Nat
    <3>1. name[i] \in N /\ Lines(name[i]) = {i}
      BY <1>10
    <3>2. item(name[i]) = items[i]
      <4>1. Max(Lines(name[i])) \in Lines(name[i])
        <5> HIDE DEF Lines, name, N
        <5> QED BY <3>1, <1>6
      <4> HIDE DEF Lines
      <4> QED BY <3>1, <4>1
    <3>3. R[name[i]] = stored(items[i])
      <4> HIDE DEF N, name
      <4> QED BY <3>1, <3>2, <1>4
    <3>4. IsLine(items[i]) /\ Consistent(items[i], d)
      OBVIOUS
    <3>5. minor(items[i].subtotal, d) \in Nat
      BY <3>4, <1>1, ConsistentMinor
    <3>6. minor(stored(items[i]).subtotal, d) = minor(items[i].subtotal, d)
      BY <3>4, <1>7
    <3>7. g[name[i]] = minor(R[name[i]].subtotal, d)
      BY <3>1
    <3> QED BY <3>3, <3>5, <3>6, <3>7
  <2>2. \A i, j \in D : name[i] = name[j] => i = j
    BY <1>10
  <2> HIDE DEF f, g, name
  <2>3. Sum(f, D) = Sum(g, {name[i] : i \in D})
    BY <2>1, <2>2, <1>1, SumReindexed
  <2>4. DOMAIN R = N
    BY <1>4
  <2> QED BY <2>3, <2>4 DEF f, g
<1>11. DOMAIN R = N
  BY <1>4
<1> HIDE DEF N
<1> QED BY <1>5, <1>9, <1>10, <1>11

(* What createOrder writes, for a request that it does not refuse.         *)
LEMMA CreatedOrder ==
  ASSUME catalog \in Catalogs, NEW request \in Requests, NEW a \in PaymentAsset,
         NEW items, items = Items(request, a),
         \A i \in DOMAIN items : items[i].subtotal # NoAmount
  PROVE  LET D      == DOMAIN request
             d      == a.decimals
             total  == _total_amount(items)
             asked  == _crypto_minor_units(total, d)
             quoted == Sum([i \in D |-> request[i].quantity
                                          * unit_price_usd(catalog, request[i].selection)], D)
             units  == Sum([i \in D |-> request[i].quantity], D)
             off    == asked * (100 * a.rate) - quoted * Ten[d]
         IN  /\ DOMAIN items = D
             /\ \A i \in D : IsLine(items[i]) /\ Consistent(items[i], d)
             /\ IsAmount(total, d, asked)
             /\ Near(asked, Sum([i \in D |-> minor(items[i].subtotal, d)], D))
             /\ asked < Ten[Precision] =>
                  /\ 20 * off <= (11 * (100 * a.rate)) * units
                  /\ -20 * off <= (11 * (100 * a.rate)) * units
             /\ quoted \in Nat /\ units \in Nat
<1> DEFINE D     == DOMAIN request
           d     == a.decimals
           b     == 100 * a.rate
           total == _total_amount(items)
           asked == _crypto_minor_units(total, d)
           q     == [i \in D |-> request[i].quantity]
           v     == [i \in D |-> request[i].quantity
                                   * unit_price_usd(catalog, request[i].selection)]
           m     == [i \in D |-> minor(items[i].subtotal, d)]
           u     == [i \in D |-> minor(items[i].unit, d) * request[i].quantity]
<1>1. IsFiniteSet(D) /\ d \in Nat /\ d \in 0 .. Scale /\ b \in Nat /\ Ten[d] \in Nat
  BY RequestType, TenType, AmountsAssumption DEF PaymentAsset
<1>2. /\ DOMAIN items = D
      /\ \A i \in D : items[i] = from_product(request[i].selection, request[i].quantity, a)
  BY DEF Items
<1>3. \A i \in D : IsLine(items[i])
  <2>1. \A t, k : IsLine(from_product(t, k, a))
    BY DEF IsLine, from_product
  <2> QED BY <1>2, <2>1
<1>4. ASSUME NEW i \in D
      PROVE  /\ Consistent(items[i], d)
             /\ v[i] \in Nat /\ q[i] \in Nat
             /\ m[i] \in Nat /\ u[i] \in Nat /\ Near(m[i], u[i])
             /\ 20 * (u[i] * b - v[i] * Ten[d]) <= (11 * b) * q[i]
             /\ -20 * (u[i] * b - v[i] * Ten[d]) <= (11 * b) * q[i]
  <2> DEFINE s == request[i].selection
             k == request[i].quantity
  <2>1. s \in Selections /\ k \in Quantities /\ k \in Nat
    BY RequestType, AmountsAssumption
  <2>2. items[i] = from_product(s, k, a) /\ from_product(s, k, a).subtotal # NoAmount
    BY <1>2
  <2> HIDE DEF s, k
  <2>3. /\ Consistent(items[i], d)
        /\ items[i].quantity = k
        /\ 20 * ((minor(items[i].unit, d) * k) * b
                   - (k * unit_price_usd(catalog, s)) * Ten[d]) <= (11 * b) * k
        /\ -20 * ((minor(items[i].unit, d) * k) * b
                   - (k * unit_price_usd(catalog, s)) * Ten[d]) <= (11 * b) * k
    BY <2>1, <2>2, PricedLine
  <2>4. /\ q[i] = k /\ v[i] = k * unit_price_usd(catalog, s)
        /\ u[i] = minor(items[i].unit, d) * k /\ m[i] = minor(items[i].subtotal, d)
    BY DEF s, k
  <2>5. unit_price_usd(catalog, s) \in Nat
    BY <2>1, PriceType
  <2>6. /\ minor(items[i].unit, d) \in Nat /\ minor(items[i].subtotal, d) \in Nat
        /\ Near(minor(items[i].subtotal, d), minor(items[i].unit, d) * k)
    BY <2>3, <1>1, ConsistentMinor
  <2>7. k * unit_price_usd(catalog, s) \in Nat /\ minor(items[i].unit, d) * k \in Nat
    BY <2>1, <2>5, <2>6
  <2> HIDE DEF q, v, u, m, b, d
  <2> QED BY <2>1, <2>3, <2>4, <2>6, <2>7
<1>5. PICK r \in Nat : IsAmount(total, d, r) /\ Near(r, Sum(m, D))
  <2>1. \A i \in DOMAIN items : Consistent(items[i], d)
    BY <1>2, <1>4
  <2>2. \E r \in Nat :
           /\ IsAmount(_total_amount(items), d, r)
           /\ Near(r, Sum([i \in DOMAIN items |-> minor(items[i].subtotal, d)], DOMAIN items))
    BY <2>1, <1>1, <1>2, RowsTotal
  <2> QED BY <2>2, <1>2
<1>6. asked = r
  BY <1>1, <1>5, MinorUnits
<1>7. Sum(m, D) \in Nat /\ Sum(u, D) \in Nat /\ Sum(v, D) \in Nat /\ Sum(q, D) \in Nat
  BY <1>1, <1>4, SumType
<1>8. Near(Sum(m, D), Sum(u, D))
  BY <1>1, <1>4, SumNear
<1>9. /\ 20 * (Sum(u, D) * b - Sum(v, D) * Ten[d]) <= (11 * b) * Sum(q, D)
      /\ -20 * (Sum(u, D) * b - Sum(v, D) * Ten[d]) <= (11 * b) * Sum(q, D)
  <2> DEFINE c == 11 * b
  <2>1. c \in Nat
    BY <1>1
  <2> HIDE DEF c, b, q, v, u, m
  <2>2. \A i \in D : /\ u[i] \in Nat /\ v[i] \in Nat /\ q[i] \in Nat
                     /\ 20 * (u[i] * b - v[i] * Ten[d]) <= c * q[i]
                     /\ -20 * (u[i] * b - v[i] * Ten[d]) <= c * q[i]
    BY <1>4 DEF c
  <2>3. /\ 20 * (Sum(u, D) * b - Sum(v, D) * Ten[d]) <= c * Sum(q, D)
        /\ -20 * (Sum(u, D) * b - Sum(v, D) * Ten[d]) <= c * Sum(q, D)
    BY <2>1, <2>2, <1>1, SumOfDifferences
  <2> QED BY <2>3 DEF c
<1>10. asked < Ten[Precision] => asked = Sum(u, D)
  BY <1>5, <1>6, <1>7, <1>8, TenType, AmountsAssumption DEF Near
<1> HIDE DEF u
<1> QED BY <1>2, <1>3, <1>4, <1>5, <1>6, <1>7, <1>9, <1>10

-----------------------------------------------------------------------------
(* The invariant: every amount of an order is a whole number of minor      *)
(* units, near the sum of its rows.                                        *)

RowSum == Sum([s \in DOMAIN rows |-> minor(rows[s].subtotal, asset.decimals)], DOMAIN rows)

NearAsked(x) ==
  \E r \in Nat : IsAmount(x, asset.decimals, r) /\ Near(r, payment.asked)

TypeOK ==
  /\ catalog \in Catalogs
  /\ payment \in [status : {"NONE", "AWAITING_SIGNATURE", "SUBMITTED", "FAILED",
                             "CONFIRMED", "REFUNDED"},
                   amount : {payment.amount}, expected : Nat, asked : Nat]
  /\ order \in [placed : {order.placed}, total : {order.total}, quoted : Nat]
  /\ paid \in Nat

Placed ==
  /\ asset \in PaymentAsset
  /\ payment.expected = payment.asked
  /\ IsAmount(payment.amount, asset.decimals, payment.asked)
  /\ IsFiniteSet(DOMAIN rows)
  /\ \A s \in DOMAIN rows : Consistent(rows[s], asset.decimals)
  /\ DistinctLines =>
       /\ Near(payment.asked, RowSum)
       /\ NearAsked(order.total)
       /\ approval # NoAmount => NearAsked(approval)
  /\ payment.status = "REFUNDED" => refunded = payment.asked
  /\ payment.status \in {"CONFIRMED", "REFUNDED"} /\ asset.token => paid >= payment.expected

IInv ==
  /\ TypeOK
  /\ payment.status = "NONE" => rows = <<>> /\ approval = NoAmount
  /\ payment.status # "NONE" => Placed
  /\ FairPrice

LEMMA InitAmounts == AmountsInit => IInv
<1> SUFFICES ASSUME AmountsInit PROVE IInv
  OBVIOUS
<1>1. TypeOK
  BY DEF AmountsInit, TypeOK, NoPayment
<1>2. payment.status = "NONE" /\ rows = <<>> /\ approval = NoAmount
  BY DEF AmountsInit, NoPayment
<1> QED BY <1>1, <1>2 DEF IInv, FairPrice

LEMMA CreateOrderStep ==
  ASSUME IInv, NEW request \in Requests, NEW a \in PaymentAssetRegistry,
         createOrder(request, a)
  PROVE  IInv'
<1> DEFINE items == Items(request, a)
           D     == DOMAIN request
           d     == a.decimals
           total == _total_amount(items)
           asked == _crypto_minor_units(total, d)
           q     == [i \in D |-> request[i].quantity]
           v     == [i \in D |-> request[i].quantity
                                   * unit_price_usd(catalog, request[i].selection)]
           off   == asked * (100 * a.rate) - Sum(v, D) * Ten[d]
<1>1. /\ catalog \in Catalogs /\ catalog' = catalog /\ a \in PaymentAsset
      /\ d \in Nat /\ d \in 0 .. Scale
      /\ \A i \in DOMAIN items : items[i].subtotal # NoAmount
      /\ paid \in Nat /\ paid' = paid /\ approval' = approval /\ approval = NoAmount
      /\ asset' = a /\ rows' = Upserted(request, items)
  BY AmountsAssumption DEF createOrder, IInv, TypeOK, PaymentAssetRegistry, PaymentAsset
<1>2. /\ payment' = [status |-> "AWAITING_SIGNATURE", amount |-> _crypto_params(total),
                     expected |-> asked, asked |-> asked]
      /\ order' = [placed |-> request, total |-> _crypto_params(total),
                   quoted |-> SumFunction(v)]
  BY DEF createOrder, initiate_payment
<1>3. /\ DOMAIN items = D
      /\ \A i \in DOMAIN items : IsLine(items[i]) /\ Consistent(items[i], d)
      /\ IsAmount(total, d, asked)
      /\ Near(asked, Sum([i \in D |-> minor(items[i].subtotal, d)], D))
      /\ asked < Ten[Precision] =>
           /\ 20 * off <= (11 * (100 * a.rate)) * Sum(q, D)
           /\ -20 * off <= (11 * (100 * a.rate)) * Sum(q, D)
      /\ Sum(v, D) \in Nat /\ Sum(q, D) \in Nat
  <2> HIDE DEF items
  <2>1. items = Items(request, a)
    BY DEF items
  <2> QED BY <1>1, <2>1, CreatedOrder
<1>4. SumFunction(v) = Sum(v, D) /\ SumFunction(q) = Sum(q, D)
  <2>1. DOMAIN v = D /\ DOMAIN q = D
    OBVIOUS
  <2> HIDE DEF v, q
  <2> QED BY <2>1, SumIsTotal DEF SumFunction
<1> HIDE DEF items, total, asked, v, q
<1>5. IsAmount(_crypto_params(total), d, asked) /\ asked \in Nat
  BY <1>1, <1>3, StoredAmount DEF IsAmount
<1>6. TypeOK'
  BY <1>1, <1>2, <1>3, <1>4, <1>5 DEF TypeOK
<1>7. Placed'
  <2>1. /\ IsFiniteSet(DOMAIN rows')
        /\ \A s \in DOMAIN rows' : Consistent(rows'[s], d)
        /\ (\A i, j \in D : request[i].selection = request[j].selection => i = j)
           => Sum([s \in DOMAIN rows' |-> minor(rows'[s].subtotal, d)], DOMAIN rows')
                = Sum([i \in DOMAIN items |-> minor(items[i].subtotal, d)], DOMAIN items)
    BY <1>1, <1>3, UpsertedRows
  <2>2. /\ payment'.expected = payment'.asked /\ payment'.asked = asked
        /\ payment'.status = "AWAITING_SIGNATURE"
        /\ IsAmount(payment'.amount, asset'.decimals, payment'.asked)
    BY <1>1, <1>2, <1>5
  <2>3. DistinctLines' => Near(payment'.asked, RowSum')
    BY <1>1, <1>2, <1>3, <2>1, <2>2 DEF DistinctLines, RowSum
  <2>4. NearAsked(order.total)'
    <3>1. order'.total = _crypto_params(total)
      BY <1>2
    <3> QED BY <3>1, <2>2, <1>1, <1>5 DEF NearAsked, Near
  <2> QED BY <1>1, <2>1, <2>2, <2>3, <2>4 DEF Placed
<1>8. FairPrice'
  <2> DEFINE units == Sum(q, D)
             quoted == Sum(v, D)
             rate == a.rate
  <2>1. SumFunction([i \in DOMAIN order'.placed |-> order'.placed[i].quantity]) = units
    BY <1>2, <1>4 DEF q
  <2>2. order'.quoted = quoted /\ payment'.asked = asked /\ asset' = a
    BY <1>1, <1>2, <1>4
  <2>3. /\ units \in Nat /\ quoted \in Nat /\ rate \in Nat /\ asked \in Nat
        /\ Ten[d] \in Nat
    BY <1>1, <1>3, <1>5, TenType DEF PaymentAsset
  <2>4. asked < Ten[Precision] =>
          /\ 20 * (asked * (100 * rate) - quoted * Ten[d]) <= (11 * (100 * rate)) * units
          /\ -20 * (asked * (100 * rate) - quoted * Ten[d]) <= (11 * (100 * rate)) * units
    BY <1>3
  <2>5. asked * (100 * rate) = asked * 100 * rate
        /\ (11 * (100 * rate)) * units = 11 * 100 * rate * units
    BY <2>3
  <2> HIDE DEF units, quoted, rate
  <2>6. asked < Ten[Precision] =>
          /\ 20 * (asked * 100 * rate - quoted * Ten[d]) <= 11 * 100 * rate * units
          /\ -20 * (asked * 100 * rate - quoted * Ten[d]) <= 11 * 100 * rate * units
    BY <2>4, <2>5
  <2> QED BY <2>1, <2>2, <2>6 DEF FairPrice, rate
<1> QED BY <1>2, <1>6, <1>7, <1>8 DEF IInv

(* What a step that leaves the order's lines, its asset and what was asked *)
(* alone has to keep.                                                      *)
LEMMA Kept ==
  ASSUME IInv, payment.status # "NONE",
         UNCHANGED <<asset, rows>>, UNCHANGED order.placed, UNCHANGED order.quoted,
         UNCHANGED <<payment.amount, payment.expected, payment.asked>>,
         payment'.status # "NONE"
  PROVE  /\ FairPrice'
         /\ asset' \in PaymentAsset
         /\ payment'.expected = payment'.asked
         /\ IsAmount(payment'.amount, asset'.decimals, payment'.asked)
         /\ IsFiniteSet(DOMAIN rows')
         /\ \A s \in DOMAIN rows' : Consistent(rows'[s], asset'.decimals)
         /\ DistinctLines' => DistinctLines /\ Near(payment'.asked, RowSum')
         /\ \A x : NearAsked(x) => NearAsked(x)'
<1>1. DistinctLines' <=> DistinctLines
  BY DEF DistinctLines
<1>2. RowSum' = RowSum
  BY DEF RowSum
<1>3. FairPrice'
  <2>1. FairPrice
    BY DEF IInv
  <2> QED BY <2>1 DEF FairPrice
<1>4. Placed
  BY DEF IInv
<1>5. \A x : NearAsked(x) => NearAsked(x)'
  BY DEF NearAsked
<1> QED BY <1>1, <1>2, <1>3, <1>4, <1>5 DEF Placed

LEMMA UpdateProductStep ==
  ASSUME IInv, NEW c \in Catalogs, updateProduct(c)
  PROVE  IInv'
<1>1. TypeOK'
  BY DEF updateProduct, IInv, TypeOK
<1>2. /\ UNCHANGED <<asset, rows, order, payment, paid, approval, refunded>>
      /\ UNCHANGED payment.status /\ UNCHANGED order.total
  BY DEF updateProduct
<1>3. CASE payment.status # "NONE"
  <2>1. Placed
    BY <1>3 DEF IInv
  <2>2. /\ FairPrice'
        /\ DistinctLines' => DistinctLines
        /\ \A x : NearAsked(x) => NearAsked(x)'
    BY <1>2, <1>3, Kept
  <2>3. Placed'
    <3>1. RowSum' = RowSum /\ (DistinctLines' <=> DistinctLines)
      BY <1>2 DEF RowSum, DistinctLines
    <3>2. (NearAsked(order.total) => NearAsked(order.total)')
          /\ (NearAsked(approval) => NearAsked(approval)')
      BY <1>2 DEF NearAsked
    <3> QED BY <1>2, <2>1, <3>1, <3>2 DEF Placed
  <2> QED BY <1>1, <1>2, <1>3, <2>2, <2>3 DEF IInv
<1>4. CASE payment.status = "NONE"
  BY <1>1, <1>2, <1>4 DEF IInv, FairPrice
<1> QED BY <1>3, <1>4

LEMMA SaveStep ==
  ASSUME IInv, save
  PROVE  IInv'
<1> DEFINE total == _total_amount(rows)
           d == asset.decimals
<1>1. /\ payment.status # "NONE"
      /\ UNCHANGED <<catalog, asset, rows, payment, paid, approval, refunded>>
      /\ order' = [order EXCEPT !.total = _crypto_params(total)]
  BY DEF save, IInv
<1>2. Placed
  BY <1>1 DEF IInv
<1>3. d \in Nat /\ d \in 0 .. Scale
  BY <1>2, AmountsAssumption DEF Placed, PaymentAsset
<1>4. PICK r \in Nat : IsAmount(total, d, r) /\ Near(r, RowSum)
  BY <1>2, <1>3, RowsTotal DEF Placed, RowSum
<1>5. IsAmount(_crypto_params(total), d, r)
  BY <1>3, <1>4, StoredAmount
<1> HIDE DEF total
<1>6. /\ order \in [placed : {order.placed}, total : {order.total}, quoted : Nat]
      /\ UNCHANGED order.placed /\ UNCHANGED order.quoted
      /\ order'.total = _crypto_params(total)
  BY <1>1 DEF IInv, TypeOK
<1>7. TypeOK'
  BY <1>1, <1>6 DEF IInv, TypeOK
<1>8. DistinctLines => NearAsked(order.total)'
  <2> SUFFICES ASSUME DistinctLines PROVE NearAsked(order.total)'
    OBVIOUS
  <2>1. Near(payment.asked, RowSum)
    BY <1>2 DEF Placed
  <2>2. Near(r, payment.asked)
    BY <1>4, <2>1 DEF Near
  <2> QED BY <1>1, <1>5, <1>6, <2>2 DEF NearAsked
<1>9. /\ FairPrice'
      /\ DistinctLines' => DistinctLines /\ Near(payment'.asked, RowSum')
      /\ NearAsked(approval) => NearAsked(approval)'
  <2>1. /\ FairPrice'
        /\ DistinctLines' => DistinctLines /\ Near(payment'.asked, RowSum')
    BY <1>1, <1>6, Kept
  <2>2. NearAsked(approval) => NearAsked(approval)'
    BY <1>1 DEF NearAsked
  <2> QED BY <2>1, <2>2
<1>10. Placed'
  BY <1>1, <1>2, <1>8, <1>9 DEF Placed
<1> QED BY <1>1, <1>7, <1>9, <1>10 DEF IInv

(* A step of the payment that leaves the order and the amounts alone.      *)
LEMMA PaymentStep ==
  ASSUME IInv, payment.status # "NONE", NEW status \in {"SUBMITTED", "FAILED",
             "CONFIRMED", "REFUNDED"},
         payment' = [payment EXCEPT !.status = status],
         UNCHANGED <<catalog, asset, rows, order, approval>>,
         paid' \in Nat,
         status = "REFUNDED" => refunded' = payment.asked,
         status \in {"CONFIRMED", "REFUNDED"} /\ asset.token => paid' >= payment.expected
  PROVE  IInv'
<1>1. /\ payment'.status = status
      /\ UNCHANGED <<payment.amount, payment.expected, payment.asked>>
      /\ TypeOK'
  BY DEF IInv, TypeOK
<1>2. UNCHANGED <<asset, rows>> /\ UNCHANGED order.placed /\ UNCHANGED order.quoted
      /\ payment'.status # "NONE"
  BY <1>1
<1>3. /\ FairPrice'
      /\ asset' \in PaymentAsset
      /\ payment'.expected = payment'.asked
      /\ IsAmount(payment'.amount, asset'.decimals, payment'.asked)
      /\ IsFiniteSet(DOMAIN rows')
      /\ \A s \in DOMAIN rows' : Consistent(rows'[s], asset'.decimals)
      /\ DistinctLines' => DistinctLines /\ Near(payment'.asked, RowSum')
  BY <1>1, <1>2, Kept
<1>4. /\ NearAsked(order.total) => NearAsked(order.total)'
      /\ NearAsked(approval) => NearAsked(approval)'
  BY <1>1 DEF NearAsked
<1>5. DistinctLines' =>
        /\ NearAsked(order.total)'
        /\ approval' # NoAmount => NearAsked(approval)'
  BY <1>3, <1>4 DEF IInv, Placed
<1>6. /\ payment'.status = "REFUNDED" => refunded' = payment'.asked
      /\ payment'.status \in {"CONFIRMED", "REFUNDED"} /\ asset'.token
           => paid' >= payment'.expected
  BY <1>1
<1>7. Placed'
  BY <1>3, <1>5, <1>6 DEF Placed
<1> QED BY <1>1, <1>2, <1>3, <1>7 DEF IInv

LEMMA SubmitStep ==
  ASSUME IInv, NEW v, submit_transaction_hash(v)
  PROVE  IInv'
<1>1. /\ payment.status # "NONE" /\ payment' = [payment EXCEPT !.status = "SUBMITTED"]
      /\ paid' \in Nat /\ UNCHANGED <<catalog, asset, rows, order, approval>>
  BY DEF submit_transaction_hash
<1> QED BY <1>1, PaymentStep

LEMMA ConfirmStep ==
  ASSUME IInv, confirm_payment_receipt
  PROVE  IInv'
<1> DEFINE status == IF Insufficient THEN "FAILED" ELSE "CONFIRMED"
<1>1. /\ payment.status # "NONE" /\ payment' = [payment EXCEPT !.status = status]
      /\ paid' = paid /\ paid \in Nat /\ payment.expected \in Nat
      /\ UNCHANGED <<catalog, asset, rows, order, approval>>
  BY DEF confirm_payment_receipt, IInv, TypeOK
<1>2. status \in {"CONFIRMED", "REFUNDED"} /\ asset.token => paid' >= payment.expected
  BY <1>1 DEF Insufficient
<1>3. status \in {"FAILED", "CONFIRMED"}
  OBVIOUS
<1> HIDE DEF status
<1> QED BY <1>1, <1>2, <1>3, PaymentStep

LEMMA RefundStep ==
  ASSUME IInv, refund_payment
  PROVE  IInv'
<1>1. /\ payment.status = "CONFIRMED" /\ payment' = [payment EXCEPT !.status = "REFUNDED"]
      /\ paid' = paid /\ paid \in Nat
      /\ refunded' = _crypto_minor_units(payment.amount, asset.decimals)
      /\ UNCHANGED <<catalog, asset, rows, order, approval>>
  BY DEF refund_payment, IInv, TypeOK
<1>2. Placed
  BY <1>1 DEF IInv
<1>3. refunded' = payment.asked
  <2>1. asset.decimals \in Nat
    BY <1>2, AmountsAssumption DEF Placed, PaymentAsset
  <2> QED BY <1>1, <1>2, <2>1, MinorUnits DEF Placed
<1>4. asset.token => paid' >= payment.expected
  BY <1>1, <1>2 DEF Placed
<1> QED BY <1>1, <1>3, <1>4, PaymentStep

LEMMA ApprovalStep ==
  ASSUME IInv, request_store_approval
  PROVE  IInv'
<1> DEFINE d == asset.decimals
<1>1. /\ payment.status = "CONFIRMED" /\ payment.status # "NONE"
      /\ approval' = _crypto_params(ApprovalTotal)
      /\ UNCHANGED <<catalog, asset, rows, order, payment, paid, refunded>>
  BY DEF request_store_approval
<1>2. Placed
  BY <1>1 DEF IInv
<1>3. d \in Nat /\ d \in 0 .. Scale
  BY <1>2, AmountsAssumption DEF Placed, PaymentAsset
<1>4. PICK r \in Nat : IsAmount(ApprovalTotal, d, r) /\ Near(r, RowSum)
  BY <1>2, <1>3, ApprovedTotal DEF Placed, RowSum
<1>5. IsAmount(_crypto_params(ApprovalTotal), d, r)
  BY <1>3, <1>4, StoredAmount
<1>6. DistinctLines => NearAsked(approval)'
  <2> SUFFICES ASSUME DistinctLines PROVE NearAsked(approval)'
    OBVIOUS
  <2>1. Near(payment.asked, RowSum)
    BY <1>2 DEF Placed
  <2>2. Near(r, payment.asked)
    BY <1>4, <2>1 DEF Near
  <2> QED BY <1>1, <1>5, <2>2 DEF NearAsked
<1>7. /\ FairPrice'
      /\ DistinctLines' => DistinctLines /\ Near(payment'.asked, RowSum')
  <2>1. UNCHANGED order.placed /\ UNCHANGED order.quoted
        /\ UNCHANGED <<payment.amount, payment.expected, payment.asked>>
        /\ payment'.status # "NONE"
    BY <1>1
  <2> QED BY <1>1, <2>1, Kept
<1>8. NearAsked(order.total) => NearAsked(order.total)'
  BY <1>1 DEF NearAsked
<1>9. Placed'
  BY <1>1, <1>2, <1>6, <1>7, <1>8 DEF Placed
<1>10. TypeOK'
  BY <1>1 DEF IInv, TypeOK
<1> QED BY <1>1, <1>7, <1>9, <1>10 DEF IInv

LEMMA NextAmounts == IInv /\ [AmountsNext]_vars => IInv'
<1> SUFFICES ASSUME IInv, [AmountsNext]_vars PROVE IInv'
  OBVIOUS
<1>1. ASSUME NEW c \in Catalogs, updateProduct(c) PROVE IInv'
  BY <1>1, UpdateProductStep
<1>2. ASSUME NEW r \in Requests, NEW a \in PaymentAssetRegistry, createOrder(r, a) PROVE IInv'
  BY <1>2, CreateOrderStep
<1>3. CASE save
  BY <1>3, SaveStep
<1>4. ASSUME NEW v, submit_transaction_hash(v) PROVE IInv'
  BY <1>4, SubmitStep
<1>5. CASE confirm_payment_receipt
  BY <1>5, ConfirmStep
<1>6. CASE request_store_approval
  BY <1>6, ApprovalStep
<1>7. CASE refund_payment
  BY <1>7, RefundStep
<1>8. CASE UNCHANGED vars
  <2>1. UNCHANGED <<catalog, asset, rows, order, payment, paid, approval, refunded>>
    BY <1>8 DEF vars
  <2>2. TypeOK' /\ FairPrice'
    BY <2>1 DEF IInv, TypeOK, FairPrice
  <2>3. Placed => Placed'
    BY <2>1 DEF Placed, DistinctLines, RowSum, NearAsked
  <2> QED BY <2>1, <2>2, <2>3 DEF IInv
<1> QED BY <1>1, <1>2, <1>3, <1>4, <1>5, <1>6, <1>7, <1>8 DEF AmountsNext

-----------------------------------------------------------------------------
(* What the invariant says of the amounts, state by state.                 *)

(* An amount near what was asked is what was asked, within the context.    *)
LEMMA NearWithin ==
  ASSUME payment.asked \in Nat, payment.asked < Ten[Precision], NEW x, NearAsked(x)
  PROVE  IsAmount(x, asset.decimals, payment.asked)
<1>1. Ten[Precision] \in Nat
  BY TenType, AmountsAssumption
<1> QED BY <1>1 DEF NearAsked, Near

(* The sum of the rows is then what was asked too.                         *)
LEMMA RowsWithin ==
  ASSUME Placed, DistinctLines, payment.asked < Ten[Precision]
  PROVE  IsAmount(_total_amount(rows), asset.decimals, payment.asked)
<1>1. /\ asset.decimals \in 0 .. Scale /\ payment.asked \in Nat
      /\ Near(payment.asked, RowSum)
  BY DEF Placed, PaymentAsset, IsAmount
<1>2. PICK r \in Nat : IsAmount(_total_amount(rows), asset.decimals, r) /\ Near(r, RowSum)
  BY <1>1, RowsTotal DEF Placed, RowSum
<1>3. Ten[Precision] \in Nat
  BY TenType, AmountsAssumption
<1>4. r = payment.asked
  BY <1>1, <1>2, <1>3 DEF Near
<1> QED BY <1>2, <1>4

LEMMA PlacedAgree ==
  ASSUME Placed, DistinctLines, payment.asked < Ten[Precision]
  PROVE  /\ Same(order.total, payment.amount)
         /\ Same(order.total, _total_amount(rows))
         /\ approval # NoAmount => Same(approval, order.total)
         /\ payment.asked = _crypto_minor_units(order.total, asset.decimals)
<1> DEFINE d == asset.decimals
<1>1. d \in Nat /\ payment.asked \in Nat /\ IsAmount(payment.amount, d, payment.asked)
  BY AmountsAssumption DEF Placed, PaymentAsset, IsAmount
<1>2. IsAmount(order.total, d, payment.asked)
  BY <1>1, NearWithin DEF Placed
<1>3. IsAmount(_total_amount(rows), d, payment.asked)
  BY RowsWithin
<1>4. approval # NoAmount => IsAmount(approval, d, payment.asked)
  BY <1>1, NearWithin DEF Placed
<1>5. Same(order.total, payment.amount) /\ Same(order.total, _total_amount(rows))
  BY <1>1, <1>2, <1>3, SameAmount
<1>6. approval # NoAmount => Same(approval, order.total)
  BY <1>1, <1>2, <1>4, SameAmount
<1>7. payment.asked = _crypto_minor_units(order.total, d)
  BY <1>1, <1>2, MinorUnits
<1> QED BY <1>5, <1>6, <1>7

LEMMA AgreeFromIInv == IInv => AmountsAgree
<1> SUFFICES ASSUME IInv, payment.status # "NONE"
             PROVE  /\ payment.asked = payment.expected
                    /\ payment.status = "REFUNDED" => refunded = payment.asked
                    /\ DistinctLines /\ payment.asked < Ten[Precision] =>
                         /\ Same(order.total, payment.amount)
                         /\ Same(order.total, _total_amount(rows))
                         /\ approval # NoAmount => Same(approval, order.total)
                         /\ payment.asked = _crypto_minor_units(order.total, asset.decimals)
  BY DEF AmountsAgree
<1>1. Placed
  BY DEF IInv
<1>2. payment.asked = payment.expected
      /\ (payment.status = "REFUNDED" => refunded = payment.asked)
  BY <1>1 DEF Placed
<1> QED BY <1>1, <1>2, PlacedAgree

LEMMA PaidFromIInv == IInv => PaidInFull
<1> SUFFICES ASSUME IInv, payment.status \in {"CONFIRMED", "REFUNDED"}, asset.token,
                    DistinctLines, payment.asked < Ten[Precision]
             PROVE  paid >= _crypto_minor_units(_total_amount(rows), asset.decimals)
  BY DEF PaidInFull
<1>1. Placed
  BY DEF IInv
<1>2. paid >= payment.asked /\ asset.decimals \in Nat
  BY <1>1, AmountsAssumption DEF Placed, PaymentAsset
<1>3. _crypto_minor_units(_total_amount(rows), asset.decimals) = payment.asked
  BY <1>1, <1>2, RowsWithin, MinorUnits
<1> QED BY <1>2, <1>3

-----------------------------------------------------------------------------
(* The invariant, in every behaviour: the records have their types, every  *)
(* amount of a placed order is a whole number of minor units of the asset, *)
(* and the order's total and the approved total stay near what was asked,  *)
(* through every update of the catalog and every save of the order.        *)
THEOREM AmountsInvariant == AmountsSpec => []IInv
<1>1. AmountsInit => IInv
  BY InitAmounts
<1>2. IInv /\ [AmountsNext]_vars => IInv'
  BY NextAmounts
<1> QED BY <1>1, <1>2, PTL DEF AmountsSpec

(* What the customer is asked to sign, what the receipt is compared with   *)
(* and what is refunded are one amount, whatever the prices, the assets    *)
(* and the number of lines; within the decimal context it is the order's   *)
(* total, the sum of its rows and what the store approves as well.         *)
THEOREM AmountsAlwaysAgree == AmountsSpec => []AmountsAgree
<1>1. IInv => AmountsAgree
  BY AgreeFromIInv
<1> QED BY <1>1, AmountsInvariant, PTL

(* The customer is asked for the dollar quote at the asset's rate, up to   *)
(* 11/20 of a minor unit for each unit ordered.                            *)
THEOREM AlwaysFairPrice == AmountsSpec => []FairPrice
<1>1. IInv => FairPrice
  BY DEF IInv
<1> QED BY <1>1, AmountsInvariant, PTL

(* A token payment that was confirmed brought at least the sum of the      *)
(* order's rows, though the receipt is compared with a copy of the total   *)
(* taken when the order was placed.                                        *)
THEOREM AlwaysPaidInFull == AmountsSpec => []PaidInFull
<1>1. IInv => PaidInFull
  BY PaidFromIInv
<1> QED BY <1>1, AmountsInvariant, PTL
=============================================================================
