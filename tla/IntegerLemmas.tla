--------------------------- MODULE IntegerLemmas ---------------------------
(***************************************************************************)
(* Facts about integers that the proofs of the arithmetic modules share:   *)
(* division, residues, divisors, induction over sets of numbers, recursive *)
(* functions, and sums of finite families.                                 *)
(* The library's induction theorems quantify over a predicate; those here  *)
(* quantify over a set, which is enough to prove what a fold computes.     *)
(***************************************************************************)
EXTENDS Integers, Functions, FiniteSetTheorems, WellFoundedInduction, TLAPS

-----------------------------------------------------------------------------
(* Division.                                                                *)

LEMMA Division ==
  ASSUME NEW x \in Int, NEW m \in Nat, m > 0
  PROVE  /\ x = m * (x \div m) + (x % m)
         /\ x % m \in 0 .. m - 1
         /\ x \div m \in Int
  BY SMT

LEMMA DivisionIsUnique ==
  ASSUME NEW m \in Nat, m > 0, NEW j \in Int, NEW k \in Int,
         NEW v \in 0 .. m - 1, NEW w \in 0 .. m - 1, m * j + v = m * k + w
  PROVE  j = k /\ v = w
<1>1. m * (j - k) = w - v
  OBVIOUS
<1>2. CASE j - k >= 1
  <2>1. m * (j - k) >= m
    BY <1>2
  <2> QED BY <1>1, <2>1
<1>3. CASE j - k <= -1
  <2>1. m * (j - k) <= - m
    BY <1>3
  <2> QED BY <1>1, <2>1
<1>4. CASE j = k
  BY <1>4
<1> QED BY <1>2, <1>3, <1>4

LEMMA QuotientIs ==
  ASSUME NEW m \in Nat, m > 0, NEW j \in Int, NEW v \in 0 .. m - 1
  PROVE  (m * j + v) \div m = j /\ (m * j + v) % m = v
<1>1. m * j + v \in Int
  OBVIOUS
<1> DEFINE x == m * j + v
<1>2. /\ x = m * (x \div m) + (x % m)
      /\ x % m \in 0 .. m - 1
      /\ x \div m \in Int
  BY <1>1, Division
<1> QED BY <1>2, DivisionIsUnique

-----------------------------------------------------------------------------
(* Induction.                                                               *)

LEMMA LeastElement ==
  ASSUME NEW S, S \subseteq Nat, S # {}
  PROVE  \E n \in S : \A k \in S : n <= k
<1>1. PICK n \in S : \A k \in S : <<k, n>> \notin OpToRel(<, Nat)
  BY NatLessThanWellFounded, WFMin
<1>2. ASSUME NEW k \in S PROVE n <= k
  <2>1. ~ (k < n)
    BY <1>1 DEF OpToRel
  <2> QED BY <2>1
<1> QED BY <1>2

LEMMA Induction ==
  ASSUME NEW S, 0 \in S, \A n \in Nat : n \in S => n + 1 \in S
  PROVE  Nat \subseteq S
<1> SUFFICES ASSUME Nat \ S # {} PROVE FALSE
  OBVIOUS
<1>1. PICK n \in Nat \ S : \A k \in Nat \ S : n <= k
  BY LeastElement
<1>2. n # 0 /\ n - 1 \in Nat
  BY <1>1
<1>3. n - 1 \in S
  BY <1>1, <1>2
<1>4. (n - 1) + 1 \in S
  BY <1>2, <1>3, Zenon
<1>5. (n - 1) + 1 = n
  BY <1>1
<1> QED BY <1>1, <1>4, <1>5

\* Sets are taken apart in the order in which a fold does it.
One(s) == CHOOSE x \in s : TRUE
Rest(s) == s \ {One(s)}

LEMMA RestIsSmaller ==
  ASSUME NEW D, IsFiniteSet(D), NEW s \in SUBSET D, s # {}
  PROVE  /\ One(s) \in s /\ One(s) \in D /\ Rest(s) \in SUBSET D
         /\ Cardinality(s) \in Nat /\ Cardinality(Rest(s)) = Cardinality(s) - 1
         /\ Cardinality(s) >= 1
<1>1. One(s) \in s
  BY DEF One
<1>2. IsFiniteSet(s)
  BY FS_Subset
<1>3. Cardinality(Rest(s)) = Cardinality(s) - 1
  BY <1>1, <1>2, FS_RemoveElement DEF Rest
<1>4. Cardinality(s) \in Nat /\ Cardinality(s) # 0
  BY <1>2, FS_CardinalityType, FS_EmptySet
<1> QED BY <1>1, <1>3, <1>4 DEF Rest

LEMMA SubsetInduction ==
  ASSUME NEW D, IsFiniteSet(D), NEW B,
         {} \in B,
         \A s \in SUBSET D : s # {} /\ Rest(s) \in B => s \in B
  PROVE  SUBSET D \subseteq B
<1> SUFFICES ASSUME NEW t \in SUBSET D, t \notin B PROVE FALSE
  OBVIOUS
<1> DEFINE S == {n \in Nat : \E s \in SUBSET D : s \notin B /\ Cardinality(s) = n}
<1>1. Cardinality(t) \in S
  <2>1. IsFiniteSet(t)
    BY FS_Subset
  <2> QED BY <2>1, FS_CardinalityType
<1>2. PICK n \in S : \A k \in S : n <= k
  <2>1. S \subseteq Nat /\ S # {}
    BY <1>1
  <2> HIDE DEF S
  <2> QED BY <2>1, LeastElement
<1>3. PICK s \in SUBSET D : s \notin B /\ Cardinality(s) = n
  BY <1>2
<1>4. s # {}
  BY <1>3
<1>5. /\ Rest(s) \in SUBSET D
      /\ Cardinality(s) \in Nat /\ Cardinality(Rest(s)) = Cardinality(s) - 1
      /\ Cardinality(s) >= 1
  BY <1>4, RestIsSmaller
<1>6. Rest(s) \notin B
  BY <1>3, <1>4
<1>7. Cardinality(Rest(s)) \in S
  BY <1>5, <1>6
<1> QED BY <1>2, <1>3, <1>5, <1>7

-----------------------------------------------------------------------------
(* Sums.                                                                    *)

Total(f) == FoldFunction(+, 0, f)

IsPartialSum(f, D, g) ==
  g = [s \in SUBSET D |-> IF s = {} THEN 0 ELSE f[One(s)] + g[Rest(s)]]

LEMMA TotalIsChosen ==
  ASSUME NEW f
  PROVE  Total(f) = (CHOOSE g : IsPartialSum(f, DOMAIN f, g))[DOMAIN f]
  BY Zenon DEF Total, FoldFunction, FoldFunctionOnSet, MapThenFoldSet, IsPartialSum, One, Rest

LEMMA PartialSumExists ==
  ASSUME NEW D, IsFiniteSet(D), NEW f
  PROVE  \E g : IsPartialSum(f, D, g)
<1> DEFINE Small(n) == {s \in SUBSET D : Cardinality(s) <= n}
           S == {n \in Nat : \E g : g = [s \in Small(n) |->
                                IF s = {} THEN 0 ELSE f[One(s)] + g[Rest(s)]]}
<1>1. 0 \in S
  <2> DEFINE g == [s \in Small(0) |-> 0]
  <2>1. ASSUME NEW s \in Small(0) PROVE s = {}
    <3>1. IsFiniteSet(s)
      BY FS_Subset
    <3> QED BY <3>1, FS_CardinalityType, FS_EmptySet
  <2>2. g = [s \in Small(0) |-> IF s = {} THEN 0 ELSE f[One(s)] + g[Rest(s)]]
    BY <2>1
  <2> QED BY <2>2
<1>2. ASSUME NEW n \in Nat, n \in S PROVE n + 1 \in S
  <2>1. PICK g : g = [s \in Small(n) |-> IF s = {} THEN 0 ELSE f[One(s)] + g[Rest(s)]]
    BY <1>2
  <2> DEFINE h == [s \in Small(n + 1) |-> IF s = {} THEN 0 ELSE f[One(s)] + g[Rest(s)]]
  <2>2. ASSUME NEW s \in Small(n) PROVE h[s] = g[s]
    <3>1. s \in SUBSET D /\ Cardinality(s) \in Nat
      BY FS_Subset, FS_CardinalityType
    <3>2. s \in Small(n + 1)
      BY <3>1
    <3>3. g[s] = IF s = {} THEN 0 ELSE f[One(s)] + g[Rest(s)]
      BY <2>1, Zenon
    <3> QED BY <3>2, <3>3, Zenon
  <2>3. ASSUME NEW s \in Small(n + 1), s # {} PROVE Rest(s) \in Small(n)
    BY <2>3, RestIsSmaller
  <2>4. ASSUME NEW s \in Small(n + 1)
        PROVE  (IF s = {} THEN 0 ELSE f[One(s)] + g[Rest(s)])
                 = (IF s = {} THEN 0 ELSE f[One(s)] + h[Rest(s)])
    <3> HIDE DEF h, Small
    <3> QED BY <2>2, <2>3, Zenon
  <2>5. h = [s \in Small(n + 1) |-> IF s = {} THEN 0 ELSE f[One(s)] + h[Rest(s)]]
    BY <2>4, Zenon
  <2>6. \E x : x = [s \in Small(n + 1) |-> IF s = {} THEN 0 ELSE f[One(s)] + x[Rest(s)]]
    <3> HIDE DEF h
    <3> QED BY <2>5
  <2>7. n + 1 \in Nat
    OBVIOUS
  <2> HIDE DEF h, Small
  <2> QED BY <2>6, <2>7, Zenon
<1>3. Nat \subseteq S
  <2> HIDE DEF S
  <2> QED BY <1>1, <1>2, Induction
<1>4. Cardinality(D) \in Nat
  BY FS_CardinalityType
<1>5. PICK g : g = [s \in Small(Cardinality(D)) |->
                      IF s = {} THEN 0 ELSE f[One(s)] + g[Rest(s)]]
  BY <1>3, <1>4
<1>6. Small(Cardinality(D)) = SUBSET D
  BY FS_Subset
<1>7. IsPartialSum(f, D, g)
  <2> HIDE DEF Small
  <2> QED BY <1>5, <1>6, Zenon DEF IsPartialSum
<1> QED BY <1>7

LEMMA TotalIsPartialSum ==
  ASSUME NEW f, IsFiniteSet(DOMAIN f)
  PROVE  \E g : IsPartialSum(f, DOMAIN f, g) /\ Total(f) = g[DOMAIN f]
<1>1. IsPartialSum(f, DOMAIN f, CHOOSE g : IsPartialSum(f, DOMAIN f, g))
  BY PartialSumExists, Zenon
<1> QED BY <1>1, TotalIsChosen, Zenon

\* What a partial sum is, for integers: the value of no elements, and of one
\* more.
LEMMA PartialSumSteps ==
  ASSUME NEW D, IsFiniteSet(D), NEW f, NEW g, IsPartialSum(f, D, g)
  PROVE  /\ g[{}] = 0
         /\ \A s \in SUBSET D : s # {} => g[s] = f[One(s)] + g[Rest(s)]
<1>1. \A s \in SUBSET D : g[s] = IF s = {} THEN 0 ELSE f[One(s)] + g[Rest(s)]
  BY Zenon DEF IsPartialSum
<1> QED BY <1>1

LEMMA TotalIsInt ==
  ASSUME NEW D, IsFiniteSet(D), NEW f \in [D -> Int]
  PROVE  Total(f) \in Int
<1>1. PICK g : IsPartialSum(f, D, g) /\ Total(f) = g[D]
  BY TotalIsPartialSum
<1> DEFINE B == {s \in SUBSET D : g[s] \in Int}
<1>2. {} \in B
  BY <1>1, PartialSumSteps
<1>3. ASSUME NEW s \in SUBSET D, s # {}, Rest(s) \in B PROVE s \in B
  BY <1>1, <1>3, PartialSumSteps, RestIsSmaller
<1>4. SUBSET D \subseteq B
  <2> HIDE DEF B
  <2> QED BY <1>2, <1>3, SubsetInduction
<1> QED BY <1>1, <1>4

\* The total of a * f + b * g
IsCombination(D, h, a, f, b, g) == \A i \in D : h[i] = a * f[i] + b * g[i]

LEMMA TotalIsLinear ==
  ASSUME NEW D, IsFiniteSet(D), NEW f \in [D -> Int], NEW g \in [D -> Int],
         NEW h \in [D -> Int], NEW a \in Int, NEW b \in Int,
         IsCombination(D, h, a, f, b, g)
  PROVE  Total(h) = a * Total(f) + b * Total(g)
<1>1. PICK F : IsPartialSum(f, D, F) /\ Total(f) = F[D]
  BY TotalIsPartialSum
<1>2. PICK G : IsPartialSum(g, D, G) /\ Total(g) = G[D]
  BY TotalIsPartialSum
<1>3. PICK H : IsPartialSum(h, D, H) /\ Total(h) = H[D]
  BY TotalIsPartialSum
<1> DEFINE B == {s \in SUBSET D : F[s] \in Int /\ G[s] \in Int /\ H[s] = a * F[s] + b * G[s]}
<1>4. {} \in B
  BY <1>1, <1>2, <1>3, PartialSumSteps
<1>5. ASSUME NEW s \in SUBSET D, s # {}, Rest(s) \in B PROVE s \in B
  <2> DEFINE i == One(s)
             r == Rest(s)
  <2>1. i \in D
    BY <1>5, RestIsSmaller
  <2>2. F[s] = f[i] + F[r] /\ G[s] = g[i] + G[r] /\ H[s] = h[i] + H[r]
    BY <1>1, <1>2, <1>3, <1>5, PartialSumSteps
  <2>3. F[r] \in Int /\ G[r] \in Int /\ H[r] = a * F[r] + b * G[r]
    BY <1>5
  <2>4. f[i] \in Int /\ g[i] \in Int /\ h[i] = a * f[i] + b * g[i]
    BY <2>1 DEF IsCombination
  <2> HIDE DEF i, r
  <2> QED BY <2>2, <2>3, <2>4
<1>6. SUBSET D \subseteq B
  <2> HIDE DEF B
  <2> QED BY <1>4, <1>5, SubsetInduction
<1> QED BY <1>1, <1>2, <1>3, <1>6

\* A total of terms within c is within c times their number.
LEMMA TotalIsBounded ==
  ASSUME NEW D, IsFiniteSet(D), NEW f \in [D -> Int], NEW c \in Nat,
         \A i \in D : - c <= f[i] /\ f[i] <= c
  PROVE  - (c * Cardinality(D)) <= Total(f) /\ Total(f) <= c * Cardinality(D)
<1>1. PICK g : IsPartialSum(f, D, g) /\ Total(f) = g[D]
  BY TotalIsPartialSum
<1> DEFINE B == {s \in SUBSET D : /\ g[s] \in Int
                                  /\ - (c * Cardinality(s)) <= g[s]
                                  /\ g[s] <= c * Cardinality(s)}
<1>2. {} \in B
  BY <1>1, PartialSumSteps, FS_EmptySet
<1>3. ASSUME NEW s \in SUBSET D, s # {}, Rest(s) \in B PROVE s \in B
  <2>1. One(s) \in D /\ Cardinality(s) \in Nat /\ Cardinality(Rest(s)) = Cardinality(s) - 1
    BY <1>3, RestIsSmaller
  <2>2. g[s] = f[One(s)] + g[Rest(s)]
    BY <1>1, <1>3, PartialSumSteps
  <2>3. f[One(s)] \in Int /\ - c <= f[One(s)] /\ f[One(s)] <= c
    BY <2>1
  <2>4. c * Cardinality(Rest(s)) = c * Cardinality(s) - c
    BY <2>1
  <2> QED BY <1>3, <2>1, <2>2, <2>3, <2>4
<1>4. SUBSET D \subseteq B
  <2> HIDE DEF B
  <2> QED BY <1>2, <1>3, SubsetInduction
<1> QED BY <1>1, <1>4

\* A total of which at most one term is not zero
LEMMA TotalOfOne ==
  ASSUME NEW D, IsFiniteSet(D), NEW f \in [D -> Int], NEW z \in D,
         \A i \in D : i # z => f[i] = 0
  PROVE  Total(f) = f[z]
<1>1. PICK g : IsPartialSum(f, D, g) /\ Total(f) = g[D]
  BY TotalIsPartialSum
<1> DEFINE B == {s \in SUBSET D : g[s] = IF z \in s THEN f[z] ELSE 0}
<1>2. {} \in B
  BY <1>1, PartialSumSteps
<1>3. ASSUME NEW s \in SUBSET D, s # {}, Rest(s) \in B PROVE s \in B
  <2>1. One(s) \in s /\ One(s) \in D
    BY <1>3, RestIsSmaller
  <2>2. g[s] = f[One(s)] + g[Rest(s)]
    BY <1>1, <1>3, PartialSumSteps
  <2>3. CASE One(s) = z
    BY <1>3, <2>1, <2>2, <2>3 DEF Rest
  <2>4. CASE One(s) # z
    BY <1>3, <2>1, <2>2, <2>4 DEF Rest
  <2> QED BY <2>3, <2>4
<1>4. SUBSET D \subseteq B
  <2> HIDE DEF B
  <2> QED BY <1>2, <1>3, SubsetInduction
<1> QED BY <1>1, <1>4

-----------------------------------------------------------------------------
(* Induction over an interval, and iteration.                               *)

LEMMA RangeInduction ==
  ASSUME NEW n \in Nat, NEW S, 0 \in S, \A k \in 1 .. n : k - 1 \in S => k \in S
  PROVE  0 .. n \subseteq S
<1> DEFINE I == {k \in Nat : k <= n => k \in S}
<1>1. 0 \in I
  OBVIOUS
<1>2. ASSUME NEW k \in Nat, k \in I PROVE k + 1 \in I
  <2> SUFFICES ASSUME k + 1 <= n PROVE k + 1 \in S
    OBVIOUS
  <2>1. k \in S /\ k + 1 \in 1 .. n /\ (k + 1) - 1 = k
    BY <1>2
  <2> QED BY <2>1
<1>3. Nat \subseteq I
  <2> HIDE DEF I
  <2> QED BY <1>1, <1>2, Induction
<1> QED BY <1>3

\* A function that is given by its first value and its steps exists.
IsIteration(f, n, a, step) ==
  f = [k \in 0 .. n |-> IF k = 0 THEN a ELSE step[k][f[k - 1]]]

LEMMA IterationExists ==
  ASSUME NEW n \in Nat, NEW S, NEW a \in S, NEW step,
         \A k \in 1 .. n : \A x \in S : step[k][x] \in S
  PROVE  \E f \in [0 .. n -> S] : IsIteration(f, n, a, step)
<1> DEFINE B == {k \in Nat : \E f \in [0 .. k -> S] : IsIteration(f, k, a, step)}
<1>1. 0 \in B
  <2> DEFINE f == [k \in 0 .. 0 |-> a]
  <2>1. IsIteration(f, 0, a, step)
    BY DEF IsIteration
  <2>2. f \in [0 .. 0 -> S]
    OBVIOUS
  <2> QED BY <2>1, <2>2
<1>2. ASSUME NEW k \in 1 .. n, k - 1 \in B PROVE k \in B
  <2>1. PICK f \in [0 .. k - 1 -> S] : IsIteration(f, k - 1, a, step)
    BY <1>2
  <2> DEFINE g == [j \in 0 .. k |-> IF j = k THEN step[k][f[k - 1]] ELSE f[j]]
  <2>2. f[k - 1] \in S
    BY <2>1
  <2>3. g \in [0 .. k -> S]
    BY <2>2
  <2>4. ASSUME NEW j \in 0 .. k - 1 PROVE f[j] = IF j = 0 THEN a ELSE step[j][f[j - 1]]
    BY <2>1, Zenon DEF IsIteration
  <2>5. ASSUME NEW j \in 0 .. k PROVE g[j] = IF j = 0 THEN a ELSE step[j][g[j - 1]]
    <3>1. CASE j = k
      <4>1. g[j] = step[k][f[k - 1]] /\ j # 0 /\ j - 1 \in 0 .. k /\ j - 1 # k
        BY <3>1
      <4>2. g[j - 1] = f[j - 1]
        BY <4>1
      <4> QED BY <3>1, <4>1, <4>2
    <3>2. CASE j # k
      <4>1. j \in 0 .. k - 1 /\ (j # 0 => j - 1 \in 0 .. k /\ j - 1 # k)
        BY <3>2
      <4>2. g[j] = f[j] /\ (j # 0 => g[j - 1] = f[j - 1])
        BY <3>2, <4>1
      <4> QED BY <4>1, <4>2, <2>4
    <3> QED BY <3>1, <3>2
  <2>6. IsIteration(g, k, a, step)
    <3>1. g = [j \in 0 .. k |-> g[j]]
      OBVIOUS
    <3>2. [j \in 0 .. k |-> g[j]] = [j \in 0 .. k |-> IF j = 0 THEN a ELSE step[j][g[j - 1]]]
      <4> HIDE DEF g
      <4> QED BY <2>5, Zenon
    <3> HIDE DEF g
    <3> QED BY <3>1, <3>2, Zenon DEF IsIteration
  <2>7. \E h \in [0 .. k -> S] : IsIteration(h, k, a, step)
    <3> HIDE DEF g
    <3> QED BY <2>3, <2>6
  <2> QED BY <2>7
<1>3. 0 .. n \subseteq B
  <2> HIDE DEF B
  <2> QED BY <1>1, <1>2, RangeInduction
<1> QED BY <1>3

LEMMA IterationSteps ==
  ASSUME NEW n \in Nat, NEW a, NEW step, NEW f, IsIteration(f, n, a, step)
  PROVE  f[0] = a /\ \A k \in 1 .. n : f[k] = step[k][f[k - 1]]
<1>1. \A k \in 0 .. n : f[k] = IF k = 0 THEN a ELSE step[k][f[k - 1]]
  BY Zenon DEF IsIteration
<1> QED BY <1>1

-----------------------------------------------------------------------------
(* Recursive functions: the value at x is made from the value at succ[x],   *)
(* whose measure is smaller, down to a base.                                *)

IsDescent(f, D, B, b, g, succ) ==
  f = [x \in D |-> IF x \in B THEN b[x] ELSE g[x][f[succ[x]]]]

\* Where succ leads: down, and to values that can be gone on with.
GoesDown(D, mu, B, S, b, g, succ) ==
  /\ mu \in [D -> Nat]
  /\ \A x \in D \cap B : b[x] \in S
  /\ \A x \in D \ B : succ[x] \in D /\ mu[succ[x]] < mu[x] /\ \A v \in S : g[x][v] \in S

Below(D, mu, n) == {x \in D : mu[x] <= n}

LEMMA DescentValue ==
  ASSUME NEW f, NEW D, NEW B, NEW b, NEW g, NEW succ, IsDescent(f, D, B, b, g, succ),
         NEW x \in D
  PROVE  f[x] = IF x \in B THEN b[x] ELSE g[x][f[succ[x]]]
  BY Zenon DEF IsDescent

LEMMA BoundedDescentExists ==
  ASSUME NEW D, NEW mu, NEW B, NEW S, NEW b, NEW g, NEW succ,
         GoesDown(D, mu, B, S, b, g, succ), NEW n \in Nat
  PROVE  \E f \in [Below(D, mu, n) -> S] : IsDescent(f, Below(D, mu, n), B, b, g, succ)
<1> DEFINE Z(k) == Below(D, mu, k)
           I == {k \in Nat : \E f \in [Z(k) -> S] : IsDescent(f, Z(k), B, b, g, succ)}
<1>0. ASSUME NEW x \in D \ B
      PROVE  succ[x] \in D /\ mu[succ[x]] < mu[x] /\ mu[x] \in Nat /\ mu[succ[x]] \in Nat
  BY DEF GoesDown
<1>1. 0 \in I
  <2> DEFINE f == [x \in Z(0) |-> b[x]]
  <2>1. ASSUME NEW x \in Z(0) PROVE x \in B
    BY <1>0 DEF Below
  <2>2. f \in [Z(0) -> S]
    BY <2>1 DEF GoesDown, Below
  <2>3. IsDescent(f, Z(0), B, b, g, succ)
    <3>1. f = [x \in Z(0) |-> IF x \in B THEN b[x] ELSE g[x][f[succ[x]]]]
      BY <2>1
    <3> HIDE DEF f
    <3> QED BY <3>1 DEF IsDescent
  <2>4. \E h \in [Z(0) -> S] : IsDescent(h, Z(0), B, b, g, succ)
    <3> HIDE DEF f, Z
    <3> QED BY <2>2, <2>3
  <2> QED BY <2>4
<1>2. ASSUME NEW k \in Nat, k \in I PROVE k + 1 \in I
  <2>1. PICK f \in [Z(k) -> S] : IsDescent(f, Z(k), B, b, g, succ)
    BY <1>2
  <2> DEFINE h == [x \in Z(k + 1) |-> IF x \in B THEN b[x] ELSE g[x][f[succ[x]]]]
  <2>2. ASSUME NEW x \in Z(k + 1) \ B PROVE succ[x] \in Z(k)
    BY <1>0 DEF Below
  <2>3. ASSUME NEW x \in Z(k) PROVE h[x] = f[x]
    <3>1. x \in Z(k + 1)
      BY DEF Below, GoesDown
    <3>2. f[x] = IF x \in B THEN b[x] ELSE g[x][f[succ[x]]]
      <4> HIDE DEF Z
      <4> QED BY <2>1, DescentValue
    <3> QED BY <3>1, <3>2, Zenon
  <2>4. h \in [Z(k + 1) -> S]
    <3>1. ASSUME NEW x \in Z(k + 1) PROVE (IF x \in B THEN b[x] ELSE g[x][f[succ[x]]]) \in S
      <4>1. x \in D
        BY DEF Below
      <4>2. CASE x \in B
        BY <4>1, <4>2 DEF GoesDown
      <4>3. CASE x \notin B
        <5>1. f[succ[x]] \in S
          BY <2>1, <2>2, <4>3
        <5> QED BY <4>1, <4>3, <5>1 DEF GoesDown
      <4> QED BY <4>2, <4>3
    <3> HIDE DEF Z
    <3> QED BY <3>1
  <2>5. IsDescent(h, Z(k + 1), B, b, g, succ)
    <3>1. ASSUME NEW x \in Z(k + 1)
          PROVE  (IF x \in B THEN b[x] ELSE g[x][f[succ[x]]])
                   = (IF x \in B THEN b[x] ELSE g[x][h[succ[x]]])
      <4> HIDE DEF h, Z
      <4> QED BY <2>2, <2>3, Zenon
    <3>2. h = [x \in Z(k + 1) |-> IF x \in B THEN b[x] ELSE g[x][h[succ[x]]]]
      BY <3>1, Zenon
    <3> HIDE DEF h, Z
    <3> QED BY <3>2, Zenon DEF IsDescent
  <2>6. \E e \in [Z(k + 1) -> S] : IsDescent(e, Z(k + 1), B, b, g, succ)
    <3> HIDE DEF h, Z
    <3> QED BY <2>4, <2>5
  <2>7. k + 1 \in Nat
    OBVIOUS
  <2> HIDE DEF h, Z
  <2> QED BY <2>6, <2>7, Zenon
<1>3. Nat \subseteq I
  <2> HIDE DEF I
  <2> QED BY <1>1, <1>2, Induction
<1> QED BY <1>3

LEMMA DescentIsUnique ==
  ASSUME NEW D, NEW mu, NEW B, NEW S, NEW b, NEW g, NEW succ,
         GoesDown(D, mu, B, S, b, g, succ), NEW m \in Nat, NEW n \in Nat,
         NEW f, IsDescent(f, Below(D, mu, m), B, b, g, succ),
         NEW h, IsDescent(h, Below(D, mu, n), B, b, g, succ),
         NEW x \in D, mu[x] <= m, mu[x] <= n
  PROVE  f[x] = h[x]
<1> DEFINE I == {k \in Nat : \A y \in D : mu[y] <= k /\ k <= m /\ k <= n => f[y] = h[y]}
<1>0. /\ \A y \in D : mu[y] \in Nat
      /\ \A y \in D \ B : succ[y] \in D /\ mu[succ[y]] < mu[y]
  BY DEF GoesDown
<1>1. ASSUME NEW k \in Nat, NEW y \in D, mu[y] <= k, k <= m, k <= n,
             y \notin B => f[succ[y]] = h[succ[y]]
      PROVE  f[y] = h[y]
  <2>1. y \in Below(D, mu, m) /\ y \in Below(D, mu, n)
    BY <1>0, <1>1 DEF Below
  <2>2. f[y] = IF y \in B THEN b[y] ELSE g[y][f[succ[y]]]
    BY <2>1, DescentValue
  <2>3. h[y] = IF y \in B THEN b[y] ELSE g[y][h[succ[y]]]
    BY <2>1, DescentValue
  <2> QED BY <1>1, <2>2, <2>3
<1>2. 0 \in I
  <2>1. ASSUME NEW y \in D, mu[y] <= 0 PROVE y \in B
    BY <1>0, <2>1
  <2> QED BY <1>1, <2>1
<1>3. ASSUME NEW k \in Nat, k \in I PROVE k + 1 \in I
  <2> SUFFICES ASSUME NEW y \in D, mu[y] <= k + 1, k + 1 <= m, k + 1 <= n PROVE f[y] = h[y]
    OBVIOUS
  <2>1. y \notin B => f[succ[y]] = h[succ[y]]
    BY <1>0, <1>3
  <2> QED BY <1>1, <2>1
<1>4. Nat \subseteq I
  <2> HIDE DEF I
  <2> QED BY <1>2, <1>3, Induction
<1>5. mu[x] \in I
  BY <1>0, <1>4
<1> QED BY <1>0, <1>5

LEMMA DescentExists ==
  ASSUME NEW D, NEW mu, NEW B, NEW S, NEW b, NEW g, NEW succ,
         GoesDown(D, mu, B, S, b, g, succ)
  PROVE  \E f \in [D -> S] : IsDescent(f, D, B, b, g, succ)
<1> DEFINE Part(n) == CHOOSE f : /\ f \in [Below(D, mu, n) -> S]
                                 /\ IsDescent(f, Below(D, mu, n), B, b, g, succ)
           h == [x \in D |-> Part(mu[x])[x]]
<1>0. /\ \A y \in D : mu[y] \in Nat
      /\ \A y \in D \ B : succ[y] \in D /\ mu[succ[y]] < mu[y]
  BY DEF GoesDown
<1>1. ASSUME NEW n \in Nat
      PROVE  /\ Part(n) \in [Below(D, mu, n) -> S]
             /\ IsDescent(Part(n), Below(D, mu, n), B, b, g, succ)
  BY BoundedDescentExists, Zenon
<1> HIDE DEF Part
<1>2. h \in [D -> S]
  <2>1. ASSUME NEW x \in D PROVE Part(mu[x])[x] \in S
    <3>1. x \in Below(D, mu, mu[x])
      BY <1>0 DEF Below
    <3> QED BY <1>0, <1>1, <3>1
  <2> QED BY <2>1
<1>3. ASSUME NEW x \in D PROVE h[x] = IF x \in B THEN b[x] ELSE g[x][h[succ[x]]]
  <2>1. x \in Below(D, mu, mu[x])
    BY <1>0 DEF Below
  <2>2. Part(mu[x])[x] = IF x \in B THEN b[x] ELSE g[x][Part(mu[x])[succ[x]]]
    BY <1>0, <1>1, <2>1, DescentValue
  <2>3. ASSUME x \notin B PROVE Part(mu[x])[succ[x]] = Part(mu[succ[x]])[succ[x]]
    <3>1. /\ succ[x] \in D /\ mu[succ[x]] <= mu[x] /\ mu[succ[x]] <= mu[succ[x]]
          /\ mu[x] \in Nat /\ mu[succ[x]] \in Nat
      BY <1>0, <2>3
    <3> QED BY <1>1, <3>1, DescentIsUnique
  <2>4. x \notin B => succ[x] \in D
    BY <1>0
  <2>5. CASE x \in B
    BY <2>2, <2>5
  <2>6. CASE x \notin B
    BY <2>2, <2>3, <2>4, <2>6
  <2> QED BY <2>5, <2>6
<1>4. IsDescent(h, D, B, b, g, succ)
  <2>1. h = [x \in D |-> h[x]]
    OBVIOUS
  <2>2. [x \in D |-> h[x]] = [x \in D |-> IF x \in B THEN b[x] ELSE g[x][h[succ[x]]]]
    <3> HIDE DEF h
    <3> QED BY <1>3, Zenon
  <2> HIDE DEF h
  <2> QED BY <2>1, <2>2, Zenon DEF IsDescent
<1> HIDE DEF h
<1> QED BY <1>2, <1>4

-----------------------------------------------------------------------------
(* Residues.                                                                *)

Same(x, y, m) == \E k \in Int : x = y + m * k

LEMMA SameResidue ==
  ASSUME NEW m \in Nat, m > 0, NEW x \in Int, NEW y \in Int
  PROVE  x % m = y % m <=> Same(x, y, m)
<1>1. /\ x = m * (x \div m) + (x % m) /\ x % m \in 0 .. m - 1 /\ x \div m \in Int
      /\ y = m * (y \div m) + (y % m) /\ y % m \in 0 .. m - 1 /\ y \div m \in Int
  BY Division
<1>2. ASSUME x % m = y % m PROVE Same(x, y, m)
  <2> DEFINE k == (x \div m) - (y \div m)
  <2>1. k \in Int /\ m * k = m * (x \div m) - m * (y \div m)
    BY <1>1
  <2>2. x = y + m * k
    BY <1>1, <1>2, <2>1
  <2> HIDE DEF k
  <2> QED BY <2>1, <2>2 DEF Same
<1>3. ASSUME Same(x, y, m) PROVE x % m = y % m
  <2>1. PICK k \in Int : x = y + m * k
    BY <1>3 DEF Same
  <2> DEFINE j == (y \div m) + k
  <2>2. j \in Int /\ m * j = m * (y \div m) + m * k
    BY <1>1
  <2>3. x = m * j + (y % m)
    BY <1>1, <2>1, <2>2
  <2> HIDE DEF j
  <2> QED BY <1>1, <2>2, <2>3, DivisionIsUnique
<1> QED BY <1>2, <1>3

LEMMA ResidueIs ==
  ASSUME NEW m \in Nat, m > 0, NEW x \in Int, NEW v \in 0 .. m - 1, Same(x, v, m)
  PROVE  x % m = v
<1>1. v \in Int /\ v % m = v
  OBVIOUS
<1> QED BY <1>1, SameResidue

LEMMA ResidueIsSame ==
  ASSUME NEW m \in Nat, m > 0, NEW x \in Int
  PROVE  x % m \in 0 .. m - 1 /\ Same(x % m, x, m) /\ Same(x, x % m, m)
<1>1. x % m \in 0 .. m - 1 /\ x % m \in Int
  BY Division
<1>2. (x % m) % m = x % m
  BY <1>1
<1> QED BY <1>1, <1>2, SameResidue

LEMMA SameReflexive ==
  ASSUME NEW m \in Int, NEW x \in Int
  PROVE  Same(x, x, m)
<1>1. 0 \in Int /\ x = x + m * 0
  OBVIOUS
<1> QED BY <1>1, Zenon DEF Same

LEMMA SameSymmetric ==
  ASSUME NEW m \in Int, NEW x \in Int, NEW y \in Int, Same(x, y, m)
  PROVE  Same(y, x, m)
<1>1. PICK k \in Int : x = y + m * k
  BY DEF Same
<1>2. -k \in Int /\ m * (-k) = - (m * k) /\ m * k \in Int
  OBVIOUS
<1>3. y = x + m * (-k)
  BY <1>1, <1>2
<1> QED BY <1>2, <1>3, Zenon DEF Same

LEMMA SameTransitive ==
  ASSUME NEW m \in Int, NEW x \in Int, NEW y \in Int, NEW z \in Int,
         Same(x, y, m), Same(y, z, m)
  PROVE  Same(x, z, m)
<1>1. PICK j \in Int : x = y + m * j
  BY DEF Same
<1>2. PICK k \in Int : y = z + m * k
  BY DEF Same
<1>3. j + k \in Int /\ m * (j + k) = m * j + m * k /\ m * j \in Int /\ m * k \in Int
  OBVIOUS
<1>4. x = z + m * (j + k)
  BY <1>1, <1>2, <1>3
<1> QED BY <1>3, <1>4, Zenon DEF Same

LEMMA SameSum ==
  ASSUME NEW m \in Int, NEW x \in Int, NEW y \in Int, NEW u \in Int, NEW v \in Int,
         Same(x, y, m), Same(u, v, m)
  PROVE  Same(x + u, y + v, m) /\ Same(x - u, y - v, m)
<1>1. PICK j \in Int : x = y + m * j
  BY DEF Same
<1>2. PICK k \in Int : u = v + m * k
  BY DEF Same
<1>3. /\ j + k \in Int /\ m * (j + k) = m * j + m * k
      /\ j - k \in Int /\ m * (j - k) = m * j - m * k
      /\ m * j \in Int /\ m * k \in Int
  OBVIOUS
<1>4. x + u = (y + v) + m * (j + k) /\ x - u = (y - v) + m * (j - k)
  BY <1>1, <1>2, <1>3
<1> QED BY <1>3, <1>4, Zenon DEF Same

LEMMA SameProduct ==
  ASSUME NEW m \in Int, NEW x \in Int, NEW y \in Int, NEW u \in Int, NEW v \in Int,
         Same(x, y, m), Same(u, v, m)
  PROVE  Same(x * u, y * v, m)
<1>1. PICK j \in Int : x = y + m * j
  BY DEF Same
<1>2. PICK k \in Int : u = v + m * k
  BY DEF Same
<1> DEFINE d == y * k + j * v + m * (j * k)
<1>3. d \in Int /\ x * u = y * v + m * d
  BY <1>1, <1>2
<1> HIDE DEF d
<1> QED BY <1>3, Zenon DEF Same

\* A multiple of the modulus does not count.
LEMMA SameMultiple ==
  ASSUME NEW m \in Int, NEW x \in Int, NEW k \in Int
  PROVE  Same(x + m * k, x, m)
<1>1. x + m * k = x + m * k
  OBVIOUS
<1> QED BY <1>1, Zenon DEF Same

-----------------------------------------------------------------------------
(* Divisors, and numbers without a common one (Bezout's identity).          *)

Divides(d, n) == \E k \in Int : n = d * k

Apart(a, b) == \E x, y \in Int : a * x + b * y = 1

LEMMA DividesResidue ==
  ASSUME NEW m \in Nat, m > 0, NEW x \in Int
  PROVE  Divides(m, x) <=> x % m = 0
<1>1. x = m * (x \div m) + (x % m) /\ x \div m \in Int
  BY Division
<1>2. x % m = 0 => Divides(m, x)
  BY <1>1 DEF Divides
<1>3. ASSUME NEW k \in Int, x = m * k PROVE x % m = 0
  <2>1. x = m * k + 0 /\ 0 \in 0 .. m - 1
    BY <1>3
  <2> QED BY <2>1, QuotientIs
<1> QED BY <1>2, <1>3 DEF Divides

LEMMA DividesSame ==
  ASSUME NEW m \in Int, NEW x \in Int, NEW y \in Int
  PROVE  Same(x, y, m) <=> Divides(m, x - y)
<1>1. ASSUME NEW k \in Int PROVE x = y + m * k <=> x - y = m * k
  BY <1>1
<1> QED BY <1>1 DEF Same, Divides

LEMMA DividesSum ==
  ASSUME NEW d \in Int, NEW x \in Int, NEW y \in Int, NEW a \in Int, NEW b \in Int,
         Divides(d, x), Divides(d, y)
  PROVE  Divides(d, a * x + b * y)
<1>1. PICK j \in Int : x = d * j
  BY DEF Divides
<1>2. PICK k \in Int : y = d * k
  BY DEF Divides
<1>3. a * j + b * k \in Int /\ a * x + b * y = d * (a * j + b * k)
  BY <1>1, <1>2
<1> QED BY <1>3, Zenon DEF Divides

LEMMA DividesMultiple ==
  ASSUME NEW d \in Int, NEW x \in Int, NEW a \in Int, Divides(d, x)
  PROVE  Divides(d, a * x) /\ Divides(d, x * a)
<1>1. PICK j \in Int : x = d * j
  BY DEF Divides
<1>2. a * j \in Int /\ a * x = d * (a * j) /\ x * a = d * (a * j)
  BY <1>1
<1> QED BY <1>2, Zenon DEF Divides

LEMMA DividesTransitive ==
  ASSUME NEW d \in Int, NEW e \in Int, NEW x \in Int, Divides(d, e), Divides(e, x)
  PROVE  Divides(d, x)
<1>1. PICK j \in Int : e = d * j
  BY DEF Divides
<1>2. PICK k \in Int : x = e * k
  BY DEF Divides
<1>3. j * k \in Int /\ x = d * (j * k)
  BY <1>1, <1>2
<1> QED BY <1>3, Zenon DEF Divides

LEMMA DivisorIsSmall ==
  ASSUME NEW d \in Nat, NEW x \in Nat, x > 0, Divides(d, x)
  PROVE  d >= 1 /\ d <= x
<1>1. PICK k \in Int : x = d * k
  BY DEF Divides
<1>2. CASE k <= 0
  <2>1. d * k <= 0
    BY <1>2
  <2> QED BY <1>1, <2>1
<1>3. CASE k >= 1
  <2>1. d * k >= d
    BY <1>3
  <2>2. d # 0
    BY <1>1
  <2> QED BY <1>1, <2>1, <2>2
<1> QED BY <1>2, <1>3

LEMMA ApartSymmetric ==
  ASSUME NEW a \in Int, NEW b \in Int, Apart(a, b)
  PROVE  Apart(b, a)
<1>1. PICK x \in Int : \E y \in Int : a * x + b * y = 1
  BY DEF Apart
<1>2. PICK y \in Int : a * x + b * y = 1
  BY <1>1
<1>3. b * y + a * x = 1
  BY <1>2
<1> QED BY <1>3, Zenon DEF Apart

LEMMA ApartFromOne ==
  ASSUME NEW a \in Int
  PROVE  Apart(1, a) /\ Apart(a, 1)
<1>1. 1 * 1 + a * 0 = 1 /\ a * 0 + 1 * 1 = 1
  OBVIOUS
<1> QED BY <1>1 DEF Apart

LEMMA ApartProduct ==
  ASSUME NEW a \in Int, NEW b \in Int, NEW m \in Int, Apart(a, m), Apart(b, m)
  PROVE  Apart(a * b, m)
<1>1. PICK x \in Int : \E y \in Int : a * x + m * y = 1
  BY DEF Apart
<1>2. PICK y \in Int : a * x + m * y = 1
  BY <1>1
<1>3. PICK u \in Int : \E v \in Int : b * u + m * v = 1
  BY DEF Apart
<1>4. PICK v \in Int : b * u + m * v = 1
  BY <1>3
<1> DEFINE p == a * x
           q == b * u
<1>5. p \in Int /\ q \in Int /\ p = 1 - m * y /\ q = 1 - m * v /\ m * y \in Int /\ m * v \in Int
  BY <1>2, <1>4
<1>6. p * q = 1 - m * y - m * v + (m * y) * (m * v)
  <2> HIDE DEF p, q
  <2> QED BY <1>5
<1> DEFINE w == y + v - y * (m * v)
<1>7. w \in Int /\ m * w = m * y + m * v - (m * y) * (m * v)
  OBVIOUS
<1>8. (a * b) * (x * u) = p * q
  OBVIOUS
<1>9. x * u \in Int /\ p * q \in Int /\ (m * y) * (m * v) \in Int
  OBVIOUS
<1>10. (a * b) * (x * u) + m * w = 1
  <2> HIDE DEF p, q, w
  <2> QED BY <1>5, <1>6, <1>7, <1>8, <1>9
<1> HIDE DEF w
<1> QED BY <1>7, <1>9, <1>10, Zenon DEF Apart

\* What divides one of two numbers that are apart is apart from the other.
LEMMA ApartFactor ==
  ASSUME NEW a \in Int, NEW m \in Int, NEW d \in Int, Apart(a, m), Divides(d, a)
  PROVE  Apart(d, m)
<1>1. PICK x \in Int : \E y \in Int : a * x + m * y = 1
  BY DEF Apart
<1>2. PICK y \in Int : a * x + m * y = 1
  BY <1>1
<1>3. PICK k \in Int : a = d * k
  BY DEF Divides
<1>4. k * x \in Int /\ d * (k * x) = a * x
  BY <1>3
<1>5. d * (k * x) + m * y = 1
  BY <1>2, <1>4
<1> QED BY <1>4, <1>5, Zenon DEF Apart

LEMMA ApartResidue ==
  ASSUME NEW m \in Int, NEW a \in Int, NEW b \in Int, Same(a, b, m), Apart(a, m)
  PROVE  Apart(b, m)
<1>1. PICK x \in Int : \E y \in Int : a * x + m * y = 1
  BY DEF Apart
<1>2. PICK y \in Int : a * x + m * y = 1
  BY <1>1
<1>3. PICK k \in Int : a = b + m * k
  BY DEF Same
<1>4. y + k * x \in Int /\ a * x = b * x + m * (k * x) /\ m * (y + k * x) = m * y + m * (k * x)
  BY <1>3
<1>5. m * (k * x) \in Int /\ b * x \in Int /\ m * y \in Int
  OBVIOUS
<1>6. b * x + m * (y + k * x) = 1
  BY <1>2, <1>4, <1>5
<1> QED BY <1>4, <1>6, Zenon DEF Apart

\* Of a product with a number that is apart, only the other factor counts.
LEMMA Gauss ==
  ASSUME NEW m \in Int, NEW a \in Int, NEW n \in Int, Apart(a, m), Divides(m, a * n)
  PROVE  Divides(m, n)
<1>1. PICK x \in Int : \E y \in Int : a * x + m * y = 1
  BY DEF Apart
<1>2. PICK y \in Int : a * x + m * y = 1
  BY <1>1
<1>3. PICK k \in Int : a * n = m * k
  BY DEF Divides
<1> DEFINE w == k * x + y * n
<1>4. w \in Int /\ m * w = (m * k) * x + (m * y) * n
  OBVIOUS
<1>5. (a * n) * x + (m * y) * n = (a * x + m * y) * n
  OBVIOUS
<1>6. (m * k) * x + (m * y) * n = (a * n) * x + (m * y) * n
  BY <1>3
<1>7. (a * x + m * y) * n = n
  BY <1>2
<1>8. n = m * w
  <2> DEFINE p == (a * n) * x + (m * y) * n
  <2>1. m * w = p
    BY <1>4, <1>6, Zenon
  <2>2. p = n
    BY <1>5, <1>7, Zenon
  <2> HIDE DEF w, p
  <2> QED BY <2>1, <2>2, Zenon
<1> HIDE DEF w
<1> QED BY <1>4, <1>8, Zenon DEF Divides

LEMMA ProductDivides ==
  ASSUME NEW a \in Int, NEW b \in Int, NEW n \in Int, Apart(a, b), Divides(a, n), Divides(b, n)
  PROVE  Divides(a * b, n)
<1>1. PICK k \in Int : n = a * k
  BY DEF Divides
<1>2. Divides(b, k)
  BY <1>1, Gauss
<1>3. PICK j \in Int : k = b * j
  BY <1>2 DEF Divides
<1>4. n = (a * b) * j /\ a * b \in Int
  BY <1>1, <1>3
<1> QED BY <1>4, Zenon DEF Divides

\* An inverse, and what it does.
LEMMA InverseCancels ==
  ASSUME NEW m \in Int, NEW a \in Int, NEW i \in Int, NEW x \in Int, Same(a * i, 1, m)
  PROVE  Same((x * a) * i, x, m)
<1>1. Same(x, x, m) /\ a * i \in Int
  BY SameReflexive
<1>2. Same(x * (a * i), x * 1, m)
  BY <1>1, SameProduct
<1>3. x * (a * i) = (x * a) * i /\ x * 1 = x
  OBVIOUS
<1> QED BY <1>2, <1>3

\* An odd divisor of a power of two is 1: this is its step.
LEMMA OddDivisorOfDouble ==
  ASSUME NEW d \in Int, d % 2 = 1, NEW n \in Int, Divides(d, 2 * n)
  PROVE  Divides(d, n)
<1>1. d = 2 * (d \div 2) + 1 /\ d \div 2 \in Int
  BY Division
<1>2. - (d \div 2) \in Int /\ 1 \in Int /\ 2 * (- (d \div 2)) + d * 1 = 1
  BY <1>1
<1>3. Apart(2, d)
  BY <1>2, Zenon DEF Apart
<1> QED BY <1>3, Gauss

=============================================================================
