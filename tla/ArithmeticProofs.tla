-------------------------- MODULE ArithmeticProofs --------------------------
(***************************************************************************)
(* Proofs about the arithmetic: the windows of GroGate recur, the values   *)
(* of GearStack stay exact and its other readings agree, the readings of   *)
(* Winding are exact and the successors it verifies are real, and the      *)
(* conversions of BaseExtension give the residues and the rounding of the  *)
(* very integer.                                                           *)
(*                                                                         *)
(* The recursive functions of the model are choices.  For each there is a  *)
(* predicate that is its equation, a lemma that a function satisfies it    *)
(* (a closed form, or Descent or Iteration of IntegerLemmas) and one that  *)
(* says what the chosen function does.                                     *)
(***************************************************************************)
EXTENDS BaseExtension, GearStack, GroGate, Winding, IntegerLemmas

-----------------------------------------------------------------------------
(* Powers of two, and lengths in bits.                                      *)

\* The recursion that TwoTo, BitsOf and, below, the other functions are
\* chosen by: it has a value, and only one.
IsTwoTo(f) == f = [n \in Nat |-> IF n = 0 THEN 1 ELSE 2 * f[n - 1]]

LEMMA TwoToExists == \E f \in [Nat -> Nat \ {0}] : IsTwoTo(f)
<1> DEFINE b == [n \in Nat |-> 1]
           g == [n \in Nat |-> [v \in Nat \ {0} |-> 2 * v]]
           next == [n \in Nat |-> n - 1]
           mu == [n \in Nat |-> n]
<1>1. GoesDown(Nat, mu, {0}, Nat \ {0}, b, g, next)
  BY DEF GoesDown
<1>2. PICK f \in [Nat -> Nat \ {0}] : IsDescent(f, Nat, {0}, b, g, next)
  <2> HIDE DEF b, g, next, mu
  <2> QED BY <1>1, DescentExists
<1>3. ASSUME NEW n \in Nat PROVE f[n] = IF n = 0 THEN 1 ELSE 2 * f[n - 1]
  <2>1. f[n] = IF n \in {0} THEN b[n] ELSE g[n][f[next[n]]]
    <3> HIDE DEF b, g, next, mu
    <3> QED BY <1>2, DescentValue
  <2>2. CASE n = 0
    BY <2>1, <2>2
  <2>3. CASE n # 0
    <3>1. next[n] = n - 1 /\ n - 1 \in Nat
      BY <2>3
    <3> QED BY <2>1, <2>3, <3>1
  <2> QED BY <2>2, <2>3
<1>4. f = [n \in Nat |-> IF n = 0 THEN 1 ELSE 2 * f[n - 1]]
  <2> HIDE DEF b, g, next, mu
  <2> QED BY <1>3
<1> QED BY <1>4 DEF IsTwoTo

\* Powers of two double at each step, and grow.
LEMMA TwoToIs ==
  /\ TwoTo \in [Nat -> Nat \ {0}]
  /\ TwoTo[0] = 1
  /\ \A n \in Nat : TwoTo[n + 1] = 2 * TwoTo[n]
<1>1. PICK f \in [Nat -> Nat \ {0}] : IsTwoTo(f)
  BY TwoToExists
<1>2. TwoTo = CHOOSE h : IsTwoTo(h)
  BY Zenon DEF TwoTo, IsTwoTo
<1>3. IsTwoTo(TwoTo)
  BY <1>1, <1>2, Zenon
<1>4. TwoTo = [n \in Nat |-> IF n = 0 THEN 1 ELSE 2 * TwoTo[n - 1]]
  BY <1>3, Zenon DEF IsTwoTo
<1>5. \A n \in Nat : TwoTo[n] = IF n = 0 THEN 1 ELSE 2 * TwoTo[n - 1]
  BY <1>4, Zenon
<1>6. TwoTo[0] = 1
  BY <1>5
<1>7. ASSUME NEW n \in Nat PROVE TwoTo[n + 1] = 2 * TwoTo[n]
  <2>1. n + 1 \in Nat /\ n + 1 # 0 /\ (n + 1) - 1 = n
    OBVIOUS
  <2> QED BY <1>5, <2>1
<1>8. ASSUME NEW n \in Nat PROVE TwoTo[n] \in Nat \ {0}
  <2> DEFINE I == {k \in Nat : TwoTo[k] \in Nat \ {0}}
  <2>1. 0 \in I
    BY <1>6
  <2>2. ASSUME NEW k \in Nat, k \in I PROVE k + 1 \in I
    BY <1>7, <2>2
  <2>3. Nat \subseteq I
    <3> HIDE DEF I
    <3> QED BY <2>1, <2>2, Induction
  <2> QED BY <2>3
<1>9. TwoTo \in [Nat -> Nat \ {0}]
  BY <1>4, <1>8
<1> QED BY <1>6, <1>7, <1>9

\* A smaller power of two divides a larger one.
LEMMA TwoToGrows ==
  ASSUME NEW m \in Nat, NEW n \in Nat, m <= n
  PROVE  /\ Divides(TwoTo[m], TwoTo[n]) /\ TwoTo[m] <= TwoTo[n]
         /\ TwoTo[n] = TwoTo[m] * TwoTo[n - m]
<1> DEFINE I == {k \in Nat : TwoTo[m + k] = TwoTo[m] * TwoTo[k]}
<1>0. TwoTo[m] \in Nat \ {0}
  BY TwoToIs
<1>1. 0 \in I
  BY <1>0, TwoToIs
<1>2. ASSUME NEW k \in Nat, k \in I PROVE k + 1 \in I
  <2>1. (m + k) + 1 = m + (k + 1) /\ m + k \in Nat
    OBVIOUS
  <2>2. TwoTo[m + (k + 1)] = 2 * TwoTo[m + k]
    BY <2>1, TwoToIs
  <2>3. TwoTo[k + 1] = 2 * TwoTo[k] /\ TwoTo[k] \in Nat
    BY TwoToIs
  <2>4. ASSUME NEW x \in Nat, NEW y \in Nat PROVE 2 * (x * y) = x * (2 * y)
    OBVIOUS
  <2> QED BY <1>0, <1>2, <2>2, <2>3, <2>4
<1>3. n - m \in I
  <2>1. Nat \subseteq I
    <3> HIDE DEF I
    <3> QED BY <1>1, <1>2, Induction
  <2> QED BY <2>1
<1>4. m + (n - m) = n /\ n - m \in Nat
  OBVIOUS
<1>5. TwoTo[n] = TwoTo[m] * TwoTo[n - m] /\ TwoTo[n - m] \in Nat \ {0} /\ TwoTo[n] \in Nat
  BY <1>3, <1>4, TwoToIs
<1>6. ASSUME NEW x \in Nat, NEW y \in Nat \ {0} PROVE x <= x * y
  OBVIOUS
<1> QED BY <1>0, <1>5, <1>6 DEF Divides

\* Exponents add.
LEMMA TwoToSum ==
  ASSUME NEW m \in Nat, NEW n \in Nat
  PROVE  TwoTo[m + n] = TwoTo[m] * TwoTo[n]
<1>1. m <= m + n /\ m + n \in Nat /\ (m + n) - m = n
  OBVIOUS
<1> QED BY <1>1, TwoToGrows

\* The recursion of BitsOf
IsBitsOf(f) == f = [n \in Nat |-> IF n = 0 THEN 0 ELSE 1 + f[n \div 2]]

\* A number and its half
LEMMA Halved ==
  ASSUME NEW n \in Nat
  PROVE  n \div 2 \in Nat /\ (n # 0 => n \div 2 < n) /\ n % 2 \in {0, 1} /\ n = 2 * (n \div 2) + (n % 2)
<1>1. /\ n = 2 * (n \div 2) + (n % 2) /\ n % 2 \in 0 .. 1 /\ n \div 2 \in Int
  BY Division
<1> QED BY <1>1

LEMMA BitsOfExists == \E f \in [Nat -> Nat] : IsBitsOf(f)
<1> DEFINE b == [n \in Nat |-> 0]
           g == [n \in Nat |-> [v \in Nat |-> 1 + v]]
           next == [n \in Nat |-> n \div 2]
           mu == [n \in Nat |-> n]
<1>1. GoesDown(Nat, mu, {0}, Nat, b, g, next)
  <2>1. \A n \in Nat \ {0} : next[n] \in Nat /\ next[n] < n
    BY Halved
  <2> HIDE DEF next
  <2> QED BY <2>1 DEF GoesDown
<1>2. PICK f \in [Nat -> Nat] : IsDescent(f, Nat, {0}, b, g, next)
  <2> HIDE DEF b, g, next, mu
  <2> QED BY <1>1, DescentExists
<1>3. ASSUME NEW n \in Nat PROVE f[n] = IF n = 0 THEN 0 ELSE 1 + f[n \div 2]
  <2>1. f[n] = IF n \in {0} THEN b[n] ELSE g[n][f[next[n]]]
    <3> HIDE DEF b, g, next, mu
    <3> QED BY <1>2, DescentValue
  <2>2. CASE n = 0
    BY <2>1, <2>2
  <2>3. CASE n # 0
    <3>1. next[n] = n \div 2 /\ n \div 2 \in Nat
      BY Halved
    <3> QED BY <2>1, <2>3, <3>1
  <2> QED BY <2>2, <2>3
<1>4. f = [n \in Nat |-> IF n = 0 THEN 0 ELSE 1 + f[n \div 2]]
  <2> HIDE DEF b, g, next, mu
  <2> QED BY <1>3
<1> QED BY <1>4 DEF IsBitsOf

\* A number is less than a power of two when it is no longer than its exponent.
LEMMA BitLengthIs ==
  ASSUME NEW n \in Nat
  PROVE  /\ BitLength(n) \in Nat
         /\ \A k \in Nat : BitLength(n) <= k <=> n < TwoTo[k]
<1>1. PICK f \in [Nat -> Nat] : IsBitsOf(f)
  BY BitsOfExists
<1>2. BitsOf = CHOOSE h : IsBitsOf(h)
  BY Zenon DEF BitsOf, IsBitsOf
<1>3. IsBitsOf(BitsOf)
  BY <1>1, <1>2, Zenon
<1>4. BitsOf = [x \in Nat |-> IF x = 0 THEN 0 ELSE 1 + BitsOf[x \div 2]]
  BY <1>3, Zenon DEF IsBitsOf
<1>5. \A x \in Nat : BitsOf[x] = IF x = 0 THEN 0 ELSE 1 + BitsOf[x \div 2]
  BY <1>4, Zenon
<1> DEFINE Right(x) == BitsOf[x] \in Nat /\ \A k \in Nat : BitsOf[x] <= k <=> x < TwoTo[k]
           I == {m \in Nat : \A x \in 0 .. m : Right(x)}
<1>6. Right(0)
  <2>1. BitsOf[0] = 0
    BY <1>5
  <2>2. \A k \in Nat : TwoTo[k] > 0
    BY TwoToIs
  <2> QED BY <2>1, <2>2
<1>7. ASSUME NEW m \in Nat, m \in I PROVE Right(m + 1)
  <2> DEFINE h == (m + 1) \div 2
  <2>1. h \in 0 .. m /\ m + 1 \in Nat /\ (m + 1 = 2 * h \/ m + 1 = 2 * h + 1)
    BY Halved
  <2>2. Right(h)
    BY <1>7, <2>1
  <2>3. BitsOf[m + 1] = 1 + BitsOf[h]
    BY <1>5
  <2> HIDE DEF h
  <2>4. BitsOf[m + 1] \in Nat
    BY <2>2, <2>3
  <2>5. ASSUME NEW k \in Nat PROVE BitsOf[m + 1] <= k <=> m + 1 < TwoTo[k]
    <3>1. CASE k = 0
      BY <2>2, <2>3, <3>1, TwoToIs
    <3>2. CASE k # 0
      <4>1. k - 1 \in Nat /\ (k - 1) + 1 = k
        BY <3>2
      <4>2. TwoTo[k] = 2 * TwoTo[k - 1] /\ TwoTo[k - 1] \in Nat
        BY <4>1, TwoToIs
      <4>3. BitsOf[h] <= k - 1 <=> h < TwoTo[k - 1]
        BY <2>2, <4>1
      <4> QED BY <2>1, <2>2, <2>3, <4>2, <4>3
    <3> QED BY <3>1, <3>2
  <2> QED BY <2>4, <2>5
<1>8. 0 \in I
  BY <1>6
<1>9. ASSUME NEW m \in Nat, m \in I PROVE m + 1 \in I
  <2>1. \A x \in 0 .. m + 1 : x \in 0 .. m \/ x = m + 1
    OBVIOUS
  <2> HIDE DEF Right
  <2> QED BY <1>7, <1>9, <2>1
<1>10. Nat \subseteq I
  <2> HIDE DEF I
  <2> QED BY <1>8, <1>9, Induction
<1>11. Right(n)
  <2> HIDE DEF Right
  <2> QED BY <1>10
<1> QED BY <1>11 DEF BitLength

\* A common factor goes through a residue.
LEMMA ScaledResidue ==
  ASSUME NEW g \in Nat, g > 0, NEW m \in Nat, m > 0, NEW x \in Int
  PROVE  (g * x) % (g * m) = g * (x % m)
<1> DEFINE j == x \div m
           v == x % m
<1>1. x = m * j + v /\ v \in 0 .. m - 1 /\ j \in Int
  BY Division
<1> HIDE DEF j, v
<1>2. g * x = (g * m) * j + g * v
  BY <1>1
<1>3. g * m \in Nat /\ g * m > 0
  OBVIOUS
<1>4. g * v \in 0 .. g * m - 1
  <2>1. g * v <= g * (m - 1) /\ g * v >= 0 /\ g * v \in Int
    BY <1>1
  <2>2. g * (m - 1) = g * m - g
    OBVIOUS
  <2> QED BY <2>1, <2>2, <1>3
<1>5. ((g * m) * j + g * v) % (g * m) = g * v
  <2> DEFINE w == g * m
             y == g * v
  <2>1. w \in Nat /\ w > 0 /\ y \in 0 .. w - 1
    BY <1>3, <1>4
  <2> HIDE DEF w, y
  <2>2. (w * j + y) % w = y
    BY <1>1, <2>1, QuotientIs
  <2> QED BY <2>2 DEF w, y
<1>6. (g * x) % (g * m) = g * v
  BY <1>2, <1>5
<1> QED BY <1>6 DEF v

\* A residue modulo a multiple tells the residue.
LEMMA ResidueOfResidue ==
  ASSUME NEW m \in Nat, m > 0, NEW w \in Nat, w > 0, Divides(m, w), NEW x \in Int
  PROVE  (x % w) % m = x % m
<1>1. x % w \in Int /\ Same(x % w, x, w)
  BY ResidueIsSame
<1>2. Divides(w, (x % w) - x)
  BY <1>1, DividesSame
<1>3. Divides(m, (x % w) - x)
  BY <1>1, <1>2, DividesTransitive
<1>4. Same(x % w, x, m)
  BY <1>1, <1>3, DividesSame
<1> QED BY Zenon, <1>1, <1>4, SameResidue

\* m consecutive numbers, times a number that is apart from m, have every
\* residue once.
LEMMA EveryResidueOnce ==
  ASSUME NEW m \in Nat, m > 0, NEW e \in Int, Apart(e, m), NEW a \in Int,
         NEW W \in SUBSET (0 .. m - 1),
         NEW T, T = {t \in a .. a + m - 1 : (t * e) % m \in W}
  PROVE  IsFiniteSet(T) /\ Cardinality(T) = Cardinality(W)
<1> DEFINE f == [t \in T |-> (t * e) % m]
<1>1. IsFiniteSet(T)
  <2>1. IsFiniteSet(a .. a + m - 1)
    BY FS_Interval
  <2> QED BY <2>1, FS_Subset
<1>2. ASSUME NEW s \in T, NEW t \in T, (s * e) % m = (t * e) % m PROVE s = t
  <2>1. s \in Int /\ t \in Int /\ s * e \in Int /\ t * e \in Int
    OBVIOUS
  <2>2. Divides(m, s * e - t * e)
    <3>1. ASSUME NEW x \in Int, NEW y \in Int, x % m = y % m PROVE Divides(m, x - y)
      <4>1. Same(x, y, m)
        BY Zenon, <3>1, SameResidue
      <4> QED BY <4>1, DividesSame
    <3> QED BY Zenon, <1>2, <2>1, <3>1
  <2>3. s * e - t * e = e * (s - t)
    BY <2>1
  <2>4. Divides(m, e * (s - t))
    BY <2>2, <2>3
  <2>5. Divides(m, s - t)
    BY <2>1, <2>4, Gauss
  <2>6. PICK k \in Int : s - t = m * k
    BY <2>5 DEF Divides
  <2>7. s - t < m /\ s - t > -m
    BY <2>1
  <2>8. k = 0
    <3>1. m * k < m * 1 /\ m * k > m * (-1)
      BY <2>6, <2>7
    <3>2. k < 1 /\ k > -1
      BY <3>1
    <3> QED BY <3>2
  <2> QED BY <2>1, <2>6, <2>8
<1>3. ASSUME NEW v \in W PROVE \E t \in T : (t * e) % m = v
  <2>1. PICK x \in Int : \E y \in Int : e * x + m * y = 1
    BY Zenon DEF Apart
  <2>2. PICK y \in Int : e * x + m * y = 1
    BY Zenon, <2>1
  <2> DEFINE r == (v * x - a) % m
             t == a + r
  <2>3. v \in Int /\ v * x - a \in Int
    OBVIOUS
  <2>4. r \in 0 .. m - 1 /\ Same(r, v * x - a, m)
    BY Zenon, <2>3, ResidueIsSame
  <2>5. PICK k \in Int : r = (v * x - a) + m * k
    BY Zenon, <2>4 DEF Same
  <2> HIDE DEF r
  <2>6. t = v * x + m * k /\ t \in a .. a + m - 1 /\ t \in Int
    BY <2>3, <2>4, <2>5
  <2> HIDE DEF t
  <2>7. t * e = v + m * (k * e - v * y)
    <3>1. t * e = v * (e * x) + m * (k * e)
      BY <2>3, <2>6
    <3>2. e * x = 1 - m * y
      BY <2>2
    <3>3. v * (1 - m * y) = v - m * (v * y)
      BY <2>3
    <3>4. m * (k * e) - m * (v * y) = m * (k * e - v * y)
      BY <2>3
    <3>5. /\ m * (k * e) \in Int /\ m * (v * y) \in Int /\ m * (k * e - v * y) \in Int
          /\ v \in Int /\ t * e \in Int
      BY <2>3, <2>6
    <3>6. t * e = (v - m * (v * y)) + m * (k * e)
      BY <3>1, <3>2, <3>3
    <3> QED BY <3>4, <3>5, <3>6
  <2>8. k * e - v * y \in Int /\ v \in 0 .. m - 1 /\ t * e \in Int
    BY <2>3, <2>6
  <2>9. Same(t * e, v, m)
    BY Zenon, <2>7, <2>8 DEF Same
  <2>10. (t * e) % m = v
    BY Zenon, <2>8, <2>9, ResidueIs
  <2> QED BY Zenon, <2>6, <2>10
<1>4. f \in [T -> W]
  BY DEF f
<1>5. f \in Bijection(T, W)
  <2>1. \A s, t \in T : f[s] = f[t] => s = t
    BY <1>2
  <2>2. \A v \in W : \E t \in T : f[t] = v
    BY Zenon, <1>3
  <2> HIDE DEF f
  <2> QED BY <1>4, <2>1, <2>2, Zenon DEF Bijection, Injection, Surjection, IsInjective
<1>6. Cardinality(T) = Cardinality(W)
  <2>1. ExistsBijection(T, W)
    BY <1>5, Zenon DEF ExistsBijection
  <2> QED BY <1>1, <2>1, FS_Bijection
<1> QED BY <1>1, <1>6

-----------------------------------------------------------------------------
(* The greatest common divisor, by Euclid's algorithm.                      *)

\* The recursion of Gcd, on pairs
IsGcd(f) ==
  f = [p \in Nat \X Nat |-> IF p[2] = 0 THEN p[1] ELSE f[<<p[2], p[1] % p[2]>>]]

LEMMA GcdExists == \E f : IsGcd(f)
<1> DEFINE D == Nat \X Nat
           B == {p \in D : p[2] = 0}
           b == [p \in D |-> p[1]]
           g == [p \in D |-> [v \in Nat |-> v]]
           next == [p \in D |-> <<p[2], p[1] % p[2]>>]
           mu == [p \in D |-> p[2]]
<1>0. ASSUME NEW p \in D \ B PROVE next[p] \in D /\ mu[next[p]] < mu[p]
  <2>1. p[1] \in Nat /\ p[2] \in Nat /\ p[2] > 0
    OBVIOUS
  <2>2. p[1] % p[2] \in 0 .. p[2] - 1
    BY <2>1, Division
  <2>3. next[p] = <<p[2], p[1] % p[2]>>
    OBVIOUS
  <2> QED BY <2>1, <2>2, <2>3
<1>1. GoesDown(D, mu, B, Nat, b, g, next)
  <2>1. mu \in [D -> Nat]
    OBVIOUS
  <2>2. \A p \in D \cap B : b[p] \in Nat
    OBVIOUS
  <2>3. \A p \in D : \A v \in Nat : g[p][v] \in Nat
    OBVIOUS
  <2> HIDE DEF D, B, b, g, next, mu
  <2> QED BY <1>0, <2>1, <2>2, <2>3 DEF GoesDown
<1>2. PICK f \in [D -> Nat] : IsDescent(f, D, B, b, g, next)
  <2> HIDE DEF D, B, b, g, next, mu
  <2> QED BY <1>1, DescentExists
<1>3. ASSUME NEW p \in D PROVE f[p] = IF p[2] = 0 THEN p[1] ELSE f[<<p[2], p[1] % p[2]>>]
  <2>1. f[p] = IF p \in B THEN b[p] ELSE g[p][f[next[p]]]
    <3> HIDE DEF D, B, b, g, next, mu
    <3> QED BY <1>2, DescentValue
  <2>2. CASE p \in B
    BY <2>1, <2>2
  <2>3. CASE p \notin B
    <3>1. next[p] \in D /\ f[next[p]] \in Nat
      <4> HIDE DEF D, B, b, g, next, mu
      <4> QED BY <1>0, <1>2, <2>3
    <3>2. g[p][f[next[p]]] = f[next[p]]
      BY <3>1
    <3>3. next[p] = <<p[2], p[1] % p[2]>>
      OBVIOUS
    <3>4. p[2] # 0
      BY <2>3
    <3> QED BY <2>1, <2>3, <3>2, <3>3, <3>4
  <2> QED BY <2>2, <2>3
<1>4. f = [p \in D |-> IF p[2] = 0 THEN p[1] ELSE f[<<p[2], p[1] % p[2]>>]]
  <2> HIDE DEF D, B, b, g, next, mu
  <2> QED BY <1>2, <1>3
<1> QED BY <1>4, Zenon DEF IsGcd

\* Euclid's step
LEMMA GcdIs ==
  ASSUME NEW a \in Nat, NEW b \in Nat
  PROVE  GcdOf(a, b) = IF b = 0 THEN a ELSE GcdOf(b, a % b)
<1>1. PICK f : IsGcd(f)
  BY GcdExists
<1>2. Gcd = CHOOSE h : IsGcd(h)
  BY Zenon DEF Gcd, IsGcd
<1>3. IsGcd(Gcd)
  BY <1>1, <1>2, Zenon
<1>4. Gcd = [p \in Nat \X Nat |-> IF p[2] = 0 THEN p[1] ELSE Gcd[<<p[2], p[1] % p[2]>>]]
  BY <1>3, Zenon DEF IsGcd
<1>5. Gcd[<<a, b>>] = IF b = 0 THEN a ELSE Gcd[<<b, a % b>>]
  <2> DEFINE p == <<a, b>>
  <2>1. p \in Nat \X Nat /\ p[1] = a /\ p[2] = b
    OBVIOUS
  <2> HIDE DEF p
  <2>2. Gcd[p] = IF p[2] = 0 THEN p[1] ELSE Gcd[<<p[2], p[1] % p[2]>>]
    BY <1>4, <2>1, Zenon
  <2> QED BY <2>1, <2>2 DEF p
<1> QED BY <1>5 DEF GcdOf

\* It divides both numbers and is a combination of them.
IsCommonDivisor(g, a, b) ==
  /\ g \in Nat /\ Divides(g, a) /\ Divides(g, b)
  /\ \E x, y \in Int : a * x + b * y = g

\* A step keeps the common divisors.
LEMMA CommonDivisorStep ==
  ASSUME NEW a \in Nat, NEW b \in Nat, b > 0, NEW g, IsCommonDivisor(g, b, a % b)
  PROVE  IsCommonDivisor(g, a, b)
<1> DEFINE j == a \div b
           r == a % b
<1>1. a = b * j + r /\ r \in Nat /\ j \in Int
  BY Division
<1>2. g \in Nat /\ Divides(g, b) /\ Divides(g, r) /\ \E x, y \in Int : b * x + r * y = g
  BY DEF IsCommonDivisor
<1> HIDE DEF j, r
<1>3. PICK x \in Int : \E y \in Int : b * x + r * y = g
  BY Zenon, <1>2
<1>4. PICK y \in Int : b * x + r * y = g
  BY <1>3
<1>5. Divides(g, a)
  <2>1. Divides(g, j * b + 1 * r)
    <3>1. \A c \in Int : Divides(g, j * b + c * r)
      BY <1>1, <1>2, DividesSum
    <3> QED BY <3>1
  <2>2. j * b + 1 * r = a
    BY <1>1
  <2> QED BY <2>1, <2>2
<1>6. a * y + b * (x - j * y) = g
  <2>1. r = a - b * j
    BY <1>1
  <2>2. b * x + (a - b * j) * y = g
    BY <1>4, <2>1
  <2>3. (a - b * j) * y = a * y - b * (j * y)
    BY <1>1
  <2>4. b * (x - j * y) = b * x - b * (j * y)
    BY <1>1
  <2>5. b * (j * y) \in Int /\ b * x \in Int /\ a * y \in Int
    BY <1>1
  <2> QED BY <2>2, <2>3, <2>4, <2>5
<1>7. x - j * y \in Int
  BY <1>1
<1>8. \E u, v \in Int : a * u + b * v = g
  BY Zenon, <1>6, <1>7
<1> QED BY Zenon, <1>2, <1>5, <1>8 DEF IsCommonDivisor

\* What Gcd computes divides both numbers, and is a combination of them.
LEMMA GcdIsCommonDivisor ==
  ASSUME NEW a \in Nat, NEW b \in Nat
  PROVE  IsCommonDivisor(GcdOf(a, b), a, b)
<1> DEFINE Right(y) == \A x \in Nat : IsCommonDivisor(GcdOf(x, y), x, y)
           I == {m \in Nat : \A y \in 0 .. m : Right(y)}
<1>1. Right(0)
  <2> SUFFICES ASSUME NEW x \in Nat PROVE IsCommonDivisor(GcdOf(x, 0), x, 0)
    OBVIOUS
  <2>1. GcdOf(x, 0) = x
    BY GcdIs
  <2>2. x = x * 1 /\ 0 = x * 0 /\ x * 1 + 0 * 0 = x
    OBVIOUS
  <2>3. Divides(x, x) /\ Divides(x, 0) /\ \E u, v \in Int : x * u + 0 * v = x
    BY <2>2 DEF Divides
  <2> QED BY <2>1, <2>3 DEF IsCommonDivisor
<1>2. ASSUME NEW m \in Nat, m \in I PROVE Right(m + 1)
  <2> SUFFICES ASSUME NEW x \in Nat PROVE IsCommonDivisor(GcdOf(x, m + 1), x, m + 1)
    OBVIOUS
  <2>1. m + 1 \in Nat /\ m + 1 > 0 /\ x % (m + 1) \in 0 .. m
    <3>1. m + 1 \in Nat /\ m + 1 > 0 /\ (m + 1) - 1 = m
      OBVIOUS
    <3> QED BY <3>1, Division
  <2>2. IsCommonDivisor(GcdOf(m + 1, x % (m + 1)), m + 1, x % (m + 1))
    BY <1>2, <2>1
  <2>3. GcdOf(x, m + 1) = GcdOf(m + 1, x % (m + 1))
    BY <2>1, GcdIs
  <2> QED BY <2>1, <2>2, <2>3, CommonDivisorStep
<1>3. 0 \in I
  BY <1>1
<1>4. ASSUME NEW m \in Nat, m \in I PROVE m + 1 \in I
  <2>1. \A y \in 0 .. m + 1 : y \in 0 .. m \/ y = m + 1
    OBVIOUS
  <2> HIDE DEF Right
  <2> QED BY <1>2, <1>4, <2>1
<1>5. Nat \subseteq I
  <2> HIDE DEF I
  <2> QED BY <1>3, <1>4, Induction
<1>6. Right(b)
  <2> HIDE DEF Right
  <2> QED BY <1>5
<1> QED BY <1>6

\* An odd divisor of a power of two is 1.
LEMMA OddDivisorOfTwoTo ==
  ASSUME NEW n \in Nat, NEW d \in Nat, d % 2 = 1, Divides(d, TwoTo[n])
  PROVE  d = 1
<1> DEFINE I == {k \in Nat : Divides(d, TwoTo[k]) => d = 1}
<1>1. 0 \in I
  <2> SUFFICES ASSUME Divides(d, TwoTo[0]) PROVE d = 1
    OBVIOUS
  <2>1. TwoTo[0] = 1
    BY TwoToIs
  <2>2. d <= 1 /\ d >= 1
    BY <2>1, DivisorIsSmall
  <2> QED BY <2>2
<1>2. ASSUME NEW k \in Nat, k \in I PROVE k + 1 \in I
  <2> SUFFICES ASSUME Divides(d, TwoTo[k + 1]) PROVE d = 1
    OBVIOUS
  <2>1. TwoTo[k + 1] = 2 * TwoTo[k] /\ TwoTo[k] \in Int
    BY TwoToIs
  <2>2. Divides(d, TwoTo[k])
    BY <2>1, OddDivisorOfDouble
  <2> QED BY <1>2, <2>2
<1>3. n \in I
  <2>1. Nat \subseteq I
    <3> HIDE DEF I
    <3> QED BY <1>1, <1>2, Induction
  <2> QED BY <2>1
<1> QED BY <1>3

\* Divisors of odd numbers are odd.
LEMMA OddFactor ==
  ASSUME NEW d \in Nat, NEW n \in Int, Divides(d, n), n % 2 = 1
  PROVE  d % 2 = 1
<1>1. PICK k \in Int : n = d * k
  BY DEF Divides
<1>2. CASE d % 2 = 0
  <2>1. PICK h \in Int : d = 2 * h
    BY <1>2
  <2>2. n = 2 * (h * k)
    BY <1>1, <2>1
  <2>3. h * k \in Int
    BY <2>1
  <2>4. n % 2 = 0
    BY <2>2, <2>3
  <2> QED BY <2>4
<1>3. d % 2 \in {0, 1}
  OBVIOUS
<1> QED BY <1>2, <1>3

-----------------------------------------------------------------------------
(* The gate.                                                                *)

\* The invariant of the gate: steps and time inside their words, a window that
\* fits the circle, and a golden gate whose steps differ by an odd number.
GateInv ==
  /\ accBits \in MinAccBits .. TimeBits - 1
  /\ stepA \in 0 .. Circle - 1 /\ stepB \in 0 .. Circle - 1
  /\ width \in Nat \ {0} /\ width <= (Circle - 1) \div 2
  /\ time \in 0 .. TimeWord - 1
  /\ golden => (stepA - stepB) % 2 = 1

\* Circles are even, and times wrap at a multiple of the circle.
LEMMA CircleIsEven ==
  ASSUME NEW bits \in MinAccBits .. TimeBits - 1
  PROVE  /\ bits \in Nat /\ TwoTo[bits] \in Nat \ {0} /\ TimeWord \in Nat \ {0}
         /\ Divides(2, TwoTo[bits]) /\ Divides(TwoTo[bits], TimeWord)
<1>1. bits \in Nat /\ bits - 1 \in Nat /\ (bits - 1) + 1 = bits /\ bits <= TimeBits /\ TimeBits \in Nat
  BY GroGateAssumption
<1>2. TwoTo[bits] = 2 * TwoTo[bits - 1] /\ TwoTo[bits - 1] \in Int
  BY <1>1, TwoToIs
<1>3. Divides(2, TwoTo[bits])
  BY <1>2 DEF Divides
<1> QED BY Zenon, <1>1, <1>3, TwoToIs, TwoToGrows DEF TimeWord

\* Reducing modulo an even number keeps the parity.
LEMMA ParityStays ==
  ASSUME NEW m \in Nat \ {0}, Divides(2, m), NEW x \in Int
  PROVE  (x % m) % 2 = x % 2
BY ResidueOfResidue

\* Steps of one parity differ by an even number.
LEMMA ParityOfDifference ==
  ASSUME NEW m \in Nat \ {0}, Divides(2, m), NEW x \in Int, NEW y \in Int
  PROVE  ((x % m) - (y % m)) % 2 = (x - y) % 2
<1> DEFINE u == x % m
           v == y % m
<1>1. u \in Int /\ v \in Int /\ u % 2 = x % 2 /\ v % 2 = y % 2
  BY ParityStays, Division
<1> HIDE DEF u, v
<1>2. (u - v) % 2 = (x - y) % 2
  BY <1>1
<1> QED BY <1>2 DEF u, v

\* The golden step is a number of the circle.
LEMMA GoldenStepIsNat ==
  ASSUME NEW a \in Steps
  PROVE  a \in Nat /\ GoldenStep(a) \in Nat
<1>1. a \in Nat /\ Fibonacci[1] \in Nat \ {0} /\ Fibonacci[2] \in Nat \ {0}
  BY GroGateAssumption
<1>2. a * Fibonacci[2] \in Nat
  BY <1>1
<1>3. ASSUME NEW x \in Nat, NEW y \in Nat \ {0} PROVE x \div y \in Nat
  OBVIOUS
<1> QED BY <1>1, <1>2, <1>3 DEF GoldenStep

\* The nudged step differs from the first by an odd number.
LEMMA NudgedIsOdd ==
  ASSUME NEW a \in Nat, NEW b \in Nat
  PROVE  Nudged(a, b) \in Nat /\ (a - Nudged(a, b)) % 2 = 1
BY DEF Nudged

\* What the constructor makes of two steps
LEMMA MadeIs ==
  ASSUME NEW bits \in MinAccBits .. TimeBits - 1, NEW a \in Nat, NEW b \in Nat,
         NEW w \in Widths, Made(bits, a, b, w)
  PROVE  /\ accBits \in MinAccBits .. TimeBits - 1
         /\ stepA \in 0 .. Circle - 1 /\ stepB \in 0 .. Circle - 1
         /\ width \in Nat \ {0} /\ width <= (Circle - 1) \div 2
         /\ time \in 0 .. TimeWord - 1
         /\ (stepA - stepB) % 2 = (a - b) % 2
<1>1. /\ accBits = bits /\ width = w /\ w # 0 /\ w <= (TwoTo[bits] - 1) \div 2 /\ time = 0
      /\ stepA = a % TwoTo[bits] /\ stepB = b % TwoTo[bits]
  BY DEF Made
<1>2. TwoTo[bits] \in Nat \ {0} /\ Divides(2, TwoTo[bits]) /\ TimeWord \in Nat \ {0}
  BY CircleIsEven
<1>3. w \in Nat
  BY GroGateAssumption
<1>4. Circle = TwoTo[bits]
  BY <1>1 DEF Circle
<1>5. stepA \in 0 .. Circle - 1 /\ stepB \in 0 .. Circle - 1
  BY <1>1, <1>2, <1>4, Division
<1>6. (stepA - stepB) % 2 = (a - b) % 2
  BY <1>1, <1>2, ParityOfDifference
<1>7. time \in 0 .. TimeWord - 1
  BY <1>1, <1>2
<1>8. width \in Nat \ {0} /\ width <= (Circle - 1) \div 2
  BY <1>1, <1>3, <1>4
<1> QED BY <1>1, <1>5, <1>6, <1>7, <1>8

\* The gate starts in it, and its steps keep it.
LEMMA GateInitial == GateInit => GateInv
<1> SUFFICES ASSUME GateInit PROVE GateInv
  OBVIOUS
<1>1. CASE golden = FALSE
  <2>1. PICK bits \in MinAccBits .. TimeBits - 1, w \in Widths, a \in Nat, b \in Nat :
          Made(bits, a, b, w)
    <3>1. CASE \E bits \in MinAccBits .. TimeBits - 1, a, b \in Steps, w \in Widths :
                 Made(bits, a, b, w)
      BY <3>1, GroGateAssumption
    <3> QED BY <1>1, <3>1 DEF GateInit
  <2> QED BY <1>1, <2>1, MadeIs DEF GateInv
<1>2. CASE golden = TRUE
  <2>1. PICK bits \in MinAccBits .. TimeBits - 1, a \in Steps, w \in Widths :
          Made(bits, a, Nudged(a, GoldenStep(a)), w)
    BY <1>2 DEF GateInit
  <2>2. a \in Nat /\ GoldenStep(a) \in Nat
    BY GoldenStepIsNat
  <2>3. Nudged(a, GoldenStep(a)) \in Nat /\ (a - Nudged(a, GoldenStep(a))) % 2 = 1
    BY <2>2, NudgedIsOdd
  <2> QED BY <1>2, <2>1, <2>2, <2>3, MadeIs DEF GateInv
<1> QED BY Zenon, <1>1, <1>2 DEF GateInit

LEMMA GateStepKeeps == GateInv /\ [Advance]_gateVars => GateInv'
<1> SUFFICES ASSUME GateInv, [Advance]_gateVars PROVE GateInv'
  OBVIOUS
<1>1. CASE Advance
  <2>1. TimeWord \in Nat \ {0}
    BY CircleIsEven DEF GateInv
  <2>2. (time + 1) % TimeWord \in 0 .. TimeWord - 1
    <3>1. time + 1 \in Int
      BY DEF GateInv
    <3> QED BY <2>1, <3>1, Division
  <2>3. time' \in 0 .. TimeWord - 1
    BY <1>1, <2>2 DEF Advance
  <2>4. /\ accBits' = accBits /\ stepA' = stepA /\ stepB' = stepB /\ width' = width
        /\ golden' = golden /\ Circle' = Circle
    BY <1>1 DEF Advance, Circle
  <2>5. TimeWord' = TimeWord
    BY DEF TimeWord
  <2> QED BY <2>3, <2>4, <2>5 DEF GateInv
<1>2. CASE UNCHANGED gateVars
  <2>1. /\ accBits' = accBits /\ stepA' = stepA /\ stepB' = stepB /\ width' = width
        /\ golden' = golden /\ Circle' = Circle /\ time' = time /\ TimeWord' = TimeWord
    BY <1>2 DEF gateVars, Circle, TimeWord
  <2> QED BY <2>1 DEF GateInv
<1> QED BY <1>1, <1>2

\* The divisor, the difference without it, and how many multiples of it fit
\* into the width
Common == GcdOf(StepDifference, Circle)
Turns == StepDifference \div Common
Reach == (width - 1) \div Common
\* The times modulo the period at which the window is open
OpenResidues == 0 .. Reach \cup (CoincidencePeriod - Reach) .. (CoincidencePeriod - 1)

\* The numbers of the gate, typed and related
LEMMA GateNumbers ==
  ASSUME GateInv
  PROVE  /\ Circle \in Nat \ {0} /\ TimeWord \in Nat \ {0} /\ StepDifference \in 0 .. Circle - 1
         /\ Common \in Nat \ {0} /\ CoincidencePeriod \in Nat \ {0}
         /\ Turns \in Nat /\ Reach \in Nat
         /\ Circle = Common * CoincidencePeriod /\ StepDifference = Common * Turns
         /\ Apart(Turns, CoincidencePeriod)
         /\ Common * Reach <= width - 1 /\ width - 1 < Common * (Reach + 1)
         /\ 2 * Reach < CoincidencePeriod
         /\ Divides(CoincidencePeriod, TimeWord)
         /\ Divides(Circle, TimeWord)
<1> DEFINE C == Circle
           d == StepDifference
           g == Common
           p == CoincidencePeriod
           e == Turns
           q == Reach
<1>1. C \in Nat \ {0} /\ TimeWord \in Nat \ {0} /\ Divides(C, TimeWord)
  BY CircleIsEven DEF GateInv, Circle
<1>2. d \in 0 .. C - 1
  <2>1. stepA - stepB \in Int
    BY <1>1 DEF GateInv
  <2> QED BY <1>1, <2>1, Division DEF StepDifference
<1>3. g \in Nat /\ Divides(g, d) /\ Divides(g, C) /\ \E x, y \in Int : d * x + C * y = g
  <2>1. IsCommonDivisor(g, d, C)
    BY <1>1, <1>2, GcdIsCommonDivisor DEF Common
  <2> QED BY <2>1 DEF IsCommonDivisor
<1>4. p = C \div g /\ e = d \div g /\ q = (width - 1) \div g
  BY DEF CoincidencePeriod, Common, Turns, Reach
<1>5. width \in Nat \ {0} /\ width <= (C - 1) \div 2
  BY DEF GateInv
<1> HIDE DEF C, d, g, p, e, q
<1>6. g >= 1
  BY <1>1, <1>3, DivisorIsSmall
<1>7. C = g * p /\ p \in Nat
  <2>1. C % g = 0
    BY <1>1, <1>3, <1>6, DividesResidue
  <2>2. C = g * (C \div g) + (C % g) /\ C \div g \in Int
    BY <1>1, <1>3, <1>6, Division
  <2>3. C \div g >= 0
    BY <1>1, <1>3, <1>6
  <2>4. C = g * p + 0 /\ p \in Int /\ p >= 0
    BY <1>4, <2>1, <2>2, <2>3, Zenon
  <2>5. g * p \in Int
    BY <1>3, <2>4
  <2> QED BY <2>4, <2>5
<1>8. d = g * e /\ e \in Nat
  <2>1. d % g = 0
    BY <1>1, <1>2, <1>3, <1>6, DividesResidue
  <2>2. d = g * (d \div g) + (d % g) /\ d \div g \in Int
    BY <1>1, <1>2, <1>3, <1>6, Division
  <2>3. d \div g >= 0
    BY <1>2, <1>3, <1>6
  <2>4. d = g * e + 0 /\ e \in Int /\ e >= 0
    BY <1>4, <2>1, <2>2, <2>3, Zenon
  <2>5. g * e \in Int
    BY <1>3, <2>4
  <2> QED BY <2>4, <2>5
<1>9. p # 0
  BY <1>1, <1>3, <1>7
<1>10. Apart(e, p)
  <2>1. PICK x \in Int : \E y \in Int : d * x + C * y = g
    BY <1>3
  <2>2. PICK y \in Int : d * x + C * y = g
    BY <2>1
  <2>3. (g * e) * x + (g * p) * y = g
    BY <1>7, <1>8, <2>2
  <2>4. (g * e) * x + (g * p) * y = g * (e * x + p * y)
    BY <1>3, <1>7, <1>8
  <2>5. e * x + p * y \in Int
    BY <1>7, <1>8
  <2>6. ASSUME NEW z \in Int, g * z = g PROVE z = 1
    BY <1>3, <1>6, <2>6
  <2>7. e * x + p * y = 1
    BY <2>3, <2>4, <2>5, <2>6
  <2> QED BY <2>7 DEF Apart
<1>11. q \in Nat /\ g * q <= width - 1 /\ width - 1 < g * (q + 1)
  <2>1. /\ width - 1 = g * ((width - 1) \div g) + ((width - 1) % g)
        /\ (width - 1) % g \in 0 .. g - 1 /\ (width - 1) \div g \in Int
    BY <1>3, <1>5, <1>6, Division
  <2>2. width - 1 = g * q + ((width - 1) % g) /\ q \in Int
    BY <1>4, <2>1
  <2>3. (width - 1) \div g >= 0
    BY <1>3, <1>5, <1>6
  <2>4. g * (q + 1) = g * q + g
    BY <1>3, <2>2
  <2>5. g * q \in Int
    BY <1>3, <2>2
  <2> QED BY <1>3, <1>4, <1>5, <2>1, <2>2, <2>3, <2>4, <2>5
<1>12. 2 * q < p
  <2>1. 2 * (width - 1) < C
    BY <1>1, <1>5
  <2>2. g * (2 * q) = 2 * (g * q) /\ g * (2 * q) \in Int /\ g * q \in Int
    BY <1>3, <1>11
  <2>3. g * (2 * q) < g * p
    BY <1>5, <1>7, <1>11, <2>1, <2>2
  <2> QED BY <1>3, <1>7, <1>11, <2>3
<1>13. Divides(p, TimeWord)
  <2>1. C = p * g
    BY <1>3, <1>7
  <2>2. Divides(p, C)
    BY <1>3, <2>1 DEF Divides
  <2> QED BY <1>1, <1>7, <2>2, DividesTransitive
<1>14. g \in Nat \ {0} /\ p \in Nat \ {0}
  BY <1>3, <1>6, <1>7, <1>9
<1> QED BY <1>1, <1>2, <1>7, <1>8, <1>10, <1>11, <1>12, <1>13, <1>14 DEF C, d, g, p, e, q

\* How far the phases are apart, around the circle
LEMMA PhaseDiffIs ==
  ASSUME GateInv, NEW t \in Nat
  PROVE  LET u == (t * StepDifference) % Circle
         IN  u \in 0 .. Circle - 1 /\ PhaseDiff(t) = IF 2 * u <= Circle THEN u ELSE Circle - u
<1> DEFINE C == Circle
           A == PhaseA(t)
           B == PhaseB(t)
           d == StepDifference
           x == t * d
           u == x % C
<1>1. C \in Nat \ {0} /\ TimeWord \in Nat \ {0} /\ Divides(C, TimeWord) /\ d \in Int
  BY GateNumbers
<1>2. Divides(2, C)
  BY CircleIsEven DEF GateInv, Circle
<1>3. stepA \in Int /\ stepB \in Int
  BY <1>1 DEF GateInv
<1> DEFINE a == t * stepA
           b == t * stepB
<1>4. a \in Int /\ b \in Int /\ x \in Int
  BY <1>1, <1>3
<1>5. A = a % C /\ B = b % C
  <2>1. A = (a % TimeWord) % C /\ B = (b % TimeWord) % C
    BY DEF PhaseA, PhaseB
  <2> HIDE DEF A, B, a, b, C
  <2> QED BY <1>1, <1>4, <2>1, ResidueOfResidue
<1>6. Same(x, a - b, C)
  <2>1. Same(d, stepA - stepB, C)
    <3>1. stepA - stepB \in Int /\ d = (stepA - stepB) % C
      BY <1>3 DEF StepDifference
    <3> HIDE DEF d, C
    <3> QED BY <1>1, <3>1, ResidueIsSame
  <2>2. PICK k \in Int : d = (stepA - stepB) + C * k
    BY <2>1 DEF Same
  <2> HIDE DEF C, d
  <2>3. t * d = t * ((stepA - stepB) + C * k)
    BY <2>2
  <2>4. t * ((stepA - stepB) + C * k) = (t * stepA - t * stepB) + C * (t * k)
    BY <1>1, <1>3
  <2>5. x = (a - b) + C * (t * k) /\ t * k \in Int
    BY <2>3, <2>4
  <2> HIDE DEF x, a, b
  <2> QED BY <2>5 DEF Same
<1>7. u \in 0 .. C - 1 /\ Same(u, x, C)
  <2> HIDE DEF x, C
  <2> QED BY <1>1, <1>4, ResidueIsSame
<1>8. /\ A \in 0 .. C - 1 /\ Same(A, a, C)
      /\ B \in 0 .. C - 1 /\ Same(B, b, C)
  <2> HIDE DEF a, b, C, A, B
  <2> QED BY SMTT(30), <1>1, <1>4, <1>5, ResidueIsSame
<1> HIDE DEF a, b, C, A, B, u, x, d
<1>9. Same(u, A - B, C)
  <2>1. Same(A - B, a - b, C) /\ A - B \in Int /\ a - b \in Int
    BY <1>1, <1>4, <1>8, SameSum
  <2>2. Same(a - b, A - B, C)
    BY <1>1, <2>1, SameSymmetric
  <2>3. Same(u, a - b, C)
    BY <1>1, <1>4, <1>6, <1>7, <2>1, SameTransitive
  <2> QED BY <1>1, <1>7, <2>1, <2>2, <2>3, SameTransitive
<1>10. u = A - B \/ u = A - B + C
  <2>1. PICK k \in Int : u = (A - B) + C * k
    BY <1>9 DEF Same
  <2>2. C * k < C * 2 /\ C * k > C * (-1)
    BY <1>1, <1>7, <1>8, <2>1
  <2>3. k \in {0, 1}
    BY <1>1, <2>2
  <2>4. CASE k = 0
    BY <1>1, <1>8, <2>1, <2>4
  <2>5. CASE k = 1
    BY <1>1, <1>8, <2>1, <2>5
  <2> QED BY <2>3, <2>4, <2>5
<1>11. PhaseDiff(t) = LET raw == IF A >= B THEN A - B ELSE B - A
                      IN  IF raw > C \div 2 THEN C - raw ELSE raw
  BY DEF PhaseDiff, A, B, C
<1>12. PICK h \in Int : C = 2 * h
  BY <1>2 DEF Divides
<1>13. C \div 2 = h
  BY <1>12
<1>14. PhaseDiff(t) = IF 2 * u <= C THEN u ELSE C - u
  BY <1>1, <1>7, <1>8, <1>10, <1>11, <1>12, <1>13
<1> QED BY <1>7, <1>14 DEF u, x, d, C

\* A time is open when its residue is near 0 on the circle of one period.
LEMMA WindowIs ==
  ASSUME GateInv, NEW t \in Nat
  PROVE  /\ IsWindow(t) \in BOOLEAN
         /\ IsWindow(t) <=> (t * Turns) % CoincidencePeriod \in OpenResidues
<1> DEFINE C == Circle
           g == Common
           p == CoincidencePeriod
           e == Turns
           q == Reach
           x == t * e
           v == x % p
           u == (t * StepDifference) % C
<1>1. /\ C \in Nat \ {0} /\ g \in Nat \ {0} /\ p \in Nat \ {0} /\ e \in Nat /\ q \in Nat
      /\ C = g * p /\ StepDifference = g * e
      /\ g * q <= width - 1 /\ width - 1 < g * (q + 1) /\ 2 * q < p
  BY GateNumbers
<1>2. width \in Nat
  BY DEF GateInv
<1>3. u \in 0 .. C - 1 /\ PhaseDiff(t) = IF 2 * u <= C THEN u ELSE C - u
  BY PhaseDiffIs
<1>4. x \in Int
  BY <1>1
<1>5. v \in 0 .. p - 1
  <2> HIDE DEF x, p
  <2> QED BY <1>1, <1>4, Division
<1>6. u = g * v
  <2>1. t * (g * e) = g * x
    BY <1>1
  <2>2. u = (g * x) % (g * p)
    BY <1>1, <2>1
  <2> HIDE DEF x, p, g, u
  <2>3. (g * x) % (g * p) = g * (x % p)
    <3>1. g \in Nat /\ g > 0 /\ p \in Nat /\ p > 0
      BY <1>1
    <3> QED BY <1>4, <3>1, ScaledResidue
  <2> QED BY <2>2, <2>3 DEF v
<1>7. IsWindow(t) = (PhaseDiff(t) < width)
  BY DEF IsWindow
<1>8. OpenResidues = 0 .. q \cup (p - q) .. (p - 1)
  BY DEF OpenResidues
<1>9. v = (t * Turns) % CoincidencePeriod
  OBVIOUS
<1> HIDE DEF C, g, p, e, q, x, v, u
<1>10. ASSUME NEW y \in Nat PROVE g * y < width <=> y <= q
  <2>1. ASSUME y <= q PROVE g * y < width
    <3>1. g * y <= g * q
      BY <1>1, <2>1
    <3>2. g * y \in Int /\ g * q \in Int
      BY <1>1
    <3> QED BY <1>1, <1>2, <3>1, <3>2
  <2>2. ASSUME y >= q + 1 PROVE ~ (g * y < width)
    <3>1. g * y >= g * (q + 1)
      BY <1>1, <2>2
    <3>2. g * y \in Int /\ g * (q + 1) \in Int
      BY <1>1
    <3> QED BY <1>1, <1>2, <3>1, <3>2
  <2> QED BY <1>1, <2>1, <2>2
<1>11. p - v \in Nat /\ g * (p - v) = C - u
  <2>1. p - v \in Nat
    BY <1>1, <1>5
  <2>2. g * (p - v) = g * p - g * v
    BY <1>1, <1>5
  <2> QED BY <1>1, <1>6, <2>1, <2>2
<1>12. u < width <=> v <= q
  BY <1>5, <1>6, <1>10
<1>13. C - u < width <=> p - v <= q
  BY <1>10, <1>11
<1>14. PhaseDiff(t) < width <=> u < width \/ C - u < width
  BY <1>1, <1>2, <1>3
<1>15. PhaseDiff(t) < width <=> v \in 0 .. q \cup (p - q) .. (p - 1)
  BY <1>1, <1>5, <1>12, <1>13, <1>14
<1>16. (PhaseDiff(t) < width) \in BOOLEAN
  OBVIOUS
<1> QED BY Zenon, <1>7, <1>8, <1>9, <1>15, <1>16

\* A window comes back after one period, also when the time has wrapped.
LEMMA WindowComesBack ==
  ASSUME GateInv
  PROVE  IsWindow((time + CoincidencePeriod) % TimeWord) = IsWindow(time)
<1> DEFINE p == CoincidencePeriod
           e == Turns
           w == TimeWord
           s == (time + p) % w
<1>1. p \in Nat \ {0} /\ e \in Nat /\ w \in Nat \ {0} /\ Divides(p, w) /\ time \in Nat
  BY GateNumbers DEF GateInv
<1> HIDE DEF p, e, w
<1>2. s \in Nat /\ Same(s, time + p, w)
  <2>1. time + p \in Int
    BY <1>1
  <2>2. ASSUME NEW x \in Int PROVE x % w \in Nat /\ Same(x % w, x, w)
    BY <1>1, ResidueIsSame
  <2> QED BY <2>1, <2>2
<1> HIDE DEF s
<1>3. Same(s, time, p)
  <2>1. Divides(w, s - (time + p)) /\ time + p \in Int
    BY <1>1, <1>2, DividesSame
  <2>2. Divides(p, s - (time + p)) /\ s - (time + p) \in Int
    BY <1>1, <1>2, <2>1, DividesTransitive
  <2>3. Same(s, time + p, p)
    BY <1>1, <1>2, <2>1, <2>2, DividesSame
  <2>4. Same(time + p, time, p)
    <3>1. time + p = time + p * 1
      BY <1>1
    <3> QED BY <3>1 DEF Same
  <2> QED BY <1>1, <1>2, <2>1, <2>3, <2>4, SameTransitive
<1>4. (s * e) % p = (time * e) % p
  <2>1. Same(s * e, time * e, p) /\ s * e \in Int /\ time * e \in Int
    <3>1. Same(e, e, p)
      BY <1>1, SameReflexive
    <3> QED BY <1>1, <1>2, <1>3, <3>1, SameProduct
  <2>2. ASSUME NEW x \in Int, NEW y \in Int, Same(x, y, p) PROVE x % p = y % p
    BY <1>1, <2>2, SameResidue
  <2> QED BY <2>1, <2>2
<1>5. /\ IsWindow(s) \in BOOLEAN /\ IsWindow(time) \in BOOLEAN
      /\ IsWindow(s) <=> (s * e) % p \in OpenResidues
      /\ IsWindow(time) <=> (time * e) % p \in OpenResidues
  BY <1>1, <1>2, WindowIs DEF e, p
<1>6. IsWindow(s) = IsWindow(time)
  BY <1>4, <1>5
<1> QED BY <1>6 DEF s, p, w

\* Of one period's times, those near 0 on the circle are open, 0 among them.
LEMMA WindowsOfAPeriod ==
  ASSUME GateInv, NEW a \in Nat
  PROVE  LET T == {t \in a .. a + CoincidencePeriod - 1 : IsWindow(t)}
         IN  Cardinality(T) = 2 * Reach + 1 /\ T # {}
<1> DEFINE p == CoincidencePeriod
           e == Turns
           q == Reach
           T == {t \in a .. a + p - 1 : IsWindow(t)}
           S == {t \in a .. a + p - 1 : (t * e) % p \in OpenResidues}
<1>1. p \in Nat \ {0} /\ e \in Nat /\ q \in Nat /\ 2 * q < p /\ Apart(e, p)
  BY GateNumbers
<1>2. T = S
  <2>1. \A t \in a .. a + p - 1 : t \in Nat
    BY <1>1
  <2>2. ASSUME NEW t \in a .. a + p - 1
        PROVE  IsWindow(t) <=> (t * e) % p \in OpenResidues
    BY <2>1, WindowIs
  <2> HIDE DEF p, e
  <2> QED BY <2>2
<1>3. OpenResidues = 0 .. q \cup (p - q) .. (p - 1)
  BY DEF OpenResidues
<1> HIDE DEF p, e, q
<1>4. OpenResidues \in SUBSET (0 .. p - 1)
  BY <1>1, <1>3
<1>5. IsFiniteSet(S) /\ Cardinality(S) = Cardinality(OpenResidues)
  <2>1. p \in Nat /\ p > 0 /\ e \in Int /\ a \in Int
    BY <1>1
  <2>2. S = {t \in a .. a + p - 1 : (t * e) % p \in OpenResidues}
    OBVIOUS
  <2> HIDE DEF S, T
  <2> QED BY <1>1, <1>4, <2>1, <2>2, EveryResidueOnce
<1>6. Cardinality(OpenResidues) = 2 * q + 1
  <2> DEFINE L == 0 .. q
             H == (p - q) .. (p - 1)
  <2>1. IsFiniteSet(L) /\ Cardinality(L) = q + 1
    <3>1. q \in Int /\ 0 \in Int /\ ~ (0 > q)
      BY <1>1
    <3> QED BY <3>1, FS_Interval
  <2>2. IsFiniteSet(H) /\ Cardinality(H) = q
    <3>1. p - q \in Int /\ p - 1 \in Int
      BY <1>1
    <3>2. Cardinality(H) = IF p - q > p - 1 THEN 0 ELSE (p - 1) - (p - q) + 1
      BY <3>1, FS_Interval
    <3>3. IsFiniteSet(H)
      BY <3>1, FS_Interval
    <3> QED BY <1>1, <3>2, <3>3
  <2>3. L \cap H = {}
    BY <1>1
  <2> HIDE DEF L, H
  <2>4. Cardinality(L \cup H) = Cardinality(L) + Cardinality(H) - Cardinality(L \cap H)
    BY <2>1, <2>2, FS_Union
  <2>5. Cardinality(L \cap H) = 0
    BY <2>3, FS_EmptySet
  <2>6. Cardinality(L \cup H) = 2 * q + 1
    BY <1>1, <2>1, <2>2, <2>4, <2>5
  <2> QED BY <1>3, <2>6 DEF L, H
<1> HIDE DEF T, S
<1>7. Cardinality(T) = 2 * q + 1
  BY <1>2, <1>5, <1>6
<1>8. T # {}
  <2>1. Cardinality(T) # 0
    BY <1>1, <1>7
  <2> QED BY <2>1, FS_EmptySet
<1> QED BY <1>7, <1>8 DEF T, p, q

\* Steps that differ by an odd number have the whole circle as their period.
LEMMA GoldenIsMaximal ==
  ASSUME GateInv, golden
  PROVE  IsMaximalPeriod /\ CoincidencePeriod = Circle
<1>1. /\ Circle \in Nat \ {0} /\ Common \in Nat \ {0} /\ CoincidencePeriod \in Nat
      /\ StepDifference \in Nat /\ Turns \in Nat
      /\ Circle = Common * CoincidencePeriod /\ StepDifference = Common * Turns
  BY GateNumbers
<1>2. StepDifference % 2 = 1
  <2>1. stepA - stepB \in Int /\ (stepA - stepB) % 2 = 1 /\ Divides(2, Circle)
    BY <1>1, CircleIsEven DEF GateInv, Circle
  <2> QED BY <1>1, <2>1, ParityStays DEF StepDifference
<1>3. Common % 2 = 1
  <2>1. Divides(Common, StepDifference)
    BY <1>1 DEF Divides
  <2> QED BY <1>1, <1>2, <2>1, OddFactor
<1>4. Common = 1
  <2>1. Divides(Common, Circle)
    BY <1>1 DEF Divides
  <2>2. accBits \in Nat
    BY CircleIsEven DEF GateInv
  <2> QED BY <1>1, <1>3, <2>1, <2>2, OddDivisorOfTwoTo DEF Circle
<1>5. CoincidencePeriod = Circle
  BY <1>1, <1>4
<1> QED BY <1>2, <1>5 DEF IsMaximalPeriod

\* Within a period of any time there is a window for the search to find.
LEMMA WindowIsFound ==
  ASSUME GateInv, time + CoincidencePeriod < TimeWord
  PROVE  NextWindow(time, CoincidencePeriod) # NoWindow
<1> DEFINE p == CoincidencePeriod
           limit == IF time + p >= TimeWord THEN TimeWord - 1 ELSE time + p
           open == {t \in time .. limit - 1 : IsWindow(t)}
           start == Earliest(open)
           closed == {t \in start .. limit - 1 : ~ IsWindow(t)} \cup {limit}
<1>1. time \in Nat /\ p \in Nat /\ TimeWord \in Nat
  BY GateNumbers DEF GateInv
<1>2. limit = time + p
  BY <1>1
<1>3. open # {}
  <2>1. {t \in time .. time + CoincidencePeriod - 1 : IsWindow(t)} # {}
    BY Zenon, <1>1, WindowsOfAPeriod
  <2>2. limit - 1 = time + p - 1
    <3> HIDE DEF limit
    <3> QED BY <1>1, <1>2
  <2> HIDE DEF limit
  <2> QED BY <2>1, <2>2, Zenon DEF p
<1>4. open \subseteq Nat
  BY <1>1, <1>2
<1>5. start \in open
  <2> HIDE DEF open
  <2>1. \E t \in open : \A u \in open : t <= u
    BY Zenon, <1>3, <1>4, LeastElement
  <2> QED BY <2>1 DEF Earliest
<1>6. start # -1
  <2> HIDE DEF open, start
  <2> QED BY <1>4, <1>5
<1>7. NextWindow(time, CoincidencePeriod) =
        IF open = {} THEN NoWindow ELSE [start |-> start, end |-> Earliest(closed)]
  BY DEF NextWindow
<1> HIDE DEF open, start, closed
<1>8. NextWindow(time, CoincidencePeriod) = [start |-> start, end |-> Earliest(closed)]
  BY <1>3, <1>7
<1>9. NextWindow(time, CoincidencePeriod).start # NoWindow.start
  BY <1>6, <1>8 DEF NoWindow
<1> QED BY <1>9

\* The windows of every gate recur (WindowsRecur): for any number of bits, any
\* increments and any width that the constructors accept, from any time on.
THEOREM GateWindowsRecur == GateSpec => []WindowsRecur
<1>1. GateInit => GateInv
  BY GateInitial
<1>2. GateInv /\ [Advance]_gateVars => GateInv'
  BY GateStepKeeps
<1>3. GateInv => WindowsRecur
  <2> SUFFICES ASSUME GateInv PROVE WindowsRecur
    OBVIOUS
  <2>1. IsWindow((time + CoincidencePeriod) % TimeWord) = IsWindow(time)
    BY WindowComesBack
  <2>2. ASSUME time + CoincidencePeriod < TimeWord
        PROVE  /\ NextWindow(time, CoincidencePeriod) # NoWindow
               /\ WindowsIn(time, time + CoincidencePeriod)
                    = 2 * ((width - 1) \div GcdOf(StepDifference, Circle)) + 1
    <3>1. time \in Nat
      BY GateNumbers DEF GateInv
    <3>2. WindowsIn(time, time + CoincidencePeriod) = 2 * Reach + 1
      <4>1. Cardinality({t \in time .. time + CoincidencePeriod - 1 : IsWindow(t)})
              = 2 * Reach + 1
        BY <3>1, WindowsOfAPeriod
      <4>2. time + CoincidencePeriod - 1 = (time + CoincidencePeriod) - 1
        BY <3>1, GateNumbers
      <4> QED BY <4>1, <4>2, Zenon DEF WindowsIn
    <3> QED BY <2>2, <3>2, WindowIsFound DEF Reach, Common
  <2>3. golden => IsMaximalPeriod /\ CoincidencePeriod = Circle
    BY GoldenIsMaximal
  <2> QED BY <2>1, <2>2, <2>3 DEF WindowsRecur
<1> QED BY <1>1, <1>2, <1>3, PTL DEF GateSpec

-----------------------------------------------------------------------------
(* Inverses.                                                                *)

\* The recursion of Euclid
IsEuclid(f) ==
  f = [p \in Nat \X Nat |->
         IF p[1] = 0 THEN <<p[2], 0, 1>>
         ELSE LET e == f[<<p[2] % p[1], p[1]>>]
              IN  <<e[1], e[3] - (p[2] \div p[1]) * e[2], e[2]>>]

\* Its step back from the remainder
EuclidStep(a, b, e) == <<e[1], e[3] - (b \div a) * e[2], e[2]>>

LEMMA EuclidStepIs ==
  ASSUME NEW a \in Nat, a > 0, NEW b \in Nat, NEW e \in Nat \X Int \X Int
  PROVE  EuclidStep(a, b, e) \in Nat \X Int \X Int
<1>1. b \div a \in Int
  BY Division
<1>2. e[1] \in Nat /\ e[2] \in Int /\ e[3] \in Int
  OBVIOUS
<1>3. (b \div a) * e[2] \in Int
  <2>1. \A x, y \in Int : x * y \in Int
    OBVIOUS
  <2> QED BY <1>1, <1>2, <2>1
<1>4. e[3] - (b \div a) * e[2] \in Int
  BY <1>2, <1>3
<1> QED BY <1>2, <1>4 DEF EuclidStep

\* The recursion has a value, since the first of the pair decreases.
LEMMA EuclidExists == \E f : IsEuclid(f)
<1> DEFINE D == Nat \X Nat
           S == Nat \X Int \X Int
           B == {p \in D : p[1] = 0}
           b == [p \in D |-> <<p[2], 0, 1>>]
           g == [p \in D |-> [e \in S |-> EuclidStep(p[1], p[2], e)]]
           next == [p \in D |-> <<p[2] % p[1], p[1]>>]
           mu == [p \in D |-> p[1]]
<1>0. ASSUME NEW p \in D \ B PROVE next[p] \in D /\ mu[next[p]] < mu[p]
  <2>1. p[1] \in Nat /\ p[2] \in Nat /\ p[1] > 0
    OBVIOUS
  <2>2. p[2] % p[1] \in 0 .. p[1] - 1
    BY <2>1, Division
  <2>3. next[p] = <<p[2] % p[1], p[1]>>
    OBVIOUS
  <2> QED BY <2>1, <2>2, <2>3
<1>1. GoesDown(D, mu, B, S, b, g, next)
  <2>1. mu \in [D -> Nat]
    OBVIOUS
  <2>2. \A p \in D \cap B : b[p] \in S
    OBVIOUS
  <2>3. ASSUME NEW p \in D \ B, NEW e \in S PROVE g[p][e] \in S
    <3>1. g[p][e] = EuclidStep(p[1], p[2], e)
      OBVIOUS
    <3>2. p[1] \in Nat /\ p[1] > 0 /\ p[2] \in Nat
      OBVIOUS
    <3> QED BY <3>1, <3>2, EuclidStepIs
  <2> HIDE DEF D, B, S, b, g, next, mu
  <2> QED BY <1>0, <2>1, <2>2, <2>3 DEF GoesDown
<1>2. PICK f \in [D -> S] : IsDescent(f, D, B, b, g, next)
  <2> HIDE DEF D, B, S, b, g, next, mu
  <2> QED BY <1>1, DescentExists
<1>3. ASSUME NEW p \in D
      PROVE  f[p] = IF p[1] = 0 THEN <<p[2], 0, 1>>
                    ELSE EuclidStep(p[1], p[2], f[<<p[2] % p[1], p[1]>>])
  <2>1. f[p] = IF p \in B THEN b[p] ELSE g[p][f[next[p]]]
    <3> HIDE DEF D, B, b, g, next, mu
    <3> QED BY <1>2, DescentValue
  <2>2. CASE p \in B
    BY <2>1, <2>2
  <2>3. CASE p \notin B
    <3>1. next[p] \in D /\ f[next[p]] \in S
      <4> HIDE DEF D, B, b, g, next, mu
      <4> QED BY <1>0, <1>2, <2>3
    <3>2. g[p][f[next[p]]] = EuclidStep(p[1], p[2], f[next[p]])
      <4> HIDE DEF next
      <4> QED BY <3>1
    <3>3. next[p] = <<p[2] % p[1], p[1]>>
      OBVIOUS
    <3>4. p[1] # 0
      BY <2>3
    <3> HIDE DEF D, B, b, g, next, mu
    <3> QED BY <2>1, <2>3, <3>2, <3>3, <3>4
  <2> QED BY <2>2, <2>3
<1>4. f = [p \in D |-> IF p[1] = 0 THEN <<p[2], 0, 1>>
                       ELSE EuclidStep(p[1], p[2], f[<<p[2] % p[1], p[1]>>])]
  <2> HIDE DEF D, B, b, g, next, mu
  <2> QED BY <1>2, <1>3
<1> QED BY <1>4, ZenonT(60) DEF IsEuclid, EuclidStep

\* So ExtendedGcd takes the step.
LEMMA ExtendedGcdStep ==
  ASSUME NEW a \in Nat, NEW b \in Nat
  PROVE  ExtendedGcd(a, b) = IF a = 0 THEN <<b, 0, 1>>
                             ELSE EuclidStep(a, b, ExtendedGcd(b % a, a))
<1>1. PICK f : IsEuclid(f)
  BY EuclidExists
<1>2. Euclid = CHOOSE h : IsEuclid(h)
  BY Zenon DEF Euclid, IsEuclid
<1>3. IsEuclid(Euclid)
  BY <1>1, <1>2, Zenon
<1>4. Euclid = [p \in Nat \X Nat |->
                  IF p[1] = 0 THEN <<p[2], 0, 1>>
                  ELSE EuclidStep(p[1], p[2], Euclid[<<p[2] % p[1], p[1]>>])]
  BY <1>3, Zenon DEF IsEuclid, EuclidStep
<1> DEFINE p == <<a, b>>
<1>5. p \in Nat \X Nat /\ p[1] = a /\ p[2] = b
  OBVIOUS
<1> HIDE DEF p
<1>6. Euclid[p] = IF p[1] = 0 THEN <<p[2], 0, 1>>
                  ELSE EuclidStep(p[1], p[2], Euclid[<<p[2] % p[1], p[1]>>])
  BY <1>4, <1>5, Zenon
<1> QED BY <1>5, <1>6 DEF p, ExtendedGcd

\* The common divisor and the coefficients that make it
IsBezout(e, a, b) ==
  /\ e \in Nat \X Int \X Int
  /\ Divides(e[1], a) /\ Divides(e[1], b)
  /\ a * e[2] + b * e[3] = e[1]

\* The step keeps the combination.
LEMMA BezoutStep ==
  ASSUME NEW a \in Nat, a > 0, NEW b \in Nat, NEW e, IsBezout(e, b % a, a)
  PROVE  IsBezout(EuclidStep(a, b, e), a, b)
<1> DEFINE j == b \div a
           r == b % a
           g == e[1]
           x == e[2]
           y == e[3]
<1>1. b = a * j + r /\ r \in Nat /\ j \in Int
  BY Division
<1>2. /\ g \in Nat /\ x \in Int /\ y \in Int
      /\ Divides(g, r) /\ Divides(g, a) /\ r * x + a * y = g
  BY DEF IsBezout
<1>3. EuclidStep(a, b, e) = <<g, y - j * x, x>>
  BY DEF EuclidStep
<1> HIDE DEF j, r, g, x, y
<1>4. Divides(g, b)
  <2>1. \A c \in Int : Divides(g, j * a + c * r)
    BY <1>1, <1>2, DividesSum
  <2>2. j * a + 1 * r = b
    BY <1>1
  <2> QED BY <2>1, <2>2
<1>5. a * (y - j * x) + b * x = g
  <2>1. r = b - a * j
    BY <1>1
  <2>2. (b - a * j) * x + a * y = g
    BY <1>2, <2>1
  <2>3. (b - a * j) * x = b * x - a * (j * x)
    BY <1>1, <1>2
  <2>4. a * (y - j * x) = a * y - a * (j * x)
    BY <1>1, <1>2
  <2>5. a * (j * x) \in Int /\ b * x \in Int /\ a * y \in Int
    BY <1>1, <1>2
  <2> QED BY <2>2, <2>3, <2>4, <2>5
<1>6. y - j * x \in Int
  BY <1>1, <1>2
<1> DEFINE z == y - j * x
<1>7. z \in Int /\ a * z + b * x = g
  BY <1>5, <1>6
<1> HIDE DEF z
<1>8. IsBezout(<<g, z, x>>, a, b)
  BY <1>2, <1>4, <1>7 DEF IsBezout
<1> QED BY <1>3, <1>8 DEF z

\* The result divides both and is a combination of them.
LEMMA ExtendedGcdIs ==
  ASSUME NEW a \in Nat, NEW b \in Nat
  PROVE  IsBezout(ExtendedGcd(a, b), a, b)
<1> DEFINE Right(x) == \A y \in Nat : IsBezout(ExtendedGcd(x, y), x, y)
           I == {m \in Nat : \A x \in 0 .. m : Right(x)}
<1>1. Right(0)
  <2> SUFFICES ASSUME NEW y \in Nat PROVE IsBezout(ExtendedGcd(0, y), 0, y)
    OBVIOUS
  <2>1. ExtendedGcd(0, y) = <<y, 0, 1>>
    BY ExtendedGcdStep
  <2>2. y = y * 1 /\ 0 = y * 0 /\ 0 * 0 + y * 1 = y
    OBVIOUS
  <2>3. Divides(y, y) /\ Divides(y, 0)
    BY <2>2 DEF Divides
  <2>4. IsBezout(<<y, 0, 1>>, 0, y)
    BY <2>2, <2>3 DEF IsBezout
  <2> QED BY <2>1, <2>4
<1>2. ASSUME NEW m \in Nat, m \in I PROVE Right(m + 1)
  <2> SUFFICES ASSUME NEW y \in Nat PROVE IsBezout(ExtendedGcd(m + 1, y), m + 1, y)
    OBVIOUS
  <2> DEFINE n == m + 1
  <2>1. n \in Nat /\ n > 0 /\ n - 1 = m
    OBVIOUS
  <2>2. y % n \in 0 .. m
    <3> HIDE DEF n
    <3> QED BY <2>1, Division
  <2>3. IsBezout(ExtendedGcd(y % n, n), y % n, n)
    <3> HIDE DEF n
    <3> QED BY <1>2, <2>1, <2>2
  <2> HIDE DEF n
  <2>4. ExtendedGcd(n, y) = EuclidStep(n, y, ExtendedGcd(y % n, n))
    BY <2>1, ExtendedGcdStep
  <2>5. IsBezout(ExtendedGcd(n, y), n, y)
    BY <2>1, <2>3, <2>4, BezoutStep
  <2> QED BY <2>5 DEF n
<1>3. 0 \in I
  BY <1>1
<1>4. ASSUME NEW m \in Nat, m \in I PROVE m + 1 \in I
  <2>1. \A x \in 0 .. m + 1 : x \in 0 .. m \/ x = m + 1
    OBVIOUS
  <2> HIDE DEF Right
  <2> QED BY <1>2, <1>4, <2>1
<1>5. Nat \subseteq I
  <2> HIDE DEF I
  <2> QED BY <1>3, <1>4, Induction
<1>6. Right(a)
  <2> HIDE DEF Right
  <2> QED BY <1>5
<1> QED BY <1>6

\* The test of the code is the one of the lemmas.
LEMMA CoprimeIsApart ==
  ASSUME NEW a \in Nat, NEW b \in Nat
  PROVE  Coprime(a, b) <=> Apart(a, b)
<1> DEFINE e == ExtendedGcd(a, b)
<1>1. /\ e[1] \in Nat /\ e[2] \in Int /\ e[3] \in Int
      /\ Divides(e[1], a) /\ Divides(e[1], b) /\ a * e[2] + b * e[3] = e[1]
  BY ExtendedGcdIs DEF IsBezout
<1>2. Coprime(a, b) <=> e[1] = 1
  BY DEF Coprime
<1> HIDE DEF e
<1>3. ASSUME e[1] = 1 PROVE Apart(a, b)
  <2>1. a * e[2] + b * e[3] = 1
    BY <1>1, <1>3
  <2> QED BY Zenon, <1>1, <2>1 DEF Apart
<1>4. ASSUME Apart(a, b) PROVE e[1] = 1
  <2>1. PICK x \in Int : \E y \in Int : a * x + b * y = 1
    BY <1>4 DEF Apart
  <2>2. PICK y \in Int : a * x + b * y = 1
    BY <2>1
  <2>3. Divides(e[1], x * a + y * b)
    BY <1>1, DividesSum
  <2>4. x * a + y * b = 1
    BY <2>2
  <2>5. e[1] >= 1 /\ e[1] <= 1
    BY <1>1, <2>3, <2>4, DivisorIsSmall
  <2> QED BY <1>1, <2>5
<1> QED BY <1>2, <1>3, <1>4

\* The inverse is one.
LEMMA ModInverseIs ==
  ASSUME NEW m \in Nat, m > 0, NEW a \in Nat, Apart(a, m)
  PROVE  ModInverse(a, m) \in 0 .. m - 1 /\ Same(a * ModInverse(a, m), 1, m)
<1> DEFINE r == a % m
           e == ExtendedGcd(r, m)
           x == e[2]
           i == x % m
<1>1. r \in Nat /\ Same(r, a, m) /\ Same(a, r, m)
  BY ResidueIsSame
<1>2. Apart(r, m)
  BY <1>1, ApartResidue
<1>3. x \in Int /\ e[3] \in Int /\ e[1] = 1 /\ r * x + m * e[3] = e[1]
  <2> HIDE DEF r
  <2>1. e[1] = 1
    BY <1>1, <1>2, CoprimeIsApart DEF Coprime
  <2> QED BY <1>1, <2>1, ExtendedGcdIs DEF IsBezout
<1>4. ModInverse(a, m) = i
  BY DEF ModInverse
<1> HIDE DEF r, e, x
<1>5. i \in 0 .. m - 1 /\ Same(i, x, m)
  BY <1>3, ResidueIsSame
<1> HIDE DEF i
<1>6. Same(a * i, r * x, m)
  BY <1>1, <1>3, <1>5, SameProduct
<1>7. Same(r * x, 1, m)
  <2>1. r * x = 1 + m * (- e[3]) /\ - e[3] \in Int
    BY <1>1, <1>3
  <2> QED BY Zenon, <2>1 DEF Same
<1>8. a * i \in Int /\ r * x \in Int
  BY <1>1, <1>3, <1>5
<1>9. Same(a * i, 1, m)
  BY <1>6, <1>7, <1>8, SameTransitive
<1> QED BY <1>4, <1>5, <1>9

-----------------------------------------------------------------------------
(* Products modulo m.                                                       *)

\* One bit more of a number
LEMMA OneMoreBit ==
  ASSUME NEW b \in Nat, NEW k \in Nat
  PROVE  b % TwoTo[k + 1] = (b % TwoTo[k]) + TwoTo[k] * ((b \div TwoTo[k]) % 2)
<1> DEFINE w == TwoTo[k]
           j == b \div w
           v == b % w
           h == j \div 2
           c == j % 2
<1>1. w \in Nat /\ w > 0 /\ TwoTo[k + 1] = 2 * w
  BY TwoToIs
<1> HIDE DEF w
<1>2. b = w * j + v /\ v \in 0 .. w - 1 /\ j \in Int
  BY <1>1, Division
<1> HIDE DEF j, v
<1>3. j = 2 * h + c /\ c \in 0 .. 1 /\ h \in Int
  BY <1>2, Division
<1> HIDE DEF h, c
<1>4. b = (2 * w) * h + (v + w * c)
  <2>1. w * j = w * (2 * h + c)
    BY <1>3
  <2>2. w * (2 * h + c) = (2 * w) * h + w * c
    BY <1>1, <1>3
  <2>3. (2 * w) * h \in Int /\ w * c \in Int /\ v \in Int
    BY <1>1, <1>2, <1>3
  <2> QED BY <1>2, <2>1, <2>2, <2>3
<1>5. v + w * c \in 0 .. 2 * w - 1
  <2>1. CASE c = 0
    BY <1>1, <1>2, <2>1
  <2>2. CASE c = 1
    BY <1>1, <1>2, <2>2
  <2> QED BY <1>3, <2>1, <2>2
<1>6. b % (2 * w) = v + w * c
  <2> DEFINE m == 2 * w
             u == v + w * c
  <2>1. m \in Nat /\ m > 0 /\ u \in 0 .. m - 1 /\ b = m * h + u
    BY <1>1, <1>4, <1>5
  <2> HIDE DEF m, u
  <2>2. b % m = u
    BY <1>3, <2>1, QuotientIs
  <2> QED BY <2>2 DEF m, u
<1> QED BY <1>1, <1>6 DEF w, j, v, c

\* The bits of a number are all of it.
LEMMA AllBits ==
  ASSUME NEW b \in Nat, NEW n \in Nat, BitLength(b) <= n
  PROVE  b % TwoTo[n] = b
<1>1. b < TwoTo[n] /\ TwoTo[n] \in Nat
  BY BitLengthIs, TwoToIs
<1> QED BY <1>1

\* Doubling and adding over the bits of b: what is doubled, and what is added
\* up, modulo m.
IsShifted(f, a, m, n) ==
  f = [k \in 0 .. n |-> IF k = 0 THEN a ELSE ((2 * f[k - 1]) % Wide) % m]

\* The sums of what is shifted, by the bits of b
IsShiftSum(f, s, b, m, n) ==
  f = [k \in 0 .. n |-> IF k = 0 THEN 0
                        ELSE IF (b \div TwoTo[k - 1]) % 2 = 1
                             THEN ((f[k - 1] + s[k - 1]) % Wide) % m
                             ELSE f[k - 1]]

\* ShiftAdd is chosen by these recursions.
LEMMA ShiftAddIsChosen ==
  ASSUME NEW a, NEW b, NEW m
  PROVE  ShiftAdd(a, b, m) =
           (CHOOSE g : IsShiftSum(g, CHOOSE f : IsShifted(f, a, m, BitLength(b)),
                                  b, m, BitLength(b)))[BitLength(b)]
BY Zenon DEF ShiftAdd, IsShifted, IsShiftSum

\* Both words hold something.
LEMMA WideIs == Word \in Nat \ {0} /\ Wide \in Nat \ {0}
<1>1. Word \in Nat \ {0}
  BY TwoToIs, WordAssumption DEF Word
<1>2. ASSUME NEW x \in Nat \ {0} PROVE x * x \in Nat \ {0}
  OBVIOUS
<1> QED BY <1>1, <1>2 DEF Wide

\* Twice a residue, and one more or less of what is added, modulo m
LEMMA DoubledResidue ==
  ASSUME NEW m \in Nat, m > 0, NEW a \in Int, NEW w \in Int
  PROVE  (2 * ((a * w) % m)) % m = (a * (2 * w)) % m
<1> DEFINE x == a * w
           v == x % m
<1>1. x \in Int /\ a * (2 * w) = 2 * x
  OBVIOUS
<1> HIDE DEF x
<1>2. v \in Int /\ Same(v, x, m)
  BY <1>1, ResidueIsSame
<1> HIDE DEF v
<1>3. Same(2 * v, 2 * x, m)
  <2>1. Same(v + v, x + x, m)
    BY <1>1, <1>2, SameSum
  <2>2. v + v = 2 * v /\ x + x = 2 * x
    BY <1>1, <1>2
  <2> QED BY <2>1, <2>2
<1>4. (2 * v) % m = (2 * x) % m
  <2>1. 2 * v \in Int /\ 2 * x \in Int
    BY <1>1, <1>2
  <2> QED BY Zenon, <1>3, <2>1, SameResidue
<1> QED BY <1>1, <1>4 DEF v, x

\* Residues add.
LEMMA AddedResidue ==
  ASSUME NEW m \in Nat, m > 0, NEW x \in Int, NEW y \in Int
  PROVE  ((x % m) + (y % m)) % m = (x + y) % m
<1> DEFINE u == x % m
           v == y % m
<1>1. u \in Int /\ Same(u, x, m) /\ v \in Int /\ Same(v, y, m)
  BY ResidueIsSame
<1> HIDE DEF u, v
<1>2. Same(u + v, x + y, m)
  BY <1>1, SameSum
<1>3. (u + v) % m = (x + y) % m
  <2>1. u + v \in Int /\ x + y \in Int
    BY <1>1
  <2> QED BY Zenon, <1>2, <2>1, SameResidue
<1> QED BY <1>3 DEF u, v

\* Rounds that add shifted terms by the bits of b give the product.
LEMMA ShiftAddIs ==
  ASSUME NEW m \in Nat, m > 0, 2 * m <= Wide, NEW a \in 0 .. m - 1, NEW b \in Nat
  PROVE  ShiftAdd(a, b, m) = (a * b) % m
<1> DEFINE n == BitLength(b)
           sh == [k \in 0 .. n |-> (a * TwoTo[k]) % m]
           sm == [k \in 0 .. n |-> (a * (b % TwoTo[k])) % m]
<1>0. n \in Nat /\ a \in Int /\ Wide \in Nat \ {0}
  BY BitLengthIs, WideIs
<1>1. ASSUME NEW k \in 0 .. n PROVE k \in Nat /\ TwoTo[k] \in Nat /\ TwoTo[k] > 0
  BY <1>0, TwoToIs
<1> HIDE DEF n
<1>2. ASSUME NEW x \in Int, 0 <= x, x < 2 * m PROVE x % Wide = x
  BY <1>0, <1>2
<1>3. ASSUME NEW x \in Int PROVE x % m \in Int /\ 0 <= x % m /\ x % m < m
  BY Division
<1>4. ASSUME NEW k \in 0 .. n, k # 0
      PROVE  /\ k - 1 \in 0 .. n /\ k - 1 \in Nat /\ (k - 1) + 1 = k
             /\ TwoTo[k] = 2 * TwoTo[k - 1]
  <2>1. k - 1 \in 0 .. n /\ k - 1 \in Nat /\ (k - 1) + 1 = k
    BY <1>0, <1>4
  <2> QED BY <2>1, TwoToIs
<1>5. ASSUME NEW k \in 0 .. n
      PROVE  sh[k] = IF k = 0 THEN a ELSE ((2 * sh[k - 1]) % Wide) % m
  <2>1. CASE k = 0
    <3>1. a * TwoTo[k] = a
      BY <2>1, TwoToIs
    <3>2. a % m = a
      OBVIOUS
    <3> QED BY <2>1, <3>1, <3>2
  <2>2. CASE k # 0
    <3> DEFINE w == TwoTo[k - 1]
               v == (a * w) % m
    <3>1. w \in Int
      BY <1>1, <1>4, <2>2
    <3>2. TwoTo[k] = 2 * w /\ sh[k - 1] = v
      BY <1>4, <2>2
    <3> HIDE DEF w
    <3>3. v \in Int /\ 0 <= v /\ v < m
      <4>1. a * w \in Int
        BY <1>0, <3>1
      <4> QED BY <1>3, <4>1
    <3>4. (2 * v) % m = (a * (2 * w)) % m
      BY Zenon, <1>0, <3>1, DoubledResidue
    <3> HIDE DEF v
    <3>5. (2 * v) % Wide = 2 * v
      BY <1>2, <3>3
    <3>6. sh[k] = (a * (2 * w)) % m
      BY <3>2
    <3> HIDE DEF sh
    <3> QED BY <2>2, <3>2, <3>4, <3>5, <3>6
  <2> QED BY <2>1, <2>2
<1>6. ASSUME NEW k \in 0 .. n
      PROVE  sm[k] = IF k = 0 THEN 0
                     ELSE IF (b \div TwoTo[k - 1]) % 2 = 1
                          THEN ((sm[k - 1] + sh[k - 1]) % Wide) % m
                          ELSE sm[k - 1]
  <2>1. CASE k = 0
    <3>1. b % 1 = 0
      OBVIOUS
    <3>2. a * (b % TwoTo[k]) = 0
      BY <1>0, <2>1, <3>1, TwoToIs
    <3>3. 0 % m = 0
      OBVIOUS
    <3> QED BY <2>1, <3>2, <3>3
  <2>2. CASE k # 0
    <3> DEFINE w == TwoTo[k - 1]
               c == (b \div w) % 2
               r == b % w
               u == (a * r) % m
               v == (a * w) % m
    <3>1. w \in Nat /\ w > 0
      BY <1>1, <1>4, <2>2
    <3>2. sm[k - 1] = u /\ sh[k - 1] = v
      BY <1>4, <2>2
    <3>3. b % TwoTo[k] = r + w * c
      <4>1. k - 1 \in Nat /\ TwoTo[k] = TwoTo[(k - 1) + 1]
        BY <1>4, <2>2
      <4> QED BY <4>1, OneMoreBit
    <3>4. sm[k] = (a * (r + w * c)) % m
      BY <3>3
    <3> HIDE DEF w, sm, sh
    <3>5. r \in Int
      BY <3>1, Division
    <3>6. c \in {0, 1}
      <4>1. b \div w \in Int
        BY <3>1, Division
      <4> QED BY <4>1
    <3> HIDE DEF r, c
    <3>7. a * r \in Int /\ a * w \in Int
      BY <1>0, <3>1, <3>5
    <3>8. u \in Int /\ 0 <= u /\ u < m /\ v \in Int /\ 0 <= v /\ v < m
      BY <1>3, <3>7
    <3>9. CASE c = 1
      <4>1. a * (r + w * c) = a * r + a * w
        BY <1>0, <3>1, <3>5, <3>9
      <4>2. (u + v) % m = (a * r + a * w) % m
        BY Zenon, <3>7, AddedResidue
      <4> HIDE DEF u, v
      <4>3. (u + v) % Wide = u + v
        BY <1>2, <3>8
      <4> QED BY <2>2, <3>2, <3>4, <3>9, <4>1, <4>2, <4>3 DEF c, w
    <3>10. CASE c = 0
      <4>1. a * (r + w * c) = a * r
        BY <1>0, <3>1, <3>5, <3>10
      <4>2. sm[k] = u
        BY <3>4, <4>1
      <4> HIDE DEF u, v
      <4> QED BY <2>2, <3>2, <3>10, <4>2 DEF c, w
    <3> QED BY <3>6, <3>9, <3>10
  <2> QED BY <2>1, <2>2
<1> HIDE DEF sh, sm
<1>7. IsShifted(sh, a, m, n)
  <2>1. sh = [k \in 0 .. n |-> sh[k]]
    BY DEF sh
  <2> QED BY <1>5, <2>1, Zenon DEF IsShifted
<1>8. ASSUME NEW f, IsShifted(f, a, m, n) PROVE f = sh
  <2>1. f = [k \in 0 .. n |-> IF k = 0 THEN a ELSE ((2 * f[k - 1]) % Wide) % m]
    BY <1>8, Zenon DEF IsShifted
  <2>2. \A k \in 0 .. n : f[k] = IF k = 0 THEN a ELSE ((2 * f[k - 1]) % Wide) % m
    BY <2>1, Zenon
  <2> DEFINE I == {k \in 0 .. n : f[k] = sh[k]}
  <2>3. 0 \in I
    BY <1>0, <1>5, <2>2
  <2>4. ASSUME NEW k \in 1 .. n, k - 1 \in I PROVE k \in I
    BY <1>0, <1>5, <2>2, <2>4
  <2>5. 0 .. n \subseteq I
    <3> HIDE DEF I
    <3> QED BY <1>0, <2>3, <2>4, RangeInduction
  <2>6. \A k \in 0 .. n : f[k] = sh[k]
    BY <2>5
  <2>7. sh = [k \in 0 .. n |-> sh[k]] /\ f = [k \in 0 .. n |-> f[k]]
    <3>1. f = [k \in 0 .. n |-> f[k]]
      BY <2>1
    <3> QED BY <3>1 DEF sh
  <2> QED BY <2>6, <2>7
<1>9. sh = CHOOSE f : IsShifted(f, a, m, n)
  BY <1>7, <1>8
<1>10. IsShiftSum(sm, sh, b, m, n)
  <2>1. sm = [k \in 0 .. n |-> sm[k]]
    BY DEF sm
  <2> QED BY <1>6, <2>1, Zenon DEF IsShiftSum
<1>11. ASSUME NEW f, IsShiftSum(f, sh, b, m, n) PROVE f = sm
  <2>1. f = [k \in 0 .. n |-> IF k = 0 THEN 0
                        ELSE IF (b \div TwoTo[k - 1]) % 2 = 1
                             THEN ((f[k - 1] + sh[k - 1]) % Wide) % m
                             ELSE f[k - 1]]
    BY <1>11, Zenon DEF IsShiftSum
  <2>2. \A k \in 0 .. n : f[k] = IF k = 0 THEN 0
                        ELSE IF (b \div TwoTo[k - 1]) % 2 = 1
                             THEN ((f[k - 1] + sh[k - 1]) % Wide) % m
                             ELSE f[k - 1]
    BY <2>1, Zenon
  <2> DEFINE I == {k \in 0 .. n : f[k] = sm[k]}
  <2>3. 0 \in I
    BY <1>0, <1>6, <2>2
  <2>4. ASSUME NEW k \in 1 .. n, k - 1 \in I PROVE k \in I
    <3>1. k \in 0 .. n /\ k # 0 /\ f[k - 1] = sm[k - 1]
      BY <1>0, <2>4
    <3>2. f[k] = sm[k]
      BY <1>6, <2>2, <3>1
    <3> QED BY <3>1, <3>2
  <2>5. 0 .. n \subseteq I
    <3> HIDE DEF I
    <3> QED BY <1>0, <2>3, <2>4, RangeInduction
  <2>6. \A k \in 0 .. n : f[k] = sm[k]
    BY <2>5
  <2>7. sm = [k \in 0 .. n |-> sm[k]] /\ f = [k \in 0 .. n |-> f[k]]
    <3>1. f = [k \in 0 .. n |-> f[k]]
      BY <2>1
    <3> QED BY <3>1 DEF sm
  <2> QED BY <2>6, <2>7
<1>12. sm = CHOOSE f : IsShiftSum(f, sh, b, m, n)
  BY <1>10, <1>11
<1>13. ShiftAdd(a, b, m) = sm[n]
  BY <1>9, <1>12, ShiftAddIsChosen, Zenon DEF n
<1>14. sm[n] = (a * (b % TwoTo[n])) % m /\ b % TwoTo[n] = b
  <2>1. BitLength(b) <= n
    BY <1>0 DEF n
  <2>2. b % TwoTo[n] = b
    BY <1>0, <2>1, AllBits
  <2> QED BY <1>0, <2>2 DEF sm
<1> QED BY <1>13, <1>14

\* The product modulo m, whichever way it is formed, for a modulus that leaves
\* a bit of the width free.
LEMMA MulModIs ==
  ASSUME NEW m \in Nat, m > 0, 2 * m <= Wide, NEW a \in Nat, NEW b \in Nat
  PROVE  MulMod(a, b, m) = (a * b) % m
<1> DEFINE u == a % m
           v == b % m
<1>1. /\ u \in 0 .. m - 1 /\ Same(u, a, m) /\ v \in 0 .. m - 1 /\ Same(v, b, m)
      /\ u \in Int /\ v \in Nat
  <2>1. ASSUME NEW x \in Int PROVE x % m \in 0 .. m - 1 /\ x % m \in Nat /\ Same(x % m, x, m)
    <3>1. x % m \in 0 .. m - 1 /\ Same(x % m, x, m)
      BY Zenon, ResidueIsSame
    <3>2. 0 .. m - 1 \subseteq Nat
      OBVIOUS
    <3> QED BY <3>1, <3>2
  <2> QED BY <2>1
<1>2. MulMod(a, b, m) = (a * b) % m \/ MulMod(a, b, m) = ShiftAdd(u, v, m)
  BY DEF MulMod
<1> HIDE DEF u, v
<1>3. ShiftAdd(u, v, m) = (u * v) % m
  BY <1>1, ShiftAddIs
<1>4. (u * v) % m = (a * b) % m
  <2>1. Same(u * v, a * b, m) /\ u * v \in Int /\ a * b \in Int
    BY <1>1, SameProduct
  <2>2. ASSUME NEW x \in Int, NEW y \in Int, Same(x, y, m) PROVE x % m = y % m
    BY Zenon, <2>2, SameResidue
  <2> QED BY <2>1, <2>2
<1> QED BY <1>2, <1>3, <1>4

-----------------------------------------------------------------------------
(* The Chinese remainder theorem.                                           *)

\* The recursion of Product
IsProducts(f, moduli) ==
  f = [k \in 0 .. Len(moduli) |-> IF k = 0 THEN 1 ELSE f[k - 1] * moduli[k]]

\* The products of the first moduli
LEMMA ProductIs ==
  ASSUME NEW moduli \in Seq(Nat \ {0})
  PROVE  \E f \in [0 .. Len(moduli) -> Nat \ {0}] :
           /\ f[0] = 1 /\ \A k \in 1 .. Len(moduli) : f[k] = f[k - 1] * moduli[k]
           /\ Product(moduli) = f[Len(moduli)]
<1> DEFINE n == Len(moduli)
           S == Nat \ {0}
           step == [k \in 1 .. n |-> [x \in S |-> x * moduli[k]]]
<1>1. n \in Nat /\ \A k \in 1 .. n : moduli[k] \in S
  OBVIOUS
<1>2. ASSUME NEW k \in 1 .. n, NEW x \in S PROVE step[k][x] = x * moduli[k] /\ step[k][x] \in S
  <2>1. \A y, z \in S : y * z \in S
    OBVIOUS
  <2> QED BY <1>1, <2>1
<1> HIDE DEF step
<1>3. PICK f \in [0 .. n -> S] : IsIteration(f, n, 1, step)
  <2>1. 1 \in S
    OBVIOUS
  <2> HIDE DEF S, n
  <2> QED BY Zenon, <1>1, <1>2, <2>1, IterationExists
<1>4. f[0] = 1 /\ \A k \in 1 .. n : f[k] = step[k][f[k - 1]]
  <2> HIDE DEF S, n
  <2> QED BY <1>1, <1>3, IterationSteps
<1>5. ASSUME NEW k \in 1 .. n PROVE f[k] = f[k - 1] * moduli[k]
  <2>1. f[k - 1] \in S
    <3>1. k - 1 \in 0 .. n
      BY <1>1
    <3> QED BY Zenon, <1>3, <3>1
  <2> QED BY Zenon, <1>2, <1>4, <2>1
<1>6. IsProducts(f, moduli)
  <2>1. \A k \in 0 .. n : f[k] = IF k = 0 THEN 1 ELSE f[k - 1] * moduli[k]
    BY <1>4, <1>5
  <2>2. f = [k \in 0 .. n |-> IF k = 0 THEN 1 ELSE f[k - 1] * moduli[k]]
    <3> HIDE DEF n, S
    <3> QED BY <1>3, <2>1
  <2> QED BY <2>2, Zenon DEF IsProducts
<1>7. ASSUME NEW g, IsProducts(g, moduli) PROVE g = f
  <2>1. g = [k \in 0 .. n |-> IF k = 0 THEN 1 ELSE g[k - 1] * moduli[k]]
    BY <1>7, Zenon DEF IsProducts
  <2>2. \A k \in 0 .. n : g[k] = IF k = 0 THEN 1 ELSE g[k - 1] * moduli[k]
    BY <2>1, Zenon
  <2> DEFINE I == {k \in 0 .. n : g[k] = f[k]}
  <2>3. 0 \in I
    BY <1>1, <1>4, <2>2
  <2>4. ASSUME NEW k \in 1 .. n, k - 1 \in I PROVE k \in I
    <3>1. k \in 0 .. n /\ k # 0 /\ g[k - 1] = f[k - 1]
      BY <1>1, <2>4
    <3> QED BY <1>5, <2>2, <3>1
  <2>5. 0 .. n \subseteq I
    <3> HIDE DEF I, n
    <3> QED BY Zenon, <1>1, <2>3, <2>4, RangeInduction
  <2>6. \A k \in 0 .. n : g[k] = f[k]
    BY <2>5
  <2>7. g = [k \in 0 .. n |-> g[k]] /\ f = [k \in 0 .. n |-> f[k]]
    <3>1. g = [k \in 0 .. n |-> g[k]]
      BY <2>1
    <3> QED BY <1>3, <3>1
  <2> QED BY <2>6, <2>7
<1>8. Product(moduli) = (CHOOSE g : IsProducts(g, moduli))[n]
  BY Zenon DEF Product, IsProducts
<1>9. Product(moduli) = f[n]
  <2>1. f = CHOOSE g : IsProducts(g, moduli)
    BY <1>6, <1>7
  <2> QED BY <1>8, <2>1
<1> QED BY Zenon, <1>3, <1>4, <1>5, <1>9

\* No two have a common divisor.
PairwiseApart(moduli) ==
  \A i, j \in 1 .. Len(moduli) : i # j => Apart(moduli[i], moduli[j])

\* A product of positive numbers is positive.
LEMMA ProductIsPositive ==
  ASSUME NEW moduli \in Seq(Nat \ {0})
  PROVE  Product(moduli) \in Nat \ {0}
<1>1. Len(moduli) \in 0 .. Len(moduli)
  OBVIOUS
<1> QED BY <1>1, ProductIs

\* The product of the others
IsCofactor(h, moduli, i) ==
  /\ h \in Nat \ {0} /\ Product(moduli) = moduli[i] * h /\ Apart(h, moduli[i])
  /\ \A j \in 1 .. Len(moduli) : j # i => Divides(moduli[j], h)

\* Each modulus has the product of the others as its cofactor.
LEMMA CofactorExists ==
  ASSUME NEW moduli \in Seq(Nat \ {0}), PairwiseApart(moduli), NEW i \in 1 .. Len(moduli)
  PROVE  \E h : IsCofactor(h, moduli, i)
<1> DEFINE n == Len(moduli)
           m == moduli[i]
<1>0. n \in Nat /\ m \in Nat \ {0} /\ \A k \in 1 .. n : moduli[k] \in Nat \ {0}
  OBVIOUS
<1>1. PICK f \in [0 .. n -> Nat \ {0}] :
        /\ f[0] = 1 /\ \A k \in 1 .. n : f[k] = f[k - 1] * moduli[k]
        /\ Product(moduli) = f[n]
  BY Zenon, ProductIs
<1> DEFINE Fits(h, k) == /\ h \in Nat \ {0} /\ f[k] = (IF k < i THEN h ELSE m * h)
                         /\ Apart(h, m)
                         /\ \A j \in 1 .. k : j # i => Divides(moduli[j], h)
           I == {k \in 0 .. n : \E h : Fits(h, k)}
<1>2. 0 \in I
  <2>1. Apart(1, m)
    BY <1>0, ApartFromOne
  <2>2. Fits(1, 0)
    BY <1>0, <1>1, <2>1
  <2>3. 0 \in 0 .. n
    BY <1>0
  <2> HIDE DEF Fits
  <2> QED BY <2>2, <2>3
<1>3. ASSUME NEW k \in 1 .. n, k - 1 \in I PROVE k \in I
  <2>1. PICK h : Fits(h, k - 1)
    <3> HIDE DEF Fits
    <3> QED BY <1>3
  <2>2. h \in Nat \ {0} /\ Apart(h, m) /\ f[k] = f[k - 1] * moduli[k]
    BY <1>1, <2>1
  <2>3. CASE k = i
    <3>1. f[k - 1] = h
      BY <1>0, <2>1, <2>3
    <3>2. f[k] = m * h
      BY <1>0, <2>2, <2>3, <3>1
    <3>3. \A j \in 1 .. k : j # i => j \in 1 .. k - 1
      BY <1>0, <2>3
    <3>4. \A j \in 1 .. k : j # i => Divides(moduli[j], h)
      BY Zenon, <2>1, <3>3
    <3>5. Fits(h, k)
      BY <2>2, <2>3, <3>2, <3>4
    <3>6. k \in 0 .. n
      BY <1>0
    <3> HIDE DEF Fits
    <3> QED BY <3>5, <3>6
  <2>4. CASE k # i
    <3> DEFINE p == moduli[k]
               z == h * p
    <3>1. p \in Nat \ {0} /\ Apart(p, m)
      BY <1>0, <2>4 DEF PairwiseApart
    <3>2. z \in Nat \ {0} /\ Apart(z, m)
      <4>1. \A x, y \in Nat \ {0} : x * y \in Nat \ {0}
        OBVIOUS
      <4> HIDE DEF p, m
      <4> QED BY <1>0, <2>2, <3>1, <4>1, ApartProduct
    <3>3. f[k] = IF k < i THEN z ELSE m * z
      <4>1. k - 1 < i <=> k < i
        BY <2>4
      <4>2. f[k - 1] = IF k < i THEN h ELSE m * h
        BY <2>1, <4>1
      <4>3. (m * h) * p = m * z
        BY <1>0, <2>2, <3>1
      <4> QED BY Zenon, <2>2, <4>2, <4>3
    <3>4. ASSUME NEW j \in 1 .. k, j # i PROVE Divides(moduli[j], z)
      <4>1. CASE j = k
        <5>1. Divides(p, p)
          <6>1. p = p * 1
            BY <3>1
          <6> QED BY <6>1 DEF Divides
        <5> HIDE DEF p
        <5>2. Divides(p, h * p)
          <6>1. p \in Int /\ h \in Int
            BY <2>2, <3>1
          <6> QED BY Zenon, <5>1, <6>1, DividesMultiple
        <5> QED BY <4>1, <5>2 DEF p
      <4>2. CASE j # k
        <5>1. j \in 1 .. k - 1 /\ j \in 1 .. n
          BY <1>0, <4>2
        <5>2. Divides(moduli[j], h) /\ moduli[j] \in Int
          BY <1>0, <2>1, <3>4, <5>1
        <5>3. h \in Int /\ p \in Int
          BY <2>2, <3>1
        <5>4. \A e \in Int : Divides(e, h) => Divides(e, h * p)
          <6> HIDE DEF p
          <6> QED BY Zenon, <5>3, DividesMultiple
        <5> QED BY Zenon, <5>2, <5>4
      <4> QED BY <4>1, <4>2
    <3> HIDE DEF z
    <3>5. Fits(z, k)
      BY <3>2, <3>3, <3>4
    <3>6. k \in 0 .. n
      BY <1>0
    <3> HIDE DEF Fits
    <3> QED BY <3>5, <3>6
  <2> QED BY <2>3, <2>4
<1>4. n \in I
  <2>1. 0 .. n \subseteq I
    <3> HIDE DEF I, n
    <3> QED BY Zenon, <1>0, <1>2, <1>3, RangeInduction
  <2>2. n \in 0 .. n
    BY <1>0
  <2> QED BY <2>1, <2>2
<1>5. PICK h : Fits(h, n)
  <2> HIDE DEF Fits
  <2> QED BY <1>4
<1>6. f[n] = m * h
  BY <1>0, <1>5
<1>7. IsCofactor(h, moduli, i)
  BY <1>1, <1>5, <1>6 DEF IsCofactor
<1> QED BY <1>7

\* What all the moduli divide, their product divides.
LEMMA ProductDividesIfAll ==
  ASSUME NEW moduli \in Seq(Nat \ {0}), PairwiseApart(moduli), NEW d \in Int,
         \A i \in 1 .. Len(moduli) : Divides(moduli[i], d)
  PROVE  Divides(Product(moduli), d)
<1> DEFINE n == Len(moduli)
<1>0. n \in Nat /\ \A k \in 1 .. n : moduli[k] \in Nat \ {0}
  OBVIOUS
<1>1. PICK f \in [0 .. n -> Nat \ {0}] :
        /\ f[0] = 1 /\ \A k \in 1 .. n : f[k] = f[k - 1] * moduli[k]
        /\ Product(moduli) = f[n]
  BY ProductIs
<1> DEFINE I == {k \in 0 .. n : /\ Divides(f[k], d)
                                /\ \A j \in k + 1 .. n : Apart(f[k], moduli[j])}
<1>2. 0 \in I
  <2>1. Divides(1, d)
    <3>1. d = 1 * d
      OBVIOUS
    <3> QED BY <3>1 DEF Divides
  <2>2. \A j \in 1 .. n : Apart(1, moduli[j])
    BY <1>0, ApartFromOne
  <2> QED BY <1>0, <1>1, <2>1, <2>2
<1>3. ASSUME NEW k \in 1 .. n, k - 1 \in I PROVE k \in I
  <2> DEFINE a == f[k - 1]
             p == moduli[k]
  <2>1. a \in Nat \ {0} /\ p \in Nat \ {0} /\ f[k] = a * p
    <3>1. k - 1 \in 0 .. n
      BY <1>0
    <3> QED BY Zenon, <1>0, <1>1, <3>1
  <2>2. Divides(a, d) /\ \A j \in (k - 1) + 1 .. n : Apart(a, moduli[j])
    BY <1>3
  <2>3. Apart(a, p)
    <3>1. k \in (k - 1) + 1 .. n
      BY <1>0
    <3> QED BY <2>2, <3>1
  <2>4. Divides(p, d)
    BY <1>0
  <2>5. ASSUME NEW j \in k + 1 .. n PROVE Apart(f[k], moduli[j])
    <3>1. j \in (k - 1) + 1 .. n /\ j \in 1 .. n /\ j # k
      BY <1>0
    <3>2. Apart(a, moduli[j]) /\ Apart(p, moduli[j]) /\ moduli[j] \in Int
      BY <1>0, <2>2, <3>1 DEF PairwiseApart
    <3> HIDE DEF a, p
    <3> QED BY <2>1, <3>2, ApartProduct
  <2> HIDE DEF a, p
  <2>6. Divides(f[k], d)
    BY <2>1, <2>2, <2>3, <2>4, ProductDivides
  <2>7. k \in 0 .. n
    BY <1>0
  <2> QED BY <2>5, <2>6, <2>7
<1>4. 0 .. n \subseteq I
  <2> HIDE DEF I, n
  <2> QED BY Zenon, <1>0, <1>2, <1>3, RangeInduction
<1>5. n \in 0 .. n
  BY <1>0
<1> QED BY <1>1, <1>4, <1>5

\* A basis that leaves a bit of the accumulator free
Roomy(moduli) ==
  /\ moduli \in Seq(Nat) /\ IsBasis(moduli)
  /\ 2 * Product(moduli) <= Wide

\* The moduli of a basis
LEMMA ModuliAre ==
  ASSUME NEW moduli \in Seq(Nat), IsBasis(moduli)
  PROVE  /\ moduli \in Seq(Nat \ {0}) /\ Len(moduli) \in Nat /\ DOMAIN moduli = 1 .. Len(moduli)
         /\ \A i \in 1 .. Len(moduli) : moduli[i] \in Nat /\ moduli[i] >= 2 /\ moduli[i] < Word
         /\ PairwiseApart(moduli)
         /\ Product(moduli) \in Nat \ {0}
<1>1. moduli \in Seq(Nat) /\ IsBasis(moduli)
  OBVIOUS
<1>2. Len(moduli) \in Nat /\ DOMAIN moduli = 1 .. Len(moduli) /\ Word \in Nat
  BY <1>1, WideIs
<1>3. \A i \in 1 .. Len(moduli) : moduli[i] \in Nat /\ moduli[i] >= 2 /\ moduli[i] < Word
  BY <1>1, <1>2 DEF IsBasis
<1>4. moduli \in Seq(Nat \ {0})
  BY <1>1, <1>2, <1>3
<1>5. PairwiseApart(moduli)
  <2> SUFFICES ASSUME NEW i \in 1 .. Len(moduli), NEW j \in 1 .. Len(moduli), i # j
               PROVE  Apart(moduli[i], moduli[j])
    BY DEF PairwiseApart
  <2>1. \A a, b \in 1 .. Len(moduli) : a < b => Coprime(moduli[a], moduli[b])
    BY Zenon, <1>1, <1>2 DEF IsBasis
  <2>2. \A a, b \in 1 .. Len(moduli) : a < b => Apart(moduli[a], moduli[b])
    BY Zenon, <1>3, <2>1, CoprimeIsApart
  <2>3. CASE i < j
    BY <2>2, <2>3
  <2>4. CASE j < i
    <3>1. Apart(moduli[j], moduli[i]) /\ moduli[i] \in Int /\ moduli[j] \in Int
      BY <1>3, <2>2, <2>4
    <3> QED BY <3>1, ApartSymmetric
  <2> QED BY <1>2, <2>3, <2>4
<1> QED BY <1>2, <1>3, <1>4, <1>5, ProductIsPositive

\* What such a basis is
LEMMA RoomyIs ==
  ASSUME NEW moduli, Roomy(moduli)
  PROVE  /\ moduli \in Seq(Nat \ {0}) /\ Len(moduli) \in Nat /\ DOMAIN moduli = 1 .. Len(moduli)
         /\ \A i \in 1 .. Len(moduli) : moduli[i] \in Nat /\ moduli[i] >= 2 /\ moduli[i] < Word
         /\ PairwiseApart(moduli)
         /\ Product(moduli) \in Nat \ {0}
<1>1. moduli \in Seq(Nat) /\ IsBasis(moduli)
  BY DEF Roomy
<1> QED BY <1>1, ModuliAre

\* What a residue modulo the product is modulo one of the moduli
LEMMA SameModulo ==
  ASSUME NEW M \in Nat, M > 0, NEW m \in Int, Divides(m, M), NEW x \in Int
  PROVE  Same(x % M, x, m)
<1>1. x % M \in Int /\ Same(x % M, x, M)
  BY ResidueIsSame
<1>2. Divides(M, (x % M) - x) /\ (x % M) - x \in Int
  BY <1>1, DividesSame
<1>3. Divides(m, (x % M) - x)
  BY <1>2, DividesTransitive
<1> QED BY <1>1, <1>3, DividesSame

\* A coefficient is 1 modulo its modulus and 0 modulo the others.
LEMMA CoefficientIs ==
  ASSUME NEW moduli, Roomy(moduli), NEW i \in 1 .. Len(moduli)
  PROVE  /\ Coefficient(moduli, i) \in Nat
         /\ Same(Coefficient(moduli, i), 1, moduli[i])
         /\ \A j \in 1 .. Len(moduli) : j # i => Same(Coefficient(moduli, i), 0, moduli[j])
<1> DEFINE M == Product(moduli)
           m == moduli[i]
<1>1. /\ M \in Nat /\ M > 0 /\ 2 * M <= Wide /\ m \in Nat /\ m > 0
      /\ \A j \in 1 .. Len(moduli) : moduli[j] \in Int
  BY RoomyIs DEF Roomy
<1>2. PICK h : IsCofactor(h, moduli, i)
  BY RoomyIs, CofactorExists
<1>3. /\ h \in Nat /\ M = m * h /\ Apart(h, m)
      /\ \A j \in 1 .. Len(moduli) : j # i => Divides(moduli[j], h)
  BY <1>2 DEF IsCofactor
<1>4. Coefficient(moduli, i) = MulMod(M \div m, ModInverse((M \div m) % m, m), M)
  BY DEF Coefficient
<1> HIDE DEF M, m
<1>5. M \div m = h
  <2>1. M = m * h + 0 /\ 0 \in 0 .. m - 1
    BY <1>1, <1>3
  <2>2. (m * h + 0) \div m = h
    BY <1>1, <1>3, <2>1, QuotientIs
  <2> QED BY <2>1, <2>2
<1> DEFINE r == h % m
           v == ModInverse(r, m)
           c == (h * v) % M
<1>6. r \in Nat /\ Same(r, h, m) /\ Same(h, r, m)
  BY <1>1, <1>3, ResidueIsSame
<1> HIDE DEF r
<1>7. v \in Nat /\ Same(r * v, 1, m)
  <2>1. Apart(r, m)
    BY <1>1, <1>3, <1>6, ApartResidue
  <2> QED BY <1>1, <1>6, <2>1, ModInverseIs
<1> HIDE DEF v
<1>8. h * v \in Nat
  BY <1>3, <1>7
<1>9. Coefficient(moduli, i) = c
  <2>1. MulMod(h, v, M) = c
    BY Zenon, <1>1, <1>3, <1>7, MulModIs
  <2> QED BY <1>4, <1>5, <2>1 DEF v, r
<1>10. c \in Nat
  <2> DEFINE z == h * v
  <2>1. z \in Int
    BY <1>8
  <2> HIDE DEF z
  <2>2. z % M \in 0 .. M - 1
    BY Zenon, <1>1, <2>1, ResidueIsSame
  <2>3. z % M \in Nat
    BY <1>1, <2>2
  <2> QED BY <2>3 DEF z
<1>11. \A d \in Int : Divides(d, M) => Same(c, h * v, d)
  <2> DEFINE z == h * v
  <2>1. z \in Int
    BY <1>8
  <2> HIDE DEF z
  <2>2. \A d \in Int : Divides(d, M) => Same(z % M, z, d)
    BY <1>1, <2>1, SameModulo
  <2> QED BY <2>2 DEF z
<1> HIDE DEF c
<1>12. Same(c, 1, m)
  <2>1. Divides(m, M)
    BY <1>3 DEF Divides
  <2>2. Same(c, h * v, m)
    BY <1>1, <1>11, <2>1
  <2>3. Same(h * v, r * v, m)
    <3>1. Same(v, v, m)
      BY <1>1, <1>7, SameReflexive
    <3> QED BY <1>1, <1>3, <1>6, <1>7, <3>1, SameProduct
  <2>4. r * v \in Int /\ h * v \in Int
    BY <1>3, <1>6, <1>7
  <2>5. Same(c, r * v, m)
    BY <1>1, <1>10, <2>2, <2>3, <2>4, SameTransitive
  <2> QED BY <1>1, <1>7, <1>10, <2>4, <2>5, SameTransitive
<1>13. ASSUME NEW j \in 1 .. Len(moduli), j # i PROVE Same(c, 0, moduli[j])
  <2> DEFINE p == moduli[j]
  <2>1. p \in Int /\ Divides(p, h)
    BY <1>1, <1>3, <1>13
  <2> HIDE DEF p
  <2>2. Divides(p, M) /\ Divides(p, h * v)
    <3>1. \A a \in Int : Divides(p, a * h) /\ Divides(p, h * a)
      BY <1>3, <2>1, DividesMultiple
    <3>2. m \in Int /\ v \in Int
      BY <1>1, <1>7
    <3>3. Divides(p, m * h) /\ Divides(p, h * v)
      BY <3>1, <3>2
    <3>4. M = m * h
      BY <1>3
    <3> QED BY <3>3, <3>4, Zenon
  <2>3. Same(c, h * v, p)
    BY <1>11, <2>1, <2>2
  <2>4. h * v - 0 = h * v /\ h * v \in Int
    BY <1>8
  <2>5. Same(h * v, 0, p)
    <3>1. \A y \in Int : Divides(p, y - 0) => Same(y, 0, p)
      BY <2>1, DividesSame
    <3> QED BY <2>2, <2>4, <3>1
  <2>6. Same(c, 0, p)
    BY <1>10, <2>1, <2>3, <2>4, <2>5, SameTransitive
  <2> QED BY <2>6 DEF p
<1> QED BY <1>9, <1>10, <1>12, <1>13 DEF m

\* The recursion of the sum in Decode
IsDecodeSum(f, basis_, r) ==
  f = [k \in 0 .. Len(basis_.moduli) |->
         IF k = 0 THEN 0
         ELSE ((f[k - 1] + MulMod(r[k], basis_.coeffs[k], basis_.capacity)) % Wide)
                % basis_.capacity]

\* Residues, as Encode and the lanes leave them
AreResidues(r, moduli) ==
  \A i \in 1 .. Len(moduli) : r[i] \in Int /\ 0 <= r[i] /\ r[i] < moduli[i]

\* Decoding gives the number below the capacity that has the residues.
LEMMA DecodeIs ==
  ASSUME NEW moduli, Roomy(moduli), NEW r, AreResidues(r, moduli)
  PROVE  /\ Decode(NewBasis(moduli), r) \in 0 .. Product(moduli) - 1
         /\ \A i \in 1 .. Len(moduli) : Same(Decode(NewBasis(moduli), r), r[i], moduli[i])
<1> DEFINE M == Product(moduli)
           n == Len(moduli)
           B == NewBasis(moduli)
           c(k) == Coefficient(moduli, k)
           S == 0 .. M - 1
           term(k) == (r[k] * c(k)) % M
           step == [k \in 1 .. n |-> [x \in S |-> ((x + term(k)) % Wide) % M]]
<1>1. /\ M \in Nat /\ M > 0 /\ 2 * M <= Wide /\ n \in Nat
      /\ \A j \in 1 .. n : moduli[j] \in Int /\ r[j] \in Nat /\ c(j) \in Nat
  BY RoomyIs, CoefficientIs DEF Roomy, AreResidues
<1>2. B.moduli = moduli /\ B.capacity = M /\ \A k \in 1 .. n : B.coeffs[k] = c(k)
  BY RoomyIs DEF NewBasis
<1> HIDE DEF M, B, c, n
<1>3. ASSUME NEW k \in 1 .. n
      PROVE  /\ MulMod(r[k], B.coeffs[k], B.capacity) = term(k)
             /\ term(k) \in 0 .. M - 1 /\ term(k) \in Int /\ r[k] * c(k) \in Int
  <2>1. r[k] \in Nat /\ c(k) \in Nat
    BY <1>1
  <2>2. r[k] * c(k) \in Int
    BY <2>1
  <2>3. MulMod(r[k], c(k), M) = term(k)
    BY Zenon, <1>1, <2>1, MulModIs
  <2>4. term(k) \in 0 .. M - 1
    <3>1. \A z \in Int : z % M \in 0 .. M - 1
      BY <1>1, ResidueIsSame
    <3> QED BY <2>2, <3>1
  <2> HIDE DEF term
  <2> QED BY <1>1, <1>2, <2>2, <2>3, <2>4
<1> HIDE DEF term
<1>4. ASSUME NEW k \in 1 .. n, NEW x \in S
      PROVE  /\ step[k][x] = (x + term(k)) % M /\ step[k][x] \in S
             /\ ((x + term(k)) % Wide) % M = (x + term(k)) % M
  <2>1. x + term(k) \in Int /\ 0 <= x + term(k) /\ x + term(k) < Wide /\ Wide \in Nat
    BY <1>1, <1>3, WideIs
  <2>2. (x + term(k)) % Wide = x + term(k)
    BY <2>1
  <2>3. (x + term(k)) % M \in S
    BY <1>1, <2>1, ResidueIsSame
  <2>4. step[k][x] = ((x + term(k)) % Wide) % M
    OBVIOUS
  <2> HIDE DEF step, S
  <2> QED BY <2>2, <2>3, <2>4
<1>5. 0 \in S
  BY <1>1
<1>6. \A k \in 1 .. n : \A x \in S : step[k][x] = ((x + term(k)) % Wide) % M
  OBVIOUS
<1> HIDE DEF step, S
<1>7. PICK h \in [0 .. n -> S] : IsIteration(h, n, 0, step)
  BY Zenon, <1>1, <1>4, <1>5, IterationExists
<1>8. h[0] = 0 /\ \A k \in 1 .. n : h[k] = step[k][h[k - 1]]
  <2>1. 0 \in 0 .. n /\ \A k \in 1 .. n : k \in 0 .. n /\ k # 0
    BY <1>1
  <2>2. \A k \in 0 .. n : h[k] = IF k = 0 THEN 0 ELSE step[k][h[k - 1]]
    BY Zenon, <1>7 DEF IsIteration
  <2> QED BY Zenon, <2>1, <2>2
<1>9. IsDecodeSum(h, B, r)
  <2>1. ASSUME NEW k \in 0 .. n
        PROVE  h[k] = IF k = 0 THEN 0
                      ELSE ((h[k - 1] + MulMod(r[k], B.coeffs[k], B.capacity)) % Wide) % B.capacity
    <3>1. CASE k = 0
      BY <1>8, <3>1
    <3>2. CASE k # 0
      <4>1. k \in 1 .. n /\ k - 1 \in 0 .. n
        BY <1>1, <3>2
      <4>2. h[k - 1] \in S
        BY <1>7, <4>1
      <4> QED BY <1>2, <1>3, <1>6, <1>8, <3>2, <4>1, <4>2
    <3> QED BY <3>1, <3>2
  <2>2. h = [k \in 0 .. n |-> IF k = 0 THEN 0
                      ELSE ((h[k - 1] + MulMod(r[k], B.coeffs[k], B.capacity)) % Wide) % B.capacity]
    BY <1>7, <2>1
  <2>3. Len(B.moduli) = n
    BY <1>2 DEF n
  <2> QED BY <2>2, <2>3, Zenon DEF IsDecodeSum
<1> DEFINE f == CHOOSE g : IsDecodeSum(g, B, r)
<1>10. IsDecodeSum(f, B, r)
  BY <1>9, Zenon
<1>11. Decode(B, r) = f[n]
  <2>1. Decode(B, r) = f[Len(B.moduli)]
    BY Zenon DEF Decode, IsDecodeSum
  <2> QED BY <1>2, <2>1 DEF n
<1> HIDE DEF f
<1>12. /\ f[0] = 0
       /\ \A k \in 1 .. n : f[k] = ((f[k - 1] + term(k)) % Wide) % M
  <2>1. Len(B.moduli) = n
    BY <1>2 DEF n
  <2>2. f = [k \in 0 .. n |-> IF k = 0 THEN 0
              ELSE ((f[k - 1] + MulMod(r[k], B.coeffs[k], B.capacity)) % Wide) % B.capacity]
    BY <1>10, <2>1, Zenon DEF IsDecodeSum
  <2>3. \A k \in 0 .. n : f[k] = IF k = 0 THEN 0
              ELSE ((f[k - 1] + MulMod(r[k], B.coeffs[k], B.capacity)) % Wide) % B.capacity
    BY <2>2, Zenon
  <2>4. 0 \in 0 .. n /\ \A k \in 1 .. n : k \in 0 .. n /\ k # 0
    BY <1>1
  <2> QED BY <1>2, <1>3, <2>3, <2>4
\* After k terms it has the first k residues and is 0 modulo the other moduli.
<1> DEFINE So(k, i) == IF i <= k THEN r[i] ELSE 0
           I == {k \in 0 .. n : f[k] \in S /\ \A i \in 1 .. n : Same(f[k], So(k, i), moduli[i])}
<1>13. 0 \in I
  <2>1. ASSUME NEW i \in 1 .. n PROVE Same(0, So(0, i), moduli[i])
    <3>1. So(0, i) = 0
      BY <1>1
    <3>2. Same(0, 0, moduli[i])
      BY <1>1, SameReflexive
    <3> QED BY <3>1, <3>2
  <2> QED BY <1>1, <1>5, <1>12, <2>1
<1>14. ASSUME NEW k \in 1 .. n, k - 1 \in I PROVE k \in I
  <2> DEFINE x == f[k - 1]
             t == term(k)
             z == r[k] * c(k)
  <2>1. x \in S /\ x \in Int /\ \A i \in 1 .. n : Same(x, So(k - 1, i), moduli[i])
    <3>1. S \subseteq Int
      BY DEF S
    <3> QED BY Zenon, <1>14, <3>1
  <2>2. f[k] = (x + t) % M /\ f[k] \in S
    BY <1>4, <1>12, <2>1
  <2>3. t = z % M /\ z \in Int /\ t \in Int
    BY <1>3 DEF term
  <2>4. f[k] \in Int
    BY <2>2 DEF S
  <2>5. ASSUME NEW i \in 1 .. n PROVE Same(f[k], So(k, i), moduli[i])
    <3> DEFINE m == moduli[i]
               old == So(k - 1, i)
    <3>1. m \in Int /\ Divides(m, M)
      <4>1. PICK g : IsCofactor(g, moduli, i)
        BY RoomyIs, CofactorExists DEF n
      <4>2. g \in Int /\ M = m * g
        BY <4>1 DEF IsCofactor, M
      <4> QED BY <1>1, <4>2 DEF Divides
    <3>2. old \in Int /\ Same(x, old, m)
      BY <1>1, <2>1
    <3>3. Same(z, IF i = k THEN r[k] ELSE 0, m)
      <4>1. r[k] \in Int /\ c(k) \in Int
        BY <1>1
      <4>2. Same(r[k], r[k], m)
        <5> HIDE DEF m
        <5> QED BY <3>1, <4>1, SameReflexive
      <4>3. CASE i = k
        <5>1. Same(c(k), 1, m)
          BY <4>3, CoefficientIs DEF c, n
        <5>2. Same(z, r[k] * 1, m)
          <6> HIDE DEF m
          <6>1. 1 \in Int
            OBVIOUS
          <6> QED BY Zenon, <3>1, <4>1, <4>2, <5>1, <6>1, SameProduct
        <5>3. r[k] * 1 = r[k]
          BY <4>1
        <5> QED BY <4>3, <5>2, <5>3
      <4>4. CASE i # k
        <5>1. Same(c(k), 0, m)
          BY <4>4, CoefficientIs DEF c, n
        <5>2. Same(z, r[k] * 0, m)
          <6> HIDE DEF m
          <6>1. 0 \in Int
            OBVIOUS
          <6> QED BY Zenon, <3>1, <4>1, <4>2, <5>1, <6>1, SameProduct
        <5>3. r[k] * 0 = 0
          BY <4>1
        <5> QED BY <4>4, <5>2, <5>3
      <4> QED BY <4>3, <4>4
    <3> DEFINE w == IF i = k THEN r[k] ELSE 0
    <3>4. w \in Int
      BY <1>1
    <3>5. old + w = So(k, i)
      <4>1. CASE i = k
        BY <1>1, <4>1
      <4>2. CASE i # k
        BY <1>1, <4>2
      <4> QED BY <4>1, <4>2
    <3> HIDE DEF x, t, z, m, old, w, So
    <3>6. Same(t, z, m)
      BY <1>1, <2>3, <3>1, SameModulo
    <3>7. Same(t, w, m)
      BY <2>3, <3>1, <3>3, <3>4, <3>6, SameTransitive DEF w
    <3>8. Same(x + t, old + w, m) /\ x + t \in Int /\ old + w \in Int
      <4>1. x \in Int /\ t \in Int /\ old \in Int /\ w \in Int /\ m \in Int
        BY <2>1, <2>3, <3>1, <3>2, <3>4
      <4>2. Same(x + t, old + w, m)
        BY <3>2, <3>7, <4>1, SameSum
      <4> QED BY <4>1, <4>2
    <3>9. Same(f[k], x + t, m)
      BY <1>1, <2>2, <3>1, <3>8, SameModulo
    <3>10. Same(f[k], old + w, m)
      BY <2>4, <3>1, <3>8, <3>9, SameTransitive
    <3> QED BY <3>5, <3>10 DEF m
  <2>6. k \in 0 .. n
    BY <1>1
  <2> HIDE DEF So
  <2> QED BY <2>2, <2>5, <2>6
<1>15. n \in I
  <2>1. 0 .. n \subseteq I
    <3> HIDE DEF I
    <3> QED BY Zenon, <1>1, <1>13, <1>14, RangeInduction
  <2>2. n \in 0 .. n
    BY <1>1
  <2> QED BY <2>1, <2>2
<1>16. f[n] \in S /\ \A i \in 1 .. n : Same(f[n], r[i], moduli[i])
  <2>1. \A i \in 1 .. n : So(n, i) = r[i]
    BY <1>1
  <2> QED BY <1>15, <2>1
<1> QED BY <1>11, <1>16 DEF S, M, n, B

\* Every integer decodes to its residue modulo the capacity.
LEMMA DecodeOfEncode ==
  ASSUME NEW moduli, Roomy(moduli), NEW x \in Int, NEW r,
         \A i \in 1 .. Len(moduli) : r[i] = x % moduli[i]
  PROVE  Decode(NewBasis(moduli), r) = x % Product(moduli)
<1> DEFINE M == Product(moduli)
           n == Len(moduli)
           D == Decode(NewBasis(moduli), r)
           v == x % M
<1>1. /\ M \in Nat /\ M > 0 /\ moduli \in Seq(Nat \ {0}) /\ PairwiseApart(moduli)
      /\ \A i \in 1 .. n : moduli[i] \in Nat /\ moduli[i] > 0
  BY RoomyIs
<1>2. ASSUME NEW i \in 1 .. n
      PROVE  r[i] \in Int /\ 0 <= r[i] /\ r[i] < moduli[i] /\ Same(r[i], x, moduli[i])
  <2>1. r[i] = x % moduli[i] /\ moduli[i] \in Nat /\ moduli[i] > 0
    BY <1>1
  <2>2. x % moduli[i] \in 0 .. moduli[i] - 1 /\ Same(x % moduli[i], x, moduli[i])
    BY Zenon, <2>1, ResidueIsSame
  <2> QED BY <2>1, <2>2
<1>3. AreResidues(r, moduli)
  BY <1>2 DEF AreResidues
<1>4. D \in 0 .. M - 1 /\ \A i \in 1 .. n : Same(D, r[i], moduli[i])
  BY <1>3, DecodeIs
<1> HIDE DEF M, n, D
<1>5. D \in Int /\ v \in 0 .. M - 1 /\ v \in Int /\ Same(v, x, M)
  <2>1. v \in 0 .. M - 1 /\ Same(v, x, M)
    BY <1>1, ResidueIsSame
  <2> HIDE DEF v
  <2> QED BY <1>4, <2>1
<1>6. Divides(M, D - x)
  <2>1. ASSUME NEW i \in 1 .. n PROVE Divides(moduli[i], D - x)
    <3> DEFINE m == moduli[i]
    <3>1. m \in Int /\ Same(D, r[i], m) /\ r[i] \in Int /\ Same(r[i], x, m)
      BY <1>1, <1>2, <1>4
    <3> HIDE DEF m
    <3>2. Same(D, x, m)
      BY <1>5, <3>1, SameTransitive
    <3>3. Divides(m, D - x)
      BY <1>5, <3>1, <3>2, DividesSame
    <3> QED BY <3>3 DEF m
  <2>2. D - x \in Int
    BY <1>5
  <2> QED BY <1>1, <2>1, <2>2, ProductDividesIfAll DEF M, n
<1> HIDE DEF v
<1>7. Same(D, x, M)
  BY <1>1, <1>5, <1>6, DividesSame
<1>8. x % M = D
  <2>1. Same(x, D, M)
    BY <1>1, <1>5, <1>7, SameSymmetric
  <2> QED BY Zenon, <1>1, <1>4, <2>1, ResidueIs
<1> QED BY <1>8 DEF D, M

\* Lifting to the centered range gives back what is less than half.
LEMMA CenteredIs ==
  ASSUME NEW M \in Nat, M > 0, NEW x \in Int, 2 * x < M, - (2 * x) < M
  PROVE  (IF x % M <= M \div 2 THEN x % M ELSE (x % M) - M) = x
<1>1. CASE x >= 0
  <2>1. x % M = x
    <3>1. x \in 0 .. M - 1 /\ x = M * 0 + x
      BY <1>1
    <3>2. (M * 0 + x) % M = x
      BY <3>1, QuotientIs
    <3> QED BY <3>1, <3>2
  <2>2. x <= M \div 2
    OBVIOUS
  <2> QED BY <2>1, <2>2
<1>2. CASE x < 0
  <2>1. x % M = x + M
    <3> DEFINE v == x + M
    <3>1. v \in 0 .. M - 1 /\ x = M * (-1) + v
      BY <1>2
    <3> HIDE DEF v
    <3>2. (M * (-1) + v) % M = v
      BY <3>1, QuotientIs
    <3> QED BY <3>1, <3>2 DEF v
  <2>2. ~ (x + M <= M \div 2)
    BY <1>2
  <2> QED BY <2>1, <2>2
<1> QED BY <1>1, <1>2

-----------------------------------------------------------------------------
(* The stack.                                                               *)

\* Bases whose moduli and capacity leave a bit of the words free that hold
\* them.  Above, decoding and adding overflow.
BasesLeaveRoom ==
  \A moduli \in Bases :
    /\ 2 * Product(moduli) <= Wide
    /\ \A i \in 1 .. Len(moduli) : 2 * moduli[i] <= Word

\* Each register holds the residues of its value, which keeps to the bound,
\* and the bound leaves the guard bits.
Tracked(s, x) ==
  /\ s.residues = Encode(basis, x)
  /\ x \in Int /\ s.bound \in Nat
  /\ x < TwoTo[s.bound] /\ - x < TwoTo[s.bound]
  /\ HasCapacity(s.bound)

\* The invariant of the stack: a basis that new accepts, and registers that
\* are all tracked.
StackInv ==
  /\ \E moduli \in Bases : basis = NewBasis(moduli)
  /\ DOMAIN stack = Registers /\ DOMAIN value = Registers
  /\ \A r \in Registers : Tracked(stack[r], value[r])

\* The basis of the stack
LEMMA BasisIs ==
  ASSUME BasesLeaveRoom, NEW moduli \in Bases, basis = NewBasis(moduli)
  PROVE  /\ Roomy(moduli) /\ Gears(basis) = 1 .. Len(moduli)
         /\ basis.moduli = moduli /\ basis.capacity = Product(moduli)
         /\ Product(moduli) \in Nat \ {0} /\ CapacityBits \in Nat
         /\ \A i \in 1 .. Len(moduli) :
              moduli[i] \in Nat /\ moduli[i] > 0 /\ 2 * moduli[i] <= Word
<1>1. Roomy(moduli)
  BY GearStackAssumption DEF BasesLeaveRoom, Roomy
<1>2. basis.moduli = moduli /\ basis.capacity = Product(moduli)
  BY DEF NewBasis
<1>3. /\ DOMAIN moduli = 1 .. Len(moduli) /\ Product(moduli) \in Nat \ {0}
      /\ \A i \in 1 .. Len(moduli) : moduli[i] \in Nat /\ moduli[i] > 0
  BY <1>1, RoomyIs
<1>4. CapacityBits \in Nat
  BY <1>2, <1>3, BitLengthIs DEF CapacityBits
<1> QED BY <1>1, <1>2, <1>3, <1>4 DEF Gears, BasesLeaveRoom

\* What the invariant is for
LEMMA TrackedIsExact ==
  ASSUME BasesLeaveRoom, NEW moduli \in Bases, basis = NewBasis(moduli),
         NEW s, NEW x, Tracked(s, x)
  PROVE  /\ DecodeCentered(basis, s.residues) = x
         /\ WithinBound(s) /\ ~ NeedsPromotion(s, 0)
<1> DEFINE M == Product(moduli)
           h == s.bound
<1>1. /\ Roomy(moduli) /\ M \in Nat /\ M > 0 /\ basis.capacity = M /\ basis.moduli = moduli
      /\ Gears(basis) = 1 .. Len(moduli) /\ CapacityBits \in Nat
  BY BasisIs
<1>2. /\ s.residues = Encode(basis, x) /\ x \in Int /\ h \in Nat
      /\ x < TwoTo[h] /\ - x < TwoTo[h] /\ HasCapacity(h)
  BY DEF Tracked
<1>3. Decode(basis, s.residues) = x % M
  <2>1. \A i \in 1 .. Len(moduli) : s.residues[i] = x % moduli[i]
    BY <1>1, <1>2 DEF Encode
  <2> QED BY Zenon, <1>1, <1>2, <2>1, DecodeOfEncode
<1>4. 2 * x < M /\ - (2 * x) < M
  <2>1. CapacityBits >= h + GuardBits /\ GuardBits \in Nat /\ GuardBits >= 2
    BY <1>2, GearStackAssumption DEF HasCapacity
  <2>2. CapacityBits = BitLength(M)
    BY <1>1 DEF CapacityBits
  <2> HIDE DEF M, h
  <2>3. ~ (BitLength(M) <= h + 1) /\ h + 1 \in Nat
    BY <1>1, <1>2, <2>1, <2>2
  <2>4. ~ (M < TwoTo[h + 1])
    BY Zenon, <1>1, <2>3, BitLengthIs
  <2>5. TwoTo[h + 1] = 2 * TwoTo[h] /\ TwoTo[h] \in Nat
    BY <1>2, TwoToIs
  <2> QED BY <1>1, <1>2, <2>4, <2>5
<1> DEFINE v == x % M
<1>5. v \in Int /\ v % M = v
  <2>1. v \in 0 .. M - 1
    BY Zenon, <1>1, <1>2, ResidueIsSame
  <2> HIDE DEF v
  <2>2. v = M * 0 + v
    BY <1>1, <2>1
  <2> HIDE DEF M
  <2>3. (M * 0 + v) % M = v
    BY <1>1, <2>1, QuotientIs
  <2> QED BY <2>1, <2>2, <2>3
<1>6. DecodeCentered(basis, s.residues) = IF v % M <= M \div 2 THEN v % M ELSE (v % M) - M
  BY <1>1, <1>3, Zenon DEF DecodeCentered, CenteredLift
<1>7. DecodeCentered(basis, s.residues) = x
  <2>1. DecodeCentered(basis, s.residues) = IF x % M <= M \div 2 THEN x % M ELSE (x % M) - M
    BY <1>5, <1>6
  <2> HIDE DEF M
  <2> QED BY Zenon, <1>1, <1>2, <1>4, <2>1, CenteredIs
<1>8. WithinBound(s)
  <2>1. Absolute(x) \in Nat /\ Absolute(x) < TwoTo[h]
    BY <1>2 DEF Absolute
  <2>2. BitLength(Absolute(x)) <= h
    BY <1>2, <2>1, BitLengthIs
  <2> QED BY <1>7, <2>2 DEF WithinBound
<1>9. ~ NeedsPromotion(s, 0)
  <2>1. h + 0 = h
    BY <1>2
  <2> QED BY <1>2, <2>1 DEF NeedsPromotion
<1> QED BY <1>7, <1>8, <1>9

\* Lanes compute on the residues what the operation is on integers.
LEMMA LanesAdd ==
  ASSUME NEW p \in Nat, p > 0, 2 * p <= Word, NEW x \in Int, NEW y \in Int
  PROVE  /\ AddLane(x % p, y % p, p) = (x + y) % p
         /\ SubLane(x % p, y % p, p) = (x - y) % p
         /\ MulLane(x % p, y % p, p) = (x * y) % p
<1> DEFINE a == x % p
           b == y % p
<1>1. a \in 0 .. p - 1 /\ Same(a, x, p) /\ b \in 0 .. p - 1 /\ Same(b, y, p)
  BY Zenon, ResidueIsSame
<1> HIDE DEF a, b
<1>2. a \in Int /\ b \in Int /\ Word \in Nat
  BY <1>1, WideIs
<1>3. (a + b) % Word = a + b /\ (a + p - b) % Word = a + p - b
  BY <1>1, <1>2
<1>4. ASSUME NEW u \in Int, NEW v \in Int, Same(u, v, p) PROVE u % p = v % p
  BY <1>4, SameResidue
<1>5. (a + b) % p = (x + y) % p
  <2>1. Same(a + b, x + y, p)
    BY <1>1, <1>2, SameSum
  <2>2. a + b \in Int /\ x + y \in Int
    BY <1>2
  <2> QED BY <1>4, <2>1, <2>2
<1>6. (a + p - b) % p = (x - y) % p
  <2>1. Same(a - b, x - y, p)
    BY <1>1, <1>2, SameSum
  <2>2. a - b \in Int /\ x - y \in Int /\ a + p - b = (a - b) + p * 1 /\ a + p - b \in Int
    BY <1>2
  <2>3. Same(a + p - b, a - b, p)
    <3>1. 1 \in Int /\ a + p - b = (a - b) + p * 1
      BY <1>2
    <3> QED BY <3>1, Zenon DEF Same
  <2>4. Same(a + p - b, x - y, p)
    BY <2>1, <2>2, <2>3, SameTransitive
  <2> QED BY <1>4, <2>2, <2>4
<1>7. (a * b) % p = (x * y) % p
  <2>1. Same(a * b, x * y, p)
    BY <1>1, <1>2, SameProduct
  <2>2. a * b \in Int /\ x * y \in Int
    BY <1>2
  <2> QED BY <1>4, <2>1, <2>2
<1> QED BY Zenon, <1>3, <1>5, <1>6, <1>7 DEF AddLane, SubLane, MulLane, a, b

\* The bounds of sums and products
LEMMA BoundsCover ==
  ASSUME NEW a \in Nat, NEW b \in Nat, NEW x \in Int, NEW y \in Int,
         x < TwoTo[a], - x < TwoTo[a], y < TwoTo[b], - y < TwoTo[b]
  PROVE  /\ AddBound(a, b) \in Nat /\ MulBound(a, b) \in Nat
         /\ x + y < TwoTo[AddBound(a, b)] /\ - (x + y) < TwoTo[AddBound(a, b)]
         /\ x - y < TwoTo[AddBound(a, b)] /\ - (x - y) < TwoTo[AddBound(a, b)]
         /\ x * y < TwoTo[MulBound(a, b)] /\ - (x * y) < TwoTo[MulBound(a, b)]
<1> DEFINE c == IF a >= b THEN a ELSE b
           u == TwoTo[a]
           v == TwoTo[b]
<1>1. c \in Nat /\ a <= c /\ b <= c
  OBVIOUS
<1>2. AddBound(a, b) = c + 1 /\ MulBound(a, b) = a + b
  BY DEF AddBound, MulBound
<1> HIDE DEF c
<1>3. /\ TwoTo[c + 1] = 2 * TwoTo[c] /\ TwoTo[c] \in Nat
      /\ u <= TwoTo[c] /\ v <= TwoTo[c] /\ u \in Nat /\ v \in Nat
  BY Zenon, <1>1, TwoToIs, TwoToGrows
<1>4. /\ x + y < TwoTo[c + 1] /\ - (x + y) < TwoTo[c + 1]
      /\ x - y < TwoTo[c + 1] /\ - (x - y) < TwoTo[c + 1]
  BY <1>3
<1>5. TwoTo[a + b] = u * v
  BY TwoToSum
<1> HIDE DEF u, v
<1>6. x * y < u * v /\ - (x * y) < u * v
  <2>1. x < u /\ - x < u /\ y < v /\ - y < v
    BY DEF u, v
  <2>2. ASSUME NEW i \in Int, NEW j \in Int, 0 <= i, i < u, 0 <= j, j < v PROVE i * j < u * v
    <3>1. i * j <= i * v
      BY <1>3, <2>2
    <3>2. i * v < u * v
      <4>1. v > 0 /\ v \in Nat
        BY <1>3, <2>2
      <4> QED BY <1>3, <2>2, <4>1
    <3>3. i * j \in Int /\ i * v \in Int /\ u * v \in Int
      BY <1>3, <2>2
    <3> QED BY <3>1, <3>2, <3>3
  <2>3. ASSUME NEW i \in Int, NEW j \in Int, 0 <= i, i < u, 0 <= j, j < v
        PROVE  i * j < u * v /\ - (i * j) < u * v /\ (- i) * j = - (i * j) /\ i * (- j) = - (i * j)
               /\ (- i) * (- j) = i * j
    <3>1. i * j < u * v
      BY <2>2, <2>3
    <3>2. i * j >= 0 /\ i * j \in Int /\ u * v \in Int
      BY <1>3, <2>3
    <3>3. (- i) * j = - (i * j) /\ i * (- j) = - (i * j) /\ (- i) * (- j) = i * j
      OBVIOUS
    <3> QED BY <3>1, <3>2, <3>3
  <2>4. CASE x >= 0 /\ y >= 0
    BY <2>1, <2>3, <2>4
  <2>5. CASE x >= 0 /\ y < 0
    <3> DEFINE j == - y
    <3>1. j \in Int /\ 0 <= j /\ j < v /\ y = - j
      BY <2>1, <2>5
    <3> HIDE DEF j
    <3>2. x * j < u * v /\ - (x * j) < u * v /\ x * (- j) = - (x * j) /\ x * j \in Int
      BY <2>1, <2>3, <2>5, <3>1
    <3> QED BY <3>1, <3>2
  <2>6. CASE x < 0 /\ y >= 0
    <3> DEFINE i == - x
    <3>1. i \in Int /\ 0 <= i /\ i < u /\ x = - i
      BY <2>1, <2>6
    <3> HIDE DEF i
    <3>2. i * y < u * v /\ - (i * y) < u * v /\ (- i) * y = - (i * y) /\ i * y \in Int
      BY <2>1, <2>3, <2>6, <3>1
    <3> QED BY <3>1, <3>2
  <2>7. CASE x < 0 /\ y < 0
    <3> DEFINE i == - x
               j == - y
    <3>1. i \in Int /\ 0 <= i /\ i < u /\ x = - i /\ j \in Int /\ 0 <= j /\ j < v /\ y = - j
      BY <2>1, <2>7
    <3> HIDE DEF i, j
    <3>2. i * j < u * v /\ - (i * j) < u * v /\ (- i) * (- j) = i * j
      BY <2>3, <3>1
    <3> QED BY <3>1, <3>2
  <2> QED BY <2>4, <2>5, <2>6, <2>7
<1>7. c + 1 \in Nat /\ a + b \in Nat
  BY <1>1
<1> QED BY <1>2, <1>4, <1>5, <1>6, <1>7

\* What from_value, add, sub and mul return is tracked, as long as the guard
\* bits are left.
LEMMA StackedIsTracked ==
  ASSUME NEW x \in Int, NEW bound \in Nat, BitLength(Absolute(x)) <= bound,
         HasCapacity(bound)
  PROVE  Tracked(Stacked(x, bound), x)
<1>1. Absolute(x) \in Nat /\ x <= Absolute(x) /\ - x <= Absolute(x)
  BY DEF Absolute
<1>2. Absolute(x) < TwoTo[bound] /\ TwoTo[bound] \in Nat
  BY <1>1, BitLengthIs, TwoToIs
<1>3. x < TwoTo[bound] /\ - x < TwoTo[bound]
  BY <1>1, <1>2
<1>4. Stacked(x, bound).residues = Encode(basis, x) /\ Stacked(x, bound).bound = bound
  BY DEF Stacked
<1> QED BY <1>3, <1>4 DEF Tracked

\* What add, sub and mul return is tracked.
LEMMA CombinedAreTracked ==
  ASSUME BasesLeaveRoom, NEW moduli \in Bases, basis = NewBasis(moduli),
         NEW s, NEW t, NEW x, NEW y, Tracked(s, x), Tracked(t, y)
  PROVE  /\ HasCapacity(Sum(s, t).bound) => Tracked(Sum(s, t), x + y)
         /\ HasCapacity(Difference(s, t).bound) => Tracked(Difference(s, t), x - y)
         /\ HasCapacity(ProductOf(s, t).bound) => Tracked(ProductOf(s, t), x * y)
<1>1. /\ basis.moduli = moduli /\ Gears(basis) = 1 .. Len(moduli)
      /\ \A i \in 1 .. Len(moduli) :
           moduli[i] \in Nat /\ moduli[i] > 0 /\ 2 * moduli[i] <= Word
  BY BasisIs
<1>2. /\ s.residues = Encode(basis, x) /\ x \in Int /\ s.bound \in Nat
      /\ x < TwoTo[s.bound] /\ - x < TwoTo[s.bound]
      /\ t.residues = Encode(basis, y) /\ y \in Int /\ t.bound \in Nat
      /\ y < TwoTo[t.bound] /\ - y < TwoTo[t.bound]
  BY DEF Tracked
<1>3. ASSUME NEW i \in Gears(basis)
      PROVE  /\ AddLane(s.residues[i], t.residues[i], basis.moduli[i]) = (x + y) % basis.moduli[i]
             /\ SubLane(s.residues[i], t.residues[i], basis.moduli[i]) = (x - y) % basis.moduli[i]
             /\ MulLane(s.residues[i], t.residues[i], basis.moduli[i]) = (x * y) % basis.moduli[i]
  <2> DEFINE p == basis.moduli[i]
  <2>1. p \in Nat /\ p > 0 /\ 2 * p <= Word
    BY <1>1
  <2>2. s.residues[i] = x % p /\ t.residues[i] = y % p
    BY <1>2 DEF Encode
  <2> HIDE DEF p
  <2>3. /\ AddLane(x % p, y % p, p) = (x + y) % p
        /\ SubLane(x % p, y % p, p) = (x - y) % p
        /\ MulLane(x % p, y % p, p) = (x * y) % p
    BY Zenon, <1>2, <2>1, LanesAdd
  <2> QED BY <2>2, <2>3 DEF p
<1>4. /\ Sum(s, t).residues = Encode(basis, x + y)
      /\ Difference(s, t).residues = Encode(basis, x - y)
      /\ ProductOf(s, t).residues = Encode(basis, x * y)
  BY <1>3 DEF Sum, Difference, ProductOf, Encode, Lanes
<1>5. /\ Sum(s, t).bound = AddBound(s.bound, t.bound)
      /\ Difference(s, t).bound = AddBound(s.bound, t.bound)
      /\ ProductOf(s, t).bound = MulBound(s.bound, t.bound)
  BY DEF Sum, Difference, ProductOf
<1>6. x + y \in Int /\ x - y \in Int /\ x * y \in Int
  BY <1>2
<1> DEFINE a == s.bound
           b == t.bound
<1>7. a \in Nat /\ b \in Nat
  BY <1>2
<1>8. x < TwoTo[a] /\ - x < TwoTo[a] /\ y < TwoTo[b] /\ - y < TwoTo[b]
  BY <1>2
<1> HIDE DEF a, b
<1>9. /\ AddBound(a, b) \in Nat /\ MulBound(a, b) \in Nat
      /\ x + y < TwoTo[AddBound(a, b)] /\ - (x + y) < TwoTo[AddBound(a, b)]
      /\ x - y < TwoTo[AddBound(a, b)] /\ - (x - y) < TwoTo[AddBound(a, b)]
      /\ x * y < TwoTo[MulBound(a, b)] /\ - (x * y) < TwoTo[MulBound(a, b)]
  BY Zenon, <1>2, <1>7, <1>8, BoundsCover
<1> QED BY <1>4, <1>5, <1>6, <1>9, Zenon DEF Tracked, a, b

\* The stack starts in the invariant, and its steps keep it.
LEMMA StackInitial ==
  ASSUME BasesLeaveRoom, StackInit
  PROVE  StackInv
<1>1. PICK moduli \in Bases : basis = NewBasis(moduli)
  BY DEF StackInit
<1>2. BitLength(Absolute(0)) <= 0
  <2>1. Absolute(0) = 0
    BY DEF Absolute
  <2>2. TwoTo[0] = 1
    BY TwoToIs
  <2> QED BY <2>1, <2>2, BitLengthIs
<1>3. Tracked(Stacked(0, 0), 0)
  BY <1>2, StackedIsTracked DEF StackInit
<1> QED BY <1>1, <1>3 DEF StackInit, StackInv

\* A register that is replaced by a tracked one
LEMMA KeepKeeps ==
  ASSUME StackInv, NEW r \in Registers, NEW s, NEW x, Tracked(s, x), Keep(r, s, x)
  PROVE  StackInv'
<1>1. basis' = basis /\ stack' = [stack EXCEPT ![r] = s] /\ value' = [value EXCEPT ![r] = x]
  BY DEF Keep
<1>2. ASSUME NEW q \in Registers
      PROVE  Tracked(stack[q], value[q])' 
  <2>1. Tracked(stack'[q], value'[q])
    BY <1>1 DEF StackInv
  <2> QED BY <1>1, <2>1 DEF Tracked, HasCapacity, CapacityBits
<1> QED BY <1>1, <1>2 DEF StackInv

\* Every operation keeps what is tracked.
LEMMA StackStepKeeps ==
  ASSUME BasesLeaveRoom, StackInv, [StackNext]_stackVars
  PROVE  StackInv'
<1>1. PICK moduli \in Bases : basis = NewBasis(moduli)
  BY DEF StackInv
<1>2. CapacityBits \in Nat
  BY <1>1, BasisIs
<1>3. \A r \in Registers : Tracked(stack[r], value[r])
  BY DEF StackInv
<1>4. CASE From
  <2>1. PICK r \in Registers, x \in Inputs :
          \E bound \in BitLength(Absolute(x)) .. CapacityBits :
            Keep(r, Stacked(x, bound), x)
    BY <1>4 DEF From
  <2>2. PICK bound \in BitLength(Absolute(x)) .. CapacityBits :
          Keep(r, Stacked(x, bound), x)
    BY <2>1
  <2>3. x \in Int /\ Absolute(x) \in Nat
    BY GearStackAssumption DEF Absolute
  <2>4. BitLength(Absolute(x)) \in Nat
    BY <2>3, BitLengthIs
  <2>5. bound \in Nat /\ BitLength(Absolute(x)) <= bound
    BY <2>4
  <2>6. HasCapacity(bound)
    BY <2>2 DEF Keep, Stacked
  <2>7. Tracked(Stacked(x, bound), x)
    BY <2>3, <2>5, <2>6, StackedIsTracked
  <2> QED BY <2>2, <2>7, KeepKeeps
<1>5. CASE Add
  <2>1. PICK r \in Registers, a \in Registers, b \in Registers :
          Keep(r, Sum(stack[a], stack[b]), value[a] + value[b])
    BY <1>5 DEF Add
  <2>2. HasCapacity(Sum(stack[a], stack[b]).bound)
    BY <2>1 DEF Keep
  <2>3. Tracked(stack[a], value[a]) /\ Tracked(stack[b], value[b])
    BY <1>3
  <2>4. Tracked(Sum(stack[a], stack[b]), value[a] + value[b])
    BY <1>1, <2>2, <2>3, CombinedAreTracked
  <2> QED BY <2>1, <2>4, KeepKeeps
<1>6. CASE Sub
  <2>1. PICK r \in Registers, a \in Registers, b \in Registers :
          Keep(r, Difference(stack[a], stack[b]), value[a] - value[b])
    BY <1>6 DEF Sub
  <2>2. HasCapacity(Difference(stack[a], stack[b]).bound)
    BY <2>1 DEF Keep
  <2>3. Tracked(stack[a], value[a]) /\ Tracked(stack[b], value[b])
    BY <1>3
  <2>4. Tracked(Difference(stack[a], stack[b]), value[a] - value[b])
    BY <1>1, <2>2, <2>3, CombinedAreTracked
  <2> QED BY <2>1, <2>4, KeepKeeps
<1>7. CASE Mul
  <2>1. PICK r \in Registers, a \in Registers, b \in Registers :
          Keep(r, ProductOf(stack[a], stack[b]), value[a] * value[b])
    BY <1>7 DEF Mul
  <2>2. HasCapacity(ProductOf(stack[a], stack[b]).bound)
    BY <2>1 DEF Keep
  <2>3. Tracked(stack[a], value[a]) /\ Tracked(stack[b], value[b])
    BY <1>3
  <2>4. Tracked(ProductOf(stack[a], stack[b]), value[a] * value[b])
    BY <1>1, <2>2, <2>3, CombinedAreTracked
  <2> QED BY <2>1, <2>4, KeepKeeps
<1>8. CASE DotProduct
  <2>1. PICK r \in Registers, a \in Registers, b \in Registers, c \in Registers, d \in Registers :
          LET first  == ProductOf(stack[a], stack[b])
              second == ProductOf(stack[c], stack[d])
          IN  /\ HasCapacity(first.bound) /\ HasCapacity(second.bound)
              /\ Keep(r, Sum(first, second), value[a] * value[b] + value[c] * value[d])
    BY <1>8 DEF DotProduct
  <2> DEFINE first  == ProductOf(stack[a], stack[b])
             second == ProductOf(stack[c], stack[d])
  <2>2. /\ HasCapacity(first.bound) /\ HasCapacity(second.bound)
        /\ Keep(r, Sum(first, second), value[a] * value[b] + value[c] * value[d])
    BY <2>1
  <2>3. /\ Tracked(stack[a], value[a]) /\ Tracked(stack[b], value[b])
        /\ Tracked(stack[c], value[c]) /\ Tracked(stack[d], value[d])
    BY <1>3
  <2>4. Tracked(first, value[a] * value[b])
    BY <1>1, <2>2, <2>3, CombinedAreTracked
  <2>5. Tracked(second, value[c] * value[d])
    BY <1>1, <2>2, <2>3, CombinedAreTracked
  <2> HIDE DEF first, second
  <2>6. HasCapacity(Sum(first, second).bound)
    BY <2>2 DEF Keep
  <2>7. Tracked(Sum(first, second), value[a] * value[b] + value[c] * value[d])
    BY <1>1, <2>4, <2>5, <2>6, CombinedAreTracked
  <2> QED BY <2>2, <2>7, KeepKeeps
<1>9. CASE UNCHANGED stackVars
  BY <1>9 DEF stackVars, StackInv, Tracked, HasCapacity, CapacityBits
<1> QED BY <1>4, <1>5, <1>6, <1>7, <1>8, <1>9 DEF StackNext

\* However values are combined by from_value, add, sub, mul and dot_product,
\* the residues decode to the very integer they stand for and the tracked
\* bound covers it, in every basis that leaves the words room.
THEOREM StackStaysExact == BasesLeaveRoom => (StackSpec => []StackIsExact)
<1> SUFFICES ASSUME BasesLeaveRoom PROVE StackSpec => []StackIsExact
  OBVIOUS
<1>1. StackInit => StackInv
  BY StackInitial
<1>2. StackInv /\ [StackNext]_stackVars => StackInv'
  BY StackStepKeeps
<1>3. StackInv => StackIsExact
  <2> SUFFICES ASSUME StackInv PROVE StackIsExact
    OBVIOUS
  <2>1. PICK moduli \in Bases : basis = NewBasis(moduli)
    BY DEF StackInv
  <2>2. ASSUME NEW r \in Registers
        PROVE  /\ DecodeCentered(basis, stack[r].residues) = value[r]
               /\ WithinBound(stack[r]) /\ ~ NeedsPromotion(stack[r], 0)
    BY <2>1, TrackedIsExact DEF StackInv
  <2> QED BY <2>2 DEF StackIsExact
<1> QED BY <1>1, <1>2, <1>3, PTL DEF StackSpec

-----------------------------------------------------------------------------
(* Windings.                                                                *)

\* The width of u128
LEMMA WideIsTwoTo == 2 * WordBits \in Nat /\ Wide = TwoTo[2 * WordBits]
<1>1. WordBits \in Nat /\ WordBits + WordBits = 2 * WordBits
  BY WordAssumption
<1> QED BY <1>1, TwoToSum DEF Wide, Word

\* Reduced operands add and subtract without a carry out of the width.
LEMMA AddModIs ==
  ASSUME NEW m \in Nat, m > 0, NEW x \in 0 .. m - 1, NEW y \in 0 .. m - 1
  PROVE  AddMod(x, y, m) = (x + y) % m
<1>1. CASE x >= m - y
  <2> DEFINE v == x + y - m
  <2>1. v \in 0 .. m - 1 /\ x + y = m * 1 + v /\ x - (m - y) = v
    BY <1>1
  <2> HIDE DEF v
  <2>2. (m * 1 + v) % m = v
    BY <2>1, QuotientIs
  <2> QED BY <1>1, <2>1, <2>2 DEF AddMod
<1>2. CASE ~ (x >= m - y)
  <2> DEFINE v == x + y
  <2>1. v \in 0 .. m - 1 /\ v = m * 0 + v
    BY <1>2
  <2> HIDE DEF v
  <2>2. (m * 0 + v) % m = v
    BY <2>1, QuotientIs
  <2> QED BY <1>2, <2>1, <2>2 DEF AddMod, v
<1> QED BY <1>1, <1>2

LEMMA SubModIs ==
  ASSUME NEW m \in Nat, m > 0, m <= Wide, NEW x \in 0 .. m - 1, NEW y \in 0 .. m - 1
  PROVE  SubMod(x, y, m) \in 0 .. m - 1 /\ Same(SubMod(x, y, m), x - y, m)
<1>1. Wide \in Nat /\ Wide > 0
  BY WideIs
<1>2. CASE x < y
  <2> DEFINE u == x - y + Wide
             v == x - y + m
  <2>1. u \in 0 .. Wide - 1 /\ x - y = Wide * (-1) + u
    BY <1>1, <1>2
  <2>2. v \in 0 .. m - 1 /\ v \in 0 .. Wide - 1 /\ u + m = Wide * 1 + v
    BY <1>1, <1>2
  <2>3. 1 \in Int /\ v = (x - y) + m * 1
    OBVIOUS
  <2> HIDE DEF u, v
  <2>4. (Wide * (-1) + u) % Wide = u
    BY <1>1, <2>1, QuotientIs
  <2>5. (Wide * 1 + v) % Wide = v
    BY <1>1, <2>2, QuotientIs
  <2>6. SubMod(x, y, m) = v
    BY <1>2, <2>1, <2>2, <2>4, <2>5 DEF SubMod
  <2>7. Same(v, x - y, m)
    BY <2>3, Zenon DEF Same
  <2> QED BY <2>2, <2>6, <2>7
<1>3. CASE ~ (x < y)
  <2> DEFINE v == x - y
  <2>1. v \in 0 .. m - 1 /\ v \in 0 .. Wide - 1 /\ v \in Int /\ v = Wide * 0 + v
    BY <1>1, <1>3
  <2> HIDE DEF v
  <2>2. (Wide * 0 + v) % Wide = v
    BY <1>1, <2>1, QuotientIs
  <2>3. SubMod(x, y, m) = v
    BY <1>3, <2>1, <2>2 DEF SubMod, v
  <2>4. Same(v, v, m)
    BY <2>1, SameReflexive
  <2> QED BY <2>1, <2>3, <2>4 DEF v
<1> QED BY <1>2, <1>3

\* Doubling and adding over the bits of b
IsDoubled(f, a, m) ==
  f = [k \in 0 .. 2 * WordBits |-> IF k = 0 THEN a % m ELSE AddMod(f[k - 1], f[k - 1], m)]

\* The sums of what is doubled, by the bits of b
IsDoubledSum(f, d, b, m) ==
  f = [k \in 0 .. 2 * WordBits |->
        IF k = 0 THEN 0
        ELSE AddMod(f[k - 1], IF (b \div TwoTo[k - 1]) % 2 = 1 THEN d[k - 1] ELSE 0, m)]

\* MulModCt is chosen by these recursions.
LEMMA MulModCtIsChosen ==
  ASSUME NEW a, NEW b, NEW m
  PROVE  MulModCt(a, b, m) =
           (CHOOSE g : IsDoubledSum(g, CHOOSE f : IsDoubled(f, a, m), b, m))[2 * WordBits]
BY Zenon DEF MulModCt, IsDoubled, IsDoubledSum

\* A function that is defined step by step is the one that takes these steps.
TakesSteps(f, n, z, step) ==
  /\ f = [k \in 0 .. n |-> f[k]] /\ f[0] = z
  /\ \A k \in 1 .. n : f[k] = step[k][f[k - 1]]

LEMMA SameSteps ==
  ASSUME NEW n \in Nat, NEW f, NEW g, NEW z, NEW step,
         TakesSteps(f, n, z, step), TakesSteps(g, n, z, step)
  PROVE  f = g
<1>0. /\ f = [k \in 0 .. n |-> f[k]] /\ g = [k \in 0 .. n |-> g[k]]
      /\ f[0] = z /\ g[0] = z
      /\ \A k \in 1 .. n : f[k] = step[k][f[k - 1]] /\ g[k] = step[k][g[k - 1]]
  BY Zenon DEF TakesSteps
<1> DEFINE I == {k \in 0 .. n : f[k] = g[k]}
<1>1. 0 \in I
  BY <1>0
<1>2. ASSUME NEW k \in 1 .. n, k - 1 \in I PROVE k \in I
  <2>1. k \in 0 .. n /\ f[k - 1] = g[k - 1]
    BY <1>2
  <2>2. f[k] = step[k][f[k - 1]] /\ g[k] = step[k][g[k - 1]]
    BY Zenon, <1>0
  <2> QED BY <2>1, <2>2
<1>3. 0 .. n \subseteq I
  <2> HIDE DEF I
  <2> QED BY <1>1, <1>2, RangeInduction
<1>4. \A k \in 0 .. n : f[k] = g[k]
  BY <1>3
<1>5. [k \in 0 .. n |-> f[k]] = [k \in 0 .. n |-> g[k]]
  BY <1>4
<1> QED BY <1>0, <1>5

\* Doubling and adding gives the product modulo m, for every modulus.
LEMMA MulModCtIs ==
  ASSUME NEW m \in Nat, m > 0, NEW a \in Int, NEW b \in Nat, b < Wide
  PROVE  MulModCt(a, b, m) = (a * b) % m
<1> DEFINE n == 2 * WordBits
           sh == [k \in 0 .. n |-> (a * TwoTo[k]) % m]
           sm == [k \in 0 .. n |-> (a * (b % TwoTo[k])) % m]
<1>0. n \in Nat /\ Wide = TwoTo[n]
  BY WideIsTwoTo
<1>1. ASSUME NEW k \in 0 .. n PROVE k \in Nat /\ TwoTo[k] \in Nat /\ TwoTo[k] > 0
  BY <1>0, TwoToIs
<1> HIDE DEF n
<1>3. ASSUME NEW x \in Int PROVE x % m \in 0 .. m - 1 /\ x % m \in Int
  BY Division
<1>4. ASSUME NEW k \in 0 .. n, k # 0
      PROVE  /\ k - 1 \in 0 .. n /\ k - 1 \in Nat /\ (k - 1) + 1 = k
             /\ TwoTo[k] = 2 * TwoTo[k - 1]
  <2>1. k - 1 \in 0 .. n /\ k - 1 \in Nat /\ (k - 1) + 1 = k
    BY <1>0, <1>4
  <2> QED BY <2>1, TwoToIs
<1>5. ASSUME NEW k \in 0 .. n
      PROVE  sh[k] = IF k = 0 THEN a % m ELSE AddMod(sh[k - 1], sh[k - 1], m)
  <2>1. CASE k = 0
    <3>1. a * TwoTo[k] = a
      BY <2>1, TwoToIs
    <3> QED BY <2>1, <3>1
  <2>2. CASE k # 0
    <3> DEFINE w == TwoTo[k - 1]
               v == (a * w) % m
    <3>1. w \in Int
      BY <1>1, <1>4, <2>2
    <3>2. TwoTo[k] = 2 * w /\ sh[k - 1] = v
      BY <1>4, <2>2
    <3> HIDE DEF w
    <3>3. v \in 0 .. m - 1 /\ v \in Int
      <4>1. a * w \in Int
        BY <3>1
      <4> QED BY <1>3, <4>1
    <3>4. (2 * v) % m = (a * (2 * w)) % m
      BY Zenon, <3>1, DoubledResidue
    <3> HIDE DEF v
    <3>5. AddMod(v, v, m) = (v + v) % m /\ v + v = 2 * v
      BY <3>3, AddModIs
    <3>6. sh[k] = (a * (2 * w)) % m
      BY <3>2
    <3> HIDE DEF sh
    <3> QED BY <2>2, <3>2, <3>4, <3>5, <3>6
  <2> QED BY <2>1, <2>2
<1>6. ASSUME NEW k \in 0 .. n
      PROVE  sm[k] = IF k = 0 THEN 0
                     ELSE AddMod(sm[k - 1],
                                 IF (b \div TwoTo[k - 1]) % 2 = 1 THEN sh[k - 1] ELSE 0, m)
  <2>1. CASE k = 0
    <3>1. b % 1 = 0
      OBVIOUS
    <3>2. a * (b % TwoTo[k]) = 0
      BY <2>1, <3>1, TwoToIs
    <3>3. 0 % m = 0
      OBVIOUS
    <3> QED BY <2>1, <3>2, <3>3
  <2>2. CASE k # 0
    <3> DEFINE w == TwoTo[k - 1]
               c == (b \div w) % 2
               r == b % w
               u == (a * r) % m
               v == (a * w) % m
    <3>1. w \in Nat /\ w > 0
      BY <1>1, <1>4, <2>2
    <3>2. sm[k - 1] = u /\ sh[k - 1] = v
      BY <1>4, <2>2
    <3>3. b % TwoTo[k] = r + w * c
      <4>1. k - 1 \in Nat /\ TwoTo[k] = TwoTo[(k - 1) + 1]
        BY <1>4, <2>2
      <4> QED BY <4>1, OneMoreBit
    <3>4. sm[k] = (a * (r + w * c)) % m
      BY <3>3
    <3> HIDE DEF w, sm, sh
    <3>5. r \in Int
      BY <3>1, Division
    <3>6. c \in {0, 1}
      <4>1. b \div w \in Int
        BY <3>1, Division
      <4> QED BY <4>1
    <3> HIDE DEF r, c
    <3>7. a * r \in Int /\ a * w \in Int
      BY <3>1, <3>5
    <3>8. u \in 0 .. m - 1 /\ u \in Int /\ v \in 0 .. m - 1 /\ v \in Int
      BY <1>3, <3>7
    <3>9. CASE c = 1
      <4>1. a * (r + w * c) = a * r + a * w
        BY <3>1, <3>5, <3>9
      <4>2. (u + v) % m = (a * r + a * w) % m
        BY Zenon, <3>7, AddedResidue
      <4> HIDE DEF u, v
      <4>3. AddMod(u, v, m) = (u + v) % m
        BY <3>8, AddModIs
      <4> QED BY <2>2, <3>2, <3>4, <3>9, <4>1, <4>2, <4>3 DEF c, w
    <3>10. CASE c = 0
      <4>1. a * (r + w * c) = a * r
        BY <3>1, <3>5, <3>10
      <4>2. sm[k] = u
        BY <3>4, <4>1
      <4> HIDE DEF u, v
      <4>3. AddMod(u, 0, m) = u
        BY <3>8 DEF AddMod
      <4> QED BY <2>2, <3>2, <3>10, <4>2, <4>3 DEF c, w
    <3> QED BY <3>6, <3>9, <3>10
  <2> QED BY <2>1, <2>2
<1>6a. sh = [k \in 0 .. n |-> sh[k]] /\ sm = [k \in 0 .. n |-> sm[k]]
  OBVIOUS
<1> HIDE DEF sh, sm
<1>7. IsDoubled(sh, a, m)
  BY <1>5, <1>6a, Zenon DEF IsDoubled, n
<1>8. ASSUME NEW f, IsDoubled(f, a, m) PROVE f = sh
  <2> DEFINE step == [k \in 1 .. n |-> [x \in {f[k - 1], sh[k - 1]} |-> AddMod(x, x, m)]]
  <2>1. f = [k \in 0 .. n |-> IF k = 0 THEN a % m ELSE AddMod(f[k - 1], f[k - 1], m)]
    BY <1>8, Zenon DEF IsDoubled, n
  <2>2. \A k \in 0 .. n : f[k] = IF k = 0 THEN a % m ELSE AddMod(f[k - 1], f[k - 1], m)
    BY <2>1, Zenon
  <2>3. f = [k \in 0 .. n |-> f[k]]
    BY <2>1
  <2>4. ASSUME NEW k \in 1 .. n
        PROVE  f[k] = step[k][f[k - 1]] /\ sh[k] = step[k][sh[k - 1]]
    <3>1. k \in 0 .. n /\ k # 0
      BY <1>0
    <3>2. f[k] = AddMod(f[k - 1], f[k - 1], m) /\ sh[k] = AddMod(sh[k - 1], sh[k - 1], m)
      BY <1>5, <2>2, <3>1
    <3> QED BY <3>2, Zenon
  <2>5. f[0] = a % m /\ sh[0] = a % m
    BY <1>0, <1>5, <2>2
  <2> HIDE DEF step
  <2>6. TakesSteps(f, n, a % m, step) /\ TakesSteps(sh, n, a % m, step)
    BY <1>6a, <2>3, <2>4, <2>5, Zenon DEF TakesSteps
  <2> QED BY <1>0, <2>6, SameSteps
<1>9. sh = CHOOSE f : IsDoubled(f, a, m)
  BY <1>7, <1>8
<1>10. IsDoubledSum(sm, sh, b, m)
  BY <1>6, <1>6a, Zenon DEF IsDoubledSum, n
<1>11. ASSUME NEW f, IsDoubledSum(f, sh, b, m) PROVE f = sm
  <2> DEFINE term(k) == IF (b \div TwoTo[k - 1]) % 2 = 1 THEN sh[k - 1] ELSE 0
             step == [k \in 1 .. n |-> [x \in {f[k - 1], sm[k - 1]} |-> AddMod(x, term(k), m)]]
  <2>1. f = [k \in 0 .. n |-> IF k = 0 THEN 0 ELSE AddMod(f[k - 1], term(k), m)]
    BY <1>11, Zenon DEF IsDoubledSum, n
  <2>1a. \A k \in 0 .. n : sm[k] = IF k = 0 THEN 0 ELSE AddMod(sm[k - 1], term(k), m)
    BY <1>6
  <2> HIDE DEF term
  <2>2. \A k \in 0 .. n : f[k] = IF k = 0 THEN 0 ELSE AddMod(f[k - 1], term(k), m)
    BY <2>1, Zenon
  <2>3. f = [k \in 0 .. n |-> f[k]]
    BY <2>1
  <2>4. ASSUME NEW k \in 1 .. n
        PROVE  f[k] = step[k][f[k - 1]] /\ sm[k] = step[k][sm[k - 1]]
    <3>1. k \in 0 .. n /\ k # 0
      BY <1>0
    <3>2. f[k] = AddMod(f[k - 1], term(k), m) /\ sm[k] = AddMod(sm[k - 1], term(k), m)
      BY <2>1a, <2>2, <3>1
    <3> QED BY <3>2, Zenon
  <2>5. f[0] = 0 /\ sm[0] = 0
    BY <1>0, <1>6, <2>2
  <2> HIDE DEF step
  <2>6. TakesSteps(f, n, 0, step) /\ TakesSteps(sm, n, 0, step)
    BY <1>6a, <2>3, <2>4, <2>5, Zenon DEF TakesSteps
  <2> QED BY <1>0, <2>6, SameSteps
<1>12. sm = CHOOSE f : IsDoubledSum(f, sh, b, m)
  BY <1>10, <1>11
<1>13. MulModCt(a, b, m) = sm[n]
  BY <1>9, <1>12, MulModCtIsChosen, Zenon DEF n
<1>14. sm[n] = (a * (b % TwoTo[n])) % m /\ b % TwoTo[n] = b
  <2>1. b < TwoTo[n] /\ TwoTo[n] \in Nat
    BY <1>0, <1>1
  <2>2. b % TwoTo[n] = b
    BY <2>1
  <2> QED BY <1>0, <2>2 DEF sm
<1> QED BY <1>13, <1>14

\* n is r and k windings of m, and s modulo a, and the moduli have the inverse
\* that the readings need.
IsWinding(m, a, n, r, s, k) ==
  /\ m \in Nat \ {0} /\ a \in Nat \ {0} /\ Apart(m, a)
  /\ r \in 0 .. m - 1 /\ s \in 0 .. a - 1 /\ k \in 0 .. a - 1
  /\ n \in Nat /\ n = r + k * m /\ k = n \div m /\ Same(s, n, a)

\* The winding of an integer inside the capacity
LEMMA WindingOf ==
  ASSUME NEW m \in Nat \ {0}, NEW a \in Nat \ {0}, Apart(m, a), NEW n \in Nat, n < m * a
  PROVE  IsWinding(m, a, n, n % m, n % a, n \div m)
<1> DEFINE r == n % m
           s == n % a
           k == n \div m
<1>1. n = m * k + r /\ r \in 0 .. m - 1 /\ k \in Int
  BY Division
<1>2. s \in 0 .. a - 1 /\ Same(s, n, a)
  BY ResidueIsSame
<1> HIDE DEF r, s, k
<1>3. n = r + k * m
  BY <1>1
<1>4. 0 <= k
  <2>1. SUFFICES ASSUME k <= -1 PROVE FALSE
    BY <1>1
  <2>2. m * k <= m * (-1)
    BY <1>1, <2>1
  <2>3. m * k \in Int
    BY <1>1
  <2> QED BY <1>1, <2>2, <2>3
<1>5. k <= a - 1
  <2>1. SUFFICES ASSUME k >= a PROVE FALSE
    BY <1>1
  <2>2. m * k >= m * a
    BY <1>1, <2>1
  <2>3. m * k \in Int /\ m * a \in Int
    BY <1>1
  <2> QED BY <1>1, <2>2, <2>3
<1> QED BY <1>1, <1>2, <1>3, <1>4, <1>5 DEF IsWinding, r, s, k

\* Whatever is the difference of the residues modulo a gives the winding.
LEMMA WindingFrom ==
  ASSUME NEW m, NEW a, NEW n, NEW r, NEW s, NEW k, IsWinding(m, a, n, r, s, k),
         NEW d \in Int, Same(d, s - r, a)
  PROVE  (d * ModInverse(m, a)) % a = k
<1> DEFINE i == ModInverse(m, a)
<1>1. /\ m \in Nat /\ a \in Nat /\ a > 0 /\ m \in Int /\ a \in Int /\ r \in Int /\ s \in Int
      /\ k \in Int /\ n \in Int /\ k \in 0 .. a - 1
      /\ Apart(m, a) /\ n = r + k * m /\ Same(s, n, a)
  BY DEF IsWinding
<1>2. i \in 0 .. a - 1 /\ Same(m * i, 1, a)
  BY <1>1, ModInverseIs
<1> HIDE DEF i
<1>3. i \in Int
  BY <1>2
<1>4. Same(s - r, k * m, a)
  <2>1. Same(r, r, a)
    BY <1>1, SameReflexive
  <2>2. Same(s - r, n - r, a)
    BY <1>1, <2>1, SameSum
  <2>3. n - r = k * m
    BY <1>1
  <2> QED BY <2>2, <2>3
<1>5. Same(d, k * m, a)
  <2>1. s - r \in Int /\ k * m \in Int
    BY <1>1
  <2> QED BY <1>1, <1>4, <2>1, SameTransitive
<1>6. Same(d * i, (k * m) * i, a)
  <2>1. Same(i, i, a) /\ k * m \in Int
    BY <1>1, <1>3, SameReflexive
  <2> QED BY <1>1, <1>3, <1>5, <2>1, SameProduct
<1>7. Same((k * m) * i, k, a)
  BY <1>1, <1>2, <1>3, InverseCancels
<1>8. Same(d * i, k, a)
  <2>1. d * i \in Int /\ (k * m) * i \in Int
    BY <1>1, <1>3
  <2> QED BY <1>1, <1>6, <1>7, <2>1, SameTransitive
<1>9. (d * i) % a = k
  <2>1. d * i \in Int
    BY <1>3
  <2> QED BY Zenon, <1>1, <1>8, <2>1, ResidueIs
<1> QED BY <1>9 DEF i

\* Next to m, the inverse of m is -1.
LEMMA AdjacentWindingFrom ==
  ASSUME NEW m, NEW n, NEW r, NEW s, NEW k, IsWinding(m, m + 1, n, r, s, k)
  PROVE  Same(r - s, k, m + 1)
<1> DEFINE a == m + 1
<1>1. /\ m \in Int /\ r \in Int /\ s \in Int /\ k \in Int /\ n \in Int
      /\ n = r + k * m /\ Same(s, n, a) /\ a \in Int /\ a = m + 1
  BY DEF IsWinding
<1> HIDE DEF a
<1>2. PICK j \in Int : s = n + a * j
  BY <1>1 DEF Same
<1>3. r - s = k + a * (- k - j)
  <2>1. a * (- k - j) = - (a * k) - a * j
    BY <1>1
  <2>2. a * k = m * k + k /\ k * m = m * k
    BY <1>1
  <2>3. a * k \in Int /\ a * j \in Int /\ m * k \in Int
    BY <1>1
  <2> QED BY <1>1, <1>2, <2>1, <2>2, <2>3
<1>4. - k - j \in Int
  BY <1>1
<1> QED BY <1>3, <1>4, Zenon DEF Same, a

\* The windings that K-elimination and cram-core's recovery extract
LEMMA ExtractKIs ==
  ASSUME NEW m, NEW a, NEW n, NEW r, NEW s, NEW k, IsWinding(m, a, n, r, s, k), a < Wide
  PROVE  /\ ExtractK(m, a, r, s) = k
         /\ ExtractKVartime(m, a, r, s) = k
         /\ RecoverWinding(r, s, m, a) \subseteq {k}
<1> DEFINE u == r % a
           i == ModInverse(m, a)
           d == SubMod(s, u, a)
           e == IF s >= u THEN s - u ELSE a - (u - s)
<1>1. /\ m \in Nat /\ a \in Nat /\ a > 0 /\ r \in Int /\ s \in Int /\ s \in 0 .. a - 1
      /\ Apart(m, a)
  BY DEF IsWinding
<1>2. u \in 0 .. a - 1 /\ u \in Int /\ Same(u, r, a)
  <2>1. u \in 0 .. a - 1 /\ Same(u, r, a)
    BY <1>1, ResidueIsSame
  <2> HIDE DEF u
  <2> QED BY <1>1, <2>1
<1>3. i \in Nat /\ i < Wide
  <2>1. i \in 0 .. a - 1
    BY <1>1, ModInverseIs
  <2>2. Wide \in Nat
    BY WideIs
  <2> HIDE DEF i
  <2> QED BY <1>1, <2>1, <2>2
<1> HIDE DEF u, i
<1>4. Same(s - u, s - r, a)
  <2>1. Same(s, s, a)
    BY <1>1, SameReflexive
  <2> QED BY <1>1, <1>2, <2>1, SameSum
<1>5. d \in Int /\ Same(d, s - u, a)
  <2>1. d \in 0 .. a - 1 /\ Same(d, s - u, a)
    <3>1. a <= Wide
      BY <1>1, WideIs
    <3> QED BY <1>1, <1>2, <3>1, SubModIs
  <2> HIDE DEF d
  <2> QED BY <1>1, <2>1
<1>6. e \in Int /\ Same(e, s - u, a)
  <2>1. CASE s >= u
    <3>1. e = s - u /\ s - u \in Int
      BY <1>1, <1>2, <2>1
    <3> QED BY <1>1, <3>1, SameReflexive
  <2>2. CASE ~ (s >= u)
    <3>1. e = (s - u) + a * 1 /\ e \in Int /\ 1 \in Int
      BY <1>1, <1>2, <2>2
    <3> HIDE DEF e
    <3> QED BY <3>1, Zenon DEF Same
  <2> QED BY <2>1, <2>2
<1>7. ASSUME NEW x \in Int, Same(x, s - u, a) PROVE (x * i) % a = k
  <2>1. s - u \in Int /\ s - r \in Int
    BY <1>1, <1>2
  <2>2. Same(x, s - r, a)
    BY <1>1, <1>4, <1>7, <2>1, SameTransitive
  <2> QED BY <2>2, WindingFrom DEF i
<1> HIDE DEF d, e
<1>8. ASSUME NEW x \in Int PROVE MulModCt(x, i, a) = (x * i) % a
  BY Zenon, <1>1, <1>3, MulModCtIs
<1>9. ExtractK(m, a, r, s) = MulModCt(d, i, a)
  BY DEF ExtractK, d, u, i
<1>10. ExtractKVartime(m, a, r, s) = MulModCt(e, i, a)
  BY DEF ExtractKVartime, e, u, i
<1>11. RecoverWinding(r, s, m, a) \subseteq {(e * i) % a}
  BY DEF RecoverWinding, e, u, i
<1> QED BY <1>5, <1>6, <1>7, <1>8, <1>9, <1>10, <1>11

\* Both adjacent forms
LEMMA AdjacentIs ==
  ASSUME NEW m, NEW n, NEW r, NEW s, NEW k, IsWinding(m, m + 1, n, r, s, k), m + 1 < Wide
  PROVE  /\ ExtractKAdjacent(m, r, s) = k
         /\ RecoverAdjacentWinding(r, s, m) \subseteq {k}
<1> DEFINE a == m + 1
           d == SubMod(r, s, a)
           e == (r % a) + m + 1 - s
<1>1. /\ a \in Nat /\ a > 0 /\ a <= Wide /\ r \in 0 .. a - 1 /\ s \in 0 .. a - 1
      /\ r \in Int /\ s \in Int /\ k \in 0 .. a - 1 /\ k \in Int /\ m \in Int
  <2>1. m \in Nat /\ Wide \in Nat
    BY WideIs DEF IsWinding
  <2> QED BY <2>1 DEF IsWinding
<1>2. Same(r - s, k, a)
  BY AdjacentWindingFrom
<1>3. ASSUME NEW x \in Int, Same(x, r - s, a) PROVE x % a = k
  <2>1. r - s \in Int
    BY <1>1
  <2> HIDE DEF a
  <2>2. Same(x, k, a)
    BY <1>1, <1>2, <1>3, <2>1, SameTransitive
  <2> QED BY Zenon, <1>1, <2>2, ResidueIs
<1>4. a = m + 1
  OBVIOUS
<1> HIDE DEF a
<1>5. d \in 0 .. a - 1 /\ d \in Int /\ Same(d, r - s, a)
  <2>1. d \in 0 .. a - 1 /\ Same(d, r - s, a)
    BY <1>1, SubModIs
  <2> HIDE DEF d
  <2> QED BY <1>1, <2>1
<1> HIDE DEF d
<1>6. d % a = d
  BY <1>1, <1>5
<1>7. ((r % a) + m + 1 - s) % a = k
  <2> DEFINE g == (r % a) + m + 1 - s
  <2>1. r % a = r
    BY <1>1
  <2>2. g = (r - s) + a * 1 /\ g \in Int /\ 1 \in Int
    BY <1>1, <1>4, <2>1
  <2> HIDE DEF g
  <2>3. Same(g, r - s, a)
    BY <2>2, Zenon DEF Same
  <2>4. g % a = k
    BY <1>3, <2>2, <2>3
  <2> QED BY <2>4 DEF g
<1>8. ExtractKAdjacent(m, r, s) = k
  BY <1>3, <1>5, <1>6 DEF ExtractKAdjacent, d, a
<1>9. RecoverAdjacentWinding(r, s, m) \subseteq {((r % a) + m + 1 - s) % a}
  BY DEF RecoverAdjacentWinding, a
<1> QED BY <1>7, <1>8, <1>9

\* What is rebuilt is the integer, if it fits.
LEMMA RebuiltIs ==
  ASSUME NEW m, NEW a, NEW n, NEW r, NEW s, NEW k, IsWinding(m, a, n, r, s, k), a < Wide
  PROVE  /\ Wound(m, r, k) = {v \in {n} : v < Wide}
         /\ Rebuilt(m, a, r, s) = {v \in {n} : v < Wide}
<1>1. r + k * m = n /\ r < m /\ s < a
  BY DEF IsWinding
<1>2. ExtractK(m, a, r, s) = k
  BY ExtractKIs
<1> QED BY <1>1, <1>2 DEF Wound, Rebuilt

\* A number that has no common divisor with any of the moduli has none with
\* their product.
LEMMA ApartFromProduct ==
  ASSUME NEW moduli \in Seq(Nat \ {0}), NEW m \in Int,
         \A i \in 1 .. Len(moduli) : Apart(moduli[i], m)
  PROVE  Apart(Product(moduli), m)
<1> DEFINE n == Len(moduli)
<1>0. n \in Nat /\ \A k \in 1 .. n : moduli[k] \in Nat \ {0}
  OBVIOUS
<1>1. PICK f \in [0 .. n -> Nat \ {0}] :
        /\ f[0] = 1 /\ \A k \in 1 .. n : f[k] = f[k - 1] * moduli[k]
        /\ Product(moduli) = f[n]
  BY ProductIs
<1> DEFINE I == {k \in 0 .. n : Apart(f[k], m)}
<1>2. 0 \in I
  BY <1>0, <1>1, ApartFromOne
<1>3. ASSUME NEW k \in 1 .. n, k - 1 \in I PROVE k \in I
  <2> DEFINE a == f[k - 1]
             p == moduli[k]
  <2>1. k \in 0 .. n /\ k - 1 \in 0 .. n /\ Apart(a, m)
    BY <1>0, <1>3
  <2>2. a \in Int /\ p \in Int /\ f[k] = a * p
    BY <1>0, <1>1, <2>1
  <2>3. Apart(p, m)
    OBVIOUS
  <2> HIDE DEF a, p
  <2>4. Apart(f[k], m)
    BY <2>1, <2>2, <2>3, ApartProduct
  <2> QED BY <2>1, <2>4
<1>4. 0 .. n \subseteq I
  <2> HIDE DEF I, n
  <2> QED BY Zenon, <1>0, <1>2, <1>3, RangeInduction
<1>5. n \in 0 .. n
  BY <1>0
<1> QED BY <1>1, <1>4, <1>5

\* Two families that K-elimination accepts
LEMMA FamiliesAreApart ==
  ASSUME NEW alpha \in Seq(Nat), NEW beta \in Seq(Nat), Eliminates(alpha, beta)
  PROVE  /\ Product(alpha) \in Nat \ {0} /\ Product(alpha) < Wide
         /\ Product(beta) \in Nat \ {0} /\ Product(beta) < Wide
         /\ Apart(Product(alpha), Product(beta))
<1>1. IsBasis(alpha) /\ IsBasis(beta)
  BY DEF Eliminates
<1>2. /\ alpha \in Seq(Nat \ {0}) /\ DOMAIN alpha = 1 .. Len(alpha)
      /\ \A i \in 1 .. Len(alpha) : alpha[i] \in Nat
      /\ Product(alpha) \in Nat \ {0} /\ Product(alpha) < Wide
  BY Zenon, <1>1, ModuliAre DEF IsBasis
<1>3. /\ beta \in Seq(Nat \ {0}) /\ DOMAIN beta = 1 .. Len(beta)
      /\ \A j \in 1 .. Len(beta) : beta[j] \in Nat
      /\ Product(beta) \in Nat \ {0} /\ Product(beta) < Wide
  BY Zenon, <1>1, ModuliAre DEF IsBasis
<1>4. ASSUME NEW i \in 1 .. Len(alpha), NEW j \in 1 .. Len(beta)
      PROVE  Apart(beta[j], alpha[i])
  <2>1. Coprime(alpha[i], beta[j]) /\ alpha[i] \in Nat /\ beta[j] \in Nat
    BY Zenon, <1>2, <1>3 DEF Eliminates
  <2>2. Apart(alpha[i], beta[j])
    BY <2>1, CoprimeIsApart
  <2>3. alpha[i] \in Int /\ beta[j] \in Int
    BY <2>1
  <2> QED BY <2>2, <2>3, ApartSymmetric
<1>5. ASSUME NEW i \in 1 .. Len(alpha) PROVE Apart(alpha[i], Product(beta))
  <2>1. alpha[i] \in Int /\ Product(beta) \in Int
    BY <1>2, <1>3
  <2>2. Apart(Product(beta), alpha[i])
    BY Zenon, <1>3, <1>4, <2>1, ApartFromProduct
  <2> QED BY <2>1, <2>2, ApartSymmetric
<1>6. Apart(Product(alpha), Product(beta))
  <2>1. Product(beta) \in Int
    BY <1>3
  <2> QED BY Zenon, <1>2, <1>5, <2>1, ApartFromProduct
<1> QED BY <1>2, <1>3, <1>6

\* A division truncates by less than the divisor.
LEMMA TruncatedIs ==
  ASSUME NEW n \in Nat, NEW d \in Nat \ {0}
  PROVE  /\ d * (n \div d) \in n - d + 1 .. n
         /\ n % d = 0 => d * (n \div d) = n
<1>1. n = d * (n \div d) + (n % d) /\ n % d \in 0 .. d - 1 /\ n \div d \in Int
  BY Division
<1> DEFINE v == d * (n \div d)
           r == n % d
<1>2. n = v + r /\ r \in 0 .. d - 1 /\ v \in Int
  BY <1>1
<1> HIDE DEF v, r
<1>3. v \in n - d + 1 .. n /\ (r = 0 => v = n)
  BY <1>2
<1> QED BY <1>3 DEF v, r

\* Adding half the divisor before dividing rounds to nearest.
LEMMA ScaledIs ==
  ASSUME NEW p \in Nat, NEW q \in Nat \ {0}, NEW n, n = p + q \div 2
  PROVE  \E turns \in 0 .. p :
           2 * (p - (((n \div q) % q) + turns * q) * q) \in - q .. q
<1> DEFINE h == q \div 2
           g == n \div q
           r == n % q
           y == g % q
           turns == g \div q
<1>1. h \in Nat /\ 2 * h <= q /\ 2 * h >= q - 1
  OBVIOUS
<1>2. n = p + h /\ n \in Int
  BY <1>1
<1> HIDE DEF h
<1>3. n = q * g + r /\ r \in 0 .. q - 1 /\ g \in Int
  BY <1>2, Division
<1> HIDE DEF g, r
<1>4. g = q * turns + y /\ y \in 0 .. q - 1 /\ turns \in Int
  BY <1>3, Division
<1> HIDE DEF y, turns
<1>5. (y + turns * q) * q = p + h - r
  <2>1. y + turns * q = g
    BY <1>4
  <2>2. (y + turns * q) * q = g * q
    BY <2>1
  <2>3. g * q = q * g /\ q * g \in Int
    BY <1>3
  <2>4. q * g = p + h - r
    BY <1>1, <1>2, <1>3, <2>3
  <2> QED BY <2>2, <2>3, <2>4
<1>6. 2 * (p - (y + turns * q) * q) \in - q .. q
  BY <1>1, <1>3, <1>5
<1>7. turns >= 0
  <2> SUFFICES ASSUME turns <= -1 PROVE FALSE
    BY <1>4
  <2>1. q * turns <= q * (-1) /\ q * turns \in Int
    BY <1>4
  <2>2. g <= -1
    BY <1>4, <2>1
  <2>3. q * g <= q * (-1) /\ q * g \in Int
    BY <1>3, <2>2
  <2> QED BY <1>1, <1>2, <1>3, <2>3
<1>8. turns <= p
  <2> SUFFICES ASSUME turns >= p + 1 PROVE FALSE
    BY <1>4
  <2>1. q * turns >= q * (p + 1) /\ q * (p + 1) >= p + 1 /\ q * turns \in Int /\ q * (p + 1) \in Int
    BY <1>4
  <2>2. g >= p + 1
    BY <1>4, <2>1
  <2>3. q * g >= q * (p + 1) /\ q * g \in Int
    BY <1>3, <2>2
  <2>4. q * (p + 1) = q * p + q /\ q * p >= p /\ q * p \in Int
    OBVIOUS
  <2> QED BY <1>1, <1>2, <1>3, <2>3, <2>4
<1>9. turns \in 0 .. p
  BY <1>4, <1>7, <1>8
<1>10. (n \div q) % q = y
  BY DEF y, g
<1> QED BY Zenon, <1>6, <1>9, <1>10

-----------------------------------------------------------------------------
(* The readings.                                                            *)

\* Two accepted families and an integer inside their capacity; what was made
\* of the residues is right.
WindInv ==
  /\ families \in Families /\ Eliminates(families[1], families[2])
  /\ number \in Nat /\ number < Alpha * Beta
  /\ WindingsAreExact

\* The readings start in the invariant, and keep it.
LEMMA WindInitial == WindInit => WindInv
<1> SUFFICES ASSUME WindInit PROVE WindInv
  OBVIOUS
<1>1. wound = <<>> /\ number \in Probes /\ number < Alpha * Beta
      /\ families \in {f \in Families : Eliminates(f[1], f[2])}
  BY DEF WindInit
<1> QED BY <1>1, ReadingsAssumption DEF WindInv, WindingsAreExact

\* A reading keeps it.
LEMMA WindKeeps ==
  ASSUME WindInv, Wind
  PROVE  WindInv'
<1> DEFINE m == Alpha
           a == Beta
           r == number % m
           s == number % a
           k == number \div m
           whole == {v \in {number} : v < Wide}
<1>1. /\ families \in Families /\ Eliminates(families[1], families[2])
      /\ number \in Nat /\ number < m * a
  BY DEF WindInv
<1>2. m \in Nat \ {0} /\ m < Wide /\ a \in Nat \ {0} /\ a < Wide /\ Apart(m, a)
  BY <1>1, FamiliesAreApart, ReadingsAssumption DEF Alpha, Beta
<1>3. /\ families' = families /\ number' = number
      /\ wound' =
           [rebuilt   |-> Rebuilt(m, a, r, s),
            others    |-> {Wound(m, r, ExtractKVartime(m, a, r, s))}
                          \cup (IF a = m + 1 THEN {Wound(m, r, ExtractKAdjacent(m, r, s))}
                                ELSE {}),
            recovered |-> RecoverWinding(r, s, m, a)
                          \cup (IF a = m + 1 THEN RecoverAdjacentWinding(r, s, m) ELSE {}),
            truncated |-> [d \in Divisors |-> ExactDivide(Rebuilt(m, a, r, s), d)],
            divided   |-> [d \in Divisors |-> ExactDivideChecked(Rebuilt(m, a, r, s), d)],
            scaled    |-> [x \in Scales |-> ScaleAndRound(m, a, number, x[1], x[2])]]
  BY DEF Wind
<1>4. Alpha' = m /\ Beta' = a
  BY <1>3 DEF Alpha, Beta
<1>4a. m = Alpha /\ a = Beta
  OBVIOUS
<1> HIDE DEF m, a
<1>5. IsWinding(m, a, number, r, s, k)
  BY <1>1, <1>2, WindingOf
<1>6. r = number % m /\ s = number % a /\ k = number \div m
  OBVIOUS
<1> HIDE DEF r, s, k
<1>7. Rebuilt(m, a, r, s) = whole /\ Wound(m, r, k) = whole
  BY <1>2, <1>5, RebuiltIs
<1>8. /\ Wound(m, r, ExtractKVartime(m, a, r, s)) = whole
      /\ RecoverWinding(r, s, m, a) \subseteq {k}
  BY <1>2, <1>5, <1>7, ExtractKIs
<1>9. ASSUME a = m + 1
      PROVE  /\ Wound(m, r, ExtractKAdjacent(m, r, s)) = whole
             /\ RecoverAdjacentWinding(r, s, m) \subseteq {k}
  BY <1>2, <1>5, <1>7, <1>9, AdjacentIs
<1>10. ASSUME NEW x \in Scales, number * x[1] + x[2] \div 2 < m * a,
              NEW y \in ScaleAndRound(m, a, number, x[1], x[2])
       PROVE  \E turns \in 0 .. number * x[1] :
                2 * (number * x[1] - (y + turns * x[2]) * x[2]) \in - x[2] .. x[2]
  <2> DEFINE t == x[1]
             q == x[2]
             p == number * t
             n == p + q \div 2
  <2>1. t \in Nat /\ q \in Nat \ {0}
    BY ReadingsAssumption
  <2> HIDE DEF t, q
  <2>2. p \in Nat /\ q \div 2 \in Nat /\ n \in Nat /\ n = p + q \div 2
    BY <1>1, <2>1
  <2>3. y \in {(v \div q) % q : v \in Rebuilt(m, a, n % m, n % a)}
    BY <1>10 DEF ScaleAndRound, t, q
  <2>4. n < m * a
    BY <1>10 DEF t, q
  <2> HIDE DEF n
  <2>5. IsWinding(m, a, n, n % m, n % a, n \div m)
    BY <1>2, <2>2, <2>4, WindingOf
  <2>6. Rebuilt(m, a, n % m, n % a) = {v \in {n} : v < Wide}
    BY <1>2, <2>5, RebuiltIs
  <2>7. y = (n \div q) % q
    BY <2>3, <2>6
  <2> HIDE DEF p
  <2>8. \E turns \in 0 .. p : 2 * (p - (((n \div q) % q) + turns * q) * q) \in - q .. q
    BY Zenon, <2>1, <2>2, ScaledIs
  <2>9. \E turns \in 0 .. p : 2 * (p - (y + turns * q) * q) \in - q .. q
    BY <2>7, <2>8
  <2> QED BY <2>9 DEF p, t, q
<1>11. ASSUME NEW d \in Divisors \ {0}
       PROVE  /\ \A v \in ExactDivide(whole, d) : d * v \in number - d + 1 .. number
              /\ \A v \in ExactDivideChecked(whole, d) : d * v = number
              /\ number < Wide /\ number % d = 0 => ExactDivideChecked(whole, d) # {}
  <2>1. d \in Nat \ {0} /\ d # 0
    BY ReadingsAssumption
  <2>2. /\ d * (number \div d) \in number - d + 1 .. number
        /\ number % d = 0 => d * (number \div d) = number
    BY Zenon, <1>1, <2>1, TruncatedIs
  <2>3. \A v \in ExactDivide(whole, d) : v = number \div d
    BY DEF ExactDivide
  <2>4. \A v \in ExactDivideChecked(whole, d) : v = number \div d /\ number % d = 0
    BY DEF ExactDivideChecked
  <2>5. number < Wide /\ number % d = 0 => number \div d \in ExactDivideChecked(whole, d)
    BY <2>1 DEF ExactDivideChecked
  <2> QED BY Zenon, <2>2, <2>3, <2>4, <2>5
<1>12. /\ wound'.rebuilt = whole
       /\ \A other \in wound'.others : other = whole
       /\ \A j \in wound'.recovered : j = k
       /\ \A d \in Divisors : /\ wound'.truncated[d] = ExactDivide(whole, d)
                              /\ wound'.divided[d] = ExactDivideChecked(whole, d)
       /\ \A x \in Scales : wound'.scaled[x] = ScaleAndRound(m, a, number, x[1], x[2])
  <2>1. \A other \in wound'.others : other = whole
    <3>1. wound'.others = {Wound(m, r, ExtractKVartime(m, a, r, s))}
                          \cup (IF a = m + 1 THEN {Wound(m, r, ExtractKAdjacent(m, r, s))}
                                ELSE {})
      BY <1>3
    <3> HIDE DEF whole
    <3> QED BY <1>8, <1>9, <3>1
  <2>2. \A j \in wound'.recovered : j = k
    <3>1. wound'.recovered = RecoverWinding(r, s, m, a)
                          \cup (IF a = m + 1 THEN RecoverAdjacentWinding(r, s, m) ELSE {})
      BY <1>3
    <3> QED BY <1>8, <1>9, <3>1
  <2> HIDE DEF whole
  <2> QED BY <1>3, <1>7, <2>1, <2>2
<1>13. WindingsAreExact'
  <2>1. Wide' = Wide
    BY DEF Wide, Word
  <2> SUFFICES
        LET w == {v \in {number} : v < Wide}
        IN  /\ wound'.rebuilt = w
            /\ \A other \in wound'.others : other = w
            /\ \A j \in wound'.recovered : j = number \div m
            /\ \A d \in Divisors \ {0} :
                 /\ \A v \in wound'.truncated[d] : d * v \in number - d + 1 .. number
                 /\ \A v \in wound'.divided[d] : d * v = number
                 /\ number < Wide /\ number % d = 0 => wound'.divided[d] # {}
            /\ \A x \in Scales :
                 number * x[1] + x[2] \div 2 < m * a =>
                   \A y \in wound'.scaled[x] :
                     \E turns \in 0 .. number * x[1] :
                       2 * (number * x[1] - (y + turns * x[2]) * x[2]) \in -x[2] .. x[2]
    BY Zenon, <1>3, <1>4 DEF WindingsAreExact
  <2>2. \A d \in Divisors \ {0} :
          /\ \A v \in wound'.truncated[d] : d * v \in number - d + 1 .. number
          /\ \A v \in wound'.divided[d] : d * v = number
          /\ number < Wide /\ number % d = 0 => wound'.divided[d] # {}
    <3> HIDE DEF whole
    <3> QED BY <1>11, <1>12
  <2>3. \A x \in Scales :
          number * x[1] + x[2] \div 2 < m * a =>
            \A y \in wound'.scaled[x] :
              \E turns \in 0 .. number * x[1] :
                2 * (number * x[1] - (y + turns * x[2]) * x[2]) \in -x[2] .. x[2]
    BY <1>10, <1>12, Zenon
  <2>4. \A j \in wound'.recovered : j = number \div m
    BY <1>6, <1>12
  <2> QED BY <1>12, <2>2, <2>3, <2>4, Zenon DEF whole
<1> QED BY <1>1, <1>3, <1>4, <1>13 DEF WindInv

\* An integer read back from its residues is the integer, by every route and
\* for moduli up to the width, or is refused; divisions and scaling of what is
\* read round as they promise (k_elimination.rs, anchor.rs).
THEOREM WindingsStayExact == WindSpec => []WindingsAreExact
<1>1. WindInit => WindInv
  BY WindInitial
<1>2. WindInv /\ [Wind]_windVars => WindInv'
  <2>1. CASE UNCHANGED windVars
    BY <2>1 DEF windVars, WindInv, WindingsAreExact, Alpha, Beta
  <2> QED BY <2>1, WindKeeps
<1>3. WindInv => WindingsAreExact
  BY DEF WindInv
<1> QED BY <1>1, <1>2, <1>3, PTL DEF WindSpec

-----------------------------------------------------------------------------
(* Successors.                                                              *)

\* Two numbers below M that differ by a multiple of M are the same.
LEMMA CloseMultiples ==
  ASSUME NEW M \in Nat \ {0}, NEW x \in 0 .. M - 1, NEW y \in 0 .. M - 1, Divides(M, x - y)
  PROVE  x = y
<1>1. M \in Nat /\ M > 0 /\ x \in Int /\ y \in Int
  OBVIOUS
<1>2. Same(x, y, M)
  BY <1>1, DividesSame
<1>3. x % M = y
  BY Zenon, <1>1, <1>2, ResidueIs
<1>4. x % M = x
  OBVIOUS
<1> QED BY <1>3, <1>4

\* What Shadow11Plan::new accepts
LEMMA ShadowsAre ==
  ASSUME NEW moduli \in Seq(Nat), Shadows(moduli)
  PROVE  /\ moduli \in Seq(Nat \ {0}) /\ DOMAIN moduli = 1 .. Len(moduli)
         /\ PairwiseApart(moduli)
         /\ \A i \in 1 .. Len(moduli) : moduli[i] \in Nat /\ moduli[i] > 0
         /\ Product(moduli) \in 2 .. Word \div 2 - 1 /\ Product(moduli) \in Nat \ {0}
         /\ Apart(Product(moduli), Shadow)
<1>1. /\ Len(moduli) \in Nat /\ DOMAIN moduli = 1 .. Len(moduli) /\ Len(moduli) # 0
      /\ Word \in Nat /\ Shadow \in Nat
  BY WideIs, WindingAssumption DEF Shadows
<1>2. \A i \in 1 .. Len(moduli) : /\ moduli[i] \in Nat /\ moduli[i] >= 2
                                  /\ Coprime(moduli[i], Shadow)
  BY SMTT(30), <1>1 DEF Shadows
<1>3. moduli \in Seq(Nat \ {0})
  BY <1>1, <1>2
<1>4. PairwiseApart(moduli)
  <2> SUFFICES ASSUME NEW i \in 1 .. Len(moduli), NEW j \in 1 .. Len(moduli), i # j
               PROVE  Apart(moduli[i], moduli[j])
    BY DEF PairwiseApart
  <2>1. \A a, b \in 1 .. Len(moduli) : a < b => Coprime(moduli[a], moduli[b])
    BY Zenon, <1>1 DEF Shadows
  <2>2. \A a, b \in 1 .. Len(moduli) : a < b => Apart(moduli[a], moduli[b])
    BY Zenon, <1>2, <2>1, CoprimeIsApart
  <2>3. CASE i < j
    BY <2>2, <2>3
  <2>4. CASE j < i
    <3>1. Apart(moduli[j], moduli[i]) /\ moduli[i] \in Int /\ moduli[j] \in Int
      BY <1>2, <2>2, <2>4
    <3> QED BY <3>1, ApartSymmetric
  <2> QED BY <1>1, <2>3, <2>4
<1>5. Product(moduli) \in Nat \ {0}
  BY <1>3, ProductIsPositive
<1>6. Product(moduli) >= 2
  <2>1. 1 \in 1 .. Len(moduli)
    BY <1>1
  <2>2. PICK h : IsCofactor(h, moduli, 1)
    BY <1>3, <1>4, <2>1, CofactorExists
  <2> DEFINE p == moduli[1]
  <2>3. h \in Nat /\ h > 0 /\ Product(moduli) = p * h /\ p \in Nat /\ p >= 2
    BY <1>2, <2>1, <2>2 DEF IsCofactor
  <2> HIDE DEF p
  <2>4. p * h >= p
    BY <2>3
  <2> QED BY <2>3, <2>4
<1>7. \A i \in 1 .. Len(moduli) : Apart(moduli[i], Shadow)
  BY <1>1, <1>2, CoprimeIsApart
<1>8. Apart(Product(moduli), Shadow)
  BY <1>1, <1>3, <1>7, ApartFromProduct
<1>9. Product(moduli) < Word \div 2
  BY DEF Shadows
<1>10. Product(moduli) \in 2 .. Word \div 2 - 1
  BY <1>1, <1>5, <1>6, <1>9
<1> QED BY <1>1, <1>2, <1>3, <1>4, <1>5, <1>8, <1>10

\* The recovery that verify_successor makes
LEMMA RecoveryOfDifference ==
  ASSUME NEW m \in 2 .. Word \div 2 - 1, Apart(m, Shadow),
         NEW s \in 0 .. Shadow - 1, NEW j \in Int, Same(s, j * m, Shadow)
  PROVE  RecoverWinding(0, s, m, Shadow) = {j % Shadow}
<1> DEFINE i == ModInverse(m, Shadow)
<1>1. /\ m \in Nat /\ m > 0 /\ Shadow \in Nat /\ Shadow > 0 /\ s \in Int /\ 0 <= s
      /\ s < Shadow /\ Shadow \in 2 .. Word \div 2 - 1
  BY WideIs, WindingAssumption
<1>2. Coprime(m, Shadow)
  BY <1>1, CoprimeIsApart
<1>3. i \in 0 .. Shadow - 1 /\ i \in Int /\ Same(m * i, 1, Shadow)
  <2>1. i \in 0 .. Shadow - 1 /\ Same(m * i, 1, Shadow)
    BY <1>1, ModInverseIs
  <2> HIDE DEF i
  <2> QED BY <1>1, <2>1
<1>4. Recovers(0, s, m, Shadow)
  BY <1>1, <1>2 DEF Recovers
<1>5. 0 % Shadow = 0 /\ s >= 0 % Shadow /\ s - (0 % Shadow) = s
  BY <1>1
<1>6. RecoverWinding(0, s, m, Shadow) = {(s * i) % Shadow}
  BY <1>4, <1>5 DEF RecoverWinding
<1> HIDE DEF i
<1>7. Same(s * i, (j * m) * i, Shadow)
  <2>1. Same(i, i, Shadow) /\ j * m \in Int
    BY <1>1, <1>3, SameReflexive
  <2> QED BY <1>1, <1>3, <2>1, SameProduct
<1>8. Same((j * m) * i, j, Shadow)
  BY <1>1, <1>3, InverseCancels
<1>9. s * i \in Int /\ (j * m) * i \in Int
  BY <1>1, <1>3
<1>10. Same(s * i, j, Shadow)
  BY <1>1, <1>7, <1>8, <1>9, SameTransitive
<1>11. (s * i) % Shadow = j % Shadow
  BY Zenon, <1>1, <1>9, <1>10, SameResidue
<1> QED BY <1>6, <1>11

\* The residue modulo the anchor from those modulo 2 and the shadow modulus
LEMMA Residue22Is ==
  ASSUME NEW x \in Int
  PROVE  Residue22(x % 2, x % Shadow) = x % Anchor
<1> DEFINE u == x % 2
           v == x % Shadow
           c == (u - v) % 2
           w == v + Shadow * c
           h == Shadow \div 2
<1>0. /\ Shadow \in Nat /\ Shadow > 1 /\ Shadow > 0 /\ Shadow = 2 * h + 1 /\ h \in Int
      /\ Anchor = 2 * Shadow /\ Anchor \in Nat /\ Anchor > 0
  BY WindingAssumption
<1>1. u \in 0 .. 1 /\ u \in Int /\ Same(u, x, 2)
  <2>1. u \in 0 .. 2 - 1 /\ Same(u, x, 2)
    <3>1. 2 \in Nat /\ 2 > 0 /\ x \in Int
      OBVIOUS
    <3> QED BY Zenon, <3>1, ResidueIsSame
  <2> HIDE DEF u
  <2> QED BY <2>1
<1>2. v \in 0 .. Shadow - 1 /\ v \in Int /\ Same(v, x, Shadow)
  <2>1. v \in 0 .. Shadow - 1 /\ Same(v, x, Shadow)
    BY Zenon, <1>0, ResidueIsSame
  <2> HIDE DEF v
  <2> QED BY <1>0, <2>1
<1> HIDE DEF u, v, h
<1>3. c \in 0 .. 1 /\ c \in Int /\ Same(c, u - v, 2)
  <2>1. u - v \in Int
    BY <1>1, <1>2
  <2>2. c \in 0 .. 2 - 1 /\ Same(c, u - v, 2)
    BY <2>1, ResidueIsSame
  <2> HIDE DEF c
  <2> QED BY <2>2
<1> HIDE DEF c
<1>4. w \in 0 .. Anchor - 1
  <2>1. CASE c = 0
    BY <1>0, <1>2, <2>1
  <2>2. CASE c = 1
    BY <1>0, <1>2, <2>2
  <2> QED BY <1>3, <2>1, <2>2
<1>5. Divides(Shadow, w - x)
  <2>1. PICK k \in Int : v = x + Shadow * k
    BY <1>2 DEF Same
  <2>2. w - x = Shadow * (c + k) /\ c + k \in Int
    <3>1. Shadow * (c + k) = Shadow * c + Shadow * k
      BY <1>0, <1>3, <2>1
    <3>2. Shadow * c \in Int /\ Shadow * k \in Int
      BY <1>0, <1>3, <2>1
    <3> QED BY <1>2, <1>3, <2>1, <3>1, <3>2
  <2> HIDE DEF w
  <2> QED BY <2>2, Zenon DEF Divides
<1>6. Divides(2, w - x)
  <2>1. PICK k \in Int : u = x + 2 * k
    BY <1>1 DEF Same
  <2>2. PICK l \in Int : c = u - v + 2 * l
    BY <1>3 DEF Same
  <2>3. Shadow * c = 2 * (h * c) + c /\ h * c \in Int
    BY <1>0, <1>3
  <2>4. w - x = 2 * (h * c + k + l) /\ h * c + k + l \in Int
    BY <1>1, <1>2, <1>3, <2>1, <2>2, <2>3
  <2> HIDE DEF w
  <2> QED BY <2>4, Zenon DEF Divides
<1>7. Apart(2, Shadow)
  <2>1. 2 * (- h) + Shadow * 1 = 1 /\ - h \in Int /\ 1 \in Int
    BY <1>0
  <2> QED BY <2>1, Zenon DEF Apart
<1>8. w \in Int /\ w - x \in Int
  BY <1>0, <1>4
<1> HIDE DEF w
<1>9. Divides(Anchor, w - x)
  <2>1. Divides(2 * Shadow, w - x)
    BY <1>0, <1>5, <1>6, <1>7, <1>8, ProductDivides
  <2> QED BY <1>0, <2>1
<1>10. Same(w, x, Anchor)
  BY <1>0, <1>8, <1>9, DividesSame
<1>11. x % Anchor = w
  <2>1. Same(x, w, Anchor)
    BY <1>0, <1>8, <1>10, SameSymmetric
  <2> QED BY Zenon, <1>0, <1>4, <2>1, ResidueIs
<1> QED BY <1>11 DEF Residue22, u, v, c, w

\* What the two machines start from
SuccessorInv ==
  /\ payload \in Payloads /\ Shadows(payload)
  /\ source \in Nat /\ source < Period * Shadow
  /\ successor \in Nat /\ successor < Period * Anchor
  /\ SuccessorsAreReal

\* A verification starts in the invariant.
LEMMA SuccessorInitial == SuccessorInit => SuccessorInv
<1> SUFFICES ASSUME SuccessorInit PROVE SuccessorInv
  OBVIOUS
<1>1. payload \in Payloads /\ Shadows(payload) /\ payload \in Seq(Nat)
  BY ReadingsAssumption DEF SuccessorInit
<1>2. Period \in Nat /\ Shadow \in Nat /\ Anchor \in Nat
  BY <1>1, ShadowsAre, WindingAssumption DEF Period
<1>3. /\ source \in 0 .. Period * Shadow - 1 /\ successor \in 0 .. Period * Anchor - 1
      /\ verified = <<>>
  BY DEF SuccessorInit
<1>4. Period * Shadow \in Nat /\ Period * Anchor \in Nat
  BY <1>2
<1>5. /\ source \in Nat /\ source < Period * Shadow
      /\ successor \in Nat /\ successor < Period * Anchor
  BY <1>3, <1>4
<1> QED BY <1>1, <1>3, <1>5 DEF SuccessorInv, SuccessorsAreReal

\* Residues that agree make the difference a number of whole periods.
LEMMA ViewsAgree ==
  ASSUME NEW moduli \in Seq(Nat), Shadows(moduli), NEW x \in Int, NEW y \in Int
  PROVE  (\A i \in DOMAIN moduli : x % moduli[i] = y % moduli[i])
           <=> Divides(Product(moduli), y - x)
<1> DEFINE M == Product(moduli)
<1>1. /\ moduli \in Seq(Nat \ {0}) /\ DOMAIN moduli = 1 .. Len(moduli) /\ PairwiseApart(moduli)
      /\ \A i \in 1 .. Len(moduli) : moduli[i] \in Nat /\ moduli[i] > 0
      /\ M \in Nat \ {0}
  BY ShadowsAre
<1>2. y - x \in Int
  OBVIOUS
<1>3. ASSUME NEW i \in 1 .. Len(moduli)
      PROVE  x % moduli[i] = y % moduli[i] <=> Divides(moduli[i], y - x)
  <2> DEFINE m == moduli[i]
  <2>1. m \in Nat /\ m > 0 /\ m \in Int
    BY <1>1
  <2> HIDE DEF m
  <2>2. y % m = x % m <=> Same(y, x, m)
    BY Zenon, <2>1, SameResidue
  <2>3. Same(y, x, m) <=> Divides(m, y - x)
    BY <2>1, DividesSame
  <2>4. x % m = y % m <=> Divides(m, y - x)
    BY <2>2, <2>3
  <2> QED BY <2>4 DEF m
<1>4. ASSUME NEW i \in 1 .. Len(moduli) PROVE Divides(moduli[i], M)
  <2>1. PICK h : IsCofactor(h, moduli, i)
    BY <1>1, CofactorExists
  <2>2. h \in Int /\ M = moduli[i] * h
    BY <2>1 DEF IsCofactor
  <2> HIDE DEF M
  <2> QED BY <2>2, Zenon DEF Divides
<1>5. ASSUME NEW i \in 1 .. Len(moduli), Divides(M, y - x) PROVE Divides(moduli[i], y - x)
  <2>1. moduli[i] \in Int /\ M \in Int
    BY <1>1
  <2> HIDE DEF M
  <2> QED BY <1>2, <1>4, <1>5, <2>1, DividesTransitive
<1>6. ASSUME \A i \in 1 .. Len(moduli) : Divides(moduli[i], y - x) PROVE Divides(M, y - x)
  BY Zenon, <1>1, <1>2, <1>6, ProductDividesIfAll
<1> QED BY Zenon, <1>1, <1>3, <1>5, <1>6

\* The two checks, as they are made of an integer and one that is offered as
\* its successor.
LEMMA ShadowCheckIs ==
  ASSUME SuccessorInv, NEW slack \in Nat, NEW delta \in Nat, successor < Period * Shadow
  PROVE  VerifySuccessor(payload, View(source), source % Shadow, View(successor),
                         successor % Shadow, source + slack, delta)
           <=> /\ source + slack + Period * delta < Period * Shadow /\ delta < Shadow
               /\ \E k \in 0 .. delta : successor = source + k * Period
<1> DEFINE m == Period
           x == source % Shadow
           y == successor % Shadow
           s == (y - x) % Shadow
           upper == source + slack + m * delta
<1>1. /\ payload \in Seq(Nat) /\ Shadows(payload) /\ source \in Nat /\ source < m * Shadow
      /\ successor \in Nat /\ successor < m * Shadow
  BY ReadingsAssumption DEF SuccessorInv
<1>2. /\ m \in 2 .. Word \div 2 - 1 /\ m \in Nat /\ m > 0 /\ m = Product(payload)
      /\ Apart(m, Shadow) /\ DOMAIN payload = 1 .. Len(payload) /\ Len(payload) \in Nat
      /\ \A i \in DOMAIN payload : payload[i] \in Nat /\ payload[i] > 0
      /\ Shadow \in Nat /\ Shadow > 0
  BY <1>1, ShadowsAre, WindingAssumption DEF Period
<1>3. /\ View(source) = [i \in 1 .. Len(payload) |-> source % payload[i]]
      /\ View(successor) = [i \in 1 .. Len(payload) |-> successor % payload[i]]
  BY <1>2 DEF View
<1>4. Len(View(source)) = Len(payload) /\ Len(View(successor)) = Len(payload)
  BY <1>2, <1>3
<1>5. \A i \in DOMAIN payload :
        /\ View(source)[i] = source % payload[i] /\ source % payload[i] < payload[i]
        /\ View(successor)[i] = successor % payload[i]
  <2> SUFFICES ASSUME NEW i \in DOMAIN payload PROVE source % payload[i] < payload[i]
    BY <1>2, <1>3
  <2> DEFINE p == payload[i]
  <2>1. p \in Nat /\ p > 0 /\ source \in Int
    BY <1>1, <1>2
  <2> HIDE DEF p
  <2>2. source % p \in 0 .. p - 1
    BY <2>1, ResidueIsSame
  <2>3. source % p < p
    BY <2>1, <2>2
  <2> QED BY <2>3 DEF p
<1>6. (\A i \in DOMAIN payload : View(source)[i] = View(successor)[i])
        <=> Divides(m, successor - source)
  <2>1. source \in Int /\ successor \in Int
    BY <1>1
  <2>2. (\A i \in DOMAIN payload : source % payload[i] = successor % payload[i])
          <=> Divides(Product(payload), successor - source)
    BY <1>1, <2>1, ViewsAgree
  <2> QED BY <1>2, <1>5, <2>2
<1>7. /\ x \in 0 .. Shadow - 1 /\ x < Shadow /\ x \in Int /\ Same(x, source, Shadow)
      /\ y \in 0 .. Shadow - 1 /\ y < Shadow /\ y \in Int /\ Same(y, successor, Shadow)
  <2>1. ASSUME NEW z \in Int
        PROVE  z % Shadow \in 0 .. Shadow - 1 /\ Same(z % Shadow, z, Shadow)
    BY Zenon, <1>2, ResidueIsSame
  <2>2. source \in Int /\ successor \in Int
    BY <1>1
  <2>3. x \in 0 .. Shadow - 1 /\ Same(x, source, Shadow) /\ y \in 0 .. Shadow - 1 /\ Same(y, successor, Shadow)
    BY <2>1, <2>2
  <2> HIDE DEF x, y
  <2> QED BY <1>2, <2>3
<1> HIDE DEF m, x, y
<1>8. s \in 0 .. Shadow - 1 /\ s \in Int /\ Same(s, successor - source, Shadow)
  <2>1. y - x \in Int
    BY <1>7
  <2>2. s \in 0 .. Shadow - 1 /\ Same(s, y - x, Shadow)
    BY Zenon, <1>2, <2>1, ResidueIsSame
  <2> HIDE DEF s
  <2>3. s \in Int /\ successor - source \in Int /\ source \in Int /\ successor \in Int
    BY <1>1, <1>2, <2>2
  <2>4. Same(y - x, successor - source, Shadow)
    BY <1>2, <1>7, <2>3, SameSum
  <2> QED BY <1>2, <2>1, <2>2, <2>3, <2>4, SameTransitive
<1> HIDE DEF s
<1>9. m * delta \in Nat /\ m * Shadow \in Nat
  BY <1>2
<1>10. FitsBelow(m, Shadow, source + slack, delta) <=> upper < m * Shadow
  BY <1>1, <1>9 DEF FitsBelow
<1>11. VerifySuccessor(payload, View(source), x, View(successor), y, source + slack, delta)
         <=> /\ delta < Shadow /\ upper < m * Shadow /\ Divides(m, successor - source)
             /\ \E w \in RecoverWinding(0, s, m, Shadow) : w <= delta
  <2>1. VerifySuccessor(payload, View(source), x, View(successor), y, source + slack, delta)
         <=> /\ delta < Shadow /\ FitsBelow(m, Shadow, source + slack, delta)
             /\ \A i \in DOMAIN payload : View(source)[i] = View(successor)[i]
             /\ \E w \in RecoverWinding(0, s, m, Shadow) : w <= delta
    BY Zenon, <1>2, <1>4, <1>5, <1>7 DEF VerifySuccessor, s, m
  <2> QED BY <1>6, <1>10, <2>1
<1>12. ASSUME NEW j \in Int, successor - source = j * m
       PROVE  RecoverWinding(0, s, m, Shadow) = {j % Shadow}
  BY <1>2, <1>8, <1>12, RecoveryOfDifference
<1>13. ASSUME upper < m * Shadow, Divides(m, successor - source),
              \E w \in RecoverWinding(0, s, m, Shadow) : w <= delta
       PROVE  \E k \in 0 .. delta : successor = source + k * m
  <2>1. PICK j \in Int : successor - source = m * j
    BY <1>13 DEF Divides
  <2>2. successor - source = j * m
    BY <1>2, <2>1
  <2> DEFINE w == j % Shadow
             z == source + w * m
  <2>3. w <= delta
    BY <1>12, <1>13, <2>2
  <2>4. w \in 0 .. Shadow - 1 /\ Same(w, j, Shadow)
    BY Zenon, <1>2, ResidueIsSame
  <2> HIDE DEF w
  <2>5. w \in Nat /\ w \in 0 .. delta
    BY <1>2, <2>3, <2>4
  <2>6. z \in 0 .. m * Shadow - 1
    <3>1. w * m <= m * delta /\ w * m \in Nat
      BY <1>2, <2>3, <2>5
    <3> QED BY <1>1, <1>9, <1>13, <3>1
  <2>7. PICK l \in Int : w = j + Shadow * l
    BY <2>4 DEF Same
  <2>8. z - successor = (m * Shadow) * l
    <3>1. w * m = j * m + (Shadow * l) * m
      BY <1>2, <2>7
    <3>2. (Shadow * l) * m = (m * Shadow) * l
      BY <1>2
    <3>3. j * m \in Int /\ (m * Shadow) * l \in Int
      BY <1>2, <1>9
    <3> QED BY <1>1, <2>2, <3>1, <3>2, <3>3
  <2> HIDE DEF z
  <2>9. Divides(m * Shadow, z - successor)
    BY <2>8, Zenon DEF Divides
  <2>10. z = successor
    <3>1. m * Shadow \in Nat \ {0} /\ successor \in 0 .. m * Shadow - 1
      BY <1>1, <1>9
    <3> QED BY Zenon, <2>6, <2>9, <3>1, CloseMultiples
  <2> QED BY <2>5, <2>10 DEF z
<1>14. ASSUME delta < Shadow, NEW k \in 0 .. delta, successor = source + k * m
       PROVE  /\ Divides(m, successor - source)
              /\ \E w \in RecoverWinding(0, s, m, Shadow) : w <= delta
  <2>1. k \in Int /\ successor - source = m * k /\ successor - source = k * m
    <3>1. k \in Int /\ k * m = m * k /\ k * m \in Int
      BY <1>2
    <3> QED BY <1>1, <1>14, <3>1
  <2>2. Divides(m, successor - source)
    BY <2>1, Zenon DEF Divides
  <2>3. k % Shadow = k
    BY <1>2, <1>14
  <2>4. k \in RecoverWinding(0, s, m, Shadow) /\ k <= delta
    BY <1>12, <2>1, <2>3
  <2> QED BY <2>2, <2>4
<1> QED BY <1>11, <1>13, <1>14 DEF m, x, y

\* PhaseLock22 accepts exactly the claimed number of windings.
LEMMA LockCheckIs ==
  ASSUME SuccessorInv, NEW slack \in Nat, NEW delta \in Nat,
         (successor - source) % Period = 0, Coprime(Period, Anchor)
  PROVE  VerifyResidueSuccessor(<<source % 2, source % Shadow>>,
                                <<successor % 2, successor % Shadow>>,
                                Period, delta, source + slack)
           <=> /\ source + slack + Period * delta < Period * Anchor
               /\ successor = source + delta * Period
<1> DEFINE m == Period
           upper == source + slack + m * delta
           z == source + delta * m
<1>1. /\ payload \in Seq(Nat) /\ Shadows(payload) /\ source \in Nat
      /\ successor \in Nat /\ successor < m * Anchor
  BY ReadingsAssumption DEF SuccessorInv
<1>2. /\ m \in 2 .. Word \div 2 - 1 /\ m \in Nat /\ m > 0
      /\ Anchor \in Nat /\ Anchor > 0
  BY <1>1, ShadowsAre, WindingAssumption DEF Period
<1>3. (successor - source) % m = 0 /\ Coprime(m, Anchor)
  OBVIOUS
<1> HIDE DEF m
<1>4. m * delta \in Nat /\ m * Anchor \in Nat /\ delta * m = m * delta
  BY <1>2
<1>5. FitsBelow(m, Anchor, source + slack, delta) <=> upper < m * Anchor
  BY <1>1, <1>4 DEF FitsBelow
<1>6. ((source % Anchor) + (m % Anchor) * (delta % Anchor)) % Anchor = z % Anchor
  <2> DEFINE a == source % Anchor
             b == m % Anchor
             d == delta % Anchor
  <2>1. /\ a \in Int /\ Same(a, source, Anchor) /\ b \in Int /\ Same(b, m, Anchor)
        /\ d \in Int /\ Same(d, delta, Anchor)
    <3>1. ASSUME NEW v \in Int PROVE v % Anchor \in Int /\ Same(v % Anchor, v, Anchor)
      BY <1>2, ResidueIsSame
    <3>2. source \in Int /\ m \in Int /\ delta \in Int
      BY <1>1, <1>2
    <3> QED BY <3>1, <3>2
  <2> HIDE DEF a, b, d
  <2>2. Same(b * d, m * delta, Anchor) /\ b * d \in Int /\ m * delta \in Int
    <3>1. Same(b * d, m * delta, Anchor)
      BY <1>2, <2>1, SameProduct
    <3> QED BY <1>4, <2>1, <3>1
  <2>3. Same(a + b * d, source + m * delta, Anchor)
    <3>1. source \in Int /\ Anchor \in Int
      BY <1>1, <1>2
    <3> QED BY <2>1, <2>2, <3>1, SameSum
  <2>4. (a + b * d) % Anchor = (source + m * delta) % Anchor
    <3>1. a + b * d \in Int /\ source + m * delta \in Int
      BY <1>1, <2>1, <2>2
    <3> QED BY Zenon, <1>2, <2>3, <3>1, SameResidue
  <2> QED BY <1>4, <2>4 DEF a, b, d
<1>7. VerifyResidueSuccessor(<<source % 2, source % Shadow>>,
                             <<successor % 2, successor % Shadow>>, m, delta, source + slack)
        <=> upper < m * Anchor /\ successor % Anchor = z % Anchor
  <2>1. /\ Residue22(source % 2, source % Shadow) = source % Anchor
        /\ Residue22(successor % 2, successor % Shadow) = successor % Anchor
    <3>1. source \in Int /\ successor \in Int
      BY <1>1
    <3> QED BY <3>1, Residue22Is
  <2> QED BY <1>2, <1>3, <1>5, <1>6, <2>1 DEF VerifyResidueSuccessor
<1>8. ASSUME upper < m * Anchor, successor % Anchor = z % Anchor
      PROVE  successor = z
  <2>1. z \in 0 .. m * Anchor - 1 /\ successor \in 0 .. m * Anchor - 1
        /\ m * Anchor \in Nat \ {0}
    BY <1>1, <1>4, <1>8
  <2>1a. z \in Int /\ successor \in Int
    BY <1>1, <2>1
  <2>2. Divides(m, successor - source)
    BY <1>1, <1>2, <1>3, DividesResidue
  <2>3. PICK j \in Int : successor - source = m * j
    BY <2>2 DEF Divides
  <2>4. successor - z = m * (j - delta)
    <3>1. m * (j - delta) = m * j - m * delta /\ m * j \in Int
      BY <1>2
    <3> QED BY <1>1, <1>4, <2>3, <3>1
  <2> HIDE DEF z
  <2>5. Divides(Anchor, successor - z)
    <3>1. Same(successor, z, Anchor)
      BY <1>2, <1>8, <2>1a, SameResidue
    <3> QED BY <1>2, <2>1a, <3>1, DividesSame
  <2>6. Divides(m, successor - z)
    <3>1. j - delta \in Int
      OBVIOUS
    <3> QED BY <2>4, <3>1, Zenon DEF Divides
  <2>7. Apart(m, Anchor) /\ m \in Int /\ Anchor \in Int /\ successor - z \in Int
    BY <1>2, <1>3, <2>1a, CoprimeIsApart
  <2>8. Divides(m * Anchor, successor - z)
    BY <2>5, <2>6, <2>7, ProductDivides
  <2> QED BY Zenon, <2>1, <2>8, CloseMultiples
<1>9. ASSUME successor = z PROVE successor % Anchor = z % Anchor
  BY <1>9
<1> QED BY <1>7, <1>8, <1>9 DEF m

\* A verification keeps it.
LEMMA VerifyKeeps ==
  ASSUME SuccessorInv, Verify
  PROVE  SuccessorInv'
<1>1. /\ payload' = payload /\ source' = source /\ successor' = successor
      /\ verified' =
           [shadow |-> {c \in Slacks \X Increments :
                          VerifySuccessor(payload, View(source), source % Shadow,
                                          View(successor), successor % Shadow,
                                          source + c[1], c[2])},
            lock   |-> {c \in Slacks \X Increments :
                          VerifyResidueSuccessor(<<source % 2, source % Shadow>>,
                                                 <<successor % 2, successor % Shadow>>,
                                                 Period, c[2], source + c[1])}]
  BY DEF Verify
<1>2. Period' = Period
  BY <1>1 DEF Period
<1>3. ASSUME NEW c \in Slacks \X Increments
      PROVE  /\ successor < Period * Shadow =>
                  (c \in verified'.shadow <=>
                     /\ source + c[1] + Period * c[2] < Period * Shadow /\ c[2] < Shadow
                     /\ \E k \in 0 .. c[2] : successor = source + k * Period)
             /\ (successor - source) % Period = 0 /\ Coprime(Period, Anchor) =>
                  (c \in verified'.lock <=>
                     /\ source + c[1] + Period * c[2] < Period * Anchor
                     /\ successor = source + c[2] * Period)
  <2>1. c[1] \in Nat /\ c[2] \in Nat
    BY Zenon, ReadingsAssumption
  <2>2. /\ c \in verified'.shadow <=>
             VerifySuccessor(payload, View(source), source % Shadow, View(successor),
                             successor % Shadow, source + c[1], c[2])
        /\ c \in verified'.lock <=>
             VerifyResidueSuccessor(<<source % 2, source % Shadow>>,
                                    <<successor % 2, successor % Shadow>>,
                                    Period, c[2], source + c[1])
    BY <1>1, Zenon
  <2> QED BY <2>1, <2>2, ShadowCheckIs, LockCheckIs
<1>4. SuccessorsAreReal'
  BY <1>1, <1>2, <1>3, Zenon DEF SuccessorsAreReal
<1> QED BY <1>1, <1>2, <1>4 DEF SuccessorInv

\* Shadow11Plan::verify_successor accepts exactly the successors by at most the
\* claimed number of windings, and PhaseLock22::verify_residue_successor those
\* by exactly this number, although they see only residues.
THEOREM VerifiedSuccessorsAreReal == SuccessorSpec => []SuccessorsAreReal
<1>1. SuccessorInit => SuccessorInv
  BY SuccessorInitial
<1>2. SuccessorInv /\ [Verify]_successorVars => SuccessorInv'
  <2>1. CASE UNCHANGED successorVars
    BY <2>1 DEF successorVars, SuccessorInv, SuccessorsAreReal, Period
  <2> QED BY <2>1, VerifyKeeps
<1>3. SuccessorInv => SuccessorsAreReal
  BY DEF SuccessorInv
<1> QED BY <1>1, <1>2, <1>3, PTL DEF SuccessorSpec

-----------------------------------------------------------------------------
(* Sums, modulo a number.                                                   *)

\* Totals of terms that agree agree.
LEMMA TotalsAgree ==
  ASSUME NEW D, IsFiniteSet(D), NEW f \in [D -> Int], NEW g \in [D -> Int], NEW m \in Int,
         \A i \in D : Same(f[i], g[i], m)
  PROVE  Same(Total(f), Total(g), m)
<1> DEFINE k == [i \in D |-> CHOOSE x \in Int : f[i] = g[i] + m * x]
<1>1. \A i \in D : k[i] \in Int /\ f[i] = g[i] + m * k[i]
  BY Zenon DEF Same
<1>2. k \in [D -> Int]
  BY <1>1
<1> HIDE DEF k
<1>3. IsCombination(D, f, 1, g, m, k)
  BY <1>1, <1>2 DEF IsCombination
<1>4. Total(f) = 1 * Total(g) + m * Total(k)
  <2>1. 1 \in Int
    OBVIOUS
  <2> QED BY <1>2, <1>3, <2>1, TotalIsLinear
<1>5. Total(f) \in Int /\ Total(g) \in Int /\ Total(k) \in Int
  BY <1>2, TotalIsInt
<1>6. Total(f) = Total(g) + m * Total(k)
  BY <1>4, <1>5
<1> QED BY Zenon, <1>5, <1>6 DEF Same

\* A total of natural numbers is one, and at most their number times the
\* largest.
LEMMA TotalIsNat ==
  ASSUME NEW D, IsFiniteSet(D), NEW f \in [D -> Nat]
  PROVE  Total(f) \in Nat
<1>0. f \in [D -> Int]
  OBVIOUS
<1>1. PICK g : IsPartialSum(f, D, g) /\ Total(f) = g[D]
  BY <1>0, TotalIsPartialSum
<1> DEFINE B == {s \in SUBSET D : g[s] \in Nat}
<1>2. {} \in B
  BY <1>1, PartialSumSteps
<1>3. ASSUME NEW s \in SUBSET D, s # {}, Rest(s) \in B PROVE s \in B
  <2>1. g[s] = f[One(s)] + g[Rest(s)] /\ One(s) \in D
    BY <1>1, <1>3, PartialSumSteps, RestIsSmaller
  <2> QED BY <1>3, <2>1
<1>4. SUBSET D \subseteq B
  <2> HIDE DEF B
  <2> QED BY <1>2, <1>3, SubsetInduction
<1> QED BY <1>1, <1>4

\* A sum of n terms is at most n times a bound of each.
LEMMA TotalIsAtMost ==
  ASSUME NEW n \in Nat, NEW f \in [1 .. n -> Nat], NEW c \in Nat,
         \A i \in 1 .. n : f[i] <= c
  PROVE  Total(f) \in Nat /\ Total(f) <= c * n
<1>1. IsFiniteSet(1 .. n) /\ Cardinality(1 .. n) = n
  <2>1. 1 \in Int /\ n \in Int
    OBVIOUS
  <2>2. IsFiniteSet(1 .. n) /\ Cardinality(1 .. n) = IF 1 > n THEN 0 ELSE n - 1 + 1
    BY <2>1, FS_Interval
  <2> QED BY <2>2
<1>2. f \in [1 .. n -> Int] /\ \A i \in 1 .. n : - c <= f[i] /\ f[i] <= c
  OBVIOUS
<1>3. Total(f) <= c * Cardinality(1 .. n)
  BY <1>1, <1>2, TotalIsBounded
<1> QED BY <1>1, <1>3, TotalIsNat

-----------------------------------------------------------------------------
(* The coefficients of residues.                                            *)

\* The moduli of a main basis that an extension accepts
MainModuli(main) ==
  /\ main \in Seq(Nat \ {0}) /\ Len(main) \in Nat /\ DOMAIN main = 1 .. Len(main)
  /\ \A i \in 1 .. Len(main) : main[i] \in Nat /\ main[i] >= 2
  /\ PairwiseApart(main) /\ Product(main) \in Nat \ {0}

\* The main moduli of an extension: at least 2, apart two by two.
LEMMA MainModuliAre ==
  ASSUME NEW main \in Seq(Nat), NEW aux, Extends(main, aux)
  PROVE  MainModuli(main)
<1>1. Len(main) \in Nat /\ DOMAIN main = 1 .. Len(main)
  OBVIOUS
<1>2. \A i \in 1 .. Len(main) : main[i] \in Nat /\ main[i] >= 2
  BY <1>1 DEF Extends
<1>3. main \in Seq(Nat \ {0})
  BY <1>1, <1>2
<1>4. PairwiseApart(main)
  <2> SUFFICES ASSUME NEW i \in 1 .. Len(main), NEW j \in 1 .. Len(main), i # j
               PROVE  Apart(main[i], main[j])
    BY DEF PairwiseApart
  <2>1. \A a, b \in 1 .. Len(main) : a < b => Coprime(main[a], main[b])
    BY <1>1 DEF Extends
  <2>2. \A a, b \in 1 .. Len(main) : a < b => Apart(main[a], main[b])
    BY Zenon, <1>2, <2>1, CoprimeIsApart
  <2>3. CASE i < j
    BY <2>2, <2>3
  <2>4. CASE j < i
    <3>1. Apart(main[j], main[i]) /\ main[i] \in Int /\ main[j] \in Int
      BY <1>2, <2>2, <2>4
    <3> QED BY <3>1, ApartSymmetric
  <2> QED BY <1>1, <2>3, <2>4
<1> QED BY <1>1, <1>2, <1>3, <1>4, ProductIsPositive DEF MainModuli

\* The product of the other moduli
LEMMA OthersIs ==
  ASSUME NEW main, MainModuli(main), NEW i \in 1 .. Len(main)
  PROVE  IsCofactor(Others(main, i), main, i)
<1>1. /\ main \in Seq(Nat \ {0}) /\ PairwiseApart(main)
      /\ main[i] \in Nat /\ main[i] > 0
  BY DEF MainModuli
<1>2. PICK h : IsCofactor(h, main, i)
  BY <1>1, CofactorExists
<1>3. h \in Nat /\ h \in Int /\ Product(main) = main[i] * h
  BY <1>2 DEF IsCofactor
<1>4. Product(main) = main[i] * h + 0 /\ 0 \in 0 .. main[i] - 1 /\ Product(main) \in Int
  BY <1>1, <1>3
<1>5. Product(main) \div main[i] = h
  BY <1>1, <1>3, <1>4, QuotientIs
<1> QED BY <1>2, <1>5 DEF Others

\* Residues of the integer x
AreResiduesOf(r, main, x) ==
  \A i \in 1 .. Len(main) : r[i] \in Nat /\ Same(r[i], x, main[i])

\* Reduced coefficients, one per lane
AreCoefficients(c, main) == \A i \in 1 .. Len(main) : c[i] \in 0 .. main[i] - 1

\* The sum that the coefficients make, and what the fixed-point path adds up
WholeTerms(main, c) == [i \in 1 .. Len(main) |-> c[i] * Others(main, i)]
FixedTerms(main, c) == [i \in 1 .. Len(main) |-> (c[i] * TwoTo[FracBits]) \div main[i]]

\* Both are sequences of natural numbers.
LEMMA TermsAreNat ==
  ASSUME NEW main, MainModuli(main), NEW c, AreCoefficients(c, main)
  PROVE  /\ WholeTerms(main, c) \in [1 .. Len(main) -> Nat]
         /\ FixedTerms(main, c) \in [1 .. Len(main) -> Nat]
         /\ TwoTo[FracBits] \in Nat \ {0}
         /\ IsFiniteSet(1 .. Len(main))
<1>1. TwoTo[FracBits] \in Nat \ {0}
  BY TwoToIs, ExtensionAssumption
<1>2. ASSUME NEW i \in 1 .. Len(main)
      PROVE  /\ c[i] * Others(main, i) \in Nat
             /\ (c[i] * TwoTo[FracBits]) \div main[i] \in Nat
  <2>1. c[i] \in Nat /\ main[i] \in Nat /\ main[i] > 0
    BY DEF AreCoefficients, MainModuli
  <2>2. Others(main, i) \in Nat
    BY OthersIs DEF IsCofactor
  <2>3. \A x, y \in Nat : x * y \in Nat
    OBVIOUS
  <2>4. c[i] * TwoTo[FracBits] \in Nat
    BY <1>1, <2>1, <2>3
  <2>5. \A x \in Nat, m \in Nat : m > 0 => x \div m \in Nat
    OBVIOUS
  <2> QED BY Zenon, <2>1, <2>2, <2>3, <2>4, <2>5
<1>3. IsFiniteSet(1 .. Len(main))
  <2>1. 1 \in Int /\ Len(main) \in Int
    BY DEF MainModuli
  <2> QED BY <2>1, FS_Interval
<1> QED BY <1>1, <1>2, <1>3 DEF WholeTerms, FixedTerms

\* The sum of what the coefficients multiply has the residues, whatever these
\* are.
LEMMA CoefficientsMakeResidues ==
  ASSUME NEW main, MainModuli(main), NEW r, \A i \in 1 .. Len(main) : r[i] \in Nat
  PROVE  LET c == LaneCoefficients(main, r)
         IN  /\ AreCoefficients(c, main)
             /\ Total(WholeTerms(main, c)) \in Nat
             /\ \A i \in 1 .. Len(main) : Same(Total(WholeTerms(main, c)), r[i], main[i])
<1> DEFINE n == Len(main)
           c == LaneCoefficients(main, r)
           w == WholeTerms(main, c)
<1>0. /\ main \in Seq(Nat \ {0}) /\ n \in Nat /\ DOMAIN main = 1 .. n /\ PairwiseApart(main)
      /\ \A i \in 1 .. n : main[i] \in Nat /\ main[i] > 0 /\ main[i] \in Int
      /\ Product(main) \in Int
  BY DEF MainModuli
<1>1. ASSUME NEW i \in 1 .. n
      PROVE  c[i] \in 0 .. main[i] - 1 /\ Same(c[i] * Others(main, i), r[i], main[i])
  <2> DEFINE h == Others(main, i)
             v == ModInverse(h, main[i])
  <2>1. h \in Nat /\ h \in Int /\ Apart(h, main[i])
    BY OthersIs DEF IsCofactor
  <2>2. v \in Int /\ v \in Nat /\ Same(h * v, 1, main[i])
    <3> HIDE DEF h
    <3>1. v \in 0 .. main[i] - 1 /\ Same(h * v, 1, main[i])
      BY <1>0, <2>1, ModInverseIs
    <3> HIDE DEF v
    <3> QED BY <1>0, <3>1
  <2>3. r[i] \in Nat /\ r[i] \in Int
    OBVIOUS
  <2>4. c[i] = (r[i] * v) % main[i]
    BY <1>0 DEF LaneCoefficients
  <2> HIDE DEF h, v, c
  <2>5. r[i] * v \in Int
    BY <2>2, <2>3
  <2>6. c[i] \in 0 .. main[i] - 1 /\ Same(c[i], r[i] * v, main[i])
    BY Zenon, <1>0, <2>4, <2>5, ResidueIsSame
  <2>7. c[i] \in Int
    BY <1>0, <2>6
  <2>8. Same(h, h, main[i])
    BY <1>0, <2>1, SameReflexive
  <2>9. Same(c[i] * h, (r[i] * v) * h, main[i])
    BY Zenon, <1>0, <2>1, <2>5, <2>6, <2>7, <2>8, SameProduct
  <2>10. Same((r[i] * h) * v, r[i], main[i])
    BY Zenon, <1>0, <2>1, <2>2, <2>3, InverseCancels
  <2>11. (r[i] * v) * h = (r[i] * h) * v /\ (r[i] * v) * h \in Int /\ c[i] * h \in Int
    BY <2>1, <2>2, <2>3, <2>7
  <2>12. Same(c[i] * h, r[i], main[i])
    BY Zenon, <1>0, <2>3, <2>9, <2>10, <2>11, SameTransitive
  <2> QED BY <2>6, <2>12 DEF h
<1>2. AreCoefficients(c, main)
  BY <1>1 DEF AreCoefficients
<1> HIDE DEF c
<1>3. w \in [1 .. n -> Nat] /\ w \in [1 .. n -> Int] /\ IsFiniteSet(1 .. n)
  BY <1>2, TermsAreNat
<1>4. \A i \in 1 .. n : w[i] = c[i] * Others(main, i)
  BY DEF WholeTerms
<1> HIDE DEF w
<1>5. Total(w) \in Nat /\ Total(w) \in Int
  BY Zenon, <1>3, TotalIsNat, TotalIsInt
<1>6. ASSUME NEW i \in 1 .. n PROVE Same(Total(w), r[i], main[i])
  <2> DEFINE g == [j \in 1 .. n |-> IF j = i THEN w[i] ELSE 0]
  <2>1. g \in [1 .. n -> Int]
    BY <1>3
  <2>2. ASSUME NEW j \in 1 .. n PROVE Same(w[j], g[j], main[i])
    <3>1. CASE j = i
      <4>1. w[j] = g[j] /\ w[j] \in Int
        BY <1>3, <3>1
      <4> HIDE DEF g
      <4> QED BY <1>0, <4>1, SameReflexive
    <3>2. CASE j # i
      <4>1. Divides(main[i], Others(main, j)) /\ Others(main, j) \in Int
        BY <3>2, OthersIs DEF IsCofactor
      <4>2. c[j] \in Int /\ main[j] \in Int
        BY <1>0, <1>1
      <4>3. Divides(main[i], c[j] * Others(main, j))
        BY Zenon, <1>0, <4>1, <4>2, DividesMultiple
      <4>4. w[j] - g[j] = c[j] * Others(main, j) /\ w[j] \in Int /\ g[j] \in Int
        BY <1>3, <1>4, <3>2
      <4> HIDE DEF g
      <4> QED BY Zenon, <1>0, <4>3, <4>4, DividesSame
    <3> QED BY <3>1, <3>2
  <2>3. Total(g) = g[i]
    <3>1. \A j \in 1 .. n : j # i => g[j] = 0
      OBVIOUS
    <3> HIDE DEF g
    <3> QED BY Zenon, <1>3, <2>1, <3>1, TotalOfOne
  <2>4. Same(Total(w), Total(g), main[i])
    <3> HIDE DEF g
    <3> QED BY Zenon, <1>0, <1>3, <2>1, <2>2, TotalsAgree
  <2>5. g[i] = w[i] /\ w[i] \in Int
    BY <1>3
  <2>6. Same(Total(w), w[i], main[i])
    BY <2>3, <2>4, <2>5
  <2>7. Same(w[i], r[i], main[i])
    BY <1>1, <1>4
  <2>8. r[i] \in Int
    OBVIOUS
  <2> QED BY <1>0, <1>5, <2>5, <2>6, <2>7, <2>8, SameTransitive
<1> QED BY <1>2, <1>5, <1>6 DEF c, w

\* The coefficients are those of the Chinese remainder theorem.
LEMMA CoefficientsMakeSum ==
  ASSUME NEW main, MainModuli(main), NEW x \in Int, NEW r, AreResiduesOf(r, main, x)
  PROVE  LET c == LaneCoefficients(main, r)
         IN  /\ AreCoefficients(c, main)
             /\ Same(Total(WholeTerms(main, c)), x, Product(main))
<1> DEFINE n == Len(main)
           c == LaneCoefficients(main, r)
           s == Total(WholeTerms(main, c))
<1>0. /\ main \in Seq(Nat \ {0}) /\ PairwiseApart(main) /\ Product(main) \in Int
      /\ \A i \in 1 .. n : main[i] \in Int
  BY DEF MainModuli
<1>1. \A i \in 1 .. n : r[i] \in Nat /\ Same(r[i], x, main[i])
  BY DEF AreResiduesOf
<1>2. AreCoefficients(c, main) /\ s \in Int /\ \A i \in 1 .. n : Same(s, r[i], main[i])
  BY <1>1, CoefficientsMakeResidues
<1> HIDE DEF c, s
<1>3. ASSUME NEW i \in 1 .. n PROVE Divides(main[i], s - x)
  <2>1. r[i] \in Int
    BY <1>1
  <2>2. Same(s, x, main[i])
    BY <1>0, <1>1, <1>2, <2>1, SameTransitive
  <2> QED BY Zenon, <1>0, <1>2, <2>2, DividesSame
<1>4. Divides(Product(main), s - x)
  <2>1. s - x \in Int
    BY <1>2
  <2> QED BY <1>0, <1>3, <2>1, ProductDividesIfAll
<1>5. Same(s, x, Product(main))
  BY Zenon, <1>0, <1>2, <1>4, DividesSame
<1> QED BY <1>2, <1>5 DEF c, s

-----------------------------------------------------------------------------
(* The rank.                                                                *)

\* The fixed-point sum F of n terms, each cut off, is what the sum S is in
\* units of m / t, or less.
FixedPoint(n, m, t, F, S) ==
  /\ n \in Nat /\ m \in Nat /\ m > 0 /\ F \in Nat /\ S \in Nat
  /\ \E E \in Nat : t * S = m * F + E /\ E <= (m - 1) * n

\* The true sum is less than w past the fixed-point one.
HoldsSum(w, n, m, t, F, S) ==
  w >= 1 /\ (w = n \/ (w = 1 /\ n = 0)) /\ m * F <= t * S /\ t * S < m * F + m * w

\* So the whole sum lies in the window [F, F + n) of its fixed-point value.
LEMMA WindowOfSum ==
  ASSUME NEW n, NEW m, NEW t \in Nat, NEW F, NEW S, FixedPoint(n, m, t, F, S)
  PROVE  \E w \in Nat : HoldsSum(w, n, m, t, F, S)
<1>1. PICK E \in Nat : t * S = m * F + E /\ E <= (m - 1) * n
  BY DEF FixedPoint
<1>2. n \in Nat /\ m \in Nat /\ m > 0 /\ F \in Nat /\ S \in Nat
  BY DEF FixedPoint
<1>3. (m - 1) * n = m * n - n /\ m * n \in Nat /\ m * F \in Nat /\ t * S \in Nat
  <2>1. \A x, y \in Nat : x * y \in Nat
    OBVIOUS
  <2>2. (m - 1) * n = m * n - n
    BY <1>2
  <2> QED BY <1>2, <2>1, <2>2
<1>4. CASE n = 0
  <2>1. m * n = 0 /\ m * 1 = m
    BY <1>2, <1>4
  <2>2. m * F <= t * S /\ t * S < m * F + m * 1
    BY <1>1, <1>2, <1>3, <1>4, <2>1
  <2> QED BY <1>4, <2>2 DEF HoldsSum
<1>5. CASE n # 0
  <2>1. n >= 1
    BY <1>2, <1>5
  <2>2. m * F <= t * S /\ t * S < m * F + m * n
    BY <1>1, <1>2, <1>3, <2>1
  <2>3. n = n \/ (n = 1 /\ n = 0)
    OBVIOUS
  <2>4. HoldsSum(n, n, m, t, F, S)
    BY <2>1, <2>2, <2>3, Zenon DEF HoldsSum
  <2> QED BY <1>2, <2>4, Zenon
<1> QED BY <1>4, <1>5

\* The sum S is x with k turns around m.
Turned(S, x, k, m, n) == x \in 0 .. m - 1 /\ k \in 0 .. n /\ S = x + m * k

\* The largest of the multiples that fit
LEMMA LargestMultiple ==
  ASSUME NEW n \in Nat, NEW m \in Nat, m > 0, NEW S \in Nat,
         NEW x, NEW k, Turned(S, x, k, m, n)
  PROVE  Max({r \in 0 .. n : S >= r * m}) = k
<1> DEFINE R == {r \in 0 .. n : S >= r * m}
<1>0. x \in 0 .. m - 1 /\ k \in 0 .. n /\ S = x + m * k
  BY DEF Turned
<1>1. k \in R
  <2>1. k * m = m * k /\ m * k \in Int
    BY <1>0
  <2> QED BY <1>0, <2>1
<1>2. ASSUME NEW r \in R PROVE r <= k
  <2>1. r \in Int /\ S >= r * m /\ r * m \in Int /\ m * k \in Int
    BY <1>0
  <2>2. CASE r >= k + 1
    <3>1. m * (r - (k + 1)) >= 0
      BY <1>0, <2>1, <2>2
    <3>2. m * (r - (k + 1)) = r * m - m * k - m
      BY <1>0, <2>1
    <3> QED BY <1>0, <2>1, <3>1, <3>2
  <2> QED BY <1>0, <2>1, <2>2
<1>3. \A y \in R : y \in Int
  OBVIOUS
<1>4. Max(R) = CHOOSE y \in R : \A z \in R : y >= z
  BY DEF Max
<1>5. \A y \in R : (\A z \in R : y >= z) => y = k
  BY <1>0, <1>1, <1>2, <1>3
<1>6. \A z \in R : k >= z
  BY <1>0, <1>2, <1>3
<1> HIDE DEF R
<1>7. Max(R) = k
  BY <1>1, <1>4, <1>5, <1>6
<1> QED BY <1>7 DEF R

\* F has the quotient a and the residue d.
Splits(F, a, d, t) == a \in Int /\ d \in 0 .. t - 1 /\ F = t * a + d

\* What the fixed-point sum decides is so.
LEMMA FixedDecides ==
  ASSUME NEW n, NEW m, NEW h \in Nat, h > 0, NEW t, t = 2 * h, NEW F, NEW S,
         FixedPoint(n, m, t, F, S), NEW x, NEW k, Turned(S, x, k, m, n),
         NEW a, NEW d, Splits(F, a, d, t), d + n <= t
  PROVE  /\ a = k
         /\ d >= h => 2 * x >= m
         /\ d < h /\ d + n <= h => 2 * x < m
<1>1. /\ n \in Nat /\ m \in Nat /\ m > 0 /\ F \in Nat /\ S \in Nat /\ t \in Nat /\ t > 0
      /\ x \in 0 .. m - 1 /\ k \in Int /\ S = x + m * k
      /\ a \in Int /\ d \in 0 .. t - 1 /\ F = t * a + d
  BY DEF FixedPoint, Turned, Splits
<1>a. PICK w \in Nat : HoldsSum(w, n, m, t, F, S)
  BY <1>1, WindowOfSum
<1>2. /\ w >= 1 /\ (w = n \/ (w = 1 /\ n = 0))
      /\ m * F <= t * S /\ t * S < m * F + m * w
  BY <1>a DEF HoldsSum
<1>3. d + w <= t /\ (d < h /\ d + n <= h => d + w <= h)
  BY <1>1, <1>2
<1> DEFINE p == m * a
<1>4. p \in Int /\ m * F = t * p + m * d
  <2>1. m * F = m * (t * a + d)
    BY <1>1
  <2>2. m * (t * a + d) = t * (m * a) + m * d
    BY <1>1
  <2>3. p \in Int
    BY <1>1
  <2> QED BY <2>1, <2>2, <2>3
<1> HIDE DEF p
<1>5. m * d \in Nat /\ m * w \in Nat /\ t * p \in Int /\ t * S \in Int
  <2>1. \A y, z \in Nat : y * z \in Nat
    OBVIOUS
  <2>2. d \in Nat
    BY <1>1
  <2> QED BY <1>1, <1>4, <2>1, <2>2
<1>6. S >= p
  <2>1. t * p <= t * S
    BY <1>2, <1>4, <1>5
  <2>2. t * (S - p) = t * S - t * p /\ t * (S - p) >= 0
    BY <1>1, <1>4, <1>5, <2>1
  <2>3. S - p < 0 => t * (S - p) < 0
    BY <1>1, <1>4
  <2> QED BY <1>1, <1>4, <2>2, <2>3
<1>7. S < p + m
  <2>1. m * d + m * w <= m * t
    <3>1. m * (t - d - w) >= 0
      BY <1>1, <1>3
    <3>2. m * (t - d - w) = m * t - m * d - m * w
      BY <1>1
    <3> QED BY <1>1, <1>5, <3>1, <3>2
  <2>2. t * S < t * p + m * t
    BY <1>1, <1>2, <1>4, <1>5, <2>1
  <2>3. t * (p + m - S) = t * p + m * t - t * S
    BY <1>1, <1>4
  <2>4. t * (p + m - S) > 0
    BY <1>1, <1>5, <2>2, <2>3
  <2>5. p + m - S <= 0 => t * (p + m - S) <= 0
    BY <1>1, <1>4
  <2> QED BY <1>1, <1>4, <2>4, <2>5
<1>8. a = k /\ x = S - p
  <2> DEFINE y == S - p
  <2>1. y \in 0 .. m - 1 /\ S = m * a + y
    BY <1>1, <1>4, <1>6, <1>7 DEF p
  <2>2. S = m * k + x /\ S \in Int
    BY <1>1
  <2> HIDE DEF y
  <2>3. a = k /\ y = x
    BY <1>1, <2>1, <2>2, DivisionIsUnique
  <2> QED BY <2>3 DEF y
<1>9. ASSUME d >= h PROVE 2 * x >= m
  <2>1. m * (d - h) >= 0 /\ m * (d - h) = m * d - h * m /\ h * m \in Int
    BY <1>1, <1>9
  <2>2. t * S >= t * p + h * m
    BY <1>2, <1>4, <1>5, <2>1
  <2>3. h * (2 * S - 2 * p - m) = t * S - t * p - h * m
    BY <1>1, <1>4
  <2>4. h * (2 * S - 2 * p - m) >= 0
    BY <1>5, <2>1, <2>2, <2>3
  <2>5. 2 * S - 2 * p - m < 0 => h * (2 * S - 2 * p - m) < 0
    BY <1>1, <1>4
  <2> QED BY <1>1, <1>4, <1>8, <2>4, <2>5
<1>10. ASSUME d < h, d + n <= h PROVE 2 * x < m
  <2>1. m * (h - d - w) >= 0 /\ m * (h - d - w) = h * m - m * d - m * w /\ h * m \in Int
    BY <1>1, <1>3, <1>10
  <2>2. t * S < t * p + h * m
    BY <1>2, <1>4, <1>5, <2>1
  <2>3. h * (2 * p + m - 2 * S) = t * p + h * m - t * S
    BY <1>1, <1>4
  <2>4. h * (2 * p + m - 2 * S) > 0
    BY <1>5, <2>1, <2>2, <2>3
  <2>5. 2 * p + m - 2 * S <= 0 => h * (2 * p + m - 2 * S) <= 0
    BY <1>1, <1>4
  <2> QED BY <1>1, <1>4, <1>8, <2>4, <2>5
<1> QED BY <1>8, <1>9, <1>10

\* Half of the unit
LEMMA UnitIsEven ==
  /\ TwoTo[FracBits] \in Nat /\ TwoTo[FracBits] > 0
  /\ TwoTo[FracBits] \div 2 \in Nat /\ TwoTo[FracBits] \div 2 > 0
  /\ TwoTo[FracBits] = 2 * (TwoTo[FracBits] \div 2)
<1>1. FracBits - 1 \in Nat /\ FracBits = (FracBits - 1) + 1
  BY ExtensionAssumption
<1>2. TwoTo[FracBits] = 2 * TwoTo[FracBits - 1] /\ TwoTo[FracBits - 1] \in Nat \ {0}
  BY <1>1, TwoToIs
<1> QED BY <1>2

\* Whichever path answers, the rank and the half are right.
LEMMA PlacedIs ==
  ASSUME NEW n, NEW m, NEW F, NEW S, FixedPoint(n, m, TwoTo[FracBits], F, S),
         NEW x, NEW k, Turned(S, x, k, m, n), NEW half \in BOOLEAN
  PROVE  /\ Placed(n, m, F, S, half).rank = k
         /\ Placed(n, m, F, S, half).upper <=> half /\ 2 * x >= m
         /\ Placed(n, m, F, S, half).upper \in BOOLEAN
<1> DEFINE t == TwoTo[FracBits]
           h == t \div 2
           d == F % t
           a == F \div t
           rho == Max({r \in 0 .. n : S >= r * m})
<1>1. t \in Nat /\ t > 0 /\ h \in Nat /\ h > 0 /\ t = 2 * h
  BY UnitIsEven
<1>2. n \in Nat /\ m \in Nat /\ m > 0 /\ F \in Nat /\ F \in Int /\ S \in Nat
  BY DEF FixedPoint
<1> HIDE DEF t
<1>3. F = t * a + d /\ d \in 0 .. t - 1 /\ a \in Int
  BY <1>1, <1>2, Division
<1>x. x \in 0 .. m - 1 /\ k \in 0 .. n /\ S = x + m * k
  BY DEF Turned
<1>4. rho = k
  BY <1>2, LargestMultiple, Zenon
<1>5. Placed(n, m, F, S, half) =
        IF Decided(d, n, half) THEN [rank |-> a, upper |-> half /\ d >= h]
        ELSE [rank |-> rho, upper |-> half /\ S >= rho * m + (m + 1) \div 2]
  BY DEF Placed, t
<1>6. Decided(d, n, half) <=> /\ d + n <= t
                              /\ half => d >= h \/ d + n <= h
  BY DEF Decided, t
<1> HIDE DEF h, d, a, rho
<1>7. CASE Decided(d, n, half)
  <2>1. d + n <= t /\ (half => d >= h \/ d + n <= h)
    BY <1>6, <1>7
  <2>2. FixedPoint(n, m, t, F, S) /\ Splits(F, a, d, t)
    BY <1>3 DEF t, Splits
  <2>3. /\ a = k
        /\ d >= h => 2 * x >= m
        /\ d < h /\ d + n <= h => 2 * x < m
    BY <1>1, <2>1, <2>2, FixedDecides
  <2>4. half => (d >= h <=> 2 * x >= m)
    <3>1. d \in Int /\ x \in Int
      BY <1>1, <1>2, <1>3, <1>x
    <3> QED BY <1>1, <1>2, <2>1, <2>3, <3>1
  <2>5. /\ Placed(n, m, F, S, half).rank = a
        /\ Placed(n, m, F, S, half).upper = (half /\ d >= h)
    BY <1>5, <1>7
  <2>6. (half /\ d >= h) <=> (half /\ 2 * x >= m)
    BY <2>4
  <2> QED BY Zenon, <2>3, <2>5, <2>6
<1>8. CASE ~ Decided(d, n, half)
  <2>1. /\ Placed(n, m, F, S, half).rank = k
        /\ Placed(n, m, F, S, half).upper = (half /\ S >= k * m + (m + 1) \div 2)
    BY <1>4, <1>5, <1>8
  <2>2. S >= k * m + (m + 1) \div 2 <=> 2 * x >= m
    <3> DEFINE p == k * m
    <3>1. p \in Int /\ S = x + p /\ x \in Int
      BY <1>2, <1>x
    <3> HIDE DEF p
    <3>2. S >= p + (m + 1) \div 2 <=> 2 * x >= m
      BY <1>2, <3>1
    <3> QED BY <3>2 DEF p
  <2> QED BY Zenon, <2>1, <2>2
<1> QED BY <1>7, <1>8

\* The sums of a kernel are the ones of the lemma.
LEMMA SumsAreFixedPoint ==
  ASSUME NEW main, MainModuli(main), NEW c, AreCoefficients(c, main)
  PROVE  /\ FixedPoint(Len(main), Product(main), TwoTo[FracBits],
                       Total(FixedTerms(main, c)), Total(WholeTerms(main, c)))
         /\ Total(WholeTerms(main, c)) <= Product(main) * Len(main)
<1> DEFINE n == Len(main)
           m == Product(main)
           t == TwoTo[FracBits]
           f == FixedTerms(main, c)
           w == WholeTerms(main, c)
           e == [i \in 1 .. n |-> t * w[i] - m * f[i]]
<1>1. n \in Nat /\ m \in Nat /\ m > 0 /\ m \in Int
  BY DEF MainModuli
<1>2. /\ w \in [1 .. n -> Nat] /\ f \in [1 .. n -> Nat] /\ t \in Nat /\ t > 0 /\ t \in Int
      /\ w \in [1 .. n -> Int] /\ f \in [1 .. n -> Int] /\ IsFiniteSet(1 .. n)
  BY TermsAreNat
<1>3. ASSUME NEW i \in 1 .. n
      PROVE  e[i] \in Nat /\ e[i] <= m - 1 /\ w[i] <= m
  <2> DEFINE h == Others(main, i)
             q == main[i]
             b == c[i] * t
             s == b % q
  <2>1. q \in Nat /\ q > 0 /\ q \in Int /\ c[i] \in Nat /\ c[i] <= q - 1
    BY DEF MainModuli, AreCoefficients
  <2>2. h \in Nat /\ h > 0 /\ m = q * h
    BY OthersIs DEF IsCofactor
  <2>3. b \in Nat /\ b \in Int
    <3>1. \A y, z \in Nat : y * z \in Nat
      OBVIOUS
    <3> QED BY <1>2, <2>1, <3>1
  <2>4. w[i] = c[i] * h /\ f[i] = b \div q /\ e[i] = t * w[i] - m * f[i]
    BY DEF WholeTerms, FixedTerms
  <2> HIDE DEF e, f, w, t, m, h, q
  <2>5. t * w[i] = b * h
    BY <1>2, <2>1, <2>2, <2>4
  <2> HIDE DEF b
  <2>6. b = q * f[i] + s /\ s \in 0 .. q - 1 /\ f[i] \in Int
    BY <2>1, <2>3, <2>4, Division
  <2> HIDE DEF s
  <2>7. m * f[i] = (q * f[i]) * h /\ q * f[i] \in Int
    BY <2>1, <2>2, <2>6
  <2>8. e[i] = s * h
    <3>1. (b - q * f[i]) * h = b * h - (q * f[i]) * h
      BY <2>2, <2>3, <2>7
    <3>2. b - q * f[i] = s
      BY <2>1, <2>6, <2>7
    <3> QED BY <2>4, <2>5, <2>7, <3>1, <3>2
  <2>9. s * h \in Nat /\ s * h <= m - 1
    <3>1. s \in Nat /\ q - 1 - s \in Nat
      BY <2>1, <2>6
    <3>2. \A y, z \in Nat : y * z \in Nat
      OBVIOUS
    <3>3. (q - 1 - s) * h = q * h - h - s * h
      BY <2>1, <2>2, <3>1
    <3> QED BY <2>1, <2>2, <3>1, <3>2, <3>3
  <2>10. w[i] <= m
    <3>1. (q - c[i]) * h = q * h - c[i] * h /\ (q - c[i]) * h >= 0
      BY <2>1, <2>2
    <3>2. q * h \in Int /\ c[i] * h \in Int
      BY <2>1, <2>2
    <3> QED BY <2>2, <2>4, <3>1, <3>2
  <2> QED BY <2>8, <2>9, <2>10
<1>4. e \in [1 .. n -> Nat] /\ e \in [1 .. n -> Int]
  <2>1. e = [i \in 1 .. n |-> e[i]]
    OBVIOUS
  <2> HIDE DEF e
  <2> QED BY <1>3, <2>1
<1>5. \A i \in 1 .. n : e[i] = t * w[i] - m * f[i]
  OBVIOUS
<1> HIDE DEF e, f, w, t, m
<1>6. Total(e) \in Nat /\ Total(e) <= (m - 1) * n
  <2>1. m - 1 \in Nat
    BY <1>1
  <2> QED BY Zenon, <1>1, <1>3, <1>4, <2>1, TotalIsAtMost
<1>7. Total(w) \in Nat /\ Total(w) <= m * n
  BY Zenon, <1>1, <1>2, <1>3, TotalIsAtMost
<1>8. Total(f) \in Nat
  BY <1>2, TotalIsNat
<1> DEFINE u == -m
<1>9. Total(e) = t * Total(w) + u * Total(f)
  <2>1. ASSUME NEW i \in 1 .. n PROVE e[i] = t * w[i] + u * f[i]
    <3>1. t * w[i] \in Int /\ m * f[i] \in Int /\ (-m) * f[i] = - (m * f[i])
      BY <1>1, <1>2
    <3> QED BY <1>5, <3>1
  <2>2. u \in Int
    BY <1>1
  <2> HIDE DEF u
  <2>3. IsCombination(1 .. n, e, t, w, u, f)
    BY <2>1, Zenon DEF IsCombination
  <2> DEFINE D == 1 .. n
  <2>4. /\ IsFiniteSet(D) /\ t \in Int /\ e \in [D -> Int] /\ w \in [D -> Int] /\ f \in [D -> Int]
        /\ IsCombination(D, e, t, w, u, f)
    BY <1>2, <1>4, <2>3
  <2> HIDE DEF D
  <2> QED BY <2>2, <2>4, TotalIsLinear
<1>10. t * Total(w) = m * Total(f) + Total(e)
  <2>1. t * Total(w) \in Int /\ m * Total(f) \in Int /\ (-m) * Total(f) = - (m * Total(f))
    BY <1>1, <1>2, <1>7, <1>8
  <2> QED BY <1>6, <1>9, <2>1
<1>11. FixedPoint(n, m, t, Total(f), Total(w))
  BY <1>1, <1>6, <1>7, <1>8, <1>10 DEF FixedPoint
<1> QED BY <1>7, <1>11 DEF f, w, t, m

\* x is in the upper half of the range of the modulus m.
UpperHalf(x, m) == 2 * x >= m

\* On either path the rank is the exact one, and the half that of x.
LEMMA RankIs ==
  ASSUME NEW main, MainModuli(main), NEW x \in 0 .. Product(main) - 1,
         NEW r, AreResiduesOf(r, main, x), NEW half \in BOOLEAN
  PROVE  LET c == LaneCoefficients(main, r)
             p == RankAndHalf(main, c, half)
         IN  /\ AreCoefficients(c, main)
             /\ p.rank \in Nat
             /\ Total(WholeTerms(main, c)) = x + Product(main) * p.rank
             /\ p.upper = (half /\ UpperHalf(x, Product(main)))
<1> DEFINE n == Len(main)
           m == Product(main)
           c == LaneCoefficients(main, r)
           S == Total(WholeTerms(main, c))
           F == Total(FixedTerms(main, c))
<1>1. x \in Int /\ n \in Nat /\ m \in Nat /\ m > 0 /\ DOMAIN main = 1 .. n
  BY DEF MainModuli
<1>2. AreCoefficients(c, main) /\ Same(S, x, m)
  BY <1>1, CoefficientsMakeSum
<1>3. RankAndHalf(main, c, half) = Placed(n, m, F, S, half)
  <2> HIDE DEF c
  <2>1. SumOver(DOMAIN main, LAMBDA i : (c[i] * TwoTo[FracBits]) \div main[i]) = F
    BY <1>1, Zenon DEF SumOver, FixedTerms, Total
  <2>2. SumOver(DOMAIN main, LAMBDA i : c[i] * Others(main, i)) = S
    BY <1>1, Zenon DEF SumOver, WholeTerms, Total
  <2> HIDE DEF F, S
  <2> QED BY <2>1, <2>2, Zenon DEF RankAndHalf
<1> HIDE DEF c
<1>4. FixedPoint(n, m, TwoTo[FracBits], F, S) /\ S <= m * n
  BY <1>2, SumsAreFixedPoint
<1>5. S \in Nat
  BY <1>4 DEF FixedPoint
<1> HIDE DEF S, F
<1>6. PICK k \in Int : S = x + m * k
  BY <1>2 DEF Same
<1>7. k \in 0 .. n
  <2> HIDE DEF m, n
  <2>1. m * k \in Int /\ m * k > -m /\ m * k <= m * n
    <3>1. x <= m - 1 /\ x >= 0
      BY <1>1 DEF m
    <3> QED BY <1>1, <1>4, <1>5, <1>6, <3>1
  <2>2. k >= 0
    <3>1. k <= -1 => m * k <= -m
      BY <1>1
    <3> QED BY <1>1, <2>1, <3>1
  <2>3. k <= n
    <3>1. m * (k - n) = m * k - m * n /\ (k - n >= 1 => m * (k - n) >= m)
      BY <1>1
    <3> QED BY <1>1, <2>1, <3>1
  <2> QED BY <1>1, <2>2, <2>3
<1>8. Turned(S, x, k, m, n)
  BY <1>6, <1>7 DEF Turned
<1>9. /\ Placed(n, m, F, S, half).rank = k
      /\ Placed(n, m, F, S, half).upper <=> half /\ 2 * x >= m
      /\ Placed(n, m, F, S, half).upper \in BOOLEAN
  <2> HIDE DEF m, n
  <2> QED BY <1>4, <1>8, PlacedIs
<1>10. Placed(n, m, F, S, half).upper = (half /\ UpperHalf(x, m))
  <2>1. UpperHalf(x, m) <=> 2 * x >= m
    BY DEF UpperHalf
  <2>2. (half /\ UpperHalf(x, m)) \in BOOLEAN
    BY DEF UpperHalf
  <2> QED BY <1>9, <2>1, <2>2
<1>11. k \in Nat
  BY <1>1, <1>7
<1> QED BY <1>2, <1>3, <1>6, <1>9, <1>10, <1>11 DEF c, S

\* The sum of the coefficients, reduced term by term
ReducedTerms(main, c, a) ==
  [i \in 1 .. Len(main) |-> (c[i] * (Others(main, i) % a)) % a]

\* What the kernel makes of the sum modulo one auxiliary modulus
LEMMA ExtendedIs ==
  ASSUME NEW main, MainModuli(main), NEW c, AreCoefficients(c, main),
         NEW aux \in Seq(Nat), NEW j \in DOMAIN aux, aux[j] > 0, NEW multiple \in Int
  PROVE  Extended(main, aux, c, multiple)[j]
           = (Total(WholeTerms(main, c)) - multiple * Product(main)) % aux[j]
<1> DEFINE n == Len(main)
           m == Product(main)
           a == aux[j]
           w == WholeTerms(main, c)
           v == ReducedTerms(main, c, a)
           sub == (multiple * (m % a)) % a
<1>1. n \in Nat /\ m \in Nat /\ m \in Int /\ DOMAIN main = 1 .. n /\ a \in Nat /\ a > 0 /\ a \in Int
  BY DEF MainModuli
<1>2. w \in [1 .. n -> Int] /\ IsFiniteSet(1 .. n)
  BY TermsAreNat
<1>3. Extended(main, aux, c, multiple)[j] = ((Total(v) % a) + a - sub) % a
  <2>1. SumOver(DOMAIN main, LAMBDA i : (c[i] * (Others(main, i) % a)) % a) = Total(v)
    <3> HIDE DEF a
    <3> QED BY <1>1, Zenon DEF SumOver, ReducedTerms, Total
  <2> HIDE DEF v
  <2> QED BY <2>1, Zenon DEF Extended
<1>r. ASSUME NEW y \in Int PROVE y % a \in Int /\ Same(y % a, y, a)
  <2> HIDE DEF a
  <2>1. y % a \in 0 .. a - 1 /\ Same(y % a, y, a)
    BY Zenon, <1>1, ResidueIsSame
  <2> QED BY <1>1, <2>1
<1>4. ASSUME NEW i \in 1 .. n PROVE v[i] \in Int /\ Same(v[i], w[i], a)
  <2> DEFINE h == Others(main, i)
             b == h % a
  <2>1. h \in Int /\ c[i] \in Int
    <3>1. h \in Int
      BY OthersIs DEF IsCofactor
    <3>2. main[i] \in Nat /\ c[i] \in 0 .. main[i] - 1
      BY DEF AreCoefficients, MainModuli
    <3> QED BY <3>1, <3>2
  <2>2. w[i] = c[i] * h /\ v[i] = (c[i] * b) % a
    BY DEF WholeTerms, ReducedTerms
  <2> HIDE DEF h, w, v, a
  <2>3. b \in Int /\ Same(b, h, a)
    BY <1>1, <2>1, ResidueIsSame
  <2> HIDE DEF b
  <2>4. Same(c[i], c[i], a)
    BY Zenon, <1>1, <2>1, SameReflexive
  <2>5. c[i] * b \in Int /\ c[i] * h \in Int
    BY <2>1, <2>3
  <2>6. Same(c[i] * b, c[i] * h, a)
    BY Zenon, <1>1, <2>1, <2>3, <2>4, SameProduct
  <2>7. v[i] \in Int /\ Same(v[i], c[i] * b, a)
    BY <1>r, <2>2, <2>5, Zenon
  <2> QED BY Zenon, <1>1, <2>2, <2>5, <2>6, <2>7, SameTransitive
<1>5. v \in [1 .. n -> Int]
  <2>1. v = [i \in 1 .. n |-> v[i]]
    BY DEF ReducedTerms
  <2> HIDE DEF v
  <2> QED BY <1>4, <2>1
<1> HIDE DEF n, m, a, v, w
<1>6. Same(Total(v), Total(w), a) /\ Total(v) \in Int /\ Total(w) \in Int
  BY Zenon, <1>1, <1>2, <1>4, <1>5, TotalsAgree, TotalIsInt
<1>7. (Total(v) % a) \in Int /\ Same(Total(v) % a, Total(w), a)
  <2>1. (Total(v) % a) \in Int /\ Same(Total(v) % a, Total(v), a)
    BY <1>r, <1>6, Zenon
  <2> QED BY <1>1, <1>6, <2>1, SameTransitive
<1>8. sub \in Int /\ Same(sub, multiple * m, a)
  <2>1. m % a \in Int /\ Same(m % a, m, a)
    BY <1>r, <1>1, Zenon
  <2>2. Same(multiple, multiple, a)
    BY <1>1, SameReflexive
  <2>3. Same(multiple * (m % a), multiple * m, a)
    BY <1>1, <2>1, <2>2, SameProduct
  <2>4. multiple * (m % a) \in Int /\ multiple * m \in Int
    BY <1>1, <2>1
  <2>5. sub \in Int /\ Same(sub, multiple * (m % a), a)
    BY <1>r, <2>4, Zenon
  <2> HIDE DEF sub
  <2> QED BY <1>1, <2>3, <2>4, <2>5, SameTransitive
<1> HIDE DEF sub
<1> DEFINE e == Total(v) % a
           s == Total(w)
           b == multiple * m
<1>9. b \in Int
  BY <1>1
<1> HIDE DEF e, s, b
<1>10. Same(e - sub, s - b, a) /\ e - sub \in Int /\ s - b \in Int
  <2>1. e \in Int /\ s \in Int /\ Same(e, s, a) /\ Same(sub, b, a)
    BY <1>6, <1>7, <1>8 DEF e, s, b
  <2> QED BY <1>1, <1>8, <1>9, <2>1, SameSum
<1>11. Same(e + a - sub, s - b, a) /\ e + a - sub \in Int
  <2>1. e + a - sub = (e - sub) + a * 1 /\ 1 \in Int /\ e + a - sub \in Int
    BY SMTT(30), <1>1, <1>6, <1>7, <1>8 DEF e
  <2>2. Same((e - sub) + a * 1, e - sub, a)
    BY Zenon, <1>1, <1>10, <2>1, SameMultiple
  <2> QED BY <1>1, <1>10, <2>1, <2>2, SameTransitive
<1>12. (e + a - sub) % a = (s - b) % a
  BY Zenon, <1>1, <1>10, <1>11, SameResidue
<1> QED BY <1>3, <1>12 DEF e, s, b, w, m, a

-----------------------------------------------------------------------------
(* The extension.                                                           *)

\* The extension gives the residues of x, or of its centered lift.
LEMMA ProjectIs ==
  ASSUME NEW main \in Seq(Nat), NEW aux \in Seq(Nat), Extends(main, aux),
         NEW x \in 0 .. Product(main) - 1, NEW r, AreResiduesOf(r, main, x),
         NEW centered \in BOOLEAN
  PROVE  LET m == Product(main)
             p == Project(main, aux, r, centered)
             upper == centered /\ UpperHalf(x, m)
         IN  /\ p.upper = upper
             /\ p.residues = ResiduesOf(aux, IF upper THEN x - m ELSE x)
<1> DEFINE m == Product(main)
           c == LaneCoefficients(main, r)
           place == RankAndHalf(main, c, centered)
           S == Total(WholeTerms(main, c))
           upper == centered /\ UpperHalf(x, m)
           p == Project(main, aux, r, centered)
<1>1. MainModuli(main)
  BY MainModuliAre
<1>2. /\ AreCoefficients(c, main) /\ place.rank \in Nat
      /\ S = x + m * place.rank /\ place.upper = upper
  BY <1>1, RankIs
<1>3. /\ p.upper = place.upper
      /\ p.residues = Extended(main, aux, c, Correction(place))
  BY DEF Project
<1>4. x \in Int /\ m \in Nat /\ m \in Int /\ \A j \in DOMAIN aux : aux[j] > 0
  BY <1>1 DEF MainModuli, Extends
<1> HIDE DEF p, c, S, m, place
<1>5. upper \in BOOLEAN
  BY DEF UpperHalf
<1>6. Correction(place) = place.rank + (IF upper THEN 1 ELSE 0) /\ Correction(place) \in Int
  <2> HIDE DEF upper
  <2>1. Correction(place) = place.rank + (IF place.upper THEN 1 ELSE 0)
    BY Zenon DEF Correction
  <2>2. Correction(place) = place.rank + (IF upper THEN 1 ELSE 0)
    BY <1>2, <2>1, Zenon
  <2> QED BY <1>2, <1>5, <2>2
<1>7. S - Correction(place) * m = IF upper THEN x - m ELSE x
  <2> HIDE DEF upper
  <2>1. CASE upper
    <3>1. Correction(place) = place.rank + 1
      BY <1>6, <2>1
    <3>2. (place.rank + 1) * m = m * place.rank + m /\ m * place.rank \in Int
      BY <1>2, <1>4
    <3> QED BY <1>2, <1>4, <2>1, <3>1, <3>2
  <2>2. CASE ~ upper
    <3>1. Correction(place) = place.rank
      BY <1>2, <1>6, <2>2
    <3>2. place.rank * m = m * place.rank /\ m * place.rank \in Int
      BY <1>2, <1>4
    <3> QED BY <1>2, <1>4, <2>2, <3>1, <3>2
  <2> QED BY <2>1, <2>2
<1>8. ASSUME NEW j \in DOMAIN aux
      PROVE  Extended(main, aux, c, Correction(place))[j]
               = (IF upper THEN x - m ELSE x) % aux[j]
  <2>1. Extended(main, aux, c, Correction(place))[j] = (S - Correction(place) * m) % aux[j]
    <3>1. ASSUME NEW k \in Int PROVE Extended(main, aux, c, k)[j] = (S - k * m) % aux[j]
      <4>1. AreCoefficients(c, main) /\ aux[j] > 0
        BY <1>2, <1>4
      <4>2. Extended(main, aux, c, k)[j]
              = (Total(WholeTerms(main, c)) - k * Product(main)) % aux[j]
        BY <1>1, <4>1, ExtendedIs
      <4> QED BY <4>2, Zenon DEF S, m
    <3> QED BY <1>6, <3>1, Zenon
  <2> QED BY <1>7, <2>1
<1>9. Extended(main, aux, c, Correction(place))
        = [j \in DOMAIN aux |-> Extended(main, aux, c, Correction(place))[j]]
  BY Zenon DEF Extended
<1>10. Extended(main, aux, c, Correction(place))
         = ResiduesOf(aux, IF upper THEN x - m ELSE x)
  <2> HIDE DEF upper
  <2> QED BY <1>8, <1>9 DEF ResiduesOf
<1> QED BY <1>2, <1>3, <1>10 DEF p, m

-----------------------------------------------------------------------------
(* Halves of odd numbers.                                                   *)

\* A product is odd when both factors are.
LEMMA OddProduct ==
  ASSUME NEW a \in Nat, NEW b \in Nat
  PROVE  (a * b) % 2 = 1 <=> a % 2 = 1 /\ b % 2 = 1
<1> DEFINE u == a \div 2
           v == b \div 2
           p == a * b
<1>1. u \in Nat /\ v \in Nat /\ (a = 2 * u \/ a = 2 * u + 1) /\ (b = 2 * v \/ b = 2 * v + 1)
  OBVIOUS
<1> HIDE DEF u, v
<1>2. \A x, y \in Nat : x * y \in Nat
  OBVIOUS
<1>3. CASE a = 2 * u
  <2>1. p = 2 * (u * b) /\ u * b \in Nat
    BY <1>1, <1>2, <1>3
  <2> HIDE DEF p
  <2>2. p % 2 = 0 /\ a % 2 = 0
    BY <1>1, <1>3, <2>1
  <2> QED BY <2>2 DEF p
<1>4. CASE b = 2 * v
  <2>1. p = 2 * (a * v) /\ a * v \in Nat
    BY <1>1, <1>2, <1>4
  <2> HIDE DEF p
  <2>2. p % 2 = 0 /\ b % 2 = 0
    BY <1>1, <1>4, <2>1
  <2> QED BY <2>2 DEF p
<1>5. CASE a = 2 * u + 1 /\ b = 2 * v + 1
  <2> DEFINE w == 2 * (u * v) + u + v
  <2>1. w \in Nat
    BY <1>1, <1>2
  <2>2. p = 2 * w + 1
    BY <1>1, <1>5
  <2> HIDE DEF p, w
  <2>3. p % 2 = 1 /\ a % 2 = 1 /\ b % 2 = 1
    BY <1>1, <1>5, <2>1, <2>2
  <2> QED BY <2>3 DEF p
<1> QED BY <1>1, <1>3, <1>4, <1>5

\* A product of odd moduli is odd.
LEMMA ProductIsOdd ==
  ASSUME NEW moduli \in Seq(Nat \ {0}), \A i \in 1 .. Len(moduli) : moduli[i] % 2 = 1
  PROVE  Product(moduli) % 2 = 1
<1> DEFINE n == Len(moduli)
<1>0. n \in Nat /\ \A k \in 1 .. n : moduli[k] \in Nat
  OBVIOUS
<1>1. PICK f \in [0 .. n -> Nat \ {0}] :
        /\ f[0] = 1 /\ \A k \in 1 .. n : f[k] = f[k - 1] * moduli[k]
        /\ Product(moduli) = f[n]
  BY ProductIs
<1> DEFINE I == {k \in 0 .. n : f[k] % 2 = 1}
<1>2. 0 \in I
  BY <1>0, <1>1
<1>3. ASSUME NEW k \in 1 .. n, k - 1 \in I PROVE k \in I
  <2>1. k \in 0 .. n /\ f[k - 1] \in Nat /\ f[k - 1] % 2 = 1
    <3>1. k \in 0 .. n /\ k - 1 \in 0 .. n
      BY <1>0
    <3>2. f[k - 1] \in Nat
      BY Zenon, <1>1, <3>1
    <3> QED BY <1>3, <3>1, <3>2
  <2>2. (f[k - 1] * moduli[k]) % 2 = 1
    BY Zenon, <1>0, <2>1, OddProduct
  <2> QED BY <1>1, <2>1, <2>2
<1>4. 0 .. n \subseteq I
  <2> HIDE DEF I, n
  <2> QED BY Zenon, <1>0, <1>2, <1>3, RangeInduction
<1>5. n \in 0 .. n
  BY <1>0
<1> QED BY <1>1, <1>4, <1>5

\* Half of an odd product is half of a factor, modulo that factor.
LEMMA HalvesAgree ==
  ASSUME NEW q \in Nat, NEW h \in Nat, (q * h) % 2 = 1
  PROVE  Same((q - 1) \div 2, (q * h - 1) \div 2, q)
<1> DEFINE m == q * h
           g == (h - 1) \div 2
<1>1. m \in Nat /\ q % 2 = 1 /\ h % 2 = 1 /\ m % 2 = 1
  <2>1. \A x, y \in Nat : x * y \in Nat
    OBVIOUS
  <2> QED BY <2>1, OddProduct
<1>2. g \in Int /\ h = 2 * g + 1
  BY <1>1
<1> HIDE DEF g
<1> DEFINE p == q * g
<1>3. m = 2 * p + q /\ p \in Int /\ p = q * g
  BY <1>2
<1> HIDE DEF m, p
<1>4. (m - 1) \div 2 = (q - 1) \div 2 + p
  <2> DEFINE e == (q - 1) \div 2
  <2>1. e \in Int /\ q = 2 * e + 1
    BY <1>1
  <2> HIDE DEF e
  <2>2. m - 1 = 2 * (e + p)
    BY <1>3, <2>1
  <2>3. (m - 1) \div 2 = e + p
    BY <1>3, <2>1, <2>2
  <2> QED BY <2>3 DEF e
<1>5. (q - 1) \div 2 = (m - 1) \div 2 + q * (- g) /\ - g \in Int
  <2>1. q * (- g) = - (q * g) /\ (q - 1) \div 2 \in Int
    BY <1>2
  <2> QED BY <1>2, <1>3, <1>4, <2>1
<1> QED BY Zenon, <1>5 DEF Same, m

-----------------------------------------------------------------------------
(* Scaling and rounding.                                                    *)

\* The multiple t * x, half of the odd modulus added
Shifted(t, x, m) == t * x + (m - 1) \div 2

\* Its residues, as they are made from those of x
ScaledResidues(main, t, r) ==
  [i \in DOMAIN main |-> (r[i] * (t % main[i]) + (main[i] - 1) \div 2) % main[i]]

\* The lanes that scale_round forms are the residues of t * x + (m - 1) / 2.
LEMMA ScaledResiduesAre ==
  ASSUME NEW main, MainModuli(main), Product(main) % 2 = 1, NEW t \in Nat, NEW x \in Int,
         NEW r, AreResiduesOf(r, main, x)
  PROVE  AreResiduesOf(ScaledResidues(main, t, r), main, Shifted(t, x, Product(main)))
<1> DEFINE m == Product(main)
           H == (m - 1) \div 2
           z == ScaledResidues(main, t, r)
<1>1. m \in Nat /\ m \in Int /\ m > 0 /\ H \in Int
  BY DEF MainModuli
<1> SUFFICES ASSUME NEW i \in 1 .. Len(main)
             PROVE  z[i] \in Nat /\ Same(z[i], Shifted(t, x, m), main[i])
  BY DEF AreResiduesOf
<1> DEFINE q == main[i]
           e == (q - 1) \div 2
           d == t % q
<1>2. q \in Nat /\ q > 0 /\ q \in Int /\ e \in Int /\ t \in Int
  BY DEF MainModuli
<1>3. r[i] \in Int /\ Same(r[i], x, q)
  BY DEF AreResiduesOf
<1>4. z[i] = (r[i] * d + e) % q
  BY DEF ScaledResidues, MainModuli
<1>5. Same(e, H, q)
  <2>1. PICK h \in Nat : m = q * h
    BY OthersIs DEF IsCofactor
  <2>2. (q * h) % 2 = 1
    BY <2>1
  <2>3. Same((q - 1) \div 2, (q * h - 1) \div 2, q)
    <3> HIDE DEF q, m
    <3> QED BY Zenon, <1>2, <2>2, HalvesAgree
  <2> QED BY <2>1, <2>3
<1> HIDE DEF q, e, H, m, z
<1>6. d \in Int /\ Same(d, t, q)
  BY <1>2, ResidueIsSame
<1> HIDE DEF d
<1>7. Same(r[i] * d, x * t, q)
  BY Zenon, <1>2, <1>3, <1>6, SameProduct
<1> DEFINE b == r[i] * d
           s == x * t
<1>8. b \in Int /\ s \in Int /\ s = t * x
  BY <1>2, <1>3, <1>6
<1>9. Same(b, s, q)
  BY <1>7
<1> HIDE DEF b, s
<1>10. Same(b + e, s + H, q)
  BY <1>1, <1>2, <1>5, <1>8, <1>9, SameSum
<1>11. b + e \in Int /\ s + H \in Int
  BY <1>1, <1>2, <1>8
<1>12. (b + e) % q \in 0 .. q - 1 /\ Same((b + e) % q, b + e, q)
  BY Zenon, <1>2, <1>11, ResidueIsSame
<1>13. (b + e) % q \in Nat /\ (b + e) % q \in Int
  BY <1>2, <1>12
<1>14. Same((b + e) % q, s + H, q)
  BY Zenon, <1>2, <1>10, <1>11, <1>12, <1>13, SameTransitive
<1>15. s + H = Shifted(t, x, m)
  BY <1>8 DEF Shifted, H
<1> QED BY <1>4, <1>13, <1>14, <1>15 DEF b, q

\* The residues of an integer are those of what it leaves modulo the product.
LEMMA ResiduesOfRest ==
  ASSUME NEW main, MainModuli(main), NEW x \in Int, NEW r, AreResiduesOf(r, main, x)
  PROVE  AreResiduesOf(r, main, x % Product(main))
<1> DEFINE m == Product(main)
<1>1. m \in Nat /\ m > 0
  BY DEF MainModuli
<1> SUFFICES ASSUME NEW i \in 1 .. Len(main)
             PROVE  r[i] \in Nat /\ Same(r[i], x % m, main[i])
  BY DEF AreResiduesOf
<1>2. main[i] \in Int /\ r[i] \in Nat /\ r[i] \in Int /\ Same(r[i], x, main[i])
  BY DEF AreResiduesOf, MainModuli
<1>3. Divides(main[i], m)
  <2>1. PICK h \in Nat : m = main[i] * h
    BY OthersIs DEF IsCofactor
  <2>2. h \in Int
    BY <2>1
  <2> QED BY <2>1, <2>2 DEF Divides
<1> HIDE DEF m
<1>4. Same(x % m, x, main[i])
  BY <1>1, <1>2, <1>3, SameModulo
<1>5. x % m \in Int
  BY <1>1
<1>6. Same(x, x % m, main[i])
  BY <1>2, <1>4, <1>5, SameSymmetric
<1> QED BY <1>2, <1>5, <1>6, SameTransitive

\* t * x / m, rounded to the nearest integer, for an odd m
NearestQuotient(t, x, m) == Shifted(t, x, m) \div m

\* What the quotient and the rest are
LEMMA QuotientAndRest ==
  ASSUME NEW m \in Nat, m > 0, NEW t \in Nat, NEW x \in Int
  PROVE  LET y == NearestQuotient(t, x, m)
             z == Shifted(t, x, m) % m
         IN  y \in Int /\ z \in 0 .. m - 1 /\ m * y = t * x + (m - 1) \div 2 - z
<1> DEFINE s == Shifted(t, x, m)
<1>1. s = t * x + (m - 1) \div 2 /\ s \in Int /\ t * x \in Int /\ (m - 1) \div 2 \in Int
  BY DEF Shifted
<1> HIDE DEF s
<1>2. s = m * (s \div m) + (s % m) /\ s % m \in 0 .. m - 1 /\ s \div m \in Int
  BY <1>1, Division
<1>3. m * (s \div m) \in Int /\ s % m \in Int
  BY <1>1, <1>2
<1>4. m * (s \div m) = t * x + (m - 1) \div 2 - (s % m)
  <2> DEFINE a == m * (s \div m)
             b == s % m
             c == t * x
             d == (m - 1) \div 2
  <2>1. a \in Int /\ b \in Int /\ c \in Int /\ d \in Int /\ s = a + b /\ s = c + d
    BY <1>1, <1>2, <1>3
  <2> HIDE DEF a, b, c, d
  <2>2. a = c + d - b
    BY <2>1
  <2> QED BY <2>2 DEF a, b, c, d
<1> QED BY <1>2, <1>4 DEF NearestQuotient, s

\* Half of an odd m modulo t, from m modulo twice t
LEMMA HalfIs ==
  ASSUME NEW m \in Nat, m % 2 = 1, NEW t \in Nat, t > 0
  PROVE  Same(((m % (2 * t)) - 1) \div 2, (m - 1) \div 2, t)
<1> DEFINE d == m % (2 * t)
           k == m \div (2 * t)
           p == t * k
<1>1. 2 * t \in Nat /\ 2 * t > 0 /\ m \in Int
  OBVIOUS
<1>2. m = (2 * t) * k + d /\ d \in 0 .. 2 * t - 1 /\ k \in Int
  BY <1>1, Division
<1> HIDE DEF d, k
<1>3. p \in Int /\ m = 2 * p + d /\ d \in Nat
  <2>1. (2 * t) * k = 2 * (t * k) /\ t * k \in Int
    BY <1>2
  <2> QED BY <1>1, <1>2, <2>1
<1> HIDE DEF p
<1> DEFINE e == (d - 1) \div 2
<1>4. e \in Int /\ d = 2 * e + 1
  BY <1>3
<1> HIDE DEF e
<1>5. (m - 1) \div 2 = e + p
  BY <1>3, <1>4
<1>6. e = (m - 1) \div 2 + t * (- k) /\ - k \in Int
  <2>1. t * (- k) = - p
    BY <1>2 DEF p
  <2> QED BY <1>2, <1>3, <1>4, <1>5, <2>1
<1> QED BY Zenon, <1>6 DEF Same, e, d

\* What is computed modulo the target is the rounded quotient modulo it.
LEMMA ScaledModTargetIs ==
  ASSUME NEW main \in Seq(Nat), NEW t \in Nat, Rounds(main, t),
         NEW x \in Int, NEW r, AreResiduesOf(r, main, x)
  PROVE  /\ MainModuli(main) /\ Product(main) % 2 = 1
         /\ ScaledModTarget(main, t, r) = NearestQuotient(t, x, Product(main)) % t
<1> DEFINE m == Product(main)
           n == Len(main)
           z == ScaledResidues(main, t, r)
           Z == Shifted(t, x, m) % m
           y == NearestQuotient(t, x, m)
           H == (m - 1) \div 2
           half == HalfQModTarget(main, t)
           inv == ModInverse(m, t)
           rest == Project(main, <<t>>, z, FALSE).residues[1]
           difference == (half + t - rest) % t
<1>1. Extends(main, <<t>>) /\ t >= 2 /\ <<t>> \in Seq(Nat)
  BY DEF Rounds
<1>2. MainModuli(main)
  BY <1>1, MainModuliAre
<1>3. /\ n \in Nat /\ DOMAIN main = 1 .. n /\ main \in Seq(Nat \ {0})
      /\ m \in Nat /\ m > 0 /\ m \in Int /\ \A i \in 1 .. n : main[i] \in Nat
  BY <1>2 DEF MainModuli
<1>4. m % 2 = 1
  <2>1. \A i \in 1 .. n : main[i] % 2 = 1
    BY Zenon, <1>3 DEF Rounds
  <2> QED BY Zenon, <1>3, <2>1, ProductIsOdd
<1>5. Apart(m, t)
  <2>1. \A i \in 1 .. n : Coprime(main[i], t)
    BY Zenon, <1>3 DEF Rounds
  <2>2. \A i \in 1 .. n : Apart(main[i], t)
    BY <1>3, <2>1, CoprimeIsApart
  <2>3. t \in Int
    OBVIOUS
  <2> QED BY Zenon, <1>3, <2>2, <2>3, ApartFromProduct
<1>6. inv \in Int /\ Same(m * inv, 1, t)
  <2> HIDE DEF m
  <2>1. inv \in 0 .. t - 1 /\ Same(m * inv, 1, t)
    BY <1>1, <1>3, <1>5, ModInverseIs
  <2> HIDE DEF inv
  <2> QED BY <2>1
<1>7. y \in Int /\ Z \in 0 .. m - 1 /\ m * y = t * x + H - Z
  <2> HIDE DEF m
  <2> QED BY Zenon, <1>3, QuotientAndRest
<1>8. AreResiduesOf(z, main, Z)
  <2>1. AreResiduesOf(z, main, Shifted(t, x, m))
    BY <1>2, <1>4, ScaledResiduesAre
  <2>2. Shifted(t, x, m) \in Int
    BY <1>3 DEF Shifted
  <2> HIDE DEF z
  <2> QED BY <1>2, <2>1, <2>2, ResiduesOfRest
<1>9. rest = Z % t
  <2> HIDE DEF z, Z
  <2>1. Project(main, <<t>>, z, FALSE).residues
          = ResiduesOf(<<t>>, IF FALSE /\ UpperHalf(Z, m) THEN Z - m ELSE Z)
    <3>1. FALSE \in BOOLEAN
      OBVIOUS
    <3> QED BY Zenon, <1>1, <1>7, <1>8, <3>1, ProjectIs
  <2>2. Project(main, <<t>>, z, FALSE).residues = ResiduesOf(<<t>>, Z)
    BY Zenon, <2>1
  <2>3. ResiduesOf(<<t>>, Z)[1] = Z % t
    BY DEF ResiduesOf
  <2> QED BY Zenon, <2>2, <2>3
<1>10. half \in Int /\ Same(half, H, t)
  <2>1. Same(((m % (2 * t)) - 1) \div 2, (m - 1) \div 2, t)
    <3> HIDE DEF m
    <3>1. t > 0
      BY <1>1
    <3> QED BY <1>3, <1>4, <3>1, HalfIs, Zenon
  <2>2. m % (2 * t) \in Int
    BY <1>1, <1>3
  <2> QED BY <2>1, <2>2 DEF HalfQModTarget
<1>11. ScaledModTarget(main, t, r) = (difference * inv) % t
  BY DEF ScaledModTarget, ScaledResidues
<1> HIDE DEF z, Z, y, half, inv, rest, H, m, n
<1>12. Z \in Int /\ H \in Int /\ t \in Int /\ t > 0 /\ x \in Int
  BY <1>1, <1>3, <1>7 DEF H
<1>13. rest \in Int /\ Same(rest, Z, t)
  BY <1>9, <1>12, ResidueIsSame
<1>14. difference \in Int /\ Same(difference, m * y, t)
  <2>1. Same(half - rest, H - Z, t) /\ half - rest \in Int /\ H - Z \in Int
    BY <1>10, <1>12, <1>13, SameSum
  <2>2. m * y \in Int /\ t * x \in Int
    BY <1>3, <1>7, <1>12
  <2>3. Same(H - Z, m * y, t)
    <3>1. - x \in Int /\ H - Z = m * y + t * (- x)
      <4>1. t * (- x) = - (t * x) /\ - x \in Int
        BY <1>12
      <4> QED BY <1>7, <1>12, <2>2, <4>1
    <3> QED BY Zenon, <3>1 DEF Same
  <2>4. Same(half - rest, m * y, t)
    BY <1>12, <2>1, <2>2, <2>3, SameTransitive
  <2>5. half + t - rest = (half - rest) + t * 1 /\ 1 \in Int /\ half + t - rest \in Int
    BY <1>10, <1>12, <1>13
  <2>6. Same((half - rest) + t * 1, half - rest, t)
    BY Zenon, <1>12, <2>1, <2>5, SameMultiple
  <2>7. Same(half + t - rest, m * y, t)
    BY <1>12, <2>1, <2>2, <2>4, <2>5, <2>6, SameTransitive
  <2>8. difference \in Int /\ Same(difference, half + t - rest, t)
    <3>1. ASSUME NEW b \in Int PROVE b % t \in Int /\ Same(b % t, b, t)
      BY <1>12, ResidueIsSame
    <3> QED BY <2>5, <3>1, Zenon
  <2> HIDE DEF difference
  <2> QED BY <1>12, <2>2, <2>5, <2>7, <2>8, SameTransitive
<1> HIDE DEF difference
<1>15. Same(difference * inv, y, t)
  <2>1. Same(inv, inv, t)
    BY <1>6, <1>12, SameReflexive
  <2>2. m * y \in Int
    BY <1>3, <1>7
  <2>3. Same(difference * inv, (m * y) * inv, t)
    BY <1>6, <1>12, <1>14, <2>1, <2>2, SameProduct
  <2>4. (m * y) * inv = (y * m) * inv /\ (m * y) * inv \in Int /\ difference * inv \in Int
    BY <1>3, <1>6, <1>7, <1>14
  <2>5. Same((y * m) * inv, y, t)
    BY <1>3, <1>6, <1>7, <1>12, InverseCancels
  <2> QED BY <1>7, <1>12, <2>3, <2>4, <2>5, SameTransitive
<1>16. (difference * inv) % t = y % t
  <2>1. difference * inv \in Int
    BY <1>6, <1>14
  <2> QED BY Zenon, <1>7, <1>12, <1>15, <2>1, SameResidue
<1> QED BY <1>2, <1>4, <1>11, <1>16 DEF m, y

\* The rounded quotient of a number in the range of the modulus
LEMMA NearestIs ==
  ASSUME NEW m \in Nat, m % 2 = 1, NEW t \in Nat, t >= 2, NEW x \in 0 .. m - 1
  PROVE  LET y == NearestQuotient(t, x, m)
         IN  /\ y \in 0 .. t
             /\ 2 * t * x - 2 * y * m \in -m + 1 .. m - 1
             /\ y = 0 => 2 * x < m
             /\ y = t => 2 * x >= m
<1> DEFINE y == NearestQuotient(t, x, m)
           z == Shifted(t, x, m) % m
           H == (m - 1) \div 2
           p == m * y
           s == t * x
<1>1. m > 0 /\ x \in Int /\ H \in Nat /\ m = 2 * H + 1
  OBVIOUS
<1>2. y \in Int /\ z \in 0 .. m - 1 /\ p = s + H - z
  <2>1. m * y = t * x + (m - 1) \div 2 - z
    BY <1>1, QuotientAndRest
  <2>2. y \in Int /\ z \in 0 .. m - 1
    BY <1>1, QuotientAndRest
  <2> QED BY <2>1, <2>2
<1> HIDE DEF y, z, H
<1>3. p \in Int /\ s \in Nat
  <2>1. \A a, b \in Nat : a * b \in Nat
    OBVIOUS
  <2> QED BY <1>1, <1>2, <2>1
<1>4. 2 * t * x = 2 * s /\ 2 * y * m = 2 * p
  BY <1>1, <1>2
<1>5. s <= t * m - t
  <2>1. t * (m - 1 - x) >= 0
    BY <1>1
  <2>2. t * (m - 1 - x) = t * m - t - t * x /\ t * m \in Int /\ t * x \in Int
    BY <1>1
  <2> QED BY <2>1, <2>2
<1>6. 2 * x <= s
  <2>1. (t - 2) * x >= 0 /\ (t - 2) * x = t * x - 2 * x /\ t * x \in Int
    BY <1>1
  <2> QED BY <1>1, <2>1
<1>7. t * (m - x) >= 2 * (m - x) /\ t * (m - x) = t * m - s /\ t * m \in Int
  <2>1. (t - 2) * (m - x) >= 0 /\ (t - 2) * (m - x) = t * (m - x) - 2 * (m - x)
    BY <1>1
  <2>2. t * (m - x) = t * m - t * x /\ t * m \in Int /\ t * (m - x) \in Int
    BY <1>1
  <2> QED BY <1>1, <2>1, <2>2
<1>8. (y <= -1 => p <= -m) /\ (y >= t + 1 => p >= t * m + m)
  <2>1. m * (-1 - y) = -m - p /\ (y <= -1 => m * (-1 - y) >= 0)
    BY <1>1, <1>2
  <2>2. m * (y - t - 1) = p - t * m - m /\ (y >= t + 1 => m * (y - t - 1) >= 0)
    BY <1>1, <1>2
  <2>3. t * m \in Int
    OBVIOUS
  <2> QED BY <1>1, <1>2, <1>3, <2>1, <2>2, <2>3
<1>9. (y = 0 => p = 0) /\ (y = t => p = t * m)
  BY <1>1, <1>2
<1> DEFINE u == t * m
           v == t * (m - x)
<1>10. /\ s <= u - t /\ v >= 2 * (m - x) /\ v = u - s /\ u \in Int
       /\ (y <= -1 => p <= -m) /\ (y >= t + 1 => p >= u + m)
       /\ (y = 0 => p = 0) /\ (y = t => p = u)
  BY <1>5, <1>7, <1>8, <1>9
<1> HIDE DEF p, s, u, v
<1>11. y \in 0 .. t
  BY <1>1, <1>2, <1>3, <1>10
<1>12. 2 * s - 2 * p \in -m + 1 .. m - 1
  BY <1>1, <1>2, <1>3
<1>13. y = 0 => 2 * x < m
  BY <1>1, <1>2, <1>3, <1>6, <1>10
<1>14. y = t => 2 * x >= m
  BY <1>1, <1>2, <1>3, <1>10
<1>15. 2 * t * x - 2 * y * m \in -m + 1 .. m - 1
  BY <1>4, <1>12, Zenon
<1> QED BY <1>11, <1>13, <1>14, <1>15 DEF y

\* The half that x lies in tells zero from the target.
LEMMA RoundedIs ==
  ASSUME NEW main \in Seq(Nat), NEW t \in Nat, Rounds(main, t),
         NEW x \in 0 .. Product(main) - 1, NEW r, AreResiduesOf(r, main, x)
  PROVE  LET y == ScaleRoundUnreduced(main, t, r)
             m == Product(main)
         IN  y \in 0 .. t /\ 2 * t * x - 2 * y * m \in -m + 1 .. m - 1
<1> DEFINE m == Product(main)
           w == NearestQuotient(t, x, m)
           upper == Project(main, <<t>>, r, TRUE).upper
           reduced == ScaledModTarget(main, t, r)
<1>1. Extends(main, <<t>>) /\ t >= 2 /\ <<t>> \in Seq(Nat)
  BY DEF Rounds
<1>2. MainModuli(main)
  BY <1>1, MainModuliAre
<1>3. m \in Nat /\ m > 0 /\ x \in Int
  BY <1>2 DEF MainModuli
<1>4. m % 2 = 1 /\ reduced = w % t
  BY <1>3, ScaledModTargetIs
<1>5. upper <=> 2 * x >= m
  <2>1. TRUE \in BOOLEAN
    OBVIOUS
  <2>2. upper = (TRUE /\ UpperHalf(x, m))
    BY Zenon, <1>1, <2>1, ProjectIs
  <2>3. UpperHalf(x, m) <=> 2 * x >= m
    BY DEF UpperHalf
  <2> QED BY Zenon, <2>2, <2>3
<1>6. /\ w \in 0 .. t
      /\ 2 * t * x - 2 * w * m \in -m + 1 .. m - 1
      /\ w = 0 => 2 * x < m
      /\ w = t => 2 * x >= m
  <2>1. x \in 0 .. m - 1
    OBVIOUS
  <2> HIDE DEF m
  <2> QED BY Zenon, <1>1, <1>3, <1>4, <2>1, NearestIs
<1>7. ScaleRoundUnreduced(main, t, r) = Unreduced(reduced, t, upper)
  BY DEF ScaleRoundUnreduced
<1> HIDE DEF m, w, upper, reduced
<1>8. Unreduced(reduced, t, upper) = w
  <2>1. CASE w = 0
    <3>1. reduced = 0 /\ ~ upper
      BY <1>1, <1>3, <1>4, <1>5, <1>6, <2>1
    <3> QED BY <2>1, <3>1 DEF Unreduced
  <2>2. CASE w = t
    <3>1. reduced = 0 /\ upper
      BY <1>1, <1>3, <1>4, <1>5, <1>6, <2>2
    <3> QED BY <2>2, <3>1 DEF Unreduced
  <2>3. CASE w # 0 /\ w # t
    <3>1. w \in 0 .. t - 1 /\ t \in Nat
      BY <1>1, <1>6, <2>3
    <3>2. w % t = w
      BY <3>1
    <3>3. reduced = w
      BY <1>4, <3>2, Zenon
    <3> QED BY <2>3, <3>3 DEF Unreduced
  <2> QED BY <2>1, <2>2, <2>3
<1> QED BY <1>6, <1>7, <1>8 DEF m

\* One of the conversions, of a number in range, and done right if it is done
ExtensionInv ==
  /\ conversion \in Conversions /\ Extends(conversion[1], conversion[2])
  /\ integer \in 0 .. Product(conversion[1]) - 1
  /\ ConversionsAreExact

\* The machine starts in the invariant.
LEMMA ExtensionInitial == ExtensionInit => ExtensionInv
<1> SUFFICES ASSUME ExtensionInit PROVE ExtensionInv
  OBVIOUS
<1>1. /\ conversion \in Conversions /\ Extends(conversion[1], conversion[2])
      /\ integer \in 0 .. Product(conversion[1]) - 1
  BY DEF ExtensionInit
<1>2. ConversionsAreExact
  BY DEF ExtensionInit, ConversionsAreExact
<1> QED BY <1>1, <1>2 DEF ExtensionInv

\* The residues of the integer are what the lemmas ask for.
LEMMA ResiduesAreThose ==
  ASSUME NEW main, MainModuli(main), NEW x \in Int
  PROVE  AreResiduesOf(ResiduesOf(main, x), main, x)
<1> SUFFICES ASSUME NEW i \in 1 .. Len(main)
             PROVE  ResiduesOf(main, x)[i] \in Nat /\ Same(ResiduesOf(main, x)[i], x, main[i])
  BY DEF AreResiduesOf
<1>1. main[i] \in Nat /\ main[i] > 0 /\ ResiduesOf(main, x)[i] = x % main[i]
  BY DEF MainModuli, ResiduesOf
<1>2. x % main[i] \in 0 .. main[i] - 1 /\ Same(x % main[i], x, main[i])
  BY Zenon, <1>1, ResidueIsSame
<1> QED BY <1>1, <1>2

\* A conversion keeps it.
LEMMA ConvertKeeps == ExtensionInv /\ [Convert]_extensionVars => ExtensionInv'
<1> SUFFICES ASSUME ExtensionInv, [Convert]_extensionVars PROVE ExtensionInv'
  OBVIOUS
<1>1. CASE UNCHANGED extensionVars
  BY <1>1 DEF ExtensionInv, extensionVars, ConversionsAreExact
<1>2. CASE Convert
  <2> DEFINE main == conversion[1]
             aux == conversion[2]
             m == Product(main)
             r == ResiduesOf(main, integer)
             lift == IF 2 * integer >= m THEN integer - m ELSE integer
  <2>1. /\ main \in Seq(Nat) /\ aux \in Seq(Nat) /\ Extends(main, aux)
        /\ integer \in 0 .. m - 1
    BY ConversionsAssumption DEF ExtensionInv
  <2>2. /\ conversion' = conversion /\ integer' = integer
        /\ converted'.plain = Project(main, aux, r, FALSE).residues
        /\ converted'.centered = Project(main, aux, r, TRUE).residues
        /\ converted'.rounded =
             IF Rounds(main, aux[1]) THEN {ScaleRoundUnreduced(main, aux[1], r)} ELSE {}
    BY <1>2 DEF Convert
  <2>3. MainModuli(main)
    BY <2>1, MainModuliAre
  <2>4. m \in Nat /\ integer \in Int
    BY <2>1, <2>3 DEF MainModuli
  <2>5. AreResiduesOf(r, main, integer)
    BY <2>3, <2>4, ResiduesAreThose
  <2> HIDE DEF r
  <2>6. Project(main, aux, r, FALSE).residues = ResiduesOf(aux, integer)
    <3> DEFINE upper == FALSE /\ UpperHalf(integer, m)
    <3>1. FALSE \in BOOLEAN /\ ~ upper
      OBVIOUS
    <3>2. Project(main, aux, r, FALSE).residues
            = ResiduesOf(aux, IF upper THEN integer - m ELSE integer)
      BY ZenonT(60), Zenon, <2>1, <2>5, <3>1, ProjectIs
    <3> QED BY Zenon, <3>1, <3>2
  <2>7. Project(main, aux, r, TRUE).residues = ResiduesOf(aux, lift)
    <3> DEFINE upper == TRUE /\ UpperHalf(integer, m)
    <3>1. TRUE \in BOOLEAN /\ (upper <=> 2 * integer >= m)
      BY DEF UpperHalf
    <3>2. Project(main, aux, r, TRUE).residues
            = ResiduesOf(aux, IF upper THEN integer - m ELSE integer)
      BY Zenon, <2>1, <2>5, <3>1, ProjectIs
    <3>3. (IF upper THEN integer - m ELSE integer) = lift
      BY <3>1
    <3> HIDE DEF upper, lift
    <3> QED BY Zenon, <3>2, <3>3
  <2>8. ASSUME NEW y \in converted'.rounded
        PROVE  /\ y \in 0 .. aux[1]
               /\ 2 * aux[1] * integer - 2 * y * m \in -m + 1 .. m - 1
    <3>1. Rounds(main, aux[1]) /\ y = ScaleRoundUnreduced(main, aux[1], r)
      BY <2>2, <2>8
    <3>2. aux[1] \in Nat
      <4>1. aux # <<>>
        BY <2>1 DEF Extends
      <4> QED BY <2>1, <4>1
    <3> DEFINE t == aux[1]
    <3> HIDE DEF t, main
    <3>3. /\ ScaleRoundUnreduced(main, t, r) \in 0 .. t
          /\ 2 * t * integer - 2 * ScaleRoundUnreduced(main, t, r) * Product(main)
               \in - Product(main) + 1 .. Product(main) - 1
      <4>1. main \in Seq(Nat) /\ t \in Nat /\ Rounds(main, t)
            /\ integer \in 0 .. Product(main) - 1
        BY <2>1, <3>1, <3>2 DEF t
      <4> QED BY <2>5, <4>1, RoundedIs
    <3> QED BY <3>1, <3>3, Zenon DEF t
  <2>9. ConversionsAreExact'
    <3> HIDE DEF lift, m
    <3>1. converted'.plain = ResiduesOf(aux, integer) /\ converted'.centered = ResiduesOf(aux, lift)
      BY Zenon, <2>2, <2>6, <2>7
    <3> QED BY Zenon, <2>2, <2>8, <3>1 DEF ConversionsAreExact, lift, m
  <2> QED BY <2>2, <2>9 DEF ExtensionInv
<1> QED BY <1>1, <1>2

\* However the rank is found, the kernels convert exactly (the property
\* ConversionsAreExact): for bases of any size and residues of any integer in
\* range, the fixed-point sum answers only where it is right, the extension
\* gives the residues of that integer or of its centered lift, and the rounding
\* is to the nearest with zero and the target told apart
\* (arithmetic/main_only_base_ext.rs, arithmetic/canonical_scale_round.rs).
THEOREM ConversionsStayExact == ExtensionSpec => []ConversionsAreExact
<1>1. ExtensionInv => ConversionsAreExact
  BY DEF ExtensionInv
<1> QED BY ExtensionInitial, ConvertKeeps, <1>1, PTL DEF ExtensionSpec

-----------------------------------------------------------------------------
(* Garner's digits.                                                         *)

\* What ReduceCt has after each bit
IsBitwiseRest(f, x, m) ==
  f = [k \in 0 .. 2 * WordBits |->
        IF k = 0 THEN 0
        ELSE LET shifted == ((x \div TwoTo[2 * WordBits - k]) % 2) + 2 * f[k - 1]
             IN  IF shifted >= m THEN shifted - m ELSE shifted]

\* ReduceCt is chosen by this recursion.
LEMMA ReduceCtIsChosen ==
  ASSUME NEW x, NEW m
  PROVE  ReduceCt(x, m) = (CHOOSE f : IsBitwiseRest(f, x, m))[2 * WordBits]
BY Zenon DEF ReduceCt, IsBitwiseRest

\* Twice a residue and a bit, less m when that is too much, is reduced.
LEMMA ShiftedRest ==
  ASSUME NEW m \in Nat, m > 0, NEW y \in Nat, NEW c \in {0, 1}
  PROVE  (2 * y + c) % m = IF c + 2 * (y % m) >= m THEN c + 2 * (y % m) - m ELSE c + 2 * (y % m)
<1> DEFINE q == y \div m
           v == y % m
           s == c + 2 * v
<1>1. q \in Int /\ v \in 0 .. m - 1 /\ y = m * q + v
  BY Division
<1> HIDE DEF q, v
<1>2. s \in Int /\ 0 <= s /\ s < 2 * m
  BY <1>1
<1>3. 2 * y + c = 2 * (m * q) + s
  BY <1>1
<1>4. CASE s >= m
  <2> DEFINE w == s - m
             j == 2 * q + 1
  <2>1. w \in 0 .. m - 1 /\ j \in Int
    BY <1>1, <1>2, <1>4
  <2>2. m * j = 2 * (m * q) + m
    BY <1>1
  <2>3. 2 * y + c = m * j + w
    <3>1. m * q \in Int
      BY <1>1
    <3> HIDE DEF j, s
    <3> QED BY <1>2, <1>3, <2>2, <3>1
  <2> HIDE DEF w, j
  <2>4. (m * j + w) % m = w
    BY <2>1, QuotientIs
  <2> QED BY <1>4, <2>3, <2>4 DEF w, s, v
<1>5. CASE ~ (s >= m)
  <2> DEFINE j == 2 * q
  <2>1. s \in 0 .. m - 1 /\ j \in Int
    BY <1>1, <1>2, <1>5
  <2>2. m * j = 2 * (m * q)
    BY <1>1
  <2>3. 2 * y + c = m * j + s
    BY <1>3, <2>2
  <2> HIDE DEF s, j
  <2>4. (m * j + s) % m = s
    BY <2>1, QuotientIs
  <2> QED BY <1>5, <2>3, <2>4 DEF s, v
<1> QED BY <1>4, <1>5

\* A number without its lowest bits, and without one more
LEMMA NextBit ==
  ASSUME NEW x \in Nat, NEW a \in Nat, a > 0
  PROVE  /\ x \div (2 * a) \in Nat /\ (x \div a) % 2 \in {0, 1}
         /\ x \div a = 2 * (x \div (2 * a)) + ((x \div a) % 2)
<1> DEFINE q == x \div a
           r == x % a
           u == q \div 2
           c == q % 2
           b == 2 * a
           w == a * c + r
<1>1. q \in Int /\ r \in 0 .. a - 1 /\ x = a * q + r
  BY Division
<1>2. q >= 0
  <2> HIDE DEF q, r
  <2>1. q < 0 => a * q <= - a
    BY <1>1
  <2>2. a * q \in Int
    BY <1>1
  <2> QED BY <1>1, <2>1, <2>2
<1> HIDE DEF q, r
<1>3. u \in Nat /\ c \in {0, 1} /\ q = 2 * u + c
  BY <1>1, <1>2
<1> HIDE DEF u, c
<1>4. b \in Nat /\ b > 0 /\ w \in 0 .. b - 1
  BY <1>1, <1>3
<1>5. x = b * u + w
  <2>1. a * (2 * u + c) = (2 * a) * u + a * c
    BY <1>3
  <2> QED BY <1>1, <1>3, <2>1
<1>6. x \div b = u
  <2> HIDE DEF b, w
  <2>1. (b * u + w) \div b = u
    BY <1>3, <1>4, QuotientIs
  <2> QED BY <1>5, <2>1
<1> QED BY <1>3, <1>6 DEF c, q

\* The bitwise reduction is the residue, for what two words hold.
LEMMA ReduceCtIs ==
  ASSUME NEW m \in Nat, m > 0, NEW x \in Nat, x < Wide
  PROVE  ReduceCt(x, m) = x % m
<1> DEFINE n == 2 * WordBits
           above(k) == x \div TwoTo[n - k]
           bit(k) == above(k) % 2
           Cut(s) == IF s >= m THEN s - m ELSE s
           rest == [k \in 0 .. n |-> above(k) % m]
<1>0. n \in Nat /\ Wide = TwoTo[n]
  BY WideIsTwoTo
<1> HIDE DEF n
<1>1. ASSUME NEW k \in 0 .. n PROVE n - k \in Nat /\ TwoTo[n - k] \in Nat /\ TwoTo[n - k] > 0
  <2>1. n - k \in Nat
    BY <1>0
  <2> QED BY <2>1, TwoToIs
<1>2. ASSUME NEW k \in 0 .. n, k # 0
      PROVE  /\ k - 1 \in 0 .. n
             /\ above(k - 1) \in Nat /\ bit(k) \in {0, 1}
             /\ above(k) = 2 * above(k - 1) + bit(k)
  <2> DEFINE a == TwoTo[n - k]
  <2>1. k - 1 \in 0 .. n /\ n - k \in Nat /\ n - (k - 1) = (n - k) + 1
    BY <1>0, <1>2
  <2>2. a \in Nat /\ a > 0 /\ TwoTo[n - (k - 1)] = 2 * a
    <3>1. TwoTo[(n - k) + 1] = 2 * TwoTo[n - k]
      BY Zenon, <2>1, TwoToIs
    <3> QED BY <1>1, <2>1, <3>1
  <2>3. above(k) = x \div a /\ above(k - 1) = x \div (2 * a) /\ bit(k) = (x \div a) % 2
    BY <2>2
  <2> HIDE DEF a, above, bit
  <2>4. /\ x \div (2 * a) \in Nat /\ (x \div a) % 2 \in {0, 1}
        /\ x \div a = 2 * (x \div (2 * a)) + ((x \div a) % 2)
    BY <2>2, NextBit
  <2> QED BY <2>1, <2>3, <2>4
<1>3. ASSUME NEW k \in 0 .. n
      PROVE  rest[k] = IF k = 0 THEN 0 ELSE Cut(bit(k) + 2 * rest[k - 1])
  <2>1. CASE k = 0
    <3> DEFINE W == TwoTo[n]
    <3>1. W \in Nat /\ W > 0 /\ x \in 0 .. W - 1 /\ n - 0 = n
      BY <1>0, <1>1
    <3>2. x \div W = 0
      <4> HIDE DEF W
      <4>1. x = W * 0 + x
        BY <3>1
      <4>2. (W * 0 + x) \div W = 0
        BY <3>1, QuotientIs
      <4> QED BY <4>1, <4>2
    <3>3. above(k) = 0
      BY <2>1, <3>1, <3>2
    <3>4. 0 % m = 0
      OBVIOUS
    <3> QED BY <2>1, <3>3, <3>4
  <2>2. CASE k # 0
    <3>1. rest[k] = above(k) % m /\ rest[k - 1] = above(k - 1) % m
      BY <1>2, <2>2
    <3>2. above(k - 1) \in Nat /\ bit(k) \in {0, 1} /\ above(k) = 2 * above(k - 1) + bit(k)
      BY <1>2, <2>2
    <3> HIDE DEF above, bit, rest
    <3>3. ASSUME NEW y \in Nat, NEW c \in {0, 1}
          PROVE  (2 * y + c) % m = Cut(c + 2 * (y % m))
      BY SMTT(30), <3>3, ShiftedRest
    <3>4. (2 * above(k - 1) + bit(k)) % m = Cut(bit(k) + 2 * (above(k - 1) % m))
      BY <3>2, <3>3, Zenon
    <3> HIDE DEF Cut
    <3> QED BY <2>2, <3>1, <3>2, <3>4
  <2> QED BY <2>1, <2>2
<1>4. rest = [k \in 0 .. n |-> rest[k]]
  OBVIOUS
<1>5. above(n) = x
  <2>1. n \in 0 .. n /\ n - n = 0 /\ TwoTo[0] = 1
    BY <1>0, TwoToIs
  <2>2. x \div 1 = x
    OBVIOUS
  <2> QED BY <2>1, <2>2
<1>6. n \in 0 .. n /\ rest[n] = x % m
  BY <1>0, <1>5
<1> HIDE DEF rest
<1>7. IsBitwiseRest(rest, x, m)
  BY <1>3, <1>4, Zenon DEF IsBitwiseRest, n, Cut, bit, above
<1>8. ASSUME NEW f, IsBitwiseRest(f, x, m) PROVE f = rest
  <2> DEFINE step == [k \in 1 .. n |-> [y \in {f[k - 1], rest[k - 1]} |-> Cut(bit(k) + 2 * y)]]
  <2>1. f = [k \in 0 .. n |-> IF k = 0 THEN 0 ELSE Cut(bit(k) + 2 * f[k - 1])]
    BY <1>8, Zenon DEF IsBitwiseRest, n, Cut, bit, above
  <2> HIDE DEF Cut, bit
  <2>2. \A k \in 0 .. n : f[k] = IF k = 0 THEN 0 ELSE Cut(bit(k) + 2 * f[k - 1])
    BY <2>1, Zenon
  <2>3. f = [k \in 0 .. n |-> f[k]]
    BY <2>1
  <2>4. ASSUME NEW k \in 1 .. n
        PROVE  f[k] = step[k][f[k - 1]] /\ rest[k] = step[k][rest[k - 1]]
    <3>1. k \in 0 .. n /\ k # 0
      BY <1>0
    <3>2. f[k] = Cut(bit(k) + 2 * f[k - 1]) /\ rest[k] = Cut(bit(k) + 2 * rest[k - 1])
      BY <1>3, <2>2, <3>1
    <3> QED BY <3>2, Zenon
  <2>5. f[0] = 0 /\ rest[0] = 0
    BY <1>0, <1>3, <2>2
  <2> HIDE DEF step
  <2>6. TakesSteps(f, n, 0, step) /\ TakesSteps(rest, n, 0, step)
    BY <1>4, <2>3, <2>4, <2>5, Zenon DEF TakesSteps
  <2> QED BY <1>0, <2>6, SameSteps
<1>9. rest = CHOOSE f : IsBitwiseRest(f, x, m)
  BY <1>7, <1>8
<1> QED BY <1>6, <1>9, ReduceCtIsChosen, Zenon DEF n

\* A multiple of m that is congruent to a difference, in both forms that the
\* code computes it
LEMMA EliminationIs ==
  ASSUME NEW m \in Nat, m > 0, NEW a \in Nat, a > 0, Apart(m, a), NEW y \in Nat,
         NEW u \in Int, Same(u, (y % a) - (y % m), a)
  PROVE  (u * ModInverse(m, a)) % a = (y \div m) % a
<1> DEFINE q == y \div m
           d == y % m
           c == y % a
           v == ModInverse(m, a)
           w == m * q
<1>1. q \in Int /\ d \in Int /\ c \in Int /\ y = m * q + d /\ Same(c, y, a)
  BY Division, ResidueIsSame
<1>2. v \in Int /\ Same(m * v, 1, a)
  BY ModInverseIs
<1> HIDE DEF q, d, c, v
<1>3. w \in Int /\ y - d = w
  BY <1>1
<1>4. Same(d, d, a) /\ Same(v, v, a)
  BY <1>1, <1>2, SameReflexive
<1>5. Same(c - d, y - d, a)
  BY <1>1, <1>4, SameSum
<1> HIDE DEF w
<1>6. Same(u, w, a)
  <2>1. c - d \in Int /\ Same(u, c - d, a) /\ Same(c - d, w, a)
    BY <1>1, <1>3, <1>5 DEF c, d
  <2> QED BY <1>3, <2>1, SameTransitive
<1>7. Same(u * v, w * v, a)
  BY <1>2, <1>3, <1>4, <1>6, SameProduct
<1>8. Same((q * m) * v, q, a)
  BY <1>1, <1>2, InverseCancels
<1>9. w * v = (q * m) * v /\ u * v \in Int /\ w * v \in Int
  BY <1>1, <1>2, <1>3 DEF w
<1>10. Same(u * v, q, a)
  BY <1>1, <1>7, <1>8, <1>9, SameTransitive
<1> DEFINE z == u * v
<1>11. z \in Int /\ Same(z, q, a)
  BY <1>9, <1>10
<1> HIDE DEF z
<1>12. z % a = q % a
  BY Zenon, <1>1, <1>11, SameResidue
<1> QED BY <1>12 DEF z, q, v

\* One digit of the residue is taken off.
LEMMA PeelOffIs ==
  ASSUME NEW m \in Nat, m > 0, NEW a \in Nat, a > 0, Apart(m, a), NEW y \in Nat
  PROVE  PeelOff(y % m, y % a, m, a) = (y \div m) % a
<1> DEFINE d == y % m
           c == y % a
           t == d % a
           s == c + a - t
           u == s % a
<1>1. d \in Int /\ c \in Int
  BY ResidueIsSame
<1> HIDE DEF d, c
<1>2. t \in Int /\ Same(t, d, a)
  BY <1>1, ResidueIsSame
<1> HIDE DEF t
<1>3. Same(s, c - d, a)
  <2>1. c + a \in Int /\ Same(c + a, c, a)
    <3>1. c + a = c + a * 1 /\ 1 \in Int
      BY <1>1
    <3> QED BY <1>1, <3>1 DEF Same
  <2>2. Same((c + a) - t, c - d, a)
    BY <1>1, <1>2, <2>1, SameSum
  <2>3. (c + a) - t = s
    BY <1>1, <1>2
  <2> QED BY <2>2, <2>3, Zenon
<1>4. s \in Int /\ c - d \in Int
  BY <1>1, <1>2
<1> HIDE DEF s
<1>5. u \in Int /\ Same(u, s, a)
  BY <1>4, ResidueIsSame
<1> HIDE DEF u
<1>6. Same(u, c - d, a)
  BY <1>3, <1>4, <1>5, SameTransitive
<1>7. (u * ModInverse(m, a)) % a = (y \div m) % a
  BY <1>5, <1>6, EliminationIs DEF c, d
<1> QED BY <1>7 DEF PeelOff, u, s, t, c, d

\* The elimination of two gears
LEMMA KEliminateIs ==
  ASSUME NEW m \in Nat, m > 0, NEW a \in Nat, a > 0, Apart(m, a), NEW y \in Nat
  PROVE  KEliminate(y % m, y % a, m, a) = (y \div m) % a
<1> DEFINE d == y % m
           c == y % a
           diff == IF c >= d THEN c - d ELSE (c + a - (d % a)) % a
<1>1. d \in Int /\ c \in Int
  BY ResidueIsSame
<1>2. CASE c >= d
  <2> DEFINE u == c - d
  <2>1. u \in Int /\ Same(u, u, a)
    BY <1>1, SameReflexive
  <2>2. (u * ModInverse(m, a)) % a = (y \div m) % a
    BY <2>1, EliminationIs
  <2> QED BY <1>2, <2>2 DEF KEliminate
<1>3. CASE ~ (c >= d)
  <2>1. PeelOff(d, c, m, a) = (y \div m) % a
    BY PeelOffIs
  <2> QED BY <1>3, <2>1 DEF KEliminate, PeelOff
<1> QED BY <1>2, <1>3

\* The constant-time step, on words
LEMMA KEliminateCtIs ==
  ASSUME NEW m \in Nat, m > 0, m < Word, NEW a \in Nat, a > 0, a < Word,
         Apart(m, a), NEW y \in Nat
  PROVE  KEliminateCt(y % m, y % a, m, a) = (y \div m) % a
<1> DEFINE d == y % m
           c == y % a
           v == ModInverse(m, a)
           t == d % a
           s == c + a - t
           u == s % a
           z == u * v
<1>0. Word \in Nat /\ Word >= 2 /\ Wide = Word * Word
  <2>1. WordBits - 1 \in Nat /\ (WordBits - 1) + 1 = WordBits
    BY WordAssumption
  <2>2. TwoTo[WordBits - 1] \in Nat \ {0} /\ TwoTo[(WordBits - 1) + 1] = 2 * TwoTo[WordBits - 1]
    BY Zenon, <2>1, TwoToIs
  <2>3. TwoTo[WordBits] = 2 * TwoTo[WordBits - 1]
    BY <2>1, <2>2
  <2> QED BY <2>2, <2>3 DEF Word, Wide
<1>1. d \in 0 .. m - 1 /\ c \in 0 .. a - 1 /\ v \in 0 .. a - 1
  BY ResidueIsSame, ModInverseIs
<1> HIDE DEF d, c, v
<1>2. t \in 0 .. a - 1
  <2>1. d \in Int
    BY <1>1
  <2> QED BY Zenon, <2>1, ResidueIsSame
<1> HIDE DEF t
<1>3. s \in Nat /\ s < 2 * Word
  BY <1>0, <1>1, <1>2
<1>4. 2 * Word <= Word * Word
  BY <1>0
<1>5. d \in Nat /\ d < Wide /\ s < Wide
  <2>1. Word * Word \in Nat
    BY <1>0
  <2> QED BY <1>0, <1>1, <1>3, <1>4, <2>1
<1>6. ReduceCt(d, a) = t
  BY <1>5, ReduceCtIs DEF t
<1> HIDE DEF s
<1>7. ReduceCt(s, a) = u
  BY <1>3, <1>5, ReduceCtIs
<1>8. u \in 0 .. a - 1
  BY <1>3, ResidueIsSame
<1> HIDE DEF u
<1>9. z \in Nat /\ z < Wide
  <2>1. ASSUME NEW x \in Nat, NEW w \in Nat, x < Word, w < Word PROVE x * w \in Nat /\ x * w < Word * Word
    <3>1. x * w \in Nat /\ x * Word \in Nat /\ x * w <= x * Word
      BY <1>0, <2>1
    <3>2. x * Word < Word * Word
      BY <1>0, <2>1
    <3> QED BY <1>0, <3>1, <3>2
  <2>2. u \in Nat /\ v \in Nat /\ u < Word /\ v < Word
    BY <1>0, <1>1, <1>8
  <2>3. u * v \in Nat /\ u * v < Word * Word
    BY <2>1, <2>2
  <2> QED BY <1>0, <2>3
<1> HIDE DEF z
<1>10. ReduceCt(z, a) = z % a
  BY <1>9, ReduceCtIs
<1>11. KEliminateCt(d, c, m, a) = PeelOff(d, c, m, a)
  BY <1>6, <1>7, <1>10 DEF KEliminateCt, PeelOff, z, u, s, t, v
<1>12. PeelOff(d, c, m, a) = (y \div m) % a
  BY PeelOffIs DEF d, c
<1> QED BY <1>11, <1>12 DEF d, c

\* The product of the first moduli
Lower(moduli, k) == Product(SubSeq(moduli, 1, k))

\* A product is that of its first moduli, times the next one by one.
LEMMA LowerIs ==
  ASSUME NEW moduli \in Seq(Nat \ {0})
  PROVE  /\ Lower(moduli, 0) = 1 /\ Lower(moduli, Len(moduli)) = Product(moduli)
         /\ \A k \in 0 .. Len(moduli) : Lower(moduli, k) \in Nat \ {0}
         /\ \A k \in 1 .. Len(moduli) : Lower(moduli, k) = Lower(moduli, k - 1) * moduli[k]
<1> DEFINE n == Len(moduli)
<1>1. PICK f \in [0 .. n -> Nat \ {0}] :
           /\ f[0] = 1 /\ \A k \in 1 .. n : f[k] = f[k - 1] * moduli[k]
           /\ Product(moduli) = f[n]
  BY ProductIs
<1>2. ASSUME NEW k \in 0 .. n PROVE Lower(moduli, k) = f[k]
  <2> DEFINE p == SubSeq(moduli, 1, k)
  <2>1. /\ k \in Nat /\ p \in Seq(Nat \ {0}) /\ Len(p) = k
        /\ \A i \in 1 .. k : p[i] = moduli[i] /\ i \in 1 .. n /\ i - 1 \in 0 .. n /\ i \in 0 .. n
    OBVIOUS
  <2> HIDE DEF p
  <2>2. PICK g \in [0 .. k -> Nat \ {0}] :
             /\ g[0] = 1 /\ \A i \in 1 .. k : g[i] = g[i - 1] * p[i]
             /\ Product(p) = g[k]
    <3>1. \E g \in [0 .. Len(p) -> Nat \ {0}] :
             /\ g[0] = 1 /\ \A i \in 1 .. Len(p) : g[i] = g[i - 1] * p[i]
             /\ Product(p) = g[Len(p)]
      BY Zenon, <2>1, ProductIs
    <3> QED BY Zenon, <2>1, <3>1
  <2> DEFINE I == {i \in 0 .. k : g[i] = f[i]}
  <2>3. 0 \in I
    BY <1>1, <2>1, <2>2
  <2>4. ASSUME NEW i \in 1 .. k, i - 1 \in I PROVE i \in I
    <3>1. i \in 0 .. k /\ g[i - 1] = f[i - 1]
      BY <2>4
    <3>2. g[i] = g[i - 1] * moduli[i] /\ f[i] = f[i - 1] * moduli[i]
      BY Zenon, <1>1, <2>1, <2>2
    <3> QED BY <3>1, <3>2
  <2>5. 0 .. k \subseteq I
    <3> HIDE DEF I
    <3> QED BY Zenon, <2>1, <2>3, <2>4, RangeInduction
  <2>6. k \in 0 .. k
    BY <2>1
  <2>7. g[k] = f[k]
    BY <2>5, <2>6
  <2> QED BY <2>2, <2>7 DEF Lower, p
<1>3. 0 \in 0 .. n /\ n \in 0 .. n /\ \A k \in 1 .. n : k \in 0 .. n /\ k - 1 \in 0 .. n
  OBVIOUS
<1> QED BY Zenon, <1>1, <1>2, <1>3

\* A quotient of a quotient, and its rest
LEMMA MixedStep ==
  ASSUME NEW x \in Nat, NEW a \in Nat, a > 0, NEW b \in Nat, b > 0
  PROVE  /\ x \div a \in Nat
         /\ x \div (a * b) = (x \div a) \div b
         /\ x % (a * b) = (x % a) + a * ((x \div a) % b)
<1> DEFINE q == x \div a
           r == x % a
           u == q \div b
           c == q % b
           w == a * c + r
           p == a * b
<1>1. q \in Int /\ r \in 0 .. a - 1 /\ x = a * q + r
  BY Division
<1>2. q >= 0
  <2> HIDE DEF q, r
  <2>1. q < 0 => a * q <= - a
    BY <1>1
  <2>2. a * q \in Int
    BY <1>1
  <2> QED BY <1>1, <2>1, <2>2
<1> HIDE DEF q, r
<1>3. u \in Int /\ c \in 0 .. b - 1 /\ q = b * u + c
  BY <1>1, Division
<1> HIDE DEF u, c
<1>4. p \in Nat /\ p > 0 /\ w \in 0 .. p - 1
  <2>1. a * c \in Nat /\ a * c <= a * (b - 1) /\ a * (b - 1) = a * b - a
    BY <1>3
  <2>2. p \in Nat /\ p > 0
    OBVIOUS
  <2> QED BY <1>1, <2>1, <2>2
<1>5. x = p * u + w
  <2>1. a * (b * u + c) = (a * b) * u + a * c
    BY <1>3
  <2>2. (a * b) * u \in Int /\ a * c \in Int
    BY <1>3
  <2> QED BY <1>1, <1>3, <2>1, <2>2
<1>6. x \div p = u /\ x % p = w
  <2> HIDE DEF p, w
  <2>1. (p * u + w) \div p = u /\ (p * u + w) % p = w
    BY <1>3, <1>4, QuotientIs
  <2> QED BY <1>5, <2>1
<1>7. w = r + a * c
  <2>1. a * c \in Int
    BY <1>3
  <2> QED BY <1>1, <2>1
<1> QED BY <1>1, <1>2, <1>6, <1>7 DEF u, c, q, r, p

\* The digit of x at place k
Mixed(moduli, x, k) == (x \div Lower(moduli, k - 1)) % moduli[k]

\* What a basis of words is, with the residues of x
Numbered(moduli, x, r) ==
  /\ moduli \in Seq(Nat \ {0}) /\ Len(moduli) \in Nat
  /\ \A i \in 1 .. Len(moduli) : moduli[i] \in Nat /\ moduli[i] > 0 /\ moduli[i] < Word
  /\ PairwiseApart(moduli)
  /\ x \in Nat
  /\ \A i \in 1 .. Len(moduli) : r[i] = x % moduli[i]

\* The residue freed of the digits below it, by both steps
IsFreed(f, r, moduli, d, i) ==
  f = [j \in 0 .. i - 1 |->
        IF j = 0 THEN r[i] ELSE PeelOff(d[j], f[j - 1], moduli[j], moduli[i])]
IsFreedCt(f, r, moduli, d, i) ==
  f = [j \in 0 .. i - 1 |->
        IF j = 0 THEN r[i] ELSE KEliminateCt(d[j], f[j - 1], moduli[j], moduli[i])]

\* After j digits it is x without its j lowest digits.
FreedOf(moduli, x, i) == [j \in 0 .. i - 1 |-> (x \div Lower(moduli, j)) % moduli[i]]

\* One digit less
LEMMA FreedSteps ==
  ASSUME NEW moduli, NEW x, NEW r, Numbered(moduli, x, r), NEW i \in 1 .. Len(moduli)
  PROVE  LET h == FreedOf(moduli, x, i)
         IN  /\ h[0] = r[i]
             /\ \A j \in 1 .. i - 1 :
                  /\ h[j] = PeelOff(Mixed(moduli, x, j), h[j - 1], moduli[j], moduli[i])
                  /\ h[j] = KEliminateCt(Mixed(moduli, x, j), h[j - 1], moduli[j], moduli[i])
<1> DEFINE h == FreedOf(moduli, x, i)
<1>1. /\ moduli \in Seq(Nat \ {0}) /\ x \in Nat /\ i \in Nat /\ i <= Len(moduli)
      /\ r[i] = x % moduli[i] /\ moduli[i] \in Nat /\ moduli[i] > 0 /\ moduli[i] < Word
  BY DEF Numbered
<1>2. h[0] = r[i]
  <2>1. 0 \in 0 .. i - 1 /\ Lower(moduli, 0) = 1 /\ x \div 1 = x
    BY <1>1, LowerIs
  <2> QED BY <1>1, <2>1 DEF FreedOf
<1>3. ASSUME NEW j \in 1 .. i - 1
      PROVE  /\ h[j] = PeelOff(Mixed(moduli, x, j), h[j - 1], moduli[j], moduli[i])
             /\ h[j] = KEliminateCt(Mixed(moduli, x, j), h[j - 1], moduli[j], moduli[i])
  <2> DEFINE l == Lower(moduli, j - 1)
             m == moduli[j]
             a == moduli[i]
             y == x \div l
  <2>1. /\ j \in 1 .. Len(moduli) /\ j # i /\ j - 1 \in 0 .. Len(moduli)
        /\ j \in 0 .. i - 1 /\ j - 1 \in 0 .. i - 1
    BY <1>1
  <2>2. m \in Nat /\ m > 0 /\ m < Word /\ Apart(m, a)
    BY <2>1 DEF Numbered, PairwiseApart
  <2>3. l \in Nat /\ l > 0 /\ Lower(moduli, j) = l * m
    BY SMTT(30), <1>1, <2>1, LowerIs
  <2>4. h[j] = (x \div Lower(moduli, j)) % a /\ h[j - 1] = y % a
    BY <2>1 DEF FreedOf
  <2>5. Mixed(moduli, x, j) = y % m
    BY DEF Mixed
  <2> HIDE DEF l, m, a, h
  <2>6. y \in Nat /\ x \div (l * m) = y \div m
    <3>1. \A e, g \in Nat : e > 0 /\ g > 0 =>
            x \div e \in Nat /\ x \div (e * g) = (x \div e) \div g
      BY SMTT(30), <1>1, MixedStep
    <3> QED BY <2>2, <2>3, <3>1, Zenon
  <2> HIDE DEF y
  <2>7. PeelOff(y % m, y % a, m, a) = (y \div m) % a
    BY <1>1, <2>2, <2>6, PeelOffIs DEF a
  <2>8. KEliminateCt(y % m, y % a, m, a) = (y \div m) % a
    BY <1>1, <2>2, <2>6, KEliminateCtIs DEF a
  <2>9. h[j] = (y \div m) % a
    BY <2>3, <2>4, <2>6
  <2> QED BY <2>4, <2>5, <2>7, <2>8, <2>9 DEF m, a
<1> QED BY <1>2, <1>3

\* The digits below k, as a sequence that either decomposition has found
HasDigits(d, moduli, x, k) == \A j \in 1 .. k - 1 : d[j] = Mixed(moduli, x, j)

\* Both recursions have FreedOf as their only value.
LEMMA FreedIs ==
  ASSUME NEW moduli, NEW x, NEW r, Numbered(moduli, x, r), NEW i \in 1 .. Len(moduli),
         NEW d, HasDigits(d, moduli, x, i)
  PROVE  /\ (CHOOSE f : IsFreed(f, r, moduli, d, i))[i - 1] = Mixed(moduli, x, i)
         /\ (CHOOSE f : IsFreedCt(f, r, moduli, d, i))[i - 1] = Mixed(moduli, x, i)
<1> DEFINE h == FreedOf(moduli, x, i)
           D == 0 .. i - 1
<1>1. i \in Nat /\ i >= 1 /\ i - 1 \in Nat /\ i - 1 \in D /\ 0 \in D
  BY DEF Numbered
<1>2. \A j \in 1 .. i - 1 : j \in D /\ j # 0 /\ j - 1 \in D /\ d[j] = Mixed(moduli, x, j)
  BY <1>1 DEF HasDigits
<1>3. \A j \in D : j # 0 => j \in 1 .. i - 1
  BY <1>1
<1>4. h = [j \in D |-> h[j]] /\ h[i - 1] = Mixed(moduli, x, i)
  BY <1>1 DEF FreedOf, Mixed
<1>5. /\ h[0] = r[i]
      /\ \A j \in 1 .. i - 1 :
           /\ h[j] = PeelOff(d[j], h[j - 1], moduli[j], moduli[i])
           /\ h[j] = KEliminateCt(d[j], h[j - 1], moduli[j], moduli[i])
  BY <1>2, FreedSteps
<1> HIDE DEF h
<1>6. ASSUME NEW f, f = [j \in D |-> f[j]], f[0] = r[i],
             \A j \in 1 .. i - 1 : f[j - 1] = h[j - 1] => f[j] = h[j]
      PROVE  f = h
  <2> DEFINE I == {j \in D : f[j] = h[j]}
  <2>1. 0 \in I
    BY <1>1, <1>5, <1>6
  <2>2. ASSUME NEW j \in 1 .. i - 1, j - 1 \in I PROVE j \in I
    BY Zenon, <1>2, <1>6, <2>2
  <2>3. 0 .. i - 1 \subseteq I
    <3> HIDE DEF I
    <3> QED BY Zenon, <1>1, <2>1, <2>2, RangeInduction
  <2>4. \A j \in D : f[j] = h[j]
    BY <2>3
  <2>5. [j \in D |-> f[j]] = [j \in D |-> h[j]]
    BY <2>4
  <2> QED BY <1>4, <1>6, <2>5
<1> DEFINE P(f, j) == IF j = 0 THEN r[i] ELSE PeelOff(d[j], f[j - 1], moduli[j], moduli[i])
           C(f, j) == IF j = 0 THEN r[i] ELSE KEliminateCt(d[j], f[j - 1], moduli[j], moduli[i])
<1>7. \A f : IsFreed(f, r, moduli, d, i) <=> f = [j \in D |-> P(f, j)]
  BY Zenon DEF IsFreed
<1>8. \A f : IsFreedCt(f, r, moduli, d, i) <=> f = [j \in D |-> C(f, j)]
  BY Zenon DEF IsFreedCt
<1>9. \A j \in D : h[j] = P(h, j) /\ h[j] = C(h, j)
  BY <1>3, <1>5
<1>10. ASSUME NEW f
       PROVE  /\ P(f, 0) = r[i] /\ C(f, 0) = r[i]
              /\ \A j \in 1 .. i - 1 : f[j - 1] = h[j - 1] => P(f, j) = h[j] /\ C(f, j) = h[j]
  BY <1>2, <1>5
<1> HIDE DEF P, C, D
<1>11. h = [j \in D |-> P(h, j)] /\ h = [j \in D |-> C(h, j)]
  <2>1. [j \in D |-> h[j]] = [j \in D |-> P(h, j)] /\ [j \in D |-> h[j]] = [j \in D |-> C(h, j)]
    BY <1>9
  <2> QED BY <1>4, <2>1
<1>12. ASSUME NEW f, IsFreed(f, r, moduli, d, i) PROVE f = h
  <2>1. f = [j \in D |-> P(f, j)]
    BY <1>7, <1>12
  <2>2. \A j \in D : f[j] = P(f, j)
    BY <2>1, Zenon
  <2>3. f = [j \in D |-> f[j]]
    BY <2>1
  <2>4. f[0] = r[i] /\ \A j \in 1 .. i - 1 : f[j - 1] = h[j - 1] => f[j] = h[j]
    BY <1>1, <1>2, <1>10, <2>2
  <2> QED BY Zenon, <1>6, <2>3, <2>4
<1>13. ASSUME NEW f, IsFreedCt(f, r, moduli, d, i) PROVE f = h
  <2>1. f = [j \in D |-> C(f, j)]
    BY <1>8, <1>13
  <2>2. \A j \in D : f[j] = C(f, j)
    BY <2>1, Zenon
  <2>3. f = [j \in D |-> f[j]]
    BY <2>1
  <2>4. f[0] = r[i] /\ \A j \in 1 .. i - 1 : f[j - 1] = h[j - 1] => f[j] = h[j]
    BY <1>1, <1>2, <1>10, <2>2
  <2> QED BY Zenon, <1>6, <2>3, <2>4
<1>14. IsFreed(h, r, moduli, d, i) /\ IsFreedCt(h, r, moduli, d, i)
  BY <1>7, <1>8, <1>11
<1>15. /\ (CHOOSE f : IsFreed(f, r, moduli, d, i)) = h
       /\ (CHOOSE f : IsFreedCt(f, r, moduli, d, i)) = h
  BY <1>12, <1>13, <1>14
<1> QED BY Zenon, <1>4, <1>15

\* The sequences of digits
IsDigits(g, r, moduli) ==
  g = [k \in 0 .. Len(moduli) |->
        IF k = 0 THEN <<>>
        ELSE Append(g[k - 1], (CHOOSE f : IsFreed(f, r, moduli, g[k - 1], k))[k - 1])]
IsDigitsCt(g, r, moduli) ==
  g = [k \in 0 .. Len(moduli) |->
        IF k = 0 THEN <<>>
        ELSE Append(g[k - 1], (CHOOSE f : IsFreedCt(f, r, moduli, g[k - 1], k))[k - 1])]

\* Both decompositions are chosen by these recursions.
LEMMA GarnerIsChosen ==
  ASSUME NEW moduli, NEW r
  PROVE  /\ GarnerDecompose(moduli, r) = (CHOOSE g : IsDigits(g, r, moduli))[Len(moduli)]
         /\ GarnerDecomposeCt(moduli, r) = (CHOOSE g : IsDigitsCt(g, r, moduli))[Len(moduli)]
<1>1. GarnerDecompose(moduli, r) = (CHOOSE g : IsDigits(g, r, moduli))[Len(moduli)]
  BY Zenon DEF GarnerDecompose, GarnerDigits, IsDigits, IsFreed
<1>2. GarnerDecomposeCt(moduli, r) = (CHOOSE g : IsDigitsCt(g, r, moduli))[Len(moduli)]
  BY Zenon DEF GarnerDecomposeCt, GarnerDigits, IsDigitsCt, IsFreedCt
<1> QED BY <1>1, <1>2

\* The first k digits of x
FirstDigits(moduli, x, k) == [i \in 1 .. k |-> Mixed(moduli, x, i)]

\* The next digit at their end
LEMMA OneMoreDigit ==
  ASSUME NEW moduli, NEW x, NEW k \in Nat, k >= 1
  PROVE  Append(FirstDigits(moduli, x, k - 1), Mixed(moduli, x, k)) = FirstDigits(moduli, x, k)
<1> DEFINE e(i) == Mixed(moduli, x, i)
           s == [i \in 1 .. k - 1 |-> e(i)]
           t == [i \in 1 .. k |-> e(i)]
           E == {e(i) : i \in 1 .. k}
<1>1. k - 1 \in Nat /\ (k - 1) + 1 = k
  OBVIOUS
<1> HIDE DEF e
<1>2. s \in Seq(E) /\ Len(s) = k - 1 /\ t \in Seq(E) /\ Len(t) = k
  BY <1>1
<1>3. e(k) \in E
  OBVIOUS
<1>4. /\ Append(s, e(k)) \in Seq(E) /\ Len(Append(s, e(k))) = k
      /\ \A i \in 1 .. k : Append(s, e(k))[i] = IF i = k THEN e(k) ELSE s[i]
  BY <1>1, <1>2, <1>3
<1>5. \A i \in 1 .. k : Append(s, e(k))[i] = t[i]
  BY <1>1, <1>4
<1> HIDE DEF s, t, E
<1>6. Append(s, e(k)) = t
  BY <1>2, <1>4, <1>5
<1> QED BY <1>6, Zenon DEF FirstDigits, s, t, e

\* Both decompositions find the digits of x.
LEMMA DigitsAre ==
  ASSUME NEW moduli, NEW x, NEW r, Numbered(moduli, x, r)
  PROVE  /\ GarnerDecompose(moduli, r) = FirstDigits(moduli, x, Len(moduli))
         /\ GarnerDecomposeCt(moduli, r) = FirstDigits(moduli, x, Len(moduli))
<1> DEFINE n == Len(moduli)
           D == 0 .. n
           h == [k \in D |-> FirstDigits(moduli, x, k)]
           P(g, k) == (CHOOSE f : IsFreed(f, r, moduli, g[k - 1], k))[k - 1]
           C(g, k) == (CHOOSE f : IsFreedCt(f, r, moduli, g[k - 1], k))[k - 1]
           PP(g, k) == IF k = 0 THEN <<>> ELSE Append(g[k - 1], P(g, k))
           CC(g, k) == IF k = 0 THEN <<>> ELSE Append(g[k - 1], C(g, k))
<1>1. n \in Nat /\ n \in D /\ 0 \in D /\ \A k \in 1 .. n : k \in D /\ k # 0 /\ k - 1 \in D
  BY DEF Numbered
<1>2. \A k \in D : k # 0 => k \in 1 .. n
  BY <1>1
<1>3. h = [k \in D |-> h[k]] /\ h[n] = FirstDigits(moduli, x, n)
  BY <1>1
<1>4. h[0] = <<>>
  BY <1>1 DEF FirstDigits
<1>5. ASSUME NEW k \in 1 .. n, NEW g, g[k - 1] = h[k - 1]
      PROVE  PP(g, k) = h[k] /\ CC(g, k) = h[k]
  <2> DEFINE d == g[k - 1]
  <2>1. d = FirstDigits(moduli, x, k - 1) /\ h[k] = FirstDigits(moduli, x, k)
    BY <1>1, <1>5
  <2> HIDE DEF d
  <2>2. HasDigits(d, moduli, x, k)
    BY <2>1 DEF HasDigits, FirstDigits
  <2>3. P(g, k) = Mixed(moduli, x, k) /\ C(g, k) = Mixed(moduli, x, k)
    BY <2>2, FreedIs DEF d
  <2>4. k \in Nat /\ k >= 1
    BY <1>1
  <2>5. Append(d, Mixed(moduli, x, k)) = h[k]
    BY <2>1, <2>4, OneMoreDigit
  <2> HIDE DEF P, C
  <2> QED BY <1>1, <2>3, <2>5 DEF d
<1> HIDE DEF h, P, C
<1>6. ASSUME NEW g, g = [k \in D |-> g[k]], g[0] = <<>>,
             \A k \in 1 .. n : g[k - 1] = h[k - 1] => g[k] = h[k]
      PROVE  g = h
  <2> DEFINE I == {k \in D : g[k] = h[k]}
  <2>1. 0 \in I
    BY <1>1, <1>4, <1>6
  <2>2. ASSUME NEW k \in 1 .. n, k - 1 \in I PROVE k \in I
    BY Zenon, <1>1, <1>6, <2>2
  <2>3. 0 .. n \subseteq I
    <3> HIDE DEF I
    <3> QED BY Zenon, <1>1, <2>1, <2>2, RangeInduction
  <2>4. \A k \in D : g[k] = h[k]
    BY <2>3
  <2>5. [k \in D |-> g[k]] = [k \in D |-> h[k]]
    BY <2>4
  <2> QED BY <1>3, <1>6, <2>5
<1>7. \A g : IsDigits(g, r, moduli) <=> g = [k \in D |-> PP(g, k)]
  BY Zenon DEF IsDigits, P
<1>8. \A g : IsDigitsCt(g, r, moduli) <=> g = [k \in D |-> CC(g, k)]
  BY Zenon DEF IsDigitsCt, C
<1>9. \A k \in D : h[k] = PP(h, k) /\ h[k] = CC(h, k)
  <2> SUFFICES ASSUME NEW k \in D PROVE h[k] = PP(h, k) /\ h[k] = CC(h, k)
    OBVIOUS
  <2>1. CASE k = 0
    BY <1>4, <2>1
  <2>2. CASE k # 0
    BY Zenon, <1>2, <1>5, <2>2
  <2> QED BY <2>1, <2>2
<1>10. \A g : PP(g, 0) = <<>> /\ CC(g, 0) = <<>>
  OBVIOUS
<1> HIDE DEF PP, CC, D
<1>11. h = [k \in D |-> PP(h, k)] /\ h = [k \in D |-> CC(h, k)]
  <2>1. [k \in D |-> h[k]] = [k \in D |-> PP(h, k)] /\ [k \in D |-> h[k]] = [k \in D |-> CC(h, k)]
    BY <1>9
  <2> QED BY <1>3, <2>1
<1>12. ASSUME NEW g, IsDigits(g, r, moduli) PROVE g = h
  <2>1. g = [k \in D |-> PP(g, k)]
    BY <1>7, <1>12
  <2>2. \A k \in D : g[k] = PP(g, k)
    BY <2>1, Zenon
  <2>3. g = [k \in D |-> g[k]]
    BY <2>1
  <2>4. g[0] = <<>> /\ \A k \in 1 .. n : g[k - 1] = h[k - 1] => g[k] = h[k]
    BY <1>1, <1>5, <1>10, <2>2
  <2> QED BY <1>6, <2>3, <2>4
<1>13. ASSUME NEW g, IsDigitsCt(g, r, moduli) PROVE g = h
  <2>1. g = [k \in D |-> CC(g, k)]
    BY <1>8, <1>13
  <2>2. \A k \in D : g[k] = CC(g, k)
    BY <2>1, Zenon
  <2>3. g = [k \in D |-> g[k]]
    BY <2>1
  <2>4. g[0] = <<>> /\ \A k \in 1 .. n : g[k - 1] = h[k - 1] => g[k] = h[k]
    BY <1>1, <1>5, <1>10, <2>2
  <2> QED BY <1>6, <2>3, <2>4
<1>14. IsDigits(h, r, moduli) /\ IsDigitsCt(h, r, moduli)
  BY <1>7, <1>8, <1>11
<1>15. /\ (CHOOSE g : IsDigits(g, r, moduli)) = h
       /\ (CHOOSE g : IsDigitsCt(g, r, moduli)) = h
  BY <1>12, <1>13, <1>14
<1> QED BY <1>3, <1>15, GarnerIsChosen

\* The sum that Reconstruct makes of digits
IsDigitSum(f, moduli, d) ==
  f = [k \in 0 .. Len(moduli) |->
        IF k = 0 THEN 0 ELSE f[k - 1] + d[k] * Product(SubSeq(moduli, 1, k - 1))]

\* And it gives back what they are the digits of.
LEMMA ReconstructIs ==
  ASSUME NEW moduli, NEW x, NEW r, Numbered(moduli, x, r), x < Product(moduli)
  PROVE  Reconstruct(moduli, FirstDigits(moduli, x, Len(moduli))) = x
<1> DEFINE n == Len(moduli)
           D == 0 .. n
           d == FirstDigits(moduli, x, n)
           h == [k \in D |-> x % Lower(moduli, k)]
           S(f, k) == IF k = 0 THEN 0 ELSE f[k - 1] + d[k] * Lower(moduli, k - 1)
<1>1. n \in Nat /\ n \in D /\ 0 \in D /\ \A k \in 1 .. n : k \in D /\ k # 0 /\ k - 1 \in D
  BY DEF Numbered
<1>2. \A k \in D : k # 0 => k \in 1 .. n
  BY <1>1
<1>3. h = [k \in D |-> h[k]]
  OBVIOUS
<1>4. h[0] = 0
  <2>1. Lower(moduli, 0) = 1 /\ x % 1 = 0
    BY LowerIs DEF Numbered
  <2> QED BY <1>1, <2>1
<1>5. ASSUME NEW k \in 1 .. n
      PROVE  h[k] = h[k - 1] + d[k] * Lower(moduli, k - 1)
  <2> DEFINE l == Lower(moduli, k - 1)
             m == moduli[k]
             c == (x \div l) % m
  <2>1. x \in Nat /\ m \in Nat /\ m > 0 /\ k - 1 \in 0 .. n
    BY <1>1 DEF Numbered
  <2>2. l \in Nat /\ l > 0 /\ Lower(moduli, k) = l * m
    BY <2>1, LowerIs DEF Numbered
  <2>3. d[k] = c /\ h[k] = x % Lower(moduli, k) /\ h[k - 1] = x % l
    BY <1>1 DEF FirstDigits, Mixed
  <2> HIDE DEF l, m, d, h
  <2>4. \A e, g \in Nat : e > 0 /\ g > 0 =>
          /\ x \div e \in Nat
          /\ x % (e * g) = (x % e) + e * ((x \div e) % g)
    BY <2>1, MixedStep
  <2>5. x \div l \in Nat /\ x % (l * m) = (x % l) + l * c
    BY <2>1, <2>2, <2>4, Zenon
  <2>6. c \in Int
    BY <2>1, <2>5, Division
  <2> HIDE DEF c
  <2>7. l * c = c * l
    BY <2>2, <2>6
  <2> QED BY <2>2, <2>3, <2>5, <2>7 DEF l
<1>6. h[n] = x
  <2>1. Lower(moduli, n) = Product(moduli) /\ Product(moduli) \in Nat
    BY LowerIs, ProductIsPositive DEF Numbered
  <2>2. x % Product(moduli) = x
    <3> DEFINE m == Product(moduli)
    <3>1. m \in Nat /\ x \in Nat /\ x < m
      BY <2>1 DEF Numbered
    <3> HIDE DEF m
    <3>2. x % m = x
      BY <3>1
    <3> QED BY <3>2 DEF m
  <2> QED BY <1>1, <2>1, <2>2
<1> HIDE DEF h, d
<1>7. \A f : IsDigitSum(f, moduli, d) <=> f = [k \in D |-> S(f, k)]
  BY Zenon DEF IsDigitSum, Lower
<1>8. \A k \in D : h[k] = S(h, k)
  BY <1>2, <1>4, <1>5
<1>9. \A f : S(f, 0) = 0 /\ \A k \in 1 .. n : f[k - 1] = h[k - 1] => S(f, k) = h[k]
  BY <1>1, <1>5
<1> HIDE DEF S, D
<1>10. h = [k \in D |-> S(h, k)]
  <2>1. [k \in D |-> h[k]] = [k \in D |-> S(h, k)]
    BY <1>8
  <2> QED BY <1>3, <2>1
<1>11. ASSUME NEW f, IsDigitSum(f, moduli, d) PROVE f = h
  <2>1. f = [k \in D |-> S(f, k)]
    BY <1>7, <1>11
  <2>2. \A k \in D : f[k] = S(f, k)
    BY <2>1, Zenon
  <2> DEFINE I == {k \in D : f[k] = h[k]}
  <2>3. 0 \in I
    BY <1>1, <1>4, <1>9, <2>2
  <2>4. ASSUME NEW k \in 1 .. n, k - 1 \in I PROVE k \in I
    BY <1>1, <1>9, <2>2, <2>4
  <2>5. 0 .. n \subseteq I
    <3> HIDE DEF I
    <3> QED BY Zenon, <1>1, <2>3, <2>4, RangeInduction
  <2>6. \A k \in D : f[k] = h[k]
    BY <2>5 DEF D
  <2>7. [k \in D |-> f[k]] = [k \in D |-> h[k]] /\ f = [k \in D |-> f[k]]
    BY <2>1, <2>6
  <2> QED BY <1>3, <2>7
<1>12. IsDigitSum(h, moduli, d)
  BY <1>7, <1>10
<1>13. (CHOOSE f : IsDigitSum(f, moduli, d)) = h
  BY <1>11, <1>12
<1>14. Reconstruct(moduli, d) = (CHOOSE f : IsDigitSum(f, moduli, d))[n]
  BY Zenon DEF Reconstruct, IsDigitSum
<1> QED BY Zenon, <1>6, <1>13, <1>14 DEF d

-----------------------------------------------------------------------------
(* The readings of a stack.                                                 *)

\* A basis is extended only where the longer one leaves room too.
ExtensionsLeaveRoom ==
  \A moduli \in Bases, m \in NewModuli :
    IsBasis(Append(moduli, m)) => 2 * Product(Append(moduli, m)) <= Wide

\* What is below m is its own residue.
LEMMA SmallResidue ==
  ASSUME NEW m \in Nat, NEW x \in 0 .. m - 1
  PROVE  x % m = x
<1>1. m > 0 /\ x = m * 0 + x /\ 0 \in Int
  OBVIOUS
<1>2. (m * 0 + x) % m = x
  BY <1>1, QuotientIs
<1> QED BY <1>1, <1>2

\* What encodes an element of the integers modulo q comes back as that element.
LEMMA RoundTripIs ==
  ASSUME NEW moduli, Roomy(moduli), NEW q \in Nat, q >= 2, q <= Product(moduli),
         NEW c \in 0 .. q - 1, NEW centered \in BOOLEAN
  PROVE  ToQ(NewBasis(moduli), FromQ(NewBasis(moduli), c, q, centered), q, centered) = c
<1> DEFINE B == NewBasis(moduli)
           M == Product(moduli)
           y == IF centered /\ c > q \div 2 THEN c - q ELSE c
           r == Encode(B, y)
           v == y % M
<1>1. M \in Nat /\ M > 0 /\ q <= M /\ B.moduli = moduli /\ B.capacity = M /\ Gears(B) = 1 .. Len(moduli)
  BY RoomyIs DEF NewBasis, Gears
<1>2. y \in Int /\ y < M /\ y >= - M /\ Same(y, c, q)
  <2>1. CASE centered /\ c > q \div 2
    <3>1. y = c + q * (-1) /\ -1 \in Int
      BY <2>1
    <3>2. Same(y, c, q)
      BY <3>1, Zenon DEF Same
    <3> QED BY <1>1, <2>1, <3>2
  <2>2. CASE ~ (centered /\ c > q \div 2)
    <3>1. y = c /\ Same(c, c, q)
      BY <2>2, SameReflexive
    <3> QED BY <1>1, <3>1
  <2> QED BY <2>1, <2>2
<1>3. y % q = c
  <2> HIDE DEF y
  <2>1. q > 0
    OBVIOUS
  <2> QED BY Zenon, <1>2, <2>1, ResidueIs
<1>4. Decode(B, r) = v
  <2>1. \A i \in 1 .. Len(moduli) : r[i] = y % moduli[i]
    BY <1>1 DEF Encode
  <2> HIDE DEF r, y, M, B
  <2> QED BY <1>2, <2>1, DecodeOfEncode DEF B, M
<1>5. FromQ(B, c, q, centered) = r
  BY DEF FromQ
<1>6. CASE ~ centered
  <2>1. y = c /\ c \in 0 .. M - 1
    BY <1>1, <1>6
  <2>2. v = c
    <3> HIDE DEF M
    <3>1. c % M = c
      BY <1>1, <2>1, SmallResidue
    <3> QED BY <2>1, <3>1
  <2>3. c % q = c
    OBVIOUS
  <2> QED BY <1>4, <1>5, <1>6, <2>2, <2>3 DEF ToQ
<1>7. CASE centered
  <2>1. v \in 0 .. M - 1 /\ v % M = v
    <3> HIDE DEF y, M
    <3>1. v \in 0 .. M - 1
      BY Zenon, <1>1, <1>2, ResidueIsSame
    <3> HIDE DEF v
    <3>2. v % M = v
      BY <1>1, <3>1, SmallResidue
    <3> QED BY <3>1, <3>2
  <2>2. DecodeCentered(B, r) = IF v <= M \div 2 THEN v ELSE v - M
    BY Zenon, <1>1, <1>4, <2>1 DEF DecodeCentered, CenteredLift
  <2>3. (IF v <= M \div 2 THEN v ELSE v - M) = y
    <3>1. CASE c > q \div 2
      <4>1. y = c - q /\ 2 * y < M /\ - (2 * y) < M
        <5> HIDE DEF M
        <5> QED BY <1>1, <1>7, <3>1
      <4> HIDE DEF y, M
      <4> QED BY <1>1, <1>2, <4>1, CenteredIs
    <3>2. CASE ~ (c > q \div 2)
      <4> HIDE DEF M
      <4>1. y = c /\ c <= q \div 2
        BY <1>7, <3>2
      <4>2. q \div 2 <= M \div 2 /\ c \in 0 .. M - 1
        BY <1>1
      <4>3. c % M = c
        BY <1>1, <4>2, SmallResidue
      <4>4. v = c
        BY <4>1, <4>3
      <4>5. c <= M \div 2
        BY <1>1, <4>1, <4>2
      <4> HIDE DEF v, y
      <4> QED BY <4>1, <4>4, <4>5
    <3> QED BY <3>1, <3>2
  <2> QED BY <1>3, <1>5, <1>7, <2>2, <2>3 DEF ToQ
<1> QED BY <1>6, <1>7

\* One more modulus
LEMMA AppendedProduct ==
  ASSUME NEW moduli \in Seq(Nat \ {0}), NEW m \in Nat \ {0}
  PROVE  Product(Append(moduli, m)) = Product(moduli) * m
<1> DEFINE q == Append(moduli, m)
           n == Len(moduli)
<1>1. q \in Seq(Nat \ {0}) /\ Len(q) = n + 1 /\ q[n + 1] = m /\ n \in Nat /\ SubSeq(q, 1, n) = moduli
  OBVIOUS
<1>2. Lower(q, n) = Product(moduli)
  BY Zenon, <1>1 DEF Lower
<1> HIDE DEF q, n
<1>3. n + 1 \in 1 .. Len(q) /\ (n + 1) - 1 = n
  BY <1>1
<1>4. Lower(q, Len(q)) = Product(q) /\ Lower(q, n + 1) = Lower(q, (n + 1) - 1) * q[n + 1]
  BY <1>1, <1>3, LowerIs
<1>5. Product(q) = Product(moduli) * m
  BY <1>1, <1>2, <1>3, <1>4
<1> QED BY <1>5 DEF q

\* A value that is promoted stays the same, and comes back when it is demoted.
LEMMA PromotionIs ==
  ASSUME NEW moduli, Roomy(moduli), NEW m \in Nat, Roomy(Append(moduli, m)),
         NEW x \in 0 .. Product(moduli) - 1,
         NEW r, r = [i \in 1 .. Len(moduli) |-> x % moduli[i]]
  PROVE  /\ x % m \in 0 .. m - 1
         /\ Decode(NewBasis(Append(moduli, m)), Promoted(r, x % m)) = x
         /\ Demoted(Promoted(r, x % m), Len(moduli)) = r
<1> DEFINE q == Append(moduli, m)
           n == Len(moduli)
           c == x % m
           s == Append(r, c)
           M == Product(moduli)
<1>1. /\ moduli \in Seq(Nat \ {0}) /\ n \in Nat /\ M \in Nat /\ M > 0
      /\ \A i \in 1 .. n : moduli[i] \in Nat /\ moduli[i] > 0
  BY RoomyIs
<1>2. Len(q) = n + 1 /\ q[n + 1] = m /\ \A i \in 1 .. n : q[i] = moduli[i]
  BY <1>1
<1>3. m > 0
  <2>1. n + 1 \in 1 .. Len(q)
    BY <1>1, <1>2
  <2>2. q[n + 1] \in Nat /\ q[n + 1] >= 2
    BY Zenon, <2>1, RoomyIs
  <2> QED BY <1>2, <2>2
<1>4. x \in Int /\ c \in 0 .. m - 1 /\ c \in Int
  <2>1. x \in Int
    BY <1>1
  <2>2. c \in 0 .. m - 1
    BY <1>3, <2>1, ResidueIsSame
  <2> HIDE DEF c
  <2> QED BY <2>1, <2>2
<1>5. \A i \in 1 .. n : r[i] = x % moduli[i] /\ r[i] \in Int
  <2> SUFFICES ASSUME NEW i \in 1 .. n PROVE r[i] = x % moduli[i] /\ r[i] \in Int
    OBVIOUS
  <2>1. r[i] = x % moduli[i] /\ moduli[i] \in Nat /\ moduli[i] > 0
    BY <1>1
  <2>2. x % moduli[i] \in 0 .. moduli[i] - 1
    BY Zenon, <1>4, <2>1, ResidueIsSame
  <2> QED BY <2>1, <2>2
<1> HIDE DEF c
<1>6. r \in Seq(Int) /\ Len(r) = n
  <2>1. r \in [1 .. n -> Int]
    BY <1>5
  <2> QED BY <1>1, <2>1
<1>7. /\ Len(s) = n + 1 /\ s[n + 1] = c /\ \A i \in 1 .. n : s[i] = r[i]
      /\ SubSeq(s, 1, n) = r
  BY <1>1, <1>4, <1>6
<1>8. \A i \in 1 .. Len(q) : s[i] = x % q[i]
  <2> SUFFICES ASSUME NEW i \in 1 .. Len(q) PROVE s[i] = x % q[i]
    BY Zenon
  <2>1. i \in 1 .. n \/ i = n + 1
    BY <1>1, <1>2
  <2>2. CASE i \in 1 .. n
    BY <1>2, <1>5, <1>7, <2>2
  <2>3. CASE i = n + 1
    BY <1>2, <1>7, <2>3 DEF c
  <2> QED BY <2>1, <2>2, <2>3
<1>9. Product(q) = M * m
  BY <1>1, <1>3, AppendedProduct
<1> HIDE DEF q, s, M
<1>10. Decode(NewBasis(q), s) = x % Product(q)
  BY Zenon, <1>4, <1>8, DecodeOfEncode DEF q
<1>11. x % (M * m) = x
  <2> DEFINE P == M * m
  <2>1. P \in Nat /\ P >= M
    BY <1>1, <1>3
  <2> HIDE DEF P
  <2>2. x \in 0 .. M - 1
    BY DEF M
  <2>3. x % P = x
    <3>1. x \in 0 .. P - 1
      BY <1>1, <2>1, <2>2
    <3> QED BY <2>1, <3>1, SmallResidue
  <2> QED BY <2>3 DEF P
<1> QED BY <1>4, <1>7, <1>9, <1>10, <1>11 DEF Promoted, Demoted, q, s, c

\* The residues of a register are those of the number they decode to.
LEMMA RegisterIs ==
  ASSUME BasesLeaveRoom, NEW moduli \in Bases, basis = NewBasis(moduli),
         NEW s, NEW y, Tracked(s, y)
  PROVE  LET x == Decode(basis, s.residues)
         IN  /\ x \in 0 .. Product(moduli) - 1
             /\ s.residues = [i \in 1 .. Len(moduli) |-> x % moduli[i]]
             /\ Numbered(moduli, x, s.residues)
<1> DEFINE M == Product(moduli)
           n == Len(moduli)
           r == s.residues
           x == Decode(basis, r)
<1>1. /\ Roomy(moduli) /\ Gears(basis) = 1 .. n /\ basis.moduli = moduli
      /\ M \in Nat /\ M > 0
  BY BasisIs
<1>2. /\ moduli \in Seq(Nat \ {0}) /\ n \in Nat /\ PairwiseApart(moduli)
      /\ \A i \in 1 .. n : moduli[i] \in Nat /\ moduli[i] > 0 /\ moduli[i] < Word
  BY <1>1, RoomyIs
<1>3. y \in Int /\ r = [i \in 1 .. n |-> y % moduli[i]]
  BY <1>1 DEF Tracked, Encode
<1>4. x = y % M
  <2>1. \A i \in 1 .. n : r[i] = y % moduli[i]
    BY <1>3
  <2> HIDE DEF r
  <2> QED BY <1>1, <1>3, <2>1, DecodeOfEncode
<1> HIDE DEF M, x, r
<1>5. x \in 0 .. M - 1 /\ x \in Nat /\ Same(x, y, M)
  <2>1. y % M \in 0 .. M - 1 /\ Same(y % M, y, M)
    BY <1>1, <1>3, ResidueIsSame
  <2> QED BY <1>1, <1>4, <2>1
<1>6. ASSUME NEW i \in 1 .. n PROVE y % moduli[i] = x % moduli[i]
  <2> DEFINE m == moduli[i]
  <2>1. m \in Nat /\ m > 0
    BY <1>2
  <2>2. Divides(m, M)
    <3>1. PICK h : IsCofactor(h, moduli, i)
      BY <1>2, CofactorExists
    <3>2. h \in Int /\ M = m * h
      BY <3>1 DEF IsCofactor, M
    <3> QED BY <3>2, Zenon DEF Divides
  <2> HIDE DEF m
  <2>3. Same(y % M, y, m)
    BY <1>1, <1>3, <2>1, <2>2, SameModulo
  <2>4. Same(x, y, m)
    BY <1>4, <2>3
  <2>5. x % m = y % m
    <3>1. x \in Int
      BY <1>5
    <3> QED BY Zenon, <1>3, <2>1, <2>4, <3>1, SameResidue
  <2> QED BY <2>5 DEF m
<1>7. r = [i \in 1 .. n |-> x % moduli[i]]
  BY <1>3, <1>6
<1>8. Numbered(moduli, x, r)
  BY <1>2, <1>5, <1>7 DEF Numbered
<1> QED BY <1>5, <1>7, <1>8 DEF M, x, r

\* What the invariant says of the readings
LEMMA ReadingsOfRegister ==
  ASSUME BasesLeaveRoom, ExtensionsLeaveRoom, StackInv
  PROVE  ReadingsAgree
<1> SUFFICES ASSUME NEW g \in Registers
             PROVE  LET p == basis.moduli
                        s == stack[g].residues
                        x == Decode(basis, s)
                        d == GarnerDecompose(p, s)
                    IN  /\ \A i \in DOMAIN p : d[i] \in 0 .. p[i] - 1
                        /\ Reconstruct(p, d) = x
                        /\ GarnerDecomposeCt(p, s) = d
                        /\ Len(p) = 2 =>
                             x = s[1] + p[1] * KEliminate(s[1], s[2], p[1], p[2])
                        /\ \A q \in Projections :
                             basis.capacity >= q =>
                               /\ ToQ(basis, s, q, TRUE) = value[g] % q
                               /\ ToQ(basis, s, q, FALSE) = x % q
                               /\ \A c \in 0 .. q - 1, centered \in BOOLEAN :
                                    ToQ(basis, FromQ(basis, c, q, centered), q, centered) = c
                        /\ \A m \in NewModuli :
                             IsBasis(Append(p, m)) =>
                               \E claimed \in 0 .. m - 1 :
                                 /\ \A other \in 0 .. m - 1 :
                                      Promotes(basis, s, m, other) <=> other = claimed
                                 /\ Decode(Extend(basis, m), Promoted(s, claimed)) = x
                                 /\ Demoted(Promoted(s, claimed), Len(p)) = s
  BY Zenon DEF ReadingsAgree
<1>1. PICK moduli \in Bases : basis = NewBasis(moduli)
  BY DEF StackInv
<1>2. Tracked(stack[g], value[g])
  BY DEF StackInv
<1> DEFINE s == stack[g].residues
           x == Decode(basis, s)
           y == value[g]
           n == Len(moduli)
           M == Product(moduli)
           d == GarnerDecompose(moduli, s)
<1>3. /\ Roomy(moduli) /\ basis.moduli = moduli /\ basis.capacity = M /\ M \in Nat /\ M > 0
      /\ DecodeCentered(basis, s) = y
  BY <1>1, <1>2, BasisIs, TrackedIsExact
<1>4. /\ x \in 0 .. M - 1 /\ s = [i \in 1 .. n |-> x % moduli[i]] /\ Numbered(moduli, x, s)
  BY <1>1, <1>2, RegisterIs
<1>5. /\ moduli \in Seq(Nat \ {0}) /\ n \in Nat /\ DOMAIN moduli = 1 .. n
      /\ \A i \in 1 .. n : moduli[i] \in Nat /\ moduli[i] > 0 /\ moduli[i] < Word
      /\ PairwiseApart(moduli)
  BY <1>3, RoomyIs
<1> HIDE DEF s, x, y, M, d
<1>6. x \in Nat /\ x < M
  BY <1>3, <1>4
<1>7. d = FirstDigits(moduli, x, n) /\ GarnerDecomposeCt(moduli, s) = d
  BY <1>4, DigitsAre DEF d
<1>8. \A i \in 1 .. n : d[i] \in 0 .. moduli[i] - 1
  <2> SUFFICES ASSUME NEW i \in 1 .. n PROVE d[i] \in 0 .. moduli[i] - 1
    OBVIOUS
  <2> DEFINE l == Lower(moduli, i - 1)
             e == x \div l
             m == moduli[i]
  <2>1. l \in Nat /\ l > 0 /\ m \in Nat /\ m > 0
    <3>1. i - 1 \in 0 .. n
      BY <1>5
    <3> QED BY <1>5, <3>1, LowerIs
  <2>2. d[i] = e % m
    BY <1>7 DEF FirstDigits, Mixed
  <2> HIDE DEF l, m
  <2>3. e \in Int
    BY <1>6, <2>1, Division
  <2> HIDE DEF e
  <2>4. e % m \in 0 .. m - 1
    BY Zenon, <2>1, <2>3, ResidueIsSame
  <2> QED BY <2>2, <2>4 DEF m
<1>9. Reconstruct(moduli, d) = x
  BY <1>4, <1>6, <1>7, ReconstructIs DEF M
<1>10. ASSUME n = 2
       PROVE  x = s[1] + moduli[1] * KEliminate(s[1], s[2], moduli[1], moduli[2])
  <2> DEFINE m == moduli[1]
             a == moduli[2]
             q == x \div m
  <2>1. 1 \in 1 .. n /\ 2 \in 1 .. n /\ 1 - 1 = 0 /\ 2 - 1 = 1
    BY <1>10
  <2>2. m \in Nat /\ m > 0 /\ a \in Nat /\ a > 0 /\ Apart(m, a) /\ s[1] = x % m /\ s[2] = x % a
    BY <1>4, <1>5, <2>1 DEF PairwiseApart
  <2>3. M = m * a
    <3>1. /\ Lower(moduli, 0) = 1 /\ Lower(moduli, 2) = M
          /\ \A k \in 1 .. n : Lower(moduli, k) = Lower(moduli, k - 1) * moduli[k]
      BY Zenon, <1>5, <1>10, LowerIs DEF M
    <3>2. Lower(moduli, 1) = 1 * m /\ Lower(moduli, 2) = Lower(moduli, 1) * a
      BY <2>1, <3>1
    <3> QED BY <2>2, <3>1, <3>2
  <2> HIDE DEF m, a
  <2>4. KEliminate(s[1], s[2], m, a) = q % a
    BY <1>6, <2>2, KEliminateIs
  <2>5. q \in Int /\ x % m \in 0 .. m - 1 /\ x = m * q + (x % m)
    BY <1>6, <2>2, Division
  <2> HIDE DEF q
  <2>6. q \in 0 .. a - 1
    <3>1. q >= 0
      <4>1. q <= -1 => m * q <= - m
        BY <2>2, <2>5
      <4>2. m * q \in Int
        BY <2>2, <2>5
      <4> QED BY <1>6, <2>2, <2>5, <4>1, <4>2
    <3>2. q < a
      <4>1. q >= a => m * q >= m * a
        BY <2>2, <2>5
      <4>2. m * q \in Int /\ m * a \in Int
        BY <2>2, <2>5
      <4> QED BY <1>6, <2>2, <2>3, <2>5, <4>1, <4>2
    <3> QED BY <2>2, <2>5, <3>1, <3>2
  <2>7. q % a = q
    BY <2>2, <2>6, SmallResidue
  <2>8. x = s[1] + m * q
    <3>1. m * q \in Int
      BY <2>2, <2>5
    <3> QED BY <2>2, <2>5, <3>1
  <2> QED BY <2>4, <2>7, <2>8 DEF m, a
<1>11. ASSUME NEW q \in Projections, basis.capacity >= q
       PROVE  /\ ToQ(basis, s, q, TRUE) = y % q
              /\ ToQ(basis, s, q, FALSE) = x % q
              /\ \A c \in 0 .. q - 1, centered \in BOOLEAN :
                   ToQ(basis, FromQ(basis, c, q, centered), q, centered) = c
  <2>1. ToQ(basis, s, q, TRUE) = y % q /\ ToQ(basis, s, q, FALSE) = x % q
    BY <1>3 DEF ToQ, x
  <2>2. q \in Nat /\ q >= 2 /\ q <= Product(moduli)
    BY <1>3, <1>11, GearStackAssumption DEF M
  <2>3. \A c \in 0 .. q - 1, centered \in BOOLEAN :
          ToQ(basis, FromQ(basis, c, q, centered), q, centered) = c
    BY <1>1, <1>3, <2>2, RoundTripIs
  <2> QED BY Zenon, <2>1, <2>3
<1>12. ASSUME NEW m \in NewModuli, IsBasis(Append(moduli, m))
       PROVE  \E claimed \in 0 .. m - 1 :
                /\ \A other \in 0 .. m - 1 : Promotes(basis, s, m, other) <=> other = claimed
                /\ Decode(Extend(basis, m), Promoted(s, claimed)) = x
                /\ Demoted(Promoted(s, claimed), n) = s
  <2>1. m \in Nat
    BY GearStackAssumption
  <2>2. Roomy(Append(moduli, m))
    <3>1. Append(moduli, m) \in Seq(Nat)
      BY <1>5, <2>1
    <3> QED BY <1>12, <3>1 DEF Roomy, ExtensionsLeaveRoom
  <2>3. x \in 0 .. Product(moduli) - 1
    BY <1>4 DEF M
  <2>4. /\ x % m \in 0 .. m - 1
        /\ Decode(NewBasis(Append(moduli, m)), Promoted(s, x % m)) = x
        /\ Demoted(Promoted(s, x % m), n) = s
    BY <1>3, <1>4, <2>1, <2>2, <2>3, PromotionIs
  <2>5. \A other \in 0 .. m - 1 : Promotes(basis, s, m, other) <=> other = x % m
    BY DEF Promotes, x
  <2>6. Extend(basis, m) = NewBasis(Append(moduli, m))
    BY <1>3 DEF Extend
  <2> QED BY <2>4, <2>5, <2>6
<1> QED BY Zenon, <1>3, <1>5, <1>7, <1>8, <1>9, <1>10, <1>11, <1>12 DEF s, x, y, d

\* The other ways to read residues agree with the Chinese remainder theorem,
\* for every basis whose words leave a bit and every value: Garner's digits by
\* plain and by constant-time arithmetic, the two-gear elimination, projection
\* in both conventions, and promotion followed by demotion (garner.rs,
\* decode_to_q.rs, basis.rs promote, demote).
THEOREM ReadingsStayInAgreement ==
  BasesLeaveRoom /\ ExtensionsLeaveRoom => (StackSpec => []ReadingsAgree)
<1> SUFFICES ASSUME BasesLeaveRoom, ExtensionsLeaveRoom
             PROVE  StackSpec => []ReadingsAgree
  OBVIOUS
<1>1. StackInit => StackInv
  BY StackInitial
<1>2. StackInv /\ [StackNext]_stackVars => StackInv'
  BY StackStepKeeps
<1>3. StackInv => ReadingsAgree
  BY ReadingsOfRegister
<1> QED BY <1>1, <1>2, <1>3, PTL DEF StackSpec

=============================================================================
