------------------------ MODULE MultiplicationProofs ------------------------
(***************************************************************************)
(* Proofs about ExactMultiplication: the tensors and decryptions are those *)
(* of the very integers, folding adds the noise of the key and nothing     *)
(* else, and the bounds of the certified evaluator cover all noise.        *)
(*                                                                         *)
(* A ring element in residues is handled through an integer polynomial it  *)
(* is the residues of (InRing); a ciphertext through the polynomial that   *)
(* its phase is the residues of, its reading; a reading through the        *)
(* equation t * reading = Q * message + error of every coefficient.        *)
(***************************************************************************)
EXTENDS ArithmeticProofs, ExactMultiplication

-----------------------------------------------------------------------------
(* Ring elements in residues, and the polynomials that they are residues of. *)

LEMMA ComputedIs ==
  ASSUME NEW f
  PROVE  Computed(f) = f
  BY DEF Computed

\* The degree and its powers
LEMMA DegreeIs == /\ N \in Nat /\ N >= 2 /\ N % 2 = 0
                  /\ N \div 2 \in Nat /\ N = 2 * (N \div 2)
<1>1. PICK e \in 1 .. 15 : N = TwoTo[e]
  BY ExactMultiplicationAssumption
<1>2. e - 1 \in Nat /\ e = (e - 1) + 1
  OBVIOUS
<1>3. TwoTo[e] = 2 * TwoTo[e - 1] /\ TwoTo[e - 1] \in Nat \ {0}
  BY <1>2, TwoToIs
<1> DEFINE h == TwoTo[e - 1]
<1>4. N = 2 * h /\ h \in Nat /\ h > 0
  BY <1>1, <1>3
<1> HIDE DEF h
<1> QED BY <1>4

LEMMA PowersAre == /\ IsFiniteSet(Powers) /\ Cardinality(Powers) = N
                   /\ 0 \in Powers /\ Powers \subseteq Nat
<1>1. N \in Nat /\ N >= 2
  BY DegreeIs
<1>2. IsFiniteSet(0 .. N - 1) /\ Cardinality(0 .. N - 1) = N
  <2>1. 0 \in Int /\ N - 1 \in Int
    BY <1>1
  <2>2. /\ IsFiniteSet(0 .. N - 1)
        /\ Cardinality(0 .. N - 1) = IF 0 > N - 1 THEN 0 ELSE ((N - 1) - 0) + 1
    BY <2>1, FS_Interval
  <2> QED BY <1>1, <2>2
<1> QED BY <1>1, <1>2 DEF Powers

\* Sums and negatives of polynomials are polynomials.
LEMMA PlusIs ==
  ASSUME NEW a \in Polynomials, NEW b \in Polynomials
  PROVE  /\ Plus(a, b) \in Polynomials /\ \A k \in Powers : Plus(a, b)[k] = a[k] + b[k]
<1> DEFINE f == [k \in Powers |-> a[k] + b[k]]
<1>1. f \in Polynomials /\ \A k \in Powers : f[k] = a[k] + b[k]
  BY DEF Polynomials
<1>3. Plus(a, b) = Computed(f)
  BY DEF Plus
<1> HIDE DEF f
<1>4. Computed(f) = f
  BY ComputedIs
<1> QED BY <1>1, <1>3, <1>4

LEMMA MinusIs ==
  ASSUME NEW a \in Polynomials
  PROVE  /\ Minus(a) \in Polynomials /\ \A k \in Powers : Minus(a)[k] = - a[k]
<1> DEFINE f == [k \in Powers |-> - a[k]]
<1>1. f \in Polynomials /\ \A k \in Powers : f[k] = - a[k]
  BY DEF Polynomials
<1>3. Minus(a) = Computed(f)
  BY DEF Minus
<1> HIDE DEF f
<1>4. Computed(f) = f
  BY ComputedIs
<1> QED BY <1>1, <1>3, <1>4

\* Reduced, a polynomial has residues as its coefficients.
LEMMA ModIs ==
  ASSUME NEW a \in Polynomials, NEW m \in Nat, m > 0
  PROVE  /\ Mod(a, m) = [k \in Powers |-> a[k] % m]
         /\ Mod(a, m) \in [Powers -> 0 .. m - 1] /\ Mod(a, m) \in Polynomials
<1> DEFINE f == [k \in Powers |-> a[k] % m]
<1>1. f \in [Powers -> 0 .. m - 1]
  <2>1. ASSUME NEW k \in Powers PROVE a[k] % m \in 0 .. m - 1
    <3>1. a[k] \in Int
      BY DEF Polynomials
    <3> QED BY <3>1, Division
  <2> QED BY <2>1
<1>2. f \in Polynomials
  BY <1>1 DEF Polynomials
<1>3. Mod(a, m) = Computed(f)
  BY DEF Mod
<1>4. Computed(f) = f
  <2> HIDE DEF f
  <2> QED BY ComputedIs
<1> QED BY <1>1, <1>2, <1>3, <1>4

\* What the coefficients make at k
NegacyclicTerms(a, b, k) ==
  [i \in Powers |-> IF i <= k THEN a[i] * b[k - i] ELSE -(a[i] * b[N + k - i])]

LEMMA TermsAreInt ==
  ASSUME NEW a \in Polynomials, NEW b \in Polynomials, NEW k \in Powers
  PROVE  NegacyclicTerms(a, b, k) \in [Powers -> Int]
<1>1. N \in Nat
  BY DegreeIs
<1>2. ASSUME NEW i \in Powers
      PROVE  (IF i <= k THEN a[i] * b[k - i] ELSE -(a[i] * b[N + k - i])) \in Int
  <2>1. i \in Int /\ k \in Int /\ a[i] \in Int
    BY <1>1 DEF Powers, Polynomials
  <2>2. CASE i <= k
    <3>1. k - i \in Powers
      BY <1>1, <2>2 DEF Powers
    <3>2. b[k - i] \in Int
      BY <3>1 DEF Polynomials
    <3> QED BY <2>1, <2>2, <3>2
  <2>3. CASE ~ i <= k
    <3>1. N + k - i \in Powers
      BY <1>1, <2>3 DEF Powers
    <3>2. b[N + k - i] \in Int
      BY <3>1 DEF Polynomials
    <3> QED BY <2>1, <2>3, <3>2
  <2> QED BY <2>2, <2>3
<1> QED BY <1>2 DEF NegacyclicTerms

\* A product of polynomials is one, with these totals as its coefficients.
LEMMA NegacyclicIs ==
  ASSUME NEW a \in Polynomials, NEW b \in Polynomials
  PROVE  /\ Negacyclic(a, b) \in Polynomials
         /\ \A k \in Powers : Negacyclic(a, b)[k] = Total(NegacyclicTerms(a, b, k))
<1> DEFINE f == [k \in Powers |-> Total(NegacyclicTerms(a, b, k))]
<1>1. \A k \in Powers : Total(NegacyclicTerms(a, b, k)) \in Int
  BY Zenon, PowersAre, TermsAreInt, TotalIsInt
<1>2. f \in Polynomials
  BY <1>1 DEF Polynomials
<1>3. Negacyclic(a, b) = Computed(f)
  BY Zenon DEF Negacyclic, NegacyclicTerms, SumOver, Total
<1>4. Computed(f) = f
  <2> HIDE DEF f
  <2> QED BY ComputedIs
<1> QED BY <1>2, <1>3, <1>4

\* Polynomials with the same residues modulo m
Agree(a, b, m) == \A k \in Powers : Same(a[k], b[k], m)

LEMMA SameNegative ==
  ASSUME NEW m \in Int, NEW x \in Int, NEW y \in Int, Same(x, y, m)
  PROVE  Same(-x, -y, m)
<1>1. PICK k \in Int : x = y + m * k
  BY DEF Same
<1>2. -x = -y + m * (-k) /\ -k \in Int
  BY <1>1
<1> QED BY <1>2, Zenon DEF Same

\* Products, sums and residues of polynomials that agree modulo m agree.
LEMMA NegacyclicsAgree ==
  ASSUME NEW a \in Polynomials, NEW b \in Polynomials, NEW c \in Polynomials,
         NEW d \in Polynomials, NEW m \in Int, Agree(a, c, m), Agree(b, d, m)
  PROVE  Agree(Negacyclic(a, b), Negacyclic(c, d), m)
<1> SUFFICES ASSUME NEW k \in Powers
             PROVE  Same(Negacyclic(a, b)[k], Negacyclic(c, d)[k], m)
  BY DEF Agree
<1> DEFINE f == NegacyclicTerms(a, b, k)
           g == NegacyclicTerms(c, d, k)
<1>1. f \in [Powers -> Int] /\ g \in [Powers -> Int]
  BY TermsAreInt
<1>2. ASSUME NEW i \in Powers PROVE Same(f[i], g[i], m)
  <2>1. N \in Nat
    BY DegreeIs
  <2>2. a[i] \in Int /\ c[i] \in Int /\ Same(a[i], c[i], m)
    BY DEF Polynomials, Agree
  <2>3. CASE i <= k
    <3>1. k - i \in Powers
      BY <2>1, <2>3 DEF Powers
    <3>2. b[k - i] \in Int /\ d[k - i] \in Int /\ Same(b[k - i], d[k - i], m)
      BY <3>1 DEF Polynomials, Agree
    <3>3. Same(a[i] * b[k - i], c[i] * d[k - i], m)
      BY Zenon, <2>2, <3>2, SameProduct
    <3> QED BY <2>3, <3>3 DEF NegacyclicTerms
  <2>4. CASE ~ i <= k
    <3> DEFINE j == N + k - i
    <3>1. j \in Powers
      BY <2>1, <2>4 DEF Powers
    <3>2. b[j] \in Int /\ d[j] \in Int /\ Same(b[j], d[j], m)
      BY <3>1 DEF Polynomials, Agree
    <3>3. f[i] = -(a[i] * b[j]) /\ g[i] = -(c[i] * d[j])
      BY <2>4 DEF NegacyclicTerms
    <3> HIDE DEF j
    <3>4. Same(a[i] * b[j], c[i] * d[j], m)
      BY Zenon, <2>2, <3>2, SameProduct
    <3>5. a[i] * b[j] \in Int /\ c[i] * d[j] \in Int
      BY <2>2, <3>2
    <3>6. Same(-(a[i] * b[j]), -(c[i] * d[j]), m)
      BY <3>4, <3>5, SameNegative
    <3> HIDE DEF f, g
    <3> QED BY <3>3, <3>6
  <2> QED BY <2>3, <2>4
<1>3. IsFiniteSet(Powers)
  BY PowersAre
<1> HIDE DEF f, g
<1>4. Same(Total(f), Total(g), m)
  BY <1>1, <1>2, <1>3, TotalsAgree
<1>5. Negacyclic(a, b)[k] = Total(f) /\ Negacyclic(c, d)[k] = Total(g)
  BY NegacyclicIs DEF f, g
<1> QED BY <1>4, <1>5

LEMMA SumsAgree ==
  ASSUME NEW a \in Polynomials, NEW b \in Polynomials, NEW c \in Polynomials,
         NEW d \in Polynomials, NEW m \in Int, Agree(a, c, m), Agree(b, d, m)
  PROVE  Agree(Plus(a, b), Plus(c, d), m)
<1> SUFFICES ASSUME NEW k \in Powers PROVE Same(Plus(a, b)[k], Plus(c, d)[k], m)
  BY DEF Agree
<1>1. /\ a[k] \in Int /\ c[k] \in Int /\ Same(a[k], c[k], m)
      /\ b[k] \in Int /\ d[k] \in Int /\ Same(b[k], d[k], m)
  BY DEF Polynomials, Agree
<1>2. Same(a[k] + b[k], c[k] + d[k], m)
  BY Zenon, <1>1, SameSum
<1> QED BY <1>2, PlusIs

LEMMA ModAgrees ==
  ASSUME NEW a \in Polynomials, NEW m \in Nat, m > 0
  PROVE  Agree(Mod(a, m), a, m)
<1> SUFFICES ASSUME NEW k \in Powers PROVE Same(Mod(a, m)[k], a[k], m)
  BY DEF Agree
<1>1. a[k] \in Int
  BY DEF Polynomials
<1>2. Same(a[k] % m, a[k], m)
  BY <1>1, ResidueIsSame
<1> QED BY <1>2, ModIs

LEMMA ModsAreEqual ==
  ASSUME NEW a \in Polynomials, NEW b \in Polynomials, NEW m \in Nat, m > 0, Agree(a, b, m)
  PROVE  Mod(a, m) = Mod(b, m)
<1>1. ASSUME NEW k \in Powers PROVE a[k] % m = b[k] % m
  <2>1. a[k] \in Int /\ b[k] \in Int /\ Same(a[k], b[k], m)
    BY DEF Polynomials, Agree
  <2> QED BY <2>1, SameResidue
<1> QED BY <1>1, ModIs

\* A ring element modulo the moduli
IsElement(e, moduli) ==
  /\ e \in [1 .. Len(moduli) -> Polynomials]
  /\ \A i \in 1 .. Len(moduli) : e[i] \in [Powers -> 0 .. moduli[i] - 1]

\* Any residues, reduced lane by lane
LEMMA LanesAre ==
  ASSUME NEW moduli \in Seq(Nat \ {0}), NEW a \in [1 .. Len(moduli) -> Polynomials]
  PROVE  IsElement([i \in DOMAIN moduli |-> Mod(a[i], moduli[i])], moduli)
<1>1. ASSUME NEW i \in 1 .. Len(moduli)
      PROVE  Mod(a[i], moduli[i]) \in [Powers -> 0 .. moduli[i] - 1]
             /\ Mod(a[i], moduli[i]) \in Polynomials
  <2>1. moduli[i] \in Nat /\ moduli[i] > 0 /\ a[i] \in Polynomials
    OBVIOUS
  <2> QED BY Zenon, <2>1, ModIs
<1>2. DOMAIN moduli = 1 .. Len(moduli)
  OBVIOUS
<1> QED BY <1>1, <1>2 DEF IsElement

\* So the operations of the ring give elements.
LEMMA InRingIs ==
  ASSUME NEW moduli \in Seq(Nat \ {0}), NEW a \in Polynomials
  PROVE  /\ InRing(moduli, a) = [i \in DOMAIN moduli |-> Mod(a, moduli[i])]
         /\ IsElement(InRing(moduli, a), moduli)
<1>1. InRing(moduli, a) = [i \in DOMAIN moduli |-> Mod(a, moduli[i])]
  BY ComputedIs, Zenon DEF InRing
<1> DEFINE b == [i \in 1 .. Len(moduli) |-> a]
<1>2. b \in [1 .. Len(moduli) -> Polynomials] /\ DOMAIN moduli = 1 .. Len(moduli)
  OBVIOUS
<1>3. [i \in DOMAIN moduli |-> Mod(b[i], moduli[i])] = [i \in DOMAIN moduli |-> Mod(a, moduli[i])]
  BY <1>2
<1> HIDE DEF b
<1>4. IsElement([i \in DOMAIN moduli |-> Mod(b[i], moduli[i])], moduli)
  BY Zenon, <1>2, LanesAre
<1> QED BY <1>1, <1>3, <1>4

LEMMA RingMulIs ==
  ASSUME NEW moduli \in Seq(Nat \ {0}), NEW a \in [1 .. Len(moduli) -> Polynomials],
         NEW b \in [1 .. Len(moduli) -> Polynomials]
  PROVE  /\ RingMul(moduli, a, b)
              = [i \in DOMAIN moduli |-> Mod(Negacyclic(a[i], b[i]), moduli[i])]
         /\ IsElement(RingMul(moduli, a, b), moduli)
<1>1. RingMul(moduli, a, b) = [i \in DOMAIN moduli |-> Mod(Negacyclic(a[i], b[i]), moduli[i])]
  BY ComputedIs, Zenon DEF RingMul
<1> DEFINE c == [i \in 1 .. Len(moduli) |-> Negacyclic(a[i], b[i])]
<1>2. c \in [1 .. Len(moduli) -> Polynomials] /\ DOMAIN moduli = 1 .. Len(moduli)
  BY NegacyclicIs
<1>3. [i \in DOMAIN moduli |-> Mod(c[i], moduli[i])]
        = [i \in DOMAIN moduli |-> Mod(Negacyclic(a[i], b[i]), moduli[i])]
  BY <1>2
<1> HIDE DEF c
<1>4. IsElement([i \in DOMAIN moduli |-> Mod(c[i], moduli[i])], moduli)
  BY Zenon, <1>2, LanesAre
<1> QED BY <1>1, <1>3, <1>4

LEMMA RingAddIs ==
  ASSUME NEW moduli \in Seq(Nat \ {0}), NEW a \in [1 .. Len(moduli) -> Polynomials],
         NEW b \in [1 .. Len(moduli) -> Polynomials]
  PROVE  /\ RingAdd(moduli, a, b) = [i \in DOMAIN moduli |-> Mod(Plus(a[i], b[i]), moduli[i])]
         /\ IsElement(RingAdd(moduli, a, b), moduli)
<1>1. RingAdd(moduli, a, b) = [i \in DOMAIN moduli |-> Mod(Plus(a[i], b[i]), moduli[i])]
  BY ComputedIs, Zenon DEF RingAdd
<1> DEFINE c == [i \in 1 .. Len(moduli) |-> Plus(a[i], b[i])]
<1>2. c \in [1 .. Len(moduli) -> Polynomials] /\ DOMAIN moduli = 1 .. Len(moduli)
  BY PlusIs
<1>3. [i \in DOMAIN moduli |-> Mod(c[i], moduli[i])]
        = [i \in DOMAIN moduli |-> Mod(Plus(a[i], b[i]), moduli[i])]
  BY <1>2
<1> HIDE DEF c
<1>4. IsElement([i \in DOMAIN moduli |-> Mod(c[i], moduli[i])], moduli)
  BY Zenon, <1>2, LanesAre
<1> QED BY <1>1, <1>3, <1>4

LEMMA RingNegIs ==
  ASSUME NEW moduli \in Seq(Nat \ {0}), NEW a \in [1 .. Len(moduli) -> Polynomials]
  PROVE  /\ RingNeg(moduli, a) = [i \in DOMAIN moduli |-> Mod(Minus(a[i]), moduli[i])]
         /\ IsElement(RingNeg(moduli, a), moduli)
<1>1. RingNeg(moduli, a) = [i \in DOMAIN moduli |-> Mod(Minus(a[i]), moduli[i])]
  BY ComputedIs, Zenon DEF RingNeg
<1> DEFINE c == [i \in 1 .. Len(moduli) |-> Minus(a[i])]
<1>2. c \in [1 .. Len(moduli) -> Polynomials] /\ DOMAIN moduli = 1 .. Len(moduli)
  BY MinusIs
<1>3. [i \in DOMAIN moduli |-> Mod(c[i], moduli[i])]
        = [i \in DOMAIN moduli |-> Mod(Minus(a[i]), moduli[i])]
  BY <1>2
<1> HIDE DEF c
<1>4. IsElement([i \in DOMAIN moduli |-> Mod(c[i], moduli[i])], moduli)
  BY Zenon, <1>2, LanesAre
<1> QED BY <1>1, <1>3, <1>4

\* The ring computes on residues what it would on the polynomials.
LEMMA RingMulOf ==
  ASSUME NEW moduli \in Seq(Nat \ {0}), NEW a \in Polynomials, NEW b \in Polynomials
  PROVE  RingMul(moduli, InRing(moduli, a), InRing(moduli, b))
           = InRing(moduli, Negacyclic(a, b))
<1> DEFINE x == InRing(moduli, a)
           y == InRing(moduli, b)
<1>1. /\ x \in [1 .. Len(moduli) -> Polynomials] /\ y \in [1 .. Len(moduli) -> Polynomials]
      /\ Negacyclic(a, b) \in Polynomials
  BY InRingIs, NegacyclicIs DEF IsElement
<1>2. ASSUME NEW i \in DOMAIN moduli
      PROVE  Mod(Negacyclic(x[i], y[i]), moduli[i]) = Mod(Negacyclic(a, b), moduli[i])
  <2> DEFINE m == moduli[i]
  <2>1. m \in Nat /\ m > 0
    OBVIOUS
  <2>2. x[i] = Mod(a, m) /\ y[i] = Mod(b, m)
    BY InRingIs
  <2> HIDE DEF m, x, y
  <2>3. /\ Mod(a, m) \in Polynomials /\ Mod(b, m) \in Polynomials
        /\ Agree(Mod(a, m), a, m) /\ Agree(Mod(b, m), b, m)
    BY <2>1, ModIs, ModAgrees
  <2>4. Agree(Negacyclic(Mod(a, m), Mod(b, m)), Negacyclic(a, b), m)
    BY <2>1, <2>3, NegacyclicsAgree
  <2>5. Negacyclic(Mod(a, m), Mod(b, m)) \in Polynomials
    BY <2>3, NegacyclicIs
  <2>6. Mod(Negacyclic(Mod(a, m), Mod(b, m)), m) = Mod(Negacyclic(a, b), m)
    BY <1>1, <2>1, <2>4, <2>5, ModsAreEqual
  <2> QED BY <2>2, <2>6 DEF m
<1>3. RingMul(moduli, x, y) = [i \in DOMAIN moduli |-> Mod(Negacyclic(x[i], y[i]), moduli[i])]
  <2> HIDE DEF x, y
  <2> QED BY <1>1, RingMulIs
<1>4. InRing(moduli, Negacyclic(a, b)) = [i \in DOMAIN moduli |-> Mod(Negacyclic(a, b), moduli[i])]
  BY <1>1, InRingIs
<1> HIDE DEF x, y
<1>5. RingMul(moduli, x, y) = InRing(moduli, Negacyclic(a, b))
  BY <1>2, <1>3, <1>4
<1> QED BY <1>5 DEF x, y

LEMMA RingAddOf ==
  ASSUME NEW moduli \in Seq(Nat \ {0}), NEW a \in Polynomials, NEW b \in Polynomials
  PROVE  RingAdd(moduli, InRing(moduli, a), InRing(moduli, b)) = InRing(moduli, Plus(a, b))
<1> DEFINE x == InRing(moduli, a)
           y == InRing(moduli, b)
<1>1. /\ x \in [1 .. Len(moduli) -> Polynomials] /\ y \in [1 .. Len(moduli) -> Polynomials]
      /\ Plus(a, b) \in Polynomials
  BY InRingIs, PlusIs DEF IsElement
<1>2. ASSUME NEW i \in DOMAIN moduli
      PROVE  Mod(Plus(x[i], y[i]), moduli[i]) = Mod(Plus(a, b), moduli[i])
  <2> DEFINE m == moduli[i]
  <2>1. m \in Nat /\ m > 0
    OBVIOUS
  <2>2. x[i] = Mod(a, m) /\ y[i] = Mod(b, m)
    BY InRingIs
  <2> HIDE DEF m, x, y
  <2>3. /\ Mod(a, m) \in Polynomials /\ Mod(b, m) \in Polynomials
        /\ Agree(Mod(a, m), a, m) /\ Agree(Mod(b, m), b, m)
    BY <2>1, ModIs, ModAgrees
  <2>4. Agree(Plus(Mod(a, m), Mod(b, m)), Plus(a, b), m)
    BY <2>1, <2>3, SumsAgree
  <2>5. Plus(Mod(a, m), Mod(b, m)) \in Polynomials
    BY <2>3, PlusIs
  <2>6. Mod(Plus(Mod(a, m), Mod(b, m)), m) = Mod(Plus(a, b), m)
    BY <1>1, <2>1, <2>4, <2>5, ModsAreEqual
  <2> QED BY <2>2, <2>6 DEF m
<1>3. RingAdd(moduli, x, y) = [i \in DOMAIN moduli |-> Mod(Plus(x[i], y[i]), moduli[i])]
  <2> HIDE DEF x, y
  <2> QED BY <1>1, RingAddIs
<1>4. InRing(moduli, Plus(a, b)) = [i \in DOMAIN moduli |-> Mod(Plus(a, b), moduli[i])]
  BY <1>1, InRingIs
<1> HIDE DEF x, y
<1>5. RingAdd(moduli, x, y) = InRing(moduli, Plus(a, b))
  BY <1>2, <1>3, <1>4
<1> QED BY <1>5 DEF x, y

\* Bounds of coefficients, and of products and sums
LEMMA ProductIsBounded ==
  ASSUME NEW u \in Int, NEW v \in Int, NEW x \in Nat, NEW y \in Nat,
         -x <= u, u <= x, -y <= v, v <= y
  PROVE  -(x * y) <= u * v /\ u * v <= x * y /\ x * y \in Nat
<1>1. /\ (x - u) * (y + v) >= 0 /\ (x + u) * (y - v) >= 0
      /\ (x - u) * (y - v) >= 0 /\ (x + u) * (y + v) >= 0
  <2>1. x - u \in Nat /\ x + u \in Nat /\ y - v \in Nat /\ y + v \in Nat
    OBVIOUS
  <2>2. \A a, b \in Nat : a * b >= 0
    OBVIOUS
  <2> QED BY <2>1, <2>2
<1>2. /\ (x - u) * (y + v) = x * y + x * v - u * y - u * v
      /\ (x + u) * (y - v) = x * y - x * v + u * y - u * v
      /\ (x - u) * (y - v) = x * y - x * v - u * y + u * v
      /\ (x + u) * (y + v) = x * y + x * v + u * y + u * v
  OBVIOUS
<1>3. x * y \in Nat
  OBVIOUS
<1> DEFINE xy == x * y
           uv == u * v
           xv == x * v
           uy == u * y
<1>4. xy \in Int /\ uv \in Int /\ xv \in Int /\ uy \in Int
  OBVIOUS
<1>5. /\ xy + xv - uy - uv >= 0 /\ xy - xv + uy - uv >= 0
      /\ xy - xv - uy + uv >= 0 /\ xy + xv + uy + uv >= 0
  BY <1>1, <1>2
<1> HIDE DEF xy, uv, xv, uy
<1>6. -xy <= uv /\ uv <= xy
  BY <1>4, <1>5
<1> QED BY <1>3, <1>6 DEF xy, uv

\* Coefficients at most c away from zero
Bounded(a, c) == \A k \in Powers : -c <= a[k] /\ a[k] <= c

LEMMA NegacyclicIsBounded ==
  ASSUME NEW a \in Polynomials, NEW b \in Polynomials, NEW x \in Nat, NEW y \in Nat,
         Bounded(a, x), Bounded(b, y)
  PROVE  Bounded(Negacyclic(a, b), (x * y) * N)
<1> SUFFICES ASSUME NEW k \in Powers
             PROVE  /\ -((x * y) * N) <= Negacyclic(a, b)[k]
                    /\ Negacyclic(a, b)[k] <= (x * y) * N
  BY DEF Bounded
<1> DEFINE f == NegacyclicTerms(a, b, k)
           c == x * y
<1>1. f \in [Powers -> Int] /\ c \in Nat
  BY TermsAreInt
<1>2. ASSUME NEW i \in Powers PROVE -c <= f[i] /\ f[i] <= c
  <2>1. N \in Nat
    BY DegreeIs
  <2>2. a[i] \in Int /\ -x <= a[i] /\ a[i] <= x
    BY DEF Polynomials, Bounded
  <2>3. \A j \in Powers : /\ -c <= a[i] * b[j] /\ a[i] * b[j] <= c
                          /\ a[i] * b[j] \in Int
    <3> SUFFICES ASSUME NEW j \in Powers
                 PROVE  -c <= a[i] * b[j] /\ a[i] * b[j] <= c /\ a[i] * b[j] \in Int
      OBVIOUS
    <3>1. b[j] \in Int /\ -y <= b[j] /\ b[j] <= y
      BY DEF Polynomials, Bounded
    <3> QED BY <2>2, <3>1, ProductIsBounded
  <2> HIDE DEF c
  <2>4. CASE i <= k
    <3>1. k - i \in Powers
      BY <2>1, <2>4 DEF Powers
    <3>2. f[i] = a[i] * b[k - i]
      BY <2>4 DEF NegacyclicTerms
    <3> QED BY <2>3, <3>1, <3>2
  <2>5. CASE ~ i <= k
    <3> DEFINE j == N + k - i
    <3>1. j \in Powers
      BY <2>1, <2>5 DEF Powers
    <3>2. f[i] = -(a[i] * b[j])
      BY <2>5 DEF NegacyclicTerms
    <3> HIDE DEF j, f
    <3>3. -c <= a[i] * b[j] /\ a[i] * b[j] <= c /\ a[i] * b[j] \in Int
      BY <2>3, <3>1
    <3> DEFINE w == a[i] * b[j]
    <3>4. -c <= w /\ w <= c /\ w \in Int /\ f[i] = -w
      BY <3>2, <3>3
    <3> HIDE DEF w
    <3> QED BY <1>1, <3>4
  <2> QED BY <2>4, <2>5
<1>3. IsFiniteSet(Powers) /\ Cardinality(Powers) = N
  BY PowersAre
<1>4. Negacyclic(a, b)[k] = Total(f)
  BY NegacyclicIs DEF f
<1> HIDE DEF f, c
<1>5. -(c * Cardinality(Powers)) <= Total(f) /\ Total(f) <= c * Cardinality(Powers)
  BY <1>1, <1>2, <1>3, TotalIsBounded
<1> QED BY <1>3, <1>4, <1>5 DEF c

LEMMA PlusIsBounded ==
  ASSUME NEW a \in Polynomials, NEW b \in Polynomials, NEW x \in Nat, NEW y \in Nat,
         Bounded(a, x), Bounded(b, y)
  PROVE  Bounded(Plus(a, b), x + y)
<1> SUFFICES ASSUME NEW k \in Powers
             PROVE  -(x + y) <= Plus(a, b)[k] /\ Plus(a, b)[k] <= x + y
  BY DEF Bounded
<1>1. /\ a[k] \in Int /\ -x <= a[k] /\ a[k] <= x
      /\ b[k] \in Int /\ -y <= b[k] /\ b[k] <= y
  BY DEF Polynomials, Bounded
<1>2. Plus(a, b)[k] = a[k] + b[k]
  BY PlusIs
<1> QED BY <1>1, <1>2

-----------------------------------------------------------------------------
(* The integers behind residues.                                            *)

\* The integer below the modulus with given residues
HasResidues(x, main, r) ==
  x \in 0 .. Product(main) - 1 /\ \A i \in 1 .. Len(main) : x % main[i] = r[i]

\* There is one, and one only: Whole finds it.
LEMMA ChineseRemainder ==
  ASSUME NEW main, MainModuli(main), NEW r, AreCoefficients(r, main)
  PROVE  \E x : HasResidues(x, main, r)
<1> DEFINE M == Product(main)
           s == Total(WholeTerms(main, LaneCoefficients(main, r)))
<1>1. /\ \A i \in 1 .. Len(main) : main[i] \in Nat /\ main[i] > 0 /\ main[i] \in Int
      /\ M \in Nat /\ M > 0
  BY DEF MainModuli
<1>2. \A i \in 1 .. Len(main) : r[i] \in Nat /\ r[i] \in 0 .. main[i] - 1
  BY <1>1 DEF AreCoefficients
<1>3. s \in Int /\ \A i \in 1 .. Len(main) : Same(s, r[i], main[i])
  BY <1>2, CoefficientsMakeResidues
<1> HIDE DEF s
<1>4. s % M \in 0 .. M - 1
  BY <1>1, <1>3, Division
<1>5. ASSUME NEW i \in 1 .. Len(main) PROVE (s % M) % main[i] = r[i]
  <2> DEFINE m == main[i]
  <2>1. m \in Nat /\ m > 0 /\ m \in Int /\ r[i] \in 0 .. m - 1 /\ r[i] \in Int
    BY <1>1, <1>2
  <2>2. Divides(m, M)
    <3>1. PICK h : IsCofactor(h, main, i)
      BY CofactorExists DEF MainModuli
    <3>2. h \in Int /\ M = m * h
      BY <3>1 DEF IsCofactor
    <3> HIDE DEF M, m
    <3> QED BY <3>2, Zenon DEF Divides
  <2>3. Same(s, r[i], m)
    BY <1>3
  <2> HIDE DEF m, M
  <2>4. Same(s % M, s, m)
    BY <1>1, <1>3, <2>1, <2>2, SameModulo
  <2>5. s % M \in Int
    BY <1>1, <1>4
  <2>6. Same(s % M, r[i], m)
    BY <1>3, <2>1, <2>3, <2>4, <2>5, SameTransitive
  <2>7. (s % M) % m = r[i]
    BY Zenon, <2>1, <2>5, <2>6, ResidueIs
  <2> QED BY <2>7 DEF m
<1>6. HasResidues(s % M, main, r)
  BY <1>4, <1>5 DEF HasResidues
<1> QED BY <1>6

LEMMA ResiduesTell ==
  ASSUME NEW main, MainModuli(main), NEW r, NEW x, NEW y,
         HasResidues(x, main, r), HasResidues(y, main, r)
  PROVE  x = y
<1> DEFINE M == Product(main)
<1>1. /\ main \in Seq(Nat \ {0}) /\ PairwiseApart(main)
      /\ \A i \in 1 .. Len(main) : main[i] \in Nat /\ main[i] > 0 /\ main[i] \in Int
      /\ M \in Nat /\ M > 0 /\ M \in Int
  BY DEF MainModuli
<1>2. /\ x \in 0 .. M - 1 /\ y \in 0 .. M - 1 /\ x \in Int /\ y \in Int /\ x - y \in Int
      /\ \A i \in 1 .. Len(main) : x % main[i] = y % main[i]
  BY <1>1 DEF HasResidues
<1>3. ASSUME NEW i \in 1 .. Len(main) PROVE Divides(main[i], x - y)
  <2>1. Same(x, y, main[i])
    BY Zenon, <1>1, <1>2, SameResidue
  <2> QED BY Zenon, <1>1, <1>2, <2>1, DividesSame
<1> HIDE DEF M
<1>4. Divides(M, x - y)
  BY <1>1, <1>2, <1>3, ProductDividesIfAll DEF M
<1>5. Same(x, y, M)
  BY <1>1, <1>2, <1>4, DividesSame
<1>6. x % M = y % M
  BY Zenon, <1>1, <1>2, <1>5, SameResidue
<1>7. x % M = x /\ y % M = y
  BY <1>1, <1>2, SmallResidue
<1> QED BY <1>6, <1>7

\* The numbers below q * h that are a modulo q
LEMMA NumbersWithResidue ==
  ASSUME NEW q \in Nat, q > 0, NEW h \in Nat, NEW a \in 0 .. q - 1
  PROVE  /\ \A x \in 0 .. q * h - 1 : x % q = a => \E k \in 0 .. h - 1 : x = a + k * q
         /\ \A k \in 0 .. h - 1 : a + k * q \in 0 .. q * h - 1
<1>1. ASSUME NEW x \in 0 .. q * h - 1, x % q = a PROVE \E k \in 0 .. h - 1 : x = a + k * q
  <2> DEFINE k == x \div q
  <2>1. q * h \in Nat /\ x \in Int
    OBVIOUS
  <2>2. x = q * k + (x % q) /\ k \in Int
    BY <2>1, Division
  <2> HIDE DEF k
  <2>3. x = q * k + a /\ q * k \in Int
    BY <1>1, <2>2
  <2>4. k < h
    <3> SUFFICES ASSUME k >= h PROVE FALSE
      BY <2>2
    <3>1. k - h \in Nat
      BY <2>2
    <3>2. q * (k - h) >= 0 /\ q * (k - h) = q * k - q * h
      BY <2>2, <3>1
    <3> QED BY <2>1, <2>3, <3>2
  <2>5. k >= 0
    <3> SUFFICES ASSUME k < 0 PROVE FALSE
      BY <2>2
    <3>1. -1 - k \in Nat
      BY <2>2
    <3>2. q * (-1 - k) >= 0 /\ q * (-1 - k) = -q - q * k
      BY <2>2, <3>1
    <3> QED BY <2>1, <2>3, <3>2
  <2>6. k * q = q * k
    BY <2>2
  <2>7. k \in 0 .. h - 1 /\ x = a + k * q
    BY <2>2, <2>3, <2>4, <2>5, <2>6
  <2> QED BY <2>7
<1>2. ASSUME NEW k \in 0 .. h - 1 PROVE a + k * q \in 0 .. q * h - 1
  <2>1. h - 1 - k \in Nat /\ k \in Nat
    OBVIOUS
  <2>2. q * (h - 1 - k) >= 0 /\ q * (h - 1 - k) = q * h - q - k * q /\ k * q >= 0
    BY <2>1
  <2> QED BY <2>2
<1> QED BY <1>1, <1>2

LEMMA WholeIs ==
  ASSUME NEW p, MainModuli(p.main), Len(p.main) >= 1, NEW r, AreCoefficients(r, p.main)
  PROVE  HasResidues(Whole(p, r), p.main, r)
<1> DEFINE main == p.main
           M == Product(main)
           q == main[1]
           S == {r[1] + k * q : k \in 0 .. M \div q - 1}
           Fits(x) == \A i \in LanesOf(p) : x % main[i] = r[i]
<1>1. /\ 1 \in 1 .. Len(main) /\ LanesOf(p) = 1 .. Len(main)
      /\ q \in Nat /\ q > 0 /\ M \in Nat /\ M > 0
  BY DEF MainModuli, LanesOf
<1>2. r[1] \in 0 .. q - 1
  BY <1>1 DEF AreCoefficients
<1>3. PICK h : IsCofactor(h, main, 1)
  BY <1>1, CofactorExists DEF MainModuli
<1>4. h \in Nat /\ M = q * h
  BY <1>3 DEF IsCofactor
<1>5. M \div q = h
  <2>1. M = q * h + 0 /\ 0 \in 0 .. q - 1 /\ h \in Int
    BY <1>1, <1>4
  <2> HIDE DEF q, M
  <2> QED BY <1>1, <2>1, QuotientIs
<1>a. /\ \A x \in 0 .. q * h - 1 : x % q = r[1] => \E k \in 0 .. h - 1 : x = r[1] + k * q
      /\ \A k \in 0 .. h - 1 : r[1] + k * q \in 0 .. q * h - 1
  <2> HIDE DEF q
  <2> QED BY Zenon, <1>1, <1>2, <1>4, NumbersWithResidue
<1>6. ASSUME NEW x, HasResidues(x, main, r) PROVE x \in S /\ Fits(x)
  <2>1. x \in 0 .. M - 1 /\ \A i \in 1 .. Len(main) : x % main[i] = r[i]
    BY <1>6 DEF HasResidues
  <2>2. x \in 0 .. q * h - 1 /\ x % q = r[1]
    BY <1>1, <1>4, <2>1
  <2>3. PICK k \in 0 .. h - 1 : x = r[1] + k * q
    BY <1>a, <2>2
  <2>4. x \in S
    BY <1>5, <2>3
  <2> QED BY Zenon, <1>1, <2>1, <2>4
<1>7. ASSUME NEW x \in S, Fits(x) PROVE HasResidues(x, main, r)
  <2>1. PICK k \in 0 .. h - 1 : x = r[1] + k * q
    BY <1>5
  <2>2. \A i \in 1 .. Len(main) : x % main[i] = r[i]
    BY Zenon, <1>1, <1>7
  <2>3. x \in 0 .. M - 1
    BY <1>4, <1>a, <2>1
  <2> QED BY <2>2, <2>3 DEF HasResidues
<1>8. \E x \in S : Fits(x)
  <2>1. PICK x : HasResidues(x, main, r)
    BY ChineseRemainder
  <2> HIDE DEF S, Fits
  <2> QED BY <1>6, <2>1
<1>9. Whole(p, r) = CHOOSE x \in S : Fits(x)
  BY DEF Whole, Modulus
<1> HIDE DEF S, Fits, main
<1>10. Whole(p, r) \in S /\ Fits(Whole(p, r))
  BY <1>8, <1>9
<1>11. HasResidues(Whole(p, r), main, r)
  BY <1>7, <1>10
<1> QED BY <1>11 DEF main

\* What ExactMulPlan::new makes sure of
IsPlan(p) ==
  /\ p.main \in Seq(Nat) /\ MainModuli(p.main) /\ Len(p.main) >= 1
  /\ Product(p.main) % 2 = 1
  /\ p.aux \in Seq(Nat) /\ MainModuli(p.aux)
  /\ p.t \in Nat /\ p.t >= 2
  /\ Extends(p.main, p.aux) /\ Extends(p.aux, p.main)
  /\ \A j \in 1 .. Len(p.aux) :
       p.aux[j] % 2 = 1 /\ \A i \in 1 .. Len(p.main) : Apart(p.main[i], p.aux[j])
  /\ Product(p.aux) > Capacity(p.main, p.t)

\* Multiples of the modulus do not show in a lane.
LEMMA ModuloProduct ==
  ASSUME NEW main, MainModuli(main), NEW i \in 1 .. Len(main), NEW x \in Int, NEW k \in Int
  PROVE  Same(x + Product(main) * k, x, main[i])
<1> DEFINE M == Product(main)
           m == main[i]
<1>1. PICK h : IsCofactor(h, main, i)
  BY CofactorExists DEF MainModuli
<1>2. h \in Int /\ M = m * h /\ m \in Int
  BY <1>1 DEF IsCofactor, MainModuli
<1> HIDE DEF M, m
<1>3. h * k \in Int /\ M * k = m * (h * k)
  BY <1>2
<1>4. Same(x + m * (h * k), x, m)
  BY Zenon, <1>2, <1>3, SameMultiple
<1>5. Same(x + M * k, x, m)
  BY <1>3, <1>4
<1> QED BY <1>5 DEF M, m

\* The residues of one coefficient, and of the integer they stand for
LEMMA CoefficientsOf ==
  ASSUME NEW main, MainModuli(main), NEW e, IsElement(e, main), NEW k \in Powers
  PROVE  AreCoefficients(At(e, k), main) /\ \A i \in 1 .. Len(main) : At(e, k)[i] = e[i][k]
<1>1. DOMAIN e = 1 .. Len(main)
  BY DEF IsElement
<1>2. \A i \in 1 .. Len(main) : At(e, k)[i] = e[i][k]
  BY <1>1 DEF At
<1>3. \A i \in 1 .. Len(main) : e[i][k] \in 0 .. main[i] - 1
  BY DEF IsElement
<1> QED BY <1>2, <1>3 DEF AreCoefficients

LEMMA HasResiduesOf ==
  ASSUME NEW main, MainModuli(main), NEW r, AreCoefficients(r, main), NEW x, HasResidues(x, main, r)
  PROVE  x \in 0 .. Product(main) - 1 /\ AreResiduesOf(r, main, x)
<1>1. x \in 0 .. Product(main) - 1 /\ Product(main) \in Nat
  BY DEF HasResidues, MainModuli
<1>2. ASSUME NEW i \in 1 .. Len(main) PROVE r[i] \in Nat /\ Same(r[i], x, main[i])
  <2>1. main[i] \in Nat /\ main[i] > 0 /\ r[i] \in 0 .. main[i] - 1 /\ x % main[i] = r[i] /\ x \in Int
    BY <1>1 DEF MainModuli, AreCoefficients, HasResidues
  <2>2. Same(x % main[i], x, main[i])
    BY Zenon, <2>1, ResidueIsSame
  <2> QED BY <2>1, <2>2
<1> QED BY <1>1, <1>2 DEF AreResiduesOf

\* The lift nearest to zero of one coefficient
LEMMA Nearest0Is ==
  ASSUME NEW M \in Nat, M % 2 = 1, NEW x \in 0 .. M - 1
  PROVE  LET n == Nearest0(x, M)
         IN  /\ n = IF UpperHalf(x, M) THEN x - M ELSE x
             /\ n \in Int /\ -((M - 1) \div 2) <= n /\ n <= (M - 1) \div 2
<1>1. x % M = x
  BY SmallResidue
<1>2. M = 2 * ((M - 1) \div 2) + 1 /\ (M - 1) \div 2 \in Nat
  OBVIOUS
<1> QED BY <1>1, <1>2 DEF Nearest0, UpperHalf

\* The centered lift is bounded by half the modulus, has the element as its
\* residues, and is what AuxLimbs gives in the auxiliary basis.
LEMMA LiftIs ==
  ASSUME NEW p, IsPlan(p), NEW e, IsElement(e, p.main)
  PROVE  /\ Lift(p, e) \in Polynomials
         /\ Bounded(Lift(p, e), (Product(p.main) - 1) \div 2)
         /\ InRing(p.main, Lift(p, e)) = e
         /\ AuxLimbs(p, e) = InRing(p.aux, Lift(p, e))
<1> DEFINE main == p.main
           aux == p.aux
           M == Product(main)
           a == Lift(p, e)
           up(k) == UpperHalf(Whole(p, At(e, k)), M)
           value_(k) == IF up(k) THEN Whole(p, At(e, k)) - M ELSE Whole(p, At(e, k))
<1>1. /\ main \in Seq(Nat) /\ MainModuli(main) /\ Len(main) >= 1
      /\ M \in Nat /\ M % 2 = 1
      /\ aux \in Seq(Nat) /\ MainModuli(aux) /\ Extends(main, aux)
  BY DEF IsPlan, MainModuli
<1>2. ASSUME NEW k \in Powers
      PROVE  /\ AreCoefficients(At(e, k), main)
             /\ HasResidues(Whole(p, At(e, k)), main, At(e, k))
             /\ Whole(p, At(e, k)) \in 0 .. M - 1
             /\ AreResiduesOf(At(e, k), main, Whole(p, At(e, k)))
  <2>1. AreCoefficients(At(e, k), main)
    BY <1>1, CoefficientsOf
  <2>2. HasResidues(Whole(p, At(e, k)), main, At(e, k))
    BY <1>1, <2>1, WholeIs
  <2> QED BY <1>1, <2>1, <2>2, HasResiduesOf
<1>3. ASSUME NEW k \in Powers
      PROVE  /\ a[k] = value_(k) /\ a[k] \in Int
             /\ -((M - 1) \div 2) <= a[k] /\ a[k] <= (M - 1) \div 2
  <2> DEFINE x == Whole(p, At(e, k))
  <2>1. a[k] = Nearest0(x, M)
    BY DEF Lift, Modulus
  <2>2. x \in 0 .. M - 1
    BY <1>2
  <2> HIDE DEF x, M, a
  <2>3. /\ Nearest0(x, M) = IF UpperHalf(x, M) THEN x - M ELSE x
        /\ Nearest0(x, M) \in Int
        /\ -((M - 1) \div 2) <= Nearest0(x, M) /\ Nearest0(x, M) <= (M - 1) \div 2
    BY Zenon, <1>1, <2>2, Nearest0Is
  <2> QED BY <2>1, <2>3 DEF x
<1>4. a \in Polynomials
  <2>1. a = [k \in Powers |-> a[k]]
    BY DEF Lift
  <2> HIDE DEF a
  <2> QED BY <1>3, <2>1 DEF Polynomials
<1>5. Bounded(a, (M - 1) \div 2)
  BY <1>3 DEF Bounded
<1>6. ASSUME NEW i \in 1 .. Len(main) PROVE Mod(a, main[i]) = e[i]
  <2> DEFINE m == main[i]
  <2>1. m \in Nat /\ m > 0 /\ m \in Int
    BY <1>1 DEF MainModuli
  <2>2. ASSUME NEW k \in Powers PROVE a[k] % m = e[i][k]
    <3> DEFINE x == Whole(p, At(e, k))
    <3>1. x % m = At(e, k)[i] /\ At(e, k)[i] = e[i][k] /\ x \in Int
      BY <1>1, <1>2, CoefficientsOf DEF HasResidues
    <3>2. \E j \in Int : a[k] = x + M * j
      <4>1. a[k] = x + M * 0 \/ a[k] = x + M * (-1)
        BY <1>1, <1>3, <3>1
      <4> QED BY <4>1
    <3>3. PICK j \in Int : a[k] = x + M * j
      BY <3>2
    <3>4. Same(x + M * j, x, m)
      <4> HIDE DEF x
      <4> QED BY Zenon, <1>1, <3>1, ModuloProduct
    <3> HIDE DEF x, m, M, a
    <3>5. (x + M * j) % m = x % m
      <4>1. x + M * j \in Int
        BY <1>1, <3>1
      <4> QED BY <2>1, <3>1, <3>4, <4>1, SameResidue
    <3> QED BY <3>1, <3>3, <3>5
  <2>3. Mod(a, m) = [k \in Powers |-> a[k] % m]
    BY <1>4, <2>1, ModIs
  <2>4. e[i] = [k \in Powers |-> e[i][k]]
    <3>1. e[i] \in [Powers -> 0 .. main[i] - 1]
      BY DEF IsElement
    <3> QED BY <3>1
  <2> HIDE DEF m, a
  <2>5. Mod(a, m) = e[i]
    BY <2>2, <2>3, <2>4
  <2> QED BY <2>5 DEF m
<1>7. InRing(main, a) = e
  <2>1. InRing(main, a) = [i \in DOMAIN main |-> Mod(a, main[i])]
    <3>1. main \in Seq(Nat \ {0})
      BY <1>1 DEF MainModuli
    <3> HIDE DEF main, a
    <3> QED BY <1>4, <3>1, InRingIs
  <2>2. e = [i \in 1 .. Len(main) |-> e[i]] /\ DOMAIN main = 1 .. Len(main)
    BY <1>1 DEF IsElement
  <2> HIDE DEF a, main
  <2> QED BY <1>6, <2>1, <2>2
<1>8. ASSUME NEW k \in Powers PROVE Project(main, aux, At(e, k), TRUE).residues = ResiduesOf(aux, a[k])
  <2> DEFINE x == Whole(p, At(e, k))
             r == At(e, k)
             upper == TRUE /\ UpperHalf(x, M)
  <2>1. x \in 0 .. M - 1 /\ AreResiduesOf(r, main, x)
    BY <1>2
  <2>2. a[k] = IF upper THEN x - M ELSE x
    BY <1>3
  <2>3. TRUE \in BOOLEAN
    OBVIOUS
  <2> HIDE DEF x, r, a
  <2>4. Project(main, aux, r, TRUE).residues = ResiduesOf(aux, IF upper THEN x - M ELSE x)
    BY <1>1, <2>1, <2>3, ProjectIs, ZenonT(60)
  <2> HIDE DEF upper
  <2>5. Project(main, aux, r, TRUE).residues = ResiduesOf(aux, a[k])
    BY Zenon, <2>2, <2>4
  <2> QED BY Zenon, <2>5 DEF r
<1>9. AuxLimbs(p, e) = [j \in DOMAIN aux |-> [k \in Powers |-> a[k] % aux[j]]]
  <2> DEFINE lifted == [k \in Powers |-> Project(main, aux, At(e, k), TRUE).residues]
             lanes(g) == [j \in DOMAIN aux |-> Computed([k \in Powers |-> g[k][j]])]
  <2>0. AuxLimbs(p, e) = Computed(lanes(Computed(lifted)))
    BY DEF AuxLimbs
  <2>1. AuxLimbs(p, e) = [j \in DOMAIN aux |-> [k \in Powers |-> lifted[k][j]]]
    <3> HIDE DEF lifted
    <3>1. Computed(lifted) = lifted
      BY ComputedIs
    <3>2. lanes(lifted) = [j \in DOMAIN aux |-> [k \in Powers |-> lifted[k][j]]]
      <4>1. \A j \in DOMAIN aux :
              Computed([k \in Powers |-> lifted[k][j]]) = [k \in Powers |-> lifted[k][j]]
        BY ComputedIs
      <4> QED BY <4>1
    <3> HIDE DEF lanes
    <3>3. Computed(lanes(lifted)) = lanes(lifted)
      BY ComputedIs
    <3>4. AuxLimbs(p, e) = lanes(lifted)
      BY <2>0, <3>1, <3>3
    <3> QED BY <3>2, <3>4
  <2>2. \A k \in Powers : \A j \in DOMAIN aux : lifted[k][j] = a[k] % aux[j]
    <3>1. \A k \in Powers : lifted[k] = ResiduesOf(aux, a[k])
      BY Zenon, <1>8
    <3> HIDE DEF lifted, a
    <3> QED BY Zenon, <3>1 DEF ResiduesOf
  <2> HIDE DEF lifted, a
  <2> QED BY <2>1, <2>2
<1>10. InRing(aux, a) = [j \in DOMAIN aux |-> [k \in Powers |-> a[k] % aux[j]]]
  <2>1. aux \in Seq(Nat \ {0}) /\ \A j \in DOMAIN aux : aux[j] \in Nat /\ aux[j] > 0
    BY SMTT(30), <1>1 DEF MainModuli
  <2> HIDE DEF aux, a
  <2>2. InRing(aux, a) = [j \in DOMAIN aux |-> Mod(a, aux[j])]
    BY <1>4, <2>1, InRingIs
  <2>3. \A j \in DOMAIN aux : Mod(a, aux[j]) = [k \in Powers |-> a[k] % aux[j]]
    BY <1>4, <2>1, ModIs
  <2> QED BY <2>2, <2>3
<1> QED BY <1>4, <1>5, <1>7, <1>9, <1>10

\* Half of an odd modulus, in residues modulo an odd a
LEMMA HalfModAuxIs ==
  ASSUME NEW p, Modulus(p) \in Nat, Modulus(p) % 2 = 1, NEW a \in Nat, a % 2 = 1
  PROVE  HalfModAux(p, a) \in Nat /\ Same(HalfModAux(p, a), (Modulus(p) - 1) \div 2, a)
<1> DEFINE M == Modulus(p)
           g == (M - 1) \div 2
           h == (a - 1) \div 2
           v == ModInverse(2, a)
           d == (M % a) + a - 1
<1>1. M \in Nat /\ M \in Int /\ g \in Int /\ M - 1 = g * 2 /\ a \in Nat /\ a > 0 /\ a \in Int
  OBVIOUS
<1>2. Apart(2, a)
  <2> DEFINE k == -h
  <2>1. 2 * k + a * 1 = 1 /\ k \in Int /\ 1 \in Int
    OBVIOUS
  <2> HIDE DEF k
  <2> QED BY <2>1, Zenon DEF Apart
<1>3. v \in Nat /\ v \in Int /\ Same(2 * v, 1, a)
  <2>1. v \in 0 .. a - 1 /\ Same(2 * v, 1, a)
    BY <1>1, <1>2, ModInverseIs
  <2> HIDE DEF v
  <2> QED BY <1>1, <2>1
<1>4. HalfModAux(p, a) = (d * v) % a
  BY DEF HalfModAux
<1> HIDE DEF M, g, v
<1>5. M % a \in 0 .. a - 1 /\ Same(M % a, M, a)
  BY Zenon, <1>1, ResidueIsSame
<1>6. d \in Int /\ Same(d, M - 1, a)
  <2>1. M % a \in Int /\ M - 1 \in Int /\ a - 1 \in Int
    BY <1>1, <1>5
  <2>2. Same(a - 1, -1, a)
    <3>1. a - 1 = -1 + a * 1
      OBVIOUS
    <3> QED BY <3>1 DEF Same
  <2>3. Same((M % a) + (a - 1), M + (-1), a)
    BY <1>1, <1>5, <2>1, <2>2, SameSum
  <2>4. (M % a) + (a - 1) = d /\ M + (-1) = M - 1
    BY <1>1, <2>1
  <2> QED BY <2>1, <2>3, <2>4
<1> HIDE DEF d
<1>7. Same(d * v, (g * 2) * v, a)
  <2>1. Same(v, v, a) /\ M - 1 \in Int
    BY <1>1, <1>3, SameReflexive
  <2>2. Same(d * v, (M - 1) * v, a)
    BY <1>1, <1>3, <1>6, <2>1, SameProduct
  <2> QED BY <1>1, <2>2
<1>8. Same((g * 2) * v, g, a)
  <2>1. 2 \in Int
    OBVIOUS
  <2> QED BY Zenon, <1>1, <1>3, <2>1, InverseCancels
<1>9. d * v \in Int /\ (g * 2) * v \in Int
  BY <1>1, <1>3, <1>6
<1>10. Same(d * v, g, a)
  BY <1>1, <1>7, <1>8, <1>9, SameTransitive
<1>11. (d * v) % a \in 0 .. a - 1 /\ Same((d * v) % a, d * v, a)
  BY Zenon, <1>1, <1>9, ResidueIsSame
<1>12. (d * v) % a \in Nat /\ (d * v) % a \in Int
  BY <1>1, <1>11
<1>13. Same((d * v) % a, g, a)
  BY <1>1, <1>9, <1>10, <1>11, <1>12, SameTransitive
<1> QED BY <1>4, <1>12, <1>13 DEF g, M

\* One auxiliary lane of the quotient: from the shifted dividend z in
\* residues and its rest, the multiple of M that the rest leaves.
AuxQuotient(xa, half, t, m, a, w) ==
  (((((xa * (t % a) + half) % a) + a - w) % a) * ModInverse(m, a)) % a

\* It is the residue of the rounded quotient.
LEMMA AuxQuotientIs ==
  ASSUME NEW a \in Nat, a > 0, NEW m \in Nat, m > 0, Apart(m, a), NEW t \in Nat, NEW x \in Int,
         NEW xa \in Nat, Same(xa, x, a), NEW half \in Nat, Same(half, (m - 1) \div 2, a)
  PROVE  LET w == (Shifted(t, x, m) % m) % a
         IN  /\ AuxQuotient(xa, half, t, m, a, w) \in 0 .. a - 1
             /\ Same(AuxQuotient(xa, half, t, m, a, w), NearestQuotient(t, x, m), a)
<1> DEFINE g == (m - 1) \div 2
           z == Shifted(t, x, m)
           rest == z % m
           w == rest % a
           y == NearestQuotient(t, x, m)
           v == ModInverse(m, a)
           b == xa * (t % a) + half
           za == b % a
           d == za + a - w
<1>1. /\ g \in Int /\ z = t * x + g /\ z \in Int /\ a \in Int /\ m \in Int /\ x \in Int
      /\ xa \in Int /\ half \in Int /\ t \in Int
  BY DEF Shifted
<1>2. y \in Int /\ rest \in Int /\ m * y = z - rest
  <2>1. y = z \div m
    BY DEF NearestQuotient
  <2> HIDE DEF z, y
  <2>2. z = m * (z \div m) + (z % m) /\ z % m \in 0 .. m - 1 /\ z \div m \in Int
    BY <1>1, Division
  <2> QED BY <1>1, <2>1, <2>2
<1>3. v \in Int /\ Same(m * v, 1, a)
  <2>1. v \in 0 .. a - 1 /\ Same(m * v, 1, a)
    BY ModInverseIs
  <2> HIDE DEF v
  <2> QED BY <1>1, <2>1
<1> HIDE DEF g, z, y, v
<1>4. t % a \in Int /\ Same(t % a, t, a)
  <2>1. t % a \in 0 .. a - 1 /\ Same(t % a, t, a)
    BY Zenon, <1>1, ResidueIsSame
  <2> QED BY <1>1, <2>1
<1>5. b \in Int /\ Same(b, z, a)
  <2>1. Same(xa * (t % a), x * t, a)
    BY <1>1, <1>4, SameProduct
  <2>2. xa * (t % a) \in Int /\ x * t \in Int /\ x * t = t * x
    BY <1>1, <1>4
  <2>3. Same(xa * (t % a) + half, x * t + g, a)
    BY <1>1, <2>1, <2>2, SameSum DEF g
  <2> QED BY <1>1, <2>2, <2>3
<1> HIDE DEF b
<1>6. za \in Int /\ Same(za, z, a)
  <2>1. za \in 0 .. a - 1 /\ Same(za, b, a)
    BY <1>5, ResidueIsSame
  <2> HIDE DEF za
  <2>2. za \in Int
    BY <2>1
  <2> QED BY <1>1, <1>5, <2>1, <2>2, SameTransitive
<1>7. w \in Int /\ Same(w, rest, a)
  <2> HIDE DEF rest
  <2>1. w \in 0 .. a - 1 /\ Same(w, rest, a)
    BY <1>2, ResidueIsSame
  <2> QED BY <1>1, <2>1
<1> HIDE DEF za, w, rest
<1>8. d \in Int /\ Same(d, m * y, a)
  <2>1. Same(za - w, z - rest, a)
    BY <1>1, <1>2, <1>6, <1>7, SameSum
  <2>2. za - w \in Int /\ z - rest \in Int /\ d \in Int /\ d = (za - w) + a * 1
    BY <1>1, <1>2, <1>6, <1>7
  <2> HIDE DEF d
  <2>3. Same((za - w) + a * 1, za - w, a)
    <3> DEFINE u == za - w
    <3>1. u \in Int /\ 1 \in Int
      BY <2>2
    <3> HIDE DEF u
    <3>2. Same(u + a * 1, u, a)
      BY Zenon, <1>1, <3>1, SameMultiple
    <3> QED BY <3>2 DEF u
  <2>4. Same(d, za - w, a)
    BY <2>2, <2>3
  <2>5. Same(d, z - rest, a)
    BY <1>1, <2>1, <2>2, <2>4, SameTransitive
  <2> QED BY <1>2, <2>2, <2>5
<1> HIDE DEF d
<1>9. d % a \in Int /\ Same(d % a, m * y, a)
  <2>1. d % a \in 0 .. a - 1 /\ Same(d % a, d, a)
    BY <1>8, ResidueIsSame
  <2>2. d % a \in Int /\ m * y \in Int
    BY <1>1, <1>2, <2>1
  <2> QED BY <1>1, <1>8, <2>1, <2>2, SameTransitive
<1>10. (d % a) * v \in Int /\ Same((d % a) * v, y, a)
  <2>1. Same(v, v, a) /\ m * y \in Int
    BY <1>1, <1>2, <1>3, SameReflexive
  <2>2. Same((d % a) * v, (m * y) * v, a)
    BY <1>1, <1>3, <1>9, <2>1, SameProduct
  <2>3. Same((y * m) * v, y, a)
    BY <1>1, <1>2, <1>3, InverseCancels
  <2>4. (m * y) * v = (y * m) * v /\ (m * y) * v \in Int /\ (d % a) * v \in Int
    BY <1>1, <1>2, <1>3, <1>9
  <2> QED BY <1>1, <1>2, <2>2, <2>3, <2>4, SameTransitive
<1> DEFINE q == ((d % a) * v) % a
<1>11. q \in 0 .. a - 1 /\ Same(q, (d % a) * v, a)
  BY Zenon, <1>10, ResidueIsSame
<1>12. AuxQuotient(xa, half, t, m, a, w) = q
  BY DEF AuxQuotient, d, za, b, v
<1> HIDE DEF q
<1>13. q \in Int
  BY <1>11
<1>14. Same(q, y, a)
  BY <1>1, <1>2, <1>10, <1>11, <1>13, SameTransitive
<1> QED BY <1>11, <1>12, <1>14 DEF w, rest, z, y

\* Quotients that the shift brings into the range of the auxiliary basis
InReach(p, y) == y + ShiftMultiplier(p.t) * Product(p.main) \in 0 .. Product(p.aux) - 1

\* The numbers of a plan
LEMMA PlanNumbers ==
  ASSUME NEW p, IsPlan(p)
  PROVE  /\ Modulus(p) = Product(p.main) /\ Modulus(p) \in Nat /\ Modulus(p) > 0
         /\ Modulus(p) % 2 = 1 /\ p.t \in Nat
         /\ ShiftMultiplier(p.t) \in Nat
         /\ MainModuli(p.main) /\ MainModuli(p.aux)
         /\ LanesOf(p) = DOMAIN p.main /\ DOMAIN p.main = 1 .. Len(p.main)
         /\ DOMAIN p.aux = 1 .. Len(p.aux)
         /\ \A j \in DOMAIN p.aux : /\ p.aux[j] \in Nat /\ p.aux[j] > 0 /\ p.aux[j] % 2 = 1
                                    /\ Apart(Modulus(p), p.aux[j])
<1>1. /\ Modulus(p) = Product(p.main) /\ Modulus(p) \in Nat /\ Modulus(p) > 0
      /\ Modulus(p) % 2 = 1 /\ p.t \in Nat /\ MainModuli(p.main) /\ MainModuli(p.aux)
      /\ LanesOf(p) = DOMAIN p.main /\ DOMAIN p.main = 1 .. Len(p.main)
      /\ DOMAIN p.aux = 1 .. Len(p.aux)
  BY DEF IsPlan, MainModuli, Modulus, LanesOf
<1>2. ShiftMultiplier(p.t) \in Nat
  <2>1. N \div 2 \in Nat /\ p.t \in Nat
    BY <1>1, DegreeIs
  <2> DEFINE h == N \div 2
  <2>2. h \in Nat /\ p.t \in Nat
    BY <2>1
  <2> HIDE DEF h
  <2>3. h * p.t + 1 \in Nat
    BY <2>2
  <2> QED BY <2>3 DEF ShiftMultiplier, h
<1>3. ASSUME NEW j \in DOMAIN p.aux
      PROVE  /\ p.aux[j] \in Nat /\ p.aux[j] > 0 /\ p.aux[j] % 2 = 1
             /\ Apart(Modulus(p), p.aux[j])
  <2> DEFINE a == p.aux[j]
  <2>1. /\ a \in Nat /\ a > 0 /\ a \in Int /\ a % 2 = 1
        /\ \A i \in 1 .. Len(p.main) : Apart(p.main[i], a)
    BY SMTT(30), <1>1 DEF IsPlan, MainModuli
  <2>2. p.main \in Seq(Nat \ {0})
    BY <1>1 DEF MainModuli
  <2> HIDE DEF a
  <2>3. Apart(Product(p.main), a)
    BY <2>1, <2>2, ApartFromProduct
  <2> QED BY <1>1, <2>1, <2>3 DEF a
<1> QED BY <1>1, <1>2, <1>3

\* ScaleRound gives the residues of the rounded quotient, when it is in reach.
LEMMA ScaleRoundIs ==
  ASSUME NEW p, IsPlan(p), NEW x \in Int,
         NEW xMain, AreResiduesOf(xMain, p.main, x),
         NEW xAux, AreResiduesOf(xAux, p.aux, x),
         InReach(p, NearestQuotient(p.t, x, Product(p.main)))
  PROVE  ScaleRound(p, xMain, xAux)
           = ResiduesOf(p.main, NearestQuotient(p.t, x, Product(p.main)))
<1> DEFINE main == p.main
           aux == p.aux
           M == Product(main)
           t == p.t
           s == ShiftMultiplier(t)
           z == Shifted(t, x, M)
           y == NearestQuotient(t, x, M)
           u == y + s * M
           zMain == ScaledResidues(main, t, xMain)
           wAux == Project(main, aux, zMain, FALSE).residues
           quotient(j) == AuxQuotient(xAux[j], HalfModAux(p, aux[j]), t, Modulus(p), aux[j], wAux[j])
           shifted == [j \in DOMAIN aux |-> (quotient(j) + ShiftModAux(p, aux[j])) % aux[j]]
<1>1. /\ M \in Nat /\ M > 0 /\ M \in Int /\ M % 2 = 1 /\ t \in Nat /\ s \in Nat /\ Modulus(p) = M
      /\ MainModuli(main) /\ MainModuli(aux)
      /\ DOMAIN main = 1 .. Len(main) /\ DOMAIN aux = 1 .. Len(aux)
      /\ main \in Seq(Nat) /\ aux \in Seq(Nat) /\ Extends(main, aux) /\ Extends(aux, main)
  BY PlanNumbers DEF IsPlan
<1>2. y \in Int /\ z \in Int /\ z % M \in 0 .. M - 1
  <2> HIDE DEF M
  <2>1. (M - 1) \div 2 \in Int
    BY <1>1
  <2>2. z \in Int
    BY <1>1, <2>1 DEF Shifted
  <2> HIDE DEF z
  <2>3. z % M \in 0 .. M - 1 /\ z \div M \in Int
    BY <1>1, <2>2, Division
  <2> QED BY <2>2, <2>3 DEF NearestQuotient, z
<1>3. ScaleRound(p, xMain, xAux) = Project(aux, main, shifted, FALSE).residues
  BY Zenon, PlanNumbers DEF ScaleRound, ScaledResidues, AuxQuotient
<1>4. AreResiduesOf(zMain, main, z % M)
  <2>1. AreResiduesOf(zMain, main, z)
    BY <1>1, ScaledResiduesAre
  <2> HIDE DEF zMain, z
  <2> QED BY <1>1, <1>2, <2>1, ResiduesOfRest
<1>5. wAux = ResiduesOf(aux, z % M)
  <2> DEFINE rest == z % M
             up == FALSE /\ UpperHalf(rest, M)
  <2>1. rest \in 0 .. M - 1 /\ AreResiduesOf(zMain, main, rest) /\ FALSE \in BOOLEAN /\ ~ up
    BY <1>2, <1>4
  <2> HIDE DEF rest, zMain
  <2>2. wAux = ResiduesOf(aux, IF up THEN rest - M ELSE rest)
    BY Zenon, <1>1, <2>1, ProjectIs
  <2> HIDE DEF wAux, up
  <2> QED BY <2>1, <2>2 DEF rest
<1>6. ASSUME NEW j \in DOMAIN aux
      PROVE  quotient(j) \in 0 .. aux[j] - 1 /\ Same(quotient(j), y, aux[j])
  <2> DEFINE a == aux[j]
             half == HalfModAux(p, a)
  <2>1. a \in Nat /\ a > 0 /\ a % 2 = 1 /\ Apart(M, a)
    BY Zenon, <1>1, PlanNumbers
  <2>2. half \in Nat /\ Same(half, (M - 1) \div 2, a)
    BY Zenon, <1>1, <2>1, HalfModAuxIs
  <2>3. xAux[j] \in Nat /\ Same(xAux[j], x, a)
    BY Zenon, <1>1 DEF AreResiduesOf
  <2>4. wAux[j] = (z % M) % a
    BY Zenon, <1>5 DEF ResiduesOf
  <2> HIDE DEF a, half, M, wAux
  <2>5. /\ AuxQuotient(xAux[j], half, t, M, a, (z % M) % a) \in 0 .. a - 1
        /\ Same(AuxQuotient(xAux[j], half, t, M, a, (z % M) % a), y, a)
    BY Zenon, <1>1, <2>1, <2>2, <2>3, AuxQuotientIs
  <2>6. quotient(j) = AuxQuotient(xAux[j], half, t, M, a, (z % M) % a)
    BY <1>1, <2>4 DEF a, half
  <2> HIDE DEF quotient, y
  <2>7. quotient(j) \in 0 .. a - 1 /\ Same(quotient(j), y, a)
    BY <2>5, <2>6
  <2> QED BY <2>7 DEF a
<1> HIDE DEF quotient, y
<1>7. AreResiduesOf(shifted, aux, u)
  <2> SUFFICES ASSUME NEW j \in 1 .. Len(aux)
               PROVE  shifted[j] \in Nat /\ Same(shifted[j], u, aux[j])
    BY Zenon DEF AreResiduesOf
  <2> DEFINE a == aux[j]
             c == ShiftModAux(p, a)
             b == quotient(j) + c
  <2>1. a \in Nat /\ a > 0 /\ a \in Int
    BY <1>1, PlanNumbers
  <2>2. shifted[j] = b % a
    BY <1>1
  <2>3. quotient(j) \in Int /\ Same(quotient(j), y, a)
    <3>1. j \in DOMAIN aux
      BY <1>1
    <3>2. quotient(j) \in 0 .. aux[j] - 1 /\ Same(quotient(j), y, aux[j])
      BY <1>6, <3>1
    <3> HIDE DEF quotient
    <3>3. quotient(j) \in 0 .. a - 1
      BY <3>2
    <3> HIDE DEF a
    <3>4. quotient(j) \in Int
      BY <2>1, <3>3
    <3> QED BY <3>2, <3>4 DEF a
  <2>4. c \in Int /\ Same(c, s * M, a)
    <3>1. c = (s % a) * (M % a)
      BY <1>1 DEF ShiftModAux
    <3> HIDE DEF s, M, a, c
    <3>0. s \in Int /\ M \in Int
      BY <1>1
    <3>2. s % a \in 0 .. a - 1 /\ Same(s % a, s, a)
      BY Zenon, <2>1, <3>0, ResidueIsSame
    <3>5. M % a \in 0 .. a - 1 /\ Same(M % a, M, a)
      BY Zenon, <2>1, <3>0, ResidueIsSame
    <3>3. s % a \in Int /\ M % a \in Int
      BY <2>1, <3>2, <3>5
    <3>4. Same((s % a) * (M % a), s * M, a)
      BY <2>1, <3>0, <3>2, <3>3, <3>5, SameProduct
    <3> QED BY <3>1, <3>3, <3>4
  <2> HIDE DEF a, c, shifted
  <2>5. s * M \in Int
    BY <1>1
  <2> DEFINE sm == s * M
  <2> HIDE DEF sm, s, M
  <2>6. Same(b, u, a) /\ b \in Int /\ u \in Int
    <3>1. Same(quotient(j) + c, y + sm, a)
      BY <1>2, <2>1, <2>3, <2>4, <2>5, SameSum DEF sm
    <3>2. quotient(j) + c \in Int /\ y + sm \in Int
      BY <1>2, <2>3, <2>4, <2>5 DEF sm
    <3> QED BY <3>1, <3>2 DEF sm
  <2> HIDE DEF b, u
  <2>7. b % a \in 0 .. a - 1 /\ Same(b % a, b, a)
    BY Zenon, <2>1, <2>6, ResidueIsSame
  <2>8. b % a \in Nat /\ b % a \in Int
    BY <2>1, <2>7
  <2>9. Same(b % a, u, a)
    BY <2>1, <2>6, <2>7, <2>8, SameTransitive
  <2> QED BY <2>2, <2>8, <2>9 DEF a
<1>8. u \in 0 .. Product(aux) - 1
  BY DEF InReach, y
<1>9. Project(aux, main, shifted, FALSE).residues = ResiduesOf(main, u)
  <2> DEFINE up == FALSE /\ UpperHalf(u, Product(aux))
  <2>1. FALSE \in BOOLEAN /\ ~ up
    OBVIOUS
  <2> HIDE DEF shifted, u
  <2>2. Project(aux, main, shifted, FALSE).residues
          = ResiduesOf(main, IF up THEN u - Product(aux) ELSE u)
    BY Zenon, <1>1, <1>7, <1>8, <2>1, ProjectIs
  <2> HIDE DEF up
  <2> QED BY Zenon, <2>1, <2>2
<1>10. ResiduesOf(main, u) = ResiduesOf(main, y)
  <2>1. ASSUME NEW i \in DOMAIN main PROVE u % main[i] = y % main[i]
    <3>1. main[i] \in Nat /\ main[i] > 0 /\ u \in Int /\ s \in Int /\ i \in 1 .. Len(main)
      <4>1. main[i] \in Nat /\ main[i] > 0 /\ i \in 1 .. Len(main)
        BY SMTT(30), <1>1 DEF MainModuli
      <4> HIDE DEF s, M
      <4>2. s * M \in Int
        BY <1>1
      <4> QED BY <1>1, <1>2, <4>1, <4>2
    <3>2. Same(y + M * s, y, main[i])
      <4> HIDE DEF s
      <4> QED BY Zenon, <1>1, <1>2, <3>1, ModuloProduct
    <3>3. y + M * s = u
      <4> HIDE DEF s, M
      <4> QED BY <1>1, <1>2, <3>1
    <3> HIDE DEF u
    <3> QED BY Zenon, <1>2, <3>1, <3>2, <3>3, SameResidue
  <2> QED BY <2>1 DEF ResiduesOf
<1> QED BY Zenon, <1>3, <1>9, <1>10 DEF y

\* Rounding to the nearest, as the code does it and as it is meant
LEMMA QuotientIsNearest ==
  ASSUME NEW m \in Nat, m % 2 = 1, NEW t \in Nat, NEW x \in Int
  PROVE  Quotient(t * x, m) = NearestQuotient(t, x, m)
<1> DEFINE n == t * x
           g == (m - 1) \div 2
           y == NearestQuotient(t, x, m)
           z == (n + g) % m
<1>1. n \in Int /\ g \in Int /\ m = 2 * g + 1 /\ m \in Nat /\ m > 0
  OBVIOUS
<1>2. y = (n + g) \div m
  BY DEF NearestQuotient, Shifted
<1> HIDE DEF n, g, y, z
<1>3. n + g = m * y + z /\ z \in 0 .. m - 1 /\ y \in Int
  <2>1. n + g \in Int
    BY <1>1
  <2> QED BY <1>1, <1>2, <2>1, Division DEF z
<1> DEFINE d == 2 * m
           v == 2 * z + 1
<1>4. d \in Nat /\ d > 0 /\ v \in 0 .. d - 1
  BY <1>1, <1>3
<1>5. 2 * n + m = d * y + v
  <2>1. d * y = 2 * (m * y) /\ m * y \in Int
    BY <1>1, <1>3
  <2> QED BY <1>1, <1>3, <2>1
<1> HIDE DEF d, v
<1>6. (d * y + v) \div d = y
  BY <1>3, <1>4, QuotientIs
<1>7. (2 * n + m) \div (2 * m) = y
  BY <1>5, <1>6 DEF d
<1> QED BY <1>7 DEF Quotient, n, y

\* c * m * m bounds the dividend, so c * m bounds the quotient.
LEMMA QuotientIsBounded ==
  ASSUME NEW m \in Nat, m > 0, NEW c \in Nat, NEW w \in Int, NEW g \in 0 .. m - 1,
         NEW y \in Int, NEW z \in 0 .. m - 1, m * y = w + g - z,
         -((c * m) * m) <= w, w <= (c * m) * m
  PROVE  -(c * m) <= y /\ y <= c * m
<1> DEFINE b == c * m
<1>1. b \in Nat /\ -(b * m) <= w /\ w <= b * m /\ b * m \in Int
  OBVIOUS
<1> HIDE DEF b
<1>2. y <= b
  <2> SUFFICES ASSUME y >= b + 1 PROVE FALSE
    BY <1>1
  <2>1. y - b - 1 \in Nat
    BY <1>1
  <2>2. m * (y - b - 1) >= 0 /\ m * (y - b - 1) = m * y - b * m - m
    BY <1>1, <2>1
  <2> QED BY <1>1, <2>2
<1>3. -b <= y
  <2> SUFFICES ASSUME y <= -b - 1 PROVE FALSE
    BY <1>1
  <2>1. -b - 1 - y \in Nat
    BY <1>1
  <2>2. m * (-b - 1 - y) >= 0 /\ m * (-b - 1 - y) = -(b * m) - m - m * y
    BY <1>1, <2>1
  <2> QED BY <1>1, <2>2
<1> QED BY <1>2, <1>3 DEF b

\* The multiples of the modulus that a dividend may reach
Within_(p, x) ==
  LET b == (((N \div 2) * p.t) * Product(p.main)) * Product(p.main)
  IN  -b <= p.t * x /\ p.t * x <= b

\* Their quotients are in reach: that is what the capacity is for.
LEMMA InReachIs ==
  ASSUME NEW p, IsPlan(p), NEW x \in Int, Within_(p, x)
  PROVE  InReach(p, NearestQuotient(p.t, x, Product(p.main)))
<1> DEFINE m == Product(p.main)
           t == p.t
           c == (N \div 2) * t
           y == NearestQuotient(t, x, m)
           w == t * x
           g == (m - 1) \div 2
           z == Shifted(t, x, m) % m
           top == Product(p.aux)
<1>1. m \in Nat /\ m > 0 /\ m % 2 = 1 /\ t \in Nat /\ t \in Int
  BY PlanNumbers
<1>2. c \in Nat /\ ShiftMultiplier(t) = c + 1
  <2>1. N \div 2 \in Nat
    BY DegreeIs
  <2> DEFINE h == N \div 2
  <2> HIDE DEF h
  <2>2. h \in Nat
    BY <2>1 DEF h
  <2>3. h * t \in Nat
    BY <1>1, <2>2
  <2> QED BY <2>3 DEF ShiftMultiplier, h
<1>3. top \in Int /\ top > 2 * (c + 1) * m
  <2>1. top > Capacity(p.main, t) /\ top \in Int
    BY DEF IsPlan, MainModuli
  <2> QED BY <1>2, <2>1 DEF Capacity
<1>4. y \in Int /\ z \in 0 .. m - 1 /\ m * y = w + g - z
  <2> HIDE DEF m, t
  <2>1. /\ NearestQuotient(t, x, m) \in Int /\ Shifted(t, x, m) % m \in 0 .. m - 1
        /\ m * NearestQuotient(t, x, m) = t * x + (m - 1) \div 2 - (Shifted(t, x, m) % m)
    BY <1>1, QuotientAndRest
  <2> QED BY <2>1
<1>5. w \in Int /\ -((c * m) * m) <= w /\ w <= (c * m) * m
  <2>1. -((c * m) * m) <= w /\ w <= (c * m) * m
    BY DEF Within_
  <2> HIDE DEF t, c, m
  <2> QED BY <1>1, <2>1
<1>6. g \in 0 .. m - 1
  <2> HIDE DEF m
  <2> QED BY <1>1
<1> HIDE DEF w, g, z, y, c, m, top, t
<1>7. -(c * m) <= y /\ y <= c * m
  BY <1>1, <1>2, <1>4, <1>5, <1>6, QuotientIsBounded
<1>8. y + (c + 1) * m \in 0 .. top - 1
  <2>1. (c + 1) * m = c * m + m /\ 2 * (c + 1) * m = 2 * (c * m) + 2 * m /\ c * m \in Int
    BY <1>1, <1>2
  <2> QED BY <1>1, <1>3, <1>4, <1>7, <2>1
<1> QED BY <1>2, <1>8 DEF InReach, y, m, top, t

\* Sums of two products of centered lifts are within it, and the integers
\* below the modulus.
LEMMA ProductsAreWithin ==
  ASSUME NEW p, IsPlan(p), NEW x \in Int,
         LET g == (Product(p.main) - 1) \div 2
         IN  -((g * g) * N + (g * g) * N) <= x /\ x <= (g * g) * N + (g * g) * N
  PROVE  Within_(p, x)
<1> DEFINE m == Product(p.main)
           t == p.t
           g == (m - 1) \div 2
           h == N \div 2
           b == (g * g) * N + (g * g) * N
           top == ((h * t) * m) * m
<1>1. m \in Nat /\ m > 0 /\ m % 2 = 1 /\ t \in Nat
  BY PlanNumbers
<1>2. h \in Nat /\ N = 2 * h /\ N \in Nat
  BY DegreeIs
<1>3. g \in Nat /\ m = 2 * g + 1
  <2> HIDE DEF m
  <2> QED BY <1>1
<1>4. -b <= x /\ x <= b
  OBVIOUS
<1> HIDE DEF m, t, g, h
<1>5. b = 4 * (h * (g * g)) /\ h * (g * g) \in Nat
  <2>1. g * g \in Nat
    BY <1>3
  <2> DEFINE gg == g * g
  <2> HIDE DEF gg
  <2>2. gg \in Nat
    BY <2>1 DEF gg
  <2>3. gg * N + gg * N = 4 * (h * gg) /\ h * gg \in Nat
    BY <1>2, <2>2
  <2> QED BY <2>3 DEF gg
<1>6. m * m = 4 * (g * g) + 4 * g + 1
  BY <1>3
<1>7. top = 4 * ((h * t) * (g * g)) + (h * t) * (4 * g + 1) /\ (h * t) * (4 * g + 1) >= 0
  <2> DEFINE ht == h * t
             gg == g * g
             mm == m * m
  <2>1. ht \in Nat /\ gg \in Nat /\ mm \in Nat /\ (ht * m) * m = ht * mm
    BY <1>1, <1>2, <1>3
  <2>2. mm = 4 * gg + 4 * g + 1
    BY <1>6
  <2> HIDE DEF ht, gg, mm
  <2>3. ht * mm = 4 * (ht * gg) + ht * (4 * g + 1) /\ ht * (4 * g + 1) >= 0
    BY <1>3, <2>1, <2>2
  <2> QED BY <2>1, <2>3 DEF ht, gg
<1>8. t * b = 4 * ((h * t) * (g * g)) /\ t * b \in Nat
  <2> DEFINE gg == g * g
  <2>1. gg \in Nat
    BY <1>3
  <2> HIDE DEF gg
  <2>2. b = 4 * (h * gg) /\ t * (4 * (h * gg)) = 4 * ((h * t) * gg) /\ t * (4 * (h * gg)) \in Nat
    BY <1>1, <1>2, <1>5, <2>1 DEF gg
  <2> HIDE DEF b
  <2> QED BY <2>2 DEF gg
<1>9. b \in Nat
  BY <1>5
<1> HIDE DEF b, top
<1>10. -(t * b) <= t * x /\ t * x <= t * b
  <2>1. t * (b - x) >= 0 /\ t * (b + x) >= 0
    <3>1. b - x \in Nat /\ b + x \in Nat
      BY <1>4, <1>9
    <3> QED BY <1>1, <3>1
  <2>2. t * (b - x) = t * b - t * x /\ t * (b + x) = t * b + t * x
    BY <1>1, <1>9
  <2> QED BY <1>1, <1>9, <2>1, <2>2
<1>11. -top <= t * x /\ t * x <= top
  <2> DEFINE tx == t * x
             tb == t * b
             r == (h * t) * (4 * g + 1)
  <2>1. tx \in Int /\ tb \in Int /\ -tb <= tx /\ tx <= tb /\ r >= 0 /\ top = tb + r /\ r \in Int
    BY <1>1, <1>2, <1>3, <1>7, <1>8, <1>9, <1>10
  <2> HIDE DEF tx, tb, r
  <2>2. -top <= tx /\ tx <= top
    BY <2>1
  <2> QED BY <2>2 DEF tx
<1> QED BY <1>11 DEF Within_, top, h, t, m

LEMMA PhasesAreWithin ==
  ASSUME NEW p, IsPlan(p), NEW x \in 0 .. Product(p.main) - 1
  PROVE  Within_(p, x)
<1> DEFINE m == Product(p.main)
           t == p.t
           h == N \div 2
           top == ((h * t) * m) * m
<1>1. m \in Nat /\ m > 0 /\ t \in Nat
  BY PlanNumbers
<1>2. h \in Nat /\ h >= 1
  BY DegreeIs
<1>3. x \in 0 .. m - 1
  OBVIOUS
<1> HIDE DEF m, t, h
<1>4. t * x >= 0 /\ t * x <= t * m /\ t * m \in Nat /\ t * x \in Int
  <2>1. t * (m - x) >= 0 /\ t * (m - x) = t * m - t * x /\ t * x >= 0 /\ x \in Nat
    BY <1>1, <1>3
  <2> QED BY <1>1, <2>1
<1>5. t * m <= top
  <2> DEFINE k == t * m
  <2>1. k \in Nat /\ top = (h * m) * k
    BY <1>1, <1>2, <1>3
  <2>2. h * m >= 1 /\ h * m \in Nat
    <3>1. (h - 1) * m >= 0 /\ (h - 1) * m = h * m - m /\ h * m \in Nat
      BY <1>1, <1>2
    <3> QED BY <1>1, <3>1
  <2> DEFINE j == h * m
  <2> HIDE DEF k, top, j
  <2>3. (j - 1) * k >= 0 /\ (j - 1) * k = j * k - k
    BY <2>1, <2>2 DEF j
  <2>4. top = j * k /\ j \in Nat
    BY <2>1, <2>2 DEF j
  <2>5. k <= top
    BY <2>1, <2>3, <2>4
  <2> QED BY <2>5 DEF k
<1>6. top \in Nat
  BY <1>1, <1>2
<1> HIDE DEF top
<1>7. -top <= t * x /\ t * x <= top
  BY <1>4, <1>5, <1>6
<1> QED BY <1>7 DEF Within_, top, t, m, h

\* The rounded quotients, as they are meant
Quotients(p, w) == [k \in Powers |-> Quotient(p.t * w[k], Modulus(p))]

\* Coefficient by coefficient, an integer polynomial is rounded exactly.
LEMMA ResiduesAt ==
  ASSUME NEW main, MainModuli(main), NEW w \in Polynomials, NEW k \in Powers
  PROVE  AreResiduesOf(At(InRing(main, w), k), main, w[k])
<1>1. /\ main \in Seq(Nat \ {0}) /\ DOMAIN main = 1 .. Len(main) /\ w[k] \in Int
      /\ \A i \in 1 .. Len(main) : main[i] \in Nat /\ main[i] > 0
  BY DEF MainModuli, Polynomials
<1>2. InRing(main, w) = [i \in DOMAIN main |-> Mod(w, main[i])]
  BY <1>1, InRingIs
<1>3. ASSUME NEW i \in 1 .. Len(main)
      PROVE  At(InRing(main, w), k)[i] \in Nat /\ Same(At(InRing(main, w), k)[i], w[k], main[i])
  <2>1. At(InRing(main, w), k)[i] = Mod(w, main[i])[k]
    BY <1>1, <1>2 DEF At
  <2>2. Mod(w, main[i])[k] = w[k] % main[i]
    BY <1>1, ModIs
  <2>3. w[k] % main[i] \in 0 .. main[i] - 1 /\ Same(w[k] % main[i], w[k], main[i])
    BY Zenon, <1>1, ResidueIsSame
  <2> QED BY <1>1, <2>1, <2>2, <2>3
<1> QED BY <1>3 DEF AreResiduesOf

LEMMA QuotientsAre ==
  ASSUME NEW p, IsPlan(p), NEW w \in Polynomials
  PROVE  /\ Quotients(p, w) \in Polynomials
         /\ \A k \in Powers : Quotients(p, w)[k] = NearestQuotient(p.t, w[k], Product(p.main))
<1> DEFINE m == Product(p.main)
           t == p.t
<1>1. m \in Nat /\ m > 0 /\ m % 2 = 1 /\ t \in Nat /\ Modulus(p) = m
  BY PlanNumbers
<1>2. ASSUME NEW k \in Powers
      PROVE  /\ Quotients(p, w)[k] = NearestQuotient(t, w[k], m)
             /\ Quotients(p, w)[k] \in Int
  <2>1. Quotients(p, w)[k] = Quotient(t * w[k], m)
    BY <1>1 DEF Quotients
  <2>2. w[k] \in Int
    BY DEF Polynomials
  <2> HIDE DEF m, t
  <2>3. Quotient(t * w[k], m) = NearestQuotient(t, w[k], m)
    BY Zenon, <1>1, <2>2, QuotientIsNearest
  <2>4. NearestQuotient(t, w[k], m) \in Int
    BY Zenon, <1>1, <2>2, QuotientAndRest
  <2> QED BY <2>1, <2>3, <2>4
<1>3. Quotients(p, w) = [k \in Powers |-> Quotients(p, w)[k]]
  BY DEF Quotients
<1>4. Quotients(p, w) \in Polynomials
  BY <1>2, <1>3 DEF Polynomials
<1> QED BY <1>2, <1>4

LEMMA PolynomialRounds ==
  ASSUME NEW p, IsPlan(p), NEW w \in Polynomials, \A k \in Powers : Within_(p, w[k])
  PROVE  Rounded(p, InRing(p.main, w), InRing(p.aux, w)) = InRing(p.main, Quotients(p, w))
<1> DEFINE main == p.main
           aux == p.aux
           x == InRing(main, w)
           a == InRing(aux, w)
           y == Quotients(p, w)
           at == [k \in Powers |-> ScaleRound(p, At(x, k), At(a, k))]
<1>1. /\ MainModuli(main) /\ MainModuli(aux) /\ LanesOf(p) = DOMAIN main
      /\ DOMAIN main = 1 .. Len(main)
  BY PlanNumbers
<1>2. y \in Polynomials /\ \A k \in Powers : y[k] = NearestQuotient(p.t, w[k], Product(main))
  BY QuotientsAre
<1>3. ASSUME NEW k \in Powers PROVE at[k] = ResiduesOf(main, y[k])
  <2>1. w[k] \in Int /\ Within_(p, w[k])
    BY DEF Polynomials
  <2>2. AreResiduesOf(At(x, k), main, w[k]) /\ AreResiduesOf(At(a, k), aux, w[k])
    BY <1>1, ResiduesAt
  <2>3. InReach(p, NearestQuotient(p.t, w[k], Product(main)))
    BY <2>1, InReachIs
  <2> HIDE DEF x, a, y
  <2>4. ScaleRound(p, At(x, k), At(a, k)) = ResiduesOf(main, NearestQuotient(p.t, w[k], Product(main)))
    BY <2>1, <2>2, <2>3, ScaleRoundIs
  <2> QED BY <1>2, <2>4
<1>4. Rounded(p, x, a) = [i \in LanesOf(p) |-> [k \in Powers |-> at[k][i]]]
  <2> HIDE DEF x, a
  <2>1. Computed(at) = at
    <3> HIDE DEF at
    <3> QED BY ComputedIs
  <2>2. Rounded(p, x, a) = [i \in LanesOf(p) |-> [k \in Powers |-> Computed(at)[k][i]]]
    BY DEF Rounded
  <2> HIDE DEF at
  <2> QED BY <2>1, <2>2
<1>5. InRing(main, y) = [i \in DOMAIN main |-> [k \in Powers |-> y[k] % main[i]]]
  <2>1. main \in Seq(Nat \ {0}) /\ \A i \in DOMAIN main : main[i] \in Nat /\ main[i] > 0
    BY <1>1 DEF MainModuli
  <2> HIDE DEF y, main
  <2>2. InRing(main, y) = [i \in DOMAIN main |-> Mod(y, main[i])]
    BY <1>2, <2>1, InRingIs
  <2>3. \A i \in DOMAIN main : Mod(y, main[i]) = [k \in Powers |-> y[k] % main[i]]
    BY <1>2, <2>1, ModIs
  <2> QED BY <2>2, <2>3
<1>6. \A k \in Powers : \A i \in DOMAIN main : at[k][i] = y[k] % main[i]
  <2> HIDE DEF at, y
  <2> QED BY Zenon, <1>3 DEF ResiduesOf
<1> HIDE DEF at, y, x, a
<1>7. Rounded(p, x, a) = InRing(main, y)
  BY <1>1, <1>4, <1>5, <1>6
<1> QED BY <1>7 DEF x, a, y

-----------------------------------------------------------------------------
(* The tensor.                                                              *)

\* The centered lifts of a ciphertext, and what a pair of them is
Lifts(p, ct) == <<Lift(p, ct[1]), Lift(p, ct[2])>>

\* The integer tensor of two pairs of polynomials
WholeTensor(a, b) ==
  <<Negacyclic(a[1], b[1]), Plus(Negacyclic(a[1], b[2]), Negacyclic(a[2], b[1])),
    Negacyclic(a[2], b[2])>>

IsPair(a, bound) == \A e \in {1, 2} : a[e] \in Polynomials /\ Bounded(a[e], bound)

InRingPair(moduli, a) == <<InRing(moduli, a[1]), InRing(moduli, a[2])>>

\* The tensor in residues is that of the integer tensor.
LEMMA ComponentsAre ==
  ASSUME NEW moduli \in Seq(Nat \ {0}), NEW a, NEW b, NEW c \in Nat, IsPair(a, c), IsPair(b, c)
  PROVE  /\ \A e \in 1 .. 3 :
              /\ WholeTensor(a, b)[e] \in Polynomials
              /\ Components(moduli, InRingPair(moduli, a), InRingPair(moduli, b))[e]
                   = InRing(moduli, WholeTensor(a, b)[e])
<1> DEFINE x == InRingPair(moduli, a)
           y == InRingPair(moduli, b)
<1>1. /\ a[1] \in Polynomials /\ a[2] \in Polynomials
      /\ b[1] \in Polynomials /\ b[2] \in Polynomials
  BY DEF IsPair
<1>2. /\ x[1] = InRing(moduli, a[1]) /\ x[2] = InRing(moduli, a[2])
      /\ y[1] = InRing(moduli, b[1]) /\ y[2] = InRing(moduli, b[2])
  BY DEF InRingPair
<1>3. \A i, j \in {1, 2} :
        /\ Negacyclic(a[i], b[j]) \in Polynomials
        /\ RingMul(moduli, x[i], y[j]) = InRing(moduli, Negacyclic(a[i], b[j]))
  <2> SUFFICES ASSUME NEW i \in {1, 2}, NEW j \in {1, 2}
               PROVE  /\ Negacyclic(a[i], b[j]) \in Polynomials
                      /\ RingMul(moduli, x[i], y[j]) = InRing(moduli, Negacyclic(a[i], b[j]))
    OBVIOUS
  <2>1. /\ a[i] \in Polynomials /\ b[j] \in Polynomials
        /\ x[i] = InRing(moduli, a[i]) /\ y[j] = InRing(moduli, b[j])
    BY <1>1, <1>2
  <2> HIDE DEF x, y
  <2>2. RingMul(moduli, InRing(moduli, a[i]), InRing(moduli, b[j])) = InRing(moduli, Negacyclic(a[i], b[j]))
    BY <2>1, RingMulOf
  <2> QED BY <2>1, <2>2, NegacyclicIs
<1> HIDE DEF x, y
<1> DEFINE u == Negacyclic(a[1], b[2])
           v == Negacyclic(a[2], b[1])
<1>4. u \in Polynomials /\ v \in Polynomials
  BY <1>3
<1>5. Plus(u, v) \in Polynomials /\ RingAdd(moduli, InRing(moduli, u), InRing(moduli, v)) = InRing(moduli, Plus(u, v))
  <2> HIDE DEF u, v
  <2> QED BY <1>4, PlusIs, RingAddOf
<1>6. RingAdd(moduli, RingMul(moduli, x[1], y[2]), RingMul(moduli, x[2], y[1])) = InRing(moduli, Plus(u, v))
  BY <1>3, <1>5
<1> DEFINE w == WholeTensor(a, b)
           z == Components(moduli, x, y)
<1>7. w[1] = Negacyclic(a[1], b[1]) /\ w[2] = Plus(u, v) /\ w[3] = Negacyclic(a[2], b[2])
  BY DEF WholeTensor
<1>8. /\ z[1] = RingMul(moduli, x[1], y[1])
      /\ z[2] = RingAdd(moduli, RingMul(moduli, x[1], y[2]), RingMul(moduli, x[2], y[1]))
      /\ z[3] = RingMul(moduli, x[2], y[2])
  BY DEF Components
<1> HIDE DEF w, z, u, v
<1>9. \A e \in {1, 2, 3} : w[e] \in Polynomials /\ z[e] = InRing(moduli, w[e])
  BY <1>3, <1>5, <1>6, <1>7, <1>8
<1>10. 1 .. 3 = {1, 2, 3}
  OBVIOUS
<1> QED BY <1>9, <1>10 DEF w, z, x, y

LEMMA TensorIsBounded ==
  ASSUME NEW a, NEW b, NEW c \in Nat, IsPair(a, c), IsPair(b, c), NEW e \in 1 .. 3
  PROVE  Bounded(WholeTensor(a, b)[e], (c * c) * N + (c * c) * N)
<1> DEFINE d == (c * c) * N
           w == WholeTensor(a, b)
<1>0. d \in Nat
  <2>1. c * c \in Nat /\ N \in Nat
    BY DegreeIs
  <2> DEFINE cc == c * c
  <2> HIDE DEF cc
  <2>2. cc \in Nat /\ N \in Nat
    BY <2>1 DEF cc
  <2>3. cc * N \in Nat
    BY <2>2
  <2> QED BY <2>3 DEF cc
<1>1. \A i, j \in {1, 2} :
        Negacyclic(a[i], b[j]) \in Polynomials /\ Bounded(Negacyclic(a[i], b[j]), d)
  <2> SUFFICES ASSUME NEW i \in {1, 2}, NEW j \in {1, 2}
               PROVE  Negacyclic(a[i], b[j]) \in Polynomials /\ Bounded(Negacyclic(a[i], b[j]), d)
    OBVIOUS
  <2>1. a[i] \in Polynomials /\ Bounded(a[i], c) /\ b[j] \in Polynomials /\ Bounded(b[j], c)
    BY DEF IsPair
  <2> QED BY <2>1, NegacyclicIs, NegacyclicIsBounded
<1> HIDE DEF d
<1>2. \A f \in Polynomials : Bounded(f, d) => Bounded(f, d + d)
  <2> SUFFICES ASSUME NEW f \in Polynomials, Bounded(f, d), NEW k \in Powers
               PROVE  -(d + d) <= f[k] /\ f[k] <= d + d
    BY DEF Bounded
  <2>1. f[k] \in Int /\ -d <= f[k] /\ f[k] <= d
    BY DEF Polynomials, Bounded
  <2> QED BY <1>0, <2>1
<1>3. Bounded(Plus(Negacyclic(a[1], b[2]), Negacyclic(a[2], b[1])), d + d)
  BY <1>0, <1>1, PlusIsBounded
<1>4. /\ w[1] = Negacyclic(a[1], b[1])
      /\ w[2] = Plus(Negacyclic(a[1], b[2]), Negacyclic(a[2], b[1]))
      /\ w[3] = Negacyclic(a[2], b[2])
  BY DEF WholeTensor
<1> HIDE DEF w
<1>5. \A f \in {1, 2, 3} : Bounded(w[f], d + d)
  BY <1>1, <1>2, <1>3, <1>4
<1>6. e \in {1, 2, 3}
  OBVIOUS
<1> QED BY <1>5, <1>6 DEF w, d

\* Two elements of the ring
IsCiphertext(c, moduli) ==
  /\ c = <<c[1], c[2]>> /\ IsElement(c[1], moduli) /\ IsElement(c[2], moduli)

\* The tensor is the rounded quotient of the integer tensor of the lifts.
LEMMA TensorIsExact ==
  ASSUME NEW p, IsPlan(p), NEW x, IsCiphertext(x, p.main), NEW y, IsCiphertext(y, p.main),
         NEW e \in 1 .. 3
  PROVE  /\ WholeTensor(Lifts(p, x), Lifts(p, y))[e] \in Polynomials
         /\ ExactTensor(p, x, y)[e]
              = InRing(p.main, Quotients(p, WholeTensor(Lifts(p, x), Lifts(p, y))[e]))
<1> DEFINE main == p.main
           aux == p.aux
           a == Lifts(p, x)
           b == Lifts(p, y)
           g == (Product(main) - 1) \div 2
           w == WholeTensor(a, b)[e]
           auxOf(c) == <<AuxLimbs(p, c[1]), AuxLimbs(p, c[2])>>
<1>0. main \in Seq(Nat \ {0}) /\ aux \in Seq(Nat \ {0}) /\ g \in Nat
  <2>1. /\ main \in Seq(Nat \ {0}) /\ aux \in Seq(Nat \ {0})
        /\ Product(main) \in Nat /\ Product(main) > 0
    BY PlanNumbers DEF MainModuli
  <2> HIDE DEF main
  <2> QED BY <2>1
<1>1. \A c : IsCiphertext(c, main) =>
        /\ IsPair(Lifts(p, c), g) /\ InRingPair(main, Lifts(p, c)) = c
        /\ InRingPair(aux, Lifts(p, c)) = auxOf(c)
  <2> SUFFICES ASSUME NEW c, IsCiphertext(c, main)
               PROVE  /\ IsPair(Lifts(p, c), g) /\ InRingPair(main, Lifts(p, c)) = c
                      /\ InRingPair(aux, Lifts(p, c)) = auxOf(c)
    OBVIOUS
  <2>1. IsElement(c[1], main) /\ IsElement(c[2], main) /\ c = <<c[1], c[2]>>
    BY DEF IsCiphertext
  <2>2. /\ Lift(p, c[1]) \in Polynomials /\ Bounded(Lift(p, c[1]), g)
        /\ InRing(main, Lift(p, c[1])) = c[1] /\ AuxLimbs(p, c[1]) = InRing(aux, Lift(p, c[1]))
    BY <2>1, LiftIs
  <2>3. /\ Lift(p, c[2]) \in Polynomials /\ Bounded(Lift(p, c[2]), g)
        /\ InRing(main, Lift(p, c[2])) = c[2] /\ AuxLimbs(p, c[2]) = InRing(aux, Lift(p, c[2]))
    BY <2>1, LiftIs
  <2>4. Lifts(p, c)[1] = Lift(p, c[1]) /\ Lifts(p, c)[2] = Lift(p, c[2])
    BY DEF Lifts
  <2> HIDE DEF main, aux, g
  <2>5. IsPair(Lifts(p, c), g)
    BY <2>2, <2>3, <2>4 DEF IsPair
  <2>6. InRingPair(main, Lifts(p, c)) = <<c[1], c[2]>> /\ InRingPair(aux, Lifts(p, c)) = auxOf(c)
    BY <2>2, <2>3, <2>4 DEF InRingPair
  <2> QED BY <2>1, <2>5, <2>6
<1>2. IsPair(a, g) /\ IsPair(b, g)
  BY <1>1
<1>3. /\ w \in Polynomials
      /\ Components(main, x, y)[e] = InRing(main, w)
      /\ Components(aux, auxOf(x), auxOf(y))[e] = InRing(aux, w)
  <2>1. /\ InRingPair(main, a) = x /\ InRingPair(main, b) = y
        /\ InRingPair(aux, a) = auxOf(x) /\ InRingPair(aux, b) = auxOf(y)
    BY <1>1
  <2> HIDE DEF a, b, main, aux, auxOf, g
  <2> QED BY <1>0, <1>2, <2>1, ComponentsAre
<1>4. \A k \in Powers : Within_(p, w[k])
  <2> SUFFICES ASSUME NEW k \in Powers PROVE Within_(p, w[k])
    OBVIOUS
  <2>1. Bounded(w, (g * g) * N + (g * g) * N)
    <3> HIDE DEF a, b, g
    <3> QED BY <1>0, <1>2, TensorIsBounded
  <2> HIDE DEF w
  <2>2. w[k] \in Int
    BY <1>3 DEF Polynomials
  <2>3. -((g * g) * N + (g * g) * N) <= w[k] /\ w[k] <= (g * g) * N + (g * g) * N
    BY <2>1 DEF Bounded
  <2> QED BY <2>2, <2>3, ProductsAreWithin
<1>5. ExactTensor(p, x, y)[e]
        = Rounded(p, Components(main, x, y)[e], Components(aux, auxOf(x), auxOf(y))[e])
  BY DEF ExactTensor
<1> HIDE DEF w
<1>6. Rounded(p, InRing(main, w), InRing(aux, w)) = InRing(main, Quotients(p, w))
  BY <1>3, <1>4, PolynomialRounds
<1> QED BY <1>3, <1>5, <1>6 DEF w

\* A prime that is 1 modulo 2 * N is odd.
LEMMA OddModulus ==
  ASSUME NEW a \in Nat, (a - 1) % (2 * N) = 0
  PROVE  a % 2 = 1
<1> DEFINE k == (a - 1) \div (2 * N)
           n == 2 * N
<1>1. n \in Nat /\ n > 0 /\ a - 1 \in Int /\ N \in Nat
  BY DegreeIs
<1>2. a - 1 = n * k + ((a - 1) % n) /\ k \in Int
  <2> DEFINE b == a - 1
  <2>1. b \in Int
    OBVIOUS
  <2> HIDE DEF b, n
  <2>2. b = n * (b \div n) + (b % n) /\ b \div n \in Int
    BY <1>1, <2>1, Division
  <2> QED BY <2>2 DEF b, n
<1>3. (a - 1) % n = 0
  OBVIOUS
<1> HIDE DEF k
<1>4. n * k = 2 * (N * k) /\ N * k \in Int
  BY <1>1, <1>2
<1> DEFINE j == N * k
<1> HIDE DEF n
<1>5. a = 2 * j + 1 /\ j \in Int
  BY <1>1, <1>2, <1>3, <1>4
<1> HIDE DEF j
<1> QED BY <1>5

\* What the constructor accepts is a plan.
LEMMA PlanIs ==
  ASSUME NEW main \in Seq(Nat), NEW t \in Nat, Plans(main, t)
  PROVE  IsPlan(NewPlan(main, t))
<1> DEFINE pool == Pool(main, t)
           k == Min(LongEnough(main, t))
           aux == SubSeq(pool, 1, k)
           p == NewPlan(main, t)
<1>1. /\ t >= 2 /\ LongEnough(main, t) # {}
      /\ \A j \in DOMAIN pool :
           (pool[j] - 1) % (2 * N) = 0 /\ \A i \in DOMAIN main : Coprime(main[i], pool[j])
      /\ Extends(main, aux) /\ Extends(aux, main)
      /\ \A i \in DOMAIN main : main[i] % 2 = 1
  BY DEF Plans
<1>2. pool \in Seq(Nat)
  BY ExactMultiplicationAssumption DEF Pool
<1>3. k \in LongEnough(main, t)
  <2> DEFINE S == LongEnough(main, t)
  <2>1. S \subseteq Nat /\ S # {}
    BY <1>1, <1>2 DEF LongEnough
  <2> HIDE DEF S
  <2>2. \E n \in S : \A y \in S : n <= y
    BY Zenon, <2>1, LeastElement
  <2> QED BY <2>2 DEF Min, S
<1>4. k \in 1 .. Len(pool) /\ Product(aux) > Capacity(main, t)
  BY <1>2, <1>3 DEF LongEnough
<1> HIDE DEF k, pool
<1>5. aux \in Seq(Nat) /\ Len(aux) = k /\ \A j \in 1 .. k : aux[j] = pool[j]
  BY <1>2, <1>4
<1>6. DOMAIN pool = 1 .. Len(pool) /\ Len(pool) \in Nat /\ DOMAIN main = 1 .. Len(main)
  BY <1>2
<1>7. p.main = main /\ p.aux = aux /\ p.t = t
  BY Zenon DEF NewPlan, k, pool
<1> HIDE DEF aux, p
<1>8. MainModuli(main) /\ MainModuli(aux)
  BY <1>1, <1>5, MainModuliAre
<1>9. Len(main) >= 1
  <2>1. main # <<>>
    BY <1>1 DEF Extends
  <2> QED BY <2>1
<1>10. Product(main) % 2 = 1
  <2>1. main \in Seq(Nat \ {0})
    BY <1>8 DEF MainModuli
  <2> QED BY Zenon, <1>1, <1>6, <2>1, ProductIsOdd
<1>11. ASSUME NEW j \in 1 .. Len(aux)
       PROVE  aux[j] % 2 = 1 /\ \A i \in 1 .. Len(main) : Apart(main[i], aux[j])
  <2>1. j \in DOMAIN pool /\ aux[j] = pool[j] /\ aux[j] \in Nat
    BY <1>2, <1>4, <1>5, <1>6, <1>11
  <2>2. (aux[j] - 1) % (2 * N) = 0
    BY <1>1, <2>1
  <2>3. aux[j] % 2 = 1
    BY <2>1, <2>2, OddModulus
  <2>4. ASSUME NEW i \in 1 .. Len(main) PROVE Apart(main[i], aux[j])
    <3>1. i \in DOMAIN main /\ main[i] \in Nat
      BY <1>6
    <3>2. Coprime(main[i], pool[j])
      BY <1>1, <2>1, <3>1
    <3>3. Coprime(main[i], aux[j])
      BY <2>1, <3>2
    <3> QED BY <2>1, <3>1, <3>3, CoprimeIsApart
  <2> QED BY <2>3, <2>4
<1>12. \A j \in 1 .. Len(aux) :
         aux[j] % 2 = 1 /\ \A i \in 1 .. Len(main) : Apart(main[i], aux[j])
  BY <1>11
<1>13. Product(aux) > Capacity(main, t)
  BY <1>4
<1>14. Extends(main, aux) /\ Extends(aux, main) /\ t >= 2
  BY <1>1
<1>15. aux \in Seq(Nat)
  BY <1>5
<1> HIDE DEF aux, p
<1>16. IsPlan(p)
  BY <1>7, <1>8, <1>9, <1>10, <1>12, <1>13, <1>14, <1>15 DEF IsPlan
<1> QED BY <1>16 DEF p

\* An element's sequence of polynomials
LEMMA ElementsAre ==
  ASSUME NEW moduli, NEW e, IsElement(e, moduli)
  PROVE  e \in [1 .. Len(moduli) -> Polynomials]
  BY DEF IsElement

LEMMA SignedIs ==
  ASSUME NEW moduli \in Seq(Nat \ {0}), NEW s \in Polynomials
  PROVE  IsElement(Signed(moduli, s), moduli)
<1>1. Signed(moduli, s) = InRing(moduli, s)
  BY InRingIs DEF Signed
<1> QED BY <1>1, InRingIs

\* A ciphertext's phase
LEMMA PhaseIs ==
  ASSUME NEW p, MainModuli(p.main), NEW c, IsCiphertext(c, p.main), NEW s \in Polynomials
  PROVE  IsElement(Phase(p, c, s), p.main)
<1> DEFINE main == p.main
           key == Signed(main, s)
           shared == RingMul(main, c[2], key)
<1>1. main \in Seq(Nat \ {0})
  BY DEF MainModuli
<1>2. IsElement(c[1], main) /\ IsElement(c[2], main)
  BY DEF IsCiphertext
<1>3. Phase(p, c, s) = RingAdd(main, c[1], shared)
  BY DEF Phase
<1> HIDE DEF main
<1>4. IsElement(key, main)
  BY <1>1, SignedIs
<1> HIDE DEF key
<1>5. IsElement(shared, main)
  BY Zenon, <1>1, <1>2, <1>4, ElementsAre, RingMulIs
<1> HIDE DEF shared
<1>6. IsElement(RingAdd(main, c[1], shared), main)
  BY <1>1, <1>2, <1>5, ElementsAre, RingAddIs
<1> QED BY <1>3, <1>6 DEF main

\* What the lanes answer, when they hold a quotient that every lane can hold
LEMMA AgreedIs ==
  ASSUME NEW p, MainModuli(p.main), Len(p.main) >= 1, p.t \in Nat, p.t < p.main[1],
         NEW y \in 0 .. p.t
  PROVE  Agreed(p, ResiduesOf(p.main, y)) = [ok |-> TRUE, value |-> y % p.t]
<1> DEFINE out == ResiduesOf(p.main, y)
<1>1. /\ DOMAIN p.main = 1 .. Len(p.main) /\ 1 \in DOMAIN p.main /\ p.main[1] \in Nat
      /\ LanesOf(p) = DOMAIN p.main
  BY DEF MainModuli, LanesOf
<1>2. \A i \in DOMAIN p.main : out[i] = y % p.main[i]
  BY DEF ResiduesOf
<1>3. y \in 0 .. p.main[1] - 1
  BY <1>1
<1>4. y % p.main[1] = y
  <2> DEFINE m == p.main[1]
  <2>1. m \in Nat /\ y \in 0 .. m - 1
    BY <1>1, <1>3
  <2> HIDE DEF m
  <2>2. y % m = y
    BY <2>1, SmallResidue
  <2> QED BY <2>2 DEF m
<1> HIDE DEF out
<1>5. out[1] = y
  BY Zenon, <1>1, <1>2, <1>4
<1>6. /\ \A i \in LanesOf(p) : out[i] = out[1] % p.main[i]
      /\ out[1] <= p.t
  BY <1>1, <1>2, <1>5
<1>7. Agreed(p, out) = [ok |-> TRUE, value |-> out[1] % p.t]
  BY <1>6, Zenon DEF Agreed
<1> QED BY <1>5, <1>7 DEF out

\* Decryption rounds the phase: its lanes agree, for every ciphertext.
LEMMA DecryptedIs ==
  ASSUME NEW p, IsPlan(p), p.t < p.main[1], NEW c, IsCiphertext(c, p.main), NEW s \in Polynomials
  PROVE  LET x == Whole(p, At(Phase(p, c, s), 0))
         IN  Decrypted(p, c, s) = [ok |-> TRUE, value |-> Quotient(p.t * x, Modulus(p)) % p.t]
<1> DEFINE main == p.main
           aux == p.aux
           M == Product(main)
           t == p.t
           phase == Phase(p, c, s)
           inner == At(phase, 0)
           x == Whole(p, inner)
           y == NearestQuotient(t, x, M)
           rest == Project(main, aux, inner, FALSE).residues
<1>1. /\ main \in Seq(Nat) /\ aux \in Seq(Nat) /\ MainModuli(main) /\ Len(main) >= 1
      /\ Extends(main, aux) /\ M \in Nat /\ M > 0 /\ M % 2 = 1 /\ Modulus(p) = M
      /\ t \in Nat /\ t >= 2 /\ MainModuli(aux)
  BY Zenon, PlanNumbers DEF IsPlan
<1>2. IsElement(phase, main)
  BY <1>1, PhaseIs
<1>3. AreCoefficients(inner, main)
  <2>1. 0 \in Powers
    BY PowersAre
  <2> HIDE DEF phase, main
  <2> QED BY <1>1, <1>2, <2>1, CoefficientsOf
<1>4. x \in 0 .. M - 1 /\ AreResiduesOf(inner, main, x)
  <2> HIDE DEF inner
  <2>1. HasResidues(x, main, inner)
    BY <1>1, <1>3, WholeIs
  <2> HIDE DEF x
  <2> QED BY <1>1, <1>3, <2>1, HasResiduesOf
<1>5. Decrypted(p, c, s) = Agreed(p, ScaleRound(p, inner, rest))
  BY DEF Decrypted
<1> HIDE DEF inner, x
<1>6. AreResiduesOf(rest, aux, x)
  <2> DEFINE up == FALSE /\ UpperHalf(x, M)
  <2>1. FALSE \in BOOLEAN /\ ~ up
    OBVIOUS
  <2>2. rest = ResiduesOf(aux, IF up THEN x - M ELSE x)
    BY <1>1, <1>4, <2>1, ProjectIs, ZenonT(60)
  <2> HIDE DEF up, rest
  <2>3. rest = ResiduesOf(aux, x)
    BY <2>1, <2>2
  <2>4. x \in Int
    BY <1>4
  <2>5. ASSUME NEW j \in 1 .. Len(aux) PROVE rest[j] \in Nat /\ Same(rest[j], x, aux[j])
    <3>0. aux[j] \in Nat /\ aux[j] >= 2 /\ DOMAIN aux = 1 .. Len(aux)
      BY <1>1, <2>5 DEF MainModuli
    <3>1. aux[j] \in Nat /\ aux[j] > 0 /\ DOMAIN aux = 1 .. Len(aux)
      BY <3>0
    <3>2. rest[j] = x % aux[j]
      BY <2>3, <3>1 DEF ResiduesOf
    <3> DEFINE a == aux[j]
    <3>3. a \in Nat /\ a > 0
      BY <3>1
    <3> HIDE DEF a
    <3>4. x % a \in 0 .. a - 1 /\ Same(x % a, x, a)
      BY Zenon, <2>4, <3>3, ResidueIsSame
    <3>5. x % a \in Nat
      BY <3>3, <3>4
    <3> QED BY <3>2, <3>4, <3>5 DEF a
  <2> QED BY <2>5 DEF AreResiduesOf
<1> HIDE DEF rest
<1>7. x \in Int
  BY <1>1, <1>4
<1>8. Within_(p, x)
  BY <1>4, PhasesAreWithin
<1>9. InReach(p, y)
  BY <1>7, <1>8, InReachIs
<1>10. ScaleRound(p, inner, rest) = ResiduesOf(main, y)
  BY <1>4, <1>6, <1>7, <1>9, ScaleRoundIs
<1>11. y \in 0 .. t
  <2> HIDE DEF M, t
  <2> QED BY <1>1, <1>4, NearestIs
<1>12. Quotient(t * x, M) = y
  <2> HIDE DEF M, t
  <2> QED BY Zenon, <1>1, <1>7, QuotientIsNearest
<1> HIDE DEF y
<1>13. Agreed(p, ResiduesOf(main, y)) = [ok |-> TRUE, value |-> y % t]
  BY <1>1, <1>11, AgreedIs
<1> QED BY <1>1, <1>5, <1>10, <1>12, <1>13 DEF x, inner

-----------------------------------------------------------------------------
(* Keys, ciphertexts and what relinearization makes of them are canonical.  *)

LEMMA MaskedIs ==
  ASSUME NEW p, MainModuli(p.main), NEW s, IsElement(s, p.main),
         NEW draw, draw.mask \in Polynomials, draw.error \in Polynomials,
         NEW message \in [1 .. Len(p.main) -> Polynomials]
  PROVE  IsCiphertext(Masked(p, s, draw, message), p.main)
<1> DEFINE main == p.main
           mask == InRing(main, draw.mask)
           shared == RingMul(main, mask, s)
           error == Signed(main, draw.error)
           noisy == RingAdd(main, shared, error)
           minus == RingNeg(main, noisy)
           body == RingAdd(main, minus, message)
           masked == Masked(p, s, draw, message)
<1>1. main \in Seq(Nat \ {0})
  BY DEF MainModuli
<1>2. masked = <<body, mask>>
  BY DEF Masked
<1> HIDE DEF masked, main
<1>3. IsElement(mask, main)
  BY <1>1, InRingIs
<1>4. s \in [1 .. Len(main) -> Polynomials] /\ message \in [1 .. Len(main) -> Polynomials]
  BY ElementsAre DEF main
<1> HIDE DEF mask
<1>5. IsElement(shared, main)
  BY Zenon, <1>1, <1>3, <1>4, ElementsAre, RingMulIs
<1>6. IsElement(error, main)
  BY <1>1, SignedIs
<1> HIDE DEF shared, error
<1>7. IsElement(noisy, main)
  BY <1>1, <1>5, <1>6, ElementsAre, RingAddIs
<1> HIDE DEF noisy
<1>8. IsElement(minus, main)
  BY <1>1, <1>7, ElementsAre, RingNegIs
<1> HIDE DEF minus
<1>9. IsElement(body, main)
  BY Zenon, <1>1, <1>4, <1>8, ElementsAre, RingAddIs
<1> HIDE DEF body
<1>10. IsCiphertext(masked, main)
  BY <1>2, <1>3, <1>9 DEF IsCiphertext
<1> QED BY <1>10 DEF masked, main

LEMMA CiphertextIs ==
  ASSUME NEW p, MainModuli(p.main), NEW public, IsCiphertext(public, p.main), NEW m,
         NEW draw, draw.u \in Polynomials, draw.e1 \in Polynomials, draw.e2 \in Polynomials,
         m * (Modulus(p) \div p.t) \in Int
  PROVE  IsCiphertext(Ciphertext(p, public, m, draw), p.main)
<1> DEFINE main == p.main
           u == Signed(main, draw.u)
           first == Signed(main, draw.e1)
           second == Signed(main, draw.e2)
           poly == [k \in Powers |-> IF k = 0 THEN m * (Modulus(p) \div p.t) ELSE 0]
           scaled == InRing(main, poly)
           one == RingMul(main, public[1], u)
           two == RingMul(main, public[2], u)
           noisy == RingAdd(main, one, first)
           body == RingAdd(main, noisy, scaled)
           rest == RingAdd(main, two, second)
           c == Ciphertext(p, public, m, draw)
<1>1. main \in Seq(Nat \ {0})
  BY DEF MainModuli
<1>2. c = <<body, rest>>
  BY DEF Ciphertext
<1>3. poly \in Polynomials
  BY DEF Polynomials
<1>4. IsElement(public[1], main) /\ IsElement(public[2], main)
  BY DEF IsCiphertext
<1> HIDE DEF c, main, poly
<1>5. IsElement(u, main) /\ IsElement(first, main) /\ IsElement(second, main)
  BY <1>1, SignedIs
<1>6. IsElement(scaled, main)
  BY <1>1, <1>3, InRingIs
<1> HIDE DEF u, first, second, scaled
<1>7. IsElement(one, main) /\ IsElement(two, main)
  BY Zenon, <1>1, <1>4, <1>5, ElementsAre, RingMulIs
<1> HIDE DEF one, two
<1>8. IsElement(noisy, main) /\ IsElement(rest, main)
  BY <1>1, <1>5, <1>7, ElementsAre, RingAddIs
<1> HIDE DEF noisy, rest
<1>9. IsElement(body, main)
  BY Zenon, <1>1, <1>6, <1>8, ElementsAre, RingAddIs
<1> HIDE DEF body
<1>10. IsCiphertext(c, main)
  BY <1>2, <1>8, <1>9 DEF IsCiphertext
<1> QED BY <1>10 DEF c, main

LEMMA ImportIs ==
  ASSUME NEW moduli \in Seq(Nat \ {0}), NEW a \in Polynomials, NEW b \in Polynomials
  PROVE  IsCiphertext(<<InRing(moduli, a), InRing(moduli, b)>>, moduli)
<1> DEFINE x == InRing(moduli, a)
           y == InRing(moduli, b)
<1>1. IsElement(x, moduli) /\ IsElement(y, moduli)
  BY InRingIs
<1> HIDE DEF x, y
<1>2. IsCiphertext(<<x, y>>, moduli)
  BY <1>1 DEF IsCiphertext
<1> QED BY <1>2 DEF x, y

\* Positions in the gadget key
Positions(p) == UNION {{<<i, j>> : j \in 0 .. p.digits[i] - 1} : i \in LanesOf(p)}

LEMMA PositionsAre ==
  ASSUME NEW p, MainModuli(p.main), \A i \in LanesOf(p) : p.digits[i] \in Nat
  PROVE  /\ IsFiniteSet(Positions(p))
         /\ \A ij \in Positions(p) : ij[1] \in LanesOf(p) /\ ij[2] \in 0 .. p.digits[ij[1]] - 1
<1> DEFINE row(i) == {<<i, j>> : j \in 0 .. p.digits[i] - 1}
           rows == {row(i) : i \in LanesOf(p)}
<1>1. LanesOf(p) = 1 .. Len(p.main) /\ Len(p.main) \in Nat
  BY DEF MainModuli, LanesOf
<1>2. ASSUME NEW i \in LanesOf(p) PROVE IsFiniteSet(row(i))
  <2> DEFINE S == 0 .. p.digits[i] - 1
             f == [j \in S |-> <<i, j>>]
  <2>1. IsFiniteSet(S)
    <3>1. p.digits[i] - 1 \in Int /\ 0 \in Int
      OBVIOUS
    <3> QED BY Zenon, <3>1, FS_Interval
  <2> HIDE DEF S
  <2>2. f \in Surjection(S, {<<i, j>> : j \in S})
    BY DEF Surjection
  <2> HIDE DEF f
  <2>3. IsFiniteSet({<<i, j>> : j \in S})
    BY <2>1, <2>2, FS_Surjection
  <2> QED BY <2>3 DEF S
<1>3. IsFiniteSet(rows)
  <2> DEFINE g == [i \in LanesOf(p) |-> row(i)]
  <2>1. IsFiniteSet(LanesOf(p))
    <3>1. 1 \in Int /\ Len(p.main) \in Int
      BY <1>1
    <3> QED BY <1>1, <3>1, FS_Interval
  <2> HIDE DEF row
  <2>2. g \in Surjection(LanesOf(p), rows)
    BY DEF Surjection
  <2> HIDE DEF g, rows
  <2> QED BY <2>1, <2>2, FS_Surjection
<1>4. \A s \in rows : IsFiniteSet(s)
  <2> HIDE DEF row
  <2> QED BY <1>2
<1>5. IsFiniteSet(UNION rows)
  <2> HIDE DEF rows
  <2> QED BY <1>3, <1>4, FS_UNION
<1>6. Positions(p) = UNION rows
  BY DEF Positions
<1>7. ASSUME NEW ij \in Positions(p)
      PROVE  ij[1] \in LanesOf(p) /\ ij[2] \in 0 .. p.digits[ij[1]] - 1
  <2>1. PICK i \in LanesOf(p) : ij \in row(i)
    BY DEF Positions
  <2>2. PICK j \in 0 .. p.digits[i] - 1 : ij = <<i, j>>
    BY <2>1
  <2> QED BY <2>2
<1> QED BY <1>5, <1>6, <1>7

\* Digits are natural numbers.
LEMMA DigitIs ==
  ASSUME NEW c \in Nat, NEW j \in Nat
  PROVE  Digit(c, j) \in Nat
<1>1. BaseBits \in Nat /\ BaseBits * j \in Nat
  <2>1. BaseBits \in Nat
    BY ExactMultiplicationAssumption
  <2> QED BY <2>1
<1>2. /\ TwoTo[BaseBits * j] \in Nat /\ TwoTo[BaseBits * j] > 0
      /\ TwoTo[BaseBits] \in Nat /\ TwoTo[BaseBits] > 0
  BY <1>1, TwoToIs
<1> DEFINE d == TwoTo[BaseBits * j]
           b == TwoTo[BaseBits]
           q == c \div d
<1> HIDE DEF d, b
<1>3. q \in Int
  BY <1>2, Division DEF d
<1> HIDE DEF q
<1>4. q % b \in 0 .. b - 1
  BY <1>2, <1>3, Division DEF b
<1>5. q % b \in Nat
  BY <1>2, <1>4 DEF b
<1> QED BY <1>5 DEF Digit, q, d, b

\* A gadget key of ciphertexts
IsGadget(p, gadget) ==
  \A i \in LanesOf(p) : \A j \in 0 .. p.digits[i] - 1 : IsCiphertext(gadget[i][j], p.main)

LEMMA LaneFoldIs ==
  ASSUME NEW p, MainModuli(p.main), \A i \in LanesOf(p) : p.digits[i] \in Nat,
         NEW element, IsElement(element, p.main), NEW gadget, IsGadget(p, gadget),
         NEW component \in {1, 2}, NEW l \in LanesOf(p)
  PROVE  LaneFold(p, element, gadget, component, l) \in Polynomials
<1> DEFINE m == p.main[l]
           digits(i, j) == [k \in Powers |-> Digit(element[i][k], j) % m]
           product(i, j) == Mod(Negacyclic(digits(i, j), gadget[i][j][component][l]), m)
           terms(k) == [ij \in Positions(p) |-> product(ij[1], ij[2])[k]]
<1>1. LanesOf(p) = 1 .. Len(p.main)
  BY DEF MainModuli, LanesOf
<1>2. m \in Nat /\ m > 0
  <2>1. m \in Nat /\ m >= 2
    BY <1>1 DEF MainModuli
  <2> QED BY <2>1
<1>3. ASSUME NEW i \in LanesOf(p), NEW j \in 0 .. p.digits[i] - 1
      PROVE  product(i, j) \in Polynomials
  <2>1. ASSUME NEW k \in Powers PROVE Digit(element[i][k], j) % m \in Int
    <3>1. element[i][k] \in 0 .. p.main[i] - 1
      BY <1>1 DEF IsElement
    <3>2. element[i][k] \in Nat /\ j \in Nat
      <4>1. p.main[i] \in Nat
        BY <1>1 DEF MainModuli
      <4> QED BY <3>1, <4>1
    <3>3. Digit(element[i][k], j) \in Nat
      BY Zenon, <3>2, DigitIs
    <3> DEFINE d == Digit(element[i][k], j)
    <3> HIDE DEF d, m
    <3>4. d % m \in 0 .. m - 1
      BY <1>2, <3>3, Division DEF d
    <3>5. d % m \in Int
      BY <3>4
    <3> QED BY <3>5 DEF d
  <2>2. digits(i, j) \in Polynomials
    <3> HIDE DEF m
    <3> QED BY <2>1 DEF Polynomials, m
  <2>3. gadget[i][j][component][l] \in Polynomials
    <3>1. IsCiphertext(gadget[i][j], p.main)
      BY DEF IsGadget
    <3>2. IsElement(gadget[i][j][component], p.main)
      BY <3>1 DEF IsCiphertext
    <3> QED BY <1>1, <3>2 DEF IsElement
  <2> DEFINE a == digits(i, j)
             b == gadget[i][j][component][l]
  <2> HIDE DEF a, b, m
  <2>4. Negacyclic(a, b) \in Polynomials
    BY <2>2, <2>3, NegacyclicIs DEF a, b
  <2>5. Mod(Negacyclic(a, b), m) \in Polynomials
    BY <1>2, <2>4, ModIs
  <2> QED BY <2>5 DEF a, b
<1>4. ASSUME NEW k \in Powers PROVE terms(k) \in [Positions(p) -> Int]
  <2> HIDE DEF product
  <2>1. ASSUME NEW ij \in Positions(p) PROVE product(ij[1], ij[2])[k] \in Int
    <3>1. ij[1] \in LanesOf(p) /\ ij[2] \in 0 .. p.digits[ij[1]] - 1
      BY PositionsAre
    <3>2. product(ij[1], ij[2]) \in Polynomials
      BY <1>3, <3>1
    <3> QED BY <3>2 DEF Polynomials
  <2> QED BY <2>1
<1>5. ASSUME NEW k \in Powers PROVE Total(terms(k)) % m \in Int
  <2> DEFINE f == terms(k)
  <2>1. f \in [Positions(p) -> Int]
    BY <1>4
  <2>2. IsFiniteSet(Positions(p))
    BY PositionsAre
  <2> HIDE DEF f, m
  <2>3. Total(f) \in Int
    BY <2>1, <2>2, TotalIsInt
  <2>4. Total(f) % m \in 0 .. m - 1
    BY <1>2, <2>3, Division
  <2>5. Total(f) % m \in Int
    BY <2>4
  <2> QED BY Zenon, <2>5 DEF f
<1>6. LaneFold(p, element, gadget, component, l) = [k \in Powers |-> Total(terms(k)) % m]
  BY Zenon DEF LaneFold, SumOver, Total, Positions
<1> HIDE DEF terms, m
<1> QED BY <1>5, <1>6 DEF Polynomials

\* Each lane has a number of digits.
LEMMA PlanDigits ==
  ASSUME NEW main \in Seq(Nat), NEW t \in Nat, MainModuli(main)
  PROVE  \A i \in LanesOf(NewPlan(main, t)) : NewPlan(main, t).digits[i] \in Nat
<1> DEFINE p == NewPlan(main, t)
<1>1. LanesOf(p) = DOMAIN main /\ p.digits = [i \in DOMAIN main |-> GadgetDigits(main[i])]
  BY DEF LanesOf, NewPlan
<1>2. ASSUME NEW i \in DOMAIN main PROVE GadgetDigits(main[i]) \in Nat
  <2>1. main[i] \in Nat
    OBVIOUS
  <2> DEFINE w == BitLength(main[i])
  <2>2. w \in Nat
    BY <2>1, BitLengthIs
  <2>3. BaseBits \in Nat /\ BaseBits >= 1
    BY ExactMultiplicationAssumption
  <2> HIDE DEF w
  <2>4. (w + BaseBits - 1) \div BaseBits \in Nat
    <3> DEFINE n == w + BaseBits - 1
               q == n \div BaseBits
               r == n % BaseBits
    <3>1. n \in Int /\ n >= 0 /\ BaseBits > 0
      BY <2>2, <2>3
    <3> HIDE DEF n
    <3>2. q \in Int /\ r \in 0 .. BaseBits - 1 /\ n = BaseBits * q + r
      BY <2>3, <3>1, Division
    <3> HIDE DEF q, r
    <3>3. q >= 0
      <4> SUFFICES ASSUME q <= -1 PROVE FALSE
        BY <3>2
      <4>1. -1 - q \in Nat
        BY <3>2
      <4>2. BaseBits * (-1 - q) >= 0 /\ BaseBits * (-1 - q) = -BaseBits - BaseBits * q
        BY <2>3, <3>2, <4>1
      <4> QED BY <2>3, <3>1, <3>2, <4>2
    <3>4. q \in Nat
      BY <3>2, <3>3
    <3> QED BY <3>4 DEF q, n
  <2> QED BY <2>4 DEF GadgetDigits, w
<1> HIDE DEF p
<1>3. \A i \in LanesOf(p) : p.digits[i] \in Nat
  BY <1>1, <1>2
<1> QED BY <1>3 DEF p

LEMMA GadgetMessageIs ==
  ASSUME NEW p, MainModuli(p.main), NEW target, IsElement(target, p.main), NEW i, NEW j \in Nat
  PROVE  GadgetMessage(p, target, i, j) \in [1 .. Len(p.main) -> Polynomials]
<1> DEFINE f == [l \in LanesOf(p) |->
                   [k \in Powers |->
                      IF l = i THEN (target[l][k] * (TwoTo[BaseBits * j] % p.main[l])) % p.main[l]
                               ELSE 0]]
<1>1. LanesOf(p) = 1 .. Len(p.main)
  BY DEF MainModuli, LanesOf
<1>2. TwoTo[BaseBits * j] \in Nat
  <2>1. BaseBits * j \in Nat
    <3>1. BaseBits \in Nat
      BY ExactMultiplicationAssumption
    <3> QED BY <3>1
  <2> QED BY <2>1, TwoToIs
<1>3. ASSUME NEW l \in LanesOf(p), NEW k \in Powers
      PROVE  (target[l][k] * (TwoTo[BaseBits * j] % p.main[l])) % p.main[l] \in Int
  <2> DEFINE m == p.main[l]
             b == TwoTo[BaseBits * j]
             x == target[l][k]
  <2>1. m \in Nat /\ m >= 2
    BY <1>1 DEF MainModuli
  <2>2. x \in Int
    <3>1. target[l] \in Polynomials
      BY <1>1 DEF IsElement
    <3> QED BY <3>1 DEF Polynomials
  <2>3. b \in Int
    BY <1>2
  <2> HIDE DEF m, b, x
  <2>4. b % m \in 0 .. m - 1 /\ m > 0
    BY <2>1, <2>3, Division
  <2>5. x * (b % m) \in Int
    BY <2>2, <2>4
  <2> DEFINE y == x * (b % m)
  <2> HIDE DEF y
  <2>6. y % m \in 0 .. m - 1
    BY <2>1, <2>4, <2>5, Division DEF y
  <2>7. y % m \in Int
    BY <2>6
  <2> QED BY <2>7 DEF y, m, b, x
<1>4. f \in [1 .. Len(p.main) -> Polynomials]
  BY <1>1, <1>3 DEF Polynomials
<1>5. GadgetMessage(p, target, i, j) = f
  BY DEF GadgetMessage
<1> QED BY Zenon, <1>4, <1>5

\* A tape for a plan
IsTape(p, samples) ==
  /\ samples[1].mask \in Polynomials /\ samples[1].error \in Polynomials
  /\ \A i \in LanesOf(p) : \A j \in 0 .. p.digits[i] - 1 :
       /\ samples[DrawOf(p, i, j)].mask \in Polynomials
       /\ samples[DrawOf(p, i, j)].error \in Polynomials

LEMMA TapeIs ==
  ASSUME NEW system \in Systems, Plans(system[1], system[2]), NEW samples \in Tapes
  PROVE  IsTape(NewPlan(system[1], system[2]), samples)
<1> DEFINE p == NewPlan(system[1], system[2])
<1>1. /\ 1 \in DOMAIN samples
      /\ \A i \in LanesOf(p) : \A j \in 0 .. p.digits[i] - 1 : DrawOf(p, i, j) \in DOMAIN samples
  BY TapesAssumption
<1>2. samples \in Seq([mask : Polynomials, error : Errors])
  BY Zenon, SamplesAssumption
<1>3. \A n \in DOMAIN samples : samples[n].mask \in Polynomials /\ samples[n].error \in Polynomials
  <2>1. \A n \in DOMAIN samples : samples[n] \in [mask : Polynomials, error : Errors]
    <3> DEFINE R == [mask : Polynomials, error : Errors]
    <3>1. samples \in Seq(R)
      BY <1>2
    <3> HIDE DEF R
    <3>2. \A n \in DOMAIN samples : samples[n] \in R
      BY <3>1
    <3> QED BY <3>2 DEF R
  <2>2. Errors \subseteq Polynomials
    <3>1. Eta \in Nat
      BY ExactMultiplicationAssumption
    <3>2. -Eta .. Eta \subseteq Int
      BY <3>1
    <3> QED BY <3>2 DEF Errors, Polynomials
  <2> QED BY <2>1, <2>2
<1> HIDE DEF p
<1>4. IsTape(p, samples)
  BY <1>1, <1>3 DEF IsTape
<1> QED BY <1>4 DEF p

LEMMA KeySetIs ==
  ASSUME NEW p, MainModuli(p.main), \A i \in LanesOf(p) : p.digits[i] \in Nat,
         NEW secret \in Polynomials, NEW samples, IsTape(p, samples)
  PROVE  LET k == KeySet(p, Signed(p.main, secret), samples)
         IN  IsCiphertext(k.public, p.main) /\ IsGadget(p, k.gadget)
<1> DEFINE main == p.main
           s == Signed(main, secret)
           zero == [k \in Powers |-> 0]
           target == RingMul(main, s, s)
           set == KeySet(p, s, samples)
<1>1. main \in Seq(Nat \ {0})
  BY DEF MainModuli
<1>2. IsElement(s, main)
  BY <1>1, SignedIs
<1>3. set.public = Masked(p, s, samples[1], InRing(main, zero)) /\ set.gadget = GadgetKey(p, s, samples)
  BY DEF KeySet
<1>4. GadgetKey(p, s, samples)
        = [i \in LanesOf(p) |->
             [j \in 0 .. p.digits[i] - 1 |->
                Masked(p, s, samples[DrawOf(p, i, j)], GadgetMessage(p, target, i, j))]]
  BY DEF GadgetKey
<1> HIDE DEF s, set
<1>5. zero \in Polynomials
  BY DEF Polynomials
<1> HIDE DEF zero
<1>6. IsElement(InRing(main, zero), main)
  BY <1>1, <1>5, InRingIs
<1>7. IsCiphertext(set.public, main)
  <2> DEFINE message == InRing(main, zero)
  <2>1. message \in [1 .. Len(p.main) -> Polynomials]
    BY <1>6 DEF IsElement
  <2>2. samples[1].mask \in Polynomials /\ samples[1].error \in Polynomials
    BY DEF IsTape
  <2> HIDE DEF message
  <2>3. IsCiphertext(Masked(p, s, samples[1], message), p.main)
    BY <1>2, <2>1, <2>2, MaskedIs
  <2> QED BY <1>3, <2>3 DEF message
<1>8. IsElement(target, main)
  BY <1>1, <1>2, ElementsAre, RingMulIs
<1> HIDE DEF target
<1>9. ASSUME NEW i \in LanesOf(p), NEW j \in 0 .. p.digits[i] - 1
      PROVE  IsCiphertext(set.gadget[i][j], main)
  <2> DEFINE message == GadgetMessage(p, target, i, j)
             draw == samples[DrawOf(p, i, j)]
  <2>1. message \in [1 .. Len(p.main) -> Polynomials]
    <3>1. j \in Nat
      OBVIOUS
    <3> QED BY <1>8, <3>1, GadgetMessageIs
  <2>2. draw.mask \in Polynomials /\ draw.error \in Polynomials
    BY DEF IsTape
  <2>3. set.gadget[i][j] = Masked(p, s, draw, message)
    BY <1>3, <1>4
  <2> HIDE DEF message, draw
  <2>4. IsCiphertext(Masked(p, s, draw, message), p.main)
    BY <1>2, <2>1, <2>2, MaskedIs
  <2> QED BY <2>3, <2>4
<1>10. IsCiphertext(set.public, main) /\ IsGadget(p, set.gadget)
  BY <1>7, <1>9 DEF IsGadget
<1> QED BY <1>10 DEF set, s

\* Each lane is some thread's, and no other's.
LEMMA EveryLaneIsFolded ==
  ASSUME NEW p, MainModuli(p.main), NEW threads \in 1 .. 4, NEW l \in LanesOf(p)
  PROVE  LaneOfThread(p, threads, l) = l
<1> DEFINE n == Len(p.main)
           w == Min({threads, n})
           c == ChunkSize(p, threads)
           a == l - 1
<1>1. n \in Nat /\ l \in 1 .. n /\ a \in Int
  BY DEF MainModuli, LanesOf
<1>2. w \in {threads, n} /\ w \in Nat /\ w >= 1
  <2>1. {threads, n} \subseteq Nat /\ threads \in {threads, n}
    BY <1>1
  <2> DEFINE S == {threads, n}
  <2>2. S \subseteq Nat /\ S # {} /\ \A x \in S : x >= 1
    BY <1>1, <2>1
  <2> HIDE DEF S
  <2>3. \E x \in S : \A y \in S : x <= y
    BY Zenon, <2>2, LeastElement
  <2>4. Min(S) \in S
    BY <2>3 DEF Min
  <2> QED BY <2>2, <2>4 DEF S
<1>3. c = (n + w - 1) \div w
  BY DEF ChunkSize
<1> HIDE DEF w, n, c
<1>4. c \in Nat /\ c > 0
  <2> DEFINE d == n + w - 1
             r == d % w
  <2>1. d \in Int /\ d >= w /\ w > 0
    BY <1>1, <1>2
  <2> HIDE DEF d
  <2>2. d \div w \in Int /\ r \in 0 .. w - 1 /\ d = w * (d \div w) + r
    BY <1>2, <2>1, Division
  <2> DEFINE q == d \div w
  <2> HIDE DEF q, r
  <2>3. q >= 1
    <3> SUFFICES ASSUME q <= 0 PROVE FALSE
      BY <2>2 DEF q
    <3>1. -q \in Nat
      BY <2>2 DEF q
    <3>2. w * (-q) >= 0 /\ w * (-q) = -(w * q) /\ d = w * q + r
      BY <1>2, <2>2, <3>1 DEF q
    <3> QED BY <1>2, <2>1, <2>2, <3>2 DEF q
  <2> QED BY <1>3, <2>2, <2>3 DEF q, d
<1> HIDE DEF a
<1>5. a = c * (a \div c) + (a % c) /\ a \div c \in Int /\ a % c \in 0 .. c - 1
  BY <1>1, <1>4, Division
<1>6. LaneOfThread(p, threads, l) = (a \div c) * c + (a % c) + 1
  BY DEF LaneOfThread, c, a
<1> DEFINE q == a \div c
           r == a % c
<1> HIDE DEF q, r
<1>7. (a \div c) * c + (a % c) + 1 = a + 1
  <2>1. a = c * q + r /\ q \in Int /\ r \in Int
    BY <1>4, <1>5 DEF q, r
  <2>2. q * c + r + 1 = a + 1
    BY <1>4, <2>1
  <2> QED BY <2>2 DEF q, r
<1>8. a + 1 = l
  BY <1>1 DEF a
<1> QED BY <1>6, <1>7, <1>8

\* Folding gives a ciphertext.
LEMMA RelinearizedIs ==
  ASSUME NEW p, MainModuli(p.main), \A i \in LanesOf(p) : p.digits[i] \in Nat,
         NEW e, IsElement(e[1], p.main), IsElement(e[2], p.main), IsElement(e[3], p.main),
         NEW gadget, IsGadget(p, gadget), NEW threads \in 1 .. 4
  PROVE  IsCiphertext(Relinearized(p, e, gadget, threads), p.main)
<1> DEFINE main == p.main
           fold(component) ==
             [l \in LanesOf(p) |->
                LaneFold(p, e[3], gadget, component, LaneOfThread(p, threads, l))]
           c == Relinearized(p, e, gadget, threads)
<1>1. main \in Seq(Nat \ {0}) /\ LanesOf(p) = 1 .. Len(main)
  BY DEF MainModuli, LanesOf
<1>2. ASSUME NEW component \in {1, 2} PROVE fold(component) \in [1 .. Len(main) -> Polynomials]
  <2>1. ASSUME NEW l \in LanesOf(p)
        PROVE  LaneFold(p, e[3], gadget, component, LaneOfThread(p, threads, l)) \in Polynomials
    <3>1. LaneOfThread(p, threads, l) \in LanesOf(p)
      BY EveryLaneIsFolded
    <3> DEFINE k == LaneOfThread(p, threads, l)
    <3>2. k \in LanesOf(p)
      BY <3>1
    <3> HIDE DEF k
    <3>3. LaneFold(p, e[3], gadget, component, k) \in Polynomials
      BY Zenon, <3>2, LaneFoldIs
    <3> QED BY <3>3 DEF k
  <2> QED BY <1>1, <2>1
<1>3. c = <<RingAdd(main, e[1], fold(1)), RingAdd(main, e[2], fold(2))>>
  BY DEF Relinearized
<1> DEFINE x == fold(1)
           y == fold(2)
<1>4. x \in [1 .. Len(main) -> Polynomials] /\ y \in [1 .. Len(main) -> Polynomials]
  BY <1>2
<1> HIDE DEF x, y
<1>5. IsElement(RingAdd(main, e[1], x), main) /\ IsElement(RingAdd(main, e[2], y), main)
  BY Zenon, <1>1, <1>4, ElementsAre, RingAddIs
<1> DEFINE u == RingAdd(main, e[1], x)
           v == RingAdd(main, e[2], y)
<1>6. c = <<u, v>>
  BY <1>3 DEF x, y
<1> HIDE DEF c, u, v
<1>7. IsCiphertext(c, main)
  BY <1>5, <1>6 DEF IsCiphertext, u, v
<1> QED BY <1>7 DEF c

-----------------------------------------------------------------------------
(* The steps of ExactMultiplication.                                        *)

\* Canonical ciphertexts, as a set
Canonical(p) ==
  {c \in [1 .. Len(p.main) -> Polynomials] \X [1 .. Len(p.main) -> Polynomials] :
     IsCiphertext(c, p.main)}

\* The invariant: an accepted plan, a tape that is long enough, canonical keys
\* and ciphertexts, a tensor and a plaintext that are the rounded quotients.
PlanInv ==
  \E system \in Systems :
    Plans(system[1], system[2]) /\ plan = NewPlan(system[1], system[2])

KeysInv == keys # <<>> => IsCiphertext(keys.public, plan.main) /\ IsGadget(plan, keys.gadget)

OperandsInv ==
  /\ operands \in Seq([ct : Canonical(plan), plain : SUBSET Int])
  /\ operands # <<>> => keys # <<>>

TensorInv ==
  tensor # <<>> =>
    /\ Len(operands) = 2
    /\ \A e \in 1 .. 3 :
         /\ IsElement(tensor[e], plan.main)
         /\ tensor[e] = InRing(plan.main, Quotients(plan,
              WholeTensor(Lifts(plan, operands[1].ct), Lifts(plan, operands[2].ct))[e]))

FoldedInv == folded # <<>> => IsCiphertext(folded, plan.main)

PlaintextInv ==
  plaintext # <<>> =>
    /\ folded # <<>>
    /\ LET phase == Whole(plan, At(Phase(plan, folded, sk), 0))
       IN  plaintext =
             [ok |-> TRUE, value |-> Quotient(plan.t * phase, Modulus(plan)) % plan.t]

MultiplyInv ==
  /\ PlanInv
  /\ sk \in Secrets
  /\ IsTape(plan, tape)
  /\ KeysInv /\ OperandsInv /\ TensorInv /\ FoldedInv /\ PlaintextInv

LEMMA PlanInvIs ==
  ASSUME PlanInv
  PROVE  /\ IsPlan(plan) /\ MainModuli(plan.main) /\ plan.main \in Seq(Nat \ {0})
         /\ \A i \in LanesOf(plan) : plan.digits[i] \in Nat
         /\ \E system \in Systems : plan.main = system[1] /\ plan.t = system[2]
<1>1. PICK system \in Systems :
        Plans(system[1], system[2]) /\ plan = NewPlan(system[1], system[2])
  BY DEF PlanInv
<1>2. system[1] \in Seq(Nat) /\ system[2] \in Nat
  BY ExactMultiplicationAssumption
<1>3. IsPlan(NewPlan(system[1], system[2]))
  BY <1>1, <1>2, PlanIs
<1>4. IsPlan(plan)
  BY <1>1, <1>3
<1>5. plan.main = system[1] /\ plan.t = system[2]
  BY <1>1 DEF NewPlan
<1>6. MainModuli(plan.main)
  BY <1>4 DEF IsPlan
<1>7. MainModuli(system[1])
  BY <1>5, <1>6
<1>8. \A i \in LanesOf(NewPlan(system[1], system[2])) : NewPlan(system[1], system[2]).digits[i] \in Nat
  BY <1>2, <1>7, PlanDigits
<1>9. \A i \in LanesOf(plan) : plan.digits[i] \in Nat
  BY <1>1, <1>8
<1>10. plan.main \in Seq(Nat \ {0})
  BY <1>6 DEF MainModuli
<1> QED BY <1>4, <1>5, <1>6, <1>9, <1>10

\* Samples are polynomials.
LEMMA SecretsArePolynomials == ASSUME NEW s \in Secrets PROVE s \in Polynomials
<1>1. s \in Ternary
  BY SamplesAssumption
<1>2. -1 .. 1 \subseteq Int
  OBVIOUS
<1> QED BY <1>1, <1>2 DEF Ternary, Polynomials

LEMMA DrawsArePolynomials ==
  ASSUME NEW draw \in Draws
  PROVE  draw.u \in Polynomials /\ draw.e1 \in Polynomials /\ draw.e2 \in Polynomials
<1>1. draw \in [u : Ternary, e1 : Errors, e2 : Errors]
  BY SamplesAssumption
<1>2. Ternary \subseteq Polynomials
  <2>1. -1 .. 1 \subseteq Int
    OBVIOUS
  <2> QED BY <2>1 DEF Ternary, Polynomials
<1>3. Errors \subseteq Polynomials
  <2>1. Eta \in Nat
    BY ExactMultiplicationAssumption
  <2>2. -Eta .. Eta \subseteq Int
    BY <2>1
  <2> QED BY <2>2 DEF Errors, Polynomials
<1> QED BY <1>1, <1>2, <1>3

LEMMA CiphertextsAreCanonical ==
  ASSUME NEW p, NEW c, IsCiphertext(c, p.main)
  PROVE  c \in Canonical(p)
<1>1. c = <<c[1], c[2]>> /\ IsElement(c[1], p.main) /\ IsElement(c[2], p.main)
  BY DEF IsCiphertext
<1> DEFINE a == c[1]
           b == c[2]
<1>2. a \in [1 .. Len(p.main) -> Polynomials] /\ b \in [1 .. Len(p.main) -> Polynomials]
  BY <1>1, ElementsAre
<1>3. c = <<a, b>>
  BY <1>1
<1> HIDE DEF a, b
<1>4. c \in [1 .. Len(p.main) -> Polynomials] \X [1 .. Len(p.main) -> Polynomials]
  BY <1>2, <1>3
<1> QED BY <1>4 DEF Canonical

\* The system starts in the invariant, and its steps keep it.
LEMMA MultiplyInitial == MultiplyInit => MultiplyInv
<1> SUFFICES ASSUME MultiplyInit PROVE MultiplyInv
  OBVIOUS
<1>1. PICK system \in Systems :
        Plans(system[1], system[2]) /\ plan = NewPlan(system[1], system[2])
  BY DEF MultiplyInit
<1>2. sk \in Secrets /\ tape \in Tapes /\ keys = <<>> /\ operands = <<>>
      /\ tensor = <<>> /\ folded = <<>> /\ plaintext = <<>>
  BY DEF MultiplyInit
<1>3. PlanInv
  BY <1>1 DEF PlanInv
<1>4. IsTape(plan, tape)
  <2>1. IsTape(NewPlan(system[1], system[2]), tape)
    BY <1>1, <1>2, TapeIs
  <2> QED BY <1>1, <2>1
<1>5. KeysInv /\ TensorInv /\ FoldedInv /\ PlaintextInv
  BY <1>2 DEF KeysInv, TensorInv, FoldedInv, PlaintextInv
<1>6. OperandsInv
  <2> DEFINE R == [ct : Canonical(plan), plain : SUBSET Int]
  <2> HIDE DEF R
  <2>1. <<>> \in Seq(R)
    OBVIOUS
  <2> QED BY <1>2, <2>1 DEF OperandsInv, R
<1> QED BY <1>1, <1>2, <1>3, <1>4, <1>5, <1>6 DEF MultiplyInv

\* Of what a step leaves alone the invariant still holds.
LEMMA WhatIsKept ==
  ASSUME plan' = plan
  PROVE  /\ PlanInv => PlanInv'
         /\ tape' = tape /\ IsTape(plan, tape) => IsTape(plan, tape)'
         /\ keys' = keys /\ KeysInv => KeysInv'
         /\ keys' = keys /\ operands' = operands /\ OperandsInv => OperandsInv'
         /\ operands' = operands /\ tensor' = tensor /\ TensorInv => TensorInv'
         /\ folded' = folded /\ FoldedInv => FoldedInv'
         /\ sk' = sk /\ folded' = folded /\ plaintext' = plaintext /\ PlaintextInv => PlaintextInv'
<1>1. PlanInv => PlanInv'
  BY DEF PlanInv
<1>2. tape' = tape /\ IsTape(plan, tape) => IsTape(plan, tape)'
  OBVIOUS
<1>3. keys' = keys /\ KeysInv => KeysInv'
  BY DEF KeysInv
<1>4. keys' = keys /\ operands' = operands /\ OperandsInv => OperandsInv'
  BY DEF OperandsInv
<1>5. operands' = operands /\ tensor' = tensor /\ TensorInv => TensorInv'
  BY DEF TensorInv
<1>6. folded' = folded /\ FoldedInv => FoldedInv'
  BY DEF FoldedInv
<1>7. sk' = sk /\ folded' = folded /\ plaintext' = plaintext /\ PlaintextInv => PlaintextInv'
  BY DEF PlaintextInv
<1> QED BY <1>1, <1>2, <1>3, <1>4, <1>5, <1>6, <1>7

LEMMA GenerateKeysKeeps ==
  ASSUME MultiplyInv, GenerateKeys PROVE MultiplyInv'
<1>1. /\ keys = <<>> /\ keys' = KeySet(plan, Signed(plan.main, sk), tape)
      /\ UNCHANGED <<plan, sk, tape, operands, tensor, folded, plaintext>>
  BY DEF GenerateKeys
<1>2. sk \in Secrets /\ IsTape(plan, tape) /\ PlanInv /\ OperandsInv
  BY DEF MultiplyInv
<1>3. sk \in Polynomials /\ MainModuli(plan.main) /\ \A i \in LanesOf(plan) : plan.digits[i] \in Nat
  BY <1>2, PlanInvIs, SecretsArePolynomials
<1>4. LET k == KeySet(plan, Signed(plan.main, sk), tape)
      IN  IsCiphertext(k.public, plan.main) /\ IsGadget(plan, k.gadget)
  BY <1>2, <1>3, KeySetIs
<1>5. IsCiphertext(keys'.public, plan.main) /\ IsGadget(plan, keys'.gadget)
  BY <1>1, <1>4
<1>6. KeysInv'
  BY <1>1, <1>5 DEF KeysInv
<1>7. OperandsInv'
  <2>1. operands = <<>>
    BY <1>1, <1>2 DEF OperandsInv
  <2> QED BY <1>1, <1>2, <2>1 DEF OperandsInv
<1>8. PlanInv' /\ IsTape(plan, tape)' /\ TensorInv' /\ FoldedInv' /\ PlaintextInv'
  BY <1>1, WhatIsKept DEF MultiplyInv
<1> QED BY <1>1, <1>2, <1>6, <1>7, <1>8 DEF MultiplyInv

LEMMA OperandIsAdded ==
  ASSUME MultiplyInv, NEW c, IsCiphertext(c, plan.main), NEW plain \in SUBSET Int,
         keys # <<>>, Len(operands) < 2,
         operands' = Append(operands, [ct |-> c, plain |-> plain]),
         UNCHANGED <<plan, sk, tape, keys, tensor, folded, plaintext>>
  PROVE  MultiplyInv'
<1> DEFINE R == [ct : Canonical(plan), plain : SUBSET Int]
<1>1. operands \in Seq(R)
  BY DEF MultiplyInv, OperandsInv
<1>2. [ct |-> c, plain |-> plain] \in R
  <2>1. c \in Canonical(plan)
    BY CiphertextsAreCanonical
  <2> QED BY <2>1
<1> HIDE DEF R
<1>3. operands' \in Seq(R)
  BY <1>1, <1>2
<1>4. OperandsInv'
  BY <1>3 DEF OperandsInv, R
<1>5. TensorInv'
  <2>1. tensor = <<>>
    BY DEF MultiplyInv, TensorInv
  <2> QED BY <2>1 DEF TensorInv
<1>6. PlanInv' /\ IsTape(plan, tape)' /\ KeysInv' /\ FoldedInv' /\ PlaintextInv'
  BY WhatIsKept DEF MultiplyInv
<1> QED BY <1>4, <1>5, <1>6 DEF MultiplyInv

LEMMA EncryptOperandKeeps ==
  ASSUME MultiplyInv, NEW m \in 0 .. plan.t - 1, NEW draw \in Draws, EncryptOperand(m, draw)
  PROVE  MultiplyInv'
<1>1. PlanInv /\ KeysInv
  BY DEF MultiplyInv
<1>2. IsPlan(plan) /\ MainModuli(plan.main)
  BY <1>1, PlanInvIs
<1>3. IsCiphertext(keys.public, plan.main)
  BY <1>1 DEF KeysInv, EncryptOperand
<1>4. m * (Modulus(plan) \div plan.t) \in Int /\ {m} \in SUBSET Int
  <2>1. Modulus(plan) \in Nat /\ plan.t \in Nat
    BY <1>2, PlanNumbers
  <2>2. plan.t > 0
    BY <1>2 DEF IsPlan
  <2> DEFINE t == plan.t
             M == Modulus(plan)
             d == M \div t
  <2> HIDE DEF t, M
  <2>3. d \in Int
    BY <2>1, <2>2, Division DEF t, M
  <2>4. m \in Int
    BY <2>1 DEF t
  <2> HIDE DEF d
  <2>5. m * d \in Int
    BY <2>3, <2>4
  <2> QED BY <2>4, <2>5 DEF d, t, M
<1>5. draw.u \in Polynomials /\ draw.e1 \in Polynomials /\ draw.e2 \in Polynomials
  BY DrawsArePolynomials
<1> DEFINE c == Ciphertext(plan, keys.public, m, draw)
<1>6. IsCiphertext(c, plan.main)
  BY <1>2, <1>3, <1>4, <1>5, CiphertextIs
<1>7. /\ keys # <<>> /\ Len(operands) < 2
      /\ operands' = Append(operands, [ct |-> c, plain |-> {m}])
      /\ UNCHANGED <<plan, sk, tape, keys, tensor, folded, plaintext>>
  BY DEF EncryptOperand
<1> HIDE DEF c
<1> QED BY <1>4, <1>6, <1>7, OperandIsAdded

LEMMA ImportOperandKeeps ==
  ASSUME MultiplyInv, NEW c \in Imports, ImportOperand(c) PROVE MultiplyInv'
<1>1. plan.main \in Seq(Nat \ {0})
  BY PlanInvIs DEF MultiplyInv
<1>2. c[1] \in Polynomials /\ c[2] \in Polynomials
  BY SamplesAssumption
<1> DEFINE d == <<InRing(plan.main, c[1]), InRing(plan.main, c[2])>>
<1>3. IsCiphertext(d, plan.main)
  BY <1>1, <1>2, ImportIs
<1>4. /\ keys # <<>> /\ Len(operands) < 2
      /\ operands' = Append(operands, [ct |-> d, plain |-> {}])
      /\ UNCHANGED <<plan, sk, tape, keys, tensor, folded, plaintext>>
  BY DEF ImportOperand
<1> HIDE DEF d
<1>5. {} \in SUBSET Int
  OBVIOUS
<1> QED BY <1>3, <1>4, <1>5, OperandIsAdded

LEMMA MultiplyExactKeeps ==
  ASSUME MultiplyInv, MultiplyExact PROVE MultiplyInv'
<1> DEFINE x == operands[1].ct
           y == operands[2].ct
<1>1. /\ Len(operands) = 2 /\ tensor' = ExactTensor(plan, x, y)
      /\ UNCHANGED <<plan, sk, tape, keys, operands, folded, plaintext>>
  BY DEF MultiplyExact
<1>2. IsPlan(plan) /\ plan.main \in Seq(Nat \ {0}) /\ OperandsInv
  BY PlanInvIs DEF MultiplyInv
<1>3. IsCiphertext(x, plan.main) /\ IsCiphertext(y, plan.main)
  <2> DEFINE R == [ct : Canonical(plan), plain : SUBSET Int]
  <2>1. operands \in Seq(R)
    BY <1>2 DEF OperandsInv
  <2> HIDE DEF R
  <2>2. operands[1] \in R /\ operands[2] \in R
    BY <1>1, <2>1
  <2>3. x \in Canonical(plan) /\ y \in Canonical(plan)
    BY <2>2 DEF R
  <2> HIDE DEF x, y
  <2> QED BY <2>3 DEF Canonical
<1> HIDE DEF x, y
<1>4. ASSUME NEW e \in 1 .. 3
      PROVE  /\ IsElement(tensor'[e], plan.main)
             /\ tensor'[e] = InRing(plan.main, Quotients(plan, WholeTensor(Lifts(plan, x), Lifts(plan, y))[e]))
  <2> DEFINE w == WholeTensor(Lifts(plan, x), Lifts(plan, y))[e]
  <2>1. w \in Polynomials /\ ExactTensor(plan, x, y)[e] = InRing(plan.main, Quotients(plan, w))
    BY <1>2, <1>3, TensorIsExact
  <2> HIDE DEF w
  <2>2. Quotients(plan, w) \in Polynomials
    BY <1>2, <2>1, QuotientsAre
  <2>3. IsElement(InRing(plan.main, Quotients(plan, w)), plan.main)
    BY <1>2, <2>2, InRingIs
  <2> QED BY <1>1, <2>1, <2>3 DEF w
<1>5. TensorInv'
  BY <1>1, <1>4 DEF TensorInv, x, y
<1>6. /\ PlanInv' /\ IsTape(plan, tape)' /\ KeysInv' /\ OperandsInv'
      /\ FoldedInv' /\ PlaintextInv'
  BY <1>1, WhatIsKept DEF MultiplyInv
<1> QED BY <1>1, <1>5, <1>6 DEF MultiplyInv

LEMMA RelinearizeKeeps ==
  ASSUME MultiplyInv, NEW threads \in Threads, Relinearize(threads) PROVE MultiplyInv'
<1>1. /\ tensor # <<>> /\ folded = <<>>
      /\ folded' = Relinearized(plan, tensor, keys.gadget, threads)
      /\ UNCHANGED <<plan, sk, tape, keys, operands, tensor, plaintext>>
  BY DEF Relinearize
<1>2. MainModuli(plan.main) /\ \A i \in LanesOf(plan) : plan.digits[i] \in Nat
  BY PlanInvIs DEF MultiplyInv
<1>3. Len(operands) = 2 /\ \A e \in 1 .. 3 : IsElement(tensor[e], plan.main)
  BY <1>1 DEF MultiplyInv, TensorInv
<1>4. /\ IsElement(tensor[1], plan.main) /\ IsElement(tensor[2], plan.main)
      /\ IsElement(tensor[3], plan.main)
  BY <1>3
<1>5. IsGadget(plan, keys.gadget)
  <2>1. operands # <<>>
    <3>1. Len(<<>>) = 0
      OBVIOUS
    <3>2. Len(operands) = 2
      BY <1>3
    <3>3. operands = <<>> => Len(operands) = 0
      BY <3>1, Zenon
    <3> QED BY <3>2, <3>3
  <2> QED BY <2>1 DEF MultiplyInv, OperandsInv, KeysInv
<1>6. threads \in 1 .. 4
  BY ExactMultiplicationAssumption
<1>7. IsCiphertext(Relinearized(plan, tensor, keys.gadget, threads), plan.main)
  BY <1>2, <1>4, <1>5, <1>6, RelinearizedIs
<1>8. FoldedInv'
  BY <1>1, <1>7 DEF FoldedInv
<1>9. PlaintextInv'
  <2>1. plaintext = <<>>
    BY <1>1 DEF MultiplyInv, PlaintextInv
  <2> QED BY <1>1, <2>1 DEF PlaintextInv
<1>10. PlanInv' /\ IsTape(plan, tape)' /\ KeysInv' /\ OperandsInv' /\ TensorInv'
  BY <1>1, WhatIsKept DEF MultiplyInv
<1> QED BY <1>1, <1>8, <1>9, <1>10 DEF MultiplyInv

LEMMA DecryptExactKeeps ==
  ASSUME MultiplyInv, DecryptExact PROVE MultiplyInv'
<1>1. /\ folded # <<>> /\ plaintext' = Decrypted(plan, folded, sk)
      /\ UNCHANGED <<plan, sk, tape, keys, operands, tensor, folded>>
  BY DEF DecryptExact
<1>2. IsPlan(plan) /\ sk \in Polynomials
  BY PlanInvIs, SecretsArePolynomials DEF MultiplyInv
<1>3. plan.t < plan.main[1]
  <2>1. PICK system \in Systems : plan.main = system[1] /\ plan.t = system[2]
    BY PlanInvIs DEF MultiplyInv
  <2>2. Len(plan.main) >= 1 /\ DOMAIN plan.main = 1 .. Len(plan.main)
    BY <1>2, PlanNumbers DEF IsPlan
  <2>3. 1 \in DOMAIN system[1]
    BY <2>1, <2>2, PlanNumbers, <1>2 DEF MainModuli
  <2>4. system[2] < system[1][1]
    BY <2>3, PlaintextAssumption
  <2> QED BY <2>1, <2>4
<1>4. IsCiphertext(folded, plan.main)
  BY <1>1 DEF MultiplyInv, FoldedInv
<1>5. LET phase == Whole(plan, At(Phase(plan, folded, sk), 0))
      IN  Decrypted(plan, folded, sk)
            = [ok |-> TRUE, value |-> Quotient(plan.t * phase, Modulus(plan)) % plan.t]
  BY <1>2, <1>3, <1>4, DecryptedIs
<1>6. PlaintextInv'
  BY <1>1, <1>5 DEF PlaintextInv
<1>7. PlanInv' /\ IsTape(plan, tape)' /\ KeysInv' /\ OperandsInv' /\ TensorInv' /\ FoldedInv'
  BY <1>1, WhatIsKept DEF MultiplyInv
<1> QED BY <1>1, <1>6, <1>7 DEF MultiplyInv

LEMMA MultiplyStepKeeps == MultiplyInv /\ [MultiplyNext]_multiplyVars => MultiplyInv'
<1> SUFFICES ASSUME MultiplyInv, [MultiplyNext]_multiplyVars PROVE MultiplyInv'
  OBVIOUS
<1>1. CASE GenerateKeys
  BY <1>1, GenerateKeysKeeps
<1>2. ASSUME NEW m \in 0 .. plan.t - 1, NEW draw \in Draws, EncryptOperand(m, draw)
      PROVE  MultiplyInv'
  BY <1>2, EncryptOperandKeeps
<1>3. ASSUME NEW c \in Imports, ImportOperand(c) PROVE MultiplyInv'
  BY <1>3, ImportOperandKeeps
<1>4. CASE MultiplyExact
  BY <1>4, MultiplyExactKeeps
<1>5. ASSUME NEW threads \in Threads, Relinearize(threads) PROVE MultiplyInv'
  BY <1>5, RelinearizeKeeps
<1>6. CASE DecryptExact
  BY <1>6, DecryptExactKeeps
<1>7. CASE UNCHANGED multiplyVars
  <2>1. UNCHANGED <<plan, sk, tape, keys, operands, tensor, folded, plaintext>>
    BY <1>7 DEF multiplyVars
  <2>2. /\ PlanInv' /\ IsTape(plan, tape)' /\ KeysInv' /\ OperandsInv' /\ TensorInv' /\ FoldedInv'
        /\ PlaintextInv'
    BY <2>1, WhatIsKept DEF MultiplyInv
  <2> QED BY <2>1, <2>2 DEF MultiplyInv
<1> QED BY <1>1, <1>2, <1>3, <1>4, <1>5, <1>6, <1>7 DEF MultiplyNext

LEMMA RoundingsFollow == MultiplyInv => RoundingsAreExact
<1> SUFFICES ASSUME MultiplyInv PROVE RoundingsAreExact
  OBVIOUS
<1>1. ASSUME tensor # <<>>
      PROVE  LET lift(o) == <<Lift(plan, operands[o].ct[1]), Lift(plan, operands[o].ct[2])>>
                 a == lift(1)
                 b == lift(2)
                 whole == <<Negacyclic(a[1], b[1]),
                            Plus(Negacyclic(a[1], b[2]), Negacyclic(a[2], b[1])),
                            Negacyclic(a[2], b[2])>>
             IN  \A e \in 1 .. 3 :
                   tensor[e] = InRing(plan.main,
                     [k \in Powers |-> Quotient(plan.t * whole[e][k], Modulus(plan))])
  <2>1. \A e \in 1 .. 3 :
          tensor[e] = InRing(plan.main, Quotients(plan,
            WholeTensor(Lifts(plan, operands[1].ct), Lifts(plan, operands[2].ct))[e]))
    BY <1>1 DEF MultiplyInv, TensorInv
  <2> QED BY <2>1, Zenon DEF Quotients, WholeTensor, Lifts
<1>2. plaintext # <<>> =>
        LET phase == Whole(plan, At(Phase(plan, folded, sk), 0))
        IN  plaintext =
              [ok |-> TRUE, value |-> Quotient(plan.t * phase, Modulus(plan)) % plan.t]
  BY DEF MultiplyInv, PlaintextInv
<1> QED BY <1>1, <1>2, Zenon DEF RoundingsAreExact

\* Scale-and-round is exact wherever it is used: in every tensor of canonical
\* ciphertexts, with the centered lifts at the ends of their range too, and in
\* every decryption, whose lanes never disagree (exact_scale_round.rs
\* scale_round; exact_mul.rs try_mul_no_relin_exact, try_decrypt_exact).
THEOREM RoundingsStayExact == MultiplySpec => []RoundingsAreExact
<1>1. MultiplyInit => MultiplyInv
  BY MultiplyInitial
<1>2. MultiplyInv /\ [MultiplyNext]_multiplyVars => MultiplyInv'
  BY MultiplyStepKeeps
<1>3. MultiplyInv => RoundingsAreExact
  BY RoundingsFollow
<1> QED BY <1>1, <1>2, <1>3, PTL DEF MultiplySpec

\* Sums of sums, and of multiples
LEMMA TotalOfSums ==
  ASSUME NEW D, IsFiniteSet(D), NEW f \in [D -> Int], NEW g \in [D -> Int]
  PROVE  Total([i \in D |-> f[i] + g[i]]) = Total(f) + Total(g)
<1> DEFINE h == [i \in D |-> f[i] + g[i]]
<1>1. h \in [D -> Int] /\ \A i \in D : h[i] = 1 * f[i] + 1 * g[i]
  OBVIOUS
<1> HIDE DEF h
<1>2. IsCombination(D, h, 1, f, 1, g)
  BY <1>1 DEF IsCombination
<1>3. Total(f) \in Int /\ Total(g) \in Int
  BY TotalIsInt
<1>4. Total(h) = 1 * Total(f) + 1 * Total(g)
  BY <1>1, <1>2, TotalIsLinear
<1>5. Total(h) = Total(f) + Total(g)
  BY <1>3, <1>4
<1> QED BY <1>5 DEF h

LEMMA TotalOfMultiples ==
  ASSUME NEW D, IsFiniteSet(D), NEW f \in [D -> Int], NEW c \in Int
  PROVE  Total([i \in D |-> c * f[i]]) = c * Total(f)
<1> DEFINE h == [i \in D |-> c * f[i]]
<1>1. h \in [D -> Int] /\ \A i \in D : h[i] = c * f[i] + 0 * f[i]
  OBVIOUS
<1> HIDE DEF h
<1>2. IsCombination(D, h, c, f, 0, f)
  BY <1>1 DEF IsCombination
<1>3. Total(f) \in Int
  BY TotalIsInt
<1>4. Total(h) = c * Total(f) + 0 * Total(f)
  BY <1>1, <1>2, TotalIsLinear
<1>5. c * Total(f) + 0 * Total(f) = c * Total(f)
  BY <1>3
<1> QED BY <1>4, <1>5 DEF h

\* The total of a matrix, row by row or column by column
LEMMA TotalsExchange ==
  ASSUME NEW D, IsFiniteSet(D), NEW E, IsFiniteSet(E), NEW f \in [D -> [E -> Int]]
  PROVE  Total([i \in D |-> Total(f[i])]) = Total([j \in E |-> Total([i \in D |-> f[i][j]])])
<1> DEFINE rows == [i \in D |-> Total(f[i])]
           column(j) == [i \in D |-> f[i][j]]
           part == [j \in E |-> CHOOSE G : IsPartialSum(column(j), D, G)
                                              /\ Total(column(j)) = G[D]]
           upTo(s) == [j \in E |-> part[j][s]]
<1>1. rows \in [D -> Int]
  BY TotalIsInt
<1>2. ASSUME NEW j \in E
      PROVE  IsPartialSum(column(j), D, part[j]) /\ Total(column(j)) = part[j][D]
  <2>1. DOMAIN column(j) = D
    OBVIOUS
  <2> HIDE DEF column
  <2>2. \E G : IsPartialSum(column(j), D, G) /\ Total(column(j)) = G[D]
    BY Zenon, <2>1, TotalIsPartialSum
  <2> QED BY Zenon, <2>2
<1>3. PICK F : IsPartialSum(rows, D, F) /\ Total(rows) = F[D]
  <2>1. DOMAIN rows = D
    OBVIOUS
  <2> HIDE DEF rows
  <2> QED BY Zenon, <2>1, TotalIsPartialSum
<1> DEFINE B == {s \in SUBSET D : upTo(s) \in [E -> Int] /\ F[s] = Total(upTo(s))}
<1>4. {} \in B
  <2>1. ASSUME NEW j \in E PROVE part[j][{}] = 0
    <3> DEFINE c == column(j)
               g == part[j]
    <3>1. IsPartialSum(c, D, g)
      BY <1>2
    <3> HIDE DEF c, g
    <3>2. g[{}] = 0
      BY <3>1, PartialSumSteps
    <3> QED BY <3>2 DEF g
  <2>2. F[{}] = 0
    <3> HIDE DEF rows
    <3> QED BY <1>3, PartialSumSteps
  <2> DEFINE u == upTo({})
  <2>3. u \in [E -> Int] /\ \A j \in E : u[j] = 0
    <3> HIDE DEF part
    <3> QED BY <2>1
  <2>4. Total(u) = 0
    <3> HIDE DEF u
    <3>1. \A j \in E : u[j] = 0 * u[j] + 0 * u[j]
      BY <2>3
    <3>2. IsCombination(E, u, 0, u, 0, u)
      BY <3>1 DEF IsCombination
    <3>3. Total(u) = 0 * Total(u) + 0 * Total(u)
      BY <2>3, <3>2, TotalIsLinear
    <3>4. Total(u) \in Int
      BY <2>3, TotalIsInt
    <3> QED BY <3>3, <3>4
  <2> HIDE DEF upTo
  <2> QED BY <2>2, <2>3, <2>4
<1>5. ASSUME NEW s \in SUBSET D, s # {}, Rest(s) \in B PROVE s \in B
  <2> DEFINE i == One(s)
             r == Rest(s)
             u == upTo(r)
  <2>1. i \in D
    BY <1>5, RestIsSmaller
  <2>2. u \in [E -> Int] /\ F[r] = Total(u)
    BY <1>5
  <2>3. F[s] = rows[i] + F[r]
    <3> HIDE DEF rows
    <3>1. F[s] = rows[One(s)] + F[Rest(s)]
      BY <1>3, <1>5, PartialSumSteps
    <3> QED BY <3>1
  <2>4. ASSUME NEW j \in E PROVE part[j][s] = column(j)[i] + part[j][r]
    <3> DEFINE c == column(j)
               g == part[j]
    <3>1. IsPartialSum(c, D, g)
      BY <1>2
    <3> HIDE DEF c, g, i, r
    <3>2. g[s] = c[One(s)] + g[Rest(s)]
      BY <1>5, <3>1, PartialSumSteps
    <3> QED BY <3>2 DEF c, g, i, r
  <2>5. rows[i] = Total(f[i]) /\ f[i] \in [E -> Int]
    BY <2>1
  <2>6. \A j \in E : column(j)[i] = f[i][j] /\ u[j] = part[j][r]
    BY <2>1
  <2>7. upTo(s) = [j \in E |-> f[i][j] + u[j]]
    <3> HIDE DEF part, column, u, i, r
    <3> QED BY <2>4, <2>6
  <2> DEFINE v == f[i]
             w == [j \in E |-> v[j] + u[j]]
  <2> HIDE DEF u, rows, i, r, upTo
  <2>8. w \in [E -> Int]
    BY <2>2, <2>5
  <2>9. Total(w) = Total(v) + Total(u)
    <3> HIDE DEF v
    <3> QED BY <2>2, <2>5, TotalOfSums DEF v
  <2>10. Total(v) \in Int /\ Total(u) \in Int
    BY <2>2, <2>5, TotalIsInt
  <2>11. F[s] = Total(w)
    BY <2>2, <2>3, <2>5, <2>9, <2>10
  <2> QED BY <2>7, <2>8, <2>11
<1>6. SUBSET D \subseteq B
  <2> HIDE DEF B
  <2> QED BY <1>4, <1>5, SubsetInduction
<1>7. Total(rows) = Total(upTo(D))
  <2> HIDE DEF upTo
  <2> QED BY <1>3, <1>6
<1>8. upTo(D) = [j \in E |-> Total(column(j))]
  <2> HIDE DEF part, column
  <2> QED BY <1>2
<1> QED BY <1>7, <1>8

\* Whatever the order of the terms
LEMMA TotalOfImage ==
  ASSUME NEW D, IsFiniteSet(D), NEW E, IsFiniteSet(E), NEW f \in [E -> Int],
         NEW h \in [D -> E], NEW back \in [E -> D],
         \A i \in D : back[h[i]] = i, \A j \in E : h[back[j]] = j
  PROVE  Total([i \in D |-> f[h[i]]]) = Total(f)
<1> DEFINE w == [i \in D |-> [j \in E |-> IF j = h[i] THEN f[j] ELSE 0]]
<1>1. w \in [D -> [E -> Int]]
  OBVIOUS
<1>2. ASSUME NEW i \in D PROVE Total(w[i]) = f[h[i]]
  <2> DEFINE v == w[i]
             z == h[i]
  <2>1. v \in [E -> Int] /\ z \in E /\ v[z] = f[z] /\ \A j \in E : j # z => v[j] = 0
    OBVIOUS
  <2> HIDE DEF v, z
  <2>2. Total(v) = v[z]
    BY <2>1, TotalOfOne
  <2> QED BY <2>1, <2>2 DEF v, z
<1>3. ASSUME NEW j \in E PROVE Total([i \in D |-> w[i][j]]) = f[j]
  <2> DEFINE v == [i \in D |-> w[i][j]]
             z == back[j]
  <2>1. v \in [D -> Int] /\ z \in D /\ v[z] = f[j]
    OBVIOUS
  <2>2. ASSUME NEW i \in D, i # z PROVE v[i] = 0
    <3>1. j # h[i]
      BY <2>2
    <3> QED BY <3>1
  <2> HIDE DEF v, z
  <2>3. Total(v) = v[z]
    BY <2>1, <2>2, TotalOfOne
  <2> QED BY <2>1, <2>3 DEF v
<1> HIDE DEF w
<1>4. Total([i \in D |-> Total(w[i])]) = Total([j \in E |-> Total([i \in D |-> w[i][j]])])
  BY <1>1, TotalsExchange
<1>5. [i \in D |-> Total(w[i])] = [i \in D |-> f[h[i]]]
  BY <1>2
<1>6. [j \in E |-> Total([i \in D |-> w[i][j]])] = [j \in E |-> f[j]]
  BY <1>3
<1>7. [j \in E |-> f[j]] = f
  OBVIOUS
<1> QED BY <1>4, <1>5, <1>6, <1>7

\* Coefficient n of a polynomial, for n below the first too: X ^ N is -1.
Turning(b, n) ==
  IF n >= 0 THEN b[n] ELSE IF n >= -N THEN -b[n + N] ELSE b[n + 2 * N]

\* Polynomials are what their coefficients are.
LEMMA SamePolynomial ==
  ASSUME NEW a \in Polynomials, NEW b \in Polynomials, \A k \in Powers : a[k] = b[k]
  PROVE  a = b
  BY DEF Polynomials

\* Turned by N, a coefficient changes its sign.
LEMMA TurningIs ==
  ASSUME NEW b \in Polynomials
  PROVE  /\ \A n \in Powers : Turning(b, n) = b[n]
         /\ \A n \in -2 * N .. N - 1 : Turning(b, n) \in Int
         /\ \A n \in -N .. N - 1 : Turning(b, n - N) = -Turning(b, n)
<1>1. N \in Nat /\ N >= 2
  BY DegreeIs
<1>2. \A n \in 0 .. N - 1 : b[n] \in Int
  BY DEF Polynomials, Powers
<1>3. ASSUME NEW n \in Powers PROVE Turning(b, n) = b[n]
  BY <1>1 DEF Turning, Powers
<1>4. ASSUME NEW n \in -2 * N .. N - 1 PROVE Turning(b, n) \in Int
  <2>1. CASE n >= 0
    <3>1. n \in 0 .. N - 1
      BY <1>1, <2>1
    <3> QED BY <1>2, <2>1, <3>1 DEF Turning
  <2>2. CASE n < 0 /\ n >= -N
    <3>1. n + N \in 0 .. N - 1 /\ ~ n >= 0
      BY <1>1, <2>2
    <3>2. b[n + N] \in Int
      BY <1>2, <3>1
    <3> QED BY <2>2, <3>1, <3>2 DEF Turning
  <2>3. CASE n < -N
    <3>1. n + 2 * N \in 0 .. N - 1 /\ ~ n >= 0 /\ ~ n >= -N
      BY <1>1, <2>3
    <3>2. b[n + 2 * N] \in Int
      BY <1>2, <3>1
    <3> QED BY <3>1, <3>2 DEF Turning
  <2> QED BY <1>1, <2>1, <2>2, <2>3
<1>5. ASSUME NEW n \in -N .. N - 1 PROVE Turning(b, n - N) = -Turning(b, n)
  <2>1. CASE n >= 0
    <3>1. ~ n - N >= 0 /\ n - N >= -N /\ (n - N) + N = n
      BY <1>1, <2>1
    <3> QED BY <2>1, <3>1 DEF Turning
  <2>2. CASE n < 0
    <3>1. /\ ~ n >= 0 /\ n >= -N /\ ~ n - N >= 0 /\ ~ n - N >= -N /\ n + N \in 0 .. N - 1
          /\ (n - N) + 2 * N = n + N
      BY <1>1, <2>2
    <3>2. b[n + N] \in Int
      BY <1>2, <3>1
    <3>3. Turning(b, n) = -b[n + N] /\ Turning(b, n - N) = b[n + N]
      BY <3>1 DEF Turning
    <3> QED BY <3>2, <3>3
  <2> QED BY <2>1, <2>2
<1> QED BY <1>3, <1>4, <1>5

\* Differences of powers
LEMMA DifferencesAre ==
  ASSUME NEW i \in Powers, NEW j \in Powers
  PROVE  /\ i - j \in -N .. N - 1 /\ i - j \in -2 * N .. N - 1 /\ -N <= i - j
         /\ (i - j) - N \in -2 * N .. N - 1
         /\ \A k \in Powers : k - i - j \in -2 * N .. N - 1
<1>1. N \in Nat /\ N >= 2
  BY DegreeIs
<1>2. i \in Int /\ j \in Int /\ 0 <= i /\ i < N /\ 0 <= j /\ j < N
  BY <1>1 DEF Powers
<1>3. ASSUME NEW k \in Powers PROVE k - i - j \in -2 * N .. N - 1
  <2>1. k \in Int /\ 0 <= k /\ k < N
    BY <1>1 DEF Powers
  <2> QED BY <1>1, <1>2, <2>1
<1> QED BY <1>1, <1>2, <1>3

\* The terms of a product
ProductTerms(a, b, k) == [i \in Powers |-> a[i] * Turning(b, k - i)]

\* The products of coefficients that a coefficient is made of
LEMMA ProductTermsAre ==
  ASSUME NEW a \in Polynomials, NEW b \in Polynomials, NEW k \in Powers
  PROVE  /\ ProductTerms(a, b, k) \in [Powers -> Int]
         /\ NegacyclicTerms(a, b, k) = ProductTerms(a, b, k)
         /\ Negacyclic(a, b)[k] = Total(ProductTerms(a, b, k))
<1>1. N \in Nat /\ N >= 2
  BY DegreeIs
<1>2. ASSUME NEW i \in Powers
      PROVE  /\ a[i] * Turning(b, k - i) \in Int
             /\ (IF i <= k THEN a[i] * b[k - i] ELSE -(a[i] * b[N + k - i]))
                  = a[i] * Turning(b, k - i)
  <2>1. i \in Int /\ k \in Int /\ 0 <= i /\ i < N /\ 0 <= k /\ k < N
    BY <1>1 DEF Powers
  <2>2. a[i] \in Int
    BY DEF Polynomials
  <2>3. Turning(b, k - i) \in Int
    BY DifferencesAre, TurningIs
  <2>4. CASE i <= k
    <3>1. Turning(b, k - i) = b[k - i]
      BY <2>1, <2>4 DEF Turning
    <3> QED BY <2>2, <2>3, <2>4, <3>1
  <2>5. CASE ~ i <= k
    <3>1. (k - i) + N = N + k - i /\ N + k - i \in Powers /\ ~ k - i >= 0 /\ k - i >= -N
      BY <1>1, <2>1, <2>5 DEF Powers
    <3>2. Turning(b, k - i) = -b[N + k - i]
      BY <3>1 DEF Turning
    <3> DEFINE x == a[i]
               y == b[N + k - i]
    <3>3. x \in Int /\ y \in Int
      BY <2>2, <3>1 DEF Polynomials
    <3> HIDE DEF x, y
    <3>4. -(x * y) = x * (-y)
      BY <3>3
    <3> QED BY <2>2, <2>3, <2>5, <3>2, <3>4 DEF x, y
  <2> QED BY <2>4, <2>5
<1>3. ProductTerms(a, b, k) \in [Powers -> Int]
  BY <1>2 DEF ProductTerms
<1>4. NegacyclicTerms(a, b, k) = ProductTerms(a, b, k)
  BY Zenon, <1>2 DEF NegacyclicTerms, ProductTerms
<1>5. Negacyclic(a, b)[k] = Total(NegacyclicTerms(a, b, k))
  BY NegacyclicIs
<1> QED BY <1>3, <1>4, <1>5

\* The same for powers below the first
LEMMA TurningOfProduct ==
  ASSUME NEW a \in Polynomials, NEW b \in Polynomials, NEW i \in Powers, NEW k \in Powers
  PROVE  Turning(Negacyclic(a, b), k - i) = Total([j \in Powers |-> a[j] * Turning(b, k - i - j)])
<1> DEFINE p == Negacyclic(a, b)
           n == k - i
           f == [j \in Powers |-> a[j] * Turning(b, n - j)]
<1>1. N \in Nat /\ N >= 2 /\ p \in Polynomials /\ IsFiniteSet(Powers)
  BY DegreeIs, NegacyclicIs, PowersAre
<1>2. i \in Int /\ k \in Int /\ n \in -N .. N - 1
  BY <1>1, DifferencesAre DEF Powers
<1>3. CASE n >= 0
  <2>1. n \in Powers
    BY <1>1, <1>2, <1>3 DEF Powers
  <2>2. p[n] = Total(f)
    <3> HIDE DEF n
    <3>1. ProductTerms(a, b, n) = f
      BY DEF ProductTerms
    <3> HIDE DEF f
    <3> QED BY <2>1, <3>1, ProductTermsAre
  <2>3. Turning(p, n) = p[n]
    <3> HIDE DEF n, p
    <3> QED BY <1>1, <2>1, TurningIs
  <2> QED BY <2>2, <2>3
<1>4. CASE ~ n >= 0
  <2> DEFINE m == n + N
             g == [j \in Powers |-> a[j] * Turning(b, m - j)]
  <2>1. m \in Powers
    BY <1>1, <1>2, <1>4 DEF Powers
  <2>2. ASSUME NEW j \in Powers PROVE g[j] \in Int /\ f[j] = (-1) * g[j]
    <3>1. m - j \in -N .. N - 1 /\ m - j \in -2 * N .. N - 1 /\ a[j] \in Int
      BY <2>1, DifferencesAre DEF Polynomials
    <3>2. j \in Int
      BY <1>1 DEF Powers
    <3>3. n - j = (m - j) - N
      BY <1>1, <1>2, <3>2
    <3> DEFINE d == m - j
               x == a[j]
               y == Turning(b, m - j)
    <3>4. Turning(b, n - j) = -y /\ y \in Int
      BY <3>1, <3>3, TurningIs
    <3>5. g[j] = x * y /\ f[j] = x * (-y) /\ x \in Int
      BY <3>1, <3>4
    <3> HIDE DEF x, y, f, g
    <3>6. x * (-y) = (-1) * (x * y) /\ x * y \in Int
      BY <3>4, <3>5
    <3> QED BY <3>5, <3>6
  <2>3. g \in [Powers -> Int] /\ f = [j \in Powers |-> (-1) * g[j]]
    <3>1. \A j \in Powers : g[j] \in Int /\ f[j] = (-1) * g[j]
      BY <2>2
    <3>2. DOMAIN f = Powers /\ DOMAIN g = Powers /\ f = [j \in Powers |-> f[j]] /\ g = [j \in Powers |-> g[j]]
      OBVIOUS
    <3> HIDE DEF f, g
    <3> QED BY <3>1, <3>2
  <2>4. p[m] = Total(g)
    <3> HIDE DEF m
    <3>1. ProductTerms(a, b, m) = g
      BY DEF ProductTerms
    <3> HIDE DEF g
    <3> QED BY <2>1, <3>1, ProductTermsAre
  <2>5. Total(f) = (-1) * Total(g) /\ Total(g) \in Int
    <3> HIDE DEF f, g
    <3>1. -1 \in Int
      OBVIOUS
    <3>2. Total([j \in Powers |-> (-1) * g[j]]) = (-1) * Total(g)
      BY <1>1, <2>3, <3>1, TotalOfMultiples
    <3> QED BY <1>1, <2>3, <3>2, TotalIsInt
  <2>6. Turning(p, n) = -p[m]
    BY <1>2, <1>4 DEF Turning
  <2> HIDE DEF f, g, m, n, p
  <2>7. Turning(p, n) = Total(f)
    BY <2>4, <2>5, <2>6
  <2> QED BY <2>7 DEF f, n, p
<1> QED BY <1>3, <1>4

\* i - j around the circle of the powers
Around(i, j) == IF i >= j THEN i - j ELSE i - j + N

\* Going round the ring only changes the order of the terms.
LEMMA AroundIs ==
  ASSUME NEW i \in Powers, NEW j \in Powers
  PROVE  /\ Around(i, j) \in Powers
         /\ Around(i, Around(i, j)) = j
         /\ \/ Around(i, j) = i - j
            \/ Around(i, j) = (i - j) + N
<1>1. N \in Nat /\ N >= 2
  BY DegreeIs
<1>2. i \in Int /\ j \in Int /\ 0 <= i /\ i < N /\ 0 <= j /\ j < N
  BY <1>1 DEF Powers
<1>3. CASE i >= j
  <2>1. Around(i, j) = i - j /\ i - j \in Powers /\ i >= i - j
    BY <1>1, <1>2, <1>3 DEF Around, Powers
  <2>2. Around(i, i - j) = j
    BY <1>1, <1>2, <2>1 DEF Around
  <2> QED BY <2>1, <2>2
<1>4. CASE ~ i >= j
  <2>1. /\ Around(i, j) = i - j + N /\ i - j + N \in Powers /\ ~ i >= i - j + N
        /\ i - j + N = (i - j) + N
    BY <1>1, <1>2, <1>4 DEF Around, Powers
  <2>2. Around(i, i - j + N) = j
    BY <1>1, <1>2, <2>1 DEF Around
  <2> QED BY <2>1, <2>2
<1> QED BY <1>3, <1>4

\* The ring is commutative and associative.
LEMMA NegacyclicCommutes ==
  ASSUME NEW a \in Polynomials, NEW b \in Polynomials
  PROVE  Negacyclic(a, b) = Negacyclic(b, a)
<1>1. N \in Nat /\ N >= 2 /\ IsFiniteSet(Powers)
  BY DegreeIs, PowersAre
<1>2. ASSUME NEW k \in Powers PROVE Negacyclic(a, b)[k] = Negacyclic(b, a)[k]
  <2> DEFINE f == ProductTerms(a, b, k)
             g == ProductTerms(b, a, k)
             h == [j \in Powers |-> Around(k, j)]
  <2>1. f \in [Powers -> Int] /\ g \in [Powers -> Int]
    BY ProductTermsAre
  <2>2. h \in [Powers -> Powers] /\ \A j \in Powers : h[h[j]] = j
    BY AroundIs
  <2>3. ASSUME NEW j \in Powers PROVE g[h[j]] = f[j]
    <3> DEFINE i == Around(k, j)
    <3>1. i \in Powers /\ (i = k - j \/ i = (k - j) + N)
      BY AroundIs
    <3>2. k \in Int /\ j \in Int /\ k - j \in -N .. N - 1
      BY <1>1, DifferencesAre DEF Powers
    <3> HIDE DEF i
    <3>3. a[j] \in Int /\ b[i] \in Int
      BY <3>1 DEF Polynomials
    <3>4. f[j] = a[j] * Turning(b, k - j) /\ g[i] = b[i] * Turning(a, k - i)
      BY <3>1 DEF ProductTerms
    <3>5. CASE i = k - j
      <4>1. k - i = j
        BY <3>2, <3>5
      <4>2. Turning(b, k - j) = b[i] /\ Turning(a, k - i) = a[j]
        BY <3>1, <3>5, <4>1, TurningIs
      <4>3. a[j] * b[i] = b[i] * a[j]
        BY <3>3
      <4> QED BY <3>4, <4>2, <4>3 DEF i
    <3>6. CASE i = (k - j) + N
      <4>1. k - i = j - N /\ k - j = i - N /\ j \in -N .. N - 1 /\ i \in -N .. N - 1
        BY <1>1, <3>1, <3>2, <3>6 DEF Powers
      <4>2. Turning(b, k - j) = -b[i] /\ Turning(a, k - i) = -a[j]
        BY <3>1, <4>1, TurningIs
      <4> DEFINE x == a[j]
                 y == b[i]
      <4>3. f[j] = x * (-y) /\ g[i] = y * (-x) /\ x \in Int /\ y \in Int
        BY <3>3, <3>4, <4>2
      <4> HIDE DEF x, y, f, g
      <4>4. x * (-y) = y * (-x)
        BY <4>3
      <4> QED BY <4>3, <4>4 DEF i
    <3> QED BY <3>1, <3>5, <3>6
  <2> HIDE DEF f, g, h
  <2>4. Total([j \in Powers |-> g[h[j]]]) = Total(g)
    BY <1>1, <2>1, <2>2, TotalOfImage
  <2>5. [j \in Powers |-> g[h[j]]] = f
    BY <2>1, <2>3
  <2>6. Total(f) = Total(g)
    BY <2>4, <2>5
  <2> QED BY <2>6, ProductTermsAre DEF f, g
<1>3. Negacyclic(a, b) \in Polynomials /\ Negacyclic(b, a) \in Polynomials
  BY NegacyclicIs
<1> QED BY <1>2, <1>3, SamePolynomial

LEMMA NegacyclicAssociates ==
  ASSUME NEW a \in Polynomials, NEW b \in Polynomials, NEW c \in Polynomials
  PROVE  Negacyclic(Negacyclic(a, b), c) = Negacyclic(a, Negacyclic(b, c))
<1> DEFINE ab == Negacyclic(a, b)
           bc == Negacyclic(b, c)
<1>1. N \in Nat /\ N >= 2 /\ IsFiniteSet(Powers)
  BY DegreeIs, PowersAre
<1>2. ab \in Polynomials /\ bc \in Polynomials
  BY NegacyclicIs
<1>3. ASSUME NEW k \in Powers PROVE Negacyclic(ab, c)[k] = Negacyclic(a, bc)[k]
  <2> DEFINE w == [i \in Powers |-> [j \in Powers |->
                     a[i] * (Turning(b, j - i) * Turning(c, k - j))]]
  <2>1. ASSUME NEW i \in Powers, NEW j \in Powers
        PROVE  /\ Turning(b, j - i) \in Int /\ Turning(c, k - j) \in Int /\ a[i] \in Int
               /\ w[i][j] \in Int
    <3>1. Turning(b, j - i) \in Int
      BY DifferencesAre, TurningIs
    <3>2. Turning(c, k - j) \in Int
      BY DifferencesAre, TurningIs
    <3>3. a[i] \in Int
      BY DEF Polynomials
    <3> QED BY <3>1, <3>2, <3>3
  <2>2. w \in [Powers -> [Powers -> Int]]
    BY <2>1
  \* Column j of the matrix is a term of (a b) c,
  <2>3. ASSUME NEW j \in Powers
        PROVE  Total([i \in Powers |-> w[i][j]]) = ab[j] * Turning(c, k - j)
    <3> DEFINE f == ProductTerms(a, b, j)
               z == Turning(c, k - j)
    <3>1. f \in [Powers -> Int] /\ z \in Int /\ ab[j] = Total(f)
      BY <2>1, ProductTermsAre
    <3>2. [i \in Powers |-> w[i][j]] = [i \in Powers |-> z * f[i]]
      <4>1. ASSUME NEW i \in Powers PROVE w[i][j] = z * f[i]
        <5> DEFINE x == a[i]
                   y == Turning(b, j - i)
        <5>1. x \in Int /\ y \in Int /\ z \in Int /\ w[i][j] = x * (y * z) /\ f[i] = x * y
          BY <2>1 DEF ProductTerms
        <5> HIDE DEF x, y, z, w, f
        <5>2. x * (y * z) = z * (x * y)
          BY <5>1
        <5> QED BY <5>1, <5>2
      <4> HIDE DEF w, f, z
      <4> QED BY <4>1
    <3> HIDE DEF f, z, w
    <3>3. Total([i \in Powers |-> z * f[i]]) = z * Total(f)
      BY <1>1, <3>1, TotalOfMultiples
    <3>4. Total(f) \in Int
      BY <1>1, <3>1, TotalIsInt
    <3>5. z * Total(f) = Total(f) * z
      BY <3>1, <3>4
    <3> QED BY <3>1, <3>2, <3>3, <3>5 DEF z
  \* and row i of a (b c).
  <2>4. ASSUME NEW i \in Powers
        PROVE  Total(w[i]) = a[i] * Turning(bc, k - i)
    <3> DEFINE f == [j \in Powers |-> b[j] * Turning(c, k - i - j)]
               h == [j \in Powers |-> Around(j, i)]
               back == [j \in Powers |-> Around(i, Around(0, j))]
               z == a[i]
    <3>1. \A j \in Powers : f[j] \in Int
      <4>1. ASSUME NEW j \in Powers PROVE b[j] * Turning(c, k - i - j) \in Int
        <5>1. k - i - j \in -2 * N .. N - 1
          BY DifferencesAre
        <5>2. Turning(c, k - i - j) \in Int /\ b[j] \in Int
          BY <5>1, TurningIs DEF Polynomials
        <5> QED BY <5>2
      <4> QED BY <4>1
    <3>2. ASSUME NEW j \in Powers
          PROVE  h[j] \in Powers /\ w[i][j] = z * f[h[j]]
      <4> DEFINE n == Around(j, i)
                 y == Turning(b, j - i)
                 v == Turning(c, k - j)
      <4>1. n \in Powers /\ (n = j - i \/ n = (j - i) + N)
        BY AroundIs
      <4>2. y \in Int /\ v \in Int /\ z \in Int /\ w[i][j] = z * (y * v)
        BY <2>1
      <4>3. i \in Int /\ j \in Int /\ k \in Int /\ j - i \in -N .. N - 1 /\ k - j \in -N .. N - 1
        BY <1>1, DifferencesAre DEF Powers
      <4> HIDE DEF n
      <4>4. b[n] \in Int
        BY <4>1 DEF Polynomials
      <4>5. f[n] = b[n] * Turning(c, k - i - n)
        BY <4>1
      <4>6. CASE n = j - i
        <5>1. k - i - n = k - j
          BY <1>1, <4>3, <4>6
        <5>2. y = b[n]
          BY <4>1, <4>6, TurningIs
        <5>3. f[n] = y * v
          BY <4>5, <5>1, <5>2
        <5> QED BY <4>1, <4>2, <5>3 DEF n
      <4>7. CASE n = (j - i) + N
        <5>1. k - i - n = (k - j) - N /\ j - i = n - N /\ n \in -N .. N - 1
          BY <1>1, <4>1, <4>3, <4>7 DEF Powers
        <5>2. Turning(b, j - i) = -b[n]
          BY <4>1, <5>1, TurningIs
        <5>3. Turning(c, k - i - n) = -v
          BY <4>3, <5>1, TurningIs
        <5> DEFINE x == b[n]
        <5>4. y = -x /\ f[n] = x * (-v) /\ x \in Int
          BY <4>4, <4>5, <5>2, <5>3
        <5> HIDE DEF x, y, v, f
        <5>5. y * v = x * (-v)
          BY <4>2, <5>4
        <5> QED BY <4>1, <4>2, <5>4, <5>5 DEF n
      <4> QED BY <4>1, <4>6, <4>7
    <3>3. ASSUME NEW j \in Powers
          PROVE  back[j] \in Powers /\ h[back[j]] = j /\ back[h[j]] = j
      <4>1. 0 \in Powers
        BY PowersAre
      <4>2. Around(0, j) \in Powers
        BY <4>1, AroundIs
      <4>3. back[j] \in Powers
        BY <4>2, AroundIs
      <4>4. h[j] \in Powers
        BY AroundIs
      <4>5. 0 <= i /\ i < N /\ i \in Int /\ 0 <= j /\ j < N /\ j \in Int
        BY <1>1 DEF Powers
      <4>6. back[j] = IF i + j < N THEN i + j ELSE i + j - N
        BY <1>1, <4>5 DEF Around
      <4>7. h[back[j]] = Around(back[j], i) /\ h[j] = Around(j, i)
        BY <4>3
      <4>8. Around(back[j], i) = j
        <5> HIDE DEF back
        <5> QED BY <1>1, <4>5, <4>6 DEF Around
      <4>9. back[h[j]] = j
        <5> DEFINE n == Around(j, i)
        <5>1. back[n] = Around(i, Around(0, n))
          BY <4>4
        <5>2. n = IF j >= i THEN j - i ELSE j - i + N
          BY DEF Around
        <5> HIDE DEF n, back
        <5>3. 0 <= n /\ n < N /\ n \in Int
          BY <1>1, <4>5, <5>2
        <5>4. Around(0, n) = IF n = 0 THEN 0 ELSE N - n
          BY <1>1, <5>3 DEF Around
        <5>5. Around(i, Around(0, n)) = j
          BY <1>1, <4>5, <5>2, <5>3, <5>4 DEF Around
        <5> QED BY <4>7, <5>1, <5>5 DEF n
      <4> HIDE DEF h, back
      <4> QED BY <4>3, <4>7, <4>8, <4>9
    <3>4. h \in [Powers -> Powers] /\ back \in [Powers -> Powers]
      <4>1. \A j \in Powers : h[j] \in Powers /\ back[j] \in Powers
        BY <3>2, <3>3
      <4> QED BY <4>1
    <3>5. z \in Int /\ f \in [Powers -> Int] /\ DOMAIN w[i] = Powers
      <4>1. z \in Int
        BY DEF Polynomials
      <4> QED BY <3>1, <4>1
    <3>6. Turning(bc, k - i) = Total(f)
      BY TurningOfProduct
    <3>7. w[i] \in [Powers -> Int]
      BY <2>2
    <3> HIDE DEF f, h, back, z, w
    <3>8. Total([j \in Powers |-> f[h[j]]]) = Total(f)
      BY <1>1, <3>3, <3>4, <3>5, TotalOfImage
    <3> DEFINE g == [j \in Powers |-> f[h[j]]]
    <3>9. g \in [Powers -> Int] /\ \A j \in Powers : w[i][j] = z * g[j]
      BY <3>2, <3>4, <3>5
    <3> HIDE DEF g
    <3>10. w[i] = [j \in Powers |-> z * g[j]]
      BY <3>7, <3>9
    <3>11. Total([j \in Powers |-> z * g[j]]) = z * Total(g)
      BY <1>1, <3>5, <3>9, TotalOfMultiples
    <3> QED BY <3>6, <3>8, <3>10, <3>11 DEF g, z
  <2> HIDE DEF w
  <2>5. Total([i \in Powers |-> Total(w[i])]) = Total([j \in Powers |-> Total([i \in Powers |-> w[i][j]])])
    BY <1>1, <2>2, TotalsExchange
  <2>6. [i \in Powers |-> Total(w[i])] = ProductTerms(a, bc, k)
    BY Zenon, <2>4 DEF ProductTerms
  <2>7. [j \in Powers |-> Total([i \in Powers |-> w[i][j]])] = ProductTerms(ab, c, k)
    BY Zenon, <2>3 DEF ProductTerms
  <2> HIDE DEF ab, bc
  <2>8. Total(ProductTerms(a, bc, k)) = Total(ProductTerms(ab, c, k))
    BY <2>5, <2>6, <2>7
  <2> QED BY <1>2, <2>8, ProductTermsAre
<1> HIDE DEF ab, bc
<1>4. Negacyclic(ab, c) \in Polynomials /\ Negacyclic(a, bc) \in Polynomials
  BY <1>2, NegacyclicIs
<1>5. Negacyclic(ab, c) = Negacyclic(a, bc)
  BY <1>3, <1>4, SamePolynomial
<1> QED BY <1>5 DEF ab, bc

\* A polynomial that is c * a + d * b
Combines(h, c, a, d, b) == \A k \in Powers : h[k] = c * a[k] + d * b[k]

\* The product is linear in its first argument, and by commutativity in the
\* second.
LEMMA ProductIsLinear ==
  ASSUME NEW a \in Polynomials, NEW b \in Polynomials, NEW h \in Polynomials, NEW z \in Polynomials,
         NEW c \in Int, NEW d \in Int, Combines(h, c, a, d, b)
  PROVE  /\ Combines(Negacyclic(h, z), c, Negacyclic(a, z), d, Negacyclic(b, z))
         /\ Combines(Negacyclic(z, h), c, Negacyclic(z, a), d, Negacyclic(z, b))
<1>1. IsFiniteSet(Powers)
  BY PowersAre
<1>2. ASSUME NEW k \in Powers
      PROVE  Negacyclic(h, z)[k] = c * Negacyclic(a, z)[k] + d * Negacyclic(b, z)[k]
  <2> DEFINE f == ProductTerms(a, z, k)
             g == ProductTerms(b, z, k)
             e == ProductTerms(h, z, k)
  <2>1. f \in [Powers -> Int] /\ g \in [Powers -> Int] /\ e \in [Powers -> Int]
    BY ProductTermsAre
  <2>2. ASSUME NEW i \in Powers PROVE e[i] = c * f[i] + d * g[i]
    <3> DEFINE x == a[i]
               y == b[i]
               t == Turning(z, k - i)
    <3>1. x \in Int /\ y \in Int /\ t \in Int
      <4>1. t \in Int
        BY DifferencesAre, TurningIs
      <4> QED BY <4>1 DEF Polynomials
    <3>2. e[i] = (c * x + d * y) * t /\ f[i] = x * t /\ g[i] = y * t
      BY DEF ProductTerms, Combines
    <3> HIDE DEF x, y, t, e, f, g
    <3>3. c * x \in Int /\ d * y \in Int
      BY <3>1
    <3>4. (c * x + d * y) * t = (c * x) * t + (d * y) * t
      BY <3>1, <3>3
    <3>5. (c * x) * t = c * (x * t) /\ (d * y) * t = d * (y * t)
      BY <3>1
    <3> QED BY <3>2, <3>4, <3>5
  <2> HIDE DEF e, f, g
  <2>3. IsCombination(Powers, e, c, f, d, g)
    BY <2>2 DEF IsCombination
  <2>4. Total(e) = c * Total(f) + d * Total(g)
    BY <1>1, <2>1, <2>3, TotalIsLinear
  <2>5. Negacyclic(h, z)[k] = Total(e)
    BY ProductTermsAre DEF e
  <2>6. Negacyclic(a, z)[k] = Total(f)
    BY ProductTermsAre DEF f
  <2>7. Negacyclic(b, z)[k] = Total(g)
    BY ProductTermsAre DEF g
  <2> QED BY <2>4, <2>5, <2>6, <2>7
<1>3. Combines(Negacyclic(h, z), c, Negacyclic(a, z), d, Negacyclic(b, z))
  BY <1>2 DEF Combines
<1>4. /\ Negacyclic(h, z) = Negacyclic(z, h) /\ Negacyclic(a, z) = Negacyclic(z, a)
      /\ Negacyclic(b, z) = Negacyclic(z, b)
  BY NegacyclicCommutes
<1> QED BY <1>3, <1>4

\* A sum of polynomials
Summed(D, f) == [k \in Powers |-> Total([i \in D |-> f[i][k]])]

\* Sums of polynomials, and what multiplication makes of them
LEMMA SummedIs ==
  ASSUME NEW D, IsFiniteSet(D), NEW f \in [D -> Polynomials]
  PROVE  /\ Summed(D, f) \in Polynomials
         /\ \A k \in Powers : /\ [i \in D |-> f[i][k]] \in [D -> Int]
                              /\ Summed(D, f)[k] = Total([i \in D |-> f[i][k]])
<1>1. ASSUME NEW k \in Powers PROVE [i \in D |-> f[i][k]] \in [D -> Int]
  BY DEF Polynomials
<1>2. \A k \in Powers : Total([i \in D |-> f[i][k]]) \in Int
  BY <1>1, TotalIsInt
<1>3. Summed(D, f) \in Polynomials
  BY Zenon, <1>2 DEF Summed, Polynomials
<1> QED BY <1>1, <1>3 DEF Summed

\* The product of a sum is the sum of the products.
LEMMA ProductOfSummed ==
  ASSUME NEW D, IsFiniteSet(D), NEW f \in [D -> Polynomials], NEW z \in Polynomials
  PROVE  /\ [i \in D |-> Negacyclic(f[i], z)] \in [D -> Polynomials]
         /\ Negacyclic(Summed(D, f), z) = Summed(D, [i \in D |-> Negacyclic(f[i], z)])
<1> DEFINE g == [i \in D |-> Negacyclic(f[i], z)]
           s == Summed(D, f)
<1>1. IsFiniteSet(Powers) /\ s \in Polynomials
  BY PowersAre, SummedIs
<1>2. g \in [D -> Polynomials]
  BY NegacyclicIs
<1>3. ASSUME NEW k \in Powers PROVE Negacyclic(s, z)[k] = Summed(D, g)[k]
  <2> DEFINE w == [p \in Powers |-> [i \in D |-> f[i][p] * Turning(z, k - p)]]
  <2>1. ASSUME NEW p \in Powers PROVE Turning(z, k - p) \in Int
    BY DifferencesAre, TurningIs
  <2>2. ASSUME NEW i \in D, NEW p \in Powers PROVE f[i][p] \in Int
    BY DEF Polynomials
  <2>3. w \in [Powers -> [D -> Int]]
    BY <2>1, <2>2
  <2>4. ASSUME NEW p \in Powers PROVE Total(w[p]) = ProductTerms(s, z, k)[p]
    <3> DEFINE t == Turning(z, k - p)
               c == [i \in D |-> f[i][p]]
    <3>1. t \in Int /\ c \in [D -> Int]
      BY <2>1, <2>2
    <3>2. w[p] = [i \in D |-> t * c[i]]
      <4>1. ASSUME NEW i \in D PROVE f[i][p] * t = t * c[i]
        <5> DEFINE x == f[i][p]
        <5>1. x \in Int /\ c[i] = x
          BY <2>2
        <5> HIDE DEF x, t, c
        <5>2. x * t = t * x
          BY <3>1, <5>1
        <5> QED BY <5>1, <5>2 DEF x
      <4> HIDE DEF c
      <4> QED BY <4>1
    <3>3. ProductTerms(s, z, k)[p] = Total(c) * t
      BY DEF ProductTerms, Summed
    <3> HIDE DEF t, c, w
    <3>4. Total([i \in D |-> t * c[i]]) = t * Total(c)
      BY <3>1, TotalOfMultiples
    <3>5. t * Total(c) = Total(c) * t
      BY <3>1, TotalIsInt
    <3> QED BY <3>2, <3>3, <3>4, <3>5
  <2>5. ASSUME NEW i \in D PROVE Total([p \in Powers |-> w[p][i]]) = g[i][k]
    <3> DEFINE c == f[i]
    <3>1. [p \in Powers |-> w[p][i]] = ProductTerms(c, z, k)
      BY DEF ProductTerms
    <3>2. g[i] = Negacyclic(c, z) /\ c \in Polynomials
      OBVIOUS
    <3> HIDE DEF c, w, g
    <3> QED BY <3>1, <3>2, ProductTermsAre
  <2> HIDE DEF w, g
  <2>6. Total([p \in Powers |-> Total(w[p])]) = Total([i \in D |-> Total([p \in Powers |-> w[p][i]])])
    BY <1>1, <2>3, TotalsExchange
  <2>7. [p \in Powers |-> Total(w[p])] = ProductTerms(s, z, k)
    <3>1. ProductTerms(s, z, k) = [p \in Powers |-> ProductTerms(s, z, k)[p]]
      BY DEF ProductTerms
    <3> QED BY <2>4, <3>1
  <2>8. [i \in D |-> Total([p \in Powers |-> w[p][i]])] = [i \in D |-> g[i][k]]
    BY <2>5
  <2>9. Total(ProductTerms(s, z, k)) = Total([i \in D |-> g[i][k]])
    BY <2>6, <2>7, <2>8
  <2>10. Negacyclic(s, z)[k] = Total(ProductTerms(s, z, k))
    <3> HIDE DEF s
    <3> QED BY <1>1, ProductTermsAre
  <2> QED BY <2>9, <2>10 DEF Summed
<1> HIDE DEF g, s
<1>4. Negacyclic(s, z) \in Polynomials /\ Summed(D, g) \in Polynomials
  BY <1>1, <1>2, NegacyclicIs, SummedIs
<1>5. Negacyclic(s, z) = Summed(D, g)
  BY <1>3, <1>4, SamePolynomial
<1> QED BY <1>2, <1>5 DEF s, g

\* Sums of polynomials that agree agree, and sums are linear.
LEMMA SummedAgree ==
  ASSUME NEW D, IsFiniteSet(D), NEW f \in [D -> Polynomials], NEW g \in [D -> Polynomials],
         NEW m \in Int, \A i \in D : Agree(f[i], g[i], m)
  PROVE  Agree(Summed(D, f), Summed(D, g), m)
<1>1. ASSUME NEW k \in Powers PROVE Same(Summed(D, f)[k], Summed(D, g)[k], m)
  <2> DEFINE x == [i \in D |-> f[i][k]]
             y == [i \in D |-> g[i][k]]
  <2>1. x \in [D -> Int] /\ y \in [D -> Int]
    BY DEF Polynomials
  <2>2. \A i \in D : Same(x[i], y[i], m)
    BY DEF Agree
  <2>3. Summed(D, f)[k] = Total(x) /\ Summed(D, g)[k] = Total(y)
    BY DEF Summed
  <2> HIDE DEF x, y
  <2> QED BY <2>1, <2>2, <2>3, TotalsAgree
<1> QED BY <1>1 DEF Agree

LEMMA SummedIsLinear ==
  ASSUME NEW D, IsFiniteSet(D), NEW f \in [D -> Polynomials], NEW g \in [D -> Polynomials],
         NEW h \in [D -> Polynomials], NEW c \in Int, NEW d \in Int,
         \A i \in D : Combines(h[i], c, f[i], d, g[i])
  PROVE  Combines(Summed(D, h), c, Summed(D, f), d, Summed(D, g))
<1>1. ASSUME NEW k \in Powers PROVE Summed(D, h)[k] = c * Summed(D, f)[k] + d * Summed(D, g)[k]
  <2> DEFINE x == [i \in D |-> f[i][k]]
             y == [i \in D |-> g[i][k]]
             z == [i \in D |-> h[i][k]]
  <2>1. x \in [D -> Int] /\ y \in [D -> Int] /\ z \in [D -> Int]
    BY DEF Polynomials
  <2>2. IsCombination(D, z, c, x, d, y)
    BY DEF IsCombination, Combines
  <2>3. Summed(D, f)[k] = Total(x) /\ Summed(D, g)[k] = Total(y) /\ Summed(D, h)[k] = Total(z)
    BY DEF Summed
  <2> HIDE DEF x, y, z
  <2> QED BY <2>1, <2>2, <2>3, TotalIsLinear
<1> QED BY <1>1 DEF Combines

\* Enough digits for every residue
CoversLanes(p) == \A i \in LanesOf(p) : p.digits[i] \in Nat /\ TwoTo[BaseBits * p.digits[i]] >= p.main[i]

\* The base of the digits
LEMMA BaseIs ==
  /\ BaseBits \in Nat /\ BaseBits >= 1
  /\ \A n \in Nat : /\ BaseBits * n \in Nat
                    /\ TwoTo[BaseBits * n] \in Nat /\ TwoTo[BaseBits * n] > 0
                    /\ BaseBits * (n + 1) = BaseBits * n + BaseBits
                    /\ TwoTo[BaseBits * (n + 1)] = TwoTo[BaseBits * n] * TwoTo[BaseBits]
  /\ TwoTo[BaseBits] \in Nat /\ TwoTo[BaseBits] > 0
<1> DEFINE B == BaseBits
<1>1. B \in Nat /\ B >= 1
  BY ExactMultiplicationAssumption
<1> HIDE DEF B
<1>2. ASSUME NEW n \in Nat
      PROVE  /\ B * n \in Nat
             /\ TwoTo[B * n] \in Nat /\ TwoTo[B * n] > 0
             /\ B * (n + 1) = B * n + B
             /\ TwoTo[B * (n + 1)] = TwoTo[B * n] * TwoTo[B]
  <2> DEFINE c == B * n
  <2>1. c \in Nat /\ B * (n + 1) = c + B
    BY <1>1
  <2> HIDE DEF c
  <2>2. TwoTo[c] \in Nat \ {0}
    BY <2>1, TwoToIs
  <2>3. TwoTo[c + B] = TwoTo[c] * TwoTo[B]
    BY <1>1, <2>1, TwoToSum
  <2>4. B * (n + 1) = B * n + B
    BY <2>1 DEF c
  <2> QED BY <2>1, <2>2, <2>3, <2>4 DEF c
<1>3. TwoTo[B] \in Nat \ {0}
  BY <1>1, TwoToIs
<1> QED BY <1>1, <1>2, <1>3 DEF B

\* The digits of a lane hold all of its modulus.
LEMMA DigitsCover ==
  ASSUME NEW main \in Seq(Nat), NEW t \in Nat, MainModuli(main)
  PROVE  CoversLanes(NewPlan(main, t))
<1> DEFINE p == NewPlan(main, t)
<1>1. p.main = main /\ LanesOf(p) = DOMAIN main /\ \A i \in LanesOf(p) : p.digits[i] = GadgetDigits(main[i])
  BY DEF NewPlan, LanesOf
<1>2. \A i \in LanesOf(p) : p.digits[i] \in Nat
  BY PlanDigits
<1> HIDE DEF p
<1>3. ASSUME NEW i \in LanesOf(p) PROVE TwoTo[BaseBits * p.digits[i]] >= main[i]
  <2> DEFINE m == main[i]
             b == BitLength(m)
             B == BaseBits
             d == (b + B - 1) \div B
  <2>1. m \in Nat
    BY <1>1
  <2>2. p.digits[i] = d
    BY <1>1 DEF GadgetDigits
  <2> HIDE DEF m
  <2>3. b \in Nat /\ \A k \in Nat : b <= k <=> m < TwoTo[k]
    BY <2>1, BitLengthIs
  <2>4. B \in Nat /\ B > 0 /\ B >= 1
    BY BaseIs
  <2>5. d \in Nat
    BY <1>2, <2>2
  <2> HIDE DEF b, B
  <2>6. b + B - 1 \in Int
    BY <2>3, <2>4
  <2>7. b + B - 1 = B * d + ((b + B - 1) % B) /\ (b + B - 1) % B \in 0 .. B - 1
    BY <2>4, <2>6, Division
  <2> HIDE DEF d
  <2>8. B * d \in Nat
    BY <2>4, <2>5
  <2>9. b <= B * d
    <3> DEFINE c == B * d
               r == (b + B - 1) % B
    <3>1. c \in Nat /\ b + B - 1 = c + r /\ r \in 0 .. B - 1
      BY <2>7, <2>8
    <3> HIDE DEF c, r
    <3>2. b <= c
      BY <2>3, <2>4, <3>1
    <3> QED BY <3>2 DEF c
  <2>10. m < TwoTo[B * d]
    BY <2>3, <2>8, <2>9
  <2>11. TwoTo[B * d] \in Nat
    BY <2>8, TwoToIs
  <2>12. TwoTo[B * d] >= m
    BY <2>1, <2>10, <2>11
  <2> QED BY <2>2, <2>12 DEF m, B
<1> QED BY <1>1, <1>2, <1>3 DEF CoversLanes, p

\* The weight of a digit in a lane, and what the digits of x make there
Weight_(l, ij) == IF ij[1] = l THEN TwoTo[BaseBits * ij[2]] ELSE 0

\* A residue is the sum of its weighted digits.
WeightedDigits(p, l, x) == [ij \in Positions(p) |-> Weight_(l, ij) * Digit(x, ij[2])]

LEMMA WeightIs ==
  ASSUME NEW p, MainModuli(p.main), CoversLanes(p), NEW l, NEW ij \in Positions(p)
  PROVE  /\ Weight_(l, ij) \in Nat /\ ij[2] \in Nat
         /\ \A x \in Nat : Weight_(l, ij) * Digit(x, ij[2]) \in Nat
<1>1. ij[1] \in LanesOf(p) /\ ij[2] \in 0 .. p.digits[ij[1]] - 1
  BY PositionsAre DEF CoversLanes
<1>2. ij[2] \in Nat
  BY <1>1
<1>3. TwoTo[BaseBits * ij[2]] \in Nat
  BY <1>2, BaseIs
<1>4. Weight_(l, ij) \in Nat
  BY <1>3 DEF Weight_
<1>5. ASSUME NEW x \in Nat PROVE Weight_(l, ij) * Digit(x, ij[2]) \in Nat
  <2> DEFINE d == Digit(x, ij[2])
             w == Weight_(l, ij)
  <2>1. d \in Nat /\ w \in Nat
    BY <1>2, <1>4, DigitIs
  <2> HIDE DEF d, w
  <2>2. w * d \in Nat
    BY <2>1
  <2> QED BY <2>2 DEF d, w
<1> QED BY <1>2, <1>4, <1>5

\* Positional notation: no digit is lost or met twice.
LEMMA DigitsMakeWhole ==
  ASSUME NEW p, MainModuli(p.main), CoversLanes(p), NEW l \in LanesOf(p),
         NEW x \in 0 .. p.main[l] - 1
  PROVE  Total(WeightedDigits(p, l, x)) = x
<1> DEFINE D == Positions(p)
           f == WeightedDigits(p, l, x)
           g(c) == [ij \in D |-> IF ij[2] < c THEN f[ij] ELSE 0]
           n == p.digits[l]
           T(c) == TwoTo[BaseBits * c]
<1>1. IsFiniteSet(D) /\ n \in Nat
  BY PositionsAre DEF CoversLanes
<1>2. x \in Nat /\ x < T(n)
  <2>1. p.main[l] \in Nat
    BY DEF MainModuli, LanesOf
  <2>2. T(n) \in Nat /\ T(n) >= p.main[l]
    BY <1>1, BaseIs DEF CoversLanes
  <2> HIDE DEF T
  <2> QED BY <2>1, <2>2
<1>3. \A ij \in D : f[ij] \in Int /\ ij[2] \in Nat
  <2>1. ASSUME NEW ij \in D PROVE f[ij] \in Int /\ ij[2] \in Nat
    <3>1. Weight_(l, ij) * Digit(x, ij[2]) \in Nat /\ ij[2] \in Nat
      BY <1>2, WeightIs
    <3>2. f[ij] = Weight_(l, ij) * Digit(x, ij[2])
      BY DEF WeightedDigits
    <3> QED BY <3>1, <3>2
  <2> QED BY <2>1
<1>4. f \in [D -> Int]
  <2>1. f = [ij \in D |-> f[ij]]
    BY DEF WeightedDigits
  <2> HIDE DEF f
  <2> QED BY <1>3, <2>1
<1>5. ASSUME NEW c \in Nat PROVE g(c) \in [D -> Int]
  <2> HIDE DEF f
  <2> QED BY <1>3
<1> DEFINE S == {c \in 0 .. n : Total(g(c)) = x % T(c)}
<1>6. 0 \in S
  <2> DEFINE h == g(0)
  <2>1. h \in [D -> Int] /\ \A ij \in D : h[ij] = 0 * h[ij] + 0 * h[ij]
    <3>1. \A ij \in D : h[ij] = 0
      <4> HIDE DEF f
      <4> QED BY <1>3
    <3>2. h \in [D -> Int]
      BY <1>5
    <3> HIDE DEF h
    <3> QED BY <3>1, <3>2
  <2> HIDE DEF h
  <2>2. IsCombination(D, h, 0, h, 0, h)
    BY <2>1 DEF IsCombination
  <2>3. Total(h) = 0 * Total(h) + 0 * Total(h)
    BY <1>1, <2>1, <2>2, TotalIsLinear
  <2>4. Total(h) \in Int
    BY <1>1, <2>1, TotalIsInt
  <2>5. Total(h) = 0
    BY <2>3, <2>4
  <2>6. T(0) = 1
    <3>1. BaseBits * 0 = 0
      BY BaseIs
    <3> QED BY <3>1, TwoToIs
  <2>7. x % 1 = 0
    <3>1. x % 1 \in 0 .. 1 - 1
      <4>1. 1 \in Nat /\ 1 > 0 /\ x \in Int
        BY <1>2
      <4> QED BY <4>1, Division
    <3> QED BY <3>1
  <2> QED BY <1>1, <2>5, <2>6, <2>7 DEF h
<1>7. ASSUME NEW k \in 1 .. n, k - 1 \in S PROVE k \in S
  <2> DEFINE c == k - 1
             z == <<l, c>>
             a == T(c)
             b == TwoTo[BaseBits]
             y == a * ((x \div a) % b)
             e == [ij \in D |-> IF ij = z THEN y ELSE 0]
  <2>1. c \in Nat /\ c \in 0 .. n - 1 /\ k = c + 1 /\ k \in Nat
    BY <1>1
  <2>2. a \in Nat /\ a > 0 /\ b \in Nat /\ b > 0 /\ T(k) = a * b
    <3>1. T(c + 1) = T(c) * b
      BY <2>1, BaseIs
    <3> HIDE DEF c
    <3> QED BY <2>1, <3>1, BaseIs DEF c
  <2>3. z \in D /\ z[1] = l /\ z[2] = c
    <3> HIDE DEF c
    <3>1. z \in {<<l, j>> : j \in 0 .. p.digits[l] - 1}
      BY <2>1
    <3> QED BY <3>1 DEF Positions
  <2>4. f[z] = y
    <3>1. f[z] = Weight_(l, z) * Digit(x, c)
      <4> HIDE DEF z
      <4> QED BY <2>3 DEF WeightedDigits
    <3>2. Weight_(l, z) = a
      BY <2>3 DEF Weight_
    <3>3. Digit(x, c) = (x \div a) % b
      BY DEF Digit
    <3> QED BY <3>1, <3>2, <3>3
  <2>5. x % T(k) = (x % a) + y /\ y \in Int
    <3> HIDE DEF a, b
    <3>1. x % (a * b) = (x % a) + a * ((x \div a) % b) /\ x \div a \in Nat
      BY <1>2, <2>2, MixedStep
    <3> DEFINE v == (x \div a) % b
    <3>2. v \in Int
      <4> DEFINE u == x \div a
      <4>1. u \in Int
        BY <3>1
      <4> HIDE DEF u
      <4>2. u % b \in 0 .. b - 1
        BY <2>2, <4>1, Division
      <4>3. u % b \in Int
        BY <4>2
      <4> QED BY <4>3 DEF u
    <3> HIDE DEF v
    <3>3. a * v \in Int
      BY <2>2, <3>2
    <3> QED BY <2>2, <3>1, <3>3 DEF v
  <2> HIDE DEF y
  <2>6. e \in [D -> Int] /\ e[z] = y /\ \A ij \in D : ij # z => e[ij] = 0
    <3> HIDE DEF z
    <3> QED BY <2>3, <2>5
  <2>7. ASSUME NEW ij \in D PROVE g(k)[ij] = 1 * g(c)[ij] + 1 * e[ij]
    <3>1. ij[2] \in Nat /\ f[ij] \in Int
      BY <1>3
    <3>2. CASE ij = z
      <4>1. ij[2] = c /\ f[ij] = y
        BY <2>3, <2>4, <3>2
      <4>2. ~ ij[2] < c /\ ij[2] < k
        <5> HIDE DEF c
        <5> QED BY <2>1, <4>1
      <4>3. g(k)[ij] = y /\ g(c)[ij] = 0 /\ e[ij] = y
        <5> HIDE DEF f, c, z
        <5> QED BY <3>2, <4>1, <4>2
      <4> HIDE DEF g, e, c
      <4> QED BY <2>5, <4>3
    <3>3. CASE ij # z
      <4>1. e[ij] = 0
        BY <2>6, <3>3
      <4>2. CASE ij[2] = c
        <5>1. ij[1] # l
          <6>1. PICK i \in LanesOf(p) : ij \in {<<i, j>> : j \in 0 .. p.digits[i] - 1}
            BY Zenon DEF Positions
          <6>2. ij = <<ij[1], ij[2]>>
            BY <6>1
          <6> QED BY <3>3, <4>2, <6>2
        <5>2. Weight_(l, ij) = 0
          BY <5>1 DEF Weight_
        <5>3. f[ij] = 0 * Digit(x, ij[2])
          BY <5>2 DEF WeightedDigits
        <5>4. Digit(x, ij[2]) \in Nat
          BY <1>2, <3>1, DigitIs
        <5>5. f[ij] = 0
          BY <5>3, <5>4
        <5>6. g(k)[ij] = 0 /\ g(c)[ij] = 0
          <6> HIDE DEF f
          <6> QED BY <5>5
        <5> QED BY <4>1, <5>6
      <4>3. CASE ij[2] # c
        <5>1. ij[2] < k <=> ij[2] < c
          <6> HIDE DEF c
          <6> QED BY <2>1, <3>1, <4>3
        <5>2. g(k)[ij] = g(c)[ij]
          <6> HIDE DEF f, c
          <6> QED BY <5>1
        <5>3. g(c)[ij] \in Int
          <6> HIDE DEF f, c
          <6> QED BY <3>1
        <5> HIDE DEF g, e, c
        <5> QED BY <4>1, <5>2, <5>3
      <4> QED BY <4>2, <4>3
    <3> QED BY <3>2, <3>3
  <2>8. Total(e) = y
    <3> HIDE DEF e, z
    <3>1. Total(e) = e[z]
      BY <1>1, <2>3, <2>6, TotalOfOne
    <3> QED BY <2>6, <3>1
  <2>9. Total(g(k)) = Total(g(c)) + Total(e)
    <3> DEFINE u == g(k)
               v == g(c)
    <3>1. u \in [D -> Int] /\ v \in [D -> Int]
      <4> HIDE DEF g, c
      <4> QED BY <1>5, <2>1
    <3>2. \A ij \in D : u[ij] = 1 * v[ij] + 1 * e[ij]
      BY <2>7
    <3> HIDE DEF u, v, e, D
    <3>3. IsCombination(D, u, 1, v, 1, e)
      BY <3>2 DEF IsCombination
    <3>4. Total(u) = 1 * Total(v) + 1 * Total(e)
      BY <1>1, <2>6, <3>1, <3>3, TotalIsLinear
    <3>5. Total(v) \in Int /\ Total(e) \in Int
      BY <1>1, <2>6, <3>1, TotalIsInt
    <3>6. Total(u) = Total(v) + Total(e)
      BY <3>4, <3>5
    <3> QED BY <3>6 DEF u, v
  <2>10. Total(g(c)) = x % a
    BY <1>7
  <2> HIDE DEF g, e, a, b, c, T
  <2>11. Total(g(k)) = x % T(k)
    BY <2>5, <2>8, <2>9, <2>10
  <2> QED BY <2>11
<1>8. 0 .. n \subseteq S
  <2> HIDE DEF S, n
  <2> QED BY <1>1, <1>6, <1>7, RangeInduction
<1>9. n \in S
  BY <1>1, <1>8
<1>10. Total(g(n)) = x % T(n)
  BY <1>9
<1>11. g(n) = f
  <2>1. ASSUME NEW ij \in D, ~ ij[2] < n PROVE f[ij] = 0
    <3>1. ij[1] \in LanesOf(p) /\ ij[2] \in 0 .. p.digits[ij[1]] - 1 /\ p.digits[ij[1]] \in Nat
      BY PositionsAre DEF CoversLanes
    <3>2. ij[1] # l
      BY <1>1, <2>1, <3>1
    <3>3. Weight_(l, ij) = 0
      BY <3>2 DEF Weight_
    <3>4. f[ij] = 0 * Digit(x, ij[2])
      BY <3>3 DEF WeightedDigits
    <3>5. ij[2] \in Nat
      BY <3>1
    <3>6. Digit(x, ij[2]) \in Nat
      BY <1>2, <3>5, DigitIs
    <3> QED BY <3>4, <3>6
  <2>2. f = [ij \in D |-> f[ij]]
    BY DEF WeightedDigits
  <2> HIDE DEF f, n
  <2>3. [ij \in D |-> IF ij[2] < n THEN f[ij] ELSE 0] = [ij \in D |-> f[ij]]
    BY <2>1
  <2> QED BY <2>2, <2>3
<1>12. x % T(n) = x
  <2> DEFINE m == T(n)
  <2>1. m \in Nat /\ x \in 0 .. m - 1
    <3>1. T(n) \in Nat
      BY <1>1, BaseIs
    <3> HIDE DEF T
    <3> QED BY <1>2, <3>1
  <2> HIDE DEF m
  <2>2. x % m = x
    BY <2>1, SmallResidue
  <2> QED BY <2>2 DEF m
<1> HIDE DEF g, T, f, n
<1>13. Total(f) = x
  BY <1>10, <1>11, <1>12
<1> QED BY <1>13 DEF f

\* Equal in the residue of one lane
LEMMA AgreeIsEquivalence ==
  ASSUME NEW a \in Polynomials, NEW b \in Polynomials, NEW c \in Polynomials, NEW m \in Int
  PROVE  /\ Agree(a, a, m)
         /\ Agree(a, b, m) => Agree(b, a, m)
         /\ Agree(a, b, m) /\ Agree(b, c, m) => Agree(a, c, m)
<1>1. \A k \in Powers : a[k] \in Int /\ b[k] \in Int /\ c[k] \in Int
  BY DEF Polynomials
<1>2. Agree(a, a, m)
  BY <1>1, SameReflexive DEF Agree
<1>3. ASSUME Agree(a, b, m) PROVE Agree(b, a, m)
  <2> SUFFICES ASSUME NEW k \in Powers PROVE Same(b[k], a[k], m)
    BY DEF Agree
  <2>1. Same(a[k], b[k], m)
    BY <1>3 DEF Agree
  <2> QED BY Zenon, <1>1, <2>1, SameSymmetric
<1>4. ASSUME Agree(a, b, m), Agree(b, c, m) PROVE Agree(a, c, m)
  <2> SUFFICES ASSUME NEW k \in Powers PROVE Same(a[k], c[k], m)
    BY DEF Agree
  <2>1. Same(a[k], b[k], m) /\ Same(b[k], c[k], m)
    BY <1>4 DEF Agree
  <2> QED BY Zenon, <1>1, <2>1, SameTransitive
<1> QED BY <1>2, <1>3, <1>4

LEMMA NegativesAgree ==
  ASSUME NEW a \in Polynomials, NEW b \in Polynomials, NEW m \in Int, Agree(a, b, m)
  PROVE  Agree(Minus(a), Minus(b), m)
<1> SUFFICES ASSUME NEW k \in Powers PROVE Same(Minus(a)[k], Minus(b)[k], m)
  BY DEF Agree
<1>1. a[k] \in Int /\ b[k] \in Int /\ Same(a[k], b[k], m)
  BY DEF Polynomials, Agree
<1>2. Same(-a[k], -b[k], m)
  BY Zenon, <1>1, SameNegative
<1> QED BY <1>2, MinusIs

\* Lane by lane, the ring computes with residues.
LEMMA RingLanes ==
  ASSUME NEW moduli \in Seq(Nat \ {0}), NEW l \in DOMAIN moduli,
         NEW a \in [1 .. Len(moduli) -> Polynomials], NEW b \in [1 .. Len(moduli) -> Polynomials],
         NEW x \in Polynomials, Agree(a[l], x, moduli[l]),
         NEW y \in Polynomials, Agree(b[l], y, moduli[l])
  PROVE  /\ Agree(RingMul(moduli, a, b)[l], Negacyclic(x, y), moduli[l])
         /\ Agree(RingAdd(moduli, a, b)[l], Plus(x, y), moduli[l])
         /\ Agree(RingNeg(moduli, a)[l], Minus(x), moduli[l])
<1> DEFINE m == moduli[l]
           u == a[l]
           v == b[l]
<1>1. m \in Nat /\ m > 0 /\ u \in Polynomials /\ v \in Polynomials /\ m \in Int
  OBVIOUS
<1>2. /\ RingMul(moduli, a, b)[l] = Mod(Negacyclic(u, v), m)
      /\ RingAdd(moduli, a, b)[l] = Mod(Plus(u, v), m)
      /\ RingNeg(moduli, a)[l] = Mod(Minus(u), m)
  <2>1. RingMul(moduli, a, b) = [i \in DOMAIN moduli |-> Mod(Negacyclic(a[i], b[i]), moduli[i])]
    BY RingMulIs
  <2>2. RingAdd(moduli, a, b) = [i \in DOMAIN moduli |-> Mod(Plus(a[i], b[i]), moduli[i])]
    BY RingAddIs
  <2>3. RingNeg(moduli, a) = [i \in DOMAIN moduli |-> Mod(Minus(a[i]), moduli[i])]
    BY RingNegIs
  <2> QED BY <2>1, <2>2, <2>3
<1>3. Agree(u, x, m) /\ Agree(v, y, m)
  OBVIOUS
<1> HIDE DEF m, u, v
<1>4. Agree(Mod(Negacyclic(u, v), m), Negacyclic(x, y), m)
  <2> DEFINE n == Negacyclic(u, v)
             z == Negacyclic(x, y)
  <2>1. n \in Polynomials /\ z \in Polynomials /\ Agree(n, z, m)
    BY <1>1, <1>3, NegacyclicIs, NegacyclicsAgree
  <2> HIDE DEF n, z
  <2>2. Mod(n, m) \in Polynomials /\ Agree(Mod(n, m), n, m)
    BY <1>1, <2>1, ModIs, ModAgrees
  <2>3. Agree(Mod(n, m), z, m)
    BY <1>1, <2>1, <2>2, AgreeIsEquivalence
  <2> QED BY <2>3 DEF n, z
<1>5. Agree(Mod(Plus(u, v), m), Plus(x, y), m)
  <2> DEFINE n == Plus(u, v)
             z == Plus(x, y)
  <2>1. n \in Polynomials /\ z \in Polynomials /\ Agree(n, z, m)
    BY <1>1, <1>3, PlusIs, SumsAgree
  <2> HIDE DEF n, z
  <2>2. Mod(n, m) \in Polynomials /\ Agree(Mod(n, m), n, m)
    BY <1>1, <2>1, ModIs, ModAgrees
  <2>3. Agree(Mod(n, m), z, m)
    BY <1>1, <2>1, <2>2, AgreeIsEquivalence
  <2> QED BY <2>3 DEF n, z
<1>6. Agree(Mod(Minus(u), m), Minus(x), m)
  <2> DEFINE n == Minus(u)
             z == Minus(x)
  <2>1. n \in Polynomials /\ z \in Polynomials /\ Agree(n, z, m)
    BY <1>1, <1>3, MinusIs, NegativesAgree
  <2> HIDE DEF n, z
  <2>2. Mod(n, m) \in Polynomials /\ Agree(Mod(n, m), n, m)
    BY <1>1, <2>1, ModIs, ModAgrees
  <2>3. Agree(Mod(n, m), z, m)
    BY <1>1, <2>1, <2>2, AgreeIsEquivalence
  <2> QED BY <2>3 DEF n, z
<1> QED BY <1>2, <1>4, <1>5, <1>6 DEF m

\* A small polynomial in every lane
LEMMA SignedIsInRing ==
  ASSUME NEW moduli \in Seq(Nat \ {0}), NEW a \in Polynomials
  PROVE  /\ Signed(moduli, a) = InRing(moduli, a)
         /\ InRing(moduli, a) \in [1 .. Len(moduli) -> Polynomials]
         /\ \A l \in DOMAIN moduli : Agree(InRing(moduli, a)[l], a, moduli[l])
<1>1. InRing(moduli, a) = [i \in DOMAIN moduli |-> Mod(a, moduli[i])] /\ IsElement(InRing(moduli, a), moduli)
  BY InRingIs
<1>2. ASSUME NEW l \in DOMAIN moduli PROVE Agree(InRing(moduli, a)[l], a, moduli[l])
  <2>1. moduli[l] \in Nat /\ moduli[l] > 0
    OBVIOUS
  <2>2. Agree(Mod(a, moduli[l]), a, moduli[l])
    BY Zenon, <2>1, ModAgrees
  <2> QED BY <1>1, <2>2
<1> QED BY <1>1, <1>2 DEF Signed, IsElement

\* One sample of a key, lane by lane
LEMMA MaskedLanes ==
  ASSUME NEW p, p.main \in Seq(Nat \ {0}), NEW l \in DOMAIN p.main, NEW s \in Polynomials,
         NEW draw, draw.mask \in Polynomials, draw.error \in Polynomials,
         NEW message \in [1 .. Len(p.main) -> Polynomials],
         NEW x \in Polynomials, Agree(message[l], x, p.main[l])
  PROVE  LET c == Masked(p, Signed(p.main, s), draw, message)
         IN  /\ Agree(c[2][l], draw.mask, p.main[l])
             /\ Agree(c[1][l], Plus(Minus(Plus(Negacyclic(draw.mask, s), draw.error)), x), p.main[l])
<1> DEFINE moduli == p.main
           mask == InRing(moduli, draw.mask)
           sl == Signed(moduli, s)
           e == Signed(moduli, draw.error)
           ms == RingMul(moduli, mask, sl)
           noisy == RingAdd(moduli, ms, e)
           neg == RingNeg(moduli, noisy)
           body == RingAdd(moduli, neg, message)
           a == draw.mask
           d == draw.error
           P == [1 .. Len(moduli) -> Polynomials]
<1>1. Masked(p, sl, draw, message) = <<body, mask>>
  BY DEF Masked
<1>2. moduli \in Seq(Nat \ {0}) /\ l \in DOMAIN moduli /\ a \in Polynomials /\ d \in Polynomials
      /\ message \in P /\ Agree(message[l], x, moduli[l])
  OBVIOUS
<1>3. mask \in P /\ sl \in P /\ e \in P
  <2>1. mask \in P
    BY SignedIsInRing
  <2>2. sl \in P
    BY SignedIsInRing
  <2>3. e \in P
    BY SignedIsInRing
  <2> QED BY <2>1, <2>2, <2>3
<1>4. Agree(mask[l], a, moduli[l]) /\ Agree(sl[l], s, moduli[l]) /\ Agree(e[l], d, moduli[l])
  <2>1. Agree(mask[l], a, moduli[l])
    BY SignedIsInRing
  <2>2. sl = InRing(moduli, s) /\ Agree(InRing(moduli, s)[l], s, moduli[l])
    BY SignedIsInRing
  <2>3. e = InRing(moduli, d) /\ Agree(InRing(moduli, d)[l], d, moduli[l])
    BY SignedIsInRing
  <2> HIDE DEF sl, e
  <2> QED BY <2>1, <2>2, <2>3
<1> HIDE DEF moduli, mask, sl, e, a, d, P
<1> DEFINE as == Negacyclic(a, s)
           n == Plus(as, d)
           g == Minus(n)
<1>5. as \in Polynomials
  BY <1>2, NegacyclicIs
<1>6. n \in Polynomials
  <2> HIDE DEF as
  <2> QED BY <1>2, <1>5, PlusIs
<1>7. g \in Polynomials
  <2> HIDE DEF n
  <2> QED BY <1>6, MinusIs
<1>8. ms \in P /\ Agree(ms[l], as, moduli[l])
  BY <1>2, <1>3, <1>4, RingMulIs, RingLanes, ElementsAre DEF P
<1> HIDE DEF ms, as
<1>9. noisy \in P /\ Agree(noisy[l], n, moduli[l])
  BY <1>2, <1>3, <1>4, <1>5, <1>8, RingAddIs, RingLanes, ElementsAre DEF P
<1> HIDE DEF noisy, n
<1>10. neg \in P /\ Agree(neg[l], g, moduli[l])
  BY <1>2, <1>6, <1>9, RingNegIs, RingLanes, ElementsAre DEF P
<1> HIDE DEF neg, g
<1>11. Agree(body[l], Plus(g, x), moduli[l])
  BY <1>2, <1>7, <1>10, RingLanes DEF P
<1> HIDE DEF body
<1> QED BY <1>1, <1>4, <1>11 DEF g, n, as, moduli, sl, a, d

\* The digits of a ring element at one position of the gadget key
DigitsAt(element, ij) == [k \in Powers |-> Digit(element[ij[1]][k], ij[2])]

\* The digits of a lane are polynomials of naturals.
LEMMA DigitsAtIs ==
  ASSUME NEW p, MainModuli(p.main), CoversLanes(p),
         NEW element, IsElement(element, p.main), NEW ij \in Positions(p)
  PROVE  /\ DigitsAt(element, ij) \in Polynomials
         /\ \A k \in Powers : DigitsAt(element, ij)[k] \in Nat
<1>1. ij[1] \in LanesOf(p) /\ ij[2] \in Nat
  BY PositionsAre, WeightIs DEF CoversLanes
<1>2. LanesOf(p) = 1 .. Len(p.main)
  BY DEF MainModuli, LanesOf
<1>3. ASSUME NEW k \in Powers PROVE Digit(element[ij[1]][k], ij[2]) \in Nat
  <2>1. element[ij[1]][k] \in 0 .. p.main[ij[1]] - 1
    BY <1>1, <1>2 DEF IsElement
  <2>2. p.main[ij[1]] \in Nat
    BY <1>1, <1>2 DEF MainModuli
  <2>3. element[ij[1]][k] \in Nat
    BY <2>1, <2>2
  <2> QED BY Zenon, <1>1, <2>3, DigitIs
<1>4. \A k \in Powers : DigitsAt(element, ij)[k] \in Nat
  BY <1>3 DEF DigitsAt
<1>5. DigitsAt(element, ij) = [k \in Powers |-> DigitsAt(element, ij)[k]]
  BY DEF DigitsAt
<1> HIDE DEF DigitsAt
<1> QED BY <1>4, <1>5 DEF Polynomials

\* The digits times what is at each position
DigitsTimes(p, element, f) ==
  [ij \in Positions(p) |-> Negacyclic(DigitsAt(element, ij), f[ij])]

\* The fold of a lane is the sum of the digits times the key.
LEMMA LaneFoldAgrees ==
  ASSUME NEW p, MainModuli(p.main), p.main \in Seq(Nat \ {0}), CoversLanes(p),
         NEW element, IsElement(element, p.main), NEW gadget, IsGadget(p, gadget),
         NEW component \in {1, 2}, NEW l \in LanesOf(p),
         NEW key \in [Positions(p) -> Polynomials],
         \A ij \in Positions(p) :
           Agree(gadget[ij[1]][ij[2]][component][l], key[ij], p.main[l])
  PROVE  LET f == DigitsTimes(p, element, key)
         IN  /\ Summed(Positions(p), f) \in Polynomials
             /\ Agree(LaneFold(p, element, gadget, component, l), Summed(Positions(p), f), p.main[l])
<1> DEFINE m == p.main[l]
           D == Positions(p)
           f == [ij \in D |-> Negacyclic(DigitsAt(element, ij), key[ij])]
           rest(ij) == [k \in Powers |-> Digit(element[ij[1]][k], ij[2]) % m]
           g == [ij \in D |-> Mod(Negacyclic(rest(ij), gadget[ij[1]][ij[2]][component][l]), m)]
<1>1. LanesOf(p) = 1 .. Len(p.main) /\ DOMAIN p.main = 1 .. Len(p.main)
  BY DEF MainModuli, LanesOf
<1>2. m \in Nat /\ m > 0 /\ m \in Int
  BY <1>1
<1>3. IsFiniteSet(D) /\ \A ij \in D : ij[1] \in LanesOf(p) /\ ij[2] \in 0 .. p.digits[ij[1]] - 1
  BY PositionsAre DEF CoversLanes
<1>4. ASSUME NEW ij \in D
      PROVE  /\ f[ij] \in Polynomials /\ g[ij] \in Polynomials /\ Agree(g[ij], f[ij], m)
  <2> DEFINE d == DigitsAt(element, ij)
             r == rest(ij)
             b == gadget[ij[1]][ij[2]][component][l]
             x == key[ij]
  <2>1. d \in Polynomials
    BY DigitsAtIs
  <2>2. r = Mod(d, m)
    <3>1. Mod(d, m) = [k \in Powers |-> d[k] % m]
      <4> HIDE DEF d, m
      <4> QED BY <1>2, <2>1, ModIs
    <3> QED BY <3>1 DEF DigitsAt
  <2>3. b \in Polynomials
    <3>1. IsCiphertext(gadget[ij[1]][ij[2]], p.main)
      BY <1>3 DEF IsGadget
    <3>2. IsElement(gadget[ij[1]][ij[2]][component], p.main)
      BY <3>1 DEF IsCiphertext
    <3> QED BY <1>1, <3>2 DEF IsElement
  <2>4. x \in Polynomials /\ Agree(b, x, m)
    OBVIOUS
  <2>5. f[ij] = Negacyclic(d, x) /\ g[ij] = Mod(Negacyclic(r, b), m)
    OBVIOUS
  <2> HIDE DEF m, d, r, b, x, f, g
  <2>6. r \in Polynomials /\ Agree(r, d, m)
    BY <1>2, <2>1, <2>2, ModIs, ModAgrees
  <2> DEFINE rb == Negacyclic(r, b)
             dx == Negacyclic(d, x)
  <2>7. rb \in Polynomials /\ dx \in Polynomials /\ Agree(rb, dx, m)
    BY <1>2, <2>1, <2>3, <2>4, <2>6, NegacyclicIs, NegacyclicsAgree
  <2> HIDE DEF rb, dx
  <2>8. Mod(rb, m) \in Polynomials /\ Agree(Mod(rb, m), rb, m)
    BY <1>2, <2>7, ModIs, ModAgrees
  <2>9. Agree(Mod(rb, m), dx, m)
    BY <1>2, <2>7, <2>8, AgreeIsEquivalence
  <2> QED BY <2>5, <2>7, <2>8, <2>9 DEF rb, dx
<1>5. f \in [D -> Polynomials] /\ g \in [D -> Polynomials]
  <2>1. f = [ij \in D |-> f[ij]] /\ g = [ij \in D |-> g[ij]]
    OBVIOUS
  <2> HIDE DEF f, g
  <2> QED BY <1>4, <2>1
<1>6. LaneFold(p, element, gadget, component, l) = [k \in Powers |-> Total([ij \in D |-> g[ij][k]]) % m]
  <2>1. LaneFold(p, element, gadget, component, l)
          = [k \in Powers |-> Total([ij \in D |-> Mod(Negacyclic(rest(ij), gadget[ij[1]][ij[2]][component][l]), m)[k]]) % m]
    BY Zenon DEF LaneFold, SumOver, Total, Positions
  <2>2. \A k \in Powers : [ij \in D |-> Mod(Negacyclic(rest(ij), gadget[ij[1]][ij[2]][component][l]), m)[k]]
                            = [ij \in D |-> g[ij][k]]
    OBVIOUS
  <2> QED BY Zenon, <2>1, <2>2
<1> HIDE DEF f, g, m, D
<1> DEFINE sf == Summed(D, f)
           sg == Summed(D, g)
<1>7. sf \in Polynomials /\ sg \in Polynomials
  BY <1>3, <1>5, SummedIs
<1>8. Agree(sg, sf, m)
  BY <1>2, <1>3, <1>4, <1>5, SummedAgree
<1>9. LaneFold(p, element, gadget, component, l) = Mod(sg, m)
  <2>1. Mod(sg, m) = [k \in Powers |-> sg[k] % m]
    <3> HIDE DEF sg
    <3> QED BY <1>2, <1>7, ModIs
  <2>2. \A k \in Powers : sg[k] = Total([ij \in D |-> g[ij][k]])
    BY DEF Summed
  <2> HIDE DEF sg
  <2> QED BY <1>6, <2>1, <2>2
<1> HIDE DEF sf, sg
<1>10. Mod(sg, m) \in Polynomials /\ Agree(Mod(sg, m), sg, m)
  BY <1>2, <1>7, ModIs, ModAgrees
<1>11. Agree(Mod(sg, m), sf, m)
  BY <1>2, <1>7, <1>8, <1>10, AgreeIsEquivalence
<1>12. DigitsTimes(p, element, key) = f
  BY DEF DigitsTimes, f, D
<1> QED BY <1>7, <1>9, <1>11, <1>12 DEF sf, m, D

\* What samples of a gadget key for T are, less their masks, in one lane
IsKeyFor(key, p, l, s, T, mask, error) ==
  \A ij \in Positions(p) : \A k \in Powers :
    key[ij][k] = Weight_(l, ij) * T[k] - (Negacyclic(mask[ij], s)[k] + error[ij][k])

\* What folding a ring element with the key makes, read with the secret, is the
\* element times T, less the digits times the errors.
FoldsTo(p, l, element, s, T, mask, error, key) ==
  \A k \in Powers :
    Summed(Positions(p), DigitsTimes(p, element, key))[k]
      + Negacyclic(Summed(Positions(p), DigitsTimes(p, element, mask)), s)[k]
    = Negacyclic(element[l], T)[k] - Summed(Positions(p), DigitsTimes(p, element, error))[k]

\* Folding a ring element with a gadget key for T: what it makes, read with
\* the secret, is the element times T, less the digits times the errors.
LEMMA DigitsFold ==
  ASSUME NEW p, MainModuli(p.main), CoversLanes(p), NEW l \in LanesOf(p),
         NEW element, IsElement(element, p.main), NEW s \in Polynomials, NEW T \in Polynomials,
         NEW mask \in [Positions(p) -> Polynomials], NEW error \in [Positions(p) -> Polynomials],
         NEW key \in [Positions(p) -> Polynomials],
         IsKeyFor(key, p, l, s, T, mask, error)
  PROVE  FoldsTo(p, l, element, s, T, mask, error, key)
<1> DEFINE D == Positions(p)
           times(f) == [ij \in D |-> Negacyclic(DigitsAt(element, ij), f[ij])]
           x == times(key)
           a == times(mask)
           z == times(error)
           y == [ij \in D |-> Negacyclic(a[ij], s)]
           w == [ij \in D |-> [k \in Powers |-> Weight_(l, ij) * DigitsAt(element, ij)[k]]]
           v == [ij \in D |-> Negacyclic(w[ij], T)]
           e == element[l]
<1>1. IsFiniteSet(D)
  BY PositionsAre DEF CoversLanes
<1>2. ASSUME NEW ij \in D
      PROVE  /\ DigitsAt(element, ij) \in Polynomials /\ Weight_(l, ij) \in Int
             /\ w[ij] \in Polynomials
             /\ \A k \in Powers : w[ij][k] = Weight_(l, ij) * DigitsAt(element, ij)[k]
  <2> DEFINE d == DigitsAt(element, ij)
             c == Weight_(l, ij)
  <2>1. d \in Polynomials /\ c \in Int
    <3>1. d \in Polynomials
      BY DigitsAtIs
    <3>2. c \in Nat
      BY WeightIs
    <3> HIDE DEF c, d
    <3> QED BY <3>1, <3>2
  <2>2. w[ij] = [k \in Powers |-> c * d[k]]
    OBVIOUS
  <2> HIDE DEF w, c, d
  <2>3. \A k \in Powers : c * d[k] \in Int
    BY <2>1 DEF Polynomials
  <2> QED BY <2>1, <2>2, <2>3 DEF c, d, Polynomials
<1>3. ASSUME NEW ij \in D
      PROVE  /\ x[ij] \in Polynomials /\ a[ij] \in Polynomials /\ z[ij] \in Polynomials
             /\ y[ij] \in Polynomials /\ v[ij] \in Polynomials
  <2>1. DigitsAt(element, ij) \in Polynomials /\ w[ij] \in Polynomials
    BY <1>2
  <2>2. a[ij] = Negacyclic(DigitsAt(element, ij), mask[ij])
    OBVIOUS
  <2>3. a[ij] \in Polynomials
    BY <2>1, NegacyclicIs
  <2> HIDE DEF a, w
  <2> QED BY <2>1, <2>3, NegacyclicIs
<1>4. /\ x \in [D -> Polynomials] /\ a \in [D -> Polynomials] /\ z \in [D -> Polynomials]
      /\ y \in [D -> Polynomials] /\ v \in [D -> Polynomials] /\ w \in [D -> Polynomials]
  <2>1. /\ x = [ij \in D |-> x[ij]] /\ a = [ij \in D |-> a[ij]] /\ z = [ij \in D |-> z[ij]]
        /\ y = [ij \in D |-> y[ij]] /\ v = [ij \in D |-> v[ij]] /\ w = [ij \in D |-> w[ij]]
    OBVIOUS
  <2> HIDE DEF x, a, z, y, v, w
  <2> QED BY <1>2, <1>3, <2>1
\* One position
<1>5. ASSUME NEW ij \in D, NEW k \in Powers PROVE x[ij][k] + y[ij][k] = v[ij][k] - z[ij][k]
  <2> DEFINE d == DigitsAt(element, ij)
             c == Weight_(l, ij)
             M == mask[ij]
             Ms == Negacyclic(M, s)
             E == error[ij]
             K == key[ij]
             dM == Negacyclic(d, M)
             dMs == Negacyclic(d, Ms)
             dE == Negacyclic(d, E)
             dT == Negacyclic(d, T)
             u == Plus(Ms, E)
             du == Negacyclic(d, u)
             W == w[ij]
  <2>1. d \in Polynomials /\ c \in Int /\ M \in Polynomials /\ E \in Polynomials /\ K \in Polynomials
        /\ Ms \in Polynomials
    BY <1>2, NegacyclicIs
  <2>2. \A n \in Powers : K[n] = c * T[n] - (Ms[n] + E[n])
    BY DEF IsKeyFor
  <2>3. x[ij] = Negacyclic(d, K) /\ y[ij] = Negacyclic(dM, s) /\ z[ij] = dE /\ v[ij] = Negacyclic(W, T)
    OBVIOUS
  <2>4. W \in Polynomials /\ \A n \in Powers : W[n] = c * d[n]
    BY <1>2
  <2>5. y[ij] = dMs
    <3> HIDE DEF d, M, y
    <3> QED BY <2>1, <2>3, NegacyclicAssociates
  <2> HIDE DEF d, c, M, E, K, W, x, y, z, v, Ms
  <2>6. u \in Polynomials /\ \A n \in Powers : u[n] = Ms[n] + E[n]
    BY <2>1, PlusIs
  <2>7. dMs[k] \in Int /\ dE[k] \in Int /\ dT[k] \in Int
    <3>1. dMs \in Polynomials /\ dE \in Polynomials /\ dT \in Polynomials
      BY <2>1, NegacyclicIs
    <3> HIDE DEF dMs, dE, dT
    <3> QED BY <3>1 DEF Polynomials
  <2>8. du[k] = dMs[k] + dE[k]
    <3>1. Combines(u, 1, Ms, 1, E)
      <4> HIDE DEF u
      <4>1. \A n \in Powers : Ms[n] \in Int /\ E[n] \in Int
        BY <2>1 DEF Polynomials
      <4> QED BY <2>6, <4>1 DEF Combines
    <3> HIDE DEF u
    <3>2. Combines(du, 1, dMs, 1, dE)
      BY <2>1, <2>6, <3>1, ProductIsLinear
    <3>3. dMs[k] \in Int /\ dE[k] \in Int
      BY <2>7
    <3>4. du[k] = 1 * dMs[k] + 1 * dE[k]
      BY <3>2 DEF Combines
    <3> HIDE DEF dMs, dE, du
    <3> QED BY <3>3, <3>4
  <2> HIDE DEF u
  <2>9. x[ij][k] = c * dT[k] - du[k]
    <3>1. Combines(K, c, T, -1, u)
      <4>1. \A n \in Powers : T[n] \in Int /\ u[n] \in Int
        BY <2>6 DEF Polynomials
      <4>2. \A n \in Powers : K[n] = c * T[n] - u[n] /\ c * T[n] \in Int
        BY <2>1, <2>2, <2>6, <4>1
      <4>3. \A n \in Powers : K[n] = c * T[n] + (-1) * u[n]
        BY <4>1, <4>2
      <4> QED BY <4>3 DEF Combines
    <3>2. Combines(Negacyclic(d, K), c, dT, -1, du)
      <4>1. -1 \in Int
        OBVIOUS
      <4> QED BY <2>1, <2>6, <3>1, <4>1, ProductIsLinear
    <3>3. dT[k] \in Int /\ du[k] \in Int
      <4>1. dMs[k] + dE[k] \in Int
        <5> HIDE DEF dMs, dE
        <5> QED BY <2>7
      <4> QED BY <2>8, <2>7, <4>1
    <3>4. x[ij][k] = c * dT[k] + (-1) * du[k]
      BY <2>3, <3>2 DEF Combines
    <3> HIDE DEF dT, du
    <3>5. c * dT[k] \in Int
      BY <2>1, <3>3
    <3> QED BY <3>3, <3>4, <3>5
  <2>10. v[ij][k] = c * dT[k]
    <3>1. Combines(W, c, d, 0, d)
      <4>1. \A n \in Powers : d[n] \in Int
        BY <2>1 DEF Polynomials
      <4>2. \A n \in Powers : W[n] = c * d[n] /\ c * d[n] \in Int
        BY <2>1, <2>4, <4>1
      <4>3. \A n \in Powers : W[n] = c * d[n] + 0 * d[n]
        BY <4>1, <4>2
      <4> QED BY <4>3 DEF Combines
    <3>2. Combines(Negacyclic(W, T), c, dT, 0, dT)
      <4>1. 0 \in Int
        OBVIOUS
      <4> QED BY <2>1, <2>4, <3>1, <4>1, ProductIsLinear
    <3>3. dT[k] \in Int
      BY <2>7
    <3>4. v[ij][k] = c * dT[k] + 0 * dT[k]
      BY <2>3, <3>2 DEF Combines
    <3> HIDE DEF dT
    <3>5. c * dT[k] \in Int
      BY <2>1, <3>3
    <3> QED BY <3>3, <3>4, <3>5
  <2>11. dMs[k] \in Int /\ dE[k] \in Int /\ c * dT[k] \in Int
    <3> HIDE DEF dT, dMs, dE
    <3> QED BY <2>1, <2>7
  <2>12. y[ij][k] = dMs[k] /\ z[ij][k] = dE[k]
    BY <2>3, <2>5
  <2> HIDE DEF dMs, dE, dT, du
  <2> DEFINE cd == c * dT[k]
  <2>13. x[ij][k] = cd - (dMs[k] + dE[k]) /\ v[ij][k] = cd /\ cd \in Int
    BY <2>8, <2>9, <2>10, <2>11
  <2> HIDE DEF cd
  <2> QED BY <2>11, <2>12, <2>13
\* The digits of the lane, weighted, make its residues.
<1>6. Summed(D, w) = e
  <2>1. e \in Polynomials /\ \A k \in Powers : e[k] \in 0 .. p.main[l] - 1
    <3>1. l \in 1 .. Len(p.main)
      BY DEF MainModuli, LanesOf
    <3> QED BY <3>1 DEF IsElement
  <2>2. ASSUME NEW k \in Powers PROVE Summed(D, w)[k] = e[k]
    <3> DEFINE n == e[k]
    <3>1. n \in 0 .. p.main[l] - 1
      BY <2>1
    <3>2. ASSUME NEW ij \in D PROVE w[ij][k] = Weight_(l, ij) * Digit(n, ij[2])
      <4>1. w[ij][k] = Weight_(l, ij) * Digit(element[ij[1]][k], ij[2])
        BY DEF DigitsAt
      <4>2. CASE ij[1] = l
        BY <4>1, <4>2
      <4>3. CASE ij[1] # l
        <5>1. Weight_(l, ij) = 0
          BY <4>3 DEF Weight_
        <5>2. DigitsAt(element, ij)[k] \in Nat
          BY DigitsAtIs
        <5>3. Digit(element[ij[1]][k], ij[2]) \in Nat
          BY <5>2 DEF DigitsAt
        <5>4. p.main[l] \in Nat
          BY DEF MainModuli, LanesOf
        <5>5. n \in Nat
          <6> HIDE DEF n
          <6> QED BY <3>1, <5>4
        <5>6. ij[2] \in Nat
          BY WeightIs
        <5> HIDE DEF n
        <5>7. Digit(n, ij[2]) \in Nat
          BY <5>5, <5>6, DigitIs
        <5> HIDE DEF w
        <5> QED BY <4>1, <5>1, <5>3, <5>7
      <4> QED BY <4>2, <4>3
    <3>3. Summed(D, w)[k] = Total([ij \in D |-> w[ij][k]])
      BY DEF Summed
    <3> HIDE DEF w, n
    <3>4. [ij \in D |-> w[ij][k]] = WeightedDigits(p, l, n)
      BY <3>2 DEF WeightedDigits
    <3>5. Total(WeightedDigits(p, l, n)) = n
      BY <3>1, DigitsMakeWhole
    <3> QED BY <3>3, <3>4, <3>5 DEF n
  <2> HIDE DEF w, e
  <2>3. Summed(D, w) \in Polynomials
    BY <1>1, <1>4, SummedIs
  <2> QED BY <2>1, <2>2, <2>3, SamePolynomial
\* All positions
<1>7. Negacyclic(Summed(D, a), s) = Summed(D, y)
  <2> HIDE DEF a
  <2> QED BY <1>1, <1>4, ProductOfSummed
<1>8. Negacyclic(e, T) = Summed(D, v)
  <2> HIDE DEF w, e
  <2>1. Negacyclic(Summed(D, w), T) = Summed(D, v)
    BY <1>1, <1>4, ProductOfSummed
  <2> QED BY <1>6, <2>1
<1>9. ASSUME NEW k \in Powers PROVE Summed(D, x)[k] + Summed(D, y)[k] = Summed(D, v)[k] - Summed(D, z)[k]
  <2> DEFINE h == [ij \in D |-> [n \in Powers |-> x[ij][n] + y[ij][n]]]
  <2> HIDE DEF x, y, z, v, a, w
  <2>1. ASSUME NEW ij \in D
        PROVE  /\ h[ij] \in Polynomials
               /\ Combines(h[ij], 1, x[ij], 1, y[ij]) /\ Combines(h[ij], 1, v[ij], -1, z[ij])
    <3>1. \A n \in Powers : x[ij][n] \in Int /\ y[ij][n] \in Int /\ v[ij][n] \in Int /\ z[ij][n] \in Int
      BY <1>3 DEF Polynomials
    <3>2. h[ij] = [n \in Powers |-> x[ij][n] + y[ij][n]]
      OBVIOUS
    <3> HIDE DEF h
    <3>3. \A n \in Powers : x[ij][n] + y[ij][n] = v[ij][n] - z[ij][n]
      BY <1>5
    <3>4. h[ij] \in Polynomials
      BY <3>1, <3>2 DEF Polynomials
    <3>5. \A n \in Powers : h[ij][n] = 1 * x[ij][n] + 1 * y[ij][n]
      BY <3>1, <3>2
    <3>6. \A n \in Powers : h[ij][n] = 1 * v[ij][n] + (-1) * z[ij][n]
      BY <3>1, <3>2, <3>3
    <3> QED BY <3>4, <3>5, <3>6 DEF Combines
  <2>2. h \in [D -> Polynomials]
    <3>1. h = [ij \in D |-> h[ij]]
      OBVIOUS
    <3> HIDE DEF h
    <3> QED BY <2>1, <3>1
  <2> HIDE DEF h, D
  <2>3. Combines(Summed(D, h), 1, Summed(D, x), 1, Summed(D, y))
    <3>1. \A ij \in D : Combines(h[ij], 1, x[ij], 1, y[ij])
      BY <2>1
    <3>2. 1 \in Int
      OBVIOUS
    <3> QED BY Zenon, <1>1, <1>4, <2>2, <3>1, <3>2, SummedIsLinear
  <2>4. Combines(Summed(D, h), 1, Summed(D, v), -1, Summed(D, z))
    <3>1. \A ij \in D : Combines(h[ij], 1, v[ij], -1, z[ij])
      BY <2>1
    <3>2. 1 \in Int /\ -1 \in Int
      OBVIOUS
    <3> QED BY Zenon, <1>1, <1>4, <2>2, <3>1, <3>2, SummedIsLinear
  <2>5. /\ Summed(D, x)[k] \in Int /\ Summed(D, y)[k] \in Int
        /\ Summed(D, v)[k] \in Int /\ Summed(D, z)[k] \in Int
    <3>1. /\ Summed(D, x) \in Polynomials /\ Summed(D, y) \in Polynomials
          /\ Summed(D, v) \in Polynomials /\ Summed(D, z) \in Polynomials
      BY Zenon, <1>1, <1>4, SummedIs
    <3> QED BY <3>1 DEF Polynomials
  <2>6. /\ Summed(D, h)[k] = 1 * Summed(D, x)[k] + 1 * Summed(D, y)[k]
        /\ Summed(D, h)[k] = 1 * Summed(D, v)[k] + (-1) * Summed(D, z)[k]
    BY <2>3, <2>4 DEF Combines
  <2> QED BY <2>5, <2>6
<1> HIDE DEF x, y, z, v, w, a
<1>10. \A k \in Powers : Summed(D, x)[k] + Negacyclic(Summed(D, a), s)[k] = Negacyclic(e, T)[k] - Summed(D, z)[k]
  BY <1>7, <1>8, <1>9
<1>11. /\ DigitsTimes(p, element, key) = x /\ DigitsTimes(p, element, mask) = a
       /\ DigitsTimes(p, element, error) = z
  BY DEF DigitsTimes, x, a, z
<1> HIDE DEF D, e
<1>12. \A k \in Powers :
         Summed(D, DigitsTimes(p, element, key))[k] + Negacyclic(Summed(D, DigitsTimes(p, element, mask)), s)[k]
         = Negacyclic(e, T)[k] - Summed(D, DigitsTimes(p, element, error))[k]
  BY <1>10, <1>11
<1> QED BY <1>12 DEF FoldsTo, D, e

\* Ring elements with the same coefficients are the same.
LEMMA ElementsAreEqual ==
  ASSUME NEW moduli \in Seq(Nat \ {0}), NEW a, IsElement(a, moduli), NEW b, IsElement(b, moduli),
         \A l \in DOMAIN moduli : Agree(a[l], b[l], moduli[l])
  PROVE  a = b
<1>1. ASSUME NEW l \in DOMAIN moduli PROVE a[l] = b[l]
  <2> DEFINE m == moduli[l]
             x == a[l]
             y == b[l]
  <2>1. m \in Nat /\ m > 0 /\ x \in [Powers -> 0 .. m - 1] /\ y \in [Powers -> 0 .. m - 1]
        /\ Agree(x, y, m)
    BY DEF IsElement
  <2> HIDE DEF m, x, y
  <2>2. ASSUME NEW k \in Powers PROVE x[k] = y[k]
    <3>1. x[k] \in 0 .. m - 1 /\ y[k] \in 0 .. m - 1 /\ Same(x[k], y[k], m)
      BY <2>1 DEF Agree
    <3> DEFINE u == x[k]
               v == y[k]
    <3>2. u \in 0 .. m - 1 /\ v \in 0 .. m - 1 /\ Same(u, v, m) /\ u \in Int
      BY <3>1
    <3> HIDE DEF u, v
    <3>3. u % m = v
      BY <2>1, <3>2, ResidueIs
    <3>4. u % m = u
      BY <2>1, <3>2, SmallResidue
    <3> QED BY <3>3, <3>4 DEF u, v
  <2>3. x = y
    BY <2>1, <2>2
  <2> QED BY <2>3 DEF x, y
<1>2. a = [l \in DOMAIN moduli |-> a[l]] /\ b = [l \in DOMAIN moduli |-> b[l]]
  BY DEF IsElement
<1> QED BY Zenon, <1>1, <1>2

\* What a sample of the gadget key is, less its mask
KeyBody(samples, p, s, T, l) ==
  [ij \in Positions(p) |-> [k \in Powers |->
     Weight_(l, ij) * T[k]
       - (Negacyclic(samples[DrawOf(p, ij[1], ij[2])].mask, s)[k]
            + samples[DrawOf(p, ij[1], ij[2])].error[k])]]

\* What a place of the tape holds
MaskAt(samples, p) == [ij \in Positions(p) |-> samples[DrawOf(p, ij[1], ij[2])].mask]
ErrorAt(samples, p) == [ij \in Positions(p) |-> samples[DrawOf(p, ij[1], ij[2])].error]

\* The samples are polynomials.
LEMMA SamplesAre ==
  ASSUME NEW p, MainModuli(p.main), CoversLanes(p), NEW samples, IsTape(p, samples)
  PROVE  /\ MaskAt(samples, p) \in [Positions(p) -> Polynomials]
         /\ ErrorAt(samples, p) \in [Positions(p) -> Polynomials]
<1>1. ASSUME NEW ij \in Positions(p)
      PROVE  /\ samples[DrawOf(p, ij[1], ij[2])].mask \in Polynomials
             /\ samples[DrawOf(p, ij[1], ij[2])].error \in Polynomials
  <2>1. ij[1] \in LanesOf(p) /\ ij[2] \in 0 .. p.digits[ij[1]] - 1
    BY PositionsAre DEF CoversLanes
  <2> QED BY <2>1 DEF IsTape
<1> QED BY <1>1 DEF MaskAt, ErrorAt

\* The first component of a row of the key, in one lane
LEMMA KeyBodyIs ==
  ASSUME NEW p, MainModuli(p.main), CoversLanes(p), NEW samples, IsTape(p, samples),
         NEW s \in Polynomials, NEW T \in Polynomials, NEW l \in LanesOf(p)
  PROVE  KeyBody(samples, p, s, T, l) \in [Positions(p) -> Polynomials]
<1>1. ASSUME NEW ij \in Positions(p)
      PROVE  /\ samples[DrawOf(p, ij[1], ij[2])].mask \in Polynomials
             /\ samples[DrawOf(p, ij[1], ij[2])].error \in Polynomials
             /\ Weight_(l, ij) \in Int
  <2>1. ij[1] \in LanesOf(p) /\ ij[2] \in 0 .. p.digits[ij[1]] - 1
    BY PositionsAre DEF CoversLanes
  <2>2. Weight_(l, ij) \in Nat
    BY WeightIs
  <2> QED BY <2>1, <2>2 DEF IsTape
<1>3. ASSUME NEW ij \in Positions(p) PROVE KeyBody(samples, p, s, T, l)[ij] \in Polynomials
  <2> DEFINE M == samples[DrawOf(p, ij[1], ij[2])].mask
             E == samples[DrawOf(p, ij[1], ij[2])].error
             w == Weight_(l, ij)
             g == Negacyclic(M, s)
  <2>1. KeyBody(samples, p, s, T, l)[ij] = [k \in Powers |-> w * T[k] - (g[k] + E[k])]
    BY DEF KeyBody
  <2>2. M \in Polynomials /\ E \in Polynomials /\ w \in Int
    BY <1>1
  <2> HIDE DEF M, E, w
  <2>3. g \in Polynomials
    BY <2>2, NegacyclicIs
  <2> HIDE DEF g
  <2>4. \A k \in Powers : w * T[k] - (g[k] + E[k]) \in Int
    <3> SUFFICES ASSUME NEW k \in Powers PROVE w * T[k] - (g[k] + E[k]) \in Int
      OBVIOUS
    <3>1. T[k] \in Int /\ g[k] \in Int /\ E[k] \in Int
      BY <2>2, <2>3 DEF Polynomials
    <3>2. w * T[k] \in Int
      BY <2>2, <3>1
    <3> QED BY <3>1, <3>2
  <2> QED BY <2>1, <2>4 DEF Polynomials
<1>4. KeyBody(samples, p, s, T, l) = [ij \in Positions(p) |-> KeyBody(samples, p, s, T, l)[ij]]
  BY DEF KeyBody
<1> HIDE DEF KeyBody
<1> QED BY <1>3, <1>4

\* The gadget key, lane by lane
LEMMA GadgetLanes ==
  ASSUME NEW p, MainModuli(p.main), CoversLanes(p), NEW samples, IsTape(p, samples),
         NEW s \in Polynomials, NEW l \in LanesOf(p), NEW ij \in Positions(p),
         NEW target, IsElement(target, p.main),
         target = RingMul(p.main, Signed(p.main, s), Signed(p.main, s))
  PROVE  LET gadget == KeySet(p, Signed(p.main, s), samples).gadget
             body == KeyBody(samples, p, s, target[l], l)
         IN  /\ Agree(gadget[ij[1]][ij[2]][2][l], MaskAt(samples, p)[ij], p.main[l])
             /\ Agree(gadget[ij[1]][ij[2]][1][l], body[ij], p.main[l])
<1> DEFINE i == ij[1]
           j == ij[2]
           m == p.main[l]
           T == target[l]
           draw == samples[DrawOf(p, i, j)]
           message == GadgetMessage(p, target, i, j)
           w == Weight_(l, ij)
           x == [k \in Powers |-> w * T[k]]
           gadget == KeySet(p, Signed(p.main, s), samples).gadget
           body == KeyBody(samples, p, s, T, l)
           M == draw.mask
           E == draw.error
           g == Negacyclic(M, s)
<1>1. i \in LanesOf(p) /\ j \in 0 .. p.digits[i] - 1 /\ j \in Nat
  BY PositionsAre, WeightIs DEF CoversLanes
<1>2. p.main \in Seq(Nat \ {0}) /\ LanesOf(p) = DOMAIN p.main /\ DOMAIN p.main = 1 .. Len(p.main)
  BY DEF MainModuli, LanesOf
<1>3. gadget[i][j] = Masked(p, Signed(p.main, s), draw, message)
  BY <1>1 DEF KeySet, GadgetKey
<1>4. M \in Polynomials /\ E \in Polynomials
  BY <1>1 DEF IsTape
<1>5. message \in [1 .. Len(p.main) -> Polynomials]
  BY <1>1, GadgetMessageIs
<1>6. m \in Nat /\ m > 0 /\ T \in Polynomials /\ w \in Nat
  <2>1. m \in Nat /\ m > 0
    BY <1>2
  <2>2. T \in Polynomials
    BY <1>2 DEF IsElement
  <2>3. w \in Nat
    BY WeightIs
  <2> HIDE DEF m, T, w
  <2> QED BY <2>1, <2>2, <2>3
<1>7. x \in Polynomials /\ \A k \in Powers : x[k] = w * T[k]
  <2> HIDE DEF w, T
  <2>1. \A k \in Powers : w * T[k] \in Int
    BY <1>6 DEF Polynomials
  <2> QED BY <2>1 DEF Polynomials
<1>8. Agree(message[l], x, m)
  <2> SUFFICES ASSUME NEW k \in Powers PROVE Same(message[l][k], x[k], m)
    BY DEF Agree
  <2> DEFINE v == T[k]
             b == TwoTo[BaseBits * j]
  <2>1. v \in Int /\ b \in Int
    <3>1. v \in Int
      BY <1>6 DEF Polynomials
    <3>2. b \in Nat
      BY <1>1, BaseIs
    <3> HIDE DEF v, b
    <3> QED BY <3>1, <3>2
  <2>2. message[l][k] = IF l = i THEN (v * (b % m)) % m ELSE 0
    BY DEF GadgetMessage
  <2>3. w = IF i = l THEN b ELSE 0
    BY DEF Weight_
  <2>4. x[k] = w * v
    OBVIOUS
  <2> HIDE DEF m, v, b, w, x, message, i, T
  <2>5. CASE l = i
    <3> DEFINE c == b % m
    <3>1. c \in Int /\ Same(c, b, m) /\ m \in Int
      <4>1. b % m \in 0 .. m - 1 /\ Same(b % m, b, m)
        BY <1>6, <2>1, ResidueIsSame
      <4>2. b % m \in Int
        BY <4>1
      <4> QED BY <1>6, <4>1, <4>2
    <3> HIDE DEF c
    <3>2. Same(v * c, v * b, m)
      <4>1. Same(v, v, m)
        BY <2>1, <3>1, SameReflexive
      <4> QED BY Zenon, <2>1, <3>1, <4>1, SameProduct
    <3> DEFINE y == v * c
               z == v * b
    <3>3. y \in Int /\ z \in Int
      BY <2>1, <3>1
    <3>4. Same(y, z, m)
      BY <3>2
    <3>5. w * v = z
      BY <2>1, <2>3, <2>5
    <3>6. message[l][k] = y % m
      BY <2>2, <2>5 DEF c
    <3> HIDE DEF y, z
    <3>7. y % m \in 0 .. m - 1 /\ Same(y % m, y, m)
      BY <1>6, <3>3, ResidueIsSame
    <3>8. y % m \in Int
      BY <3>7
    <3>9. Same(y % m, z, m)
      BY <3>1, <3>3, <3>4, <3>7, <3>8, SameTransitive
    <3> QED BY <2>4, <3>5, <3>6, <3>9
  <2>6. CASE l # i
    <3>1. message[l][k] = 0 /\ x[k] = 0 * v
      BY <2>2, <2>3, <2>4, <2>6
    <3>2. x[k] = 0
      BY <2>1, <3>1
    <3>3. Same(0, 0, m)
      BY <1>6, SameReflexive
    <3> QED BY <3>1, <3>2, <3>3
  <2> QED BY <2>5, <2>6
<1>9. body[ij] = Plus(Minus(Plus(g, E)), x)
  <2>1. body[ij] = [k \in Powers |-> w * T[k] - (g[k] + E[k])]
    BY DEF KeyBody
  <2> HIDE DEF M, E, w, T, body
  <2>2. g \in Polynomials
    BY <1>4, NegacyclicIs
  <2> HIDE DEF g, x
  <2> DEFINE u == Plus(g, E)
             n == Minus(u)
             z == Plus(n, x)
  <2>3. u \in Polynomials /\ \A k \in Powers : u[k] = g[k] + E[k]
    BY <1>4, <2>2, PlusIs
  <2> HIDE DEF u
  <2>4. n \in Polynomials /\ \A k \in Powers : n[k] = - u[k]
    BY <2>3, MinusIs
  <2> HIDE DEF n
  <2>5. z \in Polynomials /\ \A k \in Powers : z[k] = n[k] + x[k]
    BY <1>7, <2>4, PlusIs
  <2> HIDE DEF z
  <2>6. ASSUME NEW k \in Powers PROVE z[k] = w * T[k] - (g[k] + E[k])
    <3>1. g[k] \in Int /\ E[k] \in Int /\ x[k] \in Int
      BY <1>4, <1>7, <2>2 DEF Polynomials
    <3>2. z[k] = -(g[k] + E[k]) + x[k]
      BY <2>3, <2>4, <2>5
    <3>3. x[k] = w * T[k]
      BY <1>7
    <3>4. z[k] = x[k] - (g[k] + E[k])
      BY <3>1, <3>2
    <3> QED BY <3>3, <3>4
  <2>7. z = [k \in Powers |-> z[k]]
    BY <2>5 DEF Polynomials
  <2>8. z = body[ij]
    BY <2>1, <2>6, <2>7
  <2> QED BY <2>8 DEF z, n, u
<1>10. MaskAt(samples, p)[ij] = M
  BY DEF MaskAt
<1> DEFINE c == Masked(p, Signed(p.main, s), draw, message)
<1>11. /\ Agree(c[2][l], M, p.main[l])
       /\ Agree(c[1][l], Plus(Minus(Plus(Negacyclic(M, s), E)), x), p.main[l])
  <2> HIDE DEF message, x, draw
  <2> QED BY <1>2, <1>4, <1>5, <1>7, <1>8, MaskedLanes
<1> QED BY <1>3, <1>9, <1>10, <1>11

\* The digits of a ring element times the errors in the gadget key
FoldNoise(p, element, samples) ==
  Summed(Positions(p), DigitsTimes(p, element, ErrorAt(samples, p)))

\* Folding, read with the secret, whatever the number of threads
LEMMA RelinearizedReads ==
  ASSUME NEW p, MainModuli(p.main), CoversLanes(p), NEW samples, IsTape(p, samples),
         NEW s \in Polynomials, NEW e,
         IsElement(e[1], p.main), IsElement(e[2], p.main), IsElement(e[3], p.main),
         NEW threads \in 1 .. 4
  PROVE  LET sl == Signed(p.main, s)
             c == Relinearized(p, e, KeySet(p, sl, samples).gadget, threads)
             noise == FoldNoise(p, e[3], samples)
             read == RingAdd(p.main, Phase(p, <<e[1], e[2]>>, s),
                                     RingMul(p.main, e[3], RingMul(p.main, sl, sl)))
         IN  /\ noise \in Polynomials
             /\ IsElement(read, p.main) /\ IsElement(Phase(p, c, s), p.main)
             /\ Phase(p, c, s) = RingAdd(p.main, read, RingNeg(p.main, InRing(p.main, noise)))
<1> DEFINE main == p.main
           D == Positions(p)
           P == [1 .. Len(main) -> Polynomials]
           sl == Signed(main, s)
           target == RingMul(main, sl, sl)
           gadget == KeySet(p, sl, samples).gadget
           c == Relinearized(p, e, gadget, threads)
           x == e[1]
           y == e[2]
           z == e[3]
           noise == FoldNoise(p, z, samples)
           fold(component) == [l \in LanesOf(p) |-> LaneFold(p, z, gadget, component, LaneOfThread(p, threads, l))]
           f1 == fold(1)
           f2 == fold(2)
           c1 == RingAdd(main, x, f1)
           c2 == RingAdd(main, y, f2)
           c2s == RingMul(main, c2, sl)
           ys == RingMul(main, y, sl)
           xys == RingAdd(main, x, ys)
           zt == RingMul(main, z, target)
           read == RingAdd(main, xys, zt)
           inn == InRing(main, noise)
           neg == RingNeg(main, inn)
<1>1. main \in Seq(Nat \ {0}) /\ LanesOf(p) = DOMAIN main /\ DOMAIN main = 1 .. Len(main)
  BY DEF MainModuli, LanesOf
<1>2. IsElement(x, main) /\ IsElement(y, main) /\ IsElement(z, main) /\ x \in P /\ y \in P /\ z \in P
  BY ElementsAre
<1>3. IsElement(sl, main) /\ sl \in P
  BY <1>1, SignedIs, ElementsAre
<1>4. IsElement(target, main) /\ target \in P
  <2> HIDE DEF main, sl, P
  <2> QED BY <1>1, <1>3, RingMulIs, ElementsAre DEF P
<1>5. IsGadget(p, gadget)
  <2>1. \A i \in LanesOf(p) : p.digits[i] \in Nat
    BY DEF CoversLanes
  <2> QED BY <2>1, KeySetIs
<1>6. ErrorAt(samples, p) \in [D -> Polynomials] /\ MaskAt(samples, p) \in [D -> Polynomials]
  BY SamplesAre
<1>7. noise \in Polynomials
  <2> DEFINE n == DigitsTimes(p, z, ErrorAt(samples, p))
  <2>1. n \in [D -> Polynomials]
    <3>1. ASSUME NEW ij \in D PROVE Negacyclic(DigitsAt(z, ij), ErrorAt(samples, p)[ij]) \in Polynomials
      <4>1. DigitsAt(z, ij) \in Polynomials
        BY <1>2, DigitsAtIs
      <4>2. ErrorAt(samples, p)[ij] \in Polynomials
        BY <1>6
      <4> QED BY <4>1, <4>2, NegacyclicIs
    <3> QED BY <3>1 DEF DigitsTimes
  <2>2. noise = Summed(D, n)
    BY DEF FoldNoise
  <2>3. IsFiniteSet(D)
    BY PositionsAre DEF CoversLanes
  <2> HIDE DEF n, D, noise
  <2> QED BY <2>1, <2>2, <2>3, SummedIs
<1>8. f1 \in P /\ f2 \in P /\ \A l \in LanesOf(p) : /\ f1[l] = LaneFold(p, z, gadget, 1, l)
                                                    /\ f2[l] = LaneFold(p, z, gadget, 2, l)
  <2>1. ASSUME NEW component \in {1, 2}, NEW l \in LanesOf(p)
        PROVE  /\ fold(component)[l] = LaneFold(p, z, gadget, component, l)
               /\ LaneFold(p, z, gadget, component, l) \in Polynomials
    <3>1. LaneOfThread(p, threads, l) = l
      BY EveryLaneIsFolded
    <3>2. fold(component)[l] = LaneFold(p, z, gadget, component, LaneOfThread(p, threads, l))
      OBVIOUS
    <3> HIDE DEF gadget, z
    <3>3. \A i \in LanesOf(p) : p.digits[i] \in Nat
      BY DEF CoversLanes
    <3>4. LaneFold(p, z, gadget, component, l) \in Polynomials
      BY <1>2, <1>5, <3>3, LaneFoldIs
    <3> HIDE DEF fold
    <3> QED BY <3>1, <3>2, <3>4
  <2>2. f1 = [l \in LanesOf(p) |-> f1[l]] /\ f2 = [l \in LanesOf(p) |-> f2[l]]
    OBVIOUS
  <2>3. 1 \in {1, 2} /\ 2 \in {1, 2}
    OBVIOUS
  <2>4. ASSUME NEW l \in LanesOf(p)
        PROVE  /\ f1[l] = LaneFold(p, z, gadget, 1, l) /\ f1[l] \in Polynomials
               /\ f2[l] = LaneFold(p, z, gadget, 2, l) /\ f2[l] \in Polynomials
    <3> HIDE DEF fold, gadget, z
    <3> QED BY <2>1, <2>3
  <2> HIDE DEF f1, f2, gadget, z
  <2> QED BY <1>1, <2>2, <2>4
<1>9. c = <<c1, c2>> /\ Phase(p, c, s) = RingAdd(main, c1, c2s) /\ Phase(p, <<x, y>>, s) = xys
  BY DEF Relinearized, Phase
<1>10. inn \in P /\ \A l \in DOMAIN main : Agree(inn[l], noise, main[l])
  <2> HIDE DEF main, noise
  <2> QED BY <1>1, <1>7, SignedIsInRing DEF P
<1> HIDE DEF f1, f2, fold, target, inn, noise
<1>11. c1 \in P /\ c2 \in P /\ ys \in P /\ zt \in P /\ neg \in P
  <2>1. c1 \in P
    BY <1>1, <1>2, <1>8, RingAddIs, ElementsAre
  <2>2. c2 \in P
    BY <1>1, <1>2, <1>8, RingAddIs, ElementsAre
  <2>3. ys \in P
    BY <1>1, <1>2, <1>3, RingMulIs, ElementsAre
  <2>4. zt \in P
    BY <1>1, <1>2, <1>4, RingMulIs, ElementsAre
  <2>5. neg \in P
    BY <1>1, <1>10, RingNegIs, ElementsAre
  <2> HIDE DEF c1, c2, ys, zt, neg, P
  <2> QED BY <2>1, <2>2, <2>3, <2>4, <2>5
<1> HIDE DEF c1, c2, ys, zt, neg
<1>12. c2s \in P /\ xys \in P
  <2>1. c2s \in P
    BY <1>1, <1>3, <1>11, RingMulIs, ElementsAre
  <2>2. xys \in P
    BY <1>1, <1>2, <1>11, RingAddIs, ElementsAre
  <2> HIDE DEF c2s, xys, P
  <2> QED BY <2>1, <2>2
<1> HIDE DEF c2s, xys
<1>13. read \in P /\ IsElement(read, main)
  BY <1>1, <1>11, <1>12, RingAddIs, ElementsAre
<1> DEFINE left == RingAdd(main, c1, c2s)
<1>14. IsElement(left, main)
  BY <1>1, <1>11, <1>12, RingAddIs
<1> HIDE DEF read
<1> DEFINE right == RingAdd(main, read, neg)
<1>15. IsElement(right, main)
  BY <1>1, <1>11, <1>13, RingAddIs
<1>16. ASSUME NEW l \in DOMAIN main PROVE Agree(left[l], right[l], main[l])
  <2> DEFINE m == main[l]
             T == target[l]
             key == KeyBody(samples, p, s, T, l)
             F1 == Summed(D, DigitsTimes(p, z, key))
             F2 == Summed(D, DigitsTimes(p, z, MaskAt(samples, p)))
             Fs == Negacyclic(F2, s)
             xl == x[l]
             yl == y[l]
             zl == z[l]
             u == Plus(yl, F2)
             us == Negacyclic(u, s)
             v == Plus(xl, F1)
             w == Plus(v, us)
             yls == Negacyclic(yl, s)
             a == Plus(xl, yls)
             zT == Negacyclic(zl, T)
             b == Plus(a, zT)
             d == Minus(noise)
             r == Plus(b, d)
  <2>1. m \in Nat /\ m > 0 /\ m \in Int /\ l \in LanesOf(p)
    BY <1>1
  <2>2. T \in Polynomials /\ xl \in Polynomials /\ yl \in Polynomials /\ zl \in Polynomials
    BY <1>1, <1>2, <1>4
  <2>3. key \in [D -> Polynomials]
    <3> HIDE DEF T
    <3> QED BY <2>1, <2>2, KeyBodyIs
  <2>4. ASSUME NEW ij \in D
        PROVE  /\ Agree(gadget[ij[1]][ij[2]][2][l], MaskAt(samples, p)[ij], m)
               /\ Agree(gadget[ij[1]][ij[2]][1][l], key[ij], m)
    BY <1>4, <2>1, GadgetLanes DEF target
  <2> HIDE DEF gadget, T, z
  <2>5. F1 \in Polynomials /\ Agree(f1[l], F1, m)
    <3> HIDE DEF key
    <3>1. \A ij \in Positions(p) : Agree(gadget[ij[1]][ij[2]][1][l], key[ij], p.main[l])
      BY <2>4
    <3>2. 1 \in {1, 2}
      OBVIOUS
    <3>3. /\ Summed(Positions(p), DigitsTimes(p, z, key)) \in Polynomials
          /\ Agree(LaneFold(p, z, gadget, 1, l),
                   Summed(Positions(p), DigitsTimes(p, z, key)), p.main[l])
      BY <1>1, <1>2, <1>5, <2>1, <2>3, <3>1, <3>2, LaneFoldAgrees
    <3> QED BY <1>8, <2>1, <3>3
  <2>6. F2 \in Polynomials /\ Agree(f2[l], F2, m)
    <3> DEFINE mask == MaskAt(samples, p)
    <3>1. \A ij \in Positions(p) : Agree(gadget[ij[1]][ij[2]][2][l], mask[ij], p.main[l])
      BY <2>4
    <3>2. 2 \in {1, 2}
      OBVIOUS
    <3> HIDE DEF mask
    <3>3. /\ Summed(Positions(p), DigitsTimes(p, z, mask)) \in Polynomials
          /\ Agree(LaneFold(p, z, gadget, 2, l),
                   Summed(Positions(p), DigitsTimes(p, z, mask)), p.main[l])
      BY <1>1, <1>2, <1>5, <1>6, <2>1, <3>1, <3>2, LaneFoldAgrees DEF mask
    <3> QED BY <1>8, <2>1, <3>3 DEF mask
  <2>7. \A k \in Powers : F1[k] + Fs[k] = zT[k] - noise[k]
    <3>1. ASSUME NEW ij \in D, NEW k \in Powers
          PROVE  key[ij][k] = Weight_(l, ij) * T[k]
                                - (Negacyclic(MaskAt(samples, p)[ij], s)[k] + ErrorAt(samples, p)[ij][k])
      BY DEF KeyBody, MaskAt, ErrorAt
    <3> DEFINE mask == MaskAt(samples, p)
               error == ErrorAt(samples, p)
    <3>2. noise = Summed(D, DigitsTimes(p, z, error))
      BY DEF noise, FoldNoise
    <3>3. IsKeyFor(key, p, l, s, T, mask, error)
      BY <3>1 DEF IsKeyFor
    <3>5. mask \in [Positions(p) -> Polynomials] /\ error \in [Positions(p) -> Polynomials]
          /\ key \in [Positions(p) -> Polynomials] /\ IsElement(z, p.main)
      BY <1>2, <1>6, <2>3
    <3> HIDE DEF key, mask, error
    <3>4. FoldsTo(p, l, z, s, T, mask, error, key)
      <4>1. MainModuli(p.main) /\ CoversLanes(p) /\ l \in LanesOf(p) /\ s \in Polynomials /\ T \in Polynomials
        BY <2>1, <2>2
      <4> HIDE DEF D, F1, F2, Fs, zT, m, noise
      <4> QED BY <3>3, <3>5, <4>1, DigitsFold
    <3> QED BY <3>2, <3>4 DEF mask, FoldsTo
  <2> HIDE DEF F1, F2, key, xl, yl, zl, m
  <2>8. /\ u \in Polynomials /\ v \in Polynomials
        /\ \A k \in Powers : u[k] = yl[k] + F2[k] /\ v[k] = xl[k] + F1[k]
    BY <2>2, <2>5, <2>6, PlusIs
  <2> HIDE DEF u, v
  <2>9. us \in Polynomials /\ yls \in Polynomials /\ Fs \in Polynomials /\ zT \in Polynomials
    BY <2>2, <2>6, <2>8, NegacyclicIs
  <2>10. \A k \in Powers : us[k] = yls[k] + Fs[k]
    <3>1. \A k \in Powers : yl[k] \in Int /\ F2[k] \in Int /\ yls[k] \in Int /\ Fs[k] \in Int
      <4> HIDE DEF yls, Fs
      <4> QED BY <2>2, <2>6, <2>9 DEF Polynomials
    <3>2. Combines(u, 1, yl, 1, F2)
      BY <2>8, <3>1 DEF Combines
    <3>3. Combines(us, 1, yls, 1, Fs)
      BY <2>2, <2>6, <2>8, <3>2, ProductIsLinear
    <3> HIDE DEF us, yls, Fs
    <3> QED BY <3>1, <3>3 DEF Combines
  <2> HIDE DEF us, yls, Fs, zT
  <2>11. w \in Polynomials /\ a \in Polynomials /\ d \in Polynomials
         /\ \A k \in Powers : w[k] = v[k] + us[k] /\ a[k] = xl[k] + yls[k] /\ d[k] = -noise[k]
    <3>1. w \in Polynomials /\ \A k \in Powers : w[k] = v[k] + us[k]
      BY <2>8, <2>9, PlusIs
    <3>2. a \in Polynomials /\ \A k \in Powers : a[k] = xl[k] + yls[k]
      BY <2>2, <2>9, PlusIs
    <3>3. d \in Polynomials /\ \A k \in Powers : d[k] = -noise[k]
      BY <1>7, MinusIs
    <3> HIDE DEF w, a, d
    <3> QED BY <3>1, <3>2, <3>3
  <2> HIDE DEF w, a, d
  <2>12. b \in Polynomials /\ \A k \in Powers : b[k] = a[k] + zT[k]
    BY <2>9, <2>11, PlusIs
  <2> HIDE DEF b
  <2>13. r \in Polynomials /\ \A k \in Powers : r[k] = b[k] + d[k]
    BY <2>11, <2>12, PlusIs
  <2> HIDE DEF r
  <2>14. w = r
    <3>1. ASSUME NEW k \in Powers PROVE w[k] = r[k]
      <4>1. /\ xl[k] \in Int /\ yls[k] \in Int /\ zT[k] \in Int /\ noise[k] \in Int
            /\ F1[k] \in Int /\ Fs[k] \in Int
        BY <1>7, <2>2, <2>5, <2>9 DEF Polynomials
      <4>2. F1[k] + Fs[k] = zT[k] - noise[k] /\ us[k] = yls[k] + Fs[k] /\ v[k] = xl[k] + F1[k]
            /\ w[k] = v[k] + us[k] /\ a[k] = xl[k] + yls[k] /\ d[k] = -noise[k]
            /\ b[k] = a[k] + zT[k] /\ r[k] = b[k] + d[k]
        BY <2>7, <2>8, <2>10, <2>11, <2>12, <2>13
      <4> QED BY <4>1, <4>2
    <3> QED BY <2>11, <2>13, <3>1, SamePolynomial
  \* The lanes of each side
  <2>15. Agree(x[l], xl, m) /\ Agree(y[l], yl, m) /\ Agree(z[l], zl, m) /\ Agree(target[l], T, m)
    <3>1. x[l] = xl /\ y[l] = yl /\ z[l] = zl /\ target[l] = T
      BY DEF xl, yl, zl, T
    <3> QED BY <2>1, <2>2, <3>1, AgreeIsEquivalence
  <2>16. Agree(sl[l], s, m)
    BY <1>1, SignedIsInRing DEF m
  <2> HIDE DEF x, y, sl, main, P
  <2>17. Agree(c1[l], v, m)
    BY <1>1, <1>2, <1>8, <2>2, <2>5, <2>15, RingLanes DEF c1, v, m, P
  <2>18. Agree(c2[l], u, m)
    BY <1>1, <1>2, <1>8, <2>2, <2>6, <2>15, RingLanes DEF c2, u, m, P
  <2>19. Agree(c2s[l], us, m)
    BY <1>1, <1>3, <1>11, <2>8, <2>16, <2>18, RingLanes DEF c2s, us, m, P
  <2>20. Agree(left[l], w, m)
    BY <1>1, <1>11, <1>12, <2>8, <2>9, <2>17, <2>19, RingLanes DEF w, m, P
  <2>21. Agree(ys[l], yls, m)
    BY <1>1, <1>2, <1>3, <2>2, <2>15, <2>16, RingLanes DEF ys, yls, m, P
  <2>22. Agree(xys[l], a, m)
    BY <1>1, <1>2, <1>11, <2>2, <2>9, <2>15, <2>21, RingLanes DEF xys, a, m, P
  <2>23. Agree(zt[l], zT, m)
    BY <1>1, <1>2, <1>4, <2>2, <2>15, RingLanes DEF zt, zT, m, P
  <2>24. Agree(read[l], b, m)
    BY <1>1, <1>11, <1>12, <2>9, <2>11, <2>22, <2>23, RingLanes DEF read, b, m, P
  <2>25. Agree(neg[l], d, m)
    BY <1>1, <1>7, <1>10, RingLanes DEF neg, d, m, P
  <2>26. Agree(right[l], r, m)
    BY <1>1, <1>11, <1>13, <2>11, <2>12, <2>24, <2>25, RingLanes DEF r, m, P
  <2> DEFINE ll == left[l]
             rl == right[l]
  <2>27. ll \in Polynomials /\ rl \in Polynomials /\ Agree(ll, w, m) /\ Agree(rl, w, m)
    BY <1>1, <1>14, <1>15, <2>14, <2>20, <2>26 DEF IsElement
  <2> HIDE DEF ll, rl
  <2>28. Agree(w, rl, m)
    BY <2>1, <2>11, <2>27, AgreeIsEquivalence
  <2>29. Agree(ll, rl, m)
    BY <2>1, <2>11, <2>27, <2>28, AgreeIsEquivalence
  <2> QED BY <2>29 DEF ll, rl, m
<1>17. left = right
  <2> HIDE DEF left, right, main
  <2> QED BY <1>1, <1>14, <1>15, <1>16, ElementsAreEqual
<1> QED BY <1>7, <1>9, <1>13, <1>14, <1>17 DEF noise, inn, neg, read, zt, target

\* What the keys were made from, and what was folded
FoldInv ==
  /\ MultiplyInv
  /\ keys # <<>> => keys = KeySet(plan, Signed(plan.main, sk), tape)
  /\ folded # <<>> =>
       /\ tensor # <<>>
       /\ \E threads \in Threads : folded = Relinearized(plan, tensor, keys.gadget, threads)

\* The plan has enough digits for each of its lanes.
LEMMA PlanCoversLanes ==
  ASSUME PlanInv PROVE CoversLanes(plan)
<1>1. PICK system \in Systems :
        Plans(system[1], system[2]) /\ plan = NewPlan(system[1], system[2])
  BY DEF PlanInv
<1>2. MainModuli(plan.main) /\ plan.main = system[1]
  BY <1>1, PlanInvIs DEF NewPlan
<1> DEFINE mm == system[1]
           t == system[2]
<1>3. MainModuli(mm) /\ plan = NewPlan(mm, t)
  BY <1>1, <1>2
<1>4. mm \in Seq(Nat) /\ t \in Nat
  BY ExactMultiplicationAssumption
<1> HIDE DEF mm, t
<1>5. CoversLanes(NewPlan(mm, t))
  BY <1>3, <1>4, DigitsCover
<1> QED BY <1>3, <1>5

\* Keys once made stay what they were made of.
LEMMA KeysAreKept ==
  ASSUME keys' = keys, plan' = plan, sk' = sk, tape' = tape,
         keys # <<>> => keys = KeySet(plan, Signed(plan.main, sk), tape)
  PROVE  keys' # <<>> => keys' = KeySet(plan', Signed(plan'.main, sk'), tape')
OBVIOUS

\* The invariant is kept by every step.
LEMMA FoldInvIsInductive == FoldInv /\ [MultiplyNext]_multiplyVars => FoldInv'
<1> SUFFICES ASSUME FoldInv, [MultiplyNext]_multiplyVars PROVE FoldInv'
  OBVIOUS
<1>1. MultiplyInv /\ MultiplyInv'
  BY MultiplyStepKeeps DEF FoldInv
<1>2. plan' = plan /\ sk' = sk /\ tape' = tape
  BY DEF MultiplyNext, multiplyVars, GenerateKeys, EncryptOperand, ImportOperand, MultiplyExact,
         Relinearize, DecryptExact
<1>3. keys' # <<>> => keys' = KeySet(plan', Signed(plan'.main, sk'), tape')
  <2>1. CASE GenerateKeys
    BY <2>1, <1>2 DEF GenerateKeys
  <2>2. CASE keys' = keys
    BY <1>2, <2>2, KeysAreKept DEF FoldInv
  <2> QED BY <2>1, <2>2 DEF MultiplyNext, multiplyVars, EncryptOperand, ImportOperand,
             MultiplyExact, Relinearize, DecryptExact
<1>4. folded' # <<>> =>
        /\ tensor' # <<>>
        /\ \E threads \in Threads : folded' = Relinearized(plan', tensor', keys'.gadget, threads)
  <2>1. ASSUME NEW threads \in Threads, Relinearize(threads)
        PROVE  tensor' # <<>> /\ folded' = Relinearized(plan', tensor', keys'.gadget, threads)
    BY <2>1, <1>2 DEF Relinearize
  <2>2. CASE folded' = folded /\ folded = <<>>
    BY <2>2
  <2>3. CASE folded' = folded /\ tensor' = tensor /\ keys' = keys
    BY <1>2, <2>3 DEF FoldInv
  <2>4. tensor # <<>> => keys # <<>>
    <3>1. tensor # <<>> => Len(operands) = 2
      BY <1>1 DEF MultiplyInv, TensorInv
    <3>2. Len(<<>>) = 0
      OBVIOUS
    <3>3. operands = <<>> => Len(operands) = 0
      BY <3>2, Zenon
    <3>4. tensor # <<>> => operands # <<>>
      BY <3>1, <3>3
    <3> QED BY <1>1, <3>4 DEF MultiplyInv, OperandsInv
  <2>5. CASE GenerateKeys
    <3>1. folded = <<>>
      BY <2>4, <2>5 DEF GenerateKeys, FoldInv
    <3> QED BY <2>2, <2>5, <3>1 DEF GenerateKeys
  <2>6. CASE MultiplyExact
    <3>1. folded = <<>>
      BY <2>6 DEF MultiplyExact, FoldInv
    <3> QED BY <2>2, <2>6, <3>1 DEF MultiplyExact
  <2>7. CASE \E threads \in Threads : Relinearize(threads)
    <3>1. PICK threads \in Threads : Relinearize(threads)
      BY <2>7
    <3>2. tensor' # <<>> /\ folded' = Relinearized(plan', tensor', keys'.gadget, threads)
      BY <2>1, <3>1
    <3> QED BY <3>2
  <2> QED BY <2>3, <2>5, <2>6, <2>7 DEF MultiplyNext, multiplyVars, EncryptOperand, ImportOperand,
             DecryptExact
<1> QED BY <1>1, <1>3, <1>4 DEF FoldInv

\* What was folded, read with the secret
LEMMA FoldedReads ==
  ASSUME FoldInv, folded # <<>>
  PROVE  LET sl == Signed(plan.main, sk)
             noise == FoldNoise(plan, tensor[3], tape)
             read == RingAdd(plan.main, Phase(plan, <<tensor[1], tensor[2]>>, sk),
                                        RingMul(plan.main, tensor[3], RingMul(plan.main, sl, sl)))
         IN  /\ noise \in Polynomials
             /\ IsElement(read, plan.main) /\ IsElement(Phase(plan, folded, sk), plan.main)
             /\ Phase(plan, folded, sk) =
                  RingAdd(plan.main, read, RingNeg(plan.main, InRing(plan.main, noise)))
<1> DEFINE sl == Signed(plan.main, sk)
           gadget == KeySet(plan, sl, tape).gadget
           noise == FoldNoise(plan, tensor[3], tape)
           read == RingAdd(plan.main, Phase(plan, <<tensor[1], tensor[2]>>, sk),
                                      RingMul(plan.main, tensor[3], RingMul(plan.main, sl, sl)))
<1>1. MultiplyInv /\ tensor # <<>>
  BY DEF FoldInv
<1>2. MainModuli(plan.main) /\ CoversLanes(plan) /\ IsTape(plan, tape) /\ sk \in Polynomials
  BY <1>1, PlanInvIs, PlanCoversLanes, SecretsArePolynomials DEF MultiplyInv
<1>3. Len(operands) = 2 /\ \A e \in 1 .. 3 : IsElement(tensor[e], plan.main)
  BY <1>1 DEF MultiplyInv, TensorInv
<1>4. /\ IsElement(tensor[1], plan.main) /\ IsElement(tensor[2], plan.main)
      /\ IsElement(tensor[3], plan.main)
  BY <1>3
<1>5. keys = KeySet(plan, Signed(plan.main, sk), tape)
  <2>1. operands # <<>>
    <3>1. Len(<<>>) = 0
      OBVIOUS
    <3>2. operands = <<>> => Len(operands) = 0
      BY <3>1, Zenon
    <3> QED BY <1>3, <3>2
  <2> QED BY <1>1, <2>1 DEF MultiplyInv, OperandsInv, FoldInv
<1>6. PICK threads \in Threads : folded = Relinearized(plan, tensor, keys.gadget, threads)
  BY DEF FoldInv
<1>7. threads \in 1 .. 4
  BY ExactMultiplicationAssumption
<1>8. folded = Relinearized(plan, tensor, gadget, threads)
  BY <1>5, <1>6
<1>9. /\ noise \in Polynomials
      /\ IsElement(read, plan.main)
      /\ IsElement(Phase(plan, Relinearized(plan, tensor, gadget, threads), sk), plan.main)
      /\ Phase(plan, Relinearized(plan, tensor, gadget, threads), sk)
           = RingAdd(plan.main, read, RingNeg(plan.main, InRing(plan.main, noise)))
  BY <1>2, <1>4, <1>7, RelinearizedReads
<1> HIDE DEF noise, read, gadget
<1>10. /\ noise \in Polynomials
       /\ IsElement(read, plan.main) /\ IsElement(Phase(plan, folded, sk), plan.main)
       /\ Phase(plan, folded, sk) = RingAdd(plan.main, read, RingNeg(plan.main, InRing(plan.main, noise)))
  BY <1>8, <1>9
<1> QED BY <1>10 DEF noise, read

\* It says that folding is exact.
LEMMA FoldingFollows == FoldInv => FoldingAddsOnlyNoise
<1> SUFFICES ASSUME FoldInv, folded # <<>> PROVE FoldingAddsOnlyNoise
  BY DEF FoldingAddsOnlyNoise
<1> DEFINE s == Signed(plan.main, sk)
           s2 == RingMul(plan.main, s, s)
           intended == RingAdd(plan.main, Phase(plan, <<tensor[1], tensor[2]>>, sk),
                                          RingMul(plan.main, tensor[3], s2))
           noise(i, j) == Negacyclic([k \in Powers |-> Digit(tensor[3][i][k], j)],
                                     tape[DrawOf(plan, i, j)].error)
           all == UNION {{<<i, j>> : j \in 0 .. plan.digits[i] - 1} : i \in LanesOf(plan)}
           total == [k \in Powers |->
                       LET term(ij) == noise(ij[1], ij[2])[k] IN SumOver(all, term)]
<1>1. Phase(plan, folded, sk) =
        RingAdd(plan.main, intended, RingNeg(plan.main, InRing(plan.main, FoldNoise(plan, tensor[3], tape))))
  BY FoldedReads
<1>2. total = FoldNoise(plan, tensor[3], tape)
  <2>1. all = Positions(plan)
    BY DEF Positions
  <2>2. ASSUME NEW k \in Powers
        PROVE  total[k] = Summed(Positions(plan), DigitsTimes(plan, tensor[3], ErrorAt(tape, plan)))[k]
    <3> DEFINE term(ij) == noise(ij[1], ij[2])[k]
               d == DigitsTimes(plan, tensor[3], ErrorAt(tape, plan))
    <3>1. \A ij \in all : term(ij) = d[ij][k]
      BY <2>1 DEF DigitsTimes, DigitsAt, ErrorAt
    <3>2. [ij \in all |-> term(ij)] = [ij \in Positions(plan) |-> d[ij][k]]
      BY <2>1, <3>1
    <3>3. total[k] = Total([ij \in all |-> term(ij)])
      BY DEF SumOver, Total
    <3> HIDE DEF d, term, all
    <3> QED BY <3>2, <3>3 DEF Summed, d
  <2> QED BY <2>2 DEF FoldNoise, Summed
<1>3. \A i \in LanesOf(plan) : TwoTo[BaseBits * plan.digits[i]] >= plan.main[i]
  BY PlanCoversLanes DEF CoversLanes, LanesOf, FoldInv, MultiplyInv
<1> HIDE DEF total, intended
<1>4. Phase(plan, folded, sk) =
        RingAdd(plan.main, intended, RingNeg(plan.main, InRing(plan.main, total)))
  BY <1>1, <1>2
<1> QED BY <1>3, <1>4 DEF FoldingAddsOnlyNoise, total, intended

\* Whatever the number of threads, no digit of the third component is lost, met
\* twice or put in the wrong lane: what the fold adds is the digits times the
\* errors of the key (hybrid_relinearize, hybrid_relinearize_prepared).
THEOREM FoldingStaysExact == MultiplySpec => []FoldingAddsOnlyNoise
<1>1. MultiplyInit => FoldInv
  BY MultiplyInitial DEF FoldInv, MultiplyInit
<1>2. FoldInv /\ [MultiplyNext]_multiplyVars => FoldInv'
  BY FoldInvIsInductive
<1>3. FoldInv => FoldingAddsOnlyNoise
  BY FoldingFollows
<1> QED BY <1>1, <1>2, <1>3, PTL DEF MultiplySpec

\* A polynomial with one coefficient
Constant_(c) == [k \in Powers |-> IF k = 0 THEN c ELSE 0]

\* Combinations of two polynomials
Mix(c, a, d, b) == [k \in Powers |-> c * a[k] + d * b[k]]

LEMMA MixIs ==
  ASSUME NEW a \in Polynomials, NEW b \in Polynomials, NEW c \in Int, NEW d \in Int
  PROVE  Mix(c, a, d, b) \in Polynomials /\ Combines(Mix(c, a, d, b), c, a, d, b)
<1>1. ASSUME NEW k \in Powers PROVE c * a[k] + d * b[k] \in Int
  <2> DEFINE x == a[k]
             y == b[k]
  <2>1. x \in Int /\ y \in Int
    BY DEF Polynomials
  <2> HIDE DEF x, y
  <2>2. c * x \in Int /\ d * y \in Int
    BY <2>1
  <2>3. c * x + d * y \in Int
    BY <2>2
  <2> QED BY <2>3 DEF x, y
<1> QED BY <1>1 DEF Mix, Combines, Polynomials

\* A product with a constant multiplies the coefficients.
LEMMA ConstantIs ==
  ASSUME NEW c \in Int, NEW a \in Polynomials
  PROVE  /\ Constant_(c) \in Polynomials
         /\ \A k \in Powers : Negacyclic(Constant_(c), a)[k] = c * a[k]
<1>1. Constant_(c) \in Polynomials
  BY DEF Constant_, Polynomials
<1>2. ASSUME NEW k \in Powers PROVE Negacyclic(Constant_(c), a)[k] = c * a[k]
  <2> DEFINE f == ProductTerms(Constant_(c), a, k)
  <2>1. f \in [Powers -> Int] /\ Negacyclic(Constant_(c), a)[k] = Total(f)
    BY <1>1, ProductTermsAre
  <2>2. 0 \in Powers /\ IsFiniteSet(Powers) /\ k - 0 = k
    BY DegreeIs, PowersAre DEF Powers
  <2>3. Turning(a, k) = a[k] /\ \A i \in Powers : Turning(a, k - i) \in Int
    BY TurningIs, DifferencesAre
  <2>4. f[0] = c * a[k]
    BY <2>2, <2>3 DEF ProductTerms, Constant_
  <2>5. \A i \in Powers : i # 0 => f[i] = 0
    <3>1. ASSUME NEW i \in Powers, i # 0 PROVE f[i] = 0
      <4>1. f[i] = 0 * Turning(a, k - i)
        BY <3>1 DEF ProductTerms, Constant_
      <4> QED BY <2>3, <4>1
    <3> QED BY <3>1
  <2> HIDE DEF f
  <2>6. Total(f) = f[0]
    BY <2>1, <2>2, <2>5, TotalOfOne
  <2> QED BY <2>1, <2>4, <2>6
<1> QED BY <1>1, <1>2

\* Nothing with the same residue is closer to zero.
LEMMA NearestIsLeast ==
  ASSUME NEW M \in Nat, M > 0, NEW x \in Int, NEW y \in Int, Same(x, y, M), NEW b \in Nat,
         -b <= y, y <= b
  PROVE  Nearest0(x, M) \in -b .. b
<1> DEFINE v == x % M
<1>1. v \in 0 .. M - 1 /\ Same(v, x, M) /\ v \in Int
  BY ResidueIsSame
<1> HIDE DEF v
<1>2. Same(v, y, M)
  BY <1>1, SameTransitive
<1>3. PICK k \in Int : v = y + M * k
  BY <1>2 DEF Same
<1>4. Nearest0(x, M) = IF 2 * v > M THEN v - M ELSE v
  BY DEF Nearest0, v
<1>5. CASE k <= 0
  <2>1. M * k <= 0
    BY <1>5
  <2>2. v <= y
    BY <1>1, <1>3, <2>1
  <2>3. CASE 2 * v > M
    BY <1>1, <1>4, <2>2, <2>3
  <2>4. CASE ~(2 * v > M)
    BY <1>1, <1>4, <2>2, <2>4
  <2> QED BY <2>3, <2>4
<1>6. CASE k >= 1
  <2>1. M * k >= M
    BY <1>6
  <2>2. v - M >= y
    BY <1>1, <1>3, <2>1
  <2>3. CASE 2 * v > M
    BY <1>1, <1>4, <2>2, <2>3
  <2>4. CASE ~(2 * v > M)
    BY <1>1, <1>4, <2>2, <2>4
  <2> QED BY <2>3, <2>4
<1> QED BY <1>3, <1>5, <1>6

\* What the rounding of a quotient leaves
LEMMA QuotientLeaves ==
  ASSUME NEW q \in Nat, NEW g \in Nat, q = 2 * g + 1, NEW w \in Int
  PROVE  Quotient(w, q) \in Int /\ -g <= q * Quotient(w, q) - w /\ q * Quotient(w, q) - w <= g
<1> DEFINE d == 2 * q
           x == 2 * w + q
           j == x \div d
           r == x % d
<1>1. x \in Int /\ d \in Nat /\ d > 0
  OBVIOUS
<1>2. x = d * j + r /\ r \in 0 .. d - 1 /\ j \in Int
  <2> HIDE DEF x, d
  <2> QED BY <1>1, Division
<1>3. Quotient(w, q) = j
  BY DEF Quotient
<1> HIDE DEF j, r
<1>4. d * j = 2 * (q * j) /\ q * j \in Int
  BY <1>2
<1> DEFINE e == q * j
<1>5. 2 * w + q = 2 * e + r /\ r \in 0 .. 2 * q - 1 /\ e \in Int
  BY <1>2, <1>4
<1> HIDE DEF e
<1>6. -g <= e - w /\ e - w <= g
  BY <1>5
<1> QED BY <1>2, <1>3, <1>6 DEF e

\* Products of sums
LEMMA ProductOfPlus ==
  ASSUME NEW a \in Polynomials, NEW b \in Polynomials, NEW z \in Polynomials, NEW k \in Powers
  PROVE  /\ Negacyclic(Plus(a, b), z)[k] = Negacyclic(a, z)[k] + Negacyclic(b, z)[k]
         /\ Negacyclic(z, Plus(a, b))[k] = Negacyclic(z, a)[k] + Negacyclic(z, b)[k]
<1> DEFINE h == Plus(a, b)
<1>1. h \in Polynomials /\ \A j \in Powers : h[j] = a[j] + b[j]
  BY PlusIs
<1> HIDE DEF h
<1>2. Combines(h, 1, a, 1, b)
  <2>1. \A j \in Powers : a[j] \in Int /\ b[j] \in Int
    BY DEF Polynomials
  <2> QED BY <1>1, <2>1 DEF Combines
<1>3. /\ Combines(Negacyclic(h, z), 1, Negacyclic(a, z), 1, Negacyclic(b, z))
      /\ Combines(Negacyclic(z, h), 1, Negacyclic(z, a), 1, Negacyclic(z, b))
  BY <1>1, <1>2, ProductIsLinear
<1>4. /\ Negacyclic(a, z)[k] \in Int /\ Negacyclic(b, z)[k] \in Int
      /\ Negacyclic(z, a)[k] \in Int /\ Negacyclic(z, b)[k] \in Int
  <2>1. /\ Negacyclic(a, z) \in Polynomials /\ Negacyclic(b, z) \in Polynomials
        /\ Negacyclic(z, a) \in Polynomials /\ Negacyclic(z, b) \in Polynomials
    BY NegacyclicIs
  <2> QED BY <2>1 DEF Polynomials
<1>5. /\ Negacyclic(h, z)[k] = 1 * Negacyclic(a, z)[k] + 1 * Negacyclic(b, z)[k]
      /\ Negacyclic(z, h)[k] = 1 * Negacyclic(z, a)[k] + 1 * Negacyclic(z, b)[k]
  BY <1>3 DEF Combines
<1> DEFINE az == Negacyclic(a, z)[k]
           bz == Negacyclic(b, z)[k]
           za == Negacyclic(z, a)[k]
           zb == Negacyclic(z, b)[k]
<1>6. az \in Int /\ bz \in Int /\ za \in Int /\ zb \in Int
      /\ Negacyclic(h, z)[k] = 1 * az + 1 * bz /\ Negacyclic(z, h)[k] = 1 * za + 1 * zb
  BY <1>4, <1>5
<1> HIDE DEF az, bz, za, zb
<1>7. Negacyclic(h, z)[k] = az + bz /\ Negacyclic(z, h)[k] = za + zb
  BY <1>6
<1> QED BY <1>7 DEF h, az, bz, za, zb

\* Three components, read with the secret
ReadOf(e1, e2, e3, s) ==
  [k \in Powers |-> e1[k] + Negacyclic(e2, s)[k] + Negacyclic(e3, Negacyclic(s, s))[k]]

\* Read with the secret, the tensor is the product of the operands.
LEMMA ProductOfReads ==
  ASSUME NEW a1 \in Polynomials, NEW a2 \in Polynomials, NEW b1 \in Polynomials,
         NEW b2 \in Polynomials, NEW s \in Polynomials
  PROVE  Negacyclic(Plus(a1, Negacyclic(a2, s)), Plus(b1, Negacyclic(b2, s)))
           = ReadOf(Negacyclic(a1, b1), Plus(Negacyclic(a1, b2), Negacyclic(a2, b1)),
                    Negacyclic(a2, b2), s)
<1> DEFINE A == Negacyclic(a2, s)
           B == Negacyclic(b2, s)
           q == Plus(b1, B)
           a1b2 == Negacyclic(a1, b2)
           a2b1 == Negacyclic(a2, b1)
           a2b2 == Negacyclic(a2, b2)
           ss == Negacyclic(s, s)
           sb1 == Negacyclic(s, b1)
           sB == Negacyclic(s, B)
           b2ss == Negacyclic(b2, ss)
<1>1. A \in Polynomials /\ B \in Polynomials /\ a1b2 \in Polynomials /\ a2b1 \in Polynomials
  BY NegacyclicIs
<1>2. a2b2 \in Polynomials /\ ss \in Polynomials /\ sb1 \in Polynomials
  BY NegacyclicIs
<1>3. q \in Polynomials
  <2> HIDE DEF B
  <2> QED BY <1>1, PlusIs
<1>4. Negacyclic(a1, B) = Negacyclic(a1b2, s)
  BY NegacyclicAssociates
<1>5. Negacyclic(A, b1) = Negacyclic(a2b1, s)
  <2>1. Negacyclic(A, b1) = Negacyclic(a2, sb1)
    BY NegacyclicAssociates
  <2>2. sb1 = Negacyclic(b1, s)
    BY NegacyclicCommutes
  <2>3. Negacyclic(a2b1, s) = Negacyclic(a2, Negacyclic(b1, s))
    BY NegacyclicAssociates
  <2> QED BY <2>1, <2>2, <2>3
<1>6. Negacyclic(A, B) = Negacyclic(a2b2, ss)
  <2>1. Negacyclic(A, B) = Negacyclic(a2, sB)
    <3> HIDE DEF B
    <3> QED BY <1>1, NegacyclicAssociates
  <2>2. sB = Negacyclic(B, s)
    <3> HIDE DEF B
    <3> QED BY <1>1, NegacyclicCommutes
  <2>3. Negacyclic(B, s) = b2ss
    BY NegacyclicAssociates
  <2>4. Negacyclic(a2b2, ss) = Negacyclic(a2, b2ss)
    <3> HIDE DEF ss
    <3> QED BY <1>2, NegacyclicAssociates
  <2> QED BY <2>1, <2>2, <2>3, <2>4
<1> HIDE DEF A, B, a1b2, a2b1, a2b2, ss
<1>7. ASSUME NEW k \in Powers
      PROVE  Negacyclic(Plus(a1, A), q)[k] = ReadOf(Negacyclic(a1, b1), Plus(a1b2, a2b1), a2b2, s)[k]
  <2>1. Negacyclic(Plus(a1, A), q)[k] = Negacyclic(a1, q)[k] + Negacyclic(A, q)[k]
    <3> HIDE DEF q
    <3> QED BY <1>1, <1>3, ProductOfPlus
  <2>2. Negacyclic(a1, q)[k] = Negacyclic(a1, b1)[k] + Negacyclic(a1, B)[k]
    BY <1>1, ProductOfPlus
  <2>3. Negacyclic(A, q)[k] = Negacyclic(A, b1)[k] + Negacyclic(A, B)[k]
    BY <1>1, ProductOfPlus
  <2>4. Negacyclic(Plus(a1b2, a2b1), s)[k] = Negacyclic(a1b2, s)[k] + Negacyclic(a2b1, s)[k]
    BY <1>1, ProductOfPlus
  <2> DEFINE u == Negacyclic(a1, b1)[k]
             v == Negacyclic(a1b2, s)[k]
             w == Negacyclic(a2b1, s)[k]
             x == Negacyclic(a2b2, ss)[k]
  <2>5. u \in Int /\ v \in Int /\ w \in Int /\ x \in Int
    <3>1. /\ Negacyclic(a1, b1) \in Polynomials /\ Negacyclic(a1b2, s) \in Polynomials
          /\ Negacyclic(a2b1, s) \in Polynomials /\ Negacyclic(a2b2, ss) \in Polynomials
      BY <1>1, <1>2, NegacyclicIs
    <3> QED BY <3>1 DEF Polynomials
  <2>6. /\ Negacyclic(Plus(a1, A), q)[k] = (u + v) + (w + x)
         /\ Negacyclic(Plus(a1b2, a2b1), s)[k] = v + w
    BY <1>4, <1>5, <1>6, <2>1, <2>2, <2>3, <2>4
  <2> HIDE DEF q, u, v, w, x
  <2>7. Negacyclic(Plus(a1, A), q)[k] = u + Negacyclic(Plus(a1b2, a2b1), s)[k] + x
    BY <2>5, <2>6
  <2> QED BY <2>7 DEF ReadOf, u, x, ss, q
<1>8. Negacyclic(Plus(a1, A), q) \in Polynomials
  <2>1. Plus(a1, A) \in Polynomials
    BY <1>1, PlusIs
  <2> HIDE DEF q
  <2> QED BY <1>3, <2>1, NegacyclicIs
<1>9. Negacyclic(Plus(a1, A), q) = ReadOf(Negacyclic(a1, b1), Plus(a1b2, a2b1), a2b2, s)
  <2> HIDE DEF q
  <2> QED BY <1>7, <1>8 DEF ReadOf, Polynomials
<1> QED BY <1>9 DEF q, A, B, a1b2, a2b1, a2b2

\* A multiple of one polynomial, within g of a multiple of another
IsNear(q, a, t, b, g) ==
  \A k \in Powers : -g <= q * a[k] - t * b[k] /\ q * a[k] - t * b[k] <= g

\* Products of such polynomials are close too.
LEMMA ProductStaysNear ==
  ASSUME NEW a \in Polynomials, NEW b \in Polynomials, NEW z \in Polynomials, NEW q \in Int,
         NEW t \in Int, NEW g \in Nat, NEW c \in Nat, Bounded(z, c),
         IsNear(q, a, t, b, g)
  PROVE  IsNear(q, Negacyclic(a, z), t, Negacyclic(b, z), (g * c) * N)
<1> DEFINE e == Mix(q, a, -t, b)
           az == Negacyclic(a, z)
           bz == Negacyclic(b, z)
           ez == Negacyclic(e, z)
<1>1. -t \in Int
  OBVIOUS
<1>2. e \in Polynomials /\ Combines(e, q, a, -t, b)
  BY <1>1, MixIs
<1> HIDE DEF e
<1>3. \A k \in Powers : e[k] = q * a[k] - t * b[k]
  <2>1. ASSUME NEW k \in Powers PROVE e[k] = q * a[k] - t * b[k]
    <3> DEFINE x == a[k]
               y == b[k]
    <3>1. x \in Int /\ y \in Int /\ e[k] = q * x + (-t) * y
      BY <1>2 DEF Combines, Polynomials
    <3> HIDE DEF x, y
    <3>2. q * x \in Int /\ (-t) * y = -(t * y) /\ t * y \in Int
      BY <3>1
    <3>3. e[k] = q * x - t * y
      BY <3>1, <3>2
    <3> QED BY <3>3 DEF x, y
  <2> QED BY <2>1
<1>4. Bounded(e, g)
  BY <1>3 DEF Bounded, IsNear
<1>5. Bounded(ez, (g * c) * N)
  BY <1>2, <1>4, NegacyclicIsBounded
<1>6. Combines(ez, q, az, -t, bz)
  BY <1>1, <1>2, ProductIsLinear
<1>7. az \in Polynomials /\ bz \in Polynomials
  BY NegacyclicIs
<1> HIDE DEF ez, az, bz
<1>8. ASSUME NEW k \in Powers PROVE ez[k] = q * az[k] - t * bz[k] /\ q * az[k] - t * bz[k] \in Int
  <2> DEFINE x == az[k]
             y == bz[k]
  <2>1. x \in Int /\ y \in Int /\ ez[k] = q * x + (-t) * y
    BY <1>6, <1>7 DEF Combines, Polynomials
  <2> HIDE DEF x, y
  <2>2. q * x \in Int /\ (-t) * y = -(t * y) /\ t * y \in Int
    BY <2>1
  <2>3. ez[k] = q * x - t * y /\ q * x - t * y \in Int
    BY <2>1, <2>2
  <2> QED BY <2>3 DEF x, y
<1>9. IsNear(q, az, t, bz, (g * c) * N)
  BY <1>5, <1>8 DEF Bounded, IsNear
<1> QED BY <1>9 DEF az, bz

\* Products of combinations
LEMMA MixTimes ==
  ASSUME NEW a \in Polynomials, NEW b \in Polynomials, NEW z \in Polynomials, NEW c \in Int,
         NEW d \in Int, NEW k \in Powers
  PROVE  /\ Negacyclic(Mix(c, a, d, b), z)[k] = c * Negacyclic(a, z)[k] + d * Negacyclic(b, z)[k]
         /\ Negacyclic(z, Mix(c, a, d, b))[k] = c * Negacyclic(z, a)[k] + d * Negacyclic(z, b)[k]
<1> DEFINE h == Mix(c, a, d, b)
<1>1. h \in Polynomials /\ Combines(h, c, a, d, b)
  BY MixIs
<1> HIDE DEF h
<1>2. /\ Combines(Negacyclic(h, z), c, Negacyclic(a, z), d, Negacyclic(b, z))
      /\ Combines(Negacyclic(z, h), c, Negacyclic(z, a), d, Negacyclic(z, b))
  BY <1>1, ProductIsLinear
<1> QED BY <1>2 DEF Combines, h

\* A multiple of a polynomial, as a multiple of another and a rest
IsReading(t, p, q, m, x) == \A k \in Powers : t * p[k] = q * m[k] + x[k]

\* What two readings multiply to
ReadingOfProduct(t, q, p1, p2, m1, m2, x1, x2, k) ==
  t * (t * Negacyclic(p1, p2)[k])
    = q * (q * Negacyclic(m1, m2)[k] + Negacyclic(m1, x2)[k] + Negacyclic(x1, m2)[k])
      + Negacyclic(x1, x2)[k]

\* The product of two such readings
LEMMA ReadingsMultiply ==
  ASSUME NEW t \in Int, NEW q \in Int, NEW p1 \in Polynomials, NEW p2 \in Polynomials,
         NEW m1 \in Polynomials, NEW m2 \in Polynomials, NEW x1 \in Polynomials,
         NEW x2 \in Polynomials,
         IsReading(t, p1, q, m1, x1), IsReading(t, p2, q, m2, x2),
         NEW k \in Powers
  PROVE  ReadingOfProduct(t, q, p1, p2, m1, m2, x1, x2, k)
<1> DEFINE u1 == Mix(q, m1, 1, x1)
           u2 == Mix(q, m2, 1, x2)
<1>1. u1 \in Polynomials /\ u2 \in Polynomials /\ Combines(u1, q, m1, 1, x1) /\ Combines(u2, q, m2, 1, x2)
  BY MixIs
<1>2. Combines(u1, t, p1, 0, p1) /\ Combines(u2, t, p2, 0, p2)
  <2> HIDE DEF u1, u2
  <2>1. ASSUME NEW j \in Powers PROVE u1[j] = t * p1[j] + 0 * p1[j] /\ u2[j] = t * p2[j] + 0 * p2[j]
    <3>1. u1[j] = q * m1[j] + 1 * x1[j] /\ u2[j] = q * m2[j] + 1 * x2[j]
      BY <1>1 DEF Combines
    <3> DEFINE a1 == p1[j]
               a2 == p2[j]
               b1 == q * m1[j]
               b2 == q * m2[j]
               c1 == x1[j]
               c2 == x2[j]
    <3>2. /\ t * a1 = b1 + c1 /\ t * a2 = b2 + c2 /\ a1 \in Int /\ a2 \in Int /\ c1 \in Int /\ c2 \in Int
          /\ u1[j] = b1 + 1 * c1 /\ u2[j] = b2 + 1 * c2
      BY <3>1 DEF Polynomials, IsReading
    <3>3. b1 \in Int /\ b2 \in Int
      BY DEF Polynomials
    <3> HIDE DEF a1, a2, b1, b2, c1, c2
    <3>4. u1[j] = t * a1 + 0 * a1 /\ u2[j] = t * a2 + 0 * a2
      BY <3>2, <3>3
    <3> QED BY <3>4 DEF a1, a2
  <2> QED BY <2>1 DEF Combines
<1> HIDE DEF u1, u2
<1> DEFINE pp == Negacyclic(p1, p2)[k]
           pu == Negacyclic(p1, u2)[k]
           uu == Negacyclic(u1, u2)[k]
           mu == Negacyclic(m1, u2)[k]
           xu == Negacyclic(x1, u2)[k]
           mm == Negacyclic(m1, m2)[k]
           mx == Negacyclic(m1, x2)[k]
           xm == Negacyclic(x1, m2)[k]
           xx == Negacyclic(x1, x2)[k]
<1>3. uu = t * pu + 0 * pu
  <2>1. Combines(Negacyclic(u1, u2), t, Negacyclic(p1, u2), 0, Negacyclic(p1, u2))
    BY <1>1, <1>2, ProductIsLinear
  <2> QED BY <2>1 DEF Combines
<1>4. pu = t * pp + 0 * pp
  <2>1. Combines(Negacyclic(p1, u2), t, Negacyclic(p1, p2), 0, Negacyclic(p1, p2))
    BY <1>1, <1>2, ProductIsLinear
  <2> QED BY <2>1 DEF Combines
<1>5. uu = q * mu + 1 * xu
  <2>1. Combines(Negacyclic(u1, u2), q, Negacyclic(m1, u2), 1, Negacyclic(x1, u2))
    BY <1>1, ProductIsLinear
  <2> QED BY <2>1 DEF Combines
<1>6. mu = q * mm + 1 * mx
  <2>1. Combines(Negacyclic(m1, u2), q, Negacyclic(m1, m2), 1, Negacyclic(m1, x2))
    BY <1>1, ProductIsLinear
  <2> QED BY <2>1 DEF Combines
<1>7. xu = q * xm + 1 * xx
  <2>1. Combines(Negacyclic(x1, u2), q, Negacyclic(x1, m2), 1, Negacyclic(x1, x2))
    BY <1>1, ProductIsLinear
  <2> QED BY <2>1 DEF Combines
<1>8. pp \in Int /\ mm \in Int /\ mx \in Int /\ xm \in Int /\ xx \in Int
  <2>1. /\ Negacyclic(p1, p2) \in Polynomials /\ Negacyclic(m1, m2) \in Polynomials
        /\ Negacyclic(m1, x2) \in Polynomials /\ Negacyclic(x1, m2) \in Polynomials
        /\ Negacyclic(x1, x2) \in Polynomials
    BY NegacyclicIs
  <2> QED BY <2>1 DEF Polynomials
<1> HIDE DEF pp, pu, uu, mu, xu, mm, mx, xm, xx
<1> DEFINE qmm == q * mm
           qxm == q * xm
           tpp == t * pp
<1>9. qmm \in Int /\ qxm \in Int /\ tpp \in Int
  BY <1>8
<1>10. pu = tpp /\ mu = qmm + mx /\ xu = qxm + xx
  BY <1>4, <1>6, <1>7, <1>8, <1>9
<1> HIDE DEF qmm, tpp
<1>11. t * tpp = q * (qmm + mx) + (qxm + xx)
  <2>1. t * tpp \in Int /\ 0 * tpp = 0 /\ q * (qmm + mx) \in Int /\ qxm + xx \in Int
    BY <1>8, <1>9
  <2> HIDE DEF qxm
  <2> QED BY <1>3, <1>5, <1>10, <2>1
<1>12. q * (qmm + mx) + qxm = q * (qmm + mx + xm)
  BY <1>8, <1>9
<1>13. t * tpp = q * (qmm + mx + xm) + xx
  <2>1. q * (qmm + mx) \in Int
    BY <1>8, <1>9
  <2> DEFINE y == q * (qmm + mx)
             z == q * (qmm + mx + xm)
             ttpp == t * tpp
  <2>2. /\ ttpp = y + (qxm + xx) /\ y + qxm = z
        /\ y \in Int /\ qxm \in Int /\ xx \in Int
    BY <1>8, <1>9, <1>11, <1>12, <2>1
  <2> HIDE DEF y, z, qxm, ttpp
  <2>3. ttpp = z + xx
    BY <2>2
  <2> QED BY <2>3 DEF z, ttpp
<1> QED BY <1>13 DEF qmm, tpp, pp, mm, mx, xm, xx, ReadingOfProduct

\* The product of a message and its wraps with an error
LEMMA MessageTimesError ==
  ASSUME NEW t \in Nat, NEW m \in Int, NEW c \in Nat, -c <= m, m <= c,
         NEW w \in Polynomials, NEW d \in Nat, Bounded(w, d),
         NEW x \in Polynomials, NEW f \in Nat, Bounded(x, f)
  PROVE  Bounded(Negacyclic(Mix(1, Constant_(m), t, w), x), c * f + t * ((d * f) * N))
<1> DEFINE k0 == Constant_(m)
           wx == Negacyclic(w, x)
           kx == Negacyclic(k0, x)
           b == (d * f) * N
<1>1. k0 \in Polynomials /\ \A k \in Powers : kx[k] = m * x[k]
  BY ConstantIs
<1>2. Bounded(wx, b)
  BY NegacyclicIsBounded
<1>3. b \in Nat
  <2>1. d * f \in Nat /\ N \in Nat
    BY DegreeIs
  <2> DEFINE df == d * f
  <2> HIDE DEF df
  <2>2. df * N \in Nat
    BY <2>1 DEF df
  <2> QED BY <2>2 DEF df
<1>4. wx \in Polynomials
  BY NegacyclicIs
<1> HIDE DEF wx, b, k0, kx
<1>5. ASSUME NEW k \in Powers
      PROVE  /\ -(c * f + t * b) <= Negacyclic(Mix(1, k0, t, w), x)[k]
             /\ Negacyclic(Mix(1, k0, t, w), x)[k] <= c * f + t * b
  <2> DEFINE y == wx[k]
             z == x[k]
  <2>1. Negacyclic(Mix(1, k0, t, w), x)[k] = 1 * kx[k] + t * y
    BY <1>1, MixTimes DEF wx, kx
  <2>2. y \in Int /\ -b <= y /\ y <= b /\ z \in Int /\ -f <= z /\ z <= f /\ kx[k] = m * z
    BY <1>1, <1>2, <1>4 DEF Polynomials, Bounded
  <2> HIDE DEF y, z
  <2>3. -(c * f) <= m * z /\ m * z <= c * f /\ c * f \in Nat
    BY <2>2, ProductIsBounded
  <2>4. -(t * b) <= t * y /\ t * y <= t * b /\ t * b \in Nat
    <3>1. -t <= t /\ t <= t /\ t \in Int
      OBVIOUS
    <3> QED BY <1>3, <2>2, <3>1, ProductIsBounded
  <2> DEFINE cf == c * f
             tb == t * b
             mz == m * z
             ty == t * y
  <2>5. mz \in Int /\ ty \in Int /\ -cf <= mz /\ mz <= cf /\ -tb <= ty /\ ty <= tb /\ cf \in Nat /\ tb \in Nat
        /\ Negacyclic(Mix(1, k0, t, w), x)[k] = 1 * mz + ty
    BY <2>1, <2>2, <2>3, <2>4
  <2> HIDE DEF cf, tb, mz, ty
  <2>6. /\ -(cf + tb) <= Negacyclic(Mix(1, k0, t, w), x)[k]
        /\ Negacyclic(Mix(1, k0, t, w), x)[k] <= cf + tb
    BY <2>5
  <2> QED BY <2>6 DEF cf, tb
<1> QED BY <1>5 DEF Bounded, k0, b

\* A message and multiples of the plaintext modulus
IsMessage(a, m, t, k) == \E v \in Int : a[k] = (IF k = 0 THEN m ELSE 0) + t * v

\* Messages multiply, up to wraps.
LEMMA MessagesMultiply ==
  ASSUME NEW t \in Int, NEW m1 \in Int, NEW m2 \in Int, NEW w1 \in Polynomials,
         NEW w2 \in Polynomials, NEW k \in Powers
  PROVE  IsMessage(Negacyclic(Mix(1, Constant_(m1), t, w1), Mix(1, Constant_(m2), t, w2)),
                   m1 * m2, t, k)
<1> DEFINE k1 == Constant_(m1)
           k2 == Constant_(m2)
           b == Mix(1, k2, t, w2)
           kb == Negacyclic(k1, b)[k]
           wb == Negacyclic(w1, b)[k]
           y == w2[k]
           c == k2[k]
<1>1. k1 \in Polynomials /\ k2 \in Polynomials
  BY ConstantIs
<1>2. b \in Polynomials /\ b[k] = 1 * c + t * y
  <2> HIDE DEF k2
  <2> QED BY <1>1, MixIs DEF Combines
<1>3. kb = m1 * b[k]
  <2> HIDE DEF b
  <2> QED BY <1>2, ConstantIs
<1>4. Negacyclic(Mix(1, k1, t, w1), b)[k] = 1 * kb + t * wb
  <2> HIDE DEF b, k1
  <2> QED BY <1>1, <1>2, MixTimes
<1>5. y \in Int /\ wb \in Int
  <2> HIDE DEF b
  <2>1. Negacyclic(w1, b) \in Polynomials
    BY <1>2, NegacyclicIs
  <2> QED BY <2>1 DEF Polynomials
<1>6. c = IF k = 0 THEN m2 ELSE 0
  BY DEF Constant_
<1> DEFINE e == Negacyclic(Mix(1, k1, t, w1), b)[k]
           bk == b[k]
<1>7. e = 1 * kb + t * wb /\ kb = m1 * bk /\ bk = 1 * c + t * y
  BY <1>2, <1>3, <1>4
<1> HIDE DEF e, bk, b, kb, wb, y, c
<1> DEFINE m1y == m1 * y
           m1c == m1 * c
           m1m2 == m1 * m2
<1>8. c \in Int /\ m1y \in Int /\ m1c \in Int /\ m1m2 \in Int /\ m1c = IF k = 0 THEN m1m2 ELSE 0
  BY <1>5, <1>6
<1>9. bk = c + t * y /\ t * y \in Int
  BY <1>5, <1>7, <1>8
<1>10. kb = m1c + t * m1y
  <2>1. m1 * (c + t * y) = m1 * c + t * (m1 * y)
    BY <1>5, <1>8
  <2> QED BY <1>7, <1>9, <2>1
<1> HIDE DEF m1y, m1c, m1m2
<1>11. e = m1c + t * (m1y + wb)
  <2>1. t * (m1y + wb) = t * m1y + t * wb /\ t * m1y \in Int /\ t * wb \in Int
    BY <1>5, <1>8
  <2> DEFINE p == t * m1y
             r == t * wb
  <2>2. e = 1 * kb + r /\ kb = m1c + p /\ t * (m1y + wb) = p + r /\ p \in Int /\ r \in Int
    BY <1>7, <1>10, <2>1
  <2> HIDE DEF p, r
  <2> QED BY <1>8, <2>2
<1>12. m1y + wb \in Int /\ e = (IF k = 0 THEN m1m2 ELSE 0) + t * (m1y + wb)
  BY <1>5, <1>8, <1>11
<1>13. \E v \in Int : e = (IF k = 0 THEN m1m2 ELSE 0) + t * v
  BY <1>12
<1> QED BY <1>13 DEF e, b, m1m2, IsMessage

\* The multiples of the plaintext modulus in what an operand is, as a reading
\* of the centered lifts, are few.
LEMMA WrapIsSmall ==
  ASSUME NEW t \in Nat, NEW c \in Nat, t = 2 * c + 1, NEW q \in Nat, NEW g \in Nat, q = 2 * g + 1,
         NEW n \in Nat, NEW h \in Nat, n = 2 * h,
         NEW p \in Int, -(g + g * n) <= p, p <= g + g * n,
         NEW m \in Int, -c <= m, m <= c, NEW x \in Int, -g <= x, x <= g,
         NEW w \in Int, t * p = q * (m + t * w) + x
  PROVE  -(h + 1) <= w /\ w <= h + 1
<1> DEFINE a == q * t
           s == t * g
           sn == s * n
           tn == t * n
           ah == a * h
           aw == a * w
           tp == t * p
           qm == q * m
           qc == q * c
<1>1. a \in Nat /\ s \in Nat /\ a = 2 * s + t /\ a >= 1
  <2>1. q * t = (2 * g + 1) * t /\ (2 * g + 1) * t = 2 * (t * g) + t
    OBVIOUS
  <2>2. t * g \in Nat /\ t >= 1
    OBVIOUS
  <2> QED BY <2>1, <2>2
<1>2. tp = qm + aw + x
  <2>1. q * (m + t * w) = q * m + (q * t) * w
    OBVIOUS
  <2> QED BY <2>1
<1>3. 2 * qc = a - q /\ qc \in Nat
  <2>1. q * t = q * (2 * c + 1) /\ q * (2 * c + 1) = 2 * (q * c) + q /\ q * c \in Nat
    OBVIOUS
  <2> DEFINE e == q * c
             b == q * t
  <2>2. b = 2 * e + q /\ e \in Nat
    BY <2>1
  <2> HIDE DEF e, b
  <2>3. 2 * e = b - q
    BY <2>2
  <2> QED BY <2>2, <2>3 DEF e, b
<1>4. -qc <= qm /\ qm <= qc /\ qm \in Int
  <2>1. -q <= q /\ q <= q /\ q \in Int
    OBVIOUS
  <2> QED BY <2>1, ProductIsBounded
<1>5. -(s + sn) <= tp /\ tp <= s + sn /\ tp \in Int /\ sn \in Nat
  <2> DEFINE b == g + g * n
  <2>1. b \in Nat /\ -t <= t /\ t <= t /\ t \in Int
    OBVIOUS
  <2>2. t * b = t * g + (t * g) * n
    OBVIOUS
  <2>3. -b <= p /\ p <= b
    OBVIOUS
  <2> HIDE DEF b
  <2>4. -(t * b) <= t * p /\ t * p <= t * b
    BY <2>1, <2>3, ProductIsBounded
  <2>5. t * p \in Int /\ (t * g) * n \in Nat
    OBVIOUS
  <2> QED BY <2>2, <2>4, <2>5
<1>6. 2 * ah = 2 * sn + tn /\ tn \in Nat /\ ah \in Nat
  <2>1. 2 * (a * h) = a * n
    <3> HIDE DEF a
    <3> QED BY <1>1
  <2>2. a * n = 2 * (s * n) + t * n
    <3> HIDE DEF a, s
    <3>1. a * n = (2 * s + t) * n
      BY <1>1
    <3>2. (2 * s + t) * n = 2 * (s * n) + t * n
      BY <1>1
    <3> QED BY <3>1, <3>2
  <2>3. t * n \in Nat /\ a * h \in Nat
    <3> HIDE DEF a
    <3> QED BY <1>1
  <2> HIDE DEF a, s
  <2> QED BY <2>1, <2>2, <2>3
<1>7. aw \in Int /\ (w >= h + 2 => aw >= ah + 2 * a) /\ (w <= -(h + 2) => aw <= -(ah + 2 * a))
  <2> HIDE DEF a
  <2>1. aw \in Int
    BY <1>1
  <2>2. ASSUME w >= h + 2 PROVE aw >= ah + 2 * a
    <3>1. a * (w - (h + 2)) >= 0
      BY <1>1, <2>2
    <3>2. a * (w - (h + 2)) = a * w - a * h - 2 * a
      BY <1>1
    <3>3. a * h \in Int /\ a * w \in Int
      BY <1>1
    <3> DEFINE y == a * w
               z == a * h
    <3>4. y - z - 2 * a >= 0 /\ y \in Int /\ z \in Int
      BY <3>1, <3>2, <3>3
    <3> HIDE DEF y, z
    <3>5. y >= z + 2 * a
      BY <1>1, <3>4
    <3> QED BY <3>5 DEF y, z
  <2>3. ASSUME w <= -(h + 2) PROVE aw <= -(ah + 2 * a)
    <3>1. a * (-w - (h + 2)) >= 0
      BY <1>1, <2>3
    <3>2. a * (-w - (h + 2)) = -(a * w) - a * h - 2 * a
      BY <1>1
    <3>3. a * h \in Int /\ a * w \in Int
      BY <1>1
    <3> DEFINE y == a * w
               z == a * h
    <3>4. -y - z - 2 * a >= 0 /\ y \in Int /\ z \in Int
      BY <3>1, <3>2, <3>3
    <3> HIDE DEF y, z
    <3>5. y <= -(z + 2 * a)
      BY <1>1, <3>4
    <3> QED BY <3>5 DEF y, z
  <2> QED BY <2>1, <2>2, <2>3
<1> HIDE DEF a, s, sn, tn, ah, aw, tp, qm, qc
<1>8. ~(w >= h + 2)
  BY <1>1, <1>2, <1>3, <1>4, <1>5, <1>6, <1>7
<1>9. ~(w <= -(h + 2))
  BY <1>1, <1>2, <1>3, <1>4, <1>5, <1>6, <1>7
<1> QED BY <1>8, <1>9

\* What the rounding of the tensor and the product of the errors come to
LEMMA RestIsSmall ==
  ASSUME NEW q \in Nat, NEW g \in Nat, q = 2 * g + 1, NEW z \in Nat, NEW y \in Int,
         -(g * z) <= q * y, q * y <= g * z
  PROVE  -z <= 2 * y /\ 2 * y <= z
<1> DEFINE gz == g * z
           gy == g * y
<1>1. gz \in Nat /\ gy \in Int /\ q * y = 2 * gy + y
  <2>1. q * y = (2 * g + 1) * y /\ (2 * g + 1) * y = 2 * (g * y) + y
    OBVIOUS
  <2> QED BY <2>1
<1>2. -gz <= 2 * gy + y /\ 2 * gy + y <= gz
  BY <1>1
<1>3. ASSUME 2 * y > z PROVE FALSE
  <2>1. g * (2 * y - z) >= 0
    BY <1>3
  <2>2. g * (2 * y - z) = 2 * (g * y) - g * z
    OBVIOUS
  <2>3. 2 * gy - gz >= 0
    BY <2>1, <2>2
  <2> HIDE DEF gy, gz
  <2>4. y > 0
    BY <1>3
  <2> QED BY <1>1, <1>2, <2>3, <2>4
<1>4. ASSUME 2 * y < -z PROVE FALSE
  <2>1. g * (-(2 * y) - z) >= 0
    BY <1>4
  <2>2. g * (-(2 * y) - z) = -(2 * (g * y)) - g * z
    OBVIOUS
  <2>3. -(2 * gy) - gz >= 0
    BY <2>1, <2>2
  <2> HIDE DEF gy, gz
  <2>4. y < 0
    BY <1>4
  <2> QED BY <1>1, <1>2, <2>3, <2>4
<1> QED BY <1>3, <1>4

\* How far a product of two readings is from the product of the messages
FactorOf(t, c, h) == c + t * ((h + 1) * N)

\* What the certified model allows for the rounding of a tensor
RoundingOf(t) == (t * (1 + N + N * N) + 1) \div 2

\* The rest of a product, between the rounding and the two errors
LEMMA RestOfProduct ==
  ASSUME NEW t \in Nat, NEW q \in Nat, NEW g \in Nat, q = 2 * g + 1, NEW h \in Nat, N = 2 * h,
         NEW f \in Nat, f <= g,
         NEW xx \in Int, -((f * f) * N) <= xx, xx <= (f * f) * N,
         NEW d \in Int, -(g * (1 + N + N * N)) <= d, d <= g * (1 + N + N * N),
         NEW y \in Int, q * y = xx + t * d
  PROVE  -(f * h + RoundingOf(t)) <= y /\ y <= f * h + RoundingOf(t)
<1> DEFINE n == N
           e == 1 + n + n * n
           te == t * e
           fn == f * n
           fh == f * h
           z == fn + te
<1>1. n \in Nat /\ e \in Nat /\ te \in Nat /\ fn \in Nat /\ fh \in Nat /\ z \in Nat /\ fn = 2 * fh
  <2>1. n \in Nat
    BY DegreeIs
  <2>2. n * n \in Nat
    BY <2>1
  <2>3. e \in Nat
    BY <2>1, <2>2
  <2>4. te \in Nat
    <3> HIDE DEF e
    <3> QED BY <2>3
  <2>5. fn = 2 * fh /\ fn \in Nat /\ fh \in Nat
    BY <2>1
  <2> HIDE DEF te, fn, fh
  <2> QED BY <2>1, <2>3, <2>4, <2>5
<1>2. -(g * fn) <= xx /\ xx <= g * fn /\ g * fn \in Nat
  <2>1. (f * f) * n = f * fn
    BY <1>1
  <2>2. f * fn <= g * fn
    <3> HIDE DEF fn
    <3>1. (g - f) * fn >= 0
      BY <1>1
    <3>2. (g - f) * fn = g * fn - f * fn /\ g * fn \in Int /\ f * fn \in Int
      BY <1>1
    <3> DEFINE a == g * fn
               b == f * fn
    <3>3. a - b >= 0 /\ a \in Int /\ b \in Int
      BY <3>1, <3>2
    <3> HIDE DEF a, b
    <3>4. b <= a
      BY <3>3
    <3> QED BY <3>4 DEF a, b
  <2> DEFINE a == g * fn
             b == f * fn
  <2>3. b \in Int /\ a \in Nat /\ b <= a /\ -b <= xx /\ xx <= b
    <3>1. a \in Nat /\ b \in Int
      <4> HIDE DEF fn
      <4> QED BY <1>1
    <3> HIDE DEF fn
    <3> QED BY <2>1, <2>2, <3>1
  <2> HIDE DEF a, b
  <2>4. -a <= xx /\ xx <= a
    BY <2>3
  <2> QED BY <2>3, <2>4 DEF a
<1>3. -(g * te) <= t * d /\ t * d <= g * te /\ g * te \in Nat /\ t * d \in Int
  <2> HIDE DEF e
  <2>1. g * e \in Nat /\ -t <= t /\ t <= t /\ t \in Int
    BY <1>1
  <2> DEFINE ge == g * e
  <2>2. ge \in Nat /\ -ge <= d /\ d <= ge
    BY <2>1 DEF e
  <2> HIDE DEF ge
  <2>3. -(t * ge) <= t * d /\ t * d <= t * ge /\ t * ge \in Nat
    BY <2>1, <2>2, ProductIsBounded
  <2>4. t * ge = g * te
    BY <1>1 DEF ge
  <2>5. t * d \in Int
    OBVIOUS
  <2> QED BY <2>3, <2>4, <2>5
<1>4. g * z = g * fn + g * te
  <2> HIDE DEF fn, te
  <2> QED BY <1>1
<1>5. -(g * z) <= q * y /\ q * y <= g * z
  <2> DEFINE a == g * fn
             b == g * te
             td == t * d
             qy == q * y
  <2>1. /\ qy = xx + td /\ -a <= xx /\ xx <= a /\ a \in Nat /\ -b <= td /\ td <= b /\ b \in Nat
        /\ td \in Int /\ g * z = a + b
    BY <1>2, <1>3, <1>4
  <2> HIDE DEF a, b, td, qy, z
  <2>2. -(a + b) <= qy /\ qy <= a + b
    BY <2>1
  <2> QED BY <2>1, <2>2 DEF qy
<1> HIDE DEF z
<1>6. -z <= 2 * y /\ 2 * y <= z
  BY <1>1, <1>5, RestIsSmall
<1>7. RoundingOf(t) = (te + 1) \div 2
  BY DEF RoundingOf
<1> DEFINE r == (te + 1) \div 2
<1>8. r \in Int /\ te <= 2 * r
  <2> HIDE DEF te
  <2> QED BY <1>1
<1> HIDE DEF te, fn, fh, r
<1>9. -(fh + r) <= y /\ y <= fh + r
  BY <1>1, <1>6, <1>8 DEF z
<1> QED BY <1>7, <1>9 DEF fh, r

\* A multiple t of a reading is a message times q, but for an error.
IsScaled(t, q, r, m, e) == \E v \in Int : t * r = q * (m + t * v) + e

\* r reads as the message m with an error of at most b.
IsMessageWithin(t, q, r, m, b) ==
  \A k \in Powers : \E e \in Int :
    IsScaled(t, q, r[k], IF k = 0 THEN m ELSE 0, e) /\ -b <= e /\ e <= b

\* Odd numbers by their halves, and the integers nearest to zero modulo them
OddFrom(n, h) == n = 2 * h + 1

IsCentered(m, h) == -h <= m /\ m <= h

\* What the certified model allows a product of two such operands, less what
\* folding adds
ProductBoundOf(t, c, f) == (f + f) * FactorOf(t, c, N \div 2) + f * (N \div 2) + RoundingOf(t)

\* A product of two operands, each the plaintext modulus times a reading, is
\* the product of their messages as far as the certified bound says.
LEMMA ErrorOfProduct ==
  ASSUME NEW t \in Nat, NEW c \in Nat, OddFrom(t, c), NEW q \in Nat, NEW g \in Nat, OddFrom(q, g),
         NEW f \in Nat, f <= g, NEW wraps, wraps = N \div 2 + 1,
         NEW p1 \in Polynomials, NEW p2 \in Polynomials,
         NEW w1 \in Polynomials, Bounded(w1, wraps), NEW w2 \in Polynomials, Bounded(w2, wraps),
         NEW x1 \in Polynomials, Bounded(x1, f), NEW x2 \in Polynomials, Bounded(x2, f),
         NEW m1 \in Int, IsCentered(m1, c), NEW m2 \in Int, IsCentered(m2, c),
         IsReading(t, p1, q, Mix(1, Constant_(m1), t, w1), x1),
         IsReading(t, p2, q, Mix(1, Constant_(m2), t, w2), x2),
         NEW read \in Polynomials, NEW near, near = g * (1 + N + N * N),
         IsNear(q, read, t, Negacyclic(p1, p2), near),
         NEW bound, bound = ProductBoundOf(t, c, f)
  PROVE  IsMessageWithin(t, q, read, m1 * m2, bound)
<1> SUFFICES ASSUME NEW k \in Powers
             PROVE  \E e \in Int :
                      /\ IsScaled(t, q, read[k], IF k = 0 THEN m1 * m2 ELSE 0, e)
                      /\ -bound <= e /\ e <= bound
  BY DEF IsMessageWithin
<1> DEFINE h == N \div 2
           r == read[k]
<1>a. /\ h \in Nat /\ N = 2 * h /\ wraps = h + 1 /\ t = 2 * c + 1 /\ q = 2 * g + 1
      /\ -c <= m1 /\ m1 <= c /\ -c <= m2 /\ m2 <= c
      /\ bound = (f + f) * FactorOf(t, c, h) + f * h + RoundingOf(t)
  BY DegreeIs DEF OddFrom, IsCentered, ProductBoundOf
<1>b. /\ Bounded(w1, h + 1) /\ Bounded(w2, h + 1)
      /\ r \in Int
      /\ -(g * (1 + N + N * N)) <= q * r - t * Negacyclic(p1, p2)[k]
      /\ q * r - t * Negacyclic(p1, p2)[k] <= g * (1 + N + N * N)
  BY <1>a DEF IsNear, Polynomials
<1> HIDE DEF h, r
<1> USE <1>a, <1>b
<1> DEFINE k1 == Mix(1, Constant_(m1), t, w1)
           k2 == Mix(1, Constant_(m2), t, w2)
           mm == Negacyclic(k1, k2)[k]
           mx == Negacyclic(k1, x2)[k]
           xm == Negacyclic(x1, k2)[k]
           xx == Negacyclic(x1, x2)[k]
           pp == Negacyclic(p1, p2)[k]
           y == t * r - q * mm - mx - xm
           d == q * r - t * pp
           one == c * f + t * (((h + 1) * f) * N)
           rest == f * h + RoundingOf(t)
<1>1. k1 \in Polynomials /\ k2 \in Polynomials
  <2> DEFINE c1 == Constant_(m1)
             c2 == Constant_(m2)
  <2>1. c1 \in Polynomials /\ c2 \in Polynomials
    BY ConstantIs
  <2> HIDE DEF c1, c2
  <2>2. Mix(1, c1, t, w1) \in Polynomials /\ Mix(1, c2, t, w2) \in Polynomials
    BY <2>1, MixIs
  <2> QED BY <2>2 DEF c1, c2
<1>2. IsReading(t, p1, q, k1, x1) /\ IsReading(t, p2, q, k2, x2)
  OBVIOUS
<1>3. PICK v \in Int : mm = (IF k = 0 THEN m1 * m2 ELSE 0) + t * v
  <2>1. t \in Int
    OBVIOUS
  <2>2. IsMessage(Negacyclic(k1, k2), m1 * m2, t, k)
    BY <2>1, MessagesMultiply
  <2> HIDE DEF k1, k2
  <2> QED BY <2>2 DEF IsMessage
<1>4. -one <= mx /\ mx <= one
  <2>1. h + 1 \in Nat
    OBVIOUS
  <2>2. Bounded(Negacyclic(k1, x2), one)
    BY <2>1, MessageTimesError
  <2> HIDE DEF k1, one
  <2> QED BY <2>2 DEF Bounded
<1>5. -one <= xm /\ xm <= one
  <2>1. h + 1 \in Nat
    OBVIOUS
  <2>2. Bounded(Negacyclic(k2, x1), one)
    BY <2>1, MessageTimesError
  <2>3. Negacyclic(k2, x1) = Negacyclic(x1, k2)
    <3> HIDE DEF k2
    <3> QED BY <1>1, NegacyclicCommutes
  <2> HIDE DEF k2, one
  <2> QED BY <2>2, <2>3 DEF Bounded
<1>6. -((f * f) * N) <= xx /\ xx <= (f * f) * N
  <2>1. Bounded(Negacyclic(x1, x2), (f * f) * N)
    BY NegacyclicIsBounded
  <2> QED BY <2>1 DEF Bounded
<1> HIDE DEF k1, k2
<1>7. mm \in Int /\ mx \in Int /\ xm \in Int /\ xx \in Int /\ pp \in Int
  <2>1. /\ Negacyclic(k1, k2) \in Polynomials /\ Negacyclic(k1, x2) \in Polynomials
        /\ Negacyclic(x1, k2) \in Polynomials /\ Negacyclic(x1, x2) \in Polynomials
        /\ Negacyclic(p1, p2) \in Polynomials
    BY <1>1, NegacyclicIs
  <2> QED BY <2>1 DEF Polynomials
<1>8. t * (t * pp) = q * (q * mm + mx + xm) + xx
  <2>1. t \in Int /\ q \in Int
    OBVIOUS
  <2>2. ReadingOfProduct(t, q, p1, p2, k1, k2, x1, x2, k)
    BY <1>1, <1>2, <2>1, ReadingsMultiply
  <2> QED BY <2>2 DEF ReadingOfProduct
<1>9. -(g * (1 + N + N * N)) <= d /\ d <= g * (1 + N + N * N)
  OBVIOUS
<1> HIDE DEF mm, mx, xm, xx, pp, one, rest
<1>10. y \in Int /\ d \in Int /\ q * y = xx + t * d
  <2> DEFINE qm == q * mm
             tr == t * r
             qr == q * r
             tpp == t * pp
  <2>1. qm \in Int /\ tr \in Int /\ qr \in Int /\ tpp \in Int
    BY <1>7
  <2> HIDE DEF qm, tpp
  <2>2. q * (tr - qm - mx - xm) = q * tr - q * (qm + mx + xm)
    <3> HIDE DEF tr
    <3> QED BY <1>7, <2>1
  <2>3. t * (qr - tpp) = t * qr - t * tpp
    <3> HIDE DEF qr
    <3> QED BY <2>1
  <2>4. q * tr = t * qr
    OBVIOUS
  <2>5. t * tpp = q * (qm + mx + xm) + xx
    BY <1>8 DEF tpp, qm
  <2>6. y = tr - qm - mx - xm /\ d = qr - tpp
    BY DEF qm, tpp
  <2> HIDE DEF tr, qr
  <2>7. q * tr \in Int /\ t * tpp \in Int /\ q * (qm + mx + xm) \in Int
    BY <1>7, <2>1
  <2> DEFINE a == q * tr
             b == q * (qm + mx + xm)
  <2>8. q * y = a - b /\ t * d = a - (b + xx) /\ a \in Int /\ b \in Int
    BY <2>2, <2>3, <2>4, <2>5, <2>6, <2>7
  <2> HIDE DEF a, b, y, d
  <2>9. q * y = xx + t * d
    BY <1>7, <2>8
  <2>10. y \in Int /\ d \in Int
    BY <1>7, <2>1, <2>6
  <2> QED BY <2>9, <2>10
<1>11. t * r = q * mm + (mx + xm + y)
  <2> DEFINE qm == q * mm
             tr == t * r
  <2>1. qm \in Int /\ tr \in Int /\ y = tr - qm - mx - xm
    BY <1>7
  <2> HIDE DEF qm, tr, y
  <2>2. tr = qm + (mx + xm + y)
    BY <1>7, <2>1
  <2> QED BY <2>2 DEF qm, tr
<1> HIDE DEF y, d
<1>12. -rest <= y /\ y <= rest
  <2>1. -(f * h + RoundingOf(t)) <= y /\ y <= f * h + RoundingOf(t)
    <3>1. h \in Nat /\ N = 2 * h /\ q = 2 * g + 1
      OBVIOUS
    <3> HIDE <1>a, <1>b
    <3> QED BY <1>6, <1>7, <1>9, <1>10, <3>1, RestOfProduct
  <2> QED BY <2>1 DEF rest
<1> DEFINE e == mx + xm + y
<1>13. bound = one + one + rest /\ one \in Nat /\ rest \in Int
  <2>1. N \in Nat
    BY DegreeIs
  <2> DEFINE a == (h + 1) * N
             u == c + t * a
  <2>2. a \in Nat /\ ((h + 1) * f) * N = f * a
    BY <2>1
  <2>3. t * (f * a) = f * (t * a) /\ t * a \in Nat
    <3> HIDE DEF a
    <3> QED BY <2>2
  <2>4. one = f * u
    <3>1. f * u = f * c + f * (t * a)
      <4> HIDE DEF a
      <4> QED BY <2>2
    <3>2. one = c * f + t * (((h + 1) * f) * N)
      BY DEF one
    <3>3. one = c * f + t * (f * a)
      BY <2>2, <3>2
    <3>4. c * f = f * c
      OBVIOUS
    <3> HIDE DEF a, u
    <3> QED BY <2>3, <3>1, <3>3, <3>4
  <2>5. u \in Nat /\ FactorOf(t, c, h) = u
    <3> HIDE DEF a
    <3> QED BY <2>2, <2>3 DEF FactorOf, a
  <2> HIDE DEF u
  <2>6. f * u \in Nat /\ (f + f) * u = f * u + f * u
    BY <2>5
  <2>7. f * h \in Int
    OBVIOUS
  <2>8. RoundingOf(t) \in Int
    <3> DEFINE n == N
    <3>1. n * n \in Nat /\ n \in Nat
      BY <2>1
    <3> DEFINE nn == n * n
    <3> HIDE DEF nn
    <3>2. t * (1 + n + nn) \in Int
      BY <3>1 DEF nn
    <3> DEFINE z == t * (1 + n + nn)
    <3> HIDE DEF z
    <3>3. (z + 1) \div 2 \in Int
      BY <3>2 DEF z
    <3> QED BY <3>3 DEF z, nn, RoundingOf
  <2> DEFINE fu == f * u
             fh == f * h
             ro == RoundingOf(t)
  <2>9. one = fu /\ fu \in Nat /\ fh \in Int /\ ro \in Int /\ bound = (fu + fu) + fh + ro /\ rest = fh + ro
    BY <2>4, <2>5, <2>6, <2>7, <2>8 DEF rest
  <2> HIDE DEF fu, fh, ro
  <2> QED BY <2>9
<1>14. e \in Int /\ -bound <= e /\ e <= bound
  <2> QED BY <1>4, <1>5, <1>7, <1>10, <1>12, <1>13
<1>15. t * r = q * ((IF k = 0 THEN m1 * m2 ELSE 0) + t * v) + e
  <2> HIDE DEF e
  <2> QED BY <1>3, <1>11 DEF e
<1> HIDE DEF e
<1>16. IsScaled(t, q, r, IF k = 0 THEN m1 * m2 ELSE 0, e)
  BY <1>3, <1>15 DEF IsScaled
<1> QED BY <1>14, <1>16 DEF r

\* The rounded tensor, read with the secret, is close to the product of the
\* operands, read with it.
LEMMA TensorReads ==
  ASSUME NEW t \in Nat, NEW q \in Nat, NEW g \in Nat,
         NEW a1 \in Polynomials, NEW a2 \in Polynomials, NEW b1 \in Polynomials,
         NEW b2 \in Polynomials, NEW s \in Polynomials, Bounded(s, 1),
         NEW e1 \in Polynomials, NEW e2 \in Polynomials, NEW e3 \in Polynomials,
         IsNear(q, e1, t, Negacyclic(a1, b1), g),
         IsNear(q, e2, t, Plus(Negacyclic(a1, b2), Negacyclic(a2, b1)), g),
         IsNear(q, e3, t, Negacyclic(a2, b2), g)
  PROVE  IsNear(q, ReadOf(e1, e2, e3, s), t,
                Negacyclic(Plus(a1, Negacyclic(a2, s)), Plus(b1, Negacyclic(b2, s))),
                g * (1 + N + N * N))
<1> DEFINE u1 == Negacyclic(a1, b1)
           u2 == Plus(Negacyclic(a1, b2), Negacyclic(a2, b1))
           u3 == Negacyclic(a2, b2)
           ss == Negacyclic(s, s)
           pp == Negacyclic(Plus(a1, Negacyclic(a2, s)), Plus(b1, Negacyclic(b2, s)))
           f2 == Negacyclic(e2, s)
           f3 == Negacyclic(e3, ss)
           v2 == Negacyclic(u2, s)
           v3 == Negacyclic(u3, ss)
<1>1. N \in Nat
  BY DegreeIs
<1>2. u1 \in Polynomials /\ u2 \in Polynomials /\ u3 \in Polynomials /\ ss \in Polynomials
  <2>1. Negacyclic(a1, b2) \in Polynomials /\ Negacyclic(a2, b1) \in Polynomials
    BY NegacyclicIs
  <2>2. u2 \in Polynomials
    BY <2>1, PlusIs
  <2> QED BY <2>2, NegacyclicIs
<1>3. Bounded(ss, N)
  <2>1. Bounded(ss, (1 * 1) * N)
    BY NegacyclicIsBounded
  <2>2. (1 * 1) * N = N
    BY <1>1
  <2> HIDE DEF ss
  <2> QED BY <2>1, <2>2
<1>4. \A k \in Powers : pp[k] = u1[k] + v2[k] + v3[k]
  <2>1. pp = ReadOf(u1, u2, u3, s)
    BY ProductOfReads
  <2> HIDE DEF pp, u1, u2, u3
  <2> QED BY <2>1 DEF ReadOf
<1>5. IsNear(q, e1, t, u1, g) /\ IsNear(q, e2, t, u2, g) /\ IsNear(q, e3, t, u3, g)
  OBVIOUS
<1>6. t \in Int /\ q \in Int
  OBVIOUS
<1> HIDE DEF u1, u2, u3, ss, pp
<1>7. IsNear(q, f2, t, v2, (g * 1) * N)
  BY <1>2, <1>5, <1>6, ProductStaysNear
<1>8. IsNear(q, f3, t, v3, (g * N) * N)
  BY <1>1, <1>2, <1>3, <1>5, <1>6, ProductStaysNear
<1>9. f2 \in Polynomials /\ f3 \in Polynomials /\ v2 \in Polynomials /\ v3 \in Polynomials
  BY <1>2, NegacyclicIs
<1> DEFINE r == ReadOf(e1, e2, e3, s)
<1>10. \A k \in Powers : r[k] = e1[k] + f2[k] + f3[k]
  BY DEF ReadOf, ss
<1> HIDE DEF f2, f3, v2, v3, r
<1>11. ASSUME NEW k \in Powers
       PROVE  /\ -(g * (1 + N + N * N)) <= q * r[k] - t * pp[k]
              /\ q * r[k] - t * pp[k] <= g * (1 + N + N * N)
  <2> DEFINE x1 == e1[k]
             x2 == f2[k]
             x3 == f3[k]
             y1 == u1[k]
             y2 == v2[k]
             y3 == v3[k]
             gn == g * N
             gnn == gn * N
             d1 == q * x1 - t * y1
             d2 == q * x2 - t * y2
             d3 == q * x3 - t * y3
  <2>1. /\ x1 \in Int /\ x2 \in Int /\ x3 \in Int /\ y1 \in Int /\ y2 \in Int /\ y3 \in Int
        /\ r[k] = x1 + x2 + x3 /\ pp[k] = y1 + y2 + y3
    BY <1>2, <1>4, <1>9, <1>10 DEF Polynomials
  <2>2. -g <= d1 /\ d1 <= g /\ -gn <= d2 /\ d2 <= gn /\ -gnn <= d3 /\ d3 <= gnn
    <3>1. g * 1 = g
      OBVIOUS
    <3> QED BY <1>5, <1>7, <1>8, <3>1 DEF IsNear
  <2>3. gn \in Nat /\ gnn \in Nat /\ g * (1 + N + N * N) = g + gn + gnn
    BY <1>1
  <2> HIDE DEF x1, x2, x3, y1, y2, y3, gn, gnn
  <2>4. q * (x1 + x2 + x3) - t * (y1 + y2 + y3) = d1 + d2 + d3
        /\ d1 \in Int /\ d2 \in Int /\ d3 \in Int
    <3> DEFINE qx1 == q * x1
               qx2 == q * x2
               qx3 == q * x3
               ty1 == t * y1
               ty2 == t * y2
               ty3 == t * y3
    <3>1. q * (x1 + x2 + x3) = qx1 + qx2 + qx3 /\ t * (y1 + y2 + y3) = ty1 + ty2 + ty3
      BY <2>1
    <3>2. /\ qx1 \in Int /\ qx2 \in Int /\ qx3 \in Int /\ ty1 \in Int /\ ty2 \in Int /\ ty3 \in Int
          /\ d1 = qx1 - ty1 /\ d2 = qx2 - ty2 /\ d3 = qx3 - ty3
      BY <2>1
    <3> HIDE DEF qx1, qx2, qx3, ty1, ty2, ty3, d1, d2, d3
    <3> QED BY <3>1, <3>2
  <2> HIDE DEF d1, d2, d3
  <2>5. q * r[k] - t * pp[k] = d1 + d2 + d3
    BY <2>1, <2>4
  <2> DEFINE all == q * r[k] - t * pp[k]
             b == g * (1 + N + N * N)
  <2>6. all = d1 + d2 + d3 /\ b = g + gn + gnn
    BY <2>3, <2>5
  <2> HIDE DEF all, b
  <2>7. -b <= all /\ all <= b
    BY <2>2, <2>3, <2>4, <2>6
  <2> QED BY <2>7 DEF all, b
<1>12. IsNear(q, r, t, pp, g * (1 + N + N * N))
  BY <1>11 DEF IsNear
<1> QED BY <1>12 DEF r, pp

\* A reading whose message differs by multiples of t from the one given
Wraps(t, p, q, m, w, x) ==
  \A k \in Powers : t * p[k] = q * ((IF k = 0 THEN m ELSE 0) + t * w[k]) + x[k]

\* The centered message and its wraps: what is read from an operand
LEMMA OperandReads ==
  ASSUME NEW t \in Nat, NEW c \in Nat, OddFrom(t, c), NEW q \in Nat, NEW g \in Nat, OddFrom(q, g),
         NEW b \in Nat, b = g + g * N, NEW u \in Nat, u = N \div 2 + 1,
         NEW p \in Polynomials, Bounded(p, b),
         NEW m \in Int, IsCentered(m, c), NEW x \in Polynomials, Bounded(x, g),
         NEW w \in Polynomials, Wraps(t, p, q, m, w, x)
  PROVE  Bounded(w, u) /\ IsReading(t, p, q, Mix(1, Constant_(m), t, w), x)
<1> DEFINE h == N \div 2
<1>a. /\ h \in Nat /\ N = 2 * h /\ u = h + 1 /\ t = 2 * c + 1 /\ q = 2 * g + 1
      /\ -c <= m /\ m <= c
  BY DegreeIs DEF OddFrom, IsCentered
<1> HIDE DEF h
<1> USE <1>a
<1>1. N \in Nat
  BY DegreeIs
<1>2. ASSUME NEW k \in Powers PROVE -(h + 1) <= w[k] /\ w[k] <= h + 1
  <2> DEFINE pk == p[k]
             xk == x[k]
             wk == w[k]
             mk == IF k = 0 THEN m ELSE 0
             n == N
  <2>1. pk \in Int /\ xk \in Int /\ wk \in Int /\ mk \in Int /\ -c <= mk /\ mk <= c /\ n \in Nat
    BY <1>1 DEF Polynomials
  <2>2. -(g + g * n) <= pk /\ pk <= g + g * n /\ -g <= xk /\ xk <= g
    BY DEF Bounded
  <2>3. t * pk = q * (mk + t * wk) + xk /\ n = 2 * h
    BY DEF Wraps
  <2> HIDE DEF pk, xk, wk, mk, n
  <2>4. -(h + 1) <= wk /\ wk <= h + 1
    BY <2>1, <2>2, <2>3, WrapIsSmall
  <2> QED BY <2>4 DEF wk
<1>3. ASSUME NEW k \in Powers
      PROVE  t * p[k] = q * Mix(1, Constant_(m), t, w)[k] + x[k]
  <2> DEFINE mk == IF k = 0 THEN m ELSE 0
             tw == t * w[k]
  <2>1. Mix(1, Constant_(m), t, w)[k] = 1 * mk + tw
    BY DEF Mix, Constant_
  <2>2. mk \in Int /\ tw \in Int
    BY DEF Polynomials
  <2>3. t * p[k] = q * (mk + tw) + x[k]
    BY DEF Wraps
  <2> HIDE DEF mk, tw
  <2>4. 1 * mk + tw = mk + tw
    BY <2>2
  <2> QED BY <2>1, <2>3, <2>4
<1> QED BY <1>2, <1>3 DEF Bounded, IsReading

\* The integer behind a coefficient of a ring element
LEMMA WholeAt ==
  ASSUME NEW p, IsPlan(p), NEW r \in Polynomials, NEW k \in Powers
  PROVE  /\ Whole(p, At(InRing(p.main, r), k)) \in Int
         /\ Same(Whole(p, At(InRing(p.main, r), k)), r[k], Modulus(p))
<1> DEFINE main == p.main
           M == Product(main)
           e == InRing(main, r)
           x == Whole(p, At(e, k))
           y == r[k] % M
<1>1. MainModuli(main) /\ Len(main) >= 1 /\ Modulus(p) = M /\ M \in Nat /\ M > 0 /\ main \in Seq(Nat \ {0})
  <2>1. MainModuli(main) /\ Len(main) >= 1
    BY DEF IsPlan
  <2> QED BY <2>1, PlanNumbers DEF MainModuli
<1>2. IsElement(e, main) /\ e = [i \in DOMAIN main |-> Mod(r, main[i])]
  BY <1>1, InRingIs
<1>3. r[k] \in Int
  BY DEF Polynomials
<1>4. y \in 0 .. M - 1 /\ y \in Int /\ Same(y, r[k], M)
  <2> DEFINE rk == r[k]
  <2> HIDE DEF M, rk
  <2>1. rk % M \in 0 .. M - 1 /\ Same(rk % M, rk, M)
    BY <1>1, <1>3, ResidueIsSame DEF rk
  <2>2. rk % M \in Int
    BY <1>1, <2>1
  <2> QED BY <2>1, <2>2 DEF rk
<1>5. HasResidues(x, main, At(e, k))
  <2>1. AreCoefficients(At(e, k), main)
    BY <1>1, <1>2, CoefficientsOf
  <2> QED BY <1>1, <2>1, WholeIs
<1>6. HasResidues(y, main, At(e, k))
  <2>1. ASSUME NEW i \in 1 .. Len(main) PROVE y % main[i] = At(e, k)[i]
    <3> DEFINE m == main[i]
               rk == r[k]
    <3>1. m \in Nat /\ m > 0 /\ m \in Int
      BY <1>1 DEF MainModuli
    <3>2. At(e, k)[i] = rk % m
      <4>1. At(e, k)[i] = e[i][k] /\ i \in DOMAIN main
        <5>1. i \in DOMAIN main
          BY <1>1 DEF MainModuli
        <5> HIDE DEF e, m, rk
        <5>2. \A j \in 1 .. Len(main) : At(e, k)[j] = e[j][k]
          BY <1>1, <1>2, CoefficientsOf
        <5> QED BY <5>1, <5>2
      <4>2. Mod(r, m) = [n \in Powers |-> r[n] % m]
        BY <3>1, ModIs
      <4> QED BY <1>2, <4>1, <4>2
    <3> HIDE DEF M, e, y, rk
    <3>3. PICK j \in Int : y = rk + M * j
      BY <1>4 DEF Same, rk
    <3>4. Same(rk + M * j, rk, m)
      <4> HIDE DEF m
      <4>1. rk \in Int
        BY <1>3 DEF rk
      <4> QED BY Zenon, <1>1, <4>1, ModuloProduct DEF M, m
    <3> HIDE DEF m
    <3>5. y % m = rk % m
      <4>1. rk \in Int /\ Same(y, rk, m)
        BY <1>3, <3>3, <3>4 DEF rk
      <4> QED BY <1>4, <3>1, <4>1, SameResidue
    <3> QED BY <3>2, <3>5 DEF m
  <2> HIDE DEF y, e
  <2> QED BY <1>4, <2>1 DEF HasResidues
<1>7. x = y
  <2> HIDE DEF x, y, e
  <2> QED BY <1>1, <1>5, <1>6, ResiduesTell
<1> HIDE DEF M, e, y
<1>8. x \in Int /\ Same(x, r[k], Modulus(p))
  BY <1>1, <1>4, <1>7
<1> QED BY <1>8 DEF e

\* Equal residues come from integers that differ by multiples of the modulus.
LEMMA InRingTells ==
  ASSUME NEW p, IsPlan(p), NEW a \in Polynomials, NEW b \in Polynomials,
         InRing(p.main, a) = InRing(p.main, b), NEW k \in Powers
  PROVE  Same(a[k], b[k], Modulus(p))
<1> DEFINE x == Whole(p, At(InRing(p.main, a), k))
           M == Modulus(p)
           ak == a[k]
           bk == b[k]
<1>1. x \in Int /\ Same(x, ak, M)
  BY WholeAt
<1>2. Same(x, bk, M)
  <2>1. /\ Whole(p, At(InRing(p.main, b), k)) \in Int
        /\ Same(Whole(p, At(InRing(p.main, b), k)), b[k], Modulus(p))
    BY WholeAt
  <2> QED BY <2>1
<1>3. M \in Int /\ ak \in Int /\ bk \in Int
  BY PlanNumbers DEF Polynomials
<1> HIDE DEF x, M, ak, bk
<1>4. Same(ak, x, M)
  BY <1>1, <1>3, SameSymmetric
<1>5. Same(ak, bk, M)
  BY <1>1, <1>2, <1>3, <1>4, SameTransitive
<1> QED BY <1>5 DEF M, ak, bk

\* The reading of one representative is the one of every other.
LEMMA ScaledReading ==
  ASSUME NEW t \in Nat, NEW q \in Nat, NEW x \in Int, NEW r \in Int, Same(x, r, q),
         NEW m \in Int, NEW e \in Int, IsScaled(t, q, r, m, e)
  PROVE  IsScaled(t, q, x, m, e)
<1>1. PICK v \in Int : t * r = q * (m + t * v) + e
  BY DEF IsScaled
<1>2. PICK z \in Int : x = r + q * z
  BY DEF Same
<1>3. t * x = t * r + q * (t * z)
  <2>1. t * (r + q * z) = t * r + q * (t * z)
    OBVIOUS
  <2> QED BY <1>2, <2>1
<1>4. q * (m + t * (v + z)) = q * (m + t * v) + q * (t * z)
  OBVIOUS
<1>5. q * (m + t * v) \in Int /\ q * (t * z) \in Int /\ v + z \in Int
  OBVIOUS
<1> DEFINE a == q * (m + t * v)
           b == q * (t * z)
<1>6. a \in Int /\ b \in Int /\ t * r = a + e /\ t * x = t * r + b /\ q * (m + t * (v + z)) = a + b
  BY <1>1, <1>3, <1>4, <1>5
<1> HIDE DEF a, b
<1>7. t * x = q * (m + t * (v + z)) + e
  BY <1>6
<1> QED BY <1>5, <1>7 DEF IsScaled

\* What reads as a message within a bound has a scaled error within it.
LEMMA ErrorIsWithin ==
  ASSUME NEW p, IsPlan(p), NEW c, NEW r \in Polynomials, Phase(p, c, sk) = InRing(p.main, r),
         NEW m \in Int, NEW b \in Nat, IsMessageWithin(p.t, Modulus(p), r, m, b)
  PROVE  Within(ScaledError(p, c, m), b)
<1> DEFINE t == p.t
           q == Modulus(p)
<1>1. t \in Nat /\ t > 0 /\ q \in Nat /\ q > 0
  <2>1. t \in Nat /\ t > 0
    BY DEF IsPlan
  <2>2. q \in Nat /\ q > 0
    BY PlanNumbers
  <2> QED BY <2>1, <2>2
<1>2. ASSUME NEW k \in Powers PROVE ScaledError(p, c, m)[k] \in -b .. b
  <2> DEFINE x == Whole(p, At(Phase(p, c, sk), k))
             mk == IF k = 0 THEN m ELSE 0
             rk == r[k]
             qm == IF k = 0 THEN Modulus(p) * m ELSE 0
  <2>1. x \in Int /\ Same(x, rk, q)
    BY WholeAt
  <2>2. PICK e \in Int : IsScaled(t, q, rk, mk, e) /\ -b <= e /\ e <= b
    BY DEF IsMessageWithin
  <2>3. ScaledError(p, c, m)[k] = Nearest0(t * x - qm, t * q)
    BY DEF ScaledError
  <2>4. mk \in Int /\ rk \in Int /\ qm = q * mk
    <3>1. q * 0 = 0
      BY <1>1
    <3> HIDE DEF q
    <3> QED BY <3>1 DEF Polynomials, q
  <2> HIDE DEF x, mk, rk, qm, t, q
  <2>5. IsScaled(t, q, x, mk, e)
    BY <1>1, <2>1, <2>2, <2>4, ScaledReading
  <2>6. PICK u \in Int : t * x = q * (mk + t * u) + e
    BY <2>5 DEF IsScaled
  <2> DEFINE M == t * q
             y == t * x - qm
  <2>7. M \in Nat /\ M > 0
    <3>1. t * q \in Nat /\ t * q > 0
      BY <1>1
    <3> QED BY <3>1
  <2>8. y = e + M * u /\ y \in Int
    <3>1. q * (mk + t * u) = q * mk + (t * q) * u
      BY <1>1, <2>4
    <3>2. q * mk \in Int /\ (t * q) * u \in Int
      BY <1>1, <2>4
    <3> DEFINE a == q * mk
               d == (t * q) * u
    <3>3. t * x = (a + d) + e /\ qm = a /\ a \in Int /\ d \in Int
      BY <2>4, <2>6, <3>1, <3>2
    <3> HIDE DEF a
    <3>4. t * x - qm = e + d /\ t * x - qm \in Int
      <4> HIDE DEF d
      <4> QED BY <3>3
    <3> QED BY <3>4
  <2> HIDE DEF M, y
  <2>9. Same(e, e, M) /\ Same(y, e, M)
    BY <2>7, <2>8, SameReflexive DEF Same
  <2>10. Nearest0(y, M) \in -b .. b
    BY <2>2, <2>7, <2>8, <2>9, NearestIsLeast
  <2> QED BY <2>3, <2>10 DEF M, y
<1> QED BY <1>2 DEF Within

\* With less than half of the modulus, it is the message that is decrypted.
LEMMA DecryptsToMessage ==
  ASSUME NEW p, IsPlan(p), NEW c, NEW r \in Polynomials, Phase(p, c, sk) = InRing(p.main, r),
         NEW m \in 0 .. p.t - 1, NEW b \in Nat, IsMessageWithin(p.t, Modulus(p), r, m, b),
         2 * b < Modulus(p)
  PROVE  Quotient(p.t * Whole(p, At(Phase(p, c, sk), 0)), Modulus(p)) % p.t = m
<1> DEFINE t == p.t
           q == Modulus(p)
           x == Whole(p, At(Phase(p, c, sk), 0))
           rk == r[0]
<1>1. t \in Nat /\ t > 0 /\ q \in Nat /\ q > 0
  <2>1. t \in Nat /\ t > 0
    BY DEF IsPlan
  <2>2. q \in Nat /\ q > 0
    BY PlanNumbers
  <2> QED BY <2>1, <2>2
<1>2. 0 \in Powers
  BY DegreeIs DEF Powers
<1>3. x \in Int /\ Same(x, rk, q)
  BY <1>2, WholeAt
<1>4. PICK e \in Int : IsScaled(t, q, rk, m, e) /\ -b <= e /\ e <= b
  <2>1. \E e \in Int : IsScaled(t, q, rk, IF 0 = 0 THEN m ELSE 0, e) /\ -b <= e /\ e <= b
    BY <1>2 DEF IsMessageWithin
  <2> QED BY <2>1
<1>5. rk \in Int /\ m \in Int /\ m \in 0 .. t - 1 /\ 2 * b < q
  BY <1>1, <1>2 DEF Polynomials
<1> HIDE DEF x, rk, t, q
<1>6. PICK u \in Int : t * x = q * (m + t * u) + e
  <2>1. IsScaled(t, q, x, m, e)
    BY <1>1, <1>3, <1>4, <1>5, ScaledReading
  <2> QED BY <2>1 DEF IsScaled
<1> DEFINE d == 2 * q
           y == m + t * u
           w == 2 * e + q
<1>7. y \in Int /\ d \in Nat /\ d > 0 /\ w \in 0 .. d - 1
  <2>1. y \in Int
    BY <1>1, <1>5
  <2> QED BY <1>1, <1>4, <1>5, <2>1
<1>8. 2 * (t * x) + q = d * y + w
  <2> DEFINE z == q * y
  <2>1. t * x = z + e /\ d * y = 2 * z /\ z \in Int
    <3> HIDE DEF y
    <3>1. q * y \in Int /\ (2 * q) * y = 2 * (q * y)
      BY <1>1, <1>7
    <3> QED BY <1>6, <3>1 DEF y
  <2> HIDE DEF z, y, d
  <2> QED BY <1>1, <1>4, <2>1
<1>9. Quotient(t * x, q) = y
  <2>1. Quotient(t * x, q) = (2 * (t * x) + q) \div d
    BY DEF Quotient
  <2> HIDE DEF d, w, y
  <2>2. (d * y + w) \div d = y
    BY <1>7, QuotientIs
  <2> QED BY <1>8, <2>1, <2>2
<1>10. y % t = m
  <2>1. y = t * u + m
    <3>1. t * u \in Int
      BY <1>1
    <3> QED BY <1>5, <3>1
  <2>2. (t * u + m) % t = m
    BY <1>1, <1>5, QuotientIs
  <2> HIDE DEF y
  <2> QED BY <2>1, <2>2
<1> HIDE DEF y
<1>11. Quotient(t * x, q) % t = m
  BY <1>9, <1>10
<1> QED BY <1>11 DEF t, x, q

\* The error of a fresh ciphertext
FreshError(first, draw, s) ==
  [k \in Powers |-> draw.e1[k] + Negacyclic(draw.e2, s)[k] - Negacyclic(first.error, draw.u)[k]]

\* What it is read as, in the integers
FreshRead(p, first, draw, s, m) ==
  Plus(FreshError(first, draw, s), Constant_(m * (Modulus(p) \div p.t)))

\* The error of a fresh encryption
LEMMA FreshErrorIs ==
  ASSUME NEW first, first.error \in Polynomials, NEW s \in Polynomials,
         NEW draw, draw.u \in Polynomials, draw.e1 \in Polynomials, draw.e2 \in Polynomials
  PROVE  FreshError(first, draw, s) \in Polynomials
<1>1. Negacyclic(draw.e2, s) \in Polynomials /\ Negacyclic(first.error, draw.u) \in Polynomials
  BY NegacyclicIs
<1> DEFINE a == Negacyclic(draw.e2, s)
           b == Negacyclic(first.error, draw.u)
           e == draw.e1
<1>2. a \in Polynomials /\ b \in Polynomials /\ e \in Polynomials
  BY <1>1
<1>3. FreshError(first, draw, s) = [k \in Powers |-> e[k] + a[k] - b[k]]
  BY DEF FreshError
<1> HIDE DEF a, b, e
<1> QED BY <1>2, <1>3 DEF Polynomials

\* What is left of a masked key's product with u, read with s
MaskCancels(mask, error, x, u, e2, s, k) ==
  Negacyclic(Plus(Minus(Plus(Negacyclic(mask, s), error)), x), u)[k]
    + Negacyclic(Plus(Negacyclic(mask, u), e2), s)[k]
  = Negacyclic(e2, s)[k] - Negacyclic(error, u)[k]

\* The reading of a product with the masked public key
LEMMA MasksCancel ==
  ASSUME NEW s \in Polynomials, NEW mask \in Polynomials, NEW error \in Polynomials,
         NEW u \in Polynomials, NEW e2 \in Polynomials, NEW x \in Polynomials,
         \A j \in Powers : x[j] = 0, NEW k \in Powers
  PROVE  MaskCancels(mask, error, x, u, e2, s, k)
<1> DEFINE ms == Negacyclic(mask, s)
           mu == Negacyclic(mask, u)
           a == Plus(ms, error)
           b == Minus(a)
           c == Plus(b, x)
           d == Plus(mu, e2)
<1>1. ms \in Polynomials /\ mu \in Polynomials
  BY NegacyclicIs
<1> HIDE DEF ms, mu
<1>2. a \in Polynomials /\ \A j \in Powers : a[j] = ms[j] + error[j]
  BY <1>1, PlusIs
<1> HIDE DEF a
<1>3. b \in Polynomials /\ \A j \in Powers : b[j] = -a[j]
  BY <1>2, MinusIs
<1> HIDE DEF b
<1>4. c \in Polynomials /\ \A j \in Powers : c[j] = b[j] + x[j]
  BY <1>3, PlusIs
<1> HIDE DEF c
<1>5. Combines(c, -1, ms, -1, error)
  <2>1. ASSUME NEW j \in Powers PROVE c[j] = (-1) * ms[j] + (-1) * error[j]
    <3>1. ms[j] \in Int /\ error[j] \in Int /\ c[j] = b[j] + 0 /\ b[j] = -(ms[j] + error[j])
      BY <1>1, <1>2, <1>3, <1>4 DEF Polynomials
    <3> QED BY <3>1
  <2> QED BY <2>1 DEF Combines
<1>6. Combines(Negacyclic(c, u), -1, Negacyclic(ms, u), -1, Negacyclic(error, u))
  <2>1. -1 \in Int
    OBVIOUS
  <2> QED BY <1>1, <1>4, <1>5, <2>1, ProductIsLinear
<1>7. Negacyclic(d, s)[k] = Negacyclic(mu, s)[k] + Negacyclic(e2, s)[k]
  BY <1>1, ProductOfPlus
<1>8. Negacyclic(ms, u) = Negacyclic(mu, s)
  <2>1. Negacyclic(Negacyclic(mask, s), u) = Negacyclic(mask, Negacyclic(s, u))
    BY NegacyclicAssociates
  <2>2. Negacyclic(Negacyclic(mask, u), s) = Negacyclic(mask, Negacyclic(u, s))
    BY NegacyclicAssociates
  <2>3. Negacyclic(s, u) = Negacyclic(u, s)
    BY NegacyclicCommutes
  <2> QED BY <2>1, <2>2, <2>3 DEF ms, mu
<1> DEFINE y == Negacyclic(mu, s)[k]
           z == Negacyclic(error, u)[k]
           w == Negacyclic(e2, s)[k]
<1>9. y \in Int /\ z \in Int /\ w \in Int
  <2>1. Negacyclic(mu, s) \in Polynomials /\ Negacyclic(error, u) \in Polynomials
        /\ Negacyclic(e2, s) \in Polynomials
    BY <1>1, NegacyclicIs
  <2> QED BY <2>1 DEF Polynomials
<1>10. Negacyclic(c, u)[k] = (-1) * y + (-1) * z
  BY <1>6, <1>8 DEF Combines
<1>11. Negacyclic(d, s)[k] = y + w
  BY <1>7
<1> HIDE DEF y, z, w, d
<1>12. Negacyclic(c, u)[k] + Negacyclic(d, s)[k] = w - z
  BY <1>9, <1>10, <1>11
<1> QED BY <1>12 DEF a, b, c, d, ms, mu, w, z, MaskCancels

\* A fresh ciphertext, read with the secret
LEMMA FreshReads ==
  ASSUME NEW p, IsPlan(p), NEW s \in Polynomials,
         NEW first, first.mask \in Polynomials, first.error \in Polynomials,
         NEW draw, draw.u \in Polynomials, draw.e1 \in Polynomials, draw.e2 \in Polynomials,
         NEW m \in Int
  PROVE  LET public == Masked(p, Signed(p.main, s), first, InRing(p.main, [k \in Powers |-> 0]))
         IN  /\ FreshRead(p, first, draw, s, m) \in Polynomials
             /\ Phase(p, Ciphertext(p, public, m, draw), s)
                  = InRing(p.main, FreshRead(p, first, draw, s, m))
<1> DEFINE main == p.main
           P == [1 .. Len(main) -> Polynomials]
           none == [k \in Powers |-> 0]
           zero == InRing(main, none)
           sl == Signed(main, s)
           public == Masked(p, sl, first, zero)
           p1 == public[1]
           p2 == public[2]
           u == draw.u
           e1 == draw.e1
           e2 == draw.e2
           ul == Signed(main, u)
           e1l == Signed(main, e1)
           e2l == Signed(main, e2)
           amount == m * (Modulus(p) \div p.t)
           scaled == Constant_(amount)
           sc == InRing(main, scaled)
           x1 == RingMul(main, p1, ul)
           x2 == RingAdd(main, x1, e1l)
           c1 == RingAdd(main, x2, sc)
           y1 == RingMul(main, p2, ul)
           c2 == RingAdd(main, y1, e2l)
           z == RingMul(main, c2, sl)
           left == RingAdd(main, c1, z)
           reading == FreshRead(p, first, draw, s, m)
           right == InRing(main, reading)
<1>1. MainModuli(main) /\ main \in Seq(Nat \ {0}) /\ DOMAIN main = 1 .. Len(main)
  BY DEF IsPlan, MainModuli
<1>2. none \in Polynomials
  BY DEF Polynomials
<1>3. /\ sl \in P /\ ul \in P /\ e1l \in P /\ e2l \in P /\ zero \in P
      /\ \A l \in DOMAIN main :
           /\ Agree(sl[l], s, main[l]) /\ Agree(ul[l], u, main[l]) /\ Agree(e1l[l], e1, main[l])
           /\ Agree(e2l[l], e2, main[l]) /\ Agree(zero[l], none, main[l])
  <2> HIDE DEF none
  <2> QED BY <1>1, <1>2, SignedIsInRing
<1>4. amount \in Int
  <2>1a. p.t \in Nat /\ p.t > 0
    BY DEF IsPlan
  <2>1b. Modulus(p) \in Nat
    BY PlanNumbers
  <2>1. Modulus(p) \in Nat /\ p.t \in Nat /\ p.t > 0
    BY <2>1a, <2>1b
  <2> DEFINE q == Modulus(p)
             t == p.t
             d == q \div t
  <2> HIDE DEF q, t
  <2>2. d \in Int
    BY <2>1, Division DEF q, t
  <2> HIDE DEF d
  <2>3. m * d \in Int
    BY <2>2
  <2> QED BY <2>3 DEF d, q, t
<1>5. scaled \in Polynomials
  <2> HIDE DEF amount
  <2> QED BY <1>2, <1>4, ConstantIs
<1>6. sc \in P /\ \A l \in DOMAIN main : Agree(sc[l], scaled, main[l])
  <2> HIDE DEF scaled
  <2> QED BY <1>1, <1>5, SignedIsInRing
<1>7. IsElement(sl, main)
  BY <1>1, SignedIs
<1>8. p1 \in P /\ p2 \in P
  <2> HIDE DEF sl, zero
  <2>1. IsCiphertext(public, main)
    BY <1>1, <1>3, <1>7, MaskedIs
  <2>2. IsElement(p1, main) /\ IsElement(p2, main)
    BY <2>1 DEF IsCiphertext
  <2> HIDE DEF public
  <2> QED BY <2>2, ElementsAre
<1>9. ASSUME NEW l \in DOMAIN main
      PROVE  /\ Agree(p2[l], first.mask, main[l])
             /\ Agree(p1[l], Plus(Minus(Plus(Negacyclic(first.mask, s), first.error)), none), main[l])
  <2> HIDE DEF zero, none
  <2> QED BY <1>1, <1>2, <1>3, MaskedLanes
<1> HIDE DEF zero, public, p1, p2, ul, e1l, e2l, sl, sc, P, none
<1>10. x1 \in P /\ y1 \in P
  BY <1>1, <1>3, <1>8, RingMulIs, ElementsAre DEF P
<1> HIDE DEF x1, y1
<1>11. x2 \in P /\ c2 \in P
  BY <1>1, <1>3, <1>10, RingAddIs, ElementsAre DEF P
<1> HIDE DEF x2, c2
<1>12. c1 \in P /\ z \in P
  <2>1. c1 \in P
    BY <1>1, <1>6, <1>11, RingAddIs, ElementsAre DEF P
  <2>2. z \in P
    BY <1>1, <1>3, <1>11, RingMulIs, ElementsAre DEF P
  <2> QED BY <2>1, <2>2
<1> HIDE DEF c1, z
<1>13. IsElement(left, main)
  BY <1>1, <1>12, RingAddIs DEF P
<1>14. /\ reading \in Polynomials
       /\ \A k \in Powers : reading[k] = FreshError(first, draw, s)[k] + scaled[k]
  <2> DEFINE fe == FreshError(first, draw, s)
  <2>1. fe \in Polynomials
    BY FreshErrorIs
  <2> HIDE DEF fe, scaled
  <2>2. Plus(fe, scaled) \in Polynomials /\ \A k \in Powers : Plus(fe, scaled)[k] = fe[k] + scaled[k]
    BY <1>5, <2>1, PlusIs
  <2> QED BY <2>2 DEF FreshRead, fe, scaled
<1>15. IsElement(right, main) /\ \A l \in DOMAIN main : Agree(right[l], reading, main[l])
  <2> HIDE DEF reading
  <2>1. IsElement(right, main)
    BY <1>1, <1>14, InRingIs
  <2>2. \A l \in DOMAIN main : Agree(right[l], reading, main[l])
    BY <1>1, <1>14, SignedIsInRing
  <2> QED BY <2>1, <2>2
<1> DEFINE P1 == Plus(Minus(Plus(Negacyclic(first.mask, s), first.error)), none)
           X1 == Negacyclic(P1, u)
           X2 == Plus(X1, e1)
           C1 == Plus(X2, scaled)
           Y1 == Negacyclic(first.mask, u)
           C2 == Plus(Y1, e2)
           Z == Negacyclic(C2, s)
           W == Plus(C1, Z)
<1>16. P1 \in Polynomials
  <2> DEFINE a == Negacyclic(first.mask, s)
             b == Plus(a, first.error)
             c == Minus(b)
  <2>1. a \in Polynomials
    BY NegacyclicIs
  <2> HIDE DEF a
  <2>2. b \in Polynomials
    BY <2>1, PlusIs
  <2> HIDE DEF b
  <2>3. c \in Polynomials
    BY <2>2, MinusIs
  <2> HIDE DEF c
  <2>4. Plus(c, none) \in Polynomials
    BY <1>2, <2>3, PlusIs
  <2> QED BY <2>4 DEF a, b, c
<1>17. \A k \in Powers : X1[k] + Z[k] = Negacyclic(e2, s)[k] - Negacyclic(first.error, u)[k]
  <2>1. \A k \in Powers : none[k] = 0
    BY DEF none
  <2>2. ASSUME NEW k \in Powers
        PROVE  X1[k] + Z[k] = Negacyclic(e2, s)[k] - Negacyclic(first.error, u)[k]
    <3> HIDE DEF none
    <3>1. MaskCancels(first.mask, first.error, none, u, e2, s, k)
      BY <1>2, <2>1, MasksCancel
    <3> QED BY <3>1 DEF MaskCancels
  <2> QED BY <2>2
<1> HIDE DEF P1, scaled, left, right, reading
<1>18. X1 \in Polynomials /\ Y1 \in Polynomials
  BY <1>16, NegacyclicIs
<1> HIDE DEF X1, Y1
<1>19. /\ X2 \in Polynomials /\ C2 \in Polynomials
       /\ \A k \in Powers : X2[k] = X1[k] + e1[k]
  BY <1>18, PlusIs
<1> HIDE DEF X2, C2
<1>20. /\ C1 \in Polynomials /\ Z \in Polynomials
       /\ \A k \in Powers : C1[k] = X2[k] + scaled[k]
  BY <1>5, <1>19, PlusIs, NegacyclicIs
<1> HIDE DEF C1, Z
<1>21. W \in Polynomials /\ \A k \in Powers : W[k] = C1[k] + Z[k]
  BY <1>20, PlusIs
<1> HIDE DEF W
<1>22. W = reading
  <2>1. ASSUME NEW k \in Powers PROVE W[k] = reading[k]
    <3> DEFINE es == Negacyclic(e2, s)[k]
               eu == Negacyclic(first.error, u)[k]
    <3>1. FreshError(first, draw, s)[k] = e1[k] + es - eu
      BY DEF FreshError
    <3>2. es \in Int /\ eu \in Int
      <4>1. Negacyclic(e2, s) \in Polynomials /\ Negacyclic(first.error, u) \in Polynomials
        BY NegacyclicIs
      <4> QED BY <4>1 DEF Polynomials
    <3>3. X1[k] \in Int /\ Z[k] \in Int /\ e1[k] \in Int /\ scaled[k] \in Int
      BY <1>5, <1>18, <1>20 DEF Polynomials
    <3>4. X1[k] + Z[k] = es - eu
      BY <1>17
    <3> HIDE DEF es, eu
    <3>5. /\ W[k] = C1[k] + Z[k] /\ C1[k] = X2[k] + scaled[k] /\ X2[k] = X1[k] + e1[k]
          /\ reading[k] = FreshError(first, draw, s)[k] + scaled[k]
      BY <1>14, <1>19, <1>20, <1>21
    <3> QED BY <3>1, <3>2, <3>3, <3>4, <3>5
  <2> QED BY <1>14, <1>21, <2>1, SamePolynomial
<1> HIDE DEF main
<1>23. ASSUME NEW l \in DOMAIN main PROVE Agree(left[l], right[l], main[l])
  <2>1. Agree(x1[l], X1, main[l])
    BY <1>1, <1>3, <1>8, <1>9, <1>16, RingLanes DEF x1, X1, P, P1, main
  <2>2. Agree(y1[l], Y1, main[l])
    BY <1>1, <1>3, <1>8, <1>9, RingLanes DEF y1, Y1, P, main
  <2>3. Agree(x2[l], X2, main[l])
    BY <1>1, <1>3, <1>10, <1>18, <2>1, RingLanes DEF x2, X2, P
  <2>4. Agree(c2[l], C2, main[l])
    BY <1>1, <1>3, <1>10, <1>18, <2>2, RingLanes DEF c2, C2, P
  <2>5. Agree(c1[l], C1, main[l])
    BY <1>1, <1>5, <1>6, <1>11, <1>19, <2>3, RingLanes DEF c1, C1, P
  <2>6. Agree(z[l], Z, main[l])
    BY <1>1, <1>3, <1>11, <1>19, <2>4, RingLanes DEF z, Z, P
  <2>7. Agree(left[l], W, main[l])
    BY <1>1, <1>12, <1>20, <2>5, <2>6, RingLanes DEF left, W, P
  <2> DEFINE ll == left[l]
             rl == right[l]
             n == main[l]
  <2>8. ll \in Polynomials /\ rl \in Polynomials /\ n \in Int /\ Agree(ll, W, n) /\ Agree(rl, W, n)
    BY <1>1, <1>13, <1>15, <1>22, <2>7 DEF IsElement
  <2> HIDE DEF ll, rl, n
  <2>9. Agree(W, rl, n)
    BY <1>21, <2>8, AgreeIsEquivalence
  <2>10. Agree(ll, rl, n)
    BY <1>21, <2>8, <2>9, AgreeIsEquivalence
  <2> QED BY <2>10 DEF ll, rl, n
<1>24. left = right
  BY <1>1, <1>13, <1>15, <1>23, ElementsAreEqual
<1>25. Phase(p, Ciphertext(p, public, m, draw), s) = left
  BY DEF Phase, Ciphertext, left, c1, c2, x1, x2, y1, z, sl, ul, e1l, e2l, sc, scaled, Constant_, main, p1, p2
<1> QED BY <1>14, <1>24, <1>25 DEF right, reading, public, zero, none, main, sl

\* What the certified model allows a fresh ciphertext
FreshBoundOf(p) == p.t * ((2 * N + 1) * Eta) + (Modulus(p) % p.t) * (p.t - 1)

\* The error of a fresh ciphertext in the units of the bound
FreshScaled(p, first, draw, s, m) ==
  [k \in Powers |->
     p.t * FreshError(first, draw, s)[k] - (Modulus(p) % p.t) * (IF k = 0 THEN m ELSE 0)]

\* Its size
LEMMA FreshErrorIsBounded ==
  ASSUME NEW first, first.error \in Polynomials, Bounded(first.error, Eta),
         NEW s \in Polynomials, Bounded(s, 1),
         NEW draw, draw.u \in Polynomials, Bounded(draw.u, 1),
         draw.e1 \in Polynomials, Bounded(draw.e1, Eta),
         draw.e2 \in Polynomials, Bounded(draw.e2, Eta)
  PROVE  Bounded(FreshError(first, draw, s), (2 * N + 1) * Eta)
<1> DEFINE a == Negacyclic(draw.e2, s)
           b == Negacyclic(first.error, draw.u)
           e == draw.e1
           c == (Eta * 1) * N
<1>1. Eta \in Nat /\ N \in Nat
  BY DegreeIs, ExactMultiplicationAssumption
<1>2. a \in Polynomials /\ b \in Polynomials
  BY NegacyclicIs
<1>3. 1 \in Nat
  OBVIOUS
<1>4. Bounded(a, c)
  BY <1>1, <1>3, NegacyclicIsBounded
<1>5. Bounded(b, c)
  BY <1>1, <1>3, NegacyclicIsBounded
<1>6. e \in Polynomials /\ Bounded(e, Eta)
  OBVIOUS
<1>7. \A k \in Powers : FreshError(first, draw, s)[k] = e[k] + a[k] - b[k]
  BY DEF FreshError
<1> DEFINE d == (2 * N + 1) * Eta
<1>8. c \in Nat /\ d = c + c + Eta
  BY <1>1
<1> HIDE DEF a, b, c, d, e
<1>9. ASSUME NEW k \in Powers
      PROVE  -d <= FreshError(first, draw, s)[k] /\ FreshError(first, draw, s)[k] <= d
  <2>1. a[k] \in Int /\ b[k] \in Int /\ e[k] \in Int
    BY <1>2, <1>6 DEF Polynomials
  <2>2. -c <= a[k] /\ a[k] <= c /\ -c <= b[k] /\ b[k] <= c /\ -Eta <= e[k] /\ e[k] <= Eta
    BY <1>4, <1>5, <1>6 DEF Bounded
  <2>3. FreshError(first, draw, s)[k] = e[k] + a[k] - b[k]
    BY <1>7
  <2> QED BY <1>1, <1>8, <2>1, <2>2, <2>3
<1>10. Bounded(FreshError(first, draw, s), d)
  BY <1>9 DEF Bounded
<1> QED BY <1>10 DEF d

\* The error of a fresh ciphertext in those units: what the message times
\* q less its multiple of the plaintext modulus leaves comes on top.
LEMMA FreshScaledIs ==
  ASSUME NEW p, IsPlan(p),
         NEW first, first.error \in Polynomials, Bounded(first.error, Eta),
         NEW s \in Polynomials, Bounded(s, 1),
         NEW draw, draw.u \in Polynomials, Bounded(draw.u, 1),
         draw.e1 \in Polynomials, Bounded(draw.e1, Eta),
         draw.e2 \in Polynomials, Bounded(draw.e2, Eta), NEW m \in 0 .. p.t - 1
  PROVE  /\ FreshBoundOf(p) \in Nat
         /\ FreshScaled(p, first, draw, s, m) \in Polynomials
         /\ Bounded(FreshScaled(p, first, draw, s, m), FreshBoundOf(p))
         /\ IsReading(p.t, FreshRead(p, first, draw, s, m), Modulus(p), Constant_(m),
                      FreshScaled(p, first, draw, s, m))
<1> DEFINE t == p.t
           q == Modulus(p)
           d == q \div t
           r == q % t
           fe == FreshError(first, draw, s)
           fs == FreshScaled(p, first, draw, s, m)
           fr == FreshRead(p, first, draw, s, m)
           b == (2 * N + 1) * Eta
           bound == FreshBoundOf(p)
<1>1a. t \in Nat /\ t > 0
  BY DEF IsPlan
<1>1b. q \in Nat
  BY PlanNumbers
<1>2. fe \in Polynomials
  BY FreshErrorIs
<1>3. Bounded(fe, b)
  BY FreshErrorIsBounded
<1>4. fs = [k \in Powers |-> t * fe[k] - r * (IF k = 0 THEN m ELSE 0)]
  BY DEF FreshScaled
<1>5. bound = t * b + r * (t - 1)
  BY DEF FreshBoundOf
<1>6. b \in Nat
  BY DegreeIs, ExactMultiplicationAssumption
<1>7. \A k \in Powers : fr[k] = fe[k] + (IF k = 0 THEN m * d ELSE 0)
  BY DEF FreshRead, Plus, Constant_, Computed
<1>8. m \in 0 .. t - 1
  OBVIOUS
<1> HIDE DEF t, q, fe, b, fs, fr, bound
<1>9. d \in Int /\ r \in 0 .. t - 1 /\ q = t * d + r
  BY <1>1a, <1>1b, Division
<1> HIDE DEF d, r
<1>10. r * (t - 1) \in Nat /\ t * b \in Nat /\ bound \in Nat
  BY <1>1a, <1>5, <1>6, <1>9
<1> DEFINE rt == r * (t - 1)
           tb == t * b
<1>11. ASSUME NEW k \in Powers
       PROVE  LET x == t * fe[k] - r * (IF k = 0 THEN m ELSE 0)
              IN  /\ x \in Int /\ -bound <= x /\ x <= bound
                  /\ t * fr[k] = q * Constant_(m)[k] + x
  <2> DEFINE f == fe[k]
             mk == IF k = 0 THEN m ELSE 0
             tf == t * f
             rm == r * mk
  <2>1. f \in Int /\ -b <= f /\ f <= b
    BY <1>2, <1>3 DEF Polynomials, Bounded
  <2>2. mk \in 0 .. t - 1 /\ Constant_(m)[k] = mk
    BY <1>1a, <1>8 DEF Constant_
  <2>3. fr[k] = f + mk * d
    BY <1>7, <1>9
  <2> HIDE DEF f, mk
  <2>4. tf \in Int /\ -tb <= tf /\ tf <= tb
    <3>1. t \in Int /\ -t <= t /\ t <= t
      BY <1>1a
    <3> QED BY <1>1a, <1>6, <2>1, <3>1, ProductIsBounded
  <2>5. rm \in Nat /\ rm <= rt
    <3>1. r * mk \in Nat
      BY <1>9, <2>2
    <3>2. r * (t - 1 - mk) \in Nat
      BY <1>9, <2>2, <1>1a
    <3>3. r * (t - 1) = r * mk + r * (t - 1 - mk)
      BY <1>9, <2>2, <1>1a
    <3> DEFINE u == r * (t - 1 - mk)
    <3> HIDE DEF u
    <3>4. rt = rm + u /\ u \in Nat /\ rm \in Nat
      BY <3>1, <3>2, <3>3 DEF u
    <3> QED BY <1>10, <3>4
  <2>6. t * (f + mk * d) = q * mk + (tf - rm)
    <3>1. mk \in Int /\ d \in Int /\ r \in Int /\ t \in Int
      BY <1>1a, <1>9, <2>2
    <3>2. q * mk = t * (mk * d) + r * mk
      <4>1. q * mk = (t * d + r) * mk
        BY <1>9
      <4>2. (t * d + r) * mk = t * (mk * d) + r * mk
        BY <3>1
      <4> QED BY <4>1, <4>2
    <3>3. t * (f + mk * d) = t * f + t * (mk * d)
      BY <2>1, <3>1
    <3> DEFINE u == t * (mk * d)
    <3>4. u \in Int
      BY <3>1
    <3> HIDE DEF u
    <3>5. t * (f + mk * d) = tf + u /\ q * mk = u + rm
      BY <3>2, <3>3 DEF u
    <3> QED BY <2>4, <2>5, <3>4, <3>5
  <2> DEFINE x == tf - rm
  <2>7. x \in Int /\ -bound <= x /\ x <= bound
    <3>1. rt \in Nat /\ tb \in Nat /\ bound = tb + rt
      BY <1>5, <1>10
    <3> HIDE DEF rt, tb, tf, rm
    <3> QED BY <2>4, <2>5, <3>1
  <2> QED BY <2>2, <2>3, <2>6, <2>7 DEF f, mk
<1>12. fs \in Polynomials /\ Bounded(fs, bound)
  BY <1>4, <1>11 DEF Polynomials, Bounded
<1>13. IsReading(t, fr, q, Constant_(m), fs)
  BY <1>4, <1>11 DEF IsReading
<1> QED BY <1>10, <1>12, <1>13 DEF t, q, fr, fs, bound

\* A reading is its message, but for its error
LEMMA ReadingIsWithin ==
  ASSUME NEW t \in Int, NEW q \in Int, NEW r \in Polynomials, NEW m \in Int,
         NEW x \in Polynomials, NEW b \in Nat, Bounded(x, b),
         IsReading(t, r, q, Constant_(m), x)
  PROVE  IsMessageWithin(t, q, r, m, b)
<1>1. ASSUME NEW k \in Powers
      PROVE  IsScaled(t, q, r[k], IF k = 0 THEN m ELSE 0, x[k]) /\ x[k] \in Int
             /\ -b <= x[k] /\ x[k] <= b
  <2> DEFINE mk == IF k = 0 THEN m ELSE 0
  <2>1. x[k] \in Int /\ mk \in Int /\ -b <= x[k] /\ x[k] <= b
    BY DEF Polynomials, Bounded
  <2>2. t * r[k] = q * mk + x[k]
    BY DEF IsReading, Constant_
  <2>3. mk + t * 0 = mk
    BY <2>1
  <2>4. t * r[k] = q * (mk + t * 0) + x[k]
    BY <2>2, <2>3
  <2>5. IsScaled(t, q, r[k], mk, x[k])
    BY <2>4 DEF IsScaled
  <2> QED BY <2>1, <2>5
<1> QED BY <1>1 DEF IsMessageWithin

\* A ciphertext's lifts, read with the secret
LiftsRead(p, c, s) == Plus(Lift(p, c[1]), Negacyclic(Lift(p, c[2]), s))

\* Such a reading of a message with an error of at most f
IsOperand(p, c, s, m, f) ==
  \E w \in Polynomials, x \in Polynomials :
    /\ Bounded(w, N \div 2 + 1) /\ Bounded(x, f)
    /\ IsReading(p.t, LiftsRead(p, c, s), Modulus(p), Mix(1, Constant_(m), p.t, w), x)

\* What the lifts of a ciphertext read as, its size, and its residues
LEMMA LiftsReadIs ==
  ASSUME NEW p, IsPlan(p), NEW c, IsCiphertext(c, p.main), NEW s \in Polynomials, Bounded(s, 1),
         NEW g \in Nat, OddFrom(Modulus(p), g)
  PROVE  /\ Lift(p, c[1]) \in Polynomials /\ Lift(p, c[2]) \in Polynomials
         /\ LiftsRead(p, c, s) \in Polynomials
         /\ Bounded(LiftsRead(p, c, s), g + g * N)
         /\ Phase(p, c, s) = InRing(p.main, LiftsRead(p, c, s))
<1> DEFINE main == p.main
           a == Lift(p, c[1])
           b == Lift(p, c[2])
           bs == Negacyclic(b, s)
<1>1. IsElement(c[1], main) /\ IsElement(c[2], main)
  BY DEF IsCiphertext
<1>2. (Product(main) - 1) \div 2 = g
  <2>1. Product(main) = 2 * g + 1
    BY PlanNumbers DEF OddFrom
  <2> QED BY <2>1
<1>3. a \in Polynomials /\ Bounded(a, g) /\ InRing(main, a) = c[1]
  BY <1>1, <1>2, LiftIs
<1>4. b \in Polynomials /\ Bounded(b, g) /\ InRing(main, b) = c[2]
  BY <1>1, <1>2, LiftIs
<1>5. main \in Seq(Nat \ {0})
  BY DEF IsPlan, MainModuli
<1>6. N \in Nat
  BY DegreeIs
<1> HIDE DEF a, b
<1>7. bs \in Polynomials
  BY <1>4, NegacyclicIs
<1>8. Bounded(bs, (g * 1) * N)
  <2>1. 1 \in Nat
    OBVIOUS
  <2> QED BY <1>4, <2>1, NegacyclicIsBounded
<1>9. (g * 1) * N = g * N /\ g * N \in Nat
  BY <1>6
<1>10. Signed(main, s) = InRing(main, s)
  BY <1>5, SignedIsInRing
<1>11. RingMul(main, InRing(main, b), InRing(main, s)) = InRing(main, bs)
  BY <1>4, <1>5, RingMulOf
<1> HIDE DEF bs
<1>12. Plus(a, bs) \in Polynomials
  BY <1>3, <1>7, PlusIs
<1>13. Bounded(Plus(a, bs), g + g * N)
  <2> DEFINE gn == g * N
  <2>1. gn \in Nat /\ Bounded(bs, gn)
    BY <1>8, <1>9
  <2> HIDE DEF gn
  <2>2. Bounded(Plus(a, bs), g + gn)
    BY <1>3, <1>7, <2>1, PlusIsBounded
  <2> QED BY <2>2 DEF gn
<1>14. RingAdd(main, InRing(main, a), InRing(main, bs)) = InRing(main, Plus(a, bs))
  BY <1>3, <1>5, <1>7, RingAddOf
<1>15. Phase(p, c, s) = InRing(main, Plus(a, bs))
  BY <1>3, <1>4, <1>10, <1>11, <1>14 DEF Phase
<1> QED BY <1>3, <1>4, <1>12, <1>13, <1>15 DEF LiftsRead, a, b, bs

\* A ciphertext that is read as a message is an operand, with the message
\* nearest to zero for the message.
LEMMA OperandOf ==
  ASSUME NEW p, IsPlan(p), NEW c, IsCiphertext(c, p.main), NEW s \in Polynomials, Bounded(s, 1),
         NEW g \in Nat, OddFrom(Modulus(p), g), NEW d \in Nat, OddFrom(p.t, d),
         NEW r \in Polynomials, Phase(p, c, s) = InRing(p.main, r),
         NEW f \in Nat, f <= g, NEW x \in Polynomials, Bounded(x, f),
         NEW m \in Int, IsReading(p.t, r, Modulus(p), Constant_(m), x),
         NEW o \in Int, IsCentered(o, d), Same(m, o, p.t)
  PROVE  IsOperand(p, c, s, o, f)
<1> DEFINE l == LiftsRead(p, c, s)
           q == Modulus(p)
           t == p.t
           h == N \div 2
<1>1. l \in Polynomials /\ Bounded(l, g + g * N) /\ InRing(p.main, l) = InRing(p.main, r)
  BY LiftsReadIs
<1>2. t \in Nat /\ q \in Nat
  <2>1. t \in Nat
    BY DEF IsPlan
  <2>2. q \in Nat
    BY PlanNumbers
  <2> QED BY <2>1, <2>2
<1>3. h \in Nat
  BY DegreeIs
<1>0. PICK z \in Int : m = o + t * z
  BY DEF Same
<1> HIDE DEF l
<1>4. \A k \in Powers : Same(l[k], r[k], q)
  BY <1>1, InRingTells
<1> DEFINE K(k) == CHOOSE j \in Int : l[k] = r[k] + q * j
           w == [k \in Powers |-> K(k) + (IF k = 0 THEN z ELSE 0)]
<1>5. ASSUME NEW k \in Powers PROVE K(k) \in Int /\ l[k] = r[k] + q * K(k)
  <2>1. \E j \in Int : l[k] = r[k] + q * j
    BY <1>4 DEF Same
  <2> HIDE DEF q
  <2> QED BY <2>1
<1> HIDE DEF K
<1>6. w \in Polynomials
  BY <1>5 DEF Polynomials
<1>7. ASSUME NEW k \in Powers
      PROVE  t * l[k] = q * ((IF k = 0 THEN o ELSE 0) + t * w[k]) + x[k]
  <2> DEFINE mk == IF k = 0 THEN m ELSE 0
             ok == IF k = 0 THEN o ELSE 0
             zk == IF k = 0 THEN z ELSE 0
             rk == r[k]
             xk == x[k]
             j == K(k)
  <2>1. t * rk = q * mk + xk
    BY DEF IsReading, Constant_
  <2>2. rk \in Int /\ xk \in Int /\ j \in Int /\ l[k] = rk + q * j /\ w[k] = j + zk
    BY <1>5 DEF Polynomials
  <2>3. mk = ok + t * zk /\ mk \in Int /\ ok \in Int /\ zk \in Int
    BY <1>0, <1>2
  <2> HIDE DEF q, t, mk, ok, zk, rk, xk, j, w
  <2>4. t * (rk + q * j) = t * rk + q * (t * j)
    BY <1>2, <2>2
  <2>5. q * (ok + t * (j + zk)) = q * (ok + t * zk) + q * (t * j)
    BY <1>2, <2>2, <2>3
  <2> DEFINE u == q * (t * j)
             v == q * mk
  <2>6. u \in Int /\ v \in Int
    BY <1>2, <2>2, <2>3
  <2>7. q * (ok + t * (j + zk)) = v + u
    BY <2>3, <2>5
  <2>8. t * (rk + q * j) = v + xk + u
    BY <2>1, <2>4
  <2> HIDE DEF u, v
  <2>9. t * l[k] = q * (ok + t * w[k]) + xk
    BY <2>2, <2>6, <2>7, <2>8
  <2> QED BY <2>9 DEF ok, xk
<1>8. Bounded(x, g)
  <2>1. ASSUME NEW k \in Powers PROVE -g <= x[k] /\ x[k] <= g
    <3>1. x[k] \in Int /\ -f <= x[k] /\ x[k] <= f
      BY DEF Bounded, Polynomials
    <3> QED BY <3>1
  <2> QED BY <2>1 DEF Bounded
<1> DEFINE b == g + g * N
           u == h + 1
<1>9. b \in Nat /\ u \in Nat /\ b = g + g * N /\ u = N \div 2 + 1 /\ Bounded(l, b)
  <2>1. N \in Nat
    BY DegreeIs
  <2>2. g * N \in Nat
    BY <2>1
  <2> QED BY <1>1, <1>3, <2>2
<1> HIDE DEF w, h, b, u
<1>10. Bounded(w, u) /\ IsReading(t, l, q, Mix(1, Constant_(o), t, w), x)
  <2>1. OddFrom(q, g) /\ OddFrom(t, d)
    OBVIOUS
  <2>2. Wraps(t, l, q, o, w, x)
    BY <1>7 DEF Wraps
  <2> HIDE DEF q, t
  <2>3. l \in Polynomials /\ w \in Polynomials
    BY <1>1, <1>6
  <2> QED BY <1>2, <1>8, <1>9, <2>1, <2>2, <2>3, OperandReads
<1> QED BY <1>6, <1>10 DEF IsOperand, l, h, u

\* What an exact product is read as before it is folded
TensorRead(p, a, b, s) ==
  LET part(i) == Quotients(p, WholeTensor(Lifts(p, a), Lifts(p, b))[i])
  IN  ReadOf(part(1), part(2), part(3), s)

\* The reading of three components
LEMMA ReadOfIs ==
  ASSUME NEW e1 \in Polynomials, NEW e2 \in Polynomials, NEW e3 \in Polynomials,
         NEW s \in Polynomials
  PROVE  ReadOf(e1, e2, e3, s) \in Polynomials
<1> DEFINE x == Negacyclic(e2, s)
           ss == Negacyclic(s, s)
           y == Negacyclic(e3, ss)
<1>1. x \in Polynomials /\ ss \in Polynomials
  BY NegacyclicIs
<1> HIDE DEF ss
<1>2. y \in Polynomials
  BY <1>1, NegacyclicIs
<1>3. ReadOf(e1, e2, e3, s) = [k \in Powers |-> e1[k] + x[k] + y[k]]
  BY DEF ReadOf, ss
<1> HIDE DEF x, y
<1> QED BY <1>1, <1>2, <1>3 DEF Polynomials

\* A rounded quotient is close to what was divided.
LEMMA QuotientsAreNear ==
  ASSUME NEW p, IsPlan(p), NEW g \in Nat, OddFrom(Modulus(p), g), NEW w \in Polynomials
  PROVE  IsNear(Modulus(p), Quotients(p, w), p.t, w, g)
<1> DEFINE q == Modulus(p)
           t == p.t
<1>1. q \in Nat /\ q = 2 * g + 1
  BY PlanNumbers DEF OddFrom
<1>2. t \in Nat
  BY DEF IsPlan
<1>3. \A k \in Powers : Quotients(p, w)[k] = Quotient(t * w[k], q)
  BY DEF Quotients
<1> HIDE DEF q, t
<1>4. ASSUME NEW k \in Powers
      PROVE  /\ -g <= q * Quotients(p, w)[k] - t * w[k]
             /\ q * Quotients(p, w)[k] - t * w[k] <= g
  <2> DEFINE x == t * w[k]
  <2>1. x \in Int
    <3>1. w[k] \in Int
      BY DEF Polynomials
    <3> QED BY <1>2, <3>1
  <2> HIDE DEF x
  <2>2. -g <= q * Quotient(x, q) - x /\ q * Quotient(x, q) - x <= g
    BY <1>1, <2>1, QuotientLeaves
  <2> QED BY <1>3, <2>2 DEF x
<1>5. IsNear(q, Quotients(p, w), t, w, g)
  BY <1>4 DEF IsNear
<1> QED BY <1>5 DEF q, t

\* The exact product of two operands is read as the product of their messages.
LEMMA ProductReads ==
  ASSUME NEW p, IsPlan(p), NEW g \in Nat, OddFrom(Modulus(p), g), NEW d \in Nat, OddFrom(p.t, d),
         NEW s \in Polynomials, Bounded(s, 1), NEW f \in Nat, f <= g,
         NEW a, IsCiphertext(a, p.main), NEW b, IsCiphertext(b, p.main),
         NEW m1 \in Int, IsCentered(m1, d), NEW m2 \in Int, IsCentered(m2, d),
         IsOperand(p, a, s, m1, f), IsOperand(p, b, s, m2, f)
  PROVE  /\ TensorRead(p, a, b, s) \in Polynomials
         /\ IsMessageWithin(p.t, Modulus(p), TensorRead(p, a, b, s), m1 * m2,
                            ProductBoundOf(p.t, d, f))
<1> DEFINE q == Modulus(p)
           t == p.t
           a1 == Lift(p, a[1])
           a2 == Lift(p, a[2])
           b1 == Lift(p, b[1])
           b2 == Lift(p, b[2])
           u1 == Negacyclic(a1, b1)
           u2 == Plus(Negacyclic(a1, b2), Negacyclic(a2, b1))
           u3 == Negacyclic(a2, b2)
           e1 == Quotients(p, u1)
           e2 == Quotients(p, u2)
           e3 == Quotients(p, u3)
           read == TensorRead(p, a, b, s)
           l1 == LiftsRead(p, a, s)
           l2 == LiftsRead(p, b, s)
           wraps == N \div 2 + 1
           near == g * (1 + N + N * N)
<1>1. /\ a1 \in Polynomials /\ a2 \in Polynomials /\ l1 \in Polynomials
      /\ b1 \in Polynomials /\ b2 \in Polynomials /\ l2 \in Polynomials
  BY LiftsReadIs
<1>2. q \in Nat /\ t \in Nat
  <2>1. t \in Nat
    BY DEF IsPlan
  <2> QED BY <2>1, PlanNumbers
<1>3. l1 = Plus(a1, Negacyclic(a2, s)) /\ l2 = Plus(b1, Negacyclic(b2, s))
  BY DEF LiftsRead
<1>4. read = ReadOf(e1, e2, e3, s)
  BY DEF TensorRead, WholeTensor, Lifts
<1>5. PICK w1 \in Polynomials, x1 \in Polynomials :
        /\ Bounded(w1, wraps) /\ Bounded(x1, f)
        /\ IsReading(t, l1, q, Mix(1, Constant_(m1), t, w1), x1)
  BY DEF IsOperand
<1>6. PICK w2 \in Polynomials, x2 \in Polynomials :
        /\ Bounded(w2, wraps) /\ Bounded(x2, f)
        /\ IsReading(t, l2, q, Mix(1, Constant_(m2), t, w2), x2)
  BY DEF IsOperand
<1>7. OddFrom(q, g) /\ OddFrom(t, d)
  OBVIOUS
<1> HIDE DEF a1, a2, b1, b2, l1, l2, read
<1>8. u1 \in Polynomials /\ u2 \in Polynomials /\ u3 \in Polynomials
  <2>1. /\ u1 \in Polynomials /\ u3 \in Polynomials
        /\ Negacyclic(a1, b2) \in Polynomials /\ Negacyclic(a2, b1) \in Polynomials
    BY <1>1, NegacyclicIs
  <2> QED BY <2>1, PlusIs
<1> HIDE DEF u1, u2, u3
<1>9. e1 \in Polynomials /\ e2 \in Polynomials /\ e3 \in Polynomials
  BY <1>8, QuotientsAre
<1>10. IsNear(q, e1, t, u1, g) /\ IsNear(q, e2, t, u2, g) /\ IsNear(q, e3, t, u3, g)
  BY <1>8, QuotientsAreNear
<1> HIDE DEF e1, e2, e3
<1>11. IsNear(q, ReadOf(e1, e2, e3, s), t,
             Negacyclic(Plus(a1, Negacyclic(a2, s)), Plus(b1, Negacyclic(b2, s))), near)
  <2>1. /\ IsNear(q, e1, t, Negacyclic(a1, b1), g)
        /\ IsNear(q, e2, t, Plus(Negacyclic(a1, b2), Negacyclic(a2, b1)), g)
        /\ IsNear(q, e3, t, Negacyclic(a2, b2), g)
    BY <1>10 DEF u1, u2, u3
  <2> HIDE DEF q, t
  <2> QED BY <1>1, <1>2, <1>9, <2>1, TensorReads
<1>12. read \in Polynomials
  BY <1>4, <1>9, ReadOfIs
<1>13. IsNear(q, read, t, Negacyclic(l1, l2), near)
  BY <1>3, <1>4, <1>11
<1> DEFINE bound == ProductBoundOf(t, d, f)
<1>14. wraps = N \div 2 + 1 /\ near = g * (1 + N + N * N) /\ bound = ProductBoundOf(t, d, f)
  OBVIOUS
<1> HIDE DEF q, t, wraps, near, bound
<1>15. IsMessageWithin(t, q, read, m1 * m2, bound)
  BY <1>1, <1>2, <1>5, <1>6, <1>7, <1>12, <1>13, <1>14, ErrorOfProduct
<1> QED BY <1>12, <1>15 DEF read, t, q, bound

\* Messages that differ by a multiple of the plaintext modulus read alike.
LEMMA AnotherMessage ==
  ASSUME NEW t \in Int, NEW q \in Int, NEW r \in Polynomials, NEW m \in Int, NEW n \in Int,
         Same(m, n, t), NEW b, IsMessageWithin(t, q, r, m, b)
  PROVE  IsMessageWithin(t, q, r, n, b)
<1>1. PICK z \in Int : m = n + t * z
  BY DEF Same
<1>2. ASSUME NEW k \in Powers
      PROVE  \E e \in Int : IsScaled(t, q, r[k], IF k = 0 THEN n ELSE 0, e) /\ -b <= e /\ e <= b
  <2> DEFINE mk == IF k = 0 THEN m ELSE 0
             nk == IF k = 0 THEN n ELSE 0
             zk == IF k = 0 THEN z ELSE 0
             rk == r[k]
  <2>1. PICK e \in Int : IsScaled(t, q, rk, mk, e) /\ -b <= e /\ e <= b
    BY DEF IsMessageWithin
  <2>2. mk = nk + t * zk /\ mk \in Int /\ nk \in Int /\ zk \in Int
    BY <1>1
  <2> HIDE DEF mk, nk, zk, rk
  <2>3. PICK v \in Int : t * rk = q * (mk + t * v) + e
    BY <2>1 DEF IsScaled
  <2>4. mk + t * v = nk + t * (zk + v)
    <3>1. t * (zk + v) = t * zk + t * v /\ t * zk \in Int /\ t * v \in Int
      BY <2>2
    <3> QED BY <2>2, <3>1
  <2>5. t * rk = q * (nk + t * (zk + v)) + e /\ zk + v \in Int
    BY <2>2, <2>3, <2>4
  <2>6. IsScaled(t, q, rk, nk, e)
    BY <2>5 DEF IsScaled
  <2> QED BY <2>1, <2>6 DEF nk, rk
<1> QED BY <1>2 DEF IsMessageWithin

\* What is taken from a reading adds to its error.
LEMMA LessNoise ==
  ASSUME NEW t \in Nat, NEW q \in Int, NEW r \in Polynomials, NEW m \in Int, NEW b \in Nat,
         IsMessageWithin(t, q, r, m, b), NEW x \in Polynomials, NEW c \in Nat, Bounded(x, c)
  PROVE  /\ Plus(r, Minus(x)) \in Polynomials
         /\ IsMessageWithin(t, q, Plus(r, Minus(x)), m, b + t * c)
<1> DEFINE y == Minus(x)
           s == Plus(r, y)
           tc == t * c
<1>1. y \in Polynomials /\ \A k \in Powers : y[k] = -x[k]
  BY MinusIs
<1> HIDE DEF y
<1>2. s \in Polynomials /\ \A k \in Powers : s[k] = r[k] + y[k]
  BY <1>1, PlusIs
<1> HIDE DEF s
<1>3. ASSUME NEW k \in Powers
      PROVE  \E e \in Int : /\ IsScaled(t, q, s[k], IF k = 0 THEN m ELSE 0, e)
                            /\ -(b + tc) <= e /\ e <= b + tc
  <2> DEFINE mk == IF k = 0 THEN m ELSE 0
             rk == r[k]
             xk == x[k]
             tx == t * xk
  <2>1. PICK e \in Int : IsScaled(t, q, rk, mk, e) /\ -b <= e /\ e <= b
    BY DEF IsMessageWithin
  <2>2. rk \in Int /\ xk \in Int /\ mk \in Int /\ s[k] = rk - xk /\ -c <= xk /\ xk <= c
    <3>1. r[k] \in Int /\ x[k] \in Int /\ s[k] = r[k] + y[k] /\ y[k] = -x[k]
      BY <1>1, <1>2 DEF Polynomials
    <3>2. -c <= xk /\ xk <= c
      BY DEF Bounded
    <3> QED BY <3>1, <3>2
  <2> HIDE DEF mk, rk, xk
  <2>3. tx \in Int /\ -tc <= tx /\ tx <= tc /\ tc \in Nat
    <3>1. t \in Int /\ -t <= t /\ t <= t
      OBVIOUS
    <3> QED BY <2>2, <3>1, ProductIsBounded
  <2>4. t * (rk - xk) = t * rk - tx
    BY <2>2
  <2>5. PICK v \in Int : t * rk = q * (mk + t * v) + e
    BY <2>1 DEF IsScaled
  <2> DEFINE a == q * (mk + t * v)
             f == e - tx
  <2>6. a \in Int
    BY <2>2
  <2> HIDE DEF a, tx, tc
  <2>7. f \in Int /\ -(b + tc) <= f /\ f <= b + tc
    BY <2>1, <2>3
  <2>8. t * s[k] = a + f
    BY <2>1, <2>2, <2>3, <2>4, <2>5, <2>6 DEF a
  <2> HIDE DEF f
  <2>9. t * s[k] = q * (mk + t * v) + f
    BY <2>8 DEF a
  <2>10. IsScaled(t, q, s[k], mk, f)
    BY <2>9 DEF IsScaled
  <2> QED BY <2>7, <2>10 DEF mk
<1>4. IsMessageWithin(t, q, s, m, b + tc)
  BY <1>3 DEF IsMessageWithin
<1> QED BY <1>2, <1>4 DEF s, y, tc

\* Residues of a negative
LEMMA RingNegOf ==
  ASSUME NEW moduli \in Seq(Nat \ {0}), NEW a \in Polynomials
  PROVE  RingNeg(moduli, InRing(moduli, a)) = InRing(moduli, Minus(a))
<1> DEFINE x == InRing(moduli, a)
           y == RingNeg(moduli, x)
           b == Minus(a)
           z == InRing(moduli, b)
<1>1. x \in [1 .. Len(moduli) -> Polynomials] /\ \A l \in DOMAIN moduli : Agree(x[l], a, moduli[l])
  BY SignedIsInRing
<1> HIDE DEF x
<1>2. IsElement(y, moduli)
  BY <1>1, RingNegIs
<1>3. b \in Polynomials
  BY MinusIs
<1> HIDE DEF b
<1>4. IsElement(z, moduli)
  BY <1>3, InRingIs
<1>5. \A l \in DOMAIN moduli : Agree(z[l], b, moduli[l])
  BY <1>3, SignedIsInRing
<1>6. ASSUME NEW l \in DOMAIN moduli PROVE Agree(y[l], z[l], moduli[l])
  <2> DEFINE yl == y[l]
             zl == z[l]
             n == moduli[l]
  <2>1. Agree(yl, b, n)
    BY <1>1, RingLanes DEF b
  <2>2. Agree(zl, b, n)
    BY <1>5
  <2>3. n \in Int /\ yl \in Polynomials /\ zl \in Polynomials
    <3>1. l \in 1 .. Len(moduli) /\ moduli[l] \in Nat
      OBVIOUS
    <3>2. y \in [1 .. Len(moduli) -> Polynomials] /\ z \in [1 .. Len(moduli) -> Polynomials]
      BY <1>2, <1>4, ElementsAre
    <3> QED BY <3>1, <3>2
  <2> HIDE DEF yl, zl, n
  <2>4. Agree(b, zl, n)
    BY <1>3, <2>2, <2>3, AgreeIsEquivalence
  <2>5. Agree(yl, zl, n)
    BY <1>3, <2>1, <2>3, <2>4, AgreeIsEquivalence
  <2> QED BY <2>5 DEF yl, zl, n
<1> HIDE DEF y, z
<1>7. y = z
  BY <1>2, <1>4, <1>6, ElementsAreEqual
<1> QED BY <1>7 DEF y, z, b, x

\* The digits of one lane
RowOf(p, i) == {<<i, j>> : j \in 0 .. p.digits[i] - 1}

LEMMA RowIs ==
  ASSUME NEW p, NEW i, p.digits[i] \in Nat
  PROVE  IsFiniteSet(RowOf(p, i)) /\ Cardinality(RowOf(p, i)) \in Nat
         /\ Cardinality(RowOf(p, i)) <= p.digits[i]
<1> DEFINE d == p.digits[i]
           S == 0 .. d - 1
           f == [j \in S |-> <<i, j>>]
           R == {<<i, j>> : j \in S}
<1>1. d \in Nat
  OBVIOUS
<1> HIDE DEF d
<1>2. IsFiniteSet(S) /\ Cardinality(S) = d
  <2>1. d - 1 \in Int /\ 0 \in Int
    BY <1>1
  <2>2. IsFiniteSet(S) /\ Cardinality(S) = IF 0 > d - 1 THEN 0 ELSE (d - 1) - 0 + 1
    BY Zenon, <2>1, FS_Interval
  <2> QED BY <1>1, <2>2
<1> HIDE DEF S
<1>3. f \in Surjection(S, R)
  BY DEF Surjection
<1> HIDE DEF f, R
<1>4. IsFiniteSet(R) /\ Cardinality(R) <= Cardinality(S)
  BY <1>2, <1>3, FS_Surjection
<1>5. Cardinality(R) \in Nat
  BY <1>4, FS_CardinalityType
<1>6. RowOf(p, i) = R
  BY DEF RowOf, R, S, d
<1> QED BY <1>2, <1>4, <1>5, <1>6 DEF d

\* There are no more positions than digits.
LEMMA DigitsCount ==
  ASSUME NEW p, MainModuli(p.main), \A i \in LanesOf(p) : p.digits[i] \in Nat
  PROVE  /\ GadgetDigitsOf(p) \in Nat
         /\ Cardinality(Positions(p)) \in Nat
         /\ Cardinality(Positions(p)) <= GadgetDigitsOf(p)
<1> DEFINE D == LanesOf(p)
           f == [i \in D |-> p.digits[i]]
           rows(s) == UNION {RowOf(p, i) : i \in s}
<1>1. IsFiniteSet(D)
  <2>1. D = 1 .. Len(p.main) /\ 1 \in Int /\ Len(p.main) \in Int
    BY DEF MainModuli, LanesOf
  <2> QED BY Zenon, <2>1, FS_Interval
<1>2. f \in [D -> Nat] /\ f \in [D -> Int] /\ DOMAIN f = D
  OBVIOUS
<1>3. GadgetDigitsOf(p) = Total(f)
  BY Zenon DEF GadgetDigitsOf, SumOver, Total
<1>4. Total(f) \in Nat
  <2> HIDE DEF f, D
  <2> QED BY <1>1, <1>2, TotalIsNat
<1>5. Positions(p) = rows(D)
  BY Zenon DEF Positions, RowOf
<1>6. ASSUME NEW i \in D
      PROVE  IsFiniteSet(RowOf(p, i)) /\ Cardinality(RowOf(p, i)) \in Nat
             /\ Cardinality(RowOf(p, i)) <= f[i]
  BY RowIs
<1>7. PICK g : IsPartialSum(f, D, g) /\ Total(f) = g[D]
  <2> HIDE DEF f, D
  <2> QED BY <1>1, <1>2, TotalIsPartialSum
<1> HIDE DEF f, D
<1> DEFINE B == {s \in SUBSET D : /\ g[s] \in Nat /\ IsFiniteSet(rows(s))
                                  /\ Cardinality(rows(s)) \in Nat
                                  /\ Cardinality(rows(s)) <= g[s]}
<1>8. {} \in B
  <2>1. rows({}) = {}
    OBVIOUS
  <2>2. IsFiniteSet({}) /\ Cardinality({}) = 0
    BY FS_EmptySet
  <2>3. g[{}] = 0
    BY <1>1, <1>7, PartialSumSteps
  <2> HIDE DEF rows
  <2> QED BY <2>1, <2>2, <2>3
<1>9. ASSUME NEW s \in SUBSET D, s # {}, Rest(s) \in B PROVE s \in B
  <2> DEFINE i == One(s)
             r == RowOf(p, i)
             t == rows(Rest(s))
  <2>1. i \in D /\ i \in s
    BY <1>1, <1>9, RestIsSmaller
  <2>2. rows(s) = r \cup t
    <3>1. s = {i} \cup Rest(s)
      BY <2>1 DEF Rest
    <3> HIDE DEF i
    <3> QED BY <3>1
  <2>3. g[s] = f[i] + g[Rest(s)] /\ f[i] \in Nat
    <3>1. g[s] = f[i] + g[Rest(s)]
      BY <1>1, <1>7, <1>9, PartialSumSteps
    <3> QED BY <1>2, <2>1, <3>1
  <2>4. /\ IsFiniteSet(r) /\ Cardinality(r) \in Nat /\ Cardinality(r) <= f[i]
        /\ IsFiniteSet(t) /\ Cardinality(t) \in Nat /\ Cardinality(t) <= g[Rest(s)]
        /\ g[Rest(s)] \in Nat
    BY <1>6, <1>9, <2>1
  <2> HIDE DEF r, t, rows, i
  <2>5. /\ IsFiniteSet(r \cup t)
        /\ Cardinality(r \cup t) = Cardinality(r) + Cardinality(t) - Cardinality(r \cap t)
    BY <2>4, FS_Union
  <2>6. Cardinality(r \cap t) \in Nat /\ Cardinality(r \cup t) \in Nat
    <3>1. IsFiniteSet(r \cap t)
      BY <2>4, FS_Intersection
    <3> QED BY <2>5, <3>1, FS_CardinalityType
  <2>7. Cardinality(r \cup t) <= g[s]
    BY <2>3, <2>4, <2>5, <2>6
  <2>8. g[s] \in Nat
    BY <2>3, <2>4
  <2> QED BY <2>2, <2>5, <2>6, <2>7, <2>8
<1>10. SUBSET D \subseteq B
  <2> HIDE DEF B
  <2> QED BY <1>1, <1>8, <1>9, SubsetInduction
<1>11. D \in B
  BY <1>10
<1> HIDE DEF rows
<1> QED BY <1>3, <1>4, <1>5, <1>7, <1>11

\* The errors of a tape are as small as those that are sampled.
IsSmallTape(p, samples) ==
  /\ Bounded(samples[1].error, Eta)
  /\ \A i \in LanesOf(p) : \A j \in 0 .. p.digits[i] - 1 :
       Bounded(samples[DrawOf(p, i, j)].error, Eta)

\* What is sampled is small.
LEMMA ErrorsAreSmall ==
  ASSUME NEW e \in Errors
  PROVE  e \in Polynomials /\ Bounded(e, Eta)
<1>1. Eta \in Nat
  BY ExactMultiplicationAssumption
<1>2. ASSUME NEW k \in Powers PROVE e[k] \in Int /\ -Eta <= e[k] /\ e[k] <= Eta
  <2>1. e[k] \in -Eta .. Eta
    BY DEF Errors
  <2> QED BY <1>1, <2>1
<1>3. e = [k \in Powers |-> e[k]]
  BY DEF Errors
<1> QED BY <1>2, <1>3 DEF Polynomials, Bounded

LEMMA TernaryIsSmall ==
  ASSUME NEW u \in Ternary
  PROVE  u \in Polynomials /\ Bounded(u, 1)
<1>1. ASSUME NEW k \in Powers PROVE u[k] \in Int /\ -1 <= u[k] /\ u[k] <= 1
  BY DEF Ternary
<1>2. u = [k \in Powers |-> u[k]]
  BY DEF Ternary
<1> QED BY <1>1, <1>2 DEF Polynomials, Bounded

LEMMA TapeIsSmall ==
  ASSUME NEW system \in Systems, Plans(system[1], system[2]), NEW samples \in Tapes
  PROVE  IsSmallTape(NewPlan(system[1], system[2]), samples)
<1> DEFINE p == NewPlan(system[1], system[2])
           R == [mask : Polynomials, error : Errors]
<1>1. /\ 1 \in DOMAIN samples
      /\ \A i \in LanesOf(p) : \A j \in 0 .. p.digits[i] - 1 : DrawOf(p, i, j) \in DOMAIN samples
  BY TapesAssumption
<1>2. samples \in Seq(R)
  BY Zenon, SamplesAssumption
<1> HIDE DEF R
<1>3. \A n \in DOMAIN samples : samples[n] \in R
  BY <1>2
<1>4. \A n \in DOMAIN samples : samples[n].error \in Errors
  BY <1>3 DEF R
<1>5. \A n \in DOMAIN samples : Bounded(samples[n].error, Eta)
  BY <1>4, ErrorsAreSmall
<1> HIDE DEF p
<1>6. IsSmallTape(p, samples)
  BY <1>1, <1>5 DEF IsSmallTape
<1> QED BY <1>6 DEF p

\* Digits are below the base.
LEMMA DigitIsSmall ==
  ASSUME NEW c \in Nat, NEW j \in Nat
  PROVE  Digit(c, j) \in Nat /\ Digit(c, j) <= TwoTo[BaseBits] - 1
<1> DEFINE d == TwoTo[BaseBits * j]
           b == TwoTo[BaseBits]
           q == c \div d
<1>1. d \in Nat /\ d > 0 /\ b \in Nat /\ b > 0
  BY BaseIs
<1> HIDE DEF d, b
<1>2. q \in Int
  BY <1>1, Division
<1> HIDE DEF q
<1>3. q % b \in 0 .. b - 1
  BY <1>1, <1>2, Division
<1>4. q % b \in Nat /\ q % b <= b - 1
  BY <1>1, <1>3
<1> QED BY <1>4 DEF Digit, q, d, b

\* What the certified model allows for folding
SwitchErrorOf(p) == N * Eta * (TwoTo[BaseBits] - 1) * GadgetDigitsOf(p)

LEMMA DigitsAreSmall ==
  ASSUME NEW p, MainModuli(p.main), CoversLanes(p),
         NEW element, IsElement(element, p.main), NEW ij \in Positions(p)
  PROVE  Bounded(DigitsAt(element, ij), TwoTo[BaseBits] - 1)
<1> DEFINE b == TwoTo[BaseBits] - 1
<1>0. b \in Nat
  BY BaseIs
<1>1. ij[1] \in LanesOf(p) /\ ij[2] \in Nat
  BY PositionsAre, WeightIs DEF CoversLanes
<1>2. LanesOf(p) = 1 .. Len(p.main)
  BY DEF MainModuli, LanesOf
<1>3. ASSUME NEW k \in Powers
      PROVE  -b <= DigitsAt(element, ij)[k] /\ DigitsAt(element, ij)[k] <= b
  <2> DEFINE c == element[ij[1]][k]
             j == ij[2]
  <2>1. c \in 0 .. p.main[ij[1]] - 1
    BY <1>1, <1>2 DEF IsElement
  <2>2. p.main[ij[1]] \in Nat
    BY <1>1, <1>2 DEF MainModuli
  <2>3. c \in Nat /\ j \in Nat
    BY <1>1, <2>1, <2>2
  <2>4. DigitsAt(element, ij)[k] = Digit(c, j)
    BY DEF DigitsAt
  <2> HIDE DEF c, j
  <2>5. Digit(c, j) \in Nat /\ Digit(c, j) <= b
    BY <2>3, DigitIsSmall
  <2> HIDE DEF b
  <2> QED BY <1>0, <2>4, <2>5
<1> QED BY <1>3 DEF Bounded

\* Folding adds no more than that.
LEMMA FoldNoiseIsBounded ==
  ASSUME NEW p, MainModuli(p.main), CoversLanes(p), NEW element, IsElement(element, p.main),
         NEW samples, IsTape(p, samples), IsSmallTape(p, samples)
  PROVE  /\ SwitchErrorOf(p) \in Nat
         /\ FoldNoise(p, element, samples) \in Polynomials
         /\ Bounded(FoldNoise(p, element, samples), SwitchErrorOf(p))
<1> DEFINE D == Positions(p)
           E == ErrorAt(samples, p)
           f == DigitsTimes(p, element, E)
           b == TwoTo[BaseBits] - 1
           c == (b * Eta) * N
           count == Cardinality(D)
           digits == GadgetDigitsOf(p)
           noise == Summed(D, f)
<1>1. IsFiniteSet(D)
  BY PositionsAre DEF CoversLanes
<1>2. E \in [D -> Polynomials]
  BY SamplesAre
<1>3. b \in Nat
  BY BaseIs
<1>4. Eta \in Nat /\ N \in Nat
  BY DegreeIs, ExactMultiplicationAssumption
<1>5. digits \in Nat /\ count \in Nat /\ count <= digits
  BY DigitsCount DEF CoversLanes
<1>6. ASSUME NEW ij \in D PROVE f[ij] \in Polynomials /\ Bounded(f[ij], c)
  <2> DEFINE x == DigitsAt(element, ij)
             e == E[ij]
  <2>1. x \in Polynomials /\ Bounded(x, b)
    BY DigitsAtIs, DigitsAreSmall
  <2>2. e \in Polynomials /\ Bounded(e, Eta)
    <3>1. ij[1] \in LanesOf(p) /\ ij[2] \in 0 .. p.digits[ij[1]] - 1
      BY PositionsAre DEF CoversLanes
    <3>2. e = samples[DrawOf(p, ij[1], ij[2])].error
      BY DEF ErrorAt
    <3> QED BY <3>1, <3>2 DEF IsTape, IsSmallTape
  <2>3. f[ij] = Negacyclic(x, e)
    BY DEF DigitsTimes
  <2> HIDE DEF x, e, b, f
  <2>4. Negacyclic(x, e) \in Polynomials
    BY <2>1, <2>2, NegacyclicIs
  <2>5. Bounded(Negacyclic(x, e), c)
    BY <1>3, <1>4, <2>1, <2>2, NegacyclicIsBounded
  <2> QED BY <2>3, <2>4, <2>5
<1>7. f \in [D -> Polynomials]
  <2>1. f = [ij \in D |-> f[ij]]
    BY DEF DigitsTimes
  <2> HIDE DEF f, D
  <2> QED BY <1>6, <2>1
<1>8. FoldNoise(p, element, samples) = noise
  BY DEF FoldNoise
<1> HIDE DEF D, E, f, b, noise, digits, count
<1>9. noise \in Polynomials /\ \A k \in Powers : /\ [i \in D |-> f[i][k]] \in [D -> Int]
                                                 /\ noise[k] = Total([i \in D |-> f[i][k]])
  BY <1>1, <1>7, SummedIs DEF noise
<1>10. c \in Nat /\ c * digits \in Nat /\ c * count <= c * digits
  <2>1. c \in Nat
    BY <1>3, <1>4
  <2> HIDE DEF c
  <2>2. c * digits = c * count + c * (digits - count)
    BY <1>5, <2>1
  <2>3. c * (digits - count) \in Nat /\ c * count \in Nat
    BY <1>5, <2>1
  <2> DEFINE x == c * (digits - count)
             y == c * count
             z == c * digits
  <2>4. z = y + x /\ x \in Nat /\ y \in Nat
    BY <2>2, <2>3
  <2> HIDE DEF x, y, z
  <2>5. z \in Nat /\ y <= z
    BY <2>4
  <2> QED BY <2>1, <2>5 DEF y, z
<1>11. SwitchErrorOf(p) = c * digits
  <2>1. SwitchErrorOf(p) = N * Eta * b * digits
    BY DEF SwitchErrorOf, b, digits
  <2>2. N * Eta * b = c
    BY <1>3, <1>4
  <2> HIDE DEF c
  <2> QED BY <2>1, <2>2
<1> DEFINE bound == c * digits
           inner == c * count
<1> HIDE DEF c
<1>12. ASSUME NEW k \in Powers PROVE -bound <= noise[k] /\ noise[k] <= bound
  <2> DEFINE g == [i \in D |-> f[i][k]]
  <2>1. g \in [D -> Int] /\ noise[k] = Total(g)
    BY <1>9
  <2>2. \A i \in D : -c <= g[i] /\ g[i] <= c
    BY <1>6 DEF Bounded
  <2> HIDE DEF g
  <2>3. -inner <= Total(g) /\ Total(g) <= inner
    BY <1>1, <1>10, <2>1, <2>2, TotalIsBounded DEF count
  <2>4. Total(g) \in Int
    BY <1>1, <2>1, TotalIsInt
  <2>5. inner \in Int
    BY <1>5, <1>10
  <2> HIDE DEF inner, bound
  <2>6. inner <= bound /\ bound \in Nat
    BY <1>10 DEF inner, bound
  <2> QED BY <2>1, <2>3, <2>4, <2>5, <2>6
<1> QED BY <1>8, <1>9, <1>10, <1>11, <1>12 DEF Bounded, c

-----------------------------------------------------------------------------
(* The bounds of the certified model.                                       *)

\* The bounds of the certified model, in the terms of these lemmas
LEMMA CertifiedIs ==
  ASSUME NEW p, IsPlan(p), GadgetDigitsOf(p) \in Nat, SwitchErrorOf(p) \in Nat,
         NEW d \in Nat, OddFrom(p.t, d), NEW f \in Nat
  PROVE  /\ Certified(p)!FreshBound = FreshBoundOf(p)
         /\ Certified(p)!MultiplyBound(f, f) = ProductBoundOf(p.t, d, f) + p.t * SwitchErrorOf(p)
         /\ \A a : Certified(p)!Admitted(a) <=> 2 * a < Modulus(p)
<1> DEFINE t == p.t
           q == Modulus(p)
           h == N \div 2
           n == N
<1>1. t \in Nat /\ t > 0
  BY DEF IsPlan
<1>2. n \in Nat /\ h \in Nat /\ Eta \in Nat
  BY DegreeIs, ExactMultiplicationAssumption
<1>3. t = 2 * d + 1
  BY DEF OddFrom
<1>4. Certified(p)!FreshBound = t * (2 * n + 1) * Eta + (q % t) * (t - 1)
  BY DEF Certified!FreshBound, Certified!Remainder
<1>5. FreshBoundOf(p) = t * ((2 * n + 1) * Eta) + (q % t) * (t - 1)
  BY DEF FreshBoundOf
<1>6. t * (2 * n + 1) * Eta = t * ((2 * n + 1) * Eta)
  <2> HIDE DEF t, n
  <2>1. 2 * n + 1 \in Nat
    BY <1>2
  <2> DEFINE u == 2 * n + 1
  <2> HIDE DEF u
  <2> QED BY <1>1, <1>2, <2>1 DEF u
<1>7. Certified(p)!MultiplyBound(f, f)
        = (f + f) * ((t - 1) \div 2 + n * t * (h + 1)) + f * h
            + (t * (1 + n + n * n) + 1) \div 2 + t * (n * Eta * (TwoTo[BaseBits] - 1) * GadgetDigitsOf(p))
  BY DEF Certified!MultiplyBound, Certified!SwitchError, Certified!Lesser
<1>8. (t - 1) \div 2 + n * t * (h + 1) = FactorOf(t, d, h)
  <2> HIDE DEF t, n, h
  <2>1. (t - 1) \div 2 = d
    BY <1>3
  <2> DEFINE u == h + 1
  <2>2. u \in Nat
    BY <1>2
  <2> HIDE DEF u
  <2>3. n * t * u = t * (u * n)
    BY <1>1, <1>2, <2>2
  <2> QED BY <2>1, <2>3 DEF FactorOf, u, n
<1>9. Certified(p)!MultiplyBound(f, f) = ProductBoundOf(t, d, f) + t * SwitchErrorOf(p)
  <2>1. (t * (1 + n + n * n) + 1) \div 2 = RoundingOf(t)
    BY DEF RoundingOf
  <2>2. n * Eta * (TwoTo[BaseBits] - 1) * GadgetDigitsOf(p) = SwitchErrorOf(p)
    BY DEF SwitchErrorOf
  <2>3. ProductBoundOf(t, d, f) = (f + f) * FactorOf(t, d, h) + f * h + RoundingOf(t)
    BY DEF ProductBoundOf
  <2> QED BY <1>7, <1>8, <2>1, <2>2, <2>3
<1>10. \A a : Certified(p)!Admitted(a) <=> 2 * a < q
  BY DEF Certified!Admitted
<1> QED BY <1>4, <1>5, <1>6, <1>9, <1>10

\* The message nearest to zero
LEMMA NearestMessage ==
  ASSUME NEW t \in Nat, NEW d \in Nat, OddFrom(t, d), NEW m \in 0 .. t - 1
  PROVE  \E o \in Int : IsCentered(o, d) /\ Same(m, o, t)
<1>1. t = 2 * d + 1
  BY DEF OddFrom
<1>2. CASE m <= d
  <2>1. m \in Int /\ m = m + t * 0
    BY <1>1
  <2>2. Same(m, m, t)
    BY <2>1 DEF Same
  <2>3. IsCentered(m, d)
    BY <1>2 DEF IsCentered
  <2> QED BY <2>1, <2>2, <2>3
<1>3. CASE m > d
  <2> DEFINE o == m - t
  <2>1. o \in Int /\ -d <= o /\ o <= d /\ m = o + t * 1
    BY <1>1, <1>3
  <2> HIDE DEF o
  <2>2. Same(m, o, t)
    BY <2>1 DEF Same
  <2>3. IsCentered(o, d)
    BY <2>1 DEF IsCentered
  <2> QED BY <2>1, <2>2, <2>3
<1> QED BY <1>2, <1>3

\* Products of the nearest messages are products of the messages.
LEMMA ProductOfNearest ==
  ASSUME NEW t \in Nat, t > 0, NEW m1 \in Int, NEW m2 \in Int, NEW o1 \in Int, NEW o2 \in Int,
         Same(m1, o1, t), Same(m2, o2, t)
  PROVE  Same(o1 * o2, (m1 * m2) % t, t)
<1> DEFINE m == m1 * m2
           o == o1 * o2
           r == m % t
<1>1. m \in Int /\ o \in Int
  OBVIOUS
<1>2. Same(m, o, t)
  BY SameProduct
<1> HIDE DEF m, o
<1>3. Same(r, m, t) /\ r \in Int
  <2>1. r \in 0 .. t - 1
    BY <1>1, Division
  <2>2. Same(r, m, t)
    BY <1>1, ResidueIsSame
  <2> QED BY <2>1, <2>2
<1> HIDE DEF r
<1>4. Same(r, o, t)
  BY <1>1, <1>2, <1>3, SameTransitive
<1>5. Same(o, r, t)
  BY <1>1, <1>3, <1>4, SameSymmetric
<1> QED BY <1>5 DEF o, r, m

-----------------------------------------------------------------------------
(* The folded product.                                                      *)

\* What the folded product is read as, in the integers
LEMMA FoldedIsRead ==
  ASSUME NEW p, IsPlan(p), NEW s \in Polynomials, NEW e1 \in Polynomials, NEW e2 \in Polynomials,
         NEW e3 \in Polynomials, NEW x \in Polynomials,
         NEW e, e[1] = InRing(p.main, e1), e[2] = InRing(p.main, e2), e[3] = InRing(p.main, e3)
  PROVE  LET sl == Signed(p.main, s)
             read == RingAdd(p.main, Phase(p, <<e[1], e[2]>>, s),
                                     RingMul(p.main, e[3], RingMul(p.main, sl, sl)))
         IN  RingAdd(p.main, read, RingNeg(p.main, InRing(p.main, x)))
               = InRing(p.main, Plus(ReadOf(e1, e2, e3, s), Minus(x)))
<1> DEFINE main == p.main
           sl == Signed(main, s)
           ss == Negacyclic(s, s)
           y == Negacyclic(e2, s)
           z == Negacyclic(e3, ss)
           u == Plus(e1, y)
           v == Plus(u, z)
           w == Minus(x)
           r == ReadOf(e1, e2, e3, s)
<1>1. main \in Seq(Nat \ {0})
  BY DEF IsPlan, MainModuli
<1> HIDE DEF main
<1>2. sl = InRing(main, s)
  BY <1>1, SignedIsInRing
<1> HIDE DEF sl
<1>3. ss \in Polynomials /\ y \in Polynomials
  BY NegacyclicIs
<1>4. RingMul(main, sl, sl) = InRing(main, ss) /\ RingMul(main, InRing(main, e2), sl) = InRing(main, y)
  BY <1>1, <1>2, RingMulOf
<1>5. \A k \in Powers : r[k] = e1[k] + y[k] + z[k]
  BY DEF ReadOf
<1> HIDE DEF ss, y
<1>6. z \in Polynomials
  BY <1>3, NegacyclicIs
<1>7. RingMul(main, InRing(main, e3), InRing(main, ss)) = InRing(main, z)
  BY <1>1, <1>3, RingMulOf
<1> HIDE DEF z
<1>8. u \in Polynomials /\ \A k \in Powers : u[k] = e1[k] + y[k]
  BY <1>3, PlusIs
<1>9. RingAdd(main, InRing(main, e1), InRing(main, y)) = InRing(main, u)
  BY <1>1, <1>3, RingAddOf
<1> HIDE DEF u
<1>10. v \in Polynomials /\ \A k \in Powers : v[k] = u[k] + z[k]
  BY <1>6, <1>8, PlusIs
<1>11. RingAdd(main, InRing(main, u), InRing(main, z)) = InRing(main, v)
  BY <1>1, <1>6, <1>8, RingAddOf
<1> HIDE DEF v
<1>12. r = v
  <2>1. r \in Polynomials
    BY ReadOfIs
  <2> HIDE DEF r
  <2>2. ASSUME NEW k \in Powers PROVE r[k] = v[k]
    <3>1. e1[k] \in Int /\ y[k] \in Int /\ z[k] \in Int
      BY <1>3, <1>6 DEF Polynomials
    <3>2. r[k] = e1[k] + y[k] + z[k] /\ u[k] = e1[k] + y[k] /\ v[k] = u[k] + z[k]
      BY <1>5, <1>8, <1>10
    <3> QED BY <3>1, <3>2
  <2> QED BY <1>10, <2>1, <2>2, SamePolynomial
<1>13. w \in Polynomials
  BY MinusIs
<1>14. RingNeg(main, InRing(main, x)) = InRing(main, w)
  BY <1>1, RingNegOf
<1> HIDE DEF w, r
<1>15. RingAdd(main, InRing(main, v), InRing(main, w)) = InRing(main, Plus(v, w))
  BY <1>1, <1>10, <1>13, RingAddOf
<1> DEFINE phase == Phase(p, <<e[1], e[2]>>, s)
<1>16. phase = InRing(main, u)
  <2>1. phase = RingAdd(main, e[1], RingMul(main, e[2], sl))
    BY DEF Phase, main, sl
  <2> QED BY <1>4, <1>9, <2>1 DEF main
<1>17. RingAdd(main, phase, RingMul(main, e[3], RingMul(main, sl, sl))) = InRing(main, v)
  BY <1>4, <1>7, <1>11, <1>16 DEF main
<1> HIDE DEF phase
<1>18. RingAdd(main, RingAdd(main, phase, RingMul(main, e[3], RingMul(main, sl, sl))),
               RingNeg(main, InRing(main, x)))
         = InRing(main, Plus(r, w))
  BY <1>12, <1>14, <1>15, <1>17
<1> QED BY <1>18 DEF main, sl, r, w, phase

\* Either imported, with no message known, or an encryption of one
IsFreshOperand(p, public, operand) ==
  \/ operand.plain = {}
  \/ \E m \in 0 .. p.t - 1, draw \in Draws :
       operand = [ct |-> Ciphertext(p, public, m, draw), plain |-> {m}]

OperandsAreFresh ==
  \A o \in 1 .. Len(operands) : IsFreshOperand(plan, keys.public, operands[o])

\* Where the noise of every ciphertext comes from
NoiseInv == FoldInv /\ tape \in Tapes /\ OperandsAreFresh

\* Before the keys there are none.
LEMMA NothingYet == ASSUME operands = <<>> PROVE OperandsAreFresh
<1>1. Len(<<>>) = 0
  OBVIOUS
<1>2. Len(operands) = 0
  BY <1>1, Zenon
<1>3. \A o \in 1 .. Len(operands) : FALSE
  BY <1>2
<1> QED BY <1>3 DEF OperandsAreFresh

\* An operand more
LEMMA OneMoreOperand ==
  ASSUME NEW S, operands \in Seq(S), NEW x, operands' = Append(operands, x),
         OperandsAreFresh, plan' = plan, keys' = keys, IsFreshOperand(plan, keys.public, x)
  PROVE  OperandsAreFresh'
<1>1. /\ Len(operands') = Len(operands) + 1 /\ Len(operands) \in Nat
      /\ \A o \in 1 .. Len(operands) : operands'[o] = operands[o]
      /\ operands'[Len(operands) + 1] = x
  <2> DEFINE W == S \union {x}
  <2>1. x \in W /\ S \subseteq W
    OBVIOUS
  <2> HIDE DEF W
  <2>2. operands \in Seq(W)
    BY <2>1
  <2> QED BY <2>1, <2>2
<1>2. ASSUME NEW o \in 1 .. Len(operands') PROVE IsFreshOperand(plan, keys.public, operands'[o])
  <2>1. CASE o \in 1 .. Len(operands)
    <3>1. operands'[o] = operands[o]
      BY <1>1, <2>1
    <3>2. IsFreshOperand(plan, keys.public, operands[o])
      BY <2>1 DEF OperandsAreFresh
    <3> QED BY <3>1, <3>2
  <2>2. CASE o = Len(operands) + 1
    <3>1. operands'[o] = x
      BY <1>1, <2>2
    <3> QED BY <3>1
  <2>3. o \in 1 .. Len(operands) \/ o = Len(operands) + 1
    BY <1>1
  <2> QED BY <2>1, <2>2, <2>3
<1>3. ASSUME NEW o \in 1 .. Len(operands') PROVE IsFreshOperand(plan', keys'.public, operands'[o])
  <2>1. IsFreshOperand(plan, keys.public, operands'[o])
    BY <1>2
  <2> QED BY <2>1
<1> QED BY <1>3, Zenon DEF OperandsAreFresh

LEMMA EncryptedIsFresh ==
  ASSUME MultiplyInv, OperandsAreFresh, NEW m \in 0 .. plan.t - 1, NEW draw \in Draws,
         EncryptOperand(m, draw)
  PROVE  OperandsAreFresh'
<1> DEFINE R == [ct : Canonical(plan), plain : SUBSET Int]
           x == [ct |-> Ciphertext(plan, keys.public, m, draw), plain |-> {m}]
<1>1. operands \in Seq(R)
  BY DEF MultiplyInv, OperandsInv
<1>2. operands' = Append(operands, x) /\ plan' = plan /\ keys' = keys /\ keys # <<>>
  BY DEF EncryptOperand
<1>3. IsFreshOperand(plan, keys.public, x)
  BY DEF IsFreshOperand
<1> HIDE DEF R, x
<1> QED BY <1>1, <1>2, <1>3, OneMoreOperand

LEMMA ImportedIsFresh ==
  ASSUME MultiplyInv, OperandsAreFresh, NEW c \in Imports, ImportOperand(c)
  PROVE  OperandsAreFresh'
<1> DEFINE R == [ct : Canonical(plan), plain : SUBSET Int]
           x == [ct |-> <<InRing(plan.main, c[1]), InRing(plan.main, c[2])>>, plain |-> {}]
<1>1. operands \in Seq(R)
  BY DEF MultiplyInv, OperandsInv
<1>2. operands' = Append(operands, x) /\ plan' = plan /\ keys' = keys
  BY DEF ImportOperand
<1>3. IsFreshOperand(plan, keys.public, x)
  BY DEF IsFreshOperand
<1> HIDE DEF R, x
<1> QED BY <1>1, <1>2, <1>3, OneMoreOperand

LEMMA OperandsStayFresh ==
  ASSUME OperandsAreFresh, plan' = plan, keys' = keys, operands' = operands
  PROVE  OperandsAreFresh'
BY DEF OperandsAreFresh

\* The invariant is kept by every step.
LEMMA NoiseInvIsInductive == NoiseInv /\ [MultiplyNext]_multiplyVars => NoiseInv'
<1> SUFFICES ASSUME NoiseInv, [MultiplyNext]_multiplyVars PROVE NoiseInv'
  OBVIOUS
<1>1. FoldInv /\ MultiplyInv /\ OperandsAreFresh /\ tape \in Tapes
  BY DEF NoiseInv, FoldInv
<1>2. FoldInv' /\ tape' \in Tapes
  <2>1. tape' = tape
    BY DEF MultiplyNext, multiplyVars, GenerateKeys, EncryptOperand, ImportOperand, MultiplyExact,
           Relinearize, DecryptExact
  <2> QED BY <1>1, <2>1, FoldInvIsInductive
<1>3. CASE GenerateKeys
  <2>1. operands' = <<>>
    BY <1>1, <1>3 DEF GenerateKeys, MultiplyInv, OperandsInv
  <2>2. Len(<<>>) = 0
    OBVIOUS
  <2>3. Len(operands') = 0
    BY <2>1, <2>2, Zenon
  <2>4. \A o \in 1 .. Len(operands') : IsFreshOperand(plan', keys'.public, operands'[o])
    BY <2>3
  <2>5. OperandsAreFresh'
    BY <2>4, Zenon DEF OperandsAreFresh
  <2> QED BY <1>2, <2>5 DEF NoiseInv
<1>4. ASSUME NEW m \in 0 .. plan.t - 1, NEW draw \in Draws, EncryptOperand(m, draw)
      PROVE  NoiseInv'
  BY <1>1, <1>2, <1>4, EncryptedIsFresh DEF NoiseInv
<1>5. ASSUME NEW c \in Imports, ImportOperand(c) PROVE NoiseInv'
  BY <1>1, <1>2, <1>5, ImportedIsFresh DEF NoiseInv
<1>6. CASE plan' = plan /\ keys' = keys /\ operands' = operands
  BY <1>1, <1>2, <1>6, OperandsStayFresh DEF NoiseInv
<1> QED BY <1>3, <1>4, <1>5, <1>6 DEF MultiplyNext, multiplyVars, MultiplyExact, Relinearize,
           DecryptExact

\* A ciphertext that reads as an encryption of m within the fresh bound
IsFresh(p, c, s, m) ==
  \E r \in Polynomials, x \in Polynomials :
    /\ Phase(p, c, s) = InRing(p.main, r)
    /\ Bounded(x, FreshBoundOf(p))
    /\ IsReading(p.t, r, Modulus(p), Constant_(m), x)

\* The samples of keys and encryptions are small.
LEMMA SecretIsSmall == ASSUME NEW s \in Secrets PROVE s \in Polynomials /\ Bounded(s, 1)
<1>1. s \in Ternary
  BY SamplesAssumption
<1> QED BY <1>1, TernaryIsSmall

LEMMA DrawIsSmall ==
  ASSUME NEW draw \in Draws
  PROVE  /\ draw.u \in Polynomials /\ Bounded(draw.u, 1)
         /\ draw.e1 \in Polynomials /\ Bounded(draw.e1, Eta)
         /\ draw.e2 \in Polynomials /\ Bounded(draw.e2, Eta)
<1>1. draw \in [u : Ternary, e1 : Errors, e2 : Errors]
  BY SamplesAssumption
<1>2. draw.u \in Ternary /\ draw.e1 \in Errors /\ draw.e2 \in Errors
  BY <1>1
<1>3. draw.u \in Polynomials /\ Bounded(draw.u, 1)
  BY <1>2, TernaryIsSmall
<1>4. draw.e1 \in Polynomials /\ Bounded(draw.e1, Eta)
  BY <1>2, ErrorsAreSmall
<1>5. draw.e2 \in Polynomials /\ Bounded(draw.e2, Eta)
  BY <1>2, ErrorsAreSmall
<1> QED BY <1>3, <1>4, <1>5

LEMMA PlanSmallTape == ASSUME PlanInv, tape \in Tapes PROVE IsSmallTape(plan, tape)
<1>1. PICK system \in Systems :
        Plans(system[1], system[2]) /\ plan = NewPlan(system[1], system[2])
  BY DEF PlanInv
<1>2. IsSmallTape(NewPlan(system[1], system[2]), tape)
  BY <1>1, TapeIsSmall
<1> QED BY <1>1, <1>2

\* An encryption reads as its message, within the fresh bound.
LEMMA EncryptionReads ==
  ASSUME NEW p, IsPlan(p), NEW s \in Polynomials, Bounded(s, 1),
         NEW first, first.mask \in Polynomials, first.error \in Polynomials,
         Bounded(first.error, Eta), NEW draw \in Draws, NEW m \in 0 .. p.t - 1,
         NEW public,
         public = Masked(p, Signed(p.main, s), first, InRing(p.main, [k \in Powers |-> 0]))
  PROVE  IsFresh(p, Ciphertext(p, public, m, draw), s, m)
<1> DEFINE r == FreshRead(p, first, draw, s, m)
           x == FreshScaled(p, first, draw, s, m)
           c == Ciphertext(p, public, m, draw)
<1>1. /\ draw.u \in Polynomials /\ Bounded(draw.u, 1)
      /\ draw.e1 \in Polynomials /\ Bounded(draw.e1, Eta)
      /\ draw.e2 \in Polynomials /\ Bounded(draw.e2, Eta)
  BY DrawIsSmall
<1>2. m \in Int
  BY DEF IsPlan
<1>3. r \in Polynomials /\ Phase(p, c, s) = InRing(p.main, r)
  BY <1>1, <1>2, FreshReads
<1>4. x \in Polynomials /\ Bounded(x, FreshBoundOf(p))
      /\ IsReading(p.t, r, Modulus(p), Constant_(m), x)
  BY <1>1, FreshScaledIs
<1> HIDE DEF r, x, c
<1>5. IsFresh(p, c, s, m)
  BY <1>3, <1>4 DEF IsFresh
<1> QED BY <1>5 DEF c

\* Every operand with a message reads as an encryption of it.
LEMMA OperandsRead ==
  ASSUME NoiseInv, NEW o \in 1 .. Len(operands), operands[o].plain # {}
  PROVE  \E m \in 0 .. plan.t - 1 :
           operands[o].plain = {m} /\ IsFresh(plan, operands[o].ct, sk, m)
<1>1. /\ PlanInv /\ IsTape(plan, tape) /\ sk \in Secrets /\ tape \in Tapes
      /\ OperandsInv /\ OperandsAreFresh
      /\ keys # <<>> => keys = KeySet(plan, Signed(plan.main, sk), tape)
  BY DEF NoiseInv, FoldInv, MultiplyInv
<1>2. IsPlan(plan) /\ sk \in Polynomials /\ Bounded(sk, 1) /\ IsSmallTape(plan, tape)
  BY <1>1, PlanInvIs, SecretIsSmall, PlanSmallTape
<1>3. PICK m \in 0 .. plan.t - 1, draw \in Draws :
        operands[o] = [ct |-> Ciphertext(plan, keys.public, m, draw), plain |-> {m}]
  BY <1>1 DEF OperandsAreFresh, IsFreshOperand
<1>4. operands # <<>>
  <2>1. Len(<<>>) = 0
    OBVIOUS
  <2>2. operands = <<>> => Len(operands) = 0
    BY <2>1, Zenon
  <2>3. Len(operands) # 0
    <3>1. Len(operands) \in Nat
      <4> DEFINE R == [ct : Canonical(plan), plain : SUBSET Int]
      <4>1. operands \in Seq(R)
        BY <1>1 DEF OperandsInv
      <4> HIDE DEF R
      <4> QED BY <4>1
    <3> QED BY <3>1
  <2> QED BY <2>2, <2>3
<1>5. keys.public = Masked(plan, Signed(plan.main, sk), tape[1], InRing(plan.main, [k \in Powers |-> 0]))
  <2>1. keys = KeySet(plan, Signed(plan.main, sk), tape)
    BY <1>1, <1>4 DEF OperandsInv
  <2> QED BY <2>1 DEF KeySet
<1>6. tape[1].mask \in Polynomials /\ tape[1].error \in Polynomials /\ Bounded(tape[1].error, Eta)
  BY <1>1, <1>2 DEF IsTape, IsSmallTape
<1>7. IsFresh(plan, Ciphertext(plan, keys.public, m, draw), sk, m)
  BY <1>2, <1>5, <1>6, EncryptionReads
<1>8. operands[o].ct = Ciphertext(plan, keys.public, m, draw) /\ operands[o].plain = {m}
  BY <1>3
<1> QED BY <1>7, <1>8

\* So its error is within that bound.
LEMMA FreshIsWithin ==
  ASSUME NEW p, IsPlan(p), NEW c, NEW m \in Int, IsFresh(p, c, sk, m), FreshBoundOf(p) \in Nat
  PROVE  Within(ScaledError(p, c, m), FreshBoundOf(p))
<1> DEFINE b == FreshBoundOf(p)
<1>1. PICK r \in Polynomials, x \in Polynomials :
        /\ Phase(p, c, sk) = InRing(p.main, r) /\ Bounded(x, b)
        /\ IsReading(p.t, r, Modulus(p), Constant_(m), x)
  BY DEF IsFresh
<1> HIDE DEF b
<1>2. p.t \in Int /\ Modulus(p) \in Int /\ b \in Nat
  <2>1. p.t \in Nat /\ Modulus(p) \in Nat
    BY PlanNumbers
  <2> QED BY <2>1 DEF b
<1>3. IsMessageWithin(p.t, Modulus(p), r, m, b)
  BY <1>1, <1>2, ReadingIsWithin
<1>4. Within(ScaledError(p, c, m), b)
  BY <1>1, <1>2, <1>3, ErrorIsWithin
<1> QED BY <1>4 DEF b

\* Its centered lifts read as the nearest message, as the product needs it.
LEMMA FreshIsOperand ==
  ASSUME NEW p, IsPlan(p), NEW c, IsCiphertext(c, p.main), NEW s \in Polynomials, Bounded(s, 1),
         NEW g \in Nat, OddFrom(Modulus(p), g), NEW d \in Nat, OddFrom(p.t, d),
         NEW f \in Nat, f <= g, f = FreshBoundOf(p),
         NEW m \in 0 .. p.t - 1, IsFresh(p, c, s, m)
  PROVE  \E o \in Int : IsCentered(o, d) /\ Same(m, o, p.t) /\ IsOperand(p, c, s, o, f)
<1>1. PICK r \in Polynomials, x \in Polynomials :
        /\ Phase(p, c, s) = InRing(p.main, r) /\ Bounded(x, f)
        /\ IsReading(p.t, r, Modulus(p), Constant_(m), x)
  BY DEF IsFresh
<1>2. p.t \in Nat /\ m \in Int
  BY DEF IsPlan
<1>3. PICK o \in Int : IsCentered(o, d) /\ Same(m, o, p.t)
  BY <1>2, NearestMessage
<1>4. IsOperand(p, c, s, o, f)
  BY <1>1, <1>2, <1>3, OperandOf
<1> QED BY <1>3, <1>4

\* A ciphertext that reads as an encryption of m with an error of at most b
ReadsWithin(p, c, s, m, b) ==
  \E r \in Polynomials :
    Phase(p, c, s) = InRing(p.main, r) /\ IsMessageWithin(p.t, Modulus(p), r, m, b)

\* A product, before it is folded
LEMMA ProductOfFresh ==
  ASSUME NEW p, IsPlan(p), NEW g \in Nat, OddFrom(Modulus(p), g), NEW d \in Nat, OddFrom(p.t, d),
         NEW s \in Polynomials, Bounded(s, 1), NEW f \in Nat, f <= g, f = FreshBoundOf(p),
         NEW a, IsCiphertext(a, p.main), NEW b, IsCiphertext(b, p.main),
         NEW m1 \in 0 .. p.t - 1, NEW m2 \in 0 .. p.t - 1,
         IsFresh(p, a, s, m1), IsFresh(p, b, s, m2)
  PROVE  /\ TensorRead(p, a, b, s) \in Polynomials
         /\ IsMessageWithin(p.t, Modulus(p), TensorRead(p, a, b, s), (m1 * m2) % p.t,
                            ProductBoundOf(p.t, d, f))
<1>1. p.t \in Nat /\ p.t > 0 /\ p.t \in Int /\ m1 \in Int /\ m2 \in Int
  BY DEF IsPlan
<1>2. PICK o1 \in Int : IsCentered(o1, d) /\ Same(m1, o1, p.t) /\ IsOperand(p, a, s, o1, f)
  BY FreshIsOperand
<1>3. PICK o2 \in Int : IsCentered(o2, d) /\ Same(m2, o2, p.t) /\ IsOperand(p, b, s, o2, f)
  BY FreshIsOperand
<1> DEFINE r == TensorRead(p, a, b, s)
           m == (m1 * m2) % p.t
           q == Modulus(p)
           bound == ProductBoundOf(p.t, d, f)
           oo == o1 * o2
<1>4. r \in Polynomials /\ IsMessageWithin(p.t, q, r, oo, bound)
  BY <1>2, <1>3, ProductReads
<1>5. Same(oo, m, p.t)
  BY <1>1, <1>2, <1>3, ProductOfNearest
<1>6. q \in Int
  BY PlanNumbers
<1>7. oo \in Int
  BY <1>2, <1>3
<1>8. m \in Int
  <2> DEFINE mm == m1 * m2
  <2>1. mm \in Int
    BY <1>1
  <2> HIDE DEF mm
  <2> QED BY <1>1, <2>1
<1> HIDE DEF r, m, q, bound, oo
<1>9. IsMessageWithin(p.t, q, r, m, bound)
  BY <1>1, <1>4, <1>5, <1>6, <1>7, <1>8, AnotherMessage
<1> QED BY <1>4, <1>9 DEF r, m, q, bound

\* And after it was folded
LEMMA FoldedProduct ==
  ASSUME NoiseInv, folded # <<>>,
         NEW g \in Nat, OddFrom(Modulus(plan), g), NEW d \in Nat, OddFrom(plan.t, d),
         NEW f \in Nat, f <= g, f = FreshBoundOf(plan),
         NEW m1 \in 0 .. plan.t - 1, NEW m2 \in 0 .. plan.t - 1,
         IsFresh(plan, operands[1].ct, sk, m1), IsFresh(plan, operands[2].ct, sk, m2),
         ProductBoundOf(plan.t, d, f) \in Nat
  PROVE  /\ SwitchErrorOf(plan) \in Nat
         /\ ReadsWithin(plan, folded, sk, (m1 * m2) % plan.t,
                        ProductBoundOf(plan.t, d, f) + plan.t * SwitchErrorOf(plan))
<1> DEFINE a == operands[1].ct
           b == operands[2].ct
           e1 == Quotients(plan, WholeTensor(Lifts(plan, a), Lifts(plan, b))[1])
           e2 == Quotients(plan, WholeTensor(Lifts(plan, a), Lifts(plan, b))[2])
           e3 == Quotients(plan, WholeTensor(Lifts(plan, a), Lifts(plan, b))[3])
           x == FoldNoise(plan, tensor[3], tape)
           read == ReadOf(e1, e2, e3, sk)
           m == (m1 * m2) % plan.t
           bound == ProductBoundOf(plan.t, d, f)
           switch == SwitchErrorOf(plan)
           q == Modulus(plan)
           t == plan.t
<1>1. /\ FoldInv /\ MultiplyInv /\ PlanInv /\ IsTape(plan, tape) /\ sk \in Secrets /\ tape \in Tapes
      /\ OperandsInv /\ TensorInv
  BY DEF NoiseInv, FoldInv, MultiplyInv
<1>2. tensor # <<>>
  BY <1>1 DEF FoldInv
<1>3. IsPlan(plan) /\ MainModuli(plan.main) /\ CoversLanes(plan)
  BY <1>1, PlanInvIs, PlanCoversLanes
<1>4. sk \in Polynomials /\ Bounded(sk, 1) /\ IsSmallTape(plan, tape)
  BY <1>1, SecretIsSmall, PlanSmallTape
<1>5. Len(operands) = 2 /\ \A e \in 1 .. 3 :
        /\ IsElement(tensor[e], plan.main)
        /\ tensor[e] = InRing(plan.main, Quotients(plan, WholeTensor(Lifts(plan, a), Lifts(plan, b))[e]))
  BY <1>1, <1>2 DEF TensorInv
<1>6. IsCiphertext(a, plan.main) /\ IsCiphertext(b, plan.main)
  <2> DEFINE R == [ct : Canonical(plan), plain : SUBSET Int]
  <2>1. operands \in Seq(R)
    BY <1>1 DEF OperandsInv
  <2> HIDE DEF R
  <2>2. \A o \in 1 .. Len(operands) : operands[o] \in R
    BY <2>1
  <2>3. 1 \in 1 .. Len(operands) /\ 2 \in 1 .. Len(operands)
    <3>1. Len(operands) = 2
      BY <1>5
    <3> QED BY <3>1
  <2>4. operands[1] \in R /\ operands[2] \in R
    BY <2>2, <2>3
  <2>5. a \in Canonical(plan) /\ b \in Canonical(plan)
    BY <2>4 DEF R
  <2> QED BY <2>5 DEF Canonical
<1>7. /\ tensor[1] = InRing(plan.main, e1) /\ tensor[2] = InRing(plan.main, e2)
      /\ tensor[3] = InRing(plan.main, e3) /\ IsElement(tensor[3], plan.main)
  BY <1>5
<1>8. e1 \in Polynomials /\ e2 \in Polynomials /\ e3 \in Polynomials
  <2>1. ASSUME NEW e \in 1 .. 3
        PROVE  Quotients(plan, WholeTensor(Lifts(plan, a), Lifts(plan, b))[e]) \in Polynomials
    <3> DEFINE w == WholeTensor(Lifts(plan, a), Lifts(plan, b))[e]
    <3>1. w \in Polynomials
      BY <1>3, <1>6, TensorIsExact
    <3> HIDE DEF w
    <3>2. Quotients(plan, w) \in Polynomials
      BY <1>3, <3>1, QuotientsAre
    <3> QED BY <3>2 DEF w
  <2> QED BY <2>1
<1>9. TensorRead(plan, a, b, sk) = read
  BY DEF TensorRead
<1>10. read \in Polynomials /\ IsMessageWithin(t, q, read, m, bound)
  <2> HIDE DEF a, b, read
  <2>1. /\ TensorRead(plan, a, b, sk) \in Polynomials
        /\ IsMessageWithin(plan.t, Modulus(plan), TensorRead(plan, a, b, sk), (m1 * m2) % plan.t,
                           ProductBoundOf(plan.t, d, f))
    <3>1. IsFresh(plan, a, sk, m1) /\ IsFresh(plan, b, sk, m2)
      BY DEF a, b
    <3> QED BY <1>3, <1>4, <1>6, <3>1, ProductOfFresh
  <2> QED BY <1>9, <2>1
<1>11. switch \in Nat /\ x \in Polynomials /\ Bounded(x, switch)
  BY <1>1, <1>3, <1>4, <1>7, FoldNoiseIsBounded
<1> DEFINE sl == Signed(plan.main, sk)
           ring == RingAdd(plan.main, Phase(plan, <<tensor[1], tensor[2]>>, sk),
                                      RingMul(plan.main, tensor[3], RingMul(plan.main, sl, sl)))
           less == RingAdd(plan.main, ring, RingNeg(plan.main, InRing(plan.main, x)))
<1>12. Phase(plan, folded, sk) = less
  BY <1>1, FoldedReads
<1> HIDE DEF e1, e2, e3, x
<1>13. less = InRing(plan.main, Plus(read, Minus(x)))
  BY <1>3, <1>4, <1>7, <1>8, <1>11, FoldedIsRead
<1>14. t \in Nat /\ q \in Int /\ m \in Int /\ bound \in Nat
  <2>1. t \in Nat /\ t > 0 /\ m1 \in Int /\ m2 \in Int
    BY <1>3 DEF IsPlan
  <2> DEFINE mm == m1 * m2
  <2>2. mm \in Int
    BY <2>1
  <2>3. q \in Int
    BY <1>3, PlanNumbers
  <2> HIDE DEF mm, t
  <2>4. mm % t \in Int
    BY <2>1, <2>2
  <2> QED BY <2>1, <2>3, <2>4 DEF mm, t
<1> HIDE DEF read, m, bound, switch, q, t, less, ring
<1>15. Plus(read, Minus(x)) \in Polynomials
       /\ IsMessageWithin(t, q, Plus(read, Minus(x)), m, bound + t * switch)
  BY <1>10, <1>11, <1>14, LessNoise
<1>16. Phase(plan, folded, sk) = InRing(plan.main, Plus(read, Minus(x)))
  BY <1>12, <1>13
<1>17. ReadsWithin(plan, folded, sk, m, bound + t * switch)
  BY <1>15, <1>16 DEF ReadsWithin, t, q
<1> QED BY <1>11, <1>17 DEF m, bound, t, switch

\* The bounds of the certified model, in the names used here
CertifiedBy(p, d, f) ==
  /\ d \in Nat /\ OddFrom(p.t, d) /\ f \in Nat /\ f = FreshBoundOf(p)
  /\ ProductBoundOf(p.t, d, f) \in Nat /\ SwitchErrorOf(p) \in Nat
  /\ Certified(p)!FreshBound = f
  /\ Certified(p)!MultiplyBound(f, f) = ProductBoundOf(p.t, d, f) + p.t * SwitchErrorOf(p)
  /\ \A a : Certified(p)!Admitted(a) <=> 2 * a < Modulus(p)

\* The bounds are numbers.
LEMMA FreshBoundIs == ASSUME NEW p, IsPlan(p) PROVE FreshBoundOf(p) \in Nat
<1> DEFINE t == p.t
           q == Modulus(p)
           r == q % t
           b == (2 * N + 1) * Eta
<1>1. t \in Nat /\ t > 0
  BY DEF IsPlan
<1>2. q \in Int
  BY PlanNumbers
<1>3. b \in Nat
  BY DegreeIs, ExactMultiplicationAssumption
<1> HIDE DEF t, q, b
<1>4. r \in 0 .. t - 1
  BY <1>1, <1>2, Division
<1> HIDE DEF r
<1>5. r * (t - 1) \in Nat /\ t * b \in Nat
  BY <1>1, <1>3, <1>4
<1> DEFINE rt == r * (t - 1)
           tb == t * b
<1>6. FreshBoundOf(p) = tb + rt
  BY DEF FreshBoundOf, t, q, r, b
<1> HIDE DEF rt, tb
<1>7. tb + rt \in Nat
  BY <1>5 DEF rt, tb
<1> QED BY <1>6, <1>7

LEMMA ProductBoundIs ==
  ASSUME NEW t \in Nat, NEW d \in Nat, NEW f \in Nat
  PROVE  ProductBoundOf(t, d, f) \in Nat
<1> DEFINE h == N \div 2
           n == N
<1>1. n \in Nat /\ h \in Nat
  BY DegreeIs
<1> HIDE DEF n, h
<1>2. (h + 1) * n \in Nat
  BY <1>1
<1> DEFINE u == (h + 1) * n
<1> HIDE DEF u
<1>3. t * u \in Nat
  BY <1>2 DEF u
<1> DEFINE v == t * u
<1> HIDE DEF v
<1>4. FactorOf(t, d, h) = d + v
  BY DEF FactorOf, v, u, n
<1>5. (f + f) * (d + v) \in Nat
  <2> DEFINE y == d + v
  <2>1. y \in Nat
    BY <1>3 DEF v
  <2> HIDE DEF y
  <2> QED BY <2>1 DEF y
<1>6. f * h \in Nat
  BY <1>1
<1>7. RoundingOf(t) \in Nat
  <2>1. n * n \in Nat
    BY <1>1
  <2> DEFINE nn == n * n
  <2> HIDE DEF nn
  <2>2. 1 + n + nn \in Nat
    BY <1>1, <2>1 DEF nn
  <2> DEFINE w == 1 + n + nn
  <2> HIDE DEF w
  <2>3. t * w \in Nat
    BY <2>2 DEF w
  <2> DEFINE z == t * w
  <2> HIDE DEF z
  <2>4. (z + 1) \div 2 \in Nat
    <3>1. z \in Nat
      BY <2>3 DEF z
    <3> QED BY <3>1
  <2> QED BY <2>4 DEF RoundingOf, z, w, nn, n
<1>8. ProductBoundOf(t, d, f) = (f + f) * (d + v) + f * h + RoundingOf(t)
  BY <1>4 DEF ProductBoundOf, h
<1> DEFINE a == (f + f) * (d + v)
           b == f * h
           r == RoundingOf(t)
<1> HIDE DEF a, b, r
<1>9. a + b + r \in Nat
  BY <1>5, <1>6, <1>7 DEF a, b, r
<1> QED BY <1>8, <1>9 DEF a, b, r

LEMMA SwitchErrorIs ==
  ASSUME NEW p, MainModuli(p.main), \A i \in LanesOf(p) : p.digits[i] \in Nat
  PROVE  GadgetDigitsOf(p) \in Nat /\ SwitchErrorOf(p) \in Nat
<1> DEFINE b == TwoTo[BaseBits] - 1
           n == N
           d == GadgetDigitsOf(p)
<1>1. d \in Nat
  BY DigitsCount
<1>2. b \in Nat
  <2>1. TwoTo[BaseBits] \in Nat /\ TwoTo[BaseBits] > 0
    <3>1. BaseBits \in Nat
      BY ExactMultiplicationAssumption
    <3> QED BY <3>1, TwoToIs
  <2> DEFINE w == TwoTo[BaseBits]
  <2> HIDE DEF w
  <2>2. w - 1 \in Nat
    BY <2>1 DEF w
  <2> QED BY <2>2 DEF w
<1>3. n \in Nat /\ Eta \in Nat
  BY DegreeIs, ExactMultiplicationAssumption
<1> HIDE DEF b, n, d
<1>4. n * Eta \in Nat
  BY <1>3
<1> DEFINE u == n * Eta
<1> HIDE DEF u
<1>5. u * b \in Nat
  BY <1>2, <1>4 DEF u
<1> DEFINE v == u * b
<1> HIDE DEF v
<1>6. v * d \in Nat
  BY <1>1, <1>5 DEF v
<1> QED BY <1>1, <1>6 DEF SwitchErrorOf, v, u, b, n, d

\* They are those of the certified model, for every plan with an odd plaintext
\* modulus.
LEMMA CertifiedHere ==
  ASSUME PlanInv, plan.t % 2 = 1
  PROVE  \E d \in Nat, f \in Nat : CertifiedBy(plan, d, f)
<1>1. IsPlan(plan) /\ MainModuli(plan.main) /\ \A i \in LanesOf(plan) : plan.digits[i] \in Nat
  BY PlanInvIs
<1>2. GadgetDigitsOf(plan) \in Nat /\ SwitchErrorOf(plan) \in Nat
  BY <1>1, SwitchErrorIs
<1> DEFINE t == plan.t
           d == (t - 1) \div 2
           f == FreshBoundOf(plan)
<1>3. t \in Nat /\ t > 0
  BY <1>1 DEF IsPlan
<1>4. d \in Nat /\ t = 2 * d + 1
  <2>1. t % 2 = 1
    OBVIOUS
  <2> HIDE DEF t
  <2> QED BY <1>3, <2>1
<1>5. OddFrom(plan.t, d)
  BY <1>4 DEF OddFrom
<1>6. f \in Nat
  BY <1>1, FreshBoundIs
<1> HIDE DEF d, f
<1>7. ProductBoundOf(plan.t, d, f) \in Nat
  BY <1>3, <1>4, <1>6, ProductBoundIs
<1>8. /\ Certified(plan)!FreshBound = FreshBoundOf(plan)
      /\ Certified(plan)!MultiplyBound(f, f) = ProductBoundOf(plan.t, d, f) + plan.t * SwitchErrorOf(plan)
      /\ \A a : Certified(plan)!Admitted(a) <=> 2 * a < Modulus(plan)
  BY <1>1, <1>2, <1>4, <1>5, <1>6, CertifiedIs
<1>9. CertifiedBy(plan, d, f)
  <2>1. f = FreshBoundOf(plan)
    BY DEF f
  <2> QED BY <1>2, <1>4, <1>5, <1>6, <1>7, <1>8, <2>1, Zenon DEF CertifiedBy
<1> QED BY <1>4, <1>6, <1>9

\* The message that is read is the one that was encrypted.
LEMMA OnlyOne == ASSUME NEW S, NEW m, S = {m} PROVE (CHOOSE x \in S : TRUE) = m
OBVIOUS

\* Clause by clause, for one operand and for the folded product
LEMMA OperandIsWithin ==
  ASSUME NoiseInv, NEW d, NEW f, CertifiedBy(plan, d, f),
         NEW o \in 1 .. Len(operands), operands[o].plain # {}
  PROVE  Within(ScaledError(plan, operands[o].ct, CHOOSE m \in operands[o].plain : TRUE), f)
<1>1. IsPlan(plan)
  BY PlanInvIs DEF NoiseInv, FoldInv, MultiplyInv
<1>2. PICK m \in 0 .. plan.t - 1 :
        operands[o].plain = {m} /\ IsFresh(plan, operands[o].ct, sk, m)
  BY OperandsRead
<1>3. (CHOOSE x \in operands[o].plain : TRUE) = m
  BY <1>2, OnlyOne
<1>4. m \in Int
  <2>1. plan.t \in Nat
    BY <1>1 DEF IsPlan
  <2> QED BY <2>1
<1>5. f \in Nat /\ f = FreshBoundOf(plan)
  BY DEF CertifiedBy
<1>6. Within(ScaledError(plan, operands[o].ct, m), FreshBoundOf(plan))
  BY <1>1, <1>2, <1>4, <1>5, FreshIsWithin
<1> QED BY <1>3, <1>5, <1>6

LEMMA ProductIsWithin ==
  ASSUME NoiseInv, folded # <<>>, NEW d, NEW f, CertifiedBy(plan, d, f), 2 * f < Modulus(plan),
         NEW m1 \in 0 .. plan.t - 1, NEW m2 \in 0 .. plan.t - 1,
         IsFresh(plan, operands[1].ct, sk, m1), IsFresh(plan, operands[2].ct, sk, m2),
         NEW b, b = ProductBoundOf(plan.t, d, f) + plan.t * SwitchErrorOf(plan)
  PROVE  /\ Within(ScaledError(plan, folded, (m1 * m2) % plan.t), b)
         /\ 2 * b < Modulus(plan) /\ plaintext # <<>> =>
              plaintext = [ok |-> TRUE, value |-> (m1 * m2) % plan.t]
<1> DEFINE q == Modulus(plan)
           t == plan.t
           g == (q - 1) \div 2
           m == (m1 * m2) % t
<1>1. PlanInv /\ PlaintextInv
  BY DEF NoiseInv, FoldInv, MultiplyInv
<1>2. IsPlan(plan)
  BY <1>1, PlanInvIs
<1>3. q \in Nat /\ q > 0 /\ q % 2 = 1
  BY <1>2, PlanNumbers
<1>4. t \in Nat /\ t > 0
  BY <1>2 DEF IsPlan
<1>5. /\ d \in Nat /\ OddFrom(plan.t, d) /\ f \in Nat /\ f = FreshBoundOf(plan)
      /\ ProductBoundOf(plan.t, d, f) \in Nat /\ SwitchErrorOf(plan) \in Nat
  BY DEF CertifiedBy
<1>6. 2 * f < q
  OBVIOUS
<1>7. g \in Nat /\ q = 2 * g + 1
  <2> HIDE DEF q
  <2> QED BY <1>3
<1>8. f <= g
  <2> HIDE DEF q, g
  <2> QED BY <1>5, <1>6, <1>7
<1>9. OddFrom(q, g)
  BY <1>7 DEF OddFrom
<1> HIDE DEF g
<1>10. ReadsWithin(plan, folded, sk, (m1 * m2) % plan.t,
                   ProductBoundOf(plan.t, d, f) + plan.t * SwitchErrorOf(plan))
  BY <1>5, <1>7, <1>8, <1>9, FoldedProduct
<1>11. b \in Nat
  <2> DEFINE x == ProductBoundOf(plan.t, d, f)
             y == SwitchErrorOf(plan)
  <2>1. x \in Nat /\ y \in Nat /\ b = x + t * y
    BY <1>5
  <2> HIDE DEF x, y, t
  <2>2. t * y \in Nat
    BY <1>4, <2>1
  <2> QED BY <2>1, <2>2
<1>12. m \in 0 .. t - 1
  <2>1. m1 \in Int /\ m2 \in Int
    BY <1>4
  <2> DEFINE mm == m1 * m2
  <2>2. mm \in Int
    BY <2>1
  <2> HIDE DEF mm, t
  <2>3. mm % t \in 0 .. t - 1
    BY <1>4, <2>2, Division
  <2> QED BY <2>3 DEF mm, t
<1>13. m \in Int
  <2> HIDE DEF m, t
  <2> QED BY <1>4, <1>12
<1>14. ReadsWithin(plan, folded, sk, m, b)
  BY <1>10
<1> HIDE DEF m
<1>15. PICK r \in Polynomials :
         Phase(plan, folded, sk) = InRing(plan.main, r) /\ IsMessageWithin(plan.t, Modulus(plan), r, m, b)
  BY <1>14 DEF ReadsWithin
<1>16. Within(ScaledError(plan, folded, m), b)
  BY <1>2, <1>11, <1>13, <1>15, ErrorIsWithin
<1>17. ASSUME 2 * b < Modulus(plan), plaintext # <<>>
       PROVE  plaintext = [ok |-> TRUE, value |-> m]
  <2> DEFINE z == Quotient(plan.t * Whole(plan, At(Phase(plan, folded, sk), 0)), Modulus(plan)) % plan.t
  <2>1. z = m
    BY <1>2, <1>11, <1>12, <1>15, <1>17, DecryptsToMessage
  <2>2. plaintext = [ok |-> TRUE, value |-> z]
    BY <1>1, <1>17 DEF PlaintextInv
  <2> HIDE DEF z
  <2> QED BY <2>1, <2>2
<1> QED BY <1>16, <1>17 DEF m

\* The invariant says what the certificate promises.
LEMMA CertificateFollows == NoiseInv => CertificateCoversNoise
<1> SUFFICES ASSUME NoiseInv PROVE CertificateCoversNoise
  OBVIOUS
<1>1. /\ FoldInv /\ MultiplyInv /\ PlanInv /\ OperandsInv /\ TensorInv
  BY DEF NoiseInv, FoldInv, MultiplyInv
<1>2. FoldingAddsOnlyNoise
  BY <1>1, FoldingFollows
<1> DEFINE fresh == Certified(plan)!FreshBound
           product == Certified(plan)!MultiplyBound(fresh, fresh)
           encrypted == \A o \in DOMAIN operands : operands[o].plain # {}
           message(o) == CHOOSE m \in operands[o].plain : TRUE
           m12 == (message(1) * message(2)) % plan.t
           First == \A o \in DOMAIN operands :
                      operands[o].plain # {} /\ tensor = <<>> =>
                        Within(ScaledError(plan, operands[o].ct, message(o)), fresh)
           Second == encrypted /\ folded # <<>> =>
                       /\ Within(ScaledError(plan, folded, m12), product)
                       /\ Certified(plan)!Admitted(product) /\ plaintext # <<>> =>
                            plaintext = [ok |-> TRUE, value |-> m12]
<1>3. ASSUME plan.t > 2, plan.t % 2 = 1, Certified(plan)!Admitted(fresh) PROVE First /\ Second
  <2>1. PICK d \in Nat, f \in Nat : CertifiedBy(plan, d, f)
    BY <1>1, <1>3, CertifiedHere
  <2>2. /\ fresh = f
        /\ Certified(plan)!MultiplyBound(f, f) = ProductBoundOf(plan.t, d, f) + plan.t * SwitchErrorOf(plan)
        /\ \A a : Certified(plan)!Admitted(a) <=> 2 * a < Modulus(plan)
    BY <2>1 DEF CertifiedBy
  <2>3. DOMAIN operands = 1 .. Len(operands)
    <3> DEFINE R == [ct : Canonical(plan), plain : SUBSET Int]
    <3>1. operands \in Seq(R)
      BY <1>1 DEF OperandsInv
    <3> HIDE DEF R
    <3> QED BY <3>1
  <2>4. product = ProductBoundOf(plan.t, d, f) + plan.t * SwitchErrorOf(plan)
    BY <2>2
  <2>5. 2 * f < Modulus(plan)
    BY <1>3, <2>2
  <2> HIDE DEF fresh, product
  <2>6. First
    <3>1. ASSUME NEW o \in DOMAIN operands, operands[o].plain # {}
          PROVE  Within(ScaledError(plan, operands[o].ct, message(o)), fresh)
      <4>1. o \in 1 .. Len(operands)
        BY <2>3
      <4>2. Within(ScaledError(plan, operands[o].ct, message(o)), f)
        BY <2>1, <3>1, <4>1, OperandIsWithin
      <4> QED BY <2>2, <4>2
    <3> QED BY <3>1
  <2>7. ASSUME encrypted, folded # <<>>
        PROVE  /\ Within(ScaledError(plan, folded, m12), product)
               /\ Certified(plan)!Admitted(product) /\ plaintext # <<>> =>
                    plaintext = [ok |-> TRUE, value |-> m12]
    <3>1. Len(operands) = 2
      BY <1>1, <2>7 DEF TensorInv, FoldInv
    <3>2. 1 \in 1 .. Len(operands) /\ 2 \in 1 .. Len(operands)
      BY <3>1
    <3>3. operands[1].plain # {} /\ operands[2].plain # {}
      BY <2>3, <2>7, <3>2
    <3>4. PICK m1 \in 0 .. plan.t - 1 :
            operands[1].plain = {m1} /\ IsFresh(plan, operands[1].ct, sk, m1)
      BY <3>2, <3>3, OperandsRead
    <3>5. PICK m2 \in 0 .. plan.t - 1 :
            operands[2].plain = {m2} /\ IsFresh(plan, operands[2].ct, sk, m2)
      BY <3>2, <3>3, OperandsRead
    <3>6. message(1) = m1 /\ message(2) = m2
      BY <3>4, <3>5, OnlyOne
    <3>7. m12 = (m1 * m2) % plan.t
      BY <3>6
    <3> HIDE DEF m12
    <3>8. /\ Within(ScaledError(plan, folded, (m1 * m2) % plan.t), product)
          /\ 2 * product < Modulus(plan) /\ plaintext # <<>> =>
               plaintext = [ok |-> TRUE, value |-> (m1 * m2) % plan.t]
      BY <2>1, <2>4, <2>5, <2>7, <3>4, <3>5, ProductIsWithin
    <3>9. Certified(plan)!Admitted(product) <=> 2 * product < Modulus(plan)
      BY <2>2
    <3> QED BY <3>7, <3>8, <3>9
  <2>8. Second
    BY <2>7
  <2> QED BY <2>6, <2>8
<1>4. plan.t > 2 /\ plan.t % 2 = 1 /\ Certified(plan)!Admitted(fresh) => First /\ Second
  BY <1>3
<1> HIDE DEF First, Second
<1>5. FoldingAddsOnlyNoise /\ (plan.t > 2 /\ plan.t % 2 = 1 /\ Certified(plan)!Admitted(fresh) => First /\ Second)
  BY <1>2, <1>4
<1> QED BY <1>5, Zenon DEF CertificateCoversNoise, First, Second

\* The bounds of the certified evaluator cover the noise that the arithmetic
\* really makes: for every accepted system, degree, secret and drawn sample, a
\* fresh ciphertext is within the fresh bound, the folded product of two within
\* the product bound, and if that was admitted it decrypts to the product of the
\* messages (noise/certified.rs fresh, multiply, admit; exact_mul.rs).
THEOREM NoiseStaysCertified == MultiplySpec => []CertificateCoversNoise
<1>1. MultiplyInit => NoiseInv
  <2>1. MultiplyInit => FoldInv
    BY MultiplyInitial DEF FoldInv, MultiplyInit
  <2>2. MultiplyInit => tape \in Tapes /\ operands = <<>>
    BY DEF MultiplyInit
  <2> QED BY <2>1, <2>2, NothingYet DEF NoiseInv
<1>2. NoiseInv /\ [MultiplyNext]_multiplyVars => NoiseInv'
  BY NoiseInvIsInductive
<1>3. NoiseInv => CertificateCoversNoise
  BY CertificateFollows
<1> QED BY <1>1, <1>2, <1>3, PTL DEF MultiplySpec

=============================================================================
