-------------------------- MODULE PhaseClockProofs --------------------------
(***************************************************************************)
(* A proof that a refresh through the phase clock keeps the message, for   *)
(* all moduli, degrees, secrets, masks, errors and plans that the          *)
(* constructors accept.  The rotation of a coefficient is, up to half a    *)
(* unit for every term of the secret, the center of its carry; the chart   *)
(* has one value there; the table, turned step by step by encrypted trits, *)
(* brings that value to its constant term; the trace leaves that term only;*)
(* and the public part adds the rest.  On the way back, only the class of  *)
(* the work ring's coefficients matters.                                   *)
(***************************************************************************)
EXTENDS MultiplicationProofs, PhaseClock, SequenceTheorems

-----------------------------------------------------------------------------
(* Turning round: X ^ n is -1.                                              *)

\* The two rings: degrees are powers of two, one a multiple of the other.
LEMMA BootIs ==
  /\ BootN \in Nat /\ BootN >= 2
  /\ Ratio \in Nat /\ Ratio >= 1 /\ BootN = Ratio * N
  /\ Turn = 2 * BootN /\ Turn \in Nat /\ Turn > 0
<1>1. PICK e \in 1 .. 20 : BootN = TwoTo[e]
  BY PhaseClockAssumption
<1>2. PICK d \in 1 .. 15 : N = TwoTo[d]
  BY ExactMultiplicationAssumption
<1>3. TwoTo[e] \in Nat /\ TwoTo[e] >= 2
  <2>1. e - 1 \in Nat /\ e = (e - 1) + 1
    OBVIOUS
  <2>2. TwoTo[e] = 2 * TwoTo[e - 1] /\ TwoTo[e - 1] \in Nat \ {0}
    BY <2>1, TwoToIs
  <2> DEFINE h == TwoTo[e - 1]
  <2>3. TwoTo[e] = 2 * h /\ h \in Nat /\ h > 0
    BY <2>2
  <2> HIDE DEF h
  <2> QED BY <2>3
<1>4. d <= e
  <2>1. SUFFICES ASSUME e < d PROVE FALSE
    OBVIOUS
  <2>2. e + 1 <= d /\ e \in Nat /\ d \in Nat /\ e + 1 \in Nat
    BY <2>1
  <2>3. TwoTo[e + 1] <= TwoTo[d] /\ TwoTo[e + 1] = 2 * TwoTo[e]
    BY <2>2, TwoToGrows, TwoToIs
  <2> DEFINE x == TwoTo[e]
  <2>4. x \in Nat /\ x >= 2 /\ 2 * x <= N /\ N \in Nat /\ BootN = x /\ BootN >= N
    BY <2>3, <1>1, <1>2, <1>3, DegreeIs, PhaseClockAssumption
  <2> HIDE DEF x
  <2> QED BY <2>4
<1>5. TwoTo[e] = TwoTo[d] * TwoTo[e - d] /\ e - d \in Nat /\ TwoTo[e - d] \in Nat \ {0}
  <2>1. d \in Nat /\ e \in Nat /\ e - d \in Nat
    BY <1>4
  <2> QED BY <2>1, <1>4, TwoToGrows, TwoToIs
<1> DEFINE r == TwoTo[e - d]
<1>6. BootN = N * r /\ r \in Nat /\ r >= 1 /\ N \in Nat /\ N >= 2
  BY <1>1, <1>2, <1>5, DegreeIs
<1> HIDE DEF r
<1>7. Ratio = r
  <2>1. N * r = N * r + 0 /\ 0 \in 0 .. N - 1 /\ r \in Int
    BY <1>6
  <2>2. (N * r + 0) \div N = r
    BY <2>1, <1>6, QuotientIs
  <2>3. BootN \div N = r
    BY <2>1, <2>2, <1>6
  <2> QED BY <2>3 DEF Ratio
<1>8. BootN = Ratio * N
  BY <1>6, <1>7
<1>9. BootN \in Nat /\ BootN >= 2
  BY <1>1, <1>3
<1> QED BY <1>6, <1>7, <1>8, <1>9 DEF Turn

\* The coefficient of X ^ i, for any integer i, of a polynomial of degree n:
\* X ^ n is -1.
Circled(n, p, i) ==
  LET from == i % (2 * n) IN IF from < n THEN p[from] ELSE -p[from - n]

\* Going round once changes the sign
LEMMA CircledIs ==
  ASSUME NEW n \in Nat, n > 0, NEW p \in [0 .. n - 1 -> Int]
  PROVE  /\ \A i \in Int : Circled(n, p, i) \in Int
         /\ \A i \in 0 .. n - 1 : Circled(n, p, i) = p[i]
         /\ \A i \in -n .. -1 : Circled(n, p, i) = -p[i + n]
<1>1. 2 * n \in Nat /\ 2 * n > 0
  OBVIOUS
<1>2. ASSUME NEW i \in Int PROVE Circled(n, p, i) \in Int
  <2> DEFINE from == i % (2 * n)
  <2>1. from \in 0 .. 2 * n - 1
    BY <1>1, Division
  <2> HIDE DEF from
  <2>2. CASE from < n
    BY <2>1, <2>2 DEF Circled, from
  <2>3. CASE ~ (from < n)
    <3>1. from - n \in 0 .. n - 1
      BY <2>1, <2>3
    <3>2. -p[from - n] \in Int
      BY <3>1
    <3> QED BY <2>3, <3>2 DEF Circled, from
  <2> QED BY <2>2, <2>3
<1>3. ASSUME NEW i \in 0 .. n - 1 PROVE Circled(n, p, i) = p[i]
  <2>1. i \in Int /\ i \in 0 .. 2 * n - 1 /\ i < n
    OBVIOUS
  <2>2. Same(i, i, 2 * n)
    BY <1>1, SameReflexive
  <2>3. i % (2 * n) = i
    BY <2>1, <2>2, <1>1, ResidueIs
  <2> QED BY <2>1, <2>3 DEF Circled
<1>4. ASSUME NEW i \in -n .. -1 PROVE Circled(n, p, i) = -p[i + n]
  <2>1. i \in Int /\ i + 2 * n \in 0 .. 2 * n - 1 /\ ~ (i + 2 * n < n)
    BY SMT
  <2>2. Same(i, i + 2 * n, 2 * n)
    <3>1. i = (i + 2 * n) + (2 * n) * (-1)
      BY SMT
    <3> QED BY <3>1 DEF Same
  <2>3. i % (2 * n) = i + 2 * n
    BY <2>1, <2>2, <1>1, ResidueIs
  <2>4. (i + 2 * n) - n = i + n
    BY SMT
  <2> QED BY <2>1, <2>3, <2>4 DEF Circled
<1> QED BY <1>2, <1>3, <1>4

\* and going round twice changes nothing.
LEMMA CircledAgain ==
  ASSUME NEW n \in Nat, n > 0, NEW p, NEW i \in Int, NEW j \in Int, Same(i, j, 2 * n)
  PROVE  Circled(n, p, i) = Circled(n, p, j)
<1>1. 2 * n \in Nat /\ 2 * n > 0
  OBVIOUS
<1>2. i % (2 * n) = j % (2 * n)
  BY <1>1, SameResidue
<1> QED BY <1>2 DEF Circled

\* Half way round is the opposite.
LEMMA CircledHalf ==
  ASSUME NEW n \in Nat, n > 0, NEW p \in [0 .. n - 1 -> Int], NEW i \in Int
  PROVE  Circled(n, p, i + n) = -Circled(n, p, i) /\ Circled(n, p, i - n) = -Circled(n, p, i)
<1>1. 2 * n \in Nat /\ 2 * n > 0
  OBVIOUS
<1>2. ASSUME NEW j \in Int PROVE Circled(n, p, j + n) = -Circled(n, p, j)
  <2> DEFINE from == j % (2 * n)
             x == IF from < n THEN from ELSE from - 2 * n
  <2>1. from \in 0 .. 2 * n - 1 /\ Same(j, from, 2 * n)
    BY <1>1, ResidueIsSame
  <2> HIDE DEF from
  <2>2. from \in Int
    BY <2>1
  <2>3. Same(j + n, from + n, 2 * n)
    BY <2>1, <2>2, <1>1, SameSum, SameReflexive
  <2>4. Circled(n, p, j) = Circled(n, p, from)
    BY <2>1, <2>2, CircledAgain
  <2>5. CASE from < n
    <3>1. from \in 0 .. n - 1 /\ from - n \in -n .. -1 /\ (from - n) + n = from /\ from - n \in Int
      BY <2>1, <2>5
    <3>2. Same(from + n, from - n, 2 * n)
      <4>1. from + n = (from - n) + (2 * n) * 1
        BY <2>2
      <4>2. 1 \in Int
        OBVIOUS
      <4> QED BY <4>1, <4>2, Zenon DEF Same
    <3>3. Same(j + n, from - n, 2 * n)
      <4>1. 2 * n \in Int /\ j + n \in Int /\ from + n \in Int /\ from - n \in Int
        BY <2>2
      <4> QED BY <4>1, <2>3, <3>2, SameTransitive
    <3>4. Circled(n, p, j + n) = Circled(n, p, from - n)
      BY <3>1, <3>3, CircledAgain
    <3>5. Circled(n, p, from - n) = -p[from]
      BY <3>1, CircledIs
    <3>6. Circled(n, p, from) = p[from]
      BY <3>1, CircledIs
    <3> QED BY <3>4, <3>5, <3>6, <2>4
  <2>6. CASE ~ (from < n)
    <3> DEFINE y == from - n
    <3>1. y \in 0 .. n - 1 /\ y - n \in -n .. -1 /\ (y - n) + n = y /\ y \in Int /\ y - n \in Int
          /\ from = y + n
      BY <2>1, <2>6
    <3> HIDE DEF y
    <3>2. Same(from, y - n, 2 * n) /\ Same(from + n, y, 2 * n)
      <4>1. from = (y - n) + (2 * n) * 1 /\ from + n = y + (2 * n) * 1
        BY <3>1
      <4>2. 1 \in Int
        OBVIOUS
      <4> QED BY <4>1, <4>2, Zenon DEF Same
    <3>3. Same(j + n, y, 2 * n)
      <4>1. 2 * n \in Int /\ j + n \in Int /\ from + n \in Int
        BY <2>2
      <4> QED BY <4>1, <3>1, <2>3, <3>2, SameTransitive
    <3>4. Circled(n, p, j + n) = Circled(n, p, y)
      BY <3>1, <3>3, CircledAgain
    <3>5. Circled(n, p, from) = Circled(n, p, y - n)
      BY <3>1, <3>2, <2>2, CircledAgain
    <3>6. Circled(n, p, y - n) = -p[y] /\ Circled(n, p, y) = p[y] /\ p[y] \in Int
      BY <3>1, CircledIs
    <3>7. -(-p[y]) = p[y]
      BY <3>6
    <3> QED BY <3>4, <3>5, <3>6, <3>7, <2>4
  <2> QED BY <2>5, <2>6
<1>3. Circled(n, p, (i - n) + n) = -Circled(n, p, i - n) /\ (i - n) + n = i /\ i - n \in Int
  BY <1>2
<1>4. Circled(n, p, i - n) \in Int
  BY <1>3, CircledIs
<1>5. Circled(n, p, i) = -Circled(n, p, i - n)
  BY <1>3, Zenon
<1>6. -Circled(n, p, i) = Circled(n, p, i - n)
  BY <1>4, <1>5
<1> QED BY <1>2, <1>6

\* A product by a power of X reads coefficients further back.
LEMMA ShiftIs ==
  ASSUME NEW n \in Nat, n > 0, NEW p \in [0 .. n - 1 -> Int], NEW e \in Int
  PROVE  /\ ShiftBy(n, p, e) \in [0 .. n - 1 -> Int]
         /\ \A k \in 0 .. n - 1 : ShiftBy(n, p, e)[k] = Circled(n, p, k - e)
<1>1. \A k \in 0 .. n - 1 : ShiftBy(n, p, e)[k] = Circled(n, p, k - e)
  BY DEF ShiftBy, Circled
<1>2. \A k \in 0 .. n - 1 : k - e \in Int
  OBVIOUS
<1>3. \A k \in 0 .. n - 1 : ShiftBy(n, p, e)[k] \in Int
  BY <1>1, <1>2, CircledIs
<1>4. ShiftBy(n, p, e) = [k \in 0 .. n - 1 |-> ShiftBy(n, p, e)[k]]
  BY DEF ShiftBy
<1> QED BY <1>1, <1>3, <1>4

\* The same for any coefficient, however far round
LEMMA CircledOfShift ==
  ASSUME NEW n \in Nat, n > 0, NEW p \in [0 .. n - 1 -> Int], NEW e \in Int, NEW i \in Int
  PROVE  Circled(n, ShiftBy(n, p, e), i) = Circled(n, p, i - e)
<1>1. 2 * n \in Nat /\ 2 * n > 0 /\ 2 * n \in Int /\ i - e \in Int
  OBVIOUS
<1> DEFINE from == i % (2 * n)
           s == ShiftBy(n, p, e)
<1>2. from \in 0 .. 2 * n - 1 /\ Same(i, from, 2 * n) /\ Same(from, i, 2 * n)
  BY <1>1, ResidueIsSame
<1> HIDE DEF from
<1>3. from \in Int /\ from - e \in Int
  BY <1>2
<1>4. Same(from - e, i - e, 2 * n)
  BY <1>1, <1>2, <1>3, SameSum, SameReflexive
<1>5. Circled(n, p, from - e) = Circled(n, p, i - e)
  BY <1>1, <1>3, <1>4, CircledAgain
<1>6. CASE from < n
  <2>1. from \in 0 .. n - 1
    BY <1>2, <1>6
  <2>2. s[from] = Circled(n, p, from - e)
    BY <2>1, ShiftIs
  <2> QED BY <2>2, <1>5, <1>6 DEF Circled, from
<1>7. CASE ~ (from < n)
  <2> DEFINE y == from - n
  <2>1. y \in 0 .. n - 1 /\ y - e \in Int /\ y - e = (from - e) - n
    BY <1>2, <1>7
  <2>2. s[y] = Circled(n, p, y - e)
    BY <2>1, ShiftIs
  <2>3. Circled(n, p, y - e) = -Circled(n, p, from - e)
    BY <2>1, <1>3, CircledHalf
  <2>4. Circled(n, p, from - e) \in Int
    BY <1>3, CircledIs
  <2>5. -s[y] = Circled(n, p, from - e)
    BY <2>2, <2>3, <2>4
  <2>6. Circled(n, s, i) = -s[y]
    BY <1>7 DEF Circled, from
  <2> QED BY <2>5, <2>6, <1>5
<1> QED BY <1>6, <1>7

\* Shifts add.
LEMMA ShiftOfShift ==
  ASSUME NEW n \in Nat, n > 0, NEW p \in [0 .. n - 1 -> Int], NEW e \in Int, NEW d \in Int
  PROVE  ShiftBy(n, ShiftBy(n, p, e), d) = ShiftBy(n, p, e + d)
<1> DEFINE s == ShiftBy(n, p, e)
<1>1. s \in [0 .. n - 1 -> Int]
  BY ShiftIs
<1>2. ASSUME NEW k \in 0 .. n - 1 PROVE ShiftBy(n, s, d)[k] = ShiftBy(n, p, e + d)[k]
  <2>1. k - d \in Int /\ e + d \in Int /\ (k - d) - e = k - (e + d)
    OBVIOUS
  <2>2. ShiftBy(n, s, d)[k] = Circled(n, s, k - d)
    BY <1>1, ShiftIs
  <2>3. Circled(n, s, k - d) = Circled(n, p, (k - d) - e)
    BY <2>1, CircledOfShift
  <2>4. ShiftBy(n, p, e + d)[k] = Circled(n, p, k - (e + d))
    BY <2>1, ShiftIs
  <2> QED BY <2>1, <2>2, <2>3, <2>4
<1>3. ShiftBy(n, s, d) \in [0 .. n - 1 -> Int] /\ ShiftBy(n, p, e + d) \in [0 .. n - 1 -> Int]
  <2>1. e + d \in Int
    OBVIOUS
  <2> QED BY <1>1, <2>1, ShiftIs
<1> HIDE DEF s
<1>4. ShiftBy(n, s, d) = ShiftBy(n, p, e + d)
  BY <1>2, <1>3
<1> QED BY <1>4 DEF s

-----------------------------------------------------------------------------
(* Numbers that are one another up to a bounded error and multiples of q.   *)

\* x is y and something at most b, up to multiples of q.
Drifts(x, y, b, q) ==
  \E n \in Int, v \in Int : x = y + n + q * v /\ -b <= n /\ n <= b

\* Drifting, from its witnesses
LEMMA DriftIs ==
  ASSUME NEW x \in Int, NEW y \in Int, NEW b \in Int, NEW q \in Int,
         NEW n \in Int, NEW v \in Int, x = y + n + q * v, -b <= n, n <= b
  PROVE  Drifts(x, y, b, q)
  BY DEF Drifts

\* Sums and differences
LEMMA DriftsSum ==
  ASSUME NEW x \in Int, NEW y \in Int, NEW b \in Int, NEW q \in Int, Drifts(x, y, b, q),
         NEW u \in Int, NEW w \in Int, NEW c \in Int, Drifts(u, w, c, q)
  PROVE  Drifts(x + u, y + w, b + c, q) /\ Drifts(x - u, y - w, b + c, q)
<1>1. PICK n \in Int, v \in Int : x = y + n + q * v /\ -b <= n /\ n <= b
  BY DEF Drifts
<1>2. PICK m \in Int, z \in Int : u = w + m + q * z /\ -c <= m /\ m <= c
  BY DEF Drifts
<1>3. q * (v + z) = q * v + q * z /\ q * (v - z) = q * v - q * z
  BY SMT
<1>4. q * v \in Int /\ q * z \in Int /\ q * (v + z) \in Int /\ q * (v - z) \in Int
  OBVIOUS
<1> DEFINE s == q * v
           r == q * z
<1>5. x = y + n + s /\ u = w + m + r /\ s \in Int /\ r \in Int
      /\ q * (v + z) = s + r /\ q * (v - z) = s - r
  BY <1>1, <1>2, <1>3, <1>4
<1> HIDE DEF s, r
<1>6. x + u = (y + w) + (n + m) + q * (v + z) /\ -(b + c) <= n + m /\ n + m <= b + c
  BY <1>1, <1>2, <1>5
<1>7. x - u = (y - w) + (n - m) + q * (v - z) /\ -(b + c) <= n - m /\ n - m <= b + c
  BY <1>1, <1>2, <1>5
<1>8. n + m \in Int /\ n - m \in Int /\ v + z \in Int /\ v - z \in Int /\ b + c \in Int
      /\ x + u \in Int /\ y + w \in Int /\ x - u \in Int /\ y - w \in Int
  OBVIOUS
<1>9. Drifts(x + u, y + w, b + c, q)
  BY <1>6, <1>8, DriftIs
<1>10. Drifts(x - u, y - w, b + c, q)
  BY <1>7, <1>8, DriftIs
<1> QED BY <1>9, <1>10

\* By nothing
LEMMA DriftsNone ==
  ASSUME NEW x \in Int, NEW b \in Nat, NEW q \in Int
  PROVE  Drifts(x, x, b, q)
<1>1. x = x + 0 + q * 0 /\ -b <= 0 /\ 0 <= b /\ 0 \in Int /\ b \in Int
  OBVIOUS
<1> QED BY <1>1, DriftIs

\* By a number that is bounded
LEMMA DriftsBy ==
  ASSUME NEW y \in Int, NEW b \in Nat, NEW q \in Int, NEW n \in -b .. b
  PROVE  Drifts(y + n, y, b, q)
<1>1. y + n = y + n + q * 0 /\ -b <= n /\ n <= b /\ 0 \in Int /\ b \in Int /\ n \in Int
      /\ y + n \in Int
  OBVIOUS
<1> QED BY <1>1, DriftIs

\* Up to multiples of q
LEMMA DriftsSame ==
  ASSUME NEW x \in Int, NEW y \in Int, NEW q \in Int, Same(x, y, q)
  PROVE  Drifts(x, y, 0, q)
<1>1. PICK k \in Int : x = y + q * k
  BY DEF Same
<1> DEFINE s == q * k
<1>2. s \in Int /\ x = y + s
  BY <1>1
<1> HIDE DEF s
<1>3. x = y + 0 + s
  BY <1>2
<1>4. x = y + 0 + q * k /\ -0 <= 0 /\ 0 <= 0 /\ 0 \in Int
  BY <1>3 DEF s
<1> QED BY <1>4, DriftIs

\* Drifts add.
LEMMA DriftsChain ==
  ASSUME NEW x \in Int, NEW y \in Int, NEW z \in Int, NEW b \in Int, NEW c \in Int, NEW q \in Int,
         Drifts(x, y, b, q), Drifts(y, z, c, q)
  PROVE  Drifts(x, z, b + c, q)
<1>1. Drifts(x + y, y + z, b + c, q)
  BY DriftsSum
<1>2. Drifts(y, y, 0, q)
  BY DriftsNone
<1>3. x + y \in Int /\ y + z \in Int /\ b + c \in Int /\ 0 \in Int
  OBVIOUS
<1>4. Drifts((x + y) - y, (y + z) - y, (b + c) + 0, q)
  BY <1>1, <1>2, <1>3, DriftsSum
<1>5. (x + y) - y = x /\ (y + z) - y = z /\ (b + c) + 0 = b + c
  OBVIOUS
<1> QED BY <1>4, <1>5

\* A larger bound
LEMMA DriftsMore ==
  ASSUME NEW x \in Int, NEW y \in Int, NEW b \in Int, NEW c \in Int, NEW q \in Int,
         Drifts(x, y, b, q), b <= c
  PROVE  Drifts(x, y, c, q)
<1>1. PICK n \in Int, v \in Int : x = y + n + q * v /\ -b <= n /\ n <= b
  BY DEF Drifts
<1>2. -c <= n /\ n <= c
  BY <1>1
<1> QED BY <1>1, <1>2, DriftIs

\* The opposites
LEMMA DriftsNegative ==
  ASSUME NEW x \in Int, NEW y \in Int, NEW b \in Int, NEW q \in Int, Drifts(x, y, b, q)
  PROVE  Drifts(-x, -y, b, q)
<1>1. PICK n \in Int, v \in Int : x = y + n + q * v /\ -b <= n /\ n <= b
  BY DEF Drifts
<1>2. q * (-v) = -(q * v)
  OBVIOUS
<1> DEFINE s == q * v
<1>3. s \in Int /\ x = y + n + s /\ q * (-v) = -s
  BY <1>1, <1>2
<1> HIDE DEF s
<1>4. -x = -y + (-n) + q * (-v) /\ -b <= -n /\ -n <= b
  BY <1>1, <1>3
<1>5. -x \in Int /\ -y \in Int /\ -n \in Int /\ -v \in Int
  OBVIOUS
<1> QED BY <1>4, <1>5, DriftIs

\* The residues
LEMMA DriftsResidue ==
  ASSUME NEW x \in Int, NEW y \in Int, NEW b \in Int, NEW q \in Nat, q > 0, Drifts(x, y, b, q)
  PROVE  Drifts(x % q, y, b, q) /\ x % q \in Int
<1>1. x % q \in 0 .. q - 1 /\ Same(x % q, x, q)
  BY ResidueIsSame
<1>2. x % q \in Int /\ q \in Int /\ 0 + b = b
  BY <1>1
<1>3. Drifts(x % q, x, 0, q)
  BY <1>1, <1>2, DriftsSame
<1>4. Drifts(x % q, y, 0 + b, q)
  BY <1>2, <1>3, DriftsChain
<1> QED BY <1>2, <1>4

\* A multiple
LEMMA DriftsScaled ==
  ASSUME NEW x \in Int, NEW y \in Int, NEW b \in Int, NEW q \in Int, Drifts(x, y, b, q),
         NEW t \in Nat
  PROVE  Drifts(t * x, t * y, t * b, t * q)
<1>1. PICK n \in Int, v \in Int : x = y + n + q * v /\ -b <= n /\ n <= b
  BY DEF Drifts
<1>2. t * x = t * y + t * n + (t * q) * v
  BY <1>1
<1>3. -(t * b) <= t * n /\ t * n <= t * b
  <2>1. t * (n + b) >= 0 /\ t * (b - n) >= 0
    <3>1. n + b \in Nat /\ b - n \in Nat
      BY <1>1
    <3> DEFINE u == n + b
               w == b - n
    <3> HIDE DEF u, w
    <3>2. t * u >= 0 /\ t * w >= 0
      BY <3>1 DEF u, w
    <3> QED BY <3>2 DEF u, w
  <2>2. t * (n + b) = t * n + t * b /\ t * (b - n) = t * b - t * n
    BY SMT
  <2> DEFINE u == t * n
             w == t * b
  <2>3. u \in Int /\ w \in Int /\ u + w >= 0 /\ w - u >= 0
    BY <2>1, <2>2
  <2> HIDE DEF u, w
  <2>4. -w <= u /\ u <= w
    BY <2>3
  <2> QED BY <2>4 DEF u, w
<1>4. t * x \in Int /\ t * y \in Int /\ t * b \in Int /\ t * q \in Int /\ t * n \in Int
  OBVIOUS
<1> QED BY <1>2, <1>3, <1>4, DriftIs

\* Totals of larger terms
LEMMA TotalIsMonotone ==
  ASSUME NEW D, IsFiniteSet(D), NEW f \in [D -> Int], NEW g \in [D -> Int],
         \A i \in D : f[i] <= g[i]
  PROVE  Total(f) <= Total(g)
<1> DEFINE h == [i \in D |-> g[i] - f[i]]
<1>1. h \in [D -> Nat]
  OBVIOUS
<1>2. h \in [D -> Int] /\ IsCombination(D, h, 1, g, -1, f)
  BY <1>1 DEF IsCombination
<1> HIDE DEF h
<1>3. Total(h) = 1 * Total(g) + (-1) * Total(f)
  BY <1>2, TotalIsLinear
<1>4. Total(h) \in Nat /\ Total(g) \in Int /\ Total(f) \in Int
  BY <1>1, TotalIsNat, TotalIsInt
<1> QED BY <1>3, <1>4

\* Totals
LEMMA DriftsTotal ==
  ASSUME NEW D, IsFiniteSet(D), NEW f \in [D -> Int], NEW g \in [D -> Int],
         NEW b \in [D -> Int], NEW q \in Int, \A i \in D : Drifts(f[i], g[i], b[i], q)
  PROVE  Drifts(Total(f), Total(g), Total(b), q)
<1> DEFINE So(i, p) == p \in Int \X Int /\ f[i] = g[i] + p[1] + q * p[2] /\ -b[i] <= p[1] /\ p[1] <= b[i]
           pair == [i \in D |-> CHOOSE p : So(i, p)]
           n == [i \in D |-> pair[i][1]]
           v == [i \in D |-> pair[i][2]]
           s == [i \in D |-> n[i] + q * v[i]]
           low == [i \in D |-> -b[i]]
<1>1. ASSUME NEW i \in D PROVE So(i, pair[i])
  <2>1. PICK m \in Int, z \in Int : f[i] = g[i] + m + q * z /\ -b[i] <= m /\ m <= b[i]
    BY DEF Drifts
  <2>2. So(i, <<m, z>>)
    BY <2>1
  <2> HIDE DEF So
  <2>3. \E p : So(i, p)
    BY <2>2
  <2> QED BY <2>3, Zenon
<1>2. \A i \in D : /\ n[i] \in Int /\ v[i] \in Int /\ f[i] = g[i] + n[i] + q * v[i]
                   /\ -b[i] <= n[i] /\ n[i] <= b[i]
  <2>1. \A i \in D : pair[i] \in Int \X Int
    BY <1>1
  <2> HIDE DEF pair
  <2>2. \A i \in D : n[i] = pair[i][1] /\ v[i] = pair[i][2]
    OBVIOUS
  <2> QED BY <1>1, <2>1, <2>2
<1> HIDE DEF pair
<1>3. n \in [D -> Int] /\ v \in [D -> Int]
  BY <1>2
<1>4. \A i \in D : n[i] \in Int /\ v[i] \in Int
  BY <1>2
<1> HIDE DEF n, v
<1>5. s \in [D -> Int] /\ IsCombination(D, s, 1, n, q, v)
  BY <1>4 DEF IsCombination
<1>6. \A i \in D : s[i] = n[i] + q * v[i]
  OBVIOUS
<1>7. low \in [D -> Int] /\ IsCombination(D, low, -1, b, 0, b)
  BY DEF IsCombination
<1> HIDE DEF s
<1>8. IsCombination(D, f, 1, g, 1, s)
  <2>1. ASSUME NEW i \in D PROVE f[i] = 1 * g[i] + 1 * s[i]
    <3> DEFINE z == q * v[i]
    <3>1. f[i] = g[i] + n[i] + z /\ s[i] = n[i] + z /\ z \in Int /\ n[i] \in Int /\ g[i] \in Int
      BY <1>2, <1>6, <1>4
    <3> HIDE DEF z
    <3> QED BY <3>1
  <2> QED BY <2>1 DEF IsCombination
<1>9. Total(s) = 1 * Total(n) + q * Total(v)
  BY <1>3, <1>5, TotalIsLinear
<1>10. Total(f) = 1 * Total(g) + 1 * Total(s)
  BY <1>5, <1>8, TotalIsLinear
<1>11. Total(low) = (-1) * Total(b) + 0 * Total(b)
  BY <1>7, TotalIsLinear
<1>12. Total(n) <= Total(b)
  BY <1>2, <1>3, TotalIsMonotone
<1>13. Total(low) <= Total(n)
  <2>1. \A i \in D : low[i] <= n[i]
    BY <1>2
  <2> HIDE DEF low
  <2> QED BY <1>3, <1>7, <2>1, TotalIsMonotone
<1> HIDE DEF low
<1>14. Total(f) \in Int /\ Total(g) \in Int /\ Total(s) \in Int /\ Total(n) \in Int
       /\ Total(v) \in Int /\ Total(b) \in Int
  BY <1>3, <1>5, TotalIsInt
<1> DEFINE z == q * Total(v)
<1>15. z \in Int /\ Total(s) = Total(n) + z
  BY <1>9, <1>14
<1> HIDE DEF z
<1>16. Total(f) = Total(g) + Total(n) + z /\ -Total(b) <= Total(n)
  BY <1>15, <1>10, <1>11, <1>13, <1>14
<1>17. Total(f) = Total(g) + Total(n) + q * Total(v)
  BY <1>16 DEF z
<1> QED BY <1>12, <1>14, <1>16, <1>17, DriftIs

\* The distance that the model measures is a drift.
LEMMA OffIs ==
  ASSUME NEW q \in Nat, q > 0, NEW t \in Nat, t > 0, NEW x \in Int, NEW m \in Int, NEW b \in Nat
  PROVE  Off(q, t, x, m) \in -b .. b <=> Drifts(t * x, q * m, b, t * q)
<1> DEFINE y == t * x
           z == q * m
           M == t * q
           d == y - z
<1>1. y \in Int /\ z \in Int /\ M \in Nat /\ M > 0 /\ d \in Int
  <2>1. t * q \in Nat /\ t * q > 0
    BY SMT
  <2> QED BY <2>1
<1>2. Off(q, t, x, m) = Nearest0(d, M)
  BY DEF Off
<1> HIDE DEF y, z, M, d
<1>3. d = y - z
  BY DEF d
<1>4. ASSUME Drifts(y, z, b, M) PROVE Nearest0(d, M) \in -b .. b
  <2>1. PICK n \in Int, v \in Int : y = z + n + M * v /\ -b <= n /\ n <= b
    BY <1>4 DEF Drifts
  <2> DEFINE s == M * v
  <2>2. s \in Int /\ y = z + n + s
    BY <1>1, <2>1
  <2> HIDE DEF s
  <2>3. d = n + s
    BY <1>1, <1>3, <2>2
  <2>4. Same(d, n, M)
    <3>1. d = n + M * v
      BY <2>3 DEF s
    <3> QED BY <3>1 DEF Same
  <2> QED BY <1>1, <2>1, <2>4, NearestIsLeast
<1>5. ASSUME Nearest0(d, M) \in -b .. b PROVE Drifts(y, z, b, M)
  <2> DEFINE r == d % M
             o == Nearest0(d, M)
  <2>1. r \in 0 .. M - 1 /\ Same(d, r, M)
    BY <1>1, ResidueIsSame
  <2>2. o = (IF 2 * r > M THEN r - M ELSE r)
    BY DEF Nearest0
  <2> HIDE DEF r, o
  <2>3. Same(d, o, M)
    <3>1. CASE 2 * r > M
      <4>1. o = r - M
        BY <2>2, <3>1
      <4>2. r \in Int /\ o \in Int /\ M \in Int
        BY <2>1, <4>1, <1>1
      <4>3. r = o + M * 1
        BY <4>1, <4>2
      <4>4. Same(r, o, M)
        BY <4>3 DEF Same
      <4> QED BY <2>1, <4>2, <4>4, <1>1, SameTransitive
    <3>2. CASE ~ (2 * r > M)
      BY <2>1, <2>2, <3>2
    <3> QED BY <3>1, <3>2
  <2>4. o \in Int /\ -b <= o /\ o <= b
    BY <1>5 DEF o
  <2>5. PICK k \in Int : d = o + M * k
    BY <2>3 DEF Same
  <2> DEFINE s == M * k
  <2>6. s \in Int /\ d = o + s
    BY <1>1, <2>5
  <2> HIDE DEF s
  <2>7. y = z + o + s
    BY <1>1, <1>3, <2>4, <2>6
  <2>8. y = z + o + M * k
    BY <2>7 DEF s
  <2>9. b \in Int /\ M \in Int
    BY <1>1
  <2> QED BY <1>1, <2>4, <2>8, <2>9, DriftIs
<1>6. Nearest0(d, M) \in -b .. b <=> Drifts(y, z, b, M)
  BY <1>4, <1>5
<1> QED BY <1>2, <1>6 DEF y, z, M

-----------------------------------------------------------------------------
(* The chart: what is read at a rotation.                                   *)

\* The centered residue for an odd modulus
LEMMA CenteredModIs ==
  ASSUME NEW t \in Nat, NEW h \in Nat, OddFrom(t, h), NEW v \in Int
  PROVE  /\ CenteredMod(v, t) \in -h .. h
         /\ Same(v, CenteredMod(v, t), t)
<1>1. t = 2 * h + 1 /\ t > 0
  BY DEF OddFrom
<1>2. t \div 2 = h
  <2>1. t = 2 * h + 1 /\ 1 \in 0 .. 2 - 1 /\ h \in Int /\ 2 \in Nat
    BY <1>1
  <2>2. (2 * h + 1) \div 2 = h
    BY <2>1, QuotientIs
  <2> QED BY <2>1, <2>2
<1> DEFINE r == v % t
           o == CenteredMod(v, t)
<1>3. r \in 0 .. t - 1 /\ Same(v, r, t)
  BY <1>1, ResidueIsSame
<1>4. o = (IF r > h THEN r - t ELSE r)
  BY <1>2 DEF CenteredMod
<1> HIDE DEF r, o
<1>5. CASE r > h
  <2>1. o = r - t /\ o \in -h .. h /\ o \in Int /\ r \in Int /\ t \in Int
    BY <1>1, <1>3, <1>4, <1>5
  <2>2. r = o + t * 1 /\ 1 \in Int
    BY <2>1
  <2>3. Same(r, o, t)
    BY <2>2, Zenon DEF Same
  <2>4. Same(v, o, t)
    BY <1>3, <2>1, <2>3, SameTransitive
  <2> QED BY <2>1, <2>4 DEF o
<1>6. CASE ~ (r > h)
  <2>1. o = r /\ o \in -h .. h
    BY <1>1, <1>3, <1>4, <1>6
  <2> QED BY <1>3, <2>1 DEF o
<1> QED BY <1>5, <1>6

\* There is one centered number in a class.
LEMMA CenteredAreOne ==
  ASSUME NEW t \in Nat, NEW h \in Nat, OddFrom(t, h), NEW x \in -h .. h, NEW y \in -h .. h,
         Same(x, y, t)
  PROVE  x = y
<1>1. t = 2 * h + 1 /\ t > 0
  BY DEF OddFrom
<1>2. PICK k \in Int : x = y + t * k
  BY DEF Same
<1>3. CASE k >= 1
  <2>1. t * k >= t
    BY <1>1, <1>3
  <2> QED BY <1>1, <1>2, <2>1
<1>4. CASE k <= -1
  <2>1. t * k <= -t
    BY <1>1, <1>4
  <2> QED BY <1>1, <1>2, <2>1
<1>5. CASE k = 0
  BY <1>2, <1>5
<1> QED BY <1>3, <1>4, <1>5

\* So the centered residue is found by being centered and in the class.
LEMMA CenteredModOf ==
  ASSUME NEW t \in Nat, NEW h \in Nat, OddFrom(t, h), NEW v \in Int, NEW x \in -h .. h,
         Same(v, x, t)
  PROVE  CenteredMod(v, t) = x
<1> DEFINE o == CenteredMod(v, t)
<1>1. o \in -h .. h /\ Same(v, o, t)
  BY CenteredModIs
<1> HIDE DEF o
<1>2. o \in Int /\ x \in Int /\ t \in Int
  BY <1>1
<1>3. Same(o, x, t)
  BY <1>1, <1>2, SameSymmetric, SameTransitive
<1>4. o = x
  BY <1>1, <1>3, CenteredAreOne
<1> QED BY <1>4 DEF o

\* Centering keeps opposites, as the modulus is odd.
LEMMA CenteredModIsOdd ==
  ASSUME NEW t \in Nat, NEW h \in Nat, OddFrom(t, h), NEW v \in Int
  PROVE  CenteredMod(-v, t) = -CenteredMod(v, t)
<1> DEFINE o == CenteredMod(v, t)
<1>1. o \in -h .. h /\ Same(v, o, t)
  BY CenteredModIs
<1> HIDE DEF o
<1>2. o \in Int /\ t \in Int /\ -v \in Int /\ -o \in -h .. h
  BY <1>1
<1>3. Same(-v, -o, t)
  BY <1>1, <1>2, SameNegative
<1>4. CenteredMod(-v, t) = -o
  BY <1>2, <1>3, CenteredModOf
<1> QED BY <1>4 DEF o

\* Of a set of one, the elements are equal.
LEMMA OneOrNone ==
  ASSUME NEW S, IsFiniteSet(S), Cardinality(S) <= 1, NEW x \in S, NEW y \in S
  PROVE  x = y
<1>1. SUFFICES ASSUME x # y PROVE FALSE
  OBVIOUS
<1>2. IsFiniteSet({x, y}) /\ Cardinality({x, y}) = 2
  <2>1. IsFiniteSet({x}) /\ Cardinality({x}) = 1
    BY FS_Singleton
  <2>2. y \notin {x} /\ {x} \cup {y} = {x, y}
    BY <1>1
  <2>3. IsFiniteSet({x} \cup {y}) /\ Cardinality({x} \cup {y}) = Cardinality({x}) + 1
    BY <2>1, <2>2, FS_AddElement
  <2> QED BY <2>1, <2>2, <2>3
<1>3. {x, y} \subseteq S
  OBVIOUS
<1>4. Cardinality({x, y}) <= Cardinality(S)
  BY <1>3, FS_Subset
<1>5. Cardinality(S) \in Nat
  BY FS_CardinalityType
<1> QED BY <1>2, <1>4, <1>5

\* What a clock is made of, as far as its chart is concerned
IsChart(c) ==
  /\ c.coordinate \in Nat
  /\ \E h \in Nat : OddFrom(c.coordinate, h)
  /\ TwiceWindow(c) \in Int /\ TwiceWindow(c) < BootN
  /\ \A r \in 0 .. Turn - 1 : Cardinality(Readings(c, r)) <= 1

\* At most one center is near: this is what the code checks of a chart.
LEMMA NearIsOne ==
  ASSUME NEW c, IsChart(c), NEW r \in Int
  PROVE  \E v \in Int : Near(c, r) \subseteq {v}
<1>1. PICK h \in Nat : OddFrom(c.coordinate, h)
  BY DEF IsChart
<1> DEFINE n == ((c.coordinate * r) + BootN) \div Turn
           v == CenteredMod(n, c.coordinate)
<1>2. Near(c, r) \subseteq {v}
  BY DEF Near
<1>3. n \in Int
  <2>1. c.coordinate * r + BootN \in Int
    BY BootIs DEF IsChart
  <2> QED BY <2>1, BootIs, Division
<1> HIDE DEF n
<1>4. v \in -h .. h
  BY <1>1, <1>3, CenteredModIs DEF IsChart
<1> QED BY <1>2, <1>4

\* At most one value is read at a rotation,
LEMMA ReadingsAre ==
  ASSUME NEW c, IsChart(c), NEW r \in 0 .. Turn - 1
  PROVE  /\ Readings(c, r) \subseteq Int
         /\ \A x, y \in Readings(c, r) : x = y
<1>1. (r + BootN) % Turn \in 0 .. Turn - 1 /\ r + BootN \in Int
  BY BootIs, Division
<1>2. PICK v \in Int : Near(c, r) \subseteq {v}
  BY NearIsOne
<1>3. PICK w \in Int : Near(c, (r + BootN) % Turn) \subseteq {w}
  BY <1>1, NearIsOne
<1>4. Readings(c, r) \subseteq {v} \cup {-w}
  BY <1>2, <1>3 DEF Readings
<1>5. IsFiniteSet({v} \cup {-w})
  BY FS_Singleton, FS_Union
<1>6. IsFiniteSet(Readings(c, r))
  BY <1>4, <1>5, FS_Subset
<1>7. Cardinality(Readings(c, r)) <= 1
  BY DEF IsChart
<1>8. \A x, y \in Readings(c, r) : x = y
  BY <1>6, <1>7, OneOrNone
<1> QED BY <1>4, <1>8

\* Of a rotation that is reduced
LEMMA LookupIs ==
  ASSUME NEW c, IsChart(c), NEW r \in 0 .. Turn - 1
  PROVE  /\ Lookup(c, r) \in Int
         /\ \A v \in Readings(c, r) : Lookup(c, r) = v
<1>1. CASE Readings(c, r) = {}
  BY <1>1 DEF Lookup
<1>2. CASE Readings(c, r) # {}
  <2>1. Lookup(c, r) \in Readings(c, r)
    BY <1>2 DEF Lookup
  <2> QED BY <2>1, ReadingsAre
<1> QED BY <1>1, <1>2

\* and half a turn later again the first.
LEMMA HalfTurn ==
  ASSUME NEW r \in 0 .. Turn - 1
  PROVE  (r + BootN) % Turn \in 0 .. Turn - 1 /\ (((r + BootN) % Turn) + BootN) % Turn = r
<1> DEFINE s == (r + BootN) % Turn
<1>1. r \in Int /\ Turn \in Int /\ BootN \in Int /\ r + BootN \in Int
  BY BootIs
<1>2. s \in 0 .. Turn - 1 /\ Same(s, r + BootN, Turn)
  BY <1>1, BootIs, ResidueIsSame
<1> HIDE DEF s
<1>3. s \in Int /\ s + BootN \in Int /\ (r + BootN) + BootN \in Int
  BY <1>1, <1>2
<1>4. Same(s + BootN, (r + BootN) + BootN, Turn)
  BY <1>1, <1>2, <1>3, SameSum, SameReflexive
<1>5. Same((r + BootN) + BootN, r, Turn)
  <2>1. (r + BootN) + BootN = r + Turn * 1 /\ 1 \in Int
    BY <1>1, BootIs
  <2> QED BY <2>1, Zenon DEF Same
<1>6. Same(s + BootN, r, Turn)
  BY <1>1, <1>3, <1>4, <1>5, SameTransitive
<1>7. (s + BootN) % Turn = r
  BY <1>3, <1>6, BootIs, ResidueIs
<1> QED BY <1>2, <1>7 DEF s

\* A half turn changes the sign of what is looked up.
LEMMA LookupOfHalfTurn ==
  ASSUME NEW c, IsChart(c), NEW r \in 0 .. Turn - 1
  PROVE  Lookup(c, (r + BootN) % Turn) = -Lookup(c, r)
<1> DEFINE s == (r + BootN) % Turn
<1>1. s \in 0 .. Turn - 1 /\ (s + BootN) % Turn = r
  BY HalfTurn
<1>2. Readings(c, s) = Near(c, s) \cup {-v : v \in Near(c, r)}
  BY <1>1, Zenon DEF Readings
<1>3. Readings(c, r) = Near(c, r) \cup {-v : v \in Near(c, s)}
  BY DEF Readings
<1> HIDE DEF s
<1>4. r \in Int /\ s \in Int
  BY <1>1, BootIs
<1>5. PICK a \in Int : Near(c, r) \subseteq {a}
  BY <1>4, NearIsOne
<1>6. PICK b \in Int : Near(c, s) \subseteq {b}
  BY <1>4, NearIsOne
<1>7. \A v \in Readings(c, r) : -v \in Readings(c, s)
  BY <1>2, <1>3, <1>5, <1>6
<1>8. \A v \in Readings(c, s) : -v \in Readings(c, r)
  BY <1>2, <1>3, <1>5, <1>6
<1>9. CASE Readings(c, r) = {}
  <2>1. Readings(c, s) = {}
    BY <1>8, <1>9
  <2>2. Lookup(c, r) = 0 /\ Lookup(c, s) = 0
    BY <1>9, <2>1 DEF Lookup
  <2> QED BY <2>2 DEF s
<1>10. CASE Readings(c, r) # {}
  <2>1. PICK v \in Readings(c, r) : TRUE
    BY <1>10
  <2>2. v \in Int /\ Lookup(c, r) = v /\ -v \in Readings(c, s)
    BY <2>1, <1>7, ReadingsAre, LookupIs
  <2>3. Lookup(c, s) = -v
    BY <2>2, <1>1, LookupIs
  <2> QED BY <2>2, <2>3 DEF s
<1> QED BY <1>9, <1>10

\* A rotation near a center reads it.
LEMMA NearReads ==
  ASSUME NEW c, IsChart(c), NEW rot \in Int, NEW K \in Int, NEW h \in Nat,
         OddFrom(c.coordinate, h), K \in -h .. h,
         NEW D \in Int, c.coordinate * rot = Turn * K + D,
         -TwiceWindow(c) <= 2 * D, 2 * D <= TwiceWindow(c)
  PROVE  Lookup(c, rot % Turn) = K
<1> DEFINE C == c.coordinate
           R == rot % Turn
           T == Turn
           B == BootN
           W == TwiceWindow(c)
<1>1. C \in Nat /\ T \in Nat /\ T > 0 /\ B \in Nat /\ T = 2 * B /\ B >= 2 /\ W \in Int /\ W < B
  BY BootIs DEF IsChart
<1>2. R \in 0 .. T - 1 /\ Same(R, rot, T)
  BY BootIs, ResidueIsSame
<1>3. PICK g \in Int : R = rot + T * g
  BY <1>2 DEF Same
<1> DEFINE n == K + C * g
<1>4. C * R = T * n + D
  <2>1. C * R = C * rot + C * (T * g)
    <3>1. C * (rot + T * g) = C * rot + C * (T * g)
      BY <1>1
    <3> QED BY <3>1, <1>3
  <2>2. C * (T * g) = T * (C * g) /\ T * n = T * K + T * (C * g)
    BY <1>1
  <2> DEFINE z == T * (C * g)
             y == T * K
             x == C * rot
  <2>3. x = y + D /\ z \in Int /\ y \in Int /\ x \in Int /\ C * R = x + z /\ T * n = y + z
    BY <1>1, <2>1, <2>2
  <2> HIDE DEF x, y, z
  <2>4. C * R = (y + z) + D
    BY <2>3
  <2> QED BY <2>3, <2>4
<1>5. n \in Int /\ D + B \in 0 .. T - 1 /\ 2 * D \in -W .. W
  <2>1. n \in Int
    BY <1>1
  <2> HIDE DEF n
  <2>2. -W <= 2 * D /\ 2 * D <= W
    OBVIOUS
  <2> HIDE DEF W, B, T
  <2> QED BY <2>1, <2>2, <1>1
<1>6. Same(n, K, C)
  <2>1. n = K + C * g
    OBVIOUS
  <2> QED BY <2>1 DEF Same
<1> HIDE DEF n
<1>7. (C * R + B) \div T = n
  <2>1. C * R + B = T * n + (D + B)
    <3> DEFINE x == T * n
               y == C * R
    <3>1. y = x + D /\ x \in Int
      BY <1>4, <1>1, <1>5
    <3> HIDE DEF x, y
    <3>2. y + B = x + (D + B)
      BY <3>1, <1>1
    <3> QED BY <3>2 DEF x, y
  <2>2. (T * n + (D + B)) \div T = n
    <3> HIDE DEF T, B
    <3> QED BY <1>1, <1>5, QuotientIs
  <2> QED BY <2>1, <2>2
<1>8. C * R - n * T = D
  <2> DEFINE x == T * n
             y == C * R
  <2>1. y = x + D /\ x \in Int /\ n * T = x
    BY <1>4, <1>1, <1>5
  <2> HIDE DEF x, y
  <2>2. y - x = D
    BY <2>1
  <2> QED BY <2>1, <2>2 DEF y
<1>9. CenteredMod(n, C) = K
  BY <1>1, <1>5, <1>6, CenteredModOf
<1>10. Near(c, R) = {K}
  BY <1>5, <1>7, <1>8, <1>9 DEF Near
<1>11. K \in Readings(c, R)
  BY <1>10 DEF Readings
<1> QED BY <1>2, <1>11, LookupIs

-----------------------------------------------------------------------------
(* The table, and what turning it brings to its constant term.              *)

\* What the table holds for a reading
Share(c, v) == CenteredMod(v * ModInverse(BootN % c.t, c.t), c.t)

\* Shares are centered, and odd.
LEMMA ShareIs ==
  ASSUME NEW c, c.t \in Nat, NEW h \in Nat, OddFrom(c.t, h), Coprime(BootN, c.t), NEW v \in Int
  PROVE  /\ Share(c, v) \in -h .. h
         /\ Share(c, -v) = -Share(c, v)
         /\ Same(BootN * Share(c, v), v, c.t)
<1> DEFINE t == c.t
           i == ModInverse(BootN % t, t)
           o == Share(c, v)
<1>1. t \in Nat /\ t > 0 /\ t \in Int /\ BootN \in Nat /\ BootN \in Int
  BY BootIs DEF OddFrom
<1>2. Apart(BootN, t)
  BY <1>1, CoprimeIsApart
<1>3. BootN % t \in 0 .. t - 1 /\ Same(BootN, BootN % t, t) /\ Same(BootN % t, BootN, t)
  BY <1>1, ResidueIsSame
<1>4. BootN % t \in Nat /\ BootN % t \in Int
  BY <1>1, <1>3
<1>5. Apart(BootN % t, t)
  BY <1>1, <1>2, <1>3, <1>4, ApartResidue
<1>6. i \in 0 .. t - 1 /\ Same((BootN % t) * i, 1, t)
  BY <1>1, <1>4, <1>5, ModInverseIs
<1>7. o = CenteredMod(v * i, t) /\ Share(c, -v) = CenteredMod((-v) * i, t)
  BY DEF Share
<1> HIDE DEF i, o, t
<1>8. i \in Int /\ v * i \in Int /\ (-v) * i = -(v * i)
  BY <1>1, <1>6
<1>9. OddFrom(t, h)
  BY DEF t
<1>10. o \in -h .. h /\ Same(v * i, o, t)
  BY <1>1, <1>7, <1>8, <1>9, CenteredModIs
<1>11. CenteredMod((-v) * i, t) = -CenteredMod(v * i, t)
  BY <1>1, <1>8, <1>9, CenteredModIsOdd
<1>12. o \in Int /\ (BootN % t) * i \in Int /\ BootN * i \in Int
  BY <1>1, <1>4, <1>8, <1>10
<1>13. Same(BootN * i, 1, t)
  <2>1. Same(BootN * i, (BootN % t) * i, t)
    BY <1>1, <1>3, <1>4, <1>8, SameProduct, SameReflexive
  <2> QED BY <2>1, <1>1, <1>6, <1>12, SameTransitive
<1>14. Same(o, v * i, t)
  BY <1>1, <1>8, <1>10, <1>12, SameSymmetric
<1>15. Same(BootN * o, BootN * (v * i), t)
  BY <1>1, <1>8, <1>12, <1>14, SameProduct, SameReflexive
<1>16. Same((v * BootN) * i, v, t)
  BY <1>1, <1>8, <1>13, InverseCancels
<1>17. BootN * (v * i) = (v * BootN) * i /\ BootN * (v * i) \in Int /\ BootN * o \in Int
  BY <1>1, <1>8, <1>12
<1>18. Same(BootN * o, v, t)
  <2> DEFINE z == BootN * (v * i)
             y == BootN * o
  <2>1. Same(y, z, t) /\ Same(z, v, t) /\ z \in Int /\ y \in Int
    BY <1>15, <1>16, <1>17
  <2> HIDE DEF z, y
  <2>2. Same(y, v, t)
    BY <2>1, <1>1, SameTransitive
  <2> QED BY <2>2 DEF y
<1> QED BY <1>7, <1>10, <1>11, <1>18 DEF o, t

\* The coefficients of the table
LEMMA TableIs ==
  ASSUME NEW c, IsChart(c), c.t \in Nat, NEW h \in Nat, OddFrom(c.t, h), Coprime(BootN, c.t)
  PROVE  /\ TableMessage(c) \in [BootPowers -> -h .. h]
         /\ TableMessage(c)[0] = Share(c, Lookup(c, 0))
         /\ \A k \in 1 .. BootN - 1 : TableMessage(c)[k] = Share(c, -Lookup(c, BootN - k))
<1>1. TableMessage(c) = [k \in BootPowers |->
         IF k = 0 THEN Share(c, Lookup(c, 0)) ELSE Share(c, -Lookup(c, BootN - k))]
  BY DEF TableMessage, Share
<1>2. BootN \in Nat /\ BootN >= 2 /\ Turn = 2 * BootN
  BY BootIs
<1>3. 0 \in 0 .. Turn - 1 /\ \A k \in 1 .. BootN - 1 : BootN - k \in 0 .. Turn - 1
  BY <1>2
<1>4. Lookup(c, 0) \in Int /\ \A k \in 1 .. BootN - 1 : Lookup(c, BootN - k) \in Int
  BY <1>3, LookupIs
<1>5. Share(c, Lookup(c, 0)) \in -h .. h
  BY <1>4, ShareIs
<1>6. ASSUME NEW k \in 1 .. BootN - 1 PROVE Share(c, -Lookup(c, BootN - k)) \in -h .. h
  <2> DEFINE v == -Lookup(c, BootN - k)
  <2>1. v \in Int
    BY <1>4
  <2> HIDE DEF v
  <2>2. Share(c, v) \in -h .. h
    BY <2>1, ShareIs
  <2> QED BY <2>2 DEF v
<1>7. BootPowers = {0} \cup 1 .. BootN - 1
  BY <1>2 DEF BootPowers
<1>8. \A k \in 1 .. BootN - 1 : k # 0 /\ k \in BootPowers
  BY <1>2 DEF BootPowers
<1>9. 0 \in BootPowers
  BY <1>7
<1>10. TableMessage(c)[0] = Share(c, Lookup(c, 0))
  BY <1>1, <1>9
<1>11. \A k \in 1 .. BootN - 1 : TableMessage(c)[k] = Share(c, -Lookup(c, BootN - k))
  BY <1>1, <1>8
<1>12. \A k \in BootPowers : TableMessage(c)[k] \in -h .. h
  BY <1>5, <1>6, <1>7, <1>10, <1>11
<1>13. TableMessage(c) \in [BootPowers -> -h .. h]
  BY <1>1, <1>12
<1> QED BY <1>10, <1>11, <1>13

\* The reduced opposite of a rotation
LEMMA OppositeIs ==
  ASSUME NEW rot \in Int, NEW f \in 0 .. Turn - 1, Same(-rot, f, Turn)
  PROVE  /\ f = 0 => rot % Turn = 0
         /\ f > 0 => rot % Turn = Turn - f
<1>1. Turn \in Nat /\ Turn > 0 /\ Turn \in Int /\ f \in Int
  BY BootIs
<1>2. PICK k \in Int : -rot = f + Turn * k
  BY DEF Same
<1> DEFINE z == Turn * k
<1>3. z \in Int /\ -rot = f + z /\ Turn * (-k) = -z /\ Turn * (-k - 1) = -z - Turn
  BY <1>1, <1>2
<1> HIDE DEF z
<1>4. rot = -f + Turn * (-k) /\ rot = (Turn - f) + Turn * (-k - 1)
  BY <1>1, <1>3
<1>5. -k \in Int /\ -k - 1 \in Int /\ -f \in Int /\ Turn - f \in Int
  BY <1>1
<1>6. Same(rot, -f, Turn) /\ Same(rot, Turn - f, Turn)
  BY <1>4, <1>5, Zenon DEF Same
<1>7. f = 0 => rot % Turn = 0
  <2>1. SUFFICES ASSUME f = 0 PROVE rot % Turn = 0
    OBVIOUS
  <2>2. 0 \in 0 .. Turn - 1
    BY <1>1
  <2>3. rot = 0 + Turn * (-k)
    BY <2>1, <1>4, <1>1
  <2>4. Same(rot, 0, Turn)
    BY <2>3, <1>5 DEF Same
  <2> QED BY <1>1, <2>2, <2>4, ResidueIs
<1>8. f > 0 => rot % Turn = Turn - f
  <2>1. SUFFICES ASSUME f > 0 PROVE rot % Turn = Turn - f
    OBVIOUS
  <2>2. Turn - f \in 0 .. Turn - 1
    BY <2>1, <1>1
  <2> QED BY <1>1, <1>6, <2>2, ResidueIs
<1> QED BY <1>7, <1>8

\* Turning the table by a rotation brings its reading to the constant term.
LEMMA TableTurned ==
  ASSUME NEW c, IsChart(c), c.t \in Nat, NEW h \in Nat, OddFrom(c.t, h), Coprime(BootN, c.t),
         NEW rot \in Int
  PROVE  Circled(BootN, TableMessage(c), -rot) = Share(c, Lookup(c, rot % Turn))
<1> DEFINE f == (-rot) % Turn
           table == TableMessage(c)
           L(r) == Lookup(c, r)
<1>1. BootN \in Nat /\ BootN >= 2 /\ Turn = 2 * BootN /\ Turn \in Nat /\ Turn > 0 /\ -rot \in Int
  BY BootIs
<1>2. f \in 0 .. Turn - 1 /\ Same(-rot, f, Turn)
  BY <1>1, ResidueIsSame
<1>3. Circled(BootN, table, -rot) = (IF f < BootN THEN table[f] ELSE -table[f - BootN])
  BY <1>1 DEF Circled
<1> HIDE DEF f
<1>4. \A r \in 0 .. Turn - 1 : L(r) \in Int
  BY LookupIs
<1>5. \A r \in 0 .. Turn - 1 : Share(c, -L(r)) = -Share(c, L(r)) /\ Share(c, L(r)) \in Int
  <2> TAKE r \in 0 .. Turn - 1
  <2> DEFINE v == L(r)
  <2>1. v \in Int
    BY <1>4
  <2> HIDE DEF v
  <2>2. Share(c, -v) = -Share(c, v) /\ Share(c, v) \in -h .. h
    BY <2>1, ShareIs
  <2>3. Share(c, v) \in Int
    BY <2>2
  <2> QED BY <2>2, <2>3 DEF v
\* A half turn from r
<1>6. ASSUME NEW r \in 0 .. BootN - 1 PROVE L(r + BootN) = -L(r)
  <2>1. r \in 0 .. Turn - 1 /\ r + BootN \in 0 .. Turn - 1 /\ r + BootN \in Int
    BY <1>1
  <2>2. (r + BootN) % Turn = r + BootN
    BY <2>1, <1>1, SameReflexive, ResidueIs
  <2>3. Lookup(c, (r + BootN) % Turn) = -Lookup(c, r)
    BY <2>1, LookupOfHalfTurn
  <2> QED BY <2>2, <2>3
<1>7. table[0] = Share(c, L(0)) /\ \A k \in 1 .. BootN - 1 : table[k] = Share(c, -L(BootN - k))
  BY TableIs
<1>8. CASE f = 0
  <2>1. rot % Turn = 0 /\ f < BootN
    BY <1>1, <1>2, <1>8, OppositeIs
  <2> QED BY <2>1, <1>3, <1>7, <1>8
<1>9. CASE f \in 1 .. BootN - 1
  <2>1. rot % Turn = Turn - f
    BY <1>2, <1>9, OppositeIs
  <2>2. BootN - f \in 0 .. BootN - 1 /\ (BootN - f) + BootN = Turn - f
    BY <1>1, <1>9
  <2>3. L(Turn - f) = -L(BootN - f)
    BY <2>2, <1>6
  <2>4. f < BootN
    BY <1>1, <1>9
  <2>5. table[f] = Share(c, -L(BootN - f))
    BY <1>7, <1>9
  <2> QED BY <2>1, <2>3, <2>4, <2>5, <1>3
<1>10. CASE f = BootN
  <2>1. rot % Turn = BootN /\ ~ (f < BootN) /\ f - BootN = 0 /\ 0 \in 0 .. BootN - 1
        /\ 0 + BootN = BootN /\ 0 \in 0 .. Turn - 1
    BY <1>1, <1>2, <1>10, OppositeIs
  <2>2. L(BootN) = -L(0)
    BY <2>1, <1>6
  <2>3. Share(c, L(BootN)) = -Share(c, L(0))
    BY <2>1, <2>2, <1>5
  <2> QED BY <2>1, <2>3, <1>3, <1>7
<1>11. CASE f \in BootN + 1 .. Turn - 1
  <2> DEFINE k == f - BootN
  <2>1. rot % Turn = Turn - f /\ ~ (f < BootN) /\ k \in 1 .. BootN - 1 /\ BootN - k = Turn - f
        /\ Turn - f \in 0 .. Turn - 1
    BY <1>1, <1>2, <1>11, OppositeIs
  <2>2. table[k] = Share(c, -L(BootN - k))
    BY <2>1, <1>7
  <2>3. Circled(BootN, table, -rot) = -table[k]
    BY <2>1, <1>3
  <2> HIDE DEF k
  <2>4. table[k] = -Share(c, L(Turn - f)) /\ Share(c, L(Turn - f)) \in Int
    BY <2>1, <2>2, <1>5
  <2>5. -table[k] = Share(c, L(Turn - f))
    BY <2>4
  <2> QED BY <2>1, <2>3, <2>5
<1>12. f = 0 \/ f \in 1 .. BootN - 1 \/ f = BootN \/ f \in BootN + 1 .. Turn - 1
  BY <1>1, <1>2
<1> QED BY <1>8, <1>9, <1>10, <1>11, <1>12

\* The largest of a bounded function's magnitudes
LEMMA LargestIs ==
  ASSUME NEW D, D # {}, NEW h \in Nat, NEW f \in [D -> -h .. h]
  PROVE  /\ Max({Magnitude(f[k]) : k \in D}) \in Nat
         /\ \A k \in D : Magnitude(f[k]) <= Max({Magnitude(f[k_1]) : k_1 \in D})
<1> DEFINE S == {Magnitude(f[k]) : k \in D}
           G == {n \in Nat : \E x \in S : n = h - x}
<1>1. \A k \in D : Magnitude(f[k]) \in 0 .. h
  <2> TAKE k \in D
  <2>1. f[k] \in -h .. h
    OBVIOUS
  <2> QED BY <2>1 DEF Magnitude
<1>2. S \subseteq 0 .. h /\ S # {}
  BY <1>1
<1> HIDE DEF S
<1>3. G # {} /\ G \subseteq Nat
  <2>1. PICK x \in S : TRUE
    BY <1>2
  <2>2. x \in 0 .. h /\ h - x \in Nat
    BY <2>1, <1>2
  <2>3. h - x \in G
    BY <2>2
  <2> QED BY <2>3
<1>4. PICK n \in G : \A k \in G : n <= k
  BY <1>3, LeastElement
<1>5. PICK x \in S : n = h - x
  BY <1>4
<1>6. \A y \in S : x >= y
  <2> TAKE y \in S
  <2>1. y \in 0 .. h /\ x \in 0 .. h /\ h - y \in Nat
    BY <1>2
  <2>2. h - y \in G
    BY <2>1
  <2>3. n <= h - y
    BY <2>2, <1>4
  <2> QED BY <2>1, <2>3, <1>5
<1>7. Max(S) \in S /\ \A y \in S : Max(S) >= y
  BY <1>6, Zenon DEF Max
<1>8. Max(S) \in Nat
  <2> DEFINE M == Max(S)
  <2>1. M \in S
    BY <1>7
  <2> HIDE DEF M
  <2>2. M \in Nat
    BY <2>1, <1>2
  <2> QED BY <2>2 DEF M
<1>9. ASSUME NEW k \in D PROVE Magnitude(f[k]) <= Max(S)
  <2>1. Magnitude(f[k]) \in S
    BY DEF S
  <2>2. Magnitude(f[k]) \in 0 .. h
    BY <1>1
  <2> HIDE DEF S
  <2>3. Max(S) >= Magnitude(f[k])
    BY <2>1, <1>7
  <2> QED BY <2>2, <2>3, <1>8
<1> QED BY <1>8, <1>9 DEF S

-----------------------------------------------------------------------------
(* Rounding to the chart.                                                   *)

\* Rounding is off by a half at most.
LEMMA RoundToIs ==
  ASSUME NEW q \in Nat, q > 0, NEW target \in Nat, NEW x \in Int
  PROVE  /\ RoundTo(target, q, x) \in Int
         /\ -q <= 2 * (target * x - q * RoundTo(target, q, x))
         /\ 2 * (target * x - q * RoundTo(target, q, x)) <= q
<1> DEFINE h == q \div 2
           y == target * x
           a == RoundTo(target, q, x)
           v == (y + h) % q
<1>1. h \in Nat /\ q % 2 \in {0, 1} /\ q = 2 * h + (q % 2)
  BY Halved
<1>2. y \in Int
  OBVIOUS
<1>3. a = (y + h) \div q
  BY DEF RoundTo
<1> HIDE DEF h, y, a
<1>4. y + h = q * a + v /\ v \in 0 .. q - 1 /\ a \in Int
  BY <1>1, <1>2, <1>3, Division
<1> DEFINE z == q * a
<1>5. z \in Int /\ y + h = z + v
  BY <1>4
<1> HIDE DEF z, v
<1>6. -q <= 2 * (y - z) /\ 2 * (y - z) <= q
  BY <1>1, <1>2, <1>4, <1>5
<1> QED BY <1>4, <1>6 DEF y, a, z

\* What a clock rounds with
IsDial(c) ==
  /\ c.q \in Nat /\ c.q > 0 /\ c.t \in Nat /\ c.coordinate \in Nat
  /\ \E h \in Nat : OddFrom(c.coordinate, h)

\* How far a rotation is from the residual it stands for
Deviation(c, x) ==
  c.q * (c.coordinate * Projected(c, x)) - Turn * (c.t * x - c.q * RoundTo(c.t, c.q, x))

\* So is the rotation of a residual.
LEMMA ProjectedIs ==
  ASSUME NEW c, IsDial(c), NEW x \in Int
  PROVE  /\ Projected(c, x) \in Int /\ Deviation(c, x) \in Int
         /\ -(c.q * c.coordinate) <= 2 * Deviation(c, x)
         /\ 2 * Deviation(c, x) <= c.q * c.coordinate
<1>1. PICK h \in Nat : OddFrom(c.coordinate, h)
  BY DEF IsDial
<1> DEFINE C == c.coordinate
           q == c.q
           t == c.t
           T == Turn
           a == RoundTo(t, q, x)
           b == RoundTo(t * T, q, x)
           delta == b - T * a
           p == Projected(c, x)
           v == (delta + h) % C
<1>2. C \in Nat /\ C = 2 * h + 1 /\ C > 0 /\ q \in Nat /\ q > 0 /\ t \in Nat /\ T \in Nat
  BY <1>1, BootIs DEF OddFrom, IsDial
<1>3. t * T \in Nat
  BY <1>2
<1>4. C \div 2 = h
  <2>1. 1 \in 0 .. 2 - 1 /\ h \in Int /\ 2 \in Nat
    BY <1>1
  <2>2. (2 * h + 1) \div 2 = h
    BY <2>1, QuotientIs
  <2> QED BY <2>2, <1>2
<1>5. p = (delta + h) \div C
  <2>1. p = (delta + C \div 2) \div C
    BY DEF Projected
  <2> QED BY <2>1, <1>4, Zenon
<1>6. a \in Int /\ -q <= 2 * (t * x - q * a) /\ 2 * (t * x - q * a) <= q
  BY <1>2, RoundToIs
<1>7. b \in Int /\ -q <= 2 * ((t * T) * x - q * b) /\ 2 * ((t * T) * x - q * b) <= q
  BY <1>2, <1>3, RoundToIs
<1> HIDE DEF p, a, b
<1>8. delta \in Int
  BY <1>2, <1>6, <1>7
<1> HIDE DEF delta
<1>9. delta + h = C * p + v /\ v \in 0 .. C - 1 /\ p \in Int
  BY <1>1, <1>2, <1>5, <1>8, Division
<1> HIDE DEF C, v
<1> DEFINE e == h - v
           r == (t * T) * x - q * b
<1>10. e \in -h .. h /\ C * p = delta + e
  <2> DEFINE z == C * p
  <2>1. z \in Int /\ delta + h = z + v
    BY <1>2, <1>9
  <2> HIDE DEF z
  <2>2. z = delta + (h - v)
    BY <1>9, <1>8, <2>1
  <2>3. h - v \in -h .. h
    BY <1>1, <1>2, <1>9
  <2> QED BY <2>2, <2>3 DEF z
<1> HIDE DEF e
<1>11. e \in Int /\ r \in Int
  BY <1>2, <1>7, <1>10
<1>12. q * (C * p) - T * (t * x - q * a) = q * e - r
  <2>1. q * (C * p) = q * delta + q * e
    <3>1. q * (delta + e) = q * delta + q * e
      BY <1>2, <1>8, <1>11
    <3> QED BY <3>1, <1>10
  <2>2. q * delta = q * b - q * (T * a)
    BY <1>2, <1>6, <1>7 DEF delta
  <2>3. T * (t * x - q * a) = (t * T) * x - q * (T * a)
    <3>1. T * (t * x) = (t * T) * x /\ T * (q * a) = q * (T * a)
      BY <1>2, <1>6
    <3>2. T * (t * x - q * a) = T * (t * x) - T * (q * a)
      BY <1>2, <1>6
    <3> QED BY <3>1, <3>2
  <2> DEFINE x1 == q * b
             x2 == q * (T * a)
             x3 == (t * T) * x
             x4 == q * e
             x5 == q * delta
  <2>4. x1 \in Int /\ x2 \in Int /\ x3 \in Int /\ x4 \in Int /\ x5 \in Int
    BY <1>2, <1>6, <1>7, <1>8, <1>11
  <2>5. r = x3 - x1
    OBVIOUS
  <2>6. q * (C * p) = x5 + x4 /\ x5 = x1 - x2 /\ T * (t * x - q * a) = x3 - x2
    BY <2>1, <2>2, <2>3
  <2> HIDE DEF x1, x2, x3, x4, x5, r
  <2>7. (x5 + x4) - (x3 - x2) = x4 - r
    BY <2>4, <2>5, <2>6
  <2> QED BY <2>6, <2>7 DEF x4
<1> DEFINE d == q * (C * p) - T * (t * x - q * a)
<1>13. -q <= 2 * r /\ 2 * r <= q
  BY <1>7
<1> HIDE DEF r
<1>14. -(q * h) <= q * e /\ q * e <= q * h
  <2>1. e + h \in Nat /\ h - e \in Nat
    BY <1>10
  <2> DEFINE u == e + h
             w == h - e
  <2>2. u \in Nat /\ w \in Nat /\ e = u - h /\ e = h - w
    BY <2>1, <1>11
  <2> HIDE DEF u, w
  <2>3. q * u >= 0 /\ q * w >= 0
    BY <1>2, <2>2
  <2>4. q * e = q * u - q * h /\ q * e = q * h - q * w
    <3>1. q * (u - h) = q * u - q * h /\ q * (h - w) = q * h - q * w
      BY <1>2, <2>2
    <3> QED BY <3>1, <2>2
  <2> DEFINE y1 == q * u
             y2 == q * w
             y3 == q * h
             y4 == q * e
  <2>5. y1 \in Int /\ y2 \in Int /\ y3 \in Int /\ y1 >= 0 /\ y2 >= 0 /\ y4 = y1 - y3 /\ y4 = y3 - y2
    BY <1>2, <2>2, <2>3, <2>4
  <2> HIDE DEF y1, y2, y3, y4
  <2>6. -y3 <= y4 /\ y4 <= y3
    BY <2>5
  <2> QED BY <2>6 DEF y3, y4
<1>15. q * C = 2 * (q * h) + q
  <2>1. q * (2 * h + 1) = 2 * (q * h) + q
    BY <1>2
  <2> QED BY <2>1, <1>2
<1>16. d = q * e - r
  BY <1>12
<1> HIDE DEF d
<1> DEFINE y3 == q * h
           y4 == q * e
           y5 == q * C
<1>17. y3 \in Int /\ y4 \in Int /\ y5 \in Int /\ y5 = 2 * y3 + q /\ d = y4 - r /\ -y3 <= y4 /\ y4 <= y3
  BY <1>2, <1>11, <1>14, <1>15, <1>16
<1> HIDE DEF y3, y4, y5
<1>18. d \in Int /\ -y5 <= 2 * d /\ 2 * d <= y5
  BY <1>17, <1>13, <1>11, <1>2
<1>19. d = Deviation(c, x)
  BY DEF d, Deviation, p, a, C
<1>20. y5 = c.q * c.coordinate
  BY DEF y5, C
<1>21. p = Projected(c, x)
  BY DEF p
<1> HIDE DEF q, t, T
<1> QED BY <1>9, <1>18, <1>19, <1>20, <1>21

\* Upper bounds by a rounded up quotient
LEMMA AtMostQuotient ==
  ASSUME NEW q \in Nat, q > 0, NEW u \in Int, NEW z \in Int, q * u <= z
  PROVE  u <= (z + q - 1) \div q
<1> DEFINE d == (z + q - 1) \div q
           v == (z + q - 1) % q
<1>1. z + q - 1 = q * d + v /\ v \in 0 .. q - 1 /\ d \in Int
  <2>1. z + q - 1 \in Int
    OBVIOUS
  <2> QED BY <2>1, Division
<1> HIDE DEF d, v
<1>2. SUFFICES ASSUME u >= d + 1 PROVE FALSE
  BY <1>1 DEF d
<1>3. q * (u - d) >= q
  <2> DEFINE w == u - d
  <2>1. w \in Int /\ w >= 1
    BY <1>1, <1>2
  <2> HIDE DEF w
  <2>2. q * w >= q
    BY <2>1
  <2> QED BY <2>2 DEF w
<1>4. q * (u - d) = q * u - q * d
  BY <1>1
<1> DEFINE x1 == q * u
           x2 == q * d
<1>5. x1 \in Int /\ x2 \in Int /\ x1 <= z /\ x1 - x2 >= q /\ z + q - 1 = x2 + v
  BY <1>1, <1>3, <1>4
<1> HIDE DEF x1, x2
<1> QED BY <1>1, <1>5

-----------------------------------------------------------------------------
(* Sums taken class by class, and products with a secret of few terms.      *)

\* A total of nothing but zeros
LEMMA TotalOfZeros ==
  ASSUME NEW D, IsFiniteSet(D), NEW f \in [D -> Int], \A i \in D : f[i] = 0
  PROVE  Total(f) = 0
<1>1. \A i \in D : f[i] = 0 * f[i]
  OBVIOUS
<1>2. IsCombination(D, f, 0, f, 0, f)
  BY <1>1 DEF IsCombination
<1>3. Total(f) = 0 * Total(f) + 0 * Total(f) /\ Total(f) \in Int
  BY <1>2, TotalIsLinear, TotalIsInt
<1> QED BY <1>3

\* The terms that h sends to e, and zeros
Sent(D, f, h, e) == [i \in D |-> IF h[i] = e THEN f[i] ELSE 0]

\* A total can be taken class by class.
LEMMA TotalOfParts ==
  ASSUME NEW D, IsFiniteSet(D), NEW E, IsFiniteSet(E), NEW f \in [D -> Int], NEW h \in [D -> E]
  PROVE  /\ \A e \in E : Sent(D, f, h, e) \in [D -> Int]
         /\ Total(f) = Total([e \in E |-> Total(Sent(D, f, h, e))])
<1> DEFINE g == [i \in D |-> [e \in E |-> IF h[i] = e THEN f[i] ELSE 0]]
<1>1. g \in [D -> [E -> Int]]
  OBVIOUS
<1>2. \A e \in E : Sent(D, f, h, e) \in [D -> Int]
  BY DEF Sent
<1>3. \A e \in E : [i \in D |-> g[i][e]] = Sent(D, f, h, e)
  BY DEF Sent
<1>4. ASSUME NEW i \in D PROVE Total(g[i]) = f[i]
  <2>1. g[i] \in [E -> Int] /\ h[i] \in E /\ g[i][h[i]] = f[i]
        /\ \A e \in E : e # h[i] => g[i][e] = 0
    OBVIOUS
  <2> HIDE DEF g
  <2>2. Total(g[i]) = g[i][h[i]]
    BY <2>1, TotalOfOne
  <2> QED BY <2>1, <2>2
<1> HIDE DEF g
<1>5. [i \in D |-> Total(g[i])] = f
  BY <1>4
<1>6. Total([i \in D |-> Total(g[i])]) = Total([e \in E |-> Total([i \in D |-> g[i][e]])])
  BY <1>1, TotalsExchange
<1>7. [e \in E |-> Total([i \in D |-> g[i][e]])] = [e \in E |-> Total(Sent(D, f, h, e))]
  BY <1>3
<1> QED BY <1>2, <1>5, <1>6, <1>7

\* Only the terms that g reaches count.
LEMMA TotalOfReached ==
  ASSUME NEW D, IsFiniteSet(D), NEW W, IsFiniteSet(W), NEW f \in [D -> Int], NEW g \in [W -> D],
         \A v, w \in W : g[v] = g[w] => v = w,
         \A i \in D : (\A w \in W : g[w] # i) => f[i] = 0
  PROVE  /\ [w \in W |-> f[g[w]]] \in [W -> Int]
         /\ Total(f) = Total([w \in W |-> f[g[w]]])
<1> DEFINE x == [i \in D |-> [w \in W |-> IF g[w] = i THEN f[i] ELSE 0]]
<1>1. x \in [D -> [W -> Int]]
  OBVIOUS
<1>2. ASSUME NEW i \in D PROVE Total(x[i]) = f[i]
  <2>1. x[i] \in [W -> Int] /\ \A w \in W : x[i][w] = IF g[w] = i THEN f[i] ELSE 0
    OBVIOUS
  <2> HIDE DEF x
  <2>2. CASE \E w \in W : g[w] = i
    <3>1. PICK w \in W : g[w] = i
      BY <2>2
    <3>2. x[i][w] = f[i] /\ \A v \in W : v # w => x[i][v] = 0
      BY <2>1, <3>1
    <3>3. Total(x[i]) = x[i][w]
      BY <2>1, <3>2, TotalOfOne
    <3> QED BY <3>2, <3>3
  <2>3. CASE \A w \in W : g[w] # i
    <3>1. \A w \in W : x[i][w] = 0
      BY <2>1, <2>3
    <3>2. Total(x[i]) = 0
      BY <2>1, <3>1, TotalOfZeros
    <3> QED BY <2>3, <3>2
  <2> QED BY <2>2, <2>3
<1>3. ASSUME NEW w \in W PROVE Total([i \in D |-> x[i][w]]) = f[g[w]]
  <2> DEFINE y == [i \in D |-> x[i][w]]
  <2>1. y \in [D -> Int] /\ g[w] \in D /\ y[g[w]] = f[g[w]] /\ \A i \in D : i # g[w] => y[i] = 0
    OBVIOUS
  <2> HIDE DEF y
  <2>2. Total(y) = y[g[w]]
    BY <2>1, TotalOfOne
  <2> QED BY <2>1, <2>2 DEF y
<1> HIDE DEF x
<1>4. [i \in D |-> Total(x[i])] = f
  BY <1>2
<1>5. Total([i \in D |-> Total(x[i])]) = Total([w \in W |-> Total([i \in D |-> x[i][w]])])
  BY <1>1, TotalsExchange
<1>6. [w \in W |-> Total([i \in D |-> x[i][w]])] = [w \in W |-> f[g[w]]]
  BY <1>3
<1>7. \A w \in W : f[g[w]] \in Int
  OBVIOUS
<1> QED BY <1>4, <1>5, <1>6, <1>7

\* At most c for every one of the terms that are not zero
LEMMA TotalIsWithin ==
  ASSUME NEW D, IsFiniteSet(D), NEW f \in [D -> Int], NEW c \in Nat,
         NEW W, W \subseteq D, \A i \in D : i \notin W => f[i] = 0,
         \A i \in D : -c <= f[i] /\ f[i] <= c
  PROVE  /\ Cardinality(W) \in Nat
         /\ -(c * Cardinality(W)) <= Total(f) /\ Total(f) <= c * Cardinality(W)
<1>1. IsFiniteSet(W) /\ Cardinality(W) \in Nat
  BY FS_Subset, FS_CardinalityType
<1> DEFINE g == [w \in W |-> w]
           x == [w \in W |-> f[g[w]]]
<1>2. g \in [W -> D] /\ (\A v, w \in W : g[v] = g[w] => v = w)
  OBVIOUS
<1>3. \A i \in D : (\A w \in W : g[w] # i) => f[i] = 0
  OBVIOUS
<1>4. \A w \in W : g[w] = w
  OBVIOUS
<1> HIDE DEF g
<1>5. x \in [W -> Int] /\ Total(f) = Total(x)
  BY <1>1, <1>2, <1>3, TotalOfReached
<1>6. \A w \in W : -c <= x[w] /\ x[w] <= c
  BY <1>4
<1> HIDE DEF x
<1>7. -(c * Cardinality(W)) <= Total(x) /\ Total(x) <= c * Cardinality(W)
  BY <1>1, <1>5, <1>6, TotalIsBounded
<1> QED BY <1>1, <1>5, <1>7

\* What the coefficient of c1 is that meets coefficient l of the secret
LEMMA MeetingIs ==
  ASSUME NEW j \in Powers, NEW l \in Powers, NEW u \in Polynomials
  PROVE  Meeting(j, l, u) = Turning(u, j - l) /\ Meeting(j, l, u) \in Int
<1>1. N \in Nat /\ N >= 2 /\ N > 0 /\ j \in 0 .. N - 1 /\ l \in 0 .. N - 1
  BY DegreeIs DEF Powers
<1>2. CASE l > j
  <2>1. j + N - l \in 0 .. N - 1 /\ j + N - l \in Int /\ ~ (j - l >= 0) /\ j - l >= -N
        /\ (j - l) + N = j + N - l
    BY <1>1, <1>2
  <2>2. (j + N - l) % N = j + N - l
    <3>1. Same(j + N - l, j + N - l, N)
      BY <1>1, <2>1, SameReflexive
    <3> QED BY <1>1, <2>1, <3>1, ResidueIs
  <2>3. Turning(u, j - l) = -u[j + N - l]
    BY <2>1 DEF Turning
  <2>4. u[j + N - l] \in Int
    BY <2>1 DEF Polynomials, Powers
  <2>5. Meeting(j, l, u) = -u[j + N - l]
    BY <1>2, <2>2 DEF Meeting
  <2> QED BY <2>3, <2>4, <2>5
<1>3. CASE ~ (l > j)
  <2>1. j - l \in 0 .. N - 1 /\ j - l \in Int /\ j - l >= 0 /\ j + N - l \in Int
        /\ j + N - l = (j - l) + N * 1
    BY <1>1, <1>3
  <2>2. (j + N - l) % N = j - l
    <3>1. 1 \in Int
      OBVIOUS
    <3>2. Same(j + N - l, j - l, N)
      BY <2>1, <3>1, Zenon DEF Same
    <3> QED BY <1>1, <2>1, <3>2, ResidueIs
  <2>3. Turning(u, j - l) = u[j - l]
    BY <2>1 DEF Turning
  <2>4. u[j - l] \in Int
    BY <2>1 DEF Polynomials, Powers
  <2>5. Meeting(j, l, u) = u[j - l]
    BY <1>3, <2>2 DEF Meeting
  <2> QED BY <2>3, <2>4, <2>5
<1> QED BY <1>2, <1>3

\* All of them make the product with the secret.
LEMMA MeetingsAre ==
  ASSUME NEW j \in Powers, NEW u \in Polynomials, NEW s \in Polynomials
  PROVE  /\ [l \in Powers |-> Meeting(j, l, u) * s[l]] \in [Powers -> Int]
         /\ Total([l \in Powers |-> Meeting(j, l, u) * s[l]]) = Negacyclic(u, s)[j]
<1> DEFINE f == [l \in Powers |-> Meeting(j, l, u) * s[l]]
<1>1. ASSUME NEW l \in Powers PROVE f[l] \in Int /\ f[l] = s[l] * Turning(u, j - l)
  <2>1. Meeting(j, l, u) \in Int /\ Meeting(j, l, u) = Turning(u, j - l)
    BY MeetingIs
  <2>2. s[l] \in Int
    BY DEF Polynomials
  <2> QED BY <2>1, <2>2
<1>2. f \in [Powers -> Int]
  BY <1>1
<1>3. f = ProductTerms(s, u, j)
  BY <1>1 DEF ProductTerms
<1>4. Negacyclic(s, u)[j] = Total(ProductTerms(s, u, j))
  BY ProductTermsAre
<1>5. Negacyclic(u, s) = Negacyclic(s, u)
  BY NegacyclicCommutes
<1> QED BY <1>2, <1>3, <1>4, <1>5

\* Secrets are small polynomials.
LEMMA TernaryIs ==
  ASSUME NEW s \in Ternary
  PROVE  /\ s \in Polynomials /\ \A l \in Powers : s[l] \in Int /\ s[l] \in {-1, 0, 1}
         /\ Weight(s) \in Nat
<1>1. \A l \in Powers : s[l] \in -1 .. 1
  BY DEF Ternary
<1>2. \A x \in -1 .. 1 : x \in Int /\ x \in {-1, 0, 1}
  OBVIOUS
<1>3. s \in Polynomials
  BY <1>1, <1>2 DEF Ternary, Polynomials
<1>4. {k \in Powers : s[k] # 0} \subseteq Powers
  OBVIOUS
<1>5. IsFiniteSet({k \in Powers : s[k] # 0})
  BY <1>4, PowersAre, FS_Subset
<1>6. Weight(s) \in Nat
  BY <1>5, FS_CardinalityType DEF Weight
<1> QED BY <1>1, <1>2, <1>3, <1>6

\* A light secret makes little of bounded components.
LEMMA LightProduct ==
  ASSUME NEW j \in Powers, NEW u \in Polynomials, NEW s \in Ternary, NEW b \in Nat,
         Bounded(u, b)
  PROVE  /\ Negacyclic(u, s)[j] \in Int
         /\ -(b * Weight(s)) <= Negacyclic(u, s)[j]
         /\ Negacyclic(u, s)[j] <= b * Weight(s)
<1> DEFINE f == [l \in Powers |-> Meeting(j, l, u) * s[l]]
           W == {k \in Powers : s[k] # 0}
<1>1. s \in Polynomials /\ \A l \in Powers : s[l] \in Int /\ s[l] \in {-1, 0, 1}
  BY TernaryIs
<1>2. f \in [Powers -> Int] /\ Total(f) = Negacyclic(u, s)[j]
  BY <1>1, MeetingsAre
<1>3. ASSUME NEW l \in Powers PROVE -b <= f[l] /\ f[l] <= b /\ (l \notin W => f[l] = 0)
  <2> DEFINE m == Meeting(j, l, u)
  <2>1. m \in Int /\ m = Turning(u, j - l)
    BY MeetingIs
  <2>2. -b <= m /\ m <= b
    <3>1. N \in Nat /\ N >= 2 /\ j \in 0 .. N - 1 /\ l \in 0 .. N - 1 /\ j \in Int /\ l \in Int
      BY DegreeIs DEF Powers
    <3> HIDE DEF m
    <3>2. CASE j - l >= 0
      <4>1. j - l \in Powers
        BY <3>1, <3>2 DEF Powers
      <4>2. m = u[j - l]
        BY <2>1, <3>2 DEF Turning
      <4> QED BY <4>1, <4>2 DEF Bounded
    <3>3. CASE ~ (j - l >= 0)
      <4>1. (j - l) + N \in Powers /\ j - l >= -N
        BY <3>1, <3>3 DEF Powers
      <4>2. m = -u[(j - l) + N]
        BY <2>1, <3>3, <4>1 DEF Turning
      <4>3. u[(j - l) + N] \in Int
        BY <4>1 DEF Polynomials
      <4>4. -b <= u[(j - l) + N] /\ u[(j - l) + N] <= b
        BY <4>1 DEF Bounded
      <4> QED BY <4>2, <4>3, <4>4
    <3> QED BY <3>2, <3>3
  <2>3. f[l] = m * s[l]
    OBVIOUS
  <2>4. s[l] \in {-1, 0, 1}
    BY <1>1
  <2> DEFINE r == s[l]
  <2>5. s[l] # 0 => l \in W
    OBVIOUS
  <2> HIDE DEF m, f, W
  <2>6. CASE s[l] = 0
    BY <2>1, <2>2, <2>3, <2>6
  <2>7. CASE s[l] = 1
    BY <2>1, <2>2, <2>3, <2>5, <2>7
  <2>8. CASE s[l] = -1
    BY <2>1, <2>2, <2>3, <2>5, <2>8
  <2> QED BY <2>4, <2>6, <2>7, <2>8
<1>4. W \subseteq Powers /\ Weight(s) = Cardinality(W)
  BY DEF Weight
<1> HIDE DEF f, W
<1>5. /\ Cardinality(W) \in Nat
      /\ -(b * Cardinality(W)) <= Total(f) /\ Total(f) <= b * Cardinality(W)
  BY <1>2, <1>3, <1>4, PowersAre, TotalIsWithin
<1>6. Total(f) \in Int
  BY <1>2, PowersAre, TotalIsInt
<1> QED BY <1>2, <1>4, <1>5, <1>6

-----------------------------------------------------------------------------
(* The carry of a coefficient.                                              *)

\* A common factor does not change an order.
LEMMA FactorOrders ==
  ASSUME NEW q \in Nat, q > 0, NEW y \in Int, NEW z \in Int, q * y <= q * z
  PROVE  y <= z
<1>1. SUFFICES ASSUME y >= z + 1 PROVE FALSE
  OBVIOUS
<1> DEFINE w == y - z
<1>2. w \in Int /\ w >= 1 /\ y = z + w
  BY <1>1
<1> HIDE DEF w
<1>3. q * w >= q /\ q * y = q * z + q * w
  <2>1. q * w >= q
    BY <1>2
  <2>2. q * (z + w) = q * z + q * w
    BY <1>2
  <2> QED BY <2>1, <2>2, <1>2
<1> DEFINE x1 == q * w
           x2 == q * z
           x3 == q * y
<1>4. x1 \in Int /\ x2 \in Int /\ x1 >= q /\ x3 = x2 + x1 /\ x3 <= x2
  BY <1>2, <1>3
<1> HIDE DEF x1, x2, x3
<1> QED BY <1>4

\* In the other direction
LEMMA FactorKeepsOrder ==
  ASSUME NEW q \in Nat, NEW y \in Int, NEW z \in Int, y <= z
  PROVE  q * y <= q * z
<1> DEFINE w == z - y
<1>1. w \in Nat /\ z = y + w
  OBVIOUS
<1> HIDE DEF w
<1>2. q * w >= 0
  BY <1>1
<1>3. q * (y + w) = q * y + q * w
  BY <1>1
<1> DEFINE x1 == q * w
           x2 == q * y
<1>4. x1 \in Int /\ x2 \in Int /\ x1 >= 0 /\ q * z = x2 + x1
  BY <1>1, <1>2, <1>3
<1> HIDE DEF x1, x2
<1>5. x2 <= x2 + x1
  BY <1>4
<1> QED BY <1>4, <1>5 DEF x2

\* The carry is a value that the chart has.
LEMMA CarryIsCentered ==
  ASSUME NEW q \in Nat, q > 0, NEW K \in Int, NEW z \in Int, NEW g \in Int, NEW W \in Nat,
         NEW w \in Nat, NEW C \in Nat, NEW h \in Nat, OddFrom(C, h), W <= w, C > w + 1,
         q * (2 * K) = z - 2 * g, -(q + q * W) <= z, z <= q + q * W, -q <= 2 * g, 2 * g <= q
  PROVE  K \in -h .. h
<1>1. q * W <= q * w
  BY FactorKeepsOrder
<1>2. q * (w + 2) = q * w + 2 * q /\ q * (-(w + 2)) = -(q * w + 2 * q)
  BY SMT
<1> DEFINE x1 == q * W
           x2 == q * w
           x3 == q * (2 * K)
<1>3. x1 \in Int /\ x2 \in Int /\ x1 <= x2 /\ x3 = z - 2 * g /\ -(q + x1) <= z /\ z <= q + x1
  BY <1>1
<1> HIDE DEF x1, x2, x3
<1>4. x3 <= x2 + 2 * q /\ -(x2 + 2 * q) <= x3
  BY <1>3
<1>5. q * (2 * K) <= q * (w + 2) /\ q * (-(w + 2)) <= q * (2 * K)
  BY <1>2, <1>4 DEF x2, x3
<1>6. 2 * K \in Int /\ w + 2 \in Int /\ -(w + 2) \in Int
  OBVIOUS
<1>7. 2 * K <= w + 2
  BY <1>5, <1>6, FactorOrders
<1>8. -(w + 2) <= 2 * K
  BY <1>5, <1>6, FactorOrders
<1> QED BY <1>7, <1>8 DEF OddFrom

\* The rotation is within the window around the carry's center.
LEMMA TurnIsNear ==
  ASSUME NEW q \in Nat, q > 0, NEW D \in Int, NEW f \in Int, NEW g \in Int, NEW W \in Nat,
         NEW w \in Nat, NEW C \in Nat, NEW T \in Nat, NEW b \in Nat, W <= w,
         q * (2 * D) = f + T * (2 * g), f <= q * C + (q * C) * W, g <= b
  PROVE  2 * D <= (2 * T * b + q - 1) \div q + C * (w + 1)
<1> DEFINE Y == q * C
           Z == 2 * T * b
           u == 2 * D - C * (w + 1)
<1>1. Y \in Nat /\ Z \in Nat /\ u \in Int
  <2>1. C * (w + 1) \in Int
    OBVIOUS
  <2>2. 2 * T * b \in Nat /\ q * C \in Nat
    BY SMT
  <2> QED BY <2>1, <2>2
<1>2. Y * W <= Y * w
  BY <1>1, FactorKeepsOrder
<1>3. T * (2 * g) <= Z
  <2>1. T * (2 * g) = (2 * T) * g /\ 2 * T \in Nat
    BY SMT
  <2>2. (2 * T) * g <= (2 * T) * b
    BY <2>1, FactorKeepsOrder
  <2> QED BY <2>1, <2>2
<1>4. q * u = q * (2 * D) - (Y * w + Y)
  <2>1. q * u = q * (2 * D) - q * (C * (w + 1))
    BY SMT
  <2>2. q * (C * (w + 1)) = (q * C) * w + q * C
    BY SMT
  <2> HIDE DEF u
  <2> QED BY <2>1, <2>2
<1>5. q * u <= Z
  <2> DEFINE x1 == q * (2 * D)
             x2 == Y * W
             x3 == Y * w
             x4 == T * (2 * g)
             x5 == q * u
  <2>1. /\ x2 \in Int /\ x3 \in Int /\ x4 \in Int /\ x2 <= x3 /\ x4 <= Z /\ x1 = f + x4
        /\ x5 = x1 - (x3 + Y) /\ f <= Y + x2
    BY <1>1, <1>2, <1>3, <1>4
  <2> HIDE DEF x1, x2, x3, x4, x5, Y, Z, u
  <2>2. x5 <= Z
    BY <2>1, <1>1
  <2> QED BY <2>2 DEF x5
<1>6. u <= (Z + q - 1) \div q
  BY <1>1, <1>5, AtMostQuotient
<1>7. (Z + q - 1) \div q \in Int
  <2>1. Z + q - 1 \in Int
    BY <1>1
  <2> QED BY <2>1, Division
<1> DEFINE y1 == C * (w + 1)
           y2 == (Z + q - 1) \div q
<1>8. y1 \in Int /\ y2 \in Int /\ 2 * D - y1 <= y2
  BY <1>6, <1>7
<1> HIDE DEF y1, y2
<1>9. 2 * D <= y2 + y1
  BY <1>8
<1> QED BY <1>9 DEF y1, y2

\* What a component is rounded to, coefficient by coefficient
RoundsOf(c, u) == [k \in Powers |-> RoundTo(c.t, c.q, u[k])]
TurnsOf(c, u) == [k \in Powers |-> Projected(c, u[k])]
TwiceLeft(c, u) == [k \in Powers |-> 2 * (c.t * u[k] - c.q * RoundTo(c.t, c.q, u[k]))]
TwiceOff(c, u) == [k \in Powers |-> 2 * Deviation(c, u[k])]

\* Rounding and turning a component leaves something small, twice.
LEMMA ComponentRounds ==
  ASSUME NEW c, IsDial(c), NEW u \in Polynomials
  PROVE  /\ RoundsOf(c, u) \in Polynomials /\ TurnsOf(c, u) \in Polynomials
         /\ TwiceLeft(c, u) \in Polynomials /\ Bounded(TwiceLeft(c, u), c.q)
         /\ TwiceOff(c, u) \in Polynomials /\ Bounded(TwiceOff(c, u), c.q * c.coordinate)
         /\ Combines(TwiceLeft(c, u), 2 * c.t, u, -(2 * c.q), RoundsOf(c, u))
         /\ Combines(TwiceOff(c, u), 2 * (c.q * c.coordinate), TurnsOf(c, u), -Turn, TwiceLeft(c, u))
<1>1. c.q \in Nat /\ c.q > 0 /\ c.t \in Nat /\ c.coordinate \in Nat /\ Turn \in Nat
  BY BootIs DEF IsDial
<1>2. ASSUME NEW k \in Powers
      PROVE  /\ u[k] \in Int /\ RoundTo(c.t, c.q, u[k]) \in Int
             /\ -c.q <= 2 * (c.t * u[k] - c.q * RoundTo(c.t, c.q, u[k]))
             /\ 2 * (c.t * u[k] - c.q * RoundTo(c.t, c.q, u[k])) <= c.q
             /\ Projected(c, u[k]) \in Int /\ Deviation(c, u[k]) \in Int
             /\ -(c.q * c.coordinate) <= 2 * Deviation(c, u[k])
             /\ 2 * Deviation(c, u[k]) <= c.q * c.coordinate
  <2>1. u[k] \in Int
    BY DEF Polynomials
  <2>2. /\ RoundTo(c.t, c.q, u[k]) \in Int
        /\ -c.q <= 2 * (c.t * u[k] - c.q * RoundTo(c.t, c.q, u[k]))
        /\ 2 * (c.t * u[k] - c.q * RoundTo(c.t, c.q, u[k])) <= c.q
    BY <1>1, <2>1, RoundToIs
  <2>3. /\ Projected(c, u[k]) \in Int /\ Deviation(c, u[k]) \in Int
        /\ -(c.q * c.coordinate) <= 2 * Deviation(c, u[k])
        /\ 2 * Deviation(c, u[k]) <= c.q * c.coordinate
    BY <2>1, ProjectedIs
  <2> QED BY <2>1, <2>2, <2>3
<1>3. RoundsOf(c, u) \in Polynomials /\ TurnsOf(c, u) \in Polynomials
  BY <1>2 DEF RoundsOf, TurnsOf, Polynomials
<1>4. \A k \in Powers : 2 * (c.t * u[k] - c.q * RoundTo(c.t, c.q, u[k])) \in Int
  <2> TAKE k \in Powers
  <2> DEFINE x == u[k]
             y == RoundTo(c.t, c.q, u[k])
  <2>1. x \in Int /\ y \in Int
    BY <1>2
  <2> HIDE DEF x, y
  <2>2. 2 * (c.t * x - c.q * y) \in Int
    BY <2>1, <1>1
  <2> QED BY <2>2 DEF x, y
<1>5. TwiceLeft(c, u) \in Polynomials
  BY <1>4 DEF TwiceLeft, Polynomials
<1>6. Bounded(TwiceLeft(c, u), c.q)
  BY <1>2 DEF TwiceLeft, Bounded
<1>7. \A k \in Powers : 2 * Deviation(c, u[k]) \in Int
  BY <1>2
<1>8. TwiceOff(c, u) \in Polynomials
  BY <1>7 DEF TwiceOff, Polynomials
<1>9. Bounded(TwiceOff(c, u), c.q * c.coordinate)
  BY <1>2, Zenon DEF TwiceOff, Bounded
<1>10. ASSUME NEW k \in Powers
       PROVE  /\ TwiceLeft(c, u)[k] = (2 * c.t) * u[k] + (-(2 * c.q)) * RoundsOf(c, u)[k]
              /\ TwiceOff(c, u)[k] = (2 * (c.q * c.coordinate)) * TurnsOf(c, u)[k]
                                       + (-Turn) * TwiceLeft(c, u)[k]
  <2> DEFINE x == u[k]
             y == RoundTo(c.t, c.q, u[k])
             p == Projected(c, u[k])
             d == Deviation(c, u[k])
             q == c.q
             C == c.coordinate
             t == c.t
             T == Turn
  <2>1. /\ x \in Int /\ y \in Int /\ p \in Int /\ d \in Int /\ q \in Int /\ C \in Int /\ t \in Int
        /\ T \in Int
    BY <1>1, <1>2
  <2>2. d = q * (C * p) - T * (t * x - q * y)
    BY DEF Deviation
  <2>3. /\ TwiceLeft(c, u)[k] = 2 * (t * x - q * y) /\ RoundsOf(c, u)[k] = y /\ TurnsOf(c, u)[k] = p
        /\ TwiceOff(c, u)[k] = 2 * d
    BY DEF TwiceLeft, RoundsOf, TurnsOf, TwiceOff
  <2>4. u[k] = x
    OBVIOUS
  <2> HIDE DEF x, y, p, d, q, C, t, T
  <2>5. 2 * (t * x - q * y) = (2 * t) * x + (-(2 * q)) * y
    BY <2>1
  <2>6. 2 * d = (2 * (q * C)) * p + (-T) * (2 * (t * x - q * y))
    <3> DEFINE r == t * x - q * y
    <3>1. r \in Int /\ d = q * (C * p) - T * r
      BY <2>1, <2>2
    <3> HIDE DEF r
    <3>2. q * (C * p) = (q * C) * p /\ (2 * (q * C)) * p = 2 * ((q * C) * p)
          /\ (-T) * (2 * r) = -(2 * (T * r))
      BY <2>1, <3>1
    <3> DEFINE x1 == (q * C) * p
               x2 == T * r
    <3>3. x1 \in Int /\ x2 \in Int /\ d = x1 - x2 /\ (2 * (q * C)) * p = 2 * x1
          /\ (-T) * (2 * r) = -(2 * x2)
      BY <2>1, <3>1, <3>2
    <3> HIDE DEF x1, x2
    <3>4. 2 * d = (2 * (q * C)) * p + (-T) * (2 * r)
      BY <3>3
    <3> QED BY <3>4 DEF r
  <2>7. TwiceLeft(c, u)[k] = (2 * t) * x + (-(2 * q)) * y
    BY <2>3, <2>5
  <2>8. TwiceOff(c, u)[k] = (2 * (q * C)) * p + (-T) * TwiceLeft(c, u)[k]
    BY <2>3, <2>6
  <2> QED BY <2>3, <2>7, <2>8 DEF x, y, p, q, C, t, T
<1>11. Combines(TwiceLeft(c, u), 2 * c.t, u, -(2 * c.q), RoundsOf(c, u))
  BY <1>10, Zenon DEF Combines
<1>12. Combines(TwiceOff(c, u), 2 * (c.q * c.coordinate), TurnsOf(c, u), -Turn, TwiceLeft(c, u))
  BY <1>10, Zenon DEF Combines
<1> QED BY <1>3, <1>5, <1>6, <1>8, <1>9, <1>11, <1>12

-----------------------------------------------------------------------------
(* The chart reads the carry.                                               *)

\* The largest value of the table
Largest(c) == Max({Magnitude(TableMessage(c)[k]) : k \in BootPowers})

\* What a clock that was accepted and built has
IsClock(c) ==
  /\ IsChart(c) /\ IsDial(c) /\ c.q = Product(c.main)
  /\ c.bootQ \in Nat /\ c.bootQ > 0
  /\ c.t > 0 /\ (\E h \in Nat : OddFrom(c.t, h)) /\ Coprime(BootN, c.t)
  /\ c.weight \in Nat /\ c.coordinate > c.weight + 1
  /\ c.error \in Nat /\ c.error <= c.q \div 2
  /\ c.switch \in Nat /\ c.back \in Nat
  /\ c.message = TableMessage(c) /\ c.trace = GaloisKeys
  /\ c.controls = c.switch * c.t * 4 * N
  /\ c.lookup = ((c.bootQ % c.t) * Largest(c) + c.controls) * BootN + c.switch * c.t * (BootN - 1)

\* What is rounded off, and what is turned to, for coefficient j
Rounded_(c, a, u, s, j) == RoundTo(c.t, c.q, a) + Negacyclic(RoundsOf(c, u), s)[j]
Turned_(c, a, u, s, j) == Projected(c, a) + Negacyclic(TurnsOf(c, u), s)[j]

\* What is known of a coefficient in numbers alone: x stands for what c0 has
\* there, x1 for what c1 and the secret make there.
CarryNumbers(q, t, T, C, h, b, w, W, x, a, p, d, e, x1, a1, p1, d1, e1, K, g) ==
  /\ q \in Nat /\ q > 0 /\ t \in Nat /\ T \in Nat /\ C \in Nat /\ h \in Nat /\ OddFrom(C, h)
  /\ b \in Nat /\ 2 * b <= q /\ w \in Nat /\ C > w + 1 /\ W \in Nat /\ W <= w
  /\ x \in Int /\ a \in Int /\ p \in Int /\ d \in Int /\ e \in Int
  /\ d = 2 * (t * x - q * a) /\ -q <= d /\ d <= q
  /\ e = 2 * (q * (C * p)) - T * d /\ -(q * C) <= e /\ e <= q * C
  /\ x1 \in Int /\ a1 \in Int /\ p1 \in Int /\ d1 \in Int /\ e1 \in Int
  /\ d1 = (2 * t) * x1 + (-(2 * q)) * a1 /\ -(q * W) <= d1 /\ d1 <= q * W
  /\ e1 = (2 * (q * C)) * p1 + (-T) * d1 /\ -((q * C) * W) <= e1 /\ e1 <= (q * C) * W
  /\ K \in Int /\ g \in Int /\ -b <= g /\ g <= b
  /\ t * (x + x1) = q * (a + a1) + q * K + g

\* In these numbers, what is read is the carry, and it is centered.
LEMMA CarryInNumbers ==
  ASSUME NEW q, NEW t, NEW T, NEW C, NEW h, NEW b, NEW w, NEW W, NEW x, NEW a, NEW p, NEW d,
         NEW e, NEW x1, NEW a1, NEW p1, NEW d1, NEW e1, NEW K, NEW g,
         CarryNumbers(q, t, T, C, h, b, w, W, x, a, p, d, e, x1, a1, p1, d1, e1, K, g)
  PROVE  /\ K \in -h .. h
         /\ C * (p + p1) = T * K + (C * (p + p1) - T * K)
         /\ 2 * (C * (p + p1) - T * K) <= (2 * T * b + q - 1) \div q + C * (w + 1)
         /\ -((2 * T * b + q - 1) \div q + C * (w + 1)) <= 2 * (C * (p + p1) - T * K)
<1>a. /\ q \in Nat /\ q > 0 /\ t \in Nat /\ T \in Nat /\ C \in Nat /\ h \in Nat /\ OddFrom(C, h)
      /\ b \in Nat /\ 2 * b <= q /\ w \in Nat /\ C > w + 1 /\ W \in Nat /\ W <= w
      /\ x \in Int /\ a \in Int /\ p \in Int /\ d \in Int /\ e \in Int
      /\ d = 2 * (t * x - q * a) /\ -q <= d /\ d <= q
      /\ e = 2 * (q * (C * p)) - T * d /\ -(q * C) <= e /\ e <= q * C
      /\ x1 \in Int /\ a1 \in Int /\ p1 \in Int /\ d1 \in Int /\ e1 \in Int
      /\ d1 = (2 * t) * x1 + (-(2 * q)) * a1 /\ -(q * W) <= d1 /\ d1 <= q * W
      /\ e1 = (2 * (q * C)) * p1 + (-T) * d1 /\ -((q * C) * W) <= e1 /\ e1 <= (q * C) * W
      /\ K \in Int /\ g \in Int /\ -b <= g /\ g <= b
      /\ t * (x + x1) = q * (a + a1) + q * K + g
  BY DEF CarryNumbers
<1> USE <1>a
<1> DEFINE z == d + d1
           f == e + e1
           D == C * (p + p1) - T * K
           Y == q * C
<1>1. z \in Int /\ f \in Int /\ D \in Int /\ Y \in Nat
  OBVIOUS
<1>2. q * (2 * K) = z - 2 * g
  <2> DEFINE y1 == t * x
             y2 == q * a
             y3 == t * x1
             y4 == q * a1
             y5 == q * K
  <2>1. y1 \in Int /\ y2 \in Int /\ y3 \in Int /\ y4 \in Int /\ y5 \in Int
    OBVIOUS
  <2>2. t * (x + x1) = y1 + y3 /\ q * (a + a1) = y2 + y4 /\ q * (2 * K) = 2 * y5
        /\ (2 * t) * x1 = 2 * y3 /\ (-(2 * q)) * a1 = -(2 * y4)
    BY SMT
  <2>3. d = 2 * (y1 - y2) /\ d1 = 2 * y3 + (-(2 * y4)) /\ y1 + y3 = (y2 + y4) + y5 + g
    BY <2>2
  <2> HIDE DEF y1, y2, y3, y4, y5
  <2>4. 2 * y5 = (d + d1) - 2 * g
    BY <2>1, <2>3
  <2> QED BY <2>2, <2>4
<1>3. q * (2 * D) = f + T * (2 * g)
  <2> DEFINE y1 == q * (C * p)
             y2 == (q * C) * p1
             y3 == T * d
             y4 == T * d1
             y5 == T * (2 * g)
  <2>1. y1 \in Int /\ y2 \in Int /\ y3 \in Int /\ y4 \in Int /\ y5 \in Int
    OBVIOUS
  <2>2. q * (2 * D) = 2 * (q * (C * (p + p1))) - T * (q * (2 * K))
    BY SMT
  <2>3. q * (C * (p + p1)) = y1 + y2
    BY SMT
  <2>4. T * (q * (2 * K)) = y3 + y4 - y5
    <3>1. T * (z - 2 * g) = y3 + y4 - y5
      BY SMT
    <3> QED BY <3>1, <1>2
  <2>5. (2 * (q * C)) * p1 = 2 * y2 /\ (-T) * d1 = -y4
    BY SMT
  <2>6. e = 2 * y1 - y3 /\ e1 = 2 * y2 + (-y4)
    BY <2>5
  <2> HIDE DEF y1, y2, y3, y4, y5
  <2>7. 2 * (y1 + y2) - (y3 + y4 - y5) = (e + e1) + y5
    BY <2>1, <2>6
  <2> QED BY <2>2, <2>3, <2>4, <2>7 DEF y5
<1>4. -(q + q * W) <= z /\ z <= q + q * W
  <2> DEFINE y1 == q * W
  <2>1. y1 \in Int /\ -y1 <= d1 /\ d1 <= y1
    OBVIOUS
  <2> HIDE DEF y1
  <2>2. -(q + y1) <= d + d1 /\ d + d1 <= q + y1
    BY <2>1
  <2> QED BY <2>2 DEF y1
<1>5. f <= Y + Y * W /\ -f <= Y + Y * W
  <2> DEFINE y1 == Y * W
  <2>1. y1 \in Int /\ -y1 <= e1 /\ e1 <= y1 /\ -Y <= e /\ e <= Y
    OBVIOUS
  <2> HIDE DEF y1, Y
  <2>2. e + e1 <= Y + y1 /\ -(e + e1) <= Y + y1
    BY <2>1, <1>1
  <2> QED BY <2>2 DEF y1
<1>6. -q <= 2 * g /\ 2 * g <= q
  OBVIOUS
<1> HIDE DEF z
<1>7. K \in -h .. h
  BY <1>1, <1>2, <1>4, <1>6, CarryIsCentered
<1> DEFINE M == (2 * T * b + q - 1) \div q + C * (w + 1)
<1>8. 2 * D <= M
  <2> HIDE DEF D, f
  <2> QED BY <1>1, <1>3, <1>5, TurnIsNear
<1>9. 2 * (-D) <= M
  <2>1. q * (2 * (-D)) = -(q * (2 * D)) /\ T * (2 * (-g)) = -(T * (2 * g))
    <3> HIDE DEF D
    <3> QED BY <1>1
  <2> DEFINE y1 == q * (2 * D)
             y2 == T * (2 * g)
  <2>2. y1 \in Int /\ y2 \in Int /\ y1 = f + y2
    BY <1>1, <1>3
  <2> HIDE DEF y1, y2, f
  <2>3. -y1 = -f + (-y2)
    BY <1>1, <2>2
  <2>4. q * (2 * (-D)) = -f + T * (2 * (-g))
    BY <2>1, <2>3 DEF y1, y2
  <2>5. -f \in Int /\ -D \in Int /\ -g \in Int /\ -g <= b
    BY <1>1
  <2> HIDE DEF D
  <2> QED BY <1>5, <2>4, <2>5, TurnIsNear
<1>10. M \in Int
  <2>1. 2 * T * b + q - 1 \in Int /\ C * (w + 1) \in Int
    BY SMT
  <2>2. (2 * T * b + q - 1) \div q \in Int
    BY <2>1, Division
  <2> QED BY <2>1, <2>2
<1> DEFINE y1 == C * (p + p1)
           y2 == T * K
<1>11. y1 \in Int /\ y2 \in Int /\ D = y1 - y2
  OBVIOUS
<1> HIDE DEF M, D, y1, y2
<1>12. 2 * D <= M /\ -M <= 2 * D /\ y1 = y2 + (y1 - y2)
  BY <1>1, <1>8, <1>9, <1>10, <1>11
<1> QED BY <1>7, <1>12 DEF M, D, y1, y2

\* What the chart reads at the rotation of a coefficient whose error is
\* within the plan's allowance is the carry of its coarse part.
LEMMA CarryIsRead ==
  ASSUME NEW c, IsClock(c), NEW a \in Int, NEW u \in Polynomials, NEW s \in Ternary,
         Weight(s) <= c.weight, NEW j \in Powers, NEW m \in Int,
         Drifts(c.t * (a + Negacyclic(u, s)[j]), c.q * m, c.error, c.t * c.q)
  PROVE  /\ Rounded_(c, a, u, s, j) \in Int /\ Turned_(c, a, u, s, j) \in Int
         /\ Turned_(c, a, u, s, j) % Turn \in 0 .. Turn - 1
         /\ Lookup(c, Turned_(c, a, u, s, j) % Turn) \in Int
         /\ Same(Lookup(c, Turned_(c, a, u, s, j) % Turn) + Rounded_(c, a, u, s, j), m, c.t)
<1> DEFINE q == c.q
           t == c.t
           T == Turn
           C == c.coordinate
           b == c.error
           w == c.weight
           W == Weight(s)
           a0 == RoundTo(t, q, a)
           p0 == Projected(c, a)
           d0 == 2 * (t * a - q * a0)
           e0 == 2 * Deviation(c, a)
           x1 == Negacyclic(u, s)[j]
           a1 == Negacyclic(RoundsOf(c, u), s)[j]
           p1 == Negacyclic(TurnsOf(c, u), s)[j]
           d1 == Negacyclic(TwiceLeft(c, u), s)[j]
           e1 == Negacyclic(TwiceOff(c, u), s)[j]
<1>1. /\ IsChart(c) /\ IsDial(c) /\ q \in Nat /\ q > 0 /\ t \in Nat /\ C \in Nat /\ T \in Nat /\ T > 0
      /\ b \in Nat /\ b <= q \div 2 /\ w \in Nat /\ C > w + 1 /\ q = Product(c.main)
  BY BootIs DEF IsClock, IsDial
<1>2. PICK h \in Nat : OddFrom(C, h)
  BY <1>1 DEF IsDial
<1>3. 2 * b <= q
  <2>1. q = 2 * (q \div 2) + (q % 2) /\ q % 2 \in {0, 1} /\ q \div 2 \in Nat
    BY <1>1, Halved
  <2> QED BY <1>1, <2>1
<1>4. W \in Nat /\ W <= w /\ s \in Polynomials
  BY TernaryIs
<1>5. a0 \in Int /\ -q <= d0 /\ d0 <= q
  BY <1>1, RoundToIs
<1>6. p0 \in Int /\ Deviation(c, a) \in Int /\ -(q * C) <= e0 /\ e0 <= q * C
  BY <1>1, ProjectedIs
<1>7. d0 \in Int /\ e0 \in Int
  BY <1>1, <1>5, <1>6
<1>8. e0 = 2 * (q * (C * p0)) - T * d0
  <2>1. Deviation(c, a) = q * (C * p0) - T * (t * a - q * a0)
    BY DEF Deviation
  <2> DEFINE r == t * a - q * a0
             y1 == q * (C * p0)
  <2>2. r \in Int /\ y1 \in Int /\ e0 = 2 * (y1 - T * r) /\ d0 = 2 * r
    BY <1>1, <1>5, <1>6, <2>1
  <2> HIDE DEF r, y1, d0, e0
  <2>3. e0 = 2 * y1 - T * d0
    BY <2>2, <1>1
  <2> QED BY <2>3 DEF y1
<1>9. /\ RoundsOf(c, u) \in Polynomials /\ TurnsOf(c, u) \in Polynomials
      /\ TwiceLeft(c, u) \in Polynomials /\ Bounded(TwiceLeft(c, u), q)
      /\ TwiceOff(c, u) \in Polynomials /\ Bounded(TwiceOff(c, u), q * C)
      /\ Combines(TwiceLeft(c, u), 2 * t, u, -(2 * q), RoundsOf(c, u))
      /\ Combines(TwiceOff(c, u), 2 * (q * C), TurnsOf(c, u), -T, TwiceLeft(c, u))
  BY <1>1, ComponentRounds
<1>10. x1 \in Int /\ a1 \in Int /\ p1 \in Int
  <2>1. /\ Negacyclic(u, s) \in Polynomials /\ Negacyclic(RoundsOf(c, u), s) \in Polynomials
        /\ Negacyclic(TurnsOf(c, u), s) \in Polynomials
    BY <1>4, <1>9, NegacyclicIs
  <2> QED BY <2>1 DEF Polynomials
<1>11. d1 \in Int /\ -(q * W) <= d1 /\ d1 <= q * W
  BY <1>1, <1>9, LightProduct
<1>12. e1 \in Int /\ -((q * C) * W) <= e1 /\ e1 <= (q * C) * W
  <2>1. q * C \in Nat
    BY <1>1
  <2> HIDE DEF q, C
  <2> QED BY <2>1, <1>9, LightProduct
<1>13. d1 = (2 * t) * x1 + (-(2 * q)) * a1
  <2>1. 2 * t \in Int /\ -(2 * q) \in Int
    BY <1>1
  <2> HIDE DEF q, t
  <2>2. Combines(Negacyclic(TwiceLeft(c, u), s), 2 * t, Negacyclic(u, s), -(2 * q),
                 Negacyclic(RoundsOf(c, u), s))
    BY <1>4, <1>9, <2>1, ProductIsLinear
  <2> QED BY <2>2, Zenon DEF Combines
<1>14. e1 = (2 * (q * C)) * p1 + (-T) * d1
  <2>1. 2 * (q * C) \in Int /\ -T \in Int
    BY <1>1
  <2> HIDE DEF q, C, T
  <2>2. Combines(Negacyclic(TwiceOff(c, u), s), 2 * (q * C), Negacyclic(TurnsOf(c, u), s), -T,
                 Negacyclic(TwiceLeft(c, u), s))
    BY <1>4, <1>9, <2>1, ProductIsLinear
  <2> QED BY <2>2, Zenon DEF Combines
<1>15. PICK g \in Int, v \in Int : t * (a + x1) = q * m + g + (t * q) * v /\ -b <= g /\ g <= b
  BY DEF Drifts
<1> DEFINE A == a0 + a1
           R == p0 + p1
           K == m + t * v - A
<1>16. A = Rounded_(c, a, u, s, j) /\ R = Turned_(c, a, u, s, j)
  BY DEF Rounded_, Turned_
<1>17. A \in Int /\ R \in Int /\ K \in Int
  BY <1>1, <1>5, <1>6, <1>10
<1>18. t * (a + x1) = q * (a0 + a1) + q * K + g
  <2> HIDE DEF q, t, a0, a1, x1
  <2>1. q * K = q * m + (t * q) * v - q * A
    BY <1>1, <1>17, <1>15, <1>5, <1>10
  <2> DEFINE y1 == q * m
             y2 == (t * q) * v
             y3 == q * A
             y4 == q * K
             y5 == t * (a + x1)
  <2>2. y1 \in Int /\ y2 \in Int /\ y3 \in Int /\ y4 = y1 + y2 - y3 /\ y5 = y1 + g + y2
    BY <1>1, <1>17, <1>15, <2>1
  <2> HIDE DEF y1, y2, y3, y4, y5, A, K
  <2>3. y5 = y3 + y4 + g
    BY <2>2
  <2> QED BY <2>3 DEF y3, y4, y5, A
<1> HIDE DEF K
<1>19. /\ K \in -h .. h
       /\ C * (p0 + p1) = T * K + (C * (p0 + p1) - T * K)
       /\ 2 * (C * (p0 + p1) - T * K) <= (2 * T * b + q - 1) \div q + C * (w + 1)
       /\ -((2 * T * b + q - 1) \div q + C * (w + 1)) <= 2 * (C * (p0 + p1) - T * K)
  <2>1. d0 = 2 * (t * a - q * a0)
    OBVIOUS
  <2> HIDE DEF q, t, T, C, b, w, W, a0, p0, d0, e0, x1, a1, p1, d1, e1
  <2>2. CarryNumbers(q, t, T, C, h, b, w, W, a, a0, p0, d0, e0, x1, a1, p1, d1, e1, K, g)
    BY <1>1, <1>2, <1>3, <1>4, <1>5, <1>6, <1>7, <1>8, <1>10, <1>11, <1>12, <1>13, <1>14,
       <1>15, <1>17, <1>18, <2>1 DEF CarryNumbers
  <2> QED BY <2>2, CarryInNumbers
<1>20. TwiceWindow(c) = (2 * T * b + q - 1) \div q + C * (w + 1)
  BY <1>1 DEF TwiceWindow
<1> DEFINE D == C * R - T * K
<1>21. D \in Int /\ C * R = T * K + D /\ -TwiceWindow(c) <= 2 * D /\ 2 * D <= TwiceWindow(c)
  <2>1. D \in Int
    BY <1>1, <1>17
  <2> HIDE DEF q, C, T, b, w, p0, p1
  <2> QED BY <1>19, <1>20, <2>1
<1> HIDE DEF D
<1>22. Lookup(c, R % T) = K
  <2> HIDE DEF R
  <2> QED BY <1>1, <1>2, <1>17, <1>19, <1>21, NearReads
<1>23. R % T \in 0 .. T - 1
  <2> HIDE DEF R, T
  <2> QED BY <1>1, <1>17, Division
<1>24. Same(K + A, m, t)
  <2>1. K + A = m + t * v
    <3> DEFINE y1 == t * v
    <3>1. y1 \in Int /\ K = m + y1 - A
      BY <1>1, <1>15 DEF K
    <3> HIDE DEF y1, A
    <3>2. K + A = m + y1
      BY <1>17, <3>1
    <3> QED BY <3>2 DEF y1
  <2> QED BY <2>1, <1>15 DEF Same
<1> QED BY <1>16, <1>17, <1>22, <1>23, <1>24

-----------------------------------------------------------------------------
(* The blind rotation: one step, and all of them.                           *)

\* The boot ring, and its secrets and errors
BootPolynomials == [BootPowers -> Int]
Signs == [BootPowers -> -1 .. 1]

\* Coefficient by coefficient, a is m and something at most b.
Follows(a, m, b, q) == \A k \in BootPowers : Drifts(a[k], m[k], b, q)

\* The powers of the boot ring
LEMMA BootPowersAre ==
  /\ IsFiniteSet(BootPowers) /\ BootPowers = 0 .. BootN - 1 /\ 0 \in BootPowers
  /\ \A k \in BootPowers : k \in Nat /\ k < BootN /\ k \in Int
<1>1. BootN \in Nat /\ BootN >= 2
  BY BootIs
<1>2. 0 \in Int /\ BootN - 1 \in Int
  BY <1>1
<1>3. IsFiniteSet(0 .. BootN - 1)
  BY <1>2, FS_Interval
<1> QED BY <1>1, <1>3 DEF BootPowers

\* A shift of both
LEMMA ShiftFollows ==
  ASSUME NEW a \in BootPolynomials, NEW m \in BootPolynomials, NEW b \in Int, NEW q \in Int,
         Follows(a, m, b, q), NEW d \in Int
  PROVE  /\ ShiftBy(BootN, a, d) \in BootPolynomials /\ ShiftBy(BootN, m, d) \in BootPolynomials
         /\ Follows(ShiftBy(BootN, a, d), ShiftBy(BootN, m, d), b, q)
<1>1. BootN \in Nat /\ BootN > 0 /\ BootPowers = 0 .. BootN - 1
  BY BootIs, BootPowersAre
<1>2. a \in [0 .. BootN - 1 -> Int] /\ m \in [0 .. BootN - 1 -> Int]
  BY <1>1 DEF BootPolynomials
<1>3. ShiftBy(BootN, a, d) \in BootPolynomials /\ ShiftBy(BootN, m, d) \in BootPolynomials
  BY <1>1, <1>2, ShiftIs DEF BootPolynomials
<1>4. ASSUME NEW k \in BootPowers
      PROVE  Drifts(ShiftBy(BootN, a, d)[k], ShiftBy(BootN, m, d)[k], b, q)
  <2> DEFINE from == (k - d) % (2 * BootN)
  <2>1. from \in 0 .. 2 * BootN - 1
    <3>1. k - d \in Int /\ 2 * BootN \in Nat /\ 2 * BootN > 0
      BY <1>1
    <3> QED BY <3>1, Division
  <2>2. /\ ShiftBy(BootN, a, d)[k] = IF from < BootN THEN a[from] ELSE -a[from - BootN]
        /\ ShiftBy(BootN, m, d)[k] = IF from < BootN THEN m[from] ELSE -m[from - BootN]
    BY <1>1 DEF ShiftBy
  <2> HIDE DEF from
  <2>3. CASE from < BootN
    <3>1. from \in BootPowers
      BY <1>1, <2>1, <2>3
    <3>2. Drifts(a[from], m[from], b, q)
      BY <3>1 DEF Follows
    <3> QED BY <2>2, <2>3, <3>2
  <2>4. CASE ~ (from < BootN)
    <3>1. from - BootN \in BootPowers
      BY <1>1, <2>1, <2>4
    <3>2. Drifts(a[from - BootN], m[from - BootN], b, q)
      BY <3>1 DEF Follows
    <3>3. a[from - BootN] \in Int /\ m[from - BootN] \in Int
      BY <3>1 DEF BootPolynomials
    <3>4. Drifts(-a[from - BootN], -m[from - BootN], b, q)
      BY <3>2, <3>3, DriftsNegative
    <3> QED BY <2>2, <2>4, <3>4
  <2> QED BY <2>3, <2>4
<1> QED BY <1>3, <1>4 DEF Follows

\* Without a turn, nothing moves.
LEMMA ShiftByNone ==
  ASSUME NEW m \in BootPolynomials
  PROVE  ShiftBy(BootN, m, 0) = m
<1>1. BootN \in Nat /\ BootN > 0 /\ BootPowers = 0 .. BootN - 1 /\ m \in [0 .. BootN - 1 -> Int]
  BY BootIs, BootPowersAre DEF BootPolynomials
<1> DEFINE d == 0
<1>2. d \in Int /\ \A k \in 0 .. BootN - 1 : k - d = k
  BY <1>1
<1> HIDE DEF d
<1>3. ASSUME NEW k \in 0 .. BootN - 1 PROVE ShiftBy(BootN, m, d)[k] = m[k]
  <2>1. ShiftBy(BootN, m, d)[k] = Circled(BootN, m, k - d)
    BY <1>1, <1>2, ShiftIs
  <2>2. Circled(BootN, m, k) = m[k]
    BY <1>1, CircledIs
  <2> QED BY <1>2, <2>1, <2>2
<1>4. ShiftBy(BootN, m, d) \in [0 .. BootN - 1 -> Int]
  BY <1>1, <1>2, ShiftIs
<1>5. ShiftBy(BootN, m, d) = m
  BY <1>1, <1>3, <1>4
<1> QED BY <1>5 DEF d

\* A product by an encrypted bit chooses, and adds the error of two switches.
LEMMA CmuxFollows ==
  ASSUME NEW c, c.switch \in Nat, c.bootQ \in Nat, c.bootQ > 0,
         NEW a \in BootPolynomials, NEW m \in BootPolynomials, NEW b \in Nat,
         Follows(a, m, b, c.bootQ), NEW amount \in Int, NEW selected \in BOOLEAN, NEW sign \in Signs
  PROVE  /\ Cmux(c, a, amount, selected, sign) \in BootPolynomials
         /\ Follows(Cmux(c, a, amount, selected, sign),
                    IF selected THEN ShiftBy(BootN, m, amount) ELSE m, b + 2 * c.switch, c.bootQ)
<1> DEFINE q == c.bootQ
           s == c.switch
           turned == ShiftBy(BootN, a, amount)
           target == IF selected THEN ShiftBy(BootN, m, amount) ELSE m
           x == [k \in BootPowers |->
                   (a[k] + ExternalProduct(c, turned[k] - a[k], selected, sign[k])) % c.bootQ]
<1>1. /\ turned \in BootPolynomials /\ ShiftBy(BootN, m, amount) \in BootPolynomials
      /\ Follows(turned, ShiftBy(BootN, m, amount), b, q)
  BY ShiftFollows
<1>2. target \in BootPolynomials
  BY <1>1
<1>3. Cmux(c, a, amount, selected, sign) = Computed(x)
  BY Zenon DEF Cmux
<1>4. Computed(x) = x
  <2> HIDE DEF x
  <2> QED BY ComputedIs
<1>5. ASSUME NEW k \in BootPowers
      PROVE  x[k] \in Int /\ Drifts(x[k], target[k], b + 2 * s, q)
  <2> DEFINE chosen == IF selected THEN turned[k] ELSE a[k]
             y == chosen + 2 * s * sign[k]
  <2>1. a[k] \in Int /\ turned[k] \in Int /\ target[k] \in Int /\ sign[k] \in -1 .. 1
    BY <1>1, <1>2 DEF BootPolynomials, Signs
  <2>2. Drifts(chosen, target[k], b, q) /\ chosen \in Int
    <3>1. CASE selected
      BY <1>1, <2>1, <3>1 DEF Follows
    <3>2. CASE ~ selected
      BY <2>1, <3>2 DEF Follows
    <3> QED BY <3>1, <3>2
  <2> DEFINE n == 2 * s * sign[k]
  <2>3. n \in -(2 * s) .. 2 * s /\ 2 * s \in Nat /\ n \in Int
    <3>1. sign[k] = -1 \/ sign[k] = 0 \/ sign[k] = 1
      BY <2>1
    <3>2. s \in Nat
      OBVIOUS
    <3> HIDE DEF s
    <3>3. CASE sign[k] = -1
      BY <3>2, <3>3
    <3>4. CASE sign[k] = 0
      BY <3>2, <3>4
    <3>5. CASE sign[k] = 1
      BY <3>2, <3>5
    <3> QED BY <3>1, <3>3, <3>4, <3>5
  <2>4. x[k] = (a[k] + ((IF selected THEN turned[k] - a[k] ELSE 0) + n)) % q
    BY Zenon DEF ExternalProduct
  <2>5. a[k] + ((IF selected THEN turned[k] - a[k] ELSE 0) + n) = chosen + n
    <3> HIDE DEF n, turned
    <3>1. CASE selected
      BY <2>1, <2>3, <3>1
    <3>2. CASE ~ selected
      BY <2>1, <2>3, <3>2
    <3> QED BY <3>1, <3>2
  <2> HIDE DEF n, x, turned, target
  <2>6. Drifts(chosen + n, chosen, 2 * s, q)
    <3> HIDE DEF chosen, s
    <3>1. q \in Int
      OBVIOUS
    <3> HIDE DEF q
    <3> QED BY <2>2, <2>3, <3>1, DriftsBy
  <2>7. Drifts(chosen + n, target[k], 2 * s + b, q) /\ chosen + n \in Int
    <3>1. q \in Int /\ 2 * s \in Int /\ chosen + n \in Int /\ b \in Int
      BY <2>2, <2>3
    <3> HIDE DEF chosen, q, s
    <3> QED BY <2>1, <2>2, <2>6, <3>1, DriftsChain
  <2>8. 2 * s + b = b + 2 * s /\ b + 2 * s \in Int
    BY <2>3
  <2>9. x[k] = (chosen + n) % q
    BY <2>4, <2>5
  <2>10. Drifts((chosen + n) % q, target[k], b + 2 * s, q) /\ (chosen + n) % q \in Int
    <3>1. q \in Nat /\ q > 0
      OBVIOUS
    <3> HIDE DEF chosen, q, s
    <3> QED BY <2>1, <2>7, <2>8, <3>1, DriftsResidue
  <2> QED BY <2>9, <2>10
<1>6. x \in BootPolynomials
  BY <1>5 DEF BootPolynomials
<1> HIDE DEF x, target
<1>7. Follows(x, target, b + 2 * s, q)
  BY <1>5 DEF Follows
<1> QED BY <1>3, <1>4, <1>6, <1>7 DEF target

\* One turn by an encrypted trit
LEMMA StepFollows ==
  ASSUME NEW c, c.switch \in Nat, c.bootQ \in Nat, c.bootQ > 0,
         NEW a \in BootPolynomials, NEW m \in BootPolynomials, NEW b \in Nat,
         Follows(a, m, b, c.bootQ), NEW amount \in Int, NEW trit \in {-1, 0, 1},
         NEW e, e.plus \in Signs, e.minus \in Signs
  PROVE  /\ StepByTrit(c, a, amount, trit, e) \in BootPolynomials
         /\ ShiftBy(BootN, m, amount * trit) \in BootPolynomials
         /\ Follows(StepByTrit(c, a, amount, trit, e), ShiftBy(BootN, m, amount * trit),
                    b + 4 * c.switch, c.bootQ)
<1> DEFINE s == c.switch
           q == c.bootQ
           a1 == Cmux(c, a, amount, trit = 1, e.plus)
           m1 == IF trit = 1 THEN ShiftBy(BootN, m, amount) ELSE m
           a2 == Cmux(c, a1, -amount, trit = -1, e.minus)
           m2 == IF trit = -1 THEN ShiftBy(BootN, m1, -amount) ELSE m1
<1>1. -amount \in Int /\ amount * trit \in Int /\ (trit = 1) \in BOOLEAN /\ (trit = -1) \in BOOLEAN
      /\ b + 2 * s \in Nat /\ (b + 2 * s) + 2 * s = b + 4 * s /\ q \in Int /\ b \in Int
  OBVIOUS
<1>2. a1 \in BootPolynomials /\ Follows(a1, m1, b + 2 * s, q)
  BY <1>1, CmuxFollows
<1>3. m1 \in BootPolynomials /\ ShiftBy(BootN, m, amount * trit) \in BootPolynomials
  BY <1>1, ShiftFollows
<1> HIDE DEF a1
<1>4. a2 \in BootPolynomials /\ Follows(a2, m2, (b + 2 * s) + 2 * s, q)
  <2> HIDE DEF m1
  <2> QED BY <1>1, <1>2, <1>3, CmuxFollows
<1>5. m2 = ShiftBy(BootN, m, amount * trit)
  <2>1. CASE trit = 1
    <3>1. amount * trit = amount /\ trit # -1
      BY <2>1
    <3> QED BY <2>1, <3>1
  <2>2. CASE trit = 0
    <3>1. amount * trit = 0 /\ trit # -1 /\ trit # 1
      BY <2>2
    <3>2. m2 = m
      BY <3>1
    <3> QED BY <3>1, <3>2, ShiftByNone
  <2>3. CASE trit = -1
    <3>1. amount * trit = -amount /\ trit # 1
      BY <2>3
    <3> QED BY <2>3, <3>1
  <2> QED BY <2>1, <2>2, <2>3
<1>6. StepByTrit(c, a, amount, trit, e) = a2
  BY Zenon DEF StepByTrit, a1
<1> HIDE DEF a2, m2
<1> QED BY <1>1, <1>3, <1>4, <1>5, <1>6

\* How far the table is turned before step l
Before(initial, rotations, secret, l) ==
  initial + Total([i \in Powers |-> IF i < l THEN rotations[i] * secret[i] ELSE 0])

\* Step by step the table turns as the secret says.
LEMMA BeforeSteps ==
  ASSUME NEW initial \in Int, NEW rotations \in Polynomials, NEW secret \in Ternary
  PROVE  /\ \A l \in 0 .. N : Before(initial, rotations, secret, l) \in Int
         /\ Before(initial, rotations, secret, 0) = initial
         /\ \A l \in 1 .. N :
              /\ l - 1 \in Powers /\ rotations[l - 1] \in Int /\ secret[l - 1] \in {-1, 0, 1}
              /\ Before(initial, rotations, secret, l)
                   = Before(initial, rotations, secret, l - 1) + rotations[l - 1] * secret[l - 1]
         /\ Before(initial, rotations, secret, N)
              = initial + Total([i \in Powers |-> rotations[i] * secret[i]])
<1> DEFINE f(l) == [i \in Powers |-> IF i < l THEN rotations[i] * secret[i] ELSE 0]
<1>1. /\ N \in Nat /\ N >= 2 /\ IsFiniteSet(Powers) /\ Powers = 0 .. N - 1
      /\ \A i \in Powers : i \in Int /\ i >= 0 /\ i < N
  BY DegreeIs, PowersAre DEF Powers
<1>2. \A i \in Powers : rotations[i] \in Int /\ secret[i] \in {-1, 0, 1} /\ secret[i] \in Int
                        /\ rotations[i] * secret[i] \in Int
  <2>1. \A i \in Powers : rotations[i] \in Int /\ secret[i] \in {-1, 0, 1} /\ secret[i] \in Int
    BY TernaryIs DEF Polynomials
  <2> QED BY <2>1
<1>3. \A l \in 0 .. N : f(l) \in [Powers -> Int]
  BY <1>2
<1>4. \A l \in 0 .. N : Total(f(l)) \in Int
  <2> HIDE DEF f
  <2> QED BY <1>1, <1>3, TotalIsInt
<1>5. \A l \in 0 .. N : Before(initial, rotations, secret, l) = initial + Total(f(l))
  BY DEF Before
<1>6. Total(f(0)) = 0
  <2>1. \A i \in Powers : f(0)[i] = 0
    BY <1>1
  <2>2. f(0) \in [Powers -> Int]
    BY <1>1, <1>3
  <2> HIDE DEF f
  <2> QED BY <1>1, <2>1, <2>2, TotalOfZeros
<1>7. ASSUME NEW l \in 1 .. N
      PROVE  l - 1 \in Powers /\ Total(f(l)) = Total(f(l - 1)) + rotations[l - 1] * secret[l - 1]
  <2> DEFINE z == l - 1
             g == [i \in Powers |-> IF i = z THEN rotations[i] * secret[i] ELSE 0]
             h == [i \in Powers |-> f(z)[i] + g[i]]
  <2>1. z \in Powers /\ z \in 0 .. N /\ l \in 0 .. N /\ l \in Int /\ z \in Int /\ l = z + 1
    BY <1>1
  <2> HIDE DEF z
  <2>2. g \in [Powers -> Int] /\ g[z] = rotations[z] * secret[z]
        /\ \A i \in Powers : i # z => g[i] = 0
    BY <1>2, <2>1
  <2>3. ASSUME NEW i \in Powers PROVE f(l)[i] = f(z)[i] + g[i]
    <3>1. i \in Int /\ f(l)[i] = (IF i < l THEN rotations[i] * secret[i] ELSE 0)
          /\ f(z)[i] = (IF i < z THEN rotations[i] * secret[i] ELSE 0)
          /\ g[i] = (IF i = z THEN rotations[i] * secret[i] ELSE 0)
      BY <1>1
    <3> DEFINE y == rotations[i] * secret[i]
    <3>2. y \in Int
      BY <1>2
    <3> HIDE DEF y, f, g
    <3>3. CASE i < z
      BY <2>1, <3>1, <3>2, <3>3 DEF y
    <3>4. CASE i = z
      BY <2>1, <3>1, <3>2, <3>4 DEF y
    <3>5. CASE i > z
      BY <2>1, <3>1, <3>2, <3>5 DEF y
    <3> QED BY <2>1, <3>1, <3>3, <3>4, <3>5
  <2>4. f(l) \in [Powers -> Int] /\ f(z) \in [Powers -> Int]
    BY <1>3, <2>1
  <2> HIDE DEF f, g
  <2>5. f(l) = h
    BY <2>3, <2>4
  <2>6. Total(h) = Total(f(z)) + Total(g)
    <3> DEFINE F == f(z)
    <3>1. F \in [Powers -> Int] /\ g \in [Powers -> Int] /\ IsFiniteSet(Powers)
      BY <1>1, <2>2, <2>4
    <3> HIDE DEF F
    <3>2. Total([i \in Powers |-> F[i] + g[i]]) = Total(F) + Total(g)
      BY <3>1, TotalOfSums
    <3> QED BY <3>2 DEF F
  <2>7. Total(g) = g[z]
    BY <1>1, <2>1, <2>2, TotalOfOne
  <2>8. Total(f(l)) = Total(f(z)) + rotations[z] * secret[z]
    BY <2>2, <2>5, <2>6, <2>7
  <2> QED BY <2>1, <2>8 DEF z
<1>8. f(N) = [i \in Powers |-> rotations[i] * secret[i]]
  BY <1>1
<1>9. 0 \in 0 .. N /\ N \in 0 .. N /\ \A l \in 1 .. N : l - 1 \in 0 .. N /\ l \in 0 .. N
  BY <1>1
<1> HIDE DEF f
<1>10. Before(initial, rotations, secret, 0) = initial
  <2>1. Before(initial, rotations, secret, 0) = initial + Total(f(0))
    BY <1>5, <1>9
  <2> QED BY <1>6, <2>1
<1>11. ASSUME NEW l \in 1 .. N
       PROVE  Before(initial, rotations, secret, l)
                = Before(initial, rotations, secret, l - 1) + rotations[l - 1] * secret[l - 1]
  <2> DEFINE y == rotations[l - 1] * secret[l - 1]
             x == Total(f(l - 1))
  <2>1. x \in Int /\ y \in Int /\ Total(f(l)) = x + y
    BY <1>2, <1>4, <1>7, <1>9
  <2>2. Before(initial, rotations, secret, l) = initial + Total(f(l))
        /\ Before(initial, rotations, secret, l - 1) = initial + x
    BY <1>5, <1>9
  <2> HIDE DEF x, y
  <2>3. initial + (x + y) = (initial + x) + y
    BY <2>1
  <2> QED BY <2>1, <2>2, <2>3 DEF y
<1>12. \A l \in 0 .. N : Before(initial, rotations, secret, l) \in Int
  BY <1>4, <1>5
<1>13. Before(initial, rotations, secret, N)
              = initial + Total([i \in Powers |-> rotations[i] * secret[i]])
  BY <1>5, <1>8, <1>9
<1> QED BY <1>2, <1>7, <1>10, <1>11, <1>12, <1>13

\* The turns of an evaluation, step by step
AreTurns(f, c, table, initial, rotations, secret, e) ==
  f = [l \in 0 .. N |->
         IF l = 0 THEN ShiftBy(BootN, table, initial)
         ELSE StepByTrit(c, f[l - 1], rotations[l - 1], secret[l - 1], e)]

\* The table after all of them
TurnedTable(c, table, initial, rotations, secret, e) ==
  (CHOOSE f : AreTurns(f, c, table, initial, rotations, secret, e))[N]

\* The errors of switching keys
IsKeySwitch(e) == e.plus \in Signs /\ e.minus \in Signs /\ e.trace \in Signs /\ e.back \in Ternary

\* The evaluation has a value at every step.
LEMMA TurnsExist ==
  ASSUME NEW c, c.switch \in Nat, c.bootQ \in Nat, c.bootQ > 0, NEW table \in BootPolynomials,
         NEW initial \in Int, NEW rotations \in Polynomials, NEW secret \in Ternary,
         NEW e, IsKeySwitch(e)
  PROVE  AreTurns(CHOOSE f : AreTurns(f, c, table, initial, rotations, secret, e),
                  c, table, initial, rotations, secret, e)
<1> DEFINE S == BootPolynomials
           a == ShiftBy(BootN, table, initial)
           step == [l \in 1 .. N |-> [x \in S |->
                      StepByTrit(c, x, rotations[l - 1], secret[l - 1], e)]]
<1>1. N \in Nat
  BY DegreeIs
<1>2. a \in S
  <2>1. Follows(table, table, 0, c.bootQ)
    <3>1. \A k \in BootPowers : table[k] \in Int
      BY DEF BootPolynomials
    <3> QED BY <3>1, DriftsNone DEF Follows
  <2> QED BY <2>1, ShiftFollows
<1>3. ASSUME NEW l \in 1 .. N, NEW x \in S
      PROVE  StepByTrit(c, x, rotations[l - 1], secret[l - 1], e) \in S
  <2>1. rotations[l - 1] \in Int /\ secret[l - 1] \in {-1, 0, 1}
    BY BeforeSteps
  <2>2. Follows(x, x, 0, c.bootQ)
    <3>1. \A k \in BootPowers : x[k] \in Int
      BY DEF BootPolynomials
    <3> QED BY <3>1, DriftsNone DEF Follows
  <2>3. 0 \in Nat /\ e.plus \in Signs /\ e.minus \in Signs
    BY DEF IsKeySwitch
  <2> QED BY <2>1, <2>2, <2>3, StepFollows
<1>4. \A l \in 1 .. N : \A x \in S : step[l][x] \in S
  BY <1>3
<1> HIDE DEF a
<1>5. PICK f \in [0 .. N -> S] : IsIteration(f, N, a, step)
  <2> HIDE DEF step, S
  <2> QED BY <1>1, <1>2, <1>4, IterationExists
<1>6. \A l \in 0 .. N : l # 0 => l \in 1 .. N /\ l - 1 \in 0 .. N
  BY <1>1
<1>7. \A l \in 0 .. N : l # 0 =>
        step[l][f[l - 1]] = StepByTrit(c, f[l - 1], rotations[l - 1], secret[l - 1], e)
  BY <1>6
<1>8. f = [l \in 0 .. N |-> IF l = 0 THEN a
                           ELSE StepByTrit(c, f[l - 1], rotations[l - 1], secret[l - 1], e)]
  <2>1. f = [l \in 0 .. N |-> IF l = 0 THEN a ELSE step[l][f[l - 1]]]
    BY <1>5 DEF IsIteration
  <2> HIDE DEF step
  <2>2. [l \in 0 .. N |-> IF l = 0 THEN a ELSE step[l][f[l - 1]]]
          = [l \in 0 .. N |-> IF l = 0 THEN a
                             ELSE StepByTrit(c, f[l - 1], rotations[l - 1], secret[l - 1], e)]
    BY <1>7
  <2> QED BY <2>1, <2>2
<1>9. AreTurns(f, c, table, initial, rotations, secret, e)
  BY <1>8, Zenon DEF AreTurns, a
<1> QED BY <1>9, Zenon

\* The table turns by what the secret makes of the rotations.
LEMMA TurnedTableFollows ==
  ASSUME NEW c, c.switch \in Nat, c.bootQ \in Nat, c.bootQ > 0,
         NEW table \in BootPolynomials, NEW m \in BootPolynomials, Follows(table, m, 0, c.bootQ),
         NEW initial \in Int, NEW rotations \in Polynomials, NEW secret \in Ternary,
         NEW e, IsKeySwitch(e)
  PROVE  /\ TurnedTable(c, table, initial, rotations, secret, e) \in BootPolynomials
         /\ Before(initial, rotations, secret, N) \in Int
         /\ ShiftBy(BootN, m, Before(initial, rotations, secret, N)) \in BootPolynomials
         /\ Follows(TurnedTable(c, table, initial, rotations, secret, e),
                    ShiftBy(BootN, m, Before(initial, rotations, secret, N)),
                    (4 * c.switch) * N, c.bootQ)
<1> DEFINE s == c.switch
           q == c.bootQ
           f == CHOOSE g : AreTurns(g, c, table, initial, rotations, secret, e)
           B(l) == Before(initial, rotations, secret, l)
           Holds(l) == /\ f[l] \in BootPolynomials
                       /\ Follows(f[l], ShiftBy(BootN, m, B(l)), (4 * s) * l, q)
           S == {l \in 0 .. N : Holds(l)}
<1>1. N \in Nat /\ N >= 2 /\ 0 \in 0 .. N /\ N \in 0 .. N
  BY DegreeIs
<1>2. AreTurns(f, c, table, initial, rotations, secret, e)
  BY TurnsExist
<1> HIDE DEF f
<1>3. f[0] = ShiftBy(BootN, table, initial)
      /\ \A l \in 1 .. N : f[l] = StepByTrit(c, f[l - 1], rotations[l - 1], secret[l - 1], e)
  <2>1. \A l \in 0 .. N : f[l] = IF l = 0 THEN ShiftBy(BootN, table, initial)
                                 ELSE StepByTrit(c, f[l - 1], rotations[l - 1], secret[l - 1], e)
    BY <1>2 DEF AreTurns
  <2>2. \A l \in 1 .. N : l \in 0 .. N /\ l # 0
    BY <1>1
  <2> QED BY <1>1, <2>1, <2>2
<1>4. /\ \A l \in 0 .. N : B(l) \in Int
      /\ B(0) = initial
      /\ \A l \in 1 .. N : /\ rotations[l - 1] \in Int /\ secret[l - 1] \in {-1, 0, 1}
                           /\ B(l) = B(l - 1) + rotations[l - 1] * secret[l - 1]
  BY BeforeSteps
<1> HIDE DEF B
<1>5. 0 \in S
  <2>1. q \in Int /\ 0 \in Int /\ (4 * s) * 0 = 0
    OBVIOUS
  <2>2. f[0] \in BootPolynomials /\ Follows(f[0], ShiftBy(BootN, m, initial), 0, q)
    BY <1>3, <2>1, ShiftFollows
  <2>3. Holds(0)
    BY <1>4, <2>1, <2>2
  <2> QED BY <1>1, <2>3
<1>6. ASSUME NEW l \in 1 .. N, l - 1 \in S PROVE l \in S
  <2> DEFINE r == rotations[l - 1]
             x == secret[l - 1]
             b == (4 * s) * (l - 1)
             m1 == ShiftBy(BootN, m, B(l - 1))
  <2>1. l \in 0 .. N /\ l - 1 \in 0 .. N /\ l - 1 \in Nat /\ l \in Int
    BY <1>1
  <2>2. r \in Int /\ x \in {-1, 0, 1} /\ r * x \in Int /\ B(l - 1) \in Int
        /\ B(l) = B(l - 1) + r * x
    BY <1>4, <2>1
  <2>3. b \in Nat /\ b + 4 * s = (4 * s) * l
    <3>1. s \in Nat
      OBVIOUS
    <3> HIDE DEF s
    <3>2. (4 * s) * (l - 1) \in Nat /\ (4 * s) * (l - 1) + 4 * s = (4 * s) * l
      BY <2>1, <3>1
    <3> QED BY <3>2
  <2>4. f[l - 1] \in BootPolynomials /\ Follows(f[l - 1], m1, b, q)
    BY <1>6
  <2>5. m1 \in BootPolynomials
    <3>1. Follows(m, m, 0, q)
      <4>1. \A k \in BootPowers : m[k] \in Int
        BY DEF BootPolynomials
      <4> QED BY <4>1, DriftsNone DEF Follows
    <3> QED BY <2>2, <3>1, ShiftFollows
  <2> HIDE DEF r, x, b, m1, Holds
  <2>6. e.plus \in Signs /\ e.minus \in Signs
    BY DEF IsKeySwitch
  <2>7. /\ StepByTrit(c, f[l - 1], r, x, e) \in BootPolynomials
        /\ Follows(StepByTrit(c, f[l - 1], r, x, e), ShiftBy(BootN, m1, r * x), b + 4 * s, q)
    BY <2>2, <2>3, <2>4, <2>5, <2>6, StepFollows
  <2>8. ShiftBy(BootN, m1, r * x) = ShiftBy(BootN, m, B(l))
    <3>1. BootN \in Nat /\ BootN > 0 /\ m \in [0 .. BootN - 1 -> Int]
      BY BootIs, BootPowersAre DEF BootPolynomials
    <3>2. ShiftBy(BootN, ShiftBy(BootN, m, B(l - 1)), r * x) = ShiftBy(BootN, m, B(l - 1) + r * x)
      <4> DEFINE a == B(l - 1)
                 d == r * x
      <4>1. a \in Int /\ d \in Int
        BY <2>2
      <4> HIDE DEF a, d
      <4>2. ShiftBy(BootN, ShiftBy(BootN, m, a), d) = ShiftBy(BootN, m, a + d)
        BY <3>1, <4>1, ShiftOfShift
      <4> QED BY <4>2 DEF a, d
    <3> QED BY <2>2, <3>2 DEF m1
  <2>9. f[l] = StepByTrit(c, f[l - 1], r, x, e)
    BY <1>3 DEF r, x
  <2>10. Holds(l)
    BY <2>3, <2>7, <2>8, <2>9 DEF Holds
  <2> QED BY <2>1, <2>10
<1>7. 0 .. N \subseteq S
  <2> HIDE DEF S
  <2> QED BY <1>1, <1>5, <1>6, RangeInduction
<1>8. Holds(N)
  BY <1>1, <1>7
<1>9. ShiftBy(BootN, m, B(N)) \in BootPolynomials
  <2>1. Follows(m, m, 0, q)
    <3>1. \A k \in BootPowers : m[k] \in Int
      BY DEF BootPolynomials
    <3> QED BY <3>1, DriftsNone DEF Follows
  <2>2. B(N) \in Int
    BY <1>1, <1>4
  <2> QED BY <2>1, <2>2, ShiftFollows
<1>10. TurnedTable(c, table, initial, rotations, secret, e) = f[N]
  BY Zenon DEF TurnedTable, f
<1> QED BY <1>1, <1>4, <1>8, <1>9, <1>10 DEF B

-----------------------------------------------------------------------------
(* The trace.                                                               *)

\* An odd number and a power of two have no common divisor.
LEMMA OddIsApart ==
  ASSUME NEW g \in Int, NEW h \in Int, g = 2 * h + 1, NEW n \in Nat
  PROVE  Apart(TwoTo[n], g)
<1> DEFINE S == {k \in Nat : Apart(TwoTo[k], g)}
<1>1. TwoTo[0] = 1 /\ \A k \in Nat : TwoTo[k + 1] = 2 * TwoTo[k] /\ TwoTo[k] \in Int
  BY TwoToIs
<1>2. 0 \in S
  BY <1>1, ApartFromOne
<1>3. Apart(2, g)
  <2>1. 2 * (-h) + g * 1 = 1 /\ -h \in Int /\ 1 \in Int
    OBVIOUS
  <2> QED BY <2>1, Zenon DEF Apart
<1>4. ASSUME NEW k \in Nat, k \in S PROVE k + 1 \in S
  <2>1. Apart(TwoTo[k], g) /\ TwoTo[k] \in Int /\ 2 \in Int /\ k + 1 \in Nat
    BY <1>1, <1>4
  <2>2. Apart(2 * TwoTo[k], g)
    BY <1>3, <2>1, ApartProduct
  <2> QED BY <1>1, <2>1, <2>2
<1>5. Nat \subseteq S
  <2> HIDE DEF S
  <2> QED BY <1>2, <1>4, Induction
<1> QED BY <1>5

\* The degree is a power of two, and there is a Galois key for each of its
\* bits but one.
LEMMA BootBits ==
  \E b \in 1 .. 20 :
    /\ BootN = TwoTo[b] /\ BitLength(BootN) - 1 = b
    /\ \A i \in 0 .. b - 1 :
         /\ TwoTo[i] \in Nat /\ TwoTo[i] > 0 /\ TwoTo[i + 1] = 2 * TwoTo[i]
         /\ \E h \in Nat : /\ BootN = TwoTo[i] * (2 * h) /\ BootN \div TwoTo[i] = 2 * h
<1>1. PICK b \in 1 .. 20 : BootN = TwoTo[b]
  BY PhaseClockAssumption
<1>2. b \in Nat /\ b + 1 \in Nat /\ BootN \in Nat /\ BootN >= 2
  BY BootIs
<1>3. BitLength(BootN) - 1 = b
  <2> DEFINE x == BitLength(BootN)
             y == TwoTo[b]
  <2>1. TwoTo[b + 1] = 2 * y /\ y \in Nat /\ y > 0 /\ BootN = y
    BY <1>1, <1>2, TwoToIs
  <2>2. /\ x \in Nat /\ (x <= b <=> BootN < y) /\ (x <= b + 1 <=> BootN < TwoTo[b + 1])
    BY <1>2, BitLengthIs
  <2> HIDE DEF x, y
  <2>3. x <= b + 1 /\ ~ (x <= b)
    BY <1>2, <2>1, <2>2
  <2>4. x - 1 = b
    BY <1>2, <2>2, <2>3
  <2> QED BY <2>4 DEF x
<1>4. ASSUME NEW i \in 0 .. b - 1
      PROVE  /\ TwoTo[i] \in Nat /\ TwoTo[i] > 0 /\ TwoTo[i + 1] = 2 * TwoTo[i]
             /\ \E h \in Nat : /\ BootN = TwoTo[i] * (2 * h) /\ BootN \div TwoTo[i] = 2 * h
  <2> DEFINE d == b - i - 1
             h == TwoTo[d]
             p == TwoTo[i]
  <2>1. i \in Nat /\ d \in Nat /\ i + (d + 1) = b /\ d + 1 \in Nat
    BY <1>2
  <2> HIDE DEF d
  <2>2. TwoTo[d + 1] = 2 * h /\ h \in Nat /\ h > 0 /\ p \in Nat /\ p > 0 /\ TwoTo[i + 1] = 2 * p
    BY <2>1, TwoToIs
  <2>3. TwoTo[i + (d + 1)] = p * TwoTo[d + 1]
    BY <2>1, TwoToSum
  <2>4. BootN = p * (2 * h)
    BY <1>1, <2>1, <2>2, <2>3
  <2> HIDE DEF h, p
  <2>5. 2 * h \in Int /\ 0 \in 0 .. p - 1 /\ p * (2 * h) + 0 = p * (2 * h)
    BY <2>2
  <2>6. (p * (2 * h) + 0) \div p = 2 * h
    BY <2>2, <2>5, QuotientIs
  <2>7. BootN \div p = 2 * h
    BY <2>4, <2>5, <2>6
  <2> QED BY <2>2, <2>4, <2>7 DEF p
<1> QED BY <1>1, <1>3, <1>4

\* An automorphism X to X ^ (1 + BootN / p): it leaves the powers that p
\* divides where they are, and turns every second of them.
LEMMA ImageIs ==
  ASSUME NEW p \in Nat, p > 0, NEW h \in Nat, BootN = p * (2 * h), NEW b \in Nat, BootN = TwoTo[b],
         NEW k \in BootPowers
  PROVE  LET image == Image(1 + 2 * h)[k]
         IN  /\ image.from \in BootPowers /\ image.sign \in {-1, 1}
             /\ k % p = 0 => /\ image.from = k
                             /\ image.sign = IF k % (2 * p) = 0 THEN 1 ELSE -1
             /\ k % p # 0 => image.from % p # 0
<1> DEFINE n == BootN
           T == Turn
           g == 1 + 2 * h
           Goes(i) == (i * g) % n = k
           j == CHOOSE i \in BootPowers : (i * g) % n = k
           image == Image(1 + 2 * h)[k]
<1>1. n \in Nat /\ n > 0 /\ n >= 2 /\ T = 2 * n /\ T \in Nat /\ T > 0 /\ g \in Nat /\ g \in Int /\ n \in Int
  BY BootIs
<1>2. BootPowers = 0 .. n - 1 /\ \A i \in BootPowers : i \in Nat /\ i < n /\ i \in Int
  BY BootPowersAre
<1>3. Apart(n, g) /\ Apart(g, n)
  <2>1. g = 2 * h + 1 /\ h \in Int
    OBVIOUS
  <2>2. Apart(TwoTo[b], g)
    BY <1>1, <2>1, OddIsApart
  <2>3. Apart(n, g)
    BY <2>2
  <2> HIDE DEF n, g
  <2> QED BY <1>1, <2>3, ApartSymmetric
<1>4. image = [from |-> j, sign |-> IF (j * g) % T < n THEN 1 ELSE -1]
  BY Zenon DEF Image
<1> HIDE DEF g, T
<1>5. \E i \in BootPowers : Goes(i)
  <2>1. PICK x \in Int, y \in Int : g * x + n * y = 1
    BY <1>3 DEF Apart
  <2> DEFINE i == (k * x) % n
  <2>2. k \in Int /\ k * x \in Int
    BY <1>2, <2>1
  <2>3. i \in 0 .. n - 1 /\ Same(i, k * x, n)
    BY <1>1, <2>2, ResidueIsSame
  <2> HIDE DEF i, n
  <2>4. i \in Int /\ Same(g, g, n)
    BY <1>1, <2>3, SameReflexive
  <2>5. Same(i * g, (k * x) * g, n)
    BY <1>1, <2>2, <2>3, <2>4, SameProduct
  <2>6. Same((k * x) * g, k, n)
    <3>1. (k * x) * g = k + n * (-(k * y))
      <4>1. (k * x) * g = k * (g * x) /\ k * (g * x + n * y) = k * (g * x) + n * (k * y)
            /\ n * (-(k * y)) = -(n * (k * y)) /\ k * 1 = k
        BY <1>1, <2>1, <2>2
      <4> DEFINE x1 == k * (g * x)
                 x2 == n * (k * y)
      <4>2. x1 \in Int /\ x2 \in Int /\ x1 + x2 = k /\ (k * x) * g = x1 /\ n * (-(k * y)) = -x2
        BY <1>1, <2>1, <2>2, <4>1
      <4> HIDE DEF x1, x2
      <4>3. x1 = k + (-x2)
        BY <2>2, <4>2
      <4> QED BY <4>2, <4>3
    <3>2. -(k * y) \in Int
      BY <2>1, <2>2
    <3> QED BY <3>1, <3>2, Zenon DEF Same
  <2>7. i * g \in Int /\ (k * x) * g \in Int
    BY <1>1, <2>2, <2>4
  <2>8. Same(i * g, k, n)
    BY <1>1, <2>2, <2>5, <2>6, <2>7, SameTransitive
  <2>9. (i * g) % n = k
    BY <1>1, <1>2, <2>7, <2>8, ResidueIs
  <2> QED BY <1>2, <2>3, <2>9
<1>6. j \in BootPowers /\ (j * g) % n = k
  <2>1. \E i \in BootPowers : (i * g) % n = k
    BY <1>5
  <2> QED BY <2>1, Zenon
<1> HIDE DEF j
<1>7. ASSUME NEW i \in BootPowers, i % p = 0
      PROVE  \E u \in Int : /\ i = p * u
                            /\ i * g = i + n * u
  <2> DEFINE u == i \div p
  <2>1. i \in Int /\ i = p * u + (i % p) /\ u \in Int
    BY <1>2, Division
  <2> HIDE DEF u
  <2>2. i = p * u
    <3> DEFINE x == p * u
    <3>1. x \in Int /\ i = x + 0
      BY <1>7, <2>1
    <3> HIDE DEF x
    <3>2. i = x
      BY <3>1
    <3> QED BY <3>2 DEF x
  <2>3. i * g = i + n * u
    <3>1. (p * u) * (1 + 2 * h) = p * u + (p * (2 * h)) * u
      BY <2>1
    <3> QED BY <2>2, <3>1 DEF g
  <2> QED BY <2>1, <2>2, <2>3
<1>8. ASSUME NEW i \in BootPowers, i % p = 0 PROVE (i * g) % n = i
  <2>1. PICK u \in Int : i * g = i + n * u
    BY <1>7, <1>8
  <2>2. i * g \in Int /\ i \in 0 .. n - 1 /\ i \in Int
    BY <1>1, <1>2
  <2> HIDE DEF n
  <2>3. Same(i * g, i, n)
    BY <2>1, Zenon DEF Same
  <2> QED BY <1>1, <2>2, <2>3, ResidueIs
<1>9. ASSUME k % p = 0 PROVE j = k
  <2>1. (k * g) % n = k /\ j \in Int /\ k \in Int /\ j * g \in Int /\ k * g \in Int
    <3>1. j \in Int /\ k \in Int
      BY <1>2, <1>6
    <3>2. j * g \in Int /\ k * g \in Int
      BY <1>1, <3>1
    <3>3. (k * g) % n = k
      BY <1>8, <1>9
    <3> QED BY <3>1, <3>2, <3>3
  <2> HIDE DEF n
  <2>2. Same(j * g, k * g, n)
    BY <1>1, <1>6, <2>1, SameResidue
  <2>3. Divides(n, j * g - k * g)
    BY <1>1, <2>1, <2>2, DividesSame
  <2>4. j * g - k * g = g * (j - k) /\ j - k \in Int
    BY <1>1, <2>1
  <2>5. Divides(n, j - k)
    <3>1. Divides(n, g * (j - k))
      BY <2>3, <2>4
    <3> QED BY <1>1, <1>3, <2>4, <3>1, Gauss
  <2>6. n \in Nat \ {0} /\ j \in 0 .. n - 1 /\ k \in 0 .. n - 1
    BY <1>1, <1>2, <1>6
  <2> QED BY <2>5, <2>6, CloseMultiples
<1>10. ASSUME k % p = 0 PROVE image.sign = IF k % (2 * p) = 0 THEN 1 ELSE -1
  <2>1. PICK u \in Int : k = p * u /\ k * g = k + n * u
    BY <1>7, <1>10
  <2> DEFINE v == u \div 2
             w == u % 2
  <2>2. u = 2 * v + w /\ w \in 0 .. 2 - 1 /\ v \in Int
    BY <2>1, Division
  <2> HIDE DEF v, w
  <2>3. w \in {0, 1} /\ k \in Int /\ k \in 0 .. n - 1
    BY <1>2, <2>2
  <2>4. k * g = (k + n * w) + T * v /\ k = (2 * p) * v + p * w
    <3>1. n * (2 * v + w) = n * w + (2 * n) * v /\ p * (2 * v + w) = (2 * p) * v + p * w
      BY <1>1, <2>2, <2>3
    <3> DEFINE x1 == n * w
               x2 == (2 * n) * v
    <3>2. x1 \in Int /\ x2 \in Int
      BY <1>1, <2>2, <2>3
    <3>3. k + n * u = k + (x1 + x2)
      BY <2>2, <3>1
    <3> HIDE DEF x1, x2
    <3>4. k + (x1 + x2) = (k + x1) + x2
      BY <2>3, <3>2
    <3>5. k * g = (k + x1) + x2
      BY <2>1, <3>3, <3>4
    <3> QED BY <1>1, <2>1, <2>2, <3>1, <3>5 DEF x1, x2
  <2>5. k * g \in Int
    BY <1>1, <2>3
  <2>6. CASE w = 0
    <3>1. n * w = 0 /\ p * w = 0
      BY <1>1, <2>6
    <3>2. (k * g) % T = k
      <4>1. k * g = k + T * v
        <5>1. k + 0 = k
          BY <2>3
        <5> QED BY <2>4, <3>1, <5>1
      <4>2. Same(k * g, k, T) /\ k \in 0 .. T - 1
        <5>1. Same(k * g, k, T)
          BY <2>2, <4>1, Zenon DEF Same
        <5>2. k \in 0 .. T - 1
          BY <1>1, <2>3
        <5> QED BY <5>1, <5>2
      <4> QED BY <1>1, <2>5, <4>2, ResidueIs
    <3>3. k % (2 * p) = 0
      <4>1. 2 * p \in Nat /\ 2 * p > 0 /\ 0 \in 0 .. 2 * p - 1
        OBVIOUS
      <4>2. ((2 * p) * v + 0) % (2 * p) = 0
        BY <2>2, <4>1, QuotientIs
      <4> QED BY <2>4, <3>1, <4>2
    <3>4. k < n
      BY <1>2
    <3> QED BY <1>4, <1>9, <1>10, <3>2, <3>3, <3>4
  <2>7. CASE w = 1
    <3>1. n * w = n /\ p * w = p
      BY <1>1, <2>7
    <3>2. (k * g) % T = k + n
      <4>1. k * g = (k + n) + T * v
        BY <2>4, <3>1
      <4>2. Same(k * g, k + n, T) /\ k + n \in 0 .. T - 1
        <5>1. Same(k * g, k + n, T)
          BY <2>2, <4>1, Zenon DEF Same
        <5>2. k + n \in 0 .. T - 1
          BY <1>1, <2>3
        <5> QED BY <5>1, <5>2
      <4> QED BY <1>1, <2>5, <4>2, ResidueIs
    <3>3. k % (2 * p) # 0
      <4>1. 2 * p \in Nat /\ 2 * p > 0 /\ p \in 0 .. 2 * p - 1
        OBVIOUS
      <4>2. ((2 * p) * v + p) % (2 * p) = p
        BY <2>2, <4>1, QuotientIs
      <4> QED BY <2>4, <3>1, <4>2
    <3>4. ~ (k + n < n)
      BY <1>1, <1>2
    <3> QED BY <1>4, <1>9, <1>10, <3>2, <3>3, <3>4
  <2> QED BY <2>3, <2>6, <2>7
<1>11. ASSUME k % p # 0 PROVE j % p # 0
  <2>1. SUFFICES ASSUME j % p = 0 PROVE FALSE
    OBVIOUS
  <2>2. (j * g) % n = j
    BY <1>6, <1>8, <2>1
  <2> QED BY <1>6, <1>11, <2>1, <2>2
<1>12. image.from = j /\ image.sign \in {-1, 1}
  BY <1>4
<1> QED BY <1>6, <1>9, <1>10, <1>11, <1>12

\* The degree as a product in which p and h occur
IsHalved(p, h) ==
  p \in Nat /\ p > 0 /\ h \in Nat /\ BootN = p * (2 * h) /\ \E b \in Nat : BootN = TwoTo[b]

\* It maps powers to powers, with a sign.
LEMMA ImageIsTyped ==
  ASSUME NEW p, NEW h, IsHalved(p, h), NEW k \in BootPowers
  PROVE  Image(1 + 2 * h)[k].from \in BootPowers /\ Image(1 + 2 * h)[k].sign \in {-1, 1}
<1>1. p \in Nat /\ p > 0 /\ h \in Nat /\ BootN = p * (2 * h)
  BY DEF IsHalved
<1>2. PICK b \in Nat : BootN = TwoTo[b]
  BY DEF IsHalved
<1>3. LET image == Image(1 + 2 * h)[k]
      IN  /\ image.from \in BootPowers /\ image.sign \in {-1, 1}
          /\ k % p = 0 => /\ image.from = k
                          /\ image.sign = IF k % (2 * p) = 0 THEN 1 ELSE -1
          /\ k % p # 0 => image.from % p # 0
  BY Zenon, <1>1, <1>2, ImageIs
<1> QED BY <1>3

\* The coefficients that p divides, p times
Kept(m, p) == [k \in BootPowers |-> IF k % p = 0 THEN p * m[k] ELSE 0]

\* A doubling of the trace
DoubledOnce(c, acc, image, e) ==
  Computed([k \in BootPowers |->
     (acc[k] + image[k].sign * acc[image[k].from] + c.switch * e.trace[k]) % c.bootQ])

\* They are a polynomial.
LEMMA KeptIs ==
  ASSUME NEW m \in BootPolynomials, NEW p \in Int
  PROVE  Kept(m, p) \in BootPolynomials
<1>1. \A k \in BootPowers : m[k] \in Int /\ p * m[k] \in Int
  <2>1. \A k \in BootPowers : m[k] \in Int
    BY DEF BootPolynomials
  <2> QED BY <2>1
<1> QED BY <1>1 DEF Kept, BootPolynomials

\* A doubling keeps every second coefficient of those kept so far, twice.
LEMMA DoublingFollows ==
  ASSUME NEW c, c.switch \in Nat, c.bootQ \in Nat, c.bootQ > 0,
         NEW e, e.trace \in Signs,
         NEW p \in Nat, p > 0, NEW h \in Nat, BootN = p * (2 * h), NEW z \in Nat, BootN = TwoTo[z],
         NEW a \in BootPolynomials, NEW m \in BootPolynomials, NEW b \in Nat,
         Follows(a, Kept(m, p), b, c.bootQ)
  PROVE  /\ DoubledOnce(c, a, Image(1 + 2 * h), e) \in BootPolynomials
         /\ Follows(DoubledOnce(c, a, Image(1 + 2 * h), e), Kept(m, 2 * p), 2 * b + c.switch, c.bootQ)
<1> DEFINE image == Image(1 + 2 * h)
           q == c.bootQ
           s == c.switch
           K == Kept(m, p)
           x == [k \in BootPowers |->
                   (a[k] + image[k].sign * a[image[k].from] + c.switch * e.trace[k]) % c.bootQ]
<1>1. K \in BootPolynomials /\ Kept(m, 2 * p) \in BootPolynomials
  BY KeptIs
<1>2. DoubledOnce(c, a, image, e) = x
  <2>1. DoubledOnce(c, a, image, e) = Computed(x)
    BY Zenon DEF DoubledOnce
  <2>2. Computed(x) = x
    <3> HIDE DEF x
    <3> QED BY ComputedIs
  <2> QED BY <2>1, <2>2
<1> HIDE DEF image, K
<1>3. ASSUME NEW k \in BootPowers
      PROVE  x[k] \in Int /\ Drifts(x[k], Kept(m, 2 * p)[k], 2 * b + s, q)
  <2> DEFINE from == image[k].from
             sign == image[k].sign
             n == s * e.trace[k]
  <2>1. /\ from \in BootPowers /\ sign \in {-1, 1}
        /\ k % p = 0 => from = k /\ sign = IF k % (2 * p) = 0 THEN 1 ELSE -1
        /\ k % p # 0 => from % p # 0
    BY ImageIs DEF image
  <2> HIDE DEF from, sign
  <2>2. /\ a[k] \in Int /\ a[from] \in Int /\ K[k] \in Int /\ K[from] \in Int /\ m[k] \in Int
        /\ Kept(m, 2 * p)[k] \in Int /\ e.trace[k] \in -1 .. 1 /\ k \in Int
    BY <1>1, <2>1, BootPowersAre DEF BootPolynomials, Signs
  <2>3. Drifts(a[k], K[k], b, q) /\ Drifts(a[from], K[from], b, q)
    BY <2>1 DEF Follows, K
  <2>4. Drifts(sign * a[from], sign * K[from], b, q) /\ sign * a[from] \in Int /\ sign * K[from] \in Int
    <3>1. CASE sign = 1
      <4>1. sign * a[from] = a[from] /\ sign * K[from] = K[from]
        BY <2>2, <3>1
      <4> QED BY <2>2, <2>3, <4>1
    <3>2. CASE sign = -1
      <4>1. sign * a[from] = -a[from] /\ sign * K[from] = -K[from]
        BY <2>2, <3>2
      <4>2. b \in Int /\ q \in Int /\ -a[from] \in Int /\ -K[from] \in Int
        BY <2>2
      <4>3. Drifts(-a[from], -K[from], b, q)
        BY <2>2, <2>3, <4>2, DriftsNegative
      <4> QED BY <4>1, <4>2, <4>3
    <3> QED BY <2>1, <3>1, <3>2
  <2>5. K[k] + sign * K[from] = Kept(m, 2 * p)[k]
    <3>1. /\ K[k] = IF k % p = 0 THEN p * m[k] ELSE 0
          /\ K[from] = IF from % p = 0 THEN p * m[from] ELSE 0
          /\ Kept(m, 2 * p)[k] = IF k % (2 * p) = 0 THEN (2 * p) * m[k] ELSE 0
      BY <2>1 DEF K, Kept
    <3>2. CASE k % p = 0
      <4> DEFINE y == p * m[k]
      <4>1. y \in Int /\ (2 * p) * m[k] = 2 * y
        BY <2>2
      <4>2. K[k] = y /\ K[from] = y
        BY <2>1, <3>1, <3>2
      <4> HIDE DEF y
      <4>3. CASE k % (2 * p) = 0
        <5>1. sign = 1 /\ Kept(m, 2 * p)[k] = 2 * y
          BY <2>1, <3>1, <3>2, <4>1, <4>3
        <5>2. y + 1 * y = 2 * y
          BY <4>1
        <5> QED BY <4>2, <5>1, <5>2
      <4>4. CASE k % (2 * p) # 0
        <5>1. sign = -1 /\ Kept(m, 2 * p)[k] = 0
          BY <2>1, <3>1, <3>2, <4>4
        <5>2. y + (-1) * y = 0
          BY <4>1
        <5> QED BY <4>2, <5>1, <5>2
      <4> QED BY <4>3, <4>4
    <3>3. CASE k % p # 0
      <4>1. K[k] = 0 /\ K[from] = 0
        BY <2>1, <3>1, <3>3
      <4>2. k % (2 * p) # 0
        <5>1. SUFFICES ASSUME k % (2 * p) = 0 PROVE FALSE
          OBVIOUS
        <5> DEFINE u == k \div (2 * p)
        <5>2. 2 * p \in Nat /\ 2 * p > 0
          OBVIOUS
        <5>3. u \in Int /\ k = (2 * p) * u + (k % (2 * p))
          BY <2>2, <5>2, Division
        <5> HIDE DEF u
        <5>4. k = p * (2 * u) + 0
          <6>1. (2 * p) * u = p * (2 * u) /\ p * (2 * u) \in Int
            BY <5>3
          <6> DEFINE w == p * (2 * u)
          <6>2. k = w + 0 /\ w \in Int
            BY <5>1, <5>3, <6>1
          <6> QED BY <6>2
        <5>5. (p * (2 * u) + 0) % p = 0
          <6>1. 2 * u \in Int /\ 0 \in 0 .. p - 1
            BY <5>3
          <6> QED BY <6>1, QuotientIs
        <5>6. k % p = 0
          <6> DEFINE w == p * (2 * u) + 0
          <6>1. k = w /\ w % p = 0
            BY <5>4, <5>5
          <6> HIDE DEF w
          <6> QED BY <6>1
        <5> QED BY <3>3, <5>6
      <4>3. sign * 0 = 0 /\ 0 + 0 = 0
        BY <2>1
      <4> QED BY <3>1, <4>1, <4>2, <4>3
    <3> QED BY <3>2, <3>3
  <2>6. n \in -s .. s /\ s \in Nat /\ n \in Int
    <3>1. e.trace[k] = -1 \/ e.trace[k] = 0 \/ e.trace[k] = 1
      BY <2>2
    <3>2. s \in Nat
      OBVIOUS
    <3> HIDE DEF s
    <3> QED BY <3>1, <3>2
  <2> DEFINE y == a[k] + sign * a[from]
  <2>7. x[k] = (y + n) % q
    BY DEF from, sign
  <2> HIDE DEF n, x
  <2> DEFINE w == sign * a[from]
             v == sign * K[from]
  <2>8. Drifts(y, K[k] + v, b + b, q) /\ y \in Int /\ K[k] + v \in Int
    <3>1. b \in Int /\ q \in Int /\ w \in Int /\ v \in Int /\ Drifts(w, v, b, q)
      BY <2>4
    <3>2. y = a[k] + w
      OBVIOUS
    <3> HIDE DEF w, v, y, q
    <3>3. Drifts(a[k] + w, K[k] + v, b + b, q)
      BY <2>2, <2>3, <3>1, DriftsSum
    <3> QED BY <2>2, <3>1, <3>2, <3>3
  <2>9. K[k] + v = Kept(m, 2 * p)[k]
    BY <2>5
  <2> HIDE DEF w, v, y
  <2>10. Drifts(y + n, y, s, q) /\ y + n \in Int
    <3>1. q \in Int
      OBVIOUS
    <3> HIDE DEF s, q
    <3>2. y \in Int /\ n \in Int /\ s \in Nat /\ n \in -s .. s
      BY <2>6, <2>8
    <3>3. Drifts(y + n, y, s, q)
      BY <3>1, <3>2, DriftsBy
    <3> QED BY <3>2, <3>3
  <2>11. Drifts(y + n, Kept(m, 2 * p)[k], s + (b + b), q)
    <3>1. q \in Int /\ s \in Int /\ b + b \in Int
      OBVIOUS
    <3> HIDE DEF s, q
    <3>2. Drifts(y + n, K[k] + v, s + (b + b), q)
      BY <2>8, <2>10, <3>1, DriftsChain
    <3> QED BY <2>9, <3>2
  <2>12. s + (b + b) = 2 * b + s /\ s + (b + b) \in Int
    OBVIOUS
  <2>13. Drifts((y + n) % q, Kept(m, 2 * p)[k], s + (b + b), q) /\ (y + n) % q \in Int
    <3>1. q \in Nat /\ q > 0
      OBVIOUS
    <3> HIDE DEF q, s
    <3> QED BY <2>2, <2>10, <2>11, <2>12, <3>1, DriftsResidue
  <2> QED BY <2>7, <2>12, <2>13
<1>4. x \in BootPolynomials
  BY <1>3 DEF BootPolynomials
<1> HIDE DEF x
<1>5. Follows(x, Kept(m, 2 * p), 2 * b + s, q)
  BY <1>3 DEF Follows
<1> QED BY <1>2, <1>4, <1>5 DEF image

\* The trace, doubling by doubling
AreDoublings(f, c, poly, e) ==
  f = [i \in 0 .. Len(c.trace) |->
         IF i = 0 THEN poly ELSE DoubledOnce(c, f[i - 1], c.trace[i], e)]

\* The trace is its last doubling.
LEMMA TraceIs ==
  ASSUME NEW c, NEW poly, NEW e
  PROVE  Trace(c, poly, e) = (CHOOSE f : AreDoublings(f, c, poly, e))[Len(c.trace)]
BY Zenon DEF Trace, AreDoublings, DoubledOnce

\* There is a key for every bit of the degree.
LEMMA KeysAre ==
  ASSUME NEW z \in Nat, BitLength(BootN) - 1 = z
  PROVE  Len(GaloisKeys) = z
         /\ \A i \in 1 .. z : GaloisKeys[i] = Image(1 + BootN \div TwoTo[i - 1])
<1> DEFINE S == {Image(1 + BootN \div TwoTo[i - 1]) : i \in 1 .. z}
<1>1. GaloisKeys = [k \in 1 .. z |-> Image(1 + BootN \div TwoTo[k - 1])]
  BY DEF GaloisKeys
<1>2. GaloisKeys \in [1 .. z -> S]
  BY <1>1
<1> HIDE DEF S
<1>3. GaloisKeys \in Seq(S)
  BY <1>2, SeqDef
<1>4. Len(GaloisKeys) \in Nat /\ DOMAIN GaloisKeys = 1 .. Len(GaloisKeys)
  BY <1>3, LenProperties
<1>5. DOMAIN GaloisKeys = 1 .. z
  BY <1>2
<1>6. Len(GaloisKeys) = z
  <2> DEFINE l == Len(GaloisKeys)
  <2>1. l \in Nat /\ 1 .. l = 1 .. z /\ z \in Nat
    BY Zenon, <1>1, <1>4, <1>5
  <2> HIDE DEF l
  <2>2. l <= z
    <3>1. CASE l = 0
      BY <2>1, <3>1
    <3>2. CASE l >= 1
      <4>1. l \in 1 .. l
        BY <2>1, <3>2
      <4>2. l \in 1 .. z
        BY Zenon, <2>1, <4>1
      <4> QED BY <2>1, <4>2
    <3> QED BY <2>1, <3>1, <3>2
  <2>3. z <= l
    <3>1. CASE z = 0
      BY <2>1, <3>1
    <3>2. CASE z >= 1
      <4>1. z \in 1 .. z
        BY <2>1, <3>2
      <4>2. z \in 1 .. l
        BY Zenon, <2>1, <4>1
      <4> QED BY <2>1, <4>2
    <3> QED BY <2>1, <3>1, <3>2
  <2>4. l = z
    BY <2>1, <2>2, <2>3
  <2> QED BY <2>4 DEF l
<1> QED BY <1>1, <1>6

\* Over all doublings, the constant term alone is left, as often as the degree
\* says, and the error grows as much.
LEMMA TraceFollows ==
  ASSUME NEW c, c.switch \in Nat, c.bootQ \in Nat, c.bootQ > 0, c.trace = GaloisKeys,
         NEW e, e.trace \in Signs, NEW a \in BootPolynomials, NEW m \in BootPolynomials,
         NEW b \in Nat, Follows(a, m, b, c.bootQ)
  PROVE  /\ Trace(c, a, e) \in BootPolynomials
         /\ Follows(Trace(c, a, e), Kept(m, BootN), BootN * b + (BootN - 1) * c.switch, c.bootQ)
<1> DEFINE s == c.switch
           q == c.bootQ
<1>1. PICK z \in 1 .. 20 :
        /\ BootN = TwoTo[z] /\ BitLength(BootN) - 1 = z
        /\ \A i \in 0 .. z - 1 :
             /\ TwoTo[i] \in Nat /\ TwoTo[i] > 0 /\ TwoTo[i + 1] = 2 * TwoTo[i]
             /\ \E h \in Nat : /\ BootN = TwoTo[i] * (2 * h) /\ BootN \div TwoTo[i] = 2 * h
  BY BootBits
<1>2. z \in Nat /\ TwoTo[0] = 1 /\ \A i \in Nat : TwoTo[i] \in Nat
  BY TwoToIs
<1>3. Len(c.trace) = z /\ \A i \in 1 .. z : c.trace[i] = Image(1 + BootN \div TwoTo[i - 1])
  BY <1>1, <1>2, KeysAre
<1> DEFINE bound(i) == TwoTo[i] * b + (TwoTo[i] - 1) * s
           Holds(x, i) == x \in BootPolynomials /\ Follows(x, Kept(m, TwoTo[i]), bound(i), q)
<1>4. Holds(a, 0)
  <2>1. bound(0) = b
    <3>1. s \in Nat /\ b \in Nat
      OBVIOUS
    <3> HIDE DEF s
    <3>2. 1 * b + (1 - 1) * s = b
      BY <3>1
    <3> QED BY <1>2, <3>2
  <2>2. Kept(m, 1) = m
    <3>1. ASSUME NEW k \in BootPowers PROVE Kept(m, 1)[k] = m[k]
      <4>1. k \in Int /\ m[k] \in Int
        BY BootPowersAre DEF BootPolynomials
      <4>2. k % 1 = 0 /\ 1 * m[k] = m[k]
        BY <4>1
      <4> QED BY <4>2 DEF Kept
    <3>2. Kept(m, 1) \in BootPolynomials
      BY KeptIs
    <3> QED BY <3>1, <3>2 DEF BootPolynomials
  <2> QED BY <1>2, <2>1, <2>2
<1>5. ASSUME NEW i \in 1 .. z, NEW x, Holds(x, i - 1)
      PROVE  Holds(DoubledOnce(c, x, c.trace[i], e), i)
  <2> DEFINE p == TwoTo[i - 1]
  <2>1. i - 1 \in 0 .. z - 1 /\ i - 1 \in Nat /\ i \in Nat /\ (i - 1) + 1 = i
    BY <1>2
  <2>2. p \in Nat /\ p > 0 /\ TwoTo[(i - 1) + 1] = 2 * p
    BY <1>1, <2>1
  <2>3. PICK h \in Nat : BootN = p * (2 * h) /\ BootN \div p = 2 * h
    BY <1>1, <2>1
  <2>4. TwoTo[i] = 2 * p /\ c.trace[i] = Image(1 + 2 * h)
    BY <1>3, <2>1, <2>2, <2>3
  <2>5. bound(i - 1) \in Nat /\ 2 * bound(i - 1) + s = bound(i)
    <3> DEFINE x1 == p * b
               x2 == (p - 1) * s
    <3>1. s \in Nat /\ b \in Nat
      OBVIOUS
    <3> HIDE DEF s, p
    <3>2. /\ x1 \in Nat /\ x2 \in Nat /\ (2 * p) * b = 2 * x1
          /\ (2 * p - 1) * s = 2 * x2 + s /\ p - 1 \in Nat
      BY <2>2, <3>1
    <3> HIDE DEF x1, x2
    <3>3. x1 + x2 \in Nat /\ 2 * (x1 + x2) + s = 2 * x1 + (2 * x2 + s)
      BY <3>1, <3>2
    <3> QED BY <2>4, <3>2, <3>3 DEF p, x1, x2
  <2>6. x \in BootPolynomials /\ Follows(x, Kept(m, p), bound(i - 1), q)
    BY <1>5
  <2> HIDE DEF p, bound
  <2>7. /\ DoubledOnce(c, x, Image(1 + 2 * h), e) \in BootPolynomials
        /\ Follows(DoubledOnce(c, x, Image(1 + 2 * h), e), Kept(m, 2 * p), 2 * bound(i - 1) + s, q)
    BY <1>1, <1>2, <2>2, <2>3, <2>5, <2>6, DoublingFollows
  <2> QED BY <2>4, <2>5, <2>7
<1> DEFINE P == BootPolynomials
           step == [i \in 1 .. z |-> [x \in P |-> DoubledOnce(c, x, c.trace[i], e)]]
           f == CHOOSE g : AreDoublings(g, c, a, e)
<1>6. ASSUME NEW i \in 1 .. z, NEW x \in P PROVE DoubledOnce(c, x, c.trace[i], e) \in P
  <2>1. \A k \in BootPowers :
          (x[k] + c.trace[i][k].sign * x[c.trace[i][k].from] + c.switch * e.trace[k]) % c.bootQ \in Int
    <3>1. i - 1 \in 0 .. z - 1
      BY <1>2
    <3>2. PICK h \in Nat : BootN = TwoTo[i - 1] * (2 * h) /\ BootN \div TwoTo[i - 1] = 2 * h
      BY <1>1, <3>1
    <3>3. c.trace[i] = Image(1 + 2 * h) /\ TwoTo[i - 1] \in Nat /\ TwoTo[i - 1] > 0
      BY <1>1, <1>3, <3>1, <3>2
    <3>4. ASSUME NEW k \in BootPowers
          PROVE  (x[k] + c.trace[i][k].sign * x[c.trace[i][k].from] + c.switch * e.trace[k]) % c.bootQ \in Int
      <4> DEFINE from == c.trace[i][k].from
                 sign == c.trace[i][k].sign
      <4>1. from \in BootPowers /\ sign \in {-1, 1}
        <5> DEFINE p == TwoTo[i - 1]
        <5>1. p \in Nat /\ p > 0 /\ BootN = p * (2 * h) /\ BootN = TwoTo[z] /\ z \in Nat
          BY <1>1, <1>2, <3>2, <3>3
        <5> HIDE DEF p
        <5>2. IsHalved(p, h)
          BY Zenon, <5>1 DEF IsHalved
        <5>3. /\ Image(1 + 2 * h)[k].from \in BootPowers /\ Image(1 + 2 * h)[k].sign \in {-1, 1}
          BY <5>2, ImageIsTyped
        <5> QED BY <3>3, <5>3
      <4>2. x[k] \in Int /\ x[from] \in Int /\ e.trace[k] \in Int
        BY <4>1 DEF BootPolynomials, Signs
      <4> HIDE DEF from, sign
      <4>3. sign * x[from] \in Int /\ c.switch * e.trace[k] \in Int
        BY <4>1, <4>2
      <4> DEFINE y == x[k] + sign * x[from] + c.switch * e.trace[k]
      <4>4. y \in Int
        BY <4>2, <4>3
      <4> HIDE DEF y
      <4>5. y % c.bootQ \in Int
        <5>1. c.bootQ \in Nat /\ c.bootQ > 0
          OBVIOUS
        <5>2. y % c.bootQ \in 0 .. c.bootQ - 1
          BY <4>4, <5>1, Division
        <5> QED BY <5>2
      <4> QED BY <4>5 DEF y, from, sign
    <3> QED BY <3>4
  <2> DEFINE y == [k \in BootPowers |->
                     (x[k] + c.trace[i][k].sign * x[c.trace[i][k].from] + c.switch * e.trace[k]) % c.bootQ]
  <2>2. y \in BootPolynomials
    BY <2>1 DEF BootPolynomials
  <2>3. DoubledOnce(c, x, c.trace[i], e) = Computed(y)
    BY Zenon DEF DoubledOnce
  <2> HIDE DEF y
  <2>4. Computed(y) = y
    BY ComputedIs
  <2> QED BY <2>2, <2>3, <2>4
<1>7. AreDoublings(f, c, a, e)
  <2>1. \A i \in 1 .. z : \A x \in P : step[i][x] \in P
    BY <1>6
  <2>2. PICK g \in [0 .. z -> P] : IsIteration(g, z, a, step)
    <3> HIDE DEF step, P
    <3>1. a \in P
      BY DEF P
    <3> QED BY <1>2, <2>1, <3>1, IterationExists
  <2>3. \A i \in 0 .. z : i # 0 => i \in 1 .. z /\ i - 1 \in 0 .. z
    BY <1>2
  <2>4. \A i \in 0 .. z : i # 0 => step[i][g[i - 1]] = DoubledOnce(c, g[i - 1], c.trace[i], e)
    BY <2>3
  <2>5. g = [i \in 0 .. z |-> IF i = 0 THEN a ELSE step[i][g[i - 1]]]
    BY <2>2 DEF IsIteration
  <2> HIDE DEF step
  <2>6. g = [i \in 0 .. z |-> IF i = 0 THEN a ELSE DoubledOnce(c, g[i - 1], c.trace[i], e)]
    BY <2>4, <2>5
  <2>7. AreDoublings(g, c, a, e)
    BY <1>3, <2>6, Zenon DEF AreDoublings
  <2> QED BY <2>7, Zenon
<1> HIDE DEF f, Holds
<1>8. f[0] = a /\ \A i \in 1 .. z : f[i] = DoubledOnce(c, f[i - 1], c.trace[i], e)
  <2>1. \A i \in 0 .. z : f[i] = IF i = 0 THEN a ELSE DoubledOnce(c, f[i - 1], c.trace[i], e)
    BY <1>3, <1>7 DEF AreDoublings
  <2>2. 0 \in 0 .. z /\ \A i \in 1 .. z : i \in 0 .. z /\ i # 0
    BY <1>2
  <2> QED BY <2>1, <2>2
<1> DEFINE S == {i \in 0 .. z : Holds(f[i], i)}
<1>9. 0 \in S
  BY <1>2, <1>4, <1>8
<1>10. ASSUME NEW i \in 1 .. z, i - 1 \in S PROVE i \in S
  <2>1. i \in 0 .. z /\ Holds(f[i - 1], i - 1)
    BY <1>2, <1>10
  <2>2. Holds(DoubledOnce(c, f[i - 1], c.trace[i], e), i)
    BY <1>5, <2>1
  <2> QED BY <1>8, <2>1, <2>2
<1>11. 0 .. z \subseteq S
  <2> HIDE DEF S
  <2> QED BY <1>2, <1>9, <1>10, RangeInduction
<1>12. Holds(f[z], z)
  BY <1>2, <1>11
<1>13. Trace(c, a, e) = f[z]
  BY <1>3, TraceIs DEF f
<1> QED BY <1>1, <1>12, <1>13 DEF Holds

-----------------------------------------------------------------------------
(* The evaluation of a rotation.                                            *)

\* The table as a ciphertext without noise
Tabled(c) == [k \in BootPowers |-> (c.message[k] * (c.bootQ \div c.t)) % c.bootQ]

\* An evaluation turns the table and takes the trace.
LEMMA EvaluatedIs ==
  ASSUME NEW c, NEW initial, NEW rotations, NEW secret, NEW e
  PROVE  Evaluated(c, initial, rotations, secret, e)
           = Trace(c, TurnedTable(c, Tabled(c), initial, rotations, secret, e), e)
BY Zenon DEF Evaluated, TurnedTable, AreTurns, Tabled

\* What a clock's chart and moduli are
LEMMA ClockNumbers ==
  ASSUME NEW c, IsClock(c)
  PROVE  /\ c.q \in Nat /\ c.q > 0 /\ c.t \in Nat /\ c.t > 0 /\ c.bootQ \in Nat /\ c.bootQ > 0
         /\ c.switch \in Nat /\ c.back \in Nat /\ c.error \in Nat
         /\ c.bootQ \div c.t \in Nat /\ c.bootQ % c.t \in Nat
         /\ c.bootQ = c.t * (c.bootQ \div c.t) + (c.bootQ % c.t)
<1>1. /\ c.q \in Nat /\ c.q > 0 /\ c.t \in Nat /\ c.t > 0 /\ c.bootQ \in Nat /\ c.bootQ > 0
      /\ c.switch \in Nat /\ c.back \in Nat /\ c.error \in Nat
  BY DEF IsClock, IsDial
<1> DEFINE Q == c.bootQ
           t == c.t
<1>2. Q \in Nat /\ t \in Nat /\ t > 0 /\ Q \in Int
  BY <1>1
<1> HIDE DEF Q, t
<1>3. Q = t * (Q \div t) + (Q % t) /\ Q % t \in 0 .. t - 1 /\ Q \div t \in Int
  BY <1>2, Division
<1>4. Q \div t \in Nat
  <2> DEFINE d == Q \div t
             r == Q % t
  <2>1. d \in Int /\ r \in Int /\ Q = t * d + r /\ r < t
    BY <1>2, <1>3
  <2> HIDE DEF d, r
  <2>2. d >= 0
    <3>1. SUFFICES ASSUME d <= -1 PROVE FALSE
      BY <2>1
    <3>2. t * d <= t * (-1)
      BY <1>2, <2>1, <3>1, FactorKeepsOrder
    <3> DEFINE w == t * d
    <3>3. w \in Int /\ w <= -t /\ Q = w + r
      BY <1>2, <2>1, <3>2
    <3> HIDE DEF w
    <3> QED BY <1>2, <2>1, <3>3
  <2>3. d \in Nat
    BY <2>1, <2>2
  <2> QED BY <2>3 DEF d
<1> QED BY <1>1, <1>2, <1>3, <1>4 DEF Q, t

\* The constant term says what the table says of the turn made, as often as
\* the degree; nothing else is left.
LEMMA EvaluatedFollows ==
  ASSUME NEW c, IsClock(c), NEW e, IsKeySwitch(e), NEW initial \in Int,
         NEW rotations \in Polynomials, NEW secret \in Ternary,
         NEW R, R = Before(initial, rotations, secret, N)
  PROVE  LET found == BootN * (Share(c, Lookup(c, R % Turn)) * (c.bootQ \div c.t))
         IN  /\ R \in Int /\ found \in Int
             /\ Evaluated(c, initial, rotations, secret, e) \in BootPolynomials
             /\ \A k \in BootPowers :
                  Drifts(Evaluated(c, initial, rotations, secret, e)[k], IF k = 0 THEN found ELSE 0,
                         BootN * ((4 * c.switch) * N) + (BootN - 1) * c.switch, c.bootQ)
<1> DEFINE q == c.bootQ
           s == c.switch
           d == c.bootQ \div c.t
           msg == TableMessage(c)
           M == [k \in BootPowers |-> msg[k] * d]
           T == TurnedTable(c, Tabled(c), initial, rotations, secret, e)
           found == BootN * (Share(c, Lookup(c, R % Turn)) * d)
           b == (4 * s) * N
<1>1. /\ q \in Nat /\ q > 0 /\ s \in Nat /\ d \in Nat /\ c.t \in Nat /\ c.t > 0
  BY ClockNumbers
<1>2. c.message = msg /\ c.trace = GaloisKeys /\ IsChart(c) /\ Coprime(BootN, c.t)
  BY DEF IsClock
<1>3. PICK h \in Nat : OddFrom(c.t, h)
  BY DEF IsClock
<1>4. BootN \in Nat /\ BootN > 0 /\ BootN \in Int /\ N \in Nat /\ BootPowers = 0 .. BootN - 1
      /\ Turn = 2 * BootN
  BY BootIs, BootPowersAre, DegreeIs
<1>5. msg \in [BootPowers -> Int]
  <2>1. msg \in [BootPowers -> -h .. h]
    BY <1>1, <1>2, <1>3, TableIs
  <2> HIDE DEF msg
  <2>2. \A x \in -h .. h : x \in Int
    OBVIOUS
  <2> QED BY <2>1, <2>2
<1> HIDE DEF msg, d
<1>6. \A k \in BootPowers : msg[k] \in Int /\ msg[k] * d \in Int
  <2>1. \A k \in BootPowers : msg[k] \in Int
    BY <1>5
  <2> QED BY <1>1, <2>1
<1>7. M \in BootPolynomials
  BY <1>6 DEF BootPolynomials
<1>8. Tabled(c) \in BootPolynomials /\ Follows(Tabled(c), M, 0, q)
  <2>1. ASSUME NEW k \in BootPowers
        PROVE  /\ Tabled(c)[k] \in Int
               /\ Drifts(Tabled(c)[k], M[k], 0, q)
    <3>1. Tabled(c)[k] = M[k] % q
      BY <1>2 DEF Tabled, d
    <3>2. M[k] \in Int /\ 0 \in Nat /\ 0 \in Int /\ q \in Int
      BY <1>1, <1>6
    <3> HIDE DEF M, q
    <3>3. Drifts(M[k], M[k], 0, q)
      BY <3>2, DriftsNone
    <3>4. Drifts(M[k] % q, M[k], 0, q) /\ M[k] % q \in Int
      BY <1>1, <3>2, <3>3, DriftsResidue
    <3> QED BY <3>1, <3>4
  <2>2. Tabled(c) = [k \in BootPowers |-> Tabled(c)[k]]
    BY DEF Tabled
  <2>3. Tabled(c) \in BootPolynomials
    BY <2>1, <2>2 DEF BootPolynomials
  <2> HIDE DEF M
  <2> QED BY <2>1, <2>3 DEF Follows
<1> HIDE DEF M
<1>9. /\ T \in BootPolynomials /\ R \in Int
      /\ ShiftBy(BootN, M, R) \in BootPolynomials
      /\ Follows(T, ShiftBy(BootN, M, R), b, q)
  BY <1>1, <1>7, <1>8, TurnedTableFollows
<1> HIDE DEF T
<1>10. b \in Nat
  <2>1. 4 * s \in Nat
    BY <1>1
  <2> QED BY <1>4, <2>1
<1> HIDE DEF b
<1>11. /\ Trace(c, T, e) \in BootPolynomials
       /\ Follows(Trace(c, T, e), Kept(ShiftBy(BootN, M, R), BootN), BootN * b + (BootN - 1) * s, q)
  <2>1. e.trace \in Signs
    BY DEF IsKeySwitch
  <2> QED BY <1>1, <1>2, <1>9, <1>10, <2>1, TraceFollows
<1>12. ShiftBy(BootN, M, R)[0] = Share(c, Lookup(c, R % Turn)) * d /\ Share(c, Lookup(c, R % Turn)) \in Int
  <2> DEFINE from == (-R) % (2 * BootN)
             f == Share(c, Lookup(c, R % Turn))
  <2>1. Circled(BootN, msg, -R) = f
    BY <1>1, <1>2, <1>3, <1>9, TableTurned DEF msg
  <2>2. -R \in Int /\ from \in 0 .. 2 * BootN - 1
    <3>1. -R \in Int /\ 2 * BootN \in Nat /\ 2 * BootN > 0
      BY <1>4, <1>9
    <3> QED BY <3>1, Division
  <2>3. ShiftBy(BootN, M, R)[0] = Circled(BootN, M, -R)
    <3> DEFINE z == 0
    <3>1. M \in [0 .. BootN - 1 -> Int] /\ z \in 0 .. BootN - 1 /\ z - R = -R
      BY <1>4, <1>7, <1>9 DEF BootPolynomials
    <3> HIDE DEF z
    <3>2. ShiftBy(BootN, M, R)[z] = Circled(BootN, M, z - R)
      BY <1>4, <1>9, <3>1, ShiftIs
    <3> QED BY <3>1, <3>2 DEF z
  <2>4. /\ Circled(BootN, msg, -R) = IF from < BootN THEN msg[from] ELSE -msg[from - BootN]
        /\ Circled(BootN, M, -R) = IF from < BootN THEN M[from] ELSE -M[from - BootN]
    BY DEF Circled
  <2> HIDE DEF from, f
  <2>5. CASE from < BootN
    <3>1. from \in BootPowers
      BY <1>4, <2>2, <2>5
    <3>2. M[from] = msg[from] * d /\ msg[from] \in Int
      BY <1>6, <3>1 DEF M
    <3> QED BY <2>1, <2>3, <2>4, <2>5, <3>2 DEF f
  <2>6. CASE ~ (from < BootN)
    <3> DEFINE g == from - BootN
    <3>1. g \in BootPowers
      BY <1>4, <2>2, <2>6
    <3>2. Circled(BootN, msg, -R) = -msg[g] /\ Circled(BootN, M, -R) = -M[g]
      BY <2>4, <2>6
    <3> HIDE DEF g
    <3>3. M[g] = msg[g] * d /\ msg[g] \in Int
      BY <1>6, <3>1 DEF M
    <3>4. -(msg[g] * d) = (-msg[g]) * d
      BY <1>1, <3>3
    <3> QED BY <2>1, <2>3, <3>2, <3>3, <3>4 DEF f
  <2> QED BY <2>5, <2>6
<1>13. ASSUME NEW k \in BootPowers
       PROVE  Kept(ShiftBy(BootN, M, R), BootN)[k] = IF k = 0 THEN found ELSE 0
  <2>1. k % BootN = k
    BY <1>4
  <2>2. Kept(ShiftBy(BootN, M, R), BootN)[k]
          = IF k % BootN = 0 THEN BootN * ShiftBy(BootN, M, R)[k] ELSE 0
    BY DEF Kept
  <2> QED BY <1>12, <2>1, <2>2
<1>14. found \in Int
  <2> DEFINE f == Share(c, Lookup(c, R % Turn))
  <2>1. f \in Int
    BY <1>12
  <2> HIDE DEF f
  <2>2. f * d \in Int
    BY <1>1, <2>1
  <2>3. BootN * (f * d) \in Int
    BY <1>4, <2>2
  <2> QED BY <2>3 DEF f
<1>15. Evaluated(c, initial, rotations, secret, e) = Trace(c, T, e)
  BY EvaluatedIs DEF T
<1>16. ASSUME NEW k \in BootPowers
       PROVE  Drifts(Trace(c, T, e)[k], IF k = 0 THEN found ELSE 0, BootN * b + (BootN - 1) * s, q)
  <2> HIDE DEF found
  <2>1. Drifts(Trace(c, T, e)[k], Kept(ShiftBy(BootN, M, R), BootN)[k], BootN * b + (BootN - 1) * s, q)
    BY <1>11 DEF Follows
  <2> QED BY <1>13, <2>1
<1> QED BY <1>9, <1>11, <1>14, <1>15, <1>16 DEF d, b

-----------------------------------------------------------------------------
(* The public part.                                                         *)

\* What a term of the public part adds to coefficient k
AddedTerm(c, parts, secret, e, l, k) ==
  ExternalProduct(c, IF k = 0 THEN parts[l] * (c.bootQ \div c.t) ELSE 0, secret[l] = 1, e.plus[k])
    - ExternalProduct(c, IF k = 0 THEN parts[l] * (c.bootQ \div c.t) ELSE 0, secret[l] = -1, e.minus[k])

\* A term is a part times its trit, and the error of four switches.
LEMMA TermIs ==
  ASSUME NEW c, IsClock(c), NEW parts \in Polynomials, NEW secret \in Ternary,
         NEW e, IsKeySwitch(e), NEW k \in BootPowers, NEW l \in Powers
  PROVE  /\ AddedTerm(c, parts, secret, e, l, k) \in Int
         /\ parts[l] * secret[l] \in Int
         /\ LET n == AddedTerm(c, parts, secret, e, l, k)
                       - (IF k = 0 THEN (parts[l] * secret[l]) * (c.bootQ \div c.t) ELSE 0)
            IN  -(4 * c.switch) <= n /\ n <= 4 * c.switch
<1> DEFINE d == c.bootQ \div c.t
           s == c.switch
           x == parts[l]
           v == IF k = 0 THEN x * d ELSE 0
           z == secret[l]
           n1 == e.plus[k]
           n2 == e.minus[k]
           a == AddedTerm(c, parts, secret, e, l, k)
           g == IF k = 0 THEN (x * z) * d ELSE 0
<1>1. s \in Nat /\ d \in Nat
  BY ClockNumbers
<1>2. x \in Int /\ z \in {-1, 0, 1} /\ n1 \in {-1, 0, 1} /\ n2 \in {-1, 0, 1}
  <2>1. z \in {-1, 0, 1} /\ x \in Int
    BY TernaryIs DEF Polynomials
  <2>2. n1 \in -1 .. 1 /\ n2 \in -1 .. 1
    BY DEF IsKeySwitch, Signs
  <2>3. \A y \in -1 .. 1 : y \in {-1, 0, 1}
    OBVIOUS
  <2> QED BY <2>1, <2>2, <2>3
<1>3. a = ((IF z = 1 THEN v ELSE 0) + 2 * s * n1) - ((IF z = -1 THEN v ELSE 0) + 2 * s * n2)
  BY Zenon DEF AddedTerm, ExternalProduct
<1>4. v \in Int /\ x * z \in Int
  BY <1>1, <1>2
<1>5. /\ g \in Int
      /\ z = 1 => g = v
      /\ z = -1 => g + v = 0
      /\ z = 0 => g = 0
  <2>1. d \in Int /\ x \in Int /\ x * z \in Int
    BY <1>1, <1>2, <1>4
  <2>2. z = 1 => x * z = x
    BY <1>2
  <2>3. z = -1 => (x * z) * d + x * d = 0
    <3>1. ASSUME z = -1 PROVE x * z = -x
      BY <1>2, <3>1
    <3> HIDE DEF x, d, z
    <3>2. (-x) * d + x * d = 0
      BY <2>1
    <3> QED BY <3>1, <3>2
  <2>4. z = 0 => (x * z) * d = 0
    <3>1. ASSUME z = 0 PROVE x * z = 0
      BY <1>2, <3>1
    <3> HIDE DEF x, d, z
    <3>2. 0 * d = 0
      BY <2>1
    <3> QED BY <3>1, <3>2
  <2> HIDE DEF x, d, z
  <2>5. (x * z) * d \in Int /\ x * d \in Int
    BY <2>1
  <2> DEFINE y1 == (x * z) * d
             y2 == x * d
  <2>6. /\ y1 \in Int /\ y2 \in Int
        /\ z = 1 => y1 = y2
        /\ z = -1 => y1 + y2 = 0
        /\ z = 0 => y1 = 0
    BY <2>2, <2>3, <2>4, <2>5
  <2>7. g = (IF k = 0 THEN y1 ELSE 0) /\ v = (IF k = 0 THEN y2 ELSE 0)
    OBVIOUS
  <2> HIDE DEF y1, y2, g, v
  <2>8. CASE k = 0
    BY <2>6, <2>7, <2>8
  <2>9. CASE k # 0
    <3>1. g = 0 /\ v = 0
      BY <2>7, <2>9
    <3> QED BY <3>1
  <2> QED BY <2>8, <2>9
<1> HIDE DEF a, g, v, d, s, x, z, n1, n2
<1> DEFINE m1 == 2 * s * n1
           m2 == 2 * s * n2
<1>6. m1 \in -(2 * s) .. 2 * s /\ m2 \in -(2 * s) .. 2 * s /\ m1 \in Int /\ m2 \in Int
  <2>1. ASSUME NEW y \in {-1, 0, 1} PROVE 2 * s * y \in -(2 * s) .. 2 * s /\ 2 * s * y \in Int
    <3>1. CASE y = -1
      BY <1>1, <3>1
    <3>2. CASE y = 0
      BY <1>1, <3>2
    <3>3. CASE y = 1
      BY <1>1, <3>3
    <3> QED BY <2>1, <3>1, <3>2, <3>3
  <2> QED BY <1>2, <2>1
<1> HIDE DEF m1, m2
<1>7. a \in Int /\ g \in Int /\ a - g = m1 - m2
  <2>1. CASE z = 1
    BY <1>3, <1>4, <1>5, <1>6, <2>1 DEF m1, m2
  <2>2. CASE z = -1
    BY <1>3, <1>4, <1>5, <1>6, <2>2 DEF m1, m2
  <2>3. CASE z = 0
    BY <1>3, <1>4, <1>5, <1>6, <2>3 DEF m1, m2
  <2> QED BY <1>2, <2>1, <2>2, <2>3
<1>8. -(4 * s) <= a - g /\ a - g <= 4 * s
  <2>1. -(4 * s) <= m1 - m2 /\ m1 - m2 <= 4 * s
    BY <1>1, <1>6
  <2> QED BY <1>7, <2>1
<1> QED BY <1>4, <1>7, <1>8 DEF a, g, d, s, x, z

\* All terms together are the parts times the secret.
LEMMA TermsFollow ==
  ASSUME NEW c, IsClock(c), NEW parts \in Polynomials, NEW secret \in Ternary,
         NEW e, IsKeySwitch(e), NEW k \in BootPowers,
         NEW P, P = Total([l \in Powers |-> parts[l] * secret[l]])
  PROVE  /\ P \in Int /\ P * (c.bootQ \div c.t) \in Int
         /\ Total([l \in Powers |-> AddedTerm(c, parts, secret, e, l, k)]) \in Int
         /\ Drifts(Total([l \in Powers |-> AddedTerm(c, parts, secret, e, l, k)]),
                   IF k = 0 THEN P * (c.bootQ \div c.t) ELSE 0, (4 * c.switch) * N, c.bootQ)
<1> DEFINE d == c.bootQ \div c.t
           s == c.switch
           q == c.bootQ
           at(l) == AddedTerm(c, parts, secret, e, l, k)
           y(l) == parts[l] * secret[l]
           f == [l \in Powers |-> at(l)]
           p == [l \in Powers |-> y(l)]
           w == [l \in Powers |-> d * y(l)]
           g == [l \in Powers |-> IF k = 0 THEN y(l) * d ELSE 0]
           n == [l \in Powers |-> f[l] - g[l]]
<1>1. s \in Nat /\ d \in Nat /\ q \in Nat /\ q \in Int
  BY ClockNumbers
<1>2. IsFiniteSet(Powers) /\ Cardinality(Powers) = N /\ N \in Nat
  BY PowersAre, DegreeIs
<1>3. ASSUME NEW l \in Powers
      PROVE  /\ at(l) \in Int /\ y(l) \in Int /\ d * y(l) \in Int /\ y(l) * d = d * y(l)
             /\ -(4 * s) <= at(l) - (IF k = 0 THEN y(l) * d ELSE 0)
             /\ at(l) - (IF k = 0 THEN y(l) * d ELSE 0) <= 4 * s
  <2>1. /\ at(l) \in Int /\ y(l) \in Int
        /\ -(4 * s) <= at(l) - (IF k = 0 THEN y(l) * d ELSE 0)
        /\ at(l) - (IF k = 0 THEN y(l) * d ELSE 0) <= 4 * s
    BY TermIs
  <2> DEFINE z == y(l)
  <2>2. z \in Int
    BY <2>1
  <2> HIDE DEF z, d
  <2>3. d * z \in Int /\ z * d = d * z
    BY <1>1, <2>2
  <2> QED BY <2>1, <2>3 DEF z, d
<1> HIDE DEF at, y, d, s, q
<1>4. /\ f \in [Powers -> Int] /\ p \in [Powers -> Int] /\ w \in [Powers -> Int]
      /\ g \in [Powers -> Int] /\ n \in [Powers -> Int]
      /\ \A l \in Powers : /\ f[l] = g[l] + n[l] /\ -(4 * s) <= n[l] /\ n[l] <= 4 * s
  <2>1. \A l \in Powers : at(l) \in Int /\ y(l) \in Int /\ d * y(l) \in Int /\ y(l) * d = d * y(l)
    BY <1>3
  <2>2. f \in [Powers -> Int] /\ p \in [Powers -> Int] /\ w \in [Powers -> Int]
    BY <2>1
  <2>3. g \in [Powers -> Int]
    BY <2>1
  <2>4. n \in [Powers -> Int] /\ \A l \in Powers : f[l] = g[l] + n[l]
    <3>1. \A l \in Powers : f[l] \in Int /\ g[l] \in Int
      BY <2>2, <2>3
    <3> HIDE DEF f, g
    <3> QED BY <3>1
  <2>5. \A l \in Powers : -(4 * s) <= n[l] /\ n[l] <= 4 * s
    BY <1>3
  <2> QED BY <2>2, <2>3, <2>4, <2>5
<1>5. P = Total(p)
  BY DEF y
<1> HIDE DEF n
<1>6. Total(w) = d * Total(p) /\ Total(p) \in Int
  <2>1. w = [l \in Powers |-> d * p[l]]
    OBVIOUS
  <2> HIDE DEF w, p
  <2>2. d \in Int
    BY <1>1
  <2> QED BY <1>2, <1>4, <2>1, <2>2, TotalOfMultiples, TotalIsInt
<1>7. P \in Int /\ P * d \in Int /\ Total(w) = P * d
  <2>1. P \in Int /\ Total(w) = d * P
    BY <1>5, <1>6
  <2> HIDE DEF w, p
  <2> QED BY <1>1, <2>1
<1>8. Total(g) = IF k = 0 THEN P * d ELSE 0
  <2>1. CASE k = 0
    <3>1. g = w
      BY <1>3, <2>1
    <3> QED BY <1>7, <2>1, <3>1
  <2>2. CASE k # 0
    <3>1. \A l \in Powers : g[l] = 0
      BY <2>2
    <3> HIDE DEF g
    <3>2. Total(g) = 0
      BY <1>2, <1>4, <3>1, TotalOfZeros
    <3> QED BY <2>2, <3>2
  <2> QED BY <2>1, <2>2
<1> HIDE DEF f, g, w, p
<1>9. Total(n) \in -((4 * s) * N) .. (4 * s) * N /\ (4 * s) * N \in Nat
  <2> DEFINE b == 4 * s
  <2>1. b \in Nat
    BY <1>1
  <2> HIDE DEF b
  <2>2. /\ -(b * Cardinality(Powers)) <= Total(n) /\ Total(n) <= b * Cardinality(Powers)
    <3>1. \A l \in Powers : -b <= n[l] /\ n[l] <= b
      BY <1>4 DEF b
    <3>2. Powers \subseteq Powers /\ \A l \in Powers : l \notin Powers => n[l] = 0
      OBVIOUS
    <3> QED BY <1>2, <1>4, <2>1, <3>1, <3>2, TotalIsWithin
  <2>3. Total(n) \in Int
    BY <1>2, <1>4, TotalIsInt
  <2>4. b * N \in Nat /\ Total(n) \in -(b * N) .. b * N
    <3>1. b * N \in Nat
      BY <1>2, <2>1
    <3> DEFINE z == b * N
    <3>2. z \in Nat /\ -z <= Total(n) /\ Total(n) <= z
      BY <1>2, <2>2, <3>1
    <3> HIDE DEF z
    <3>3. Total(n) \in -z .. z
      BY <2>3, <3>2
    <3> QED BY <3>1, <3>3 DEF z
  <2> QED BY <2>4 DEF b
<1>10. Total(f) = Total(g) + Total(n)
  <2>1. f = [l \in Powers |-> g[l] + n[l]]
    BY <1>4
  <2> QED BY <1>2, <1>4, <2>1, TotalOfSums
<1>11. Total(f) \in Int /\ Total(g) \in Int
  BY <1>2, <1>4, TotalIsInt
<1>12. Drifts(Total(f), Total(g), (4 * s) * N, q)
  <2> DEFINE b == (4 * s) * N
             z == Total(n)
             u == Total(g)
  <2>1. b \in Nat /\ z \in -b .. b /\ u \in Int
    BY <1>9, <1>11
  <2> HIDE DEF b, z, u
  <2>2. Drifts(u + z, u, b, q)
    BY <1>1, <2>1, DriftsBy
  <2> QED BY <1>10, <2>2 DEF b, z, u
<1>13. f = [l \in Powers |-> AddedTerm(c, parts, secret, e, l, k)]
  BY DEF f, at
<1> QED BY <1>7, <1>8, <1>11, <1>12, <1>13 DEF d, s, q

-----------------------------------------------------------------------------
(* A coefficient, transduced.                                               *)

\* A share that was looked up is an entry of the table.
LEMMA ShareIsSmall ==
  ASSUME NEW c, IsClock(c), NEW R \in Int
  PROVE  /\ Largest(c) \in Nat /\ Lookup(c, R % Turn) \in Int
         /\ Share(c, Lookup(c, R % Turn)) \in -Largest(c) .. Largest(c)
         /\ Same(BootN * Share(c, Lookup(c, R % Turn)), Lookup(c, R % Turn), c.t)
<1> DEFINE msg == TableMessage(c)
           f == Share(c, Lookup(c, R % Turn))
           from == (-R) % (2 * BootN)
           G == Largest(c)
<1>1. c.t \in Nat /\ c.t > 0 /\ IsChart(c) /\ Coprime(BootN, c.t)
  BY ClockNumbers DEF IsClock
<1>2. PICK h \in Nat : OddFrom(c.t, h)
  BY DEF IsClock
<1>3. BootN \in Nat /\ BootN > 0 /\ BootPowers = 0 .. BootN - 1 /\ Turn \in Nat /\ Turn > 0 /\ 0 \in BootPowers
  BY BootIs, BootPowersAre
<1>4. msg \in [BootPowers -> -h .. h]
  BY <1>1, <1>2, TableIs
<1>5. Circled(BootN, msg, -R) = f
  BY <1>1, <1>2, TableTurned
<1>6. R % Turn \in 0 .. Turn - 1
  BY <1>3, Division
<1>7. Lookup(c, R % Turn) \in Int
  BY <1>1, <1>6, LookupIs
<1>8. Same(BootN * f, Lookup(c, R % Turn), c.t)
  BY <1>1, <1>2, <1>7, ShareIs
<1>9. G \in Nat /\ \A k \in BootPowers : msg[k] \in Int /\ msg[k] <= G /\ -msg[k] <= G
  <2> HIDE DEF msg
  <2>1. Max({Magnitude(msg[k]) : k \in BootPowers}) \in Nat
         /\ \A k \in BootPowers : Magnitude(msg[k]) <= Max({Magnitude(msg[k_1]) : k_1 \in BootPowers})
    <3>1. BootPowers # {} /\ h \in Nat /\ msg \in [BootPowers -> -h .. h]
      BY <1>3, <1>4
    <3> QED BY <3>1, Zenon, LargestIs
  <2>2. G = Max({Magnitude(msg[k]) : k \in BootPowers})
    BY DEF Largest, msg
  <2> HIDE DEF G
  <2>3. \A k \in BootPowers : msg[k] \in Int
    <3>1. \A x \in -h .. h : x \in Int
      OBVIOUS
    <3> QED BY <1>4, <3>1
  <2>4. ASSUME NEW k \in BootPowers PROVE msg[k] <= G /\ -msg[k] <= G
    <3> DEFINE x == msg[k]
    <3>1. x \in Int /\ G \in Nat /\ Magnitude(x) <= G
      BY <2>1, <2>2, <2>3
    <3> HIDE DEF x
    <3>2. x <= G /\ -x <= G
      BY <3>1 DEF Magnitude
    <3> QED BY <3>2 DEF x
  <2> QED BY <2>1, <2>2, <2>3, <2>4
<1>10. from \in 0 .. 2 * BootN - 1
  <2>1. -R \in Int /\ 2 * BootN \in Nat /\ 2 * BootN > 0
    BY <1>3
  <2> QED BY <2>1, Division
<1>11. Circled(BootN, msg, -R) = IF from < BootN THEN msg[from] ELSE -msg[from - BootN]
  BY DEF Circled
<1> HIDE DEF f, msg, from, G
<1>12. f \in -G .. G
  <2>1. CASE from < BootN
    <3>1. from \in BootPowers
      BY <1>3, <1>10, <2>1
    <3>2. f = msg[from]
      BY <1>5, <1>11, <2>1
    <3> QED BY <1>9, <3>1, <3>2
  <2>2. CASE ~ (from < BootN)
    <3> DEFINE g == from - BootN
    <3>1. g \in BootPowers
      BY <1>3, <1>10, <2>2
    <3>2. f = -msg[g]
      BY <1>5, <1>11, <2>2
    <3> HIDE DEF g
    <3> QED BY <1>9, <3>1, <3>2
  <2> QED BY <2>1, <2>2
<1> QED BY <1>7, <1>8, <1>9, <1>12 DEF f, G

\* A value scaled by the quotient of the modulus says the value modulo t, but
\* for what the remainder of the modulus makes of it.
LEMMA ScaledValue ==
  ASSUME NEW t \in Nat, t > 0, NEW d \in Nat, NEW r \in Nat, NEW Q \in Nat, Q = t * d + r,
         NEW V \in Int, NEW m \in Int, Same(V, m, t), NEW G \in Nat, -G <= V, V <= G
  PROVE  Drifts(t * (V * d), Q * m, r * G, t * Q)
<1>1. PICK w \in Int : V = m + t * w
  BY DEF Same
<1>2. -(r * G) <= r * V /\ r * V <= r * G /\ r * G \in Nat
  <2>1. -r <= r /\ r <= r
    OBVIOUS
  <2> QED BY <2>1, ProductIsBounded
<1> DEFINE x1 == t * (V * d)
           x2 == r * V
           x3 == Q * m
           x4 == (t * Q) * w
<1>3. x1 \in Int /\ x2 \in Int /\ x3 \in Int /\ x4 \in Int /\ t * Q \in Int /\ V * d \in Int
  <2>1. V * d \in Int /\ t * Q \in Int
    OBVIOUS
  <2> QED BY <1>1, <2>1
<1>4. Q * V = x1 + x2
  <2>1. (t * d + r) * V = t * (V * d) + r * V
    OBVIOUS
  <2> QED BY <2>1
<1>5. Q * V = x3 + x4
  <2>1. Q * (m + t * w) = Q * m + (t * Q) * w
    BY <1>1
  <2> QED BY <1>1, <2>1
<1>6. x1 = x3 + (-x2) + x4
  <2> DEFINE y == Q * V
  <2>1. y \in Int /\ y = x1 + x2 /\ y = x3 + x4
    BY <1>4, <1>5
  <2> HIDE DEF y, x1, x2, x3, x4
  <2> QED BY <1>3, <2>1
<1>7. -x2 \in Int /\ -(r * G) <= -x2 /\ -x2 <= r * G
  <2> DEFINE z == r * G
  <2>1. z \in Int /\ -z <= x2 /\ x2 <= z
    BY <1>2
  <2> HIDE DEF z, x2
  <2>2. -x2 \in Int /\ -z <= -x2 /\ -x2 <= z
    BY <1>3, <2>1
  <2> QED BY <2>2 DEF z
<1> DEFINE n == -x2
           b == r * G
           M == t * Q
<1>8. n \in Int /\ b \in Int /\ M \in Int /\ -b <= n /\ n <= b /\ x1 = x3 + n + M * w
  BY <1>2, <1>3, <1>6, <1>7
<1> HIDE DEF x1, x3, n, b, M
<1>9. Drifts(x1, x3, b, M)
  BY <1>1, <1>3, <1>8, DriftIs
<1> QED BY <1>9 DEF x1, x3, b, M

\* The bound of a transduced coefficient, put together
LEMMA TransducedBound ==
  ASSUME NEW t \in Nat, NEW s \in Nat, NEW B \in Nat, B >= 1, NEW n \in Nat, NEW r \in Nat,
         NEW L \in Nat, NEW norm \in Nat, NEW controls, controls = s * t * 4 * n,
         NEW lookup, lookup = (r * L + controls) * B + s * t * (B - 1)
  PROVE  /\ t * ((B * ((4 * s) * n) + (B - 1) * s) + (4 * s) * n) + r * (B * L + norm)
              = lookup + r * norm + controls
         /\ lookup + r * norm + controls \in Nat
         /\ t * ((B * ((4 * s) * n) + (B - 1) * s) + (4 * s) * n) \in Nat
         /\ (B * ((4 * s) * n) + (B - 1) * s) + (4 * s) * n \in Nat
         /\ B * ((4 * s) * n) + (B - 1) * s \in Nat /\ (4 * s) * n \in Nat
<1> DEFINE X == s * t
           Y == X * n
           U == (4 * s) * n
           D == B - 1
<1>1. X \in Nat /\ Y \in Nat /\ U \in Nat /\ D \in Nat
  <2>1. X \in Nat /\ 4 * s \in Nat /\ D \in Nat
    OBVIOUS
  <2> HIDE DEF X
  <2>2. Y \in Nat /\ U \in Nat
    BY <2>1
  <2> QED BY <2>1, <2>2
<1>2. controls = 4 * Y /\ t * U = 4 * Y
  <2>1. s * t * 4 * n = 4 * ((s * t) * n)
    OBVIOUS
  <2>2. t * ((4 * s) * n) = 4 * ((s * t) * n)
    OBVIOUS
  <2> QED BY <2>1, <2>2
<1> HIDE DEF U
<1> DEFINE b1 == B * U
           b2 == D * s
           y1 == (4 * Y) * B
           y2 == (r * L) * B
           y3 == X * D
           y4 == r * norm
<1>3. b1 \in Nat /\ b2 \in Nat /\ y1 \in Nat /\ y2 \in Nat /\ y3 \in Nat /\ y4 \in Nat /\ r * L \in Nat
  <2> HIDE DEF X, Y, D
  <2>1. r * L \in Nat /\ 4 * Y \in Nat
    BY <1>1
  <2> QED BY <1>1, <2>1
<1>4. t * b1 = y1 /\ t * b2 = y3
  <2>1. t * (B * U) = (t * U) * B
    BY <1>1
  <2>2. t * (D * s) = (s * t) * D
    <3> HIDE DEF D
    <3> QED BY <1>1
  <2> QED BY <1>2, <2>1, <2>2
<1>5. lookup = y2 + y1 + y3
  <2> HIDE DEF X, Y, D
  <2> DEFINE a1 == r * L
             a2 == 4 * Y
  <2>1. a1 \in Nat /\ a2 \in Nat
    BY <1>1, <1>3
  <2>2. (a1 + a2) * B = a1 * B + a2 * B
    <3> HIDE DEF a1, a2
    <3> QED BY <2>1
  <2>3. lookup = (a1 + a2) * B + X * D
    BY <1>2 DEF X, D
  <2> QED BY <2>2, <2>3
<1>6. r * (B * L + norm) = y2 + y4
  <2>1. r * (B * L + norm) = r * (B * L) + r * norm /\ r * (B * L) = (r * L) * B
    OBVIOUS
  <2> QED BY <2>1
<1>7. t * ((b1 + b2) + U) = y1 + y3 + 4 * Y
  <2> HIDE DEF b1, b2, y1, y3, X, Y
  <2>1. t * ((b1 + b2) + U) = t * b1 + t * b2 + t * U
    BY <1>1, <1>3
  <2> QED BY <1>2, <1>4, <2>1
<1> HIDE DEF y1, y2, y3, y4, Y, b1, b2
<1>8. t * ((b1 + b2) + U) + r * (B * L + norm) = lookup + y4 + controls
  <2>1. lookup \in Nat /\ 4 * Y \in Nat
    BY <1>1, <1>3, <1>5
  <2> QED BY <1>1, <1>2, <1>3, <1>5, <1>6, <1>7, <2>1
<1>9. lookup + y4 + controls \in Nat
  BY <1>1, <1>2, <1>3, <1>5
<1>10. t * ((b1 + b2) + U) \in Nat /\ b1 + b2 \in Nat /\ (b1 + b2) + U \in Nat
  BY <1>1, <1>3, <1>7
<1> QED BY <1>1, <1>8, <1>9, <1>10 DEF y4, b1, b2, U, D

\* What transduction works with: the public parts, signed, and the turns
CoarseOf(c, u) == [k \in Powers |-> Coarse(c, u[k])]
PartsOf(c, u, j) == [l \in Powers |-> Meeting(j, l, CoarseOf(c, u))]
RotationsOf(c, u, j) == [l \in Powers |-> Meeting(j, l, TurnsOf(c, u))]
CarryOf(c, ct, j, secret, e) ==
  Evaluated(c, Projected(c, ct[1][j]), RotationsOf(c, ct[2], j), secret, e)
NormOf(c, ct, j) ==
  Magnitude(Coarse(c, ct[1][j])) + Total([l \in Powers |-> Magnitude(PartsOf(c, ct[2], j)[l])])
\* A coefficient of the source, on the other side
TransducedPhase(c, ct, j, secret, e) ==
  [k \in BootPowers |->
     (CarryOf(c, ct, j, secret, e)[k]
       + (IF k = 0 THEN Coarse(c, ct[1][j]) * (c.bootQ \div c.t) ELSE 0)
       + Total([l \in Powers |-> AddedTerm(c, PartsOf(c, ct[2], j), secret, e, l, k)])) % c.bootQ]

\* What the code makes of a coefficient is this phase with its bound.
LEMMA TransducedIs ==
  ASSUME NEW c, NEW ct, NEW j, NEW secret, NEW e
  PROVE  Transduced(c, ct, j, secret, e)
           = [phase |-> TransducedPhase(c, ct, j, secret, e),
              bound |-> c.lookup + (c.bootQ % c.t) * NormOf(c, ct, j) + c.controls]
BY Zenon DEF Transduced, TransducedPhase, NormOf, CarryOf, PartsOf, RotationsOf, CoarseOf,
             TurnsOf, AddedTerm, SumOver, Total

\* The part that is taken off in public is, modulo t, what the component rounds to.
LEMMA CoarseIs ==
  ASSUME NEW c, IsClock(c), NEW x \in Int
  PROVE  /\ Coarse(c, x) \in Int /\ RoundTo(c.t, c.q, x) \in Int
         /\ Same(Coarse(c, x), RoundTo(c.t, c.q, x), c.t)
<1>1. c.t \in Nat /\ c.q \in Nat /\ c.q > 0 /\ c.t \in Int
  BY ClockNumbers
<1>2. PICK h \in Nat : OddFrom(c.t, h)
  BY DEF IsClock
<1> DEFINE y == RoundTo(c.t, c.q, x)
<1>3. y \in Int
  BY <1>1, RoundToIs
<1>4. Coarse(c, x) = CenteredMod(y, c.t)
  BY Zenon DEF Coarse
<1> HIDE DEF y
<1>5. CenteredMod(y, c.t) \in -h .. h /\ Same(y, CenteredMod(y, c.t), c.t)
  BY <1>1, <1>2, <1>3, CenteredModIs
<1>6. CenteredMod(y, c.t) \in Int
  <2>1. \A z \in -h .. h : z \in Int
    OBVIOUS
  <2> QED BY <1>5, <2>1
<1>7. Same(CenteredMod(y, c.t), y, c.t)
  BY <1>1, <1>3, <1>5, <1>6, SameSymmetric
<1> QED BY <1>3, <1>4, <1>6, <1>7 DEF y

\* All of these are polynomials.
LEMMA PartsAre ==
  ASSUME NEW c, IsClock(c), NEW u \in Polynomials, NEW j \in Powers
  PROVE  /\ CoarseOf(c, u) \in Polynomials /\ TurnsOf(c, u) \in Polynomials
         /\ RoundsOf(c, u) \in Polynomials /\ Agree(CoarseOf(c, u), RoundsOf(c, u), c.t)
         /\ PartsOf(c, u, j) \in Polynomials /\ RotationsOf(c, u, j) \in Polynomials
<1>1. IsDial(c)
  BY DEF IsClock
<1>2. TurnsOf(c, u) \in Polynomials /\ RoundsOf(c, u) \in Polynomials
  BY <1>1, ComponentRounds
<1>3. ASSUME NEW k \in Powers
      PROVE  Coarse(c, u[k]) \in Int /\ Same(CoarseOf(c, u)[k], RoundsOf(c, u)[k], c.t)
  <2>1. u[k] \in Int
    BY DEF Polynomials
  <2>2. Coarse(c, u[k]) \in Int /\ Same(Coarse(c, u[k]), RoundTo(c.t, c.q, u[k]), c.t)
    BY <2>1, CoarseIs
  <2> QED BY <2>2 DEF CoarseOf, RoundsOf
<1>4. CoarseOf(c, u) \in Polynomials
  BY <1>3 DEF CoarseOf, Polynomials
<1>5. PartsOf(c, u, j) \in Polynomials
  <2>1. \A l \in Powers : Meeting(j, l, CoarseOf(c, u)) \in Int
    BY <1>4, MeetingIs
  <2> QED BY <2>1 DEF PartsOf, Polynomials
<1>6. RotationsOf(c, u, j) \in Polynomials
  <2>1. \A l \in Powers : Meeting(j, l, TurnsOf(c, u)) \in Int
    BY <1>2, MeetingIs
  <2> QED BY <2>1 DEF RotationsOf, Polynomials
<1> QED BY <1>2, <1>3, <1>4, <1>5, <1>6 DEF Agree

\* What a carry is looked up at, and what the parts come to
LEMMA MeetingSums ==
  ASSUME NEW c, IsClock(c), NEW ct, ct[1] \in Polynomials, ct[2] \in Polynomials,
         NEW j \in Powers, NEW secret \in Ternary
  PROVE  /\ Projected(c, ct[1][j]) \in Int
         /\ Before(Projected(c, ct[1][j]), RotationsOf(c, ct[2], j), secret, N)
              = Turned_(c, ct[1][j], ct[2], secret, j)
         /\ Total([l \in Powers |-> PartsOf(c, ct[2], j)[l] * secret[l]])
              = Negacyclic(CoarseOf(c, ct[2]), secret)[j]
<1> DEFINE u == ct[2]
           a == ct[1][j]
<1>1. u \in Polynomials /\ a \in Int /\ secret \in Polynomials /\ IsDial(c)
  BY TernaryIs DEF Polynomials, IsClock
<1> HIDE DEF u, a
<1>2. /\ CoarseOf(c, u) \in Polynomials /\ TurnsOf(c, u) \in Polynomials
      /\ RotationsOf(c, u, j) \in Polynomials
  BY <1>1, PartsAre
<1>3. Projected(c, a) \in Int
  BY <1>1, ProjectedIs
<1>4. Total([l \in Powers |-> RotationsOf(c, u, j)[l] * secret[l]]) = Negacyclic(TurnsOf(c, u), secret)[j]
  <2>1. Total([l \in Powers |-> Meeting(j, l, TurnsOf(c, u)) * secret[l]])
          = Negacyclic(TurnsOf(c, u), secret)[j]
    BY <1>1, <1>2, MeetingsAre
  <2>2. [l \in Powers |-> RotationsOf(c, u, j)[l] * secret[l]]
          = [l \in Powers |-> Meeting(j, l, TurnsOf(c, u)) * secret[l]]
    BY DEF RotationsOf
  <2> QED BY <2>1, <2>2
<1>5. Total([l \in Powers |-> PartsOf(c, u, j)[l] * secret[l]]) = Negacyclic(CoarseOf(c, u), secret)[j]
  <2>1. Total([l \in Powers |-> Meeting(j, l, CoarseOf(c, u)) * secret[l]])
          = Negacyclic(CoarseOf(c, u), secret)[j]
    BY <1>1, <1>2, MeetingsAre
  <2>2. [l \in Powers |-> PartsOf(c, u, j)[l] * secret[l]]
          = [l \in Powers |-> Meeting(j, l, CoarseOf(c, u)) * secret[l]]
    BY DEF PartsOf
  <2> QED BY <2>1, <2>2
<1>6. Before(Projected(c, a), RotationsOf(c, u, j), secret, N)
        = Projected(c, a) + Total([l \in Powers |-> RotationsOf(c, u, j)[l] * secret[l]])
  BY <1>2, <1>3, BeforeSteps
<1>7. Before(Projected(c, a), RotationsOf(c, u, j), secret, N) = Turned_(c, a, u, secret, j)
  BY <1>4, <1>6 DEF Turned_
<1> QED BY <1>3, <1>5, <1>7 DEF a, u

\* The norm bounds what is taken off in public.
LEMMA NormCovers ==
  ASSUME NEW c, IsClock(c), NEW ct, ct[1] \in Polynomials, ct[2] \in Polynomials,
         NEW j \in Powers, NEW secret \in Ternary,
         NEW P, P = Total([l \in Powers |-> PartsOf(c, ct[2], j)[l] * secret[l]])
  PROVE  /\ P \in Int /\ Coarse(c, ct[1][j]) \in Int /\ NormOf(c, ct, j) \in Nat
         /\ -NormOf(c, ct, j) <= Coarse(c, ct[1][j]) + P
         /\ Coarse(c, ct[1][j]) + P <= NormOf(c, ct, j)
<1> DEFINE parts == PartsOf(c, ct[2], j)
           first == Coarse(c, ct[1][j])
           f == [l \in Powers |-> parts[l] * secret[l]]
           g == [l \in Powers |-> Magnitude(parts[l])]
           h == [l \in Powers |-> (-1) * g[l]]
<1>1. parts \in Polynomials /\ first \in Int
  <2>1. ct[1][j] \in Int
    BY DEF Polynomials
  <2> QED BY <2>1, PartsAre, CoarseIs
<1> HIDE DEF parts, first
<1>2. IsFiniteSet(Powers)
  BY PowersAre
<1>3. ASSUME NEW l \in Powers
      PROVE  /\ parts[l] * secret[l] \in Int /\ Magnitude(parts[l]) \in Nat
             /\ parts[l] * secret[l] <= Magnitude(parts[l])
             /\ (-1) * Magnitude(parts[l]) <= parts[l] * secret[l]
             /\ (-1) * Magnitude(parts[l]) \in Int
  <2> DEFINE x == parts[l]
             z == secret[l]
  <2>1. x \in Int /\ z \in {-1, 0, 1}
    BY <1>1, TernaryIs DEF Polynomials
  <2> HIDE DEF x, z
  <2>2. Magnitude(x) \in Nat /\ x <= Magnitude(x) /\ -x <= Magnitude(x)
    BY <2>1 DEF Magnitude
  <2> DEFINE y == Magnitude(x)
  <2>3. y \in Nat /\ x <= y /\ -x <= y
    BY <2>2
  <2> HIDE DEF y
  <2>4. x * z \in Int /\ x * z <= y /\ (-1) * y <= x * z /\ (-1) * y \in Int
    <3>1. CASE z = 1
      BY <2>1, <2>3, <3>1
    <3>2. CASE z = 0
      BY <2>1, <2>3, <3>2
    <3>3. CASE z = -1
      BY <2>1, <2>3, <3>3
    <3> QED BY <2>1, <3>1, <3>2, <3>3
  <2> QED BY <2>3, <2>4 DEF x, y, z
<1>4. /\ f \in [Powers -> Int] /\ g \in [Powers -> Nat] /\ g \in [Powers -> Int] /\ h \in [Powers -> Int]
      /\ \A l \in Powers : f[l] <= g[l] /\ h[l] <= f[l]
  BY <1>3
<1>5. P = Total(f)
  BY DEF parts
<1> HIDE DEF f, g
<1>6. Total(f) \in Int /\ Total(g) \in Nat /\ Total(g) \in Int
  BY <1>2, <1>4, TotalIsInt, TotalIsNat
<1>7. Total(h) = (-1) * Total(g)
  <2>1. -1 \in Int
    OBVIOUS
  <2> QED BY <1>2, <1>4, <2>1, TotalOfMultiples
<1>8. Total(f) <= Total(g) /\ Total(h) <= Total(f)
  <2> HIDE DEF h
  <2>1. Total(f) <= Total(g)
    BY <1>2, <1>4, TotalIsMonotone
  <2>2. Total(h) <= Total(f)
    BY <1>2, <1>4, TotalIsMonotone
  <2> QED BY <2>1, <2>2
<1> HIDE DEF h
<1>9. NormOf(c, ct, j) = Magnitude(first) + Total(g)
  BY DEF NormOf, first, parts, g
<1>10. Magnitude(first) \in Nat /\ first <= Magnitude(first) /\ -first <= Magnitude(first)
  BY <1>1 DEF Magnitude
<1> DEFINE a == Magnitude(first)
           b == Total(g)
           p == Total(f)
<1>11. a \in Nat /\ b \in Nat /\ p \in Int /\ first \in Int /\ first <= a /\ -first <= a
       /\ p <= b /\ (-1) * b <= p
  BY <1>1, <1>6, <1>7, <1>8, <1>10
<1> HIDE DEF a, b, p
<1>12. a + b \in Nat /\ -(a + b) <= first + p /\ first + p <= a + b
  BY <1>11
<1> QED BY <1>1, <1>5, <1>6, <1>9, <1>12 DEF a, b, p, first

\* The bounds of a clock are natural numbers.
LEMMA ClockBounds ==
  ASSUME NEW c, IsClock(c)
  PROVE  /\ Largest(c) \in Nat /\ c.controls \in Nat /\ c.lookup \in Nat
         /\ c.controls = c.switch * c.t * 4 * N
         /\ c.lookup = ((c.bootQ % c.t) * Largest(c) + c.controls) * BootN
                         + c.switch * c.t * (BootN - 1)
<1> DEFINE t == c.t
           s == c.switch
           r == c.bootQ % c.t
           L == Largest(c)
<1>1. t \in Nat /\ s \in Nat /\ r \in Nat /\ BootN \in Nat /\ BootN >= 1 /\ N \in Nat
  BY ClockNumbers, BootIs, DegreeIs
<1>2. L \in Nat
  <2>1. 0 \in Int
    OBVIOUS
  <2> QED BY <2>1, ShareIsSmall
<1>3. c.controls = s * t * 4 * N /\ c.lookup = (r * L + c.controls) * BootN + s * t * (BootN - 1)
  BY Zenon DEF IsClock
<1> HIDE DEF t, s, r, L
<1>4. c.controls \in Nat
  <2>1. s * t \in Nat
    BY <1>1
  <2> DEFINE X == s * t
  <2> HIDE DEF X
  <2>2. X \in Nat
    BY <2>1 DEF X
  <2>3. X * 4 \in Nat
    BY <2>2
  <2> DEFINE Y == X * 4
  <2>4. Y \in Nat
    BY <2>3
  <2> HIDE DEF Y
  <2>5. Y * N \in Nat
    BY <1>1, <2>4
  <2> QED BY <1>3, <2>5 DEF X, Y
<1>5. c.lookup \in Nat
  <2> DEFINE k == c.controls
             y == r * L + k
             X == s * t
             D == BootN - 1
  <2>1. y \in Nat /\ X \in Nat /\ D \in Nat
    <3>1. r * L \in Nat /\ k \in Nat
      BY <1>1, <1>2, <1>4
    <3> QED BY <1>1, <3>1
  <2> HIDE DEF y, X, D
  <2>2. y * BootN \in Nat /\ X * D \in Nat
    BY <1>1, <2>1
  <2>3. c.lookup = y * BootN + X * D
    BY <1>3 DEF y, X, D
  <2> QED BY <2>2, <2>3
<1> QED BY <1>2, <1>3, <1>4, <1>5 DEF t, s, r, L

\* A coefficient that is transduced is a ciphertext of the boot ring, with a
\* bound.
LEMMA TransducedTyped ==
  ASSUME NEW c, IsClock(c), NEW ct, ct[1] \in Polynomials, ct[2] \in Polynomials,
         NEW j \in Powers, NEW secret \in Ternary, NEW e, IsKeySwitch(e)
  PROVE  /\ Transduced(c, ct, j, secret, e).phase \in BootPolynomials
         /\ Transduced(c, ct, j, secret, e).bound \in Nat
<1> DEFINE p == TransducedPhase(c, ct, j, secret, e)
           y(k) == CarryOf(c, ct, j, secret, e)[k]
                    + (IF k = 0 THEN Coarse(c, ct[1][j]) * (c.bootQ \div c.t) ELSE 0)
                    + Total([l \in Powers |-> AddedTerm(c, PartsOf(c, ct[2], j), secret, e, l, k)])
<1>1. /\ c.bootQ \in Nat /\ c.bootQ > 0 /\ c.bootQ \div c.t \in Nat /\ c.bootQ % c.t \in Nat
  BY ClockNumbers
<1>2. ASSUME NEW k \in BootPowers PROVE y(k) \in Int
  <2> DEFINE x1 == CarryOf(c, ct, j, secret, e)[k]
             x2 == IF k = 0 THEN Coarse(c, ct[1][j]) * (c.bootQ \div c.t) ELSE 0
             x3 == Total([l \in Powers |-> AddedTerm(c, PartsOf(c, ct[2], j), secret, e, l, k)])
  <2>1. x1 \in Int
    <3>1. RotationsOf(c, ct[2], j) \in Polynomials
      BY PartsAre
    <3>2. Projected(c, ct[1][j]) \in Int
      BY MeetingSums
    <3>3. Evaluated(c, Projected(c, ct[1][j]), RotationsOf(c, ct[2], j), secret, e) \in BootPolynomials
      BY <3>1, <3>2, EvaluatedFollows
    <3> QED BY <3>3 DEF CarryOf, BootPolynomials
  <2>2. x2 \in Int
    <3>1. ct[1][j] \in Int
      BY DEF Polynomials
    <3>2. Coarse(c, ct[1][j]) \in Int
      BY <3>1, CoarseIs
    <3> DEFINE z == Coarse(c, ct[1][j])
               d == c.bootQ \div c.t
    <3>3. z \in Int /\ d \in Int
      BY <1>1, <3>2
    <3> HIDE DEF z, d
    <3>4. z * d \in Int
      BY <3>3
    <3> QED BY <3>4 DEF z, d
  <2>3. x3 \in Int
    <3>1. PartsOf(c, ct[2], j) \in Polynomials
      BY PartsAre
    <3> QED BY <3>1, TermsFollow
  <2> HIDE DEF x1, x2, x3
  <2>4. x1 + x2 + x3 \in Int
    BY <2>1, <2>2, <2>3
  <2> QED BY <2>4 DEF x1, x2, x3
<1>3. p \in BootPolynomials
  <2>1. ASSUME NEW k \in BootPowers PROVE y(k) % c.bootQ \in Int
    <3> DEFINE z == y(k)
    <3>1. z \in Int
      BY <1>2
    <3> HIDE DEF z
    <3>2. z % c.bootQ \in 0 .. c.bootQ - 1
      BY <1>1, <3>1, Division
    <3>3. z % c.bootQ \in Int
      BY <3>2
    <3> QED BY <3>3 DEF z
  <2> QED BY <2>1 DEF TransducedPhase, BootPolynomials
<1>4. c.lookup + (c.bootQ % c.t) * NormOf(c, ct, j) + c.controls \in Nat
  <2> DEFINE n == NormOf(c, ct, j)
             r == c.bootQ % c.t
  <2>1. n \in Nat /\ r \in Nat /\ c.lookup \in Nat /\ c.controls \in Nat
    BY <1>1, NormCovers, ClockBounds
  <2> HIDE DEF n, r
  <2>2. r * n \in Nat
    BY <2>1
  <2>3. c.lookup + r * n + c.controls \in Nat
    BY <2>1, <2>2
  <2> QED BY <2>3 DEF n, r
<1>5. Transduced(c, ct, j, secret, e)
        = [phase |-> p, bound |-> c.lookup + (c.bootQ % c.t) * NormOf(c, ct, j) + c.controls]
  BY TransducedIs
<1> HIDE DEF p
<1> QED BY <1>3, <1>4, <1>5

\* The constant term of a transduced coefficient says what the coefficient
\* of the source says.
LEMMA TransducedFollows ==
  ASSUME NEW c, IsClock(c), NEW ct, ct[1] \in Polynomials, ct[2] \in Polynomials,
         NEW j \in Powers, NEW secret \in Ternary, NEW e, IsKeySwitch(e),
         Weight(secret) <= c.weight, NEW m \in Int,
         Drifts(c.t * (ct[1][j] + Negacyclic(ct[2], secret)[j]), c.q * m, c.error, c.t * c.q)
  PROVE  \A k \in BootPowers :
           Drifts(c.t * Transduced(c, ct, j, secret, e).phase[k], c.bootQ * (IF k = 0 THEN m ELSE 0),
                  Transduced(c, ct, j, secret, e).bound, c.t * c.bootQ)
<1> DEFINE t == c.t
           s == c.switch
           Q == c.bootQ
           d == Q \div t
           r == Q % t
           L == Largest(c)
           a == ct[1][j]
           u == ct[2]
           R == Turned_(c, a, u, secret, j)
           K == Lookup(c, R % Turn)
           f == Share(c, K)
           first == Coarse(c, a)
           P == Total([l \in Powers |-> PartsOf(c, u, j)[l] * secret[l]])
           norm == NormOf(c, ct, j)
           carry == CarryOf(c, ct, j, secret, e)
           T(k) == Total([l \in Powers |-> AddedTerm(c, PartsOf(c, u, j), secret, e, l, k)])
           found == BootN * (f * d)
           B0 == BootN * ((4 * s) * N) + (BootN - 1) * s
           B1 == (4 * s) * N
           V == BootN * f + (first + P)
           G == BootN * L + norm
           bound == c.lookup + r * norm + c.controls
<1>1. /\ t \in Nat /\ t > 0 /\ Q \in Nat /\ Q > 0 /\ s \in Nat /\ d \in Nat /\ r \in Nat /\ Q = t * d + r
      /\ BootN \in Nat /\ BootN >= 1 /\ N \in Nat /\ t \in Int /\ Q \in Int
  BY ClockNumbers, BootIs, DegreeIs
<1>2. u \in Polynomials /\ a \in Int /\ secret \in Polynomials
  BY TernaryIs DEF Polynomials
<1>3. /\ CoarseOf(c, u) \in Polynomials /\ RoundsOf(c, u) \in Polynomials
      /\ Agree(CoarseOf(c, u), RoundsOf(c, u), c.t)
      /\ PartsOf(c, u, j) \in Polynomials /\ RotationsOf(c, u, j) \in Polynomials
  BY <1>2, PartsAre
<1>4. /\ Projected(c, a) \in Int
      /\ Before(Projected(c, a), RotationsOf(c, u, j), secret, N) = R
      /\ P = Negacyclic(CoarseOf(c, u), secret)[j]
  BY MeetingSums
<1>5. /\ Rounded_(c, a, u, secret, j) \in Int /\ R \in Int /\ K \in Int
      /\ Same(K + Rounded_(c, a, u, secret, j), m, t)
  BY <1>2, CarryIsRead
<1>6. /\ L \in Nat /\ f \in -L .. L /\ Same(BootN * f, K, t)
  <2> HIDE DEF R
  <2> QED BY <1>5, ShareIsSmall
<1>7. /\ found \in Int
      /\ \A k \in BootPowers : /\ carry[k] \in Int
                               /\ Drifts(carry[k], IF k = 0 THEN found ELSE 0, B0, Q)
  <2> HIDE DEF R
  <2>1. /\ found \in Int
        /\ Evaluated(c, Projected(c, a), RotationsOf(c, u, j), secret, e) \in BootPolynomials
        /\ \A k \in BootPowers :
             Drifts(Evaluated(c, Projected(c, a), RotationsOf(c, u, j), secret, e)[k],
                    IF k = 0 THEN found ELSE 0, B0, Q)
    BY <1>3, <1>4, EvaluatedFollows
  <2>2. carry = Evaluated(c, Projected(c, a), RotationsOf(c, u, j), secret, e)
    BY Zenon DEF CarryOf
  <2> HIDE DEF carry, found, B0, Q
  <2> QED BY <2>1, <2>2 DEF BootPolynomials
<1>8. /\ P \in Int /\ P * d \in Int
      /\ \A k \in BootPowers : T(k) \in Int /\ Drifts(T(k), IF k = 0 THEN P * d ELSE 0, B1, Q)
  <2> DEFINE parts == PartsOf(c, u, j)
             S == Total([l \in Powers |-> parts[l] * secret[l]])
  <2>1. parts \in Polynomials /\ 0 \in BootPowers
    BY <1>3, BootPowersAre
  <2> HIDE DEF parts
  <2>2. ASSUME NEW k \in BootPowers
        PROVE  LET z == Total([l \in Powers |-> AddedTerm(c, parts, secret, e, l, k)])
               IN  /\ S \in Int /\ S * d \in Int /\ z \in Int
                   /\ Drifts(z, IF k = 0 THEN S * d ELSE 0, B1, Q)
    BY <2>1, TermsFollow
  <2>3. S \in Int /\ S * d \in Int
    BY <2>1, <2>2
  <2> HIDE DEF S
  <2>4. P = S
    BY DEF S, parts
  <2>5. \A k \in BootPowers : T(k) = Total([l \in Powers |-> AddedTerm(c, parts, secret, e, l, k)])
    BY DEF parts
  <2> HIDE DEF P, T, B1, d, Q
  <2> QED BY <2>2, <2>3, <2>4, <2>5
<1>9. first \in Int /\ norm \in Nat /\ -norm <= first + P /\ first + P <= norm
  BY NormCovers
<1>10. Same(V, m, t)
  <2> DEFINE y == RoundTo(c.t, c.q, a)
             w == Negacyclic(RoundsOf(c, u), secret)[j]
  <2>1. y \in Int /\ Same(first, y, t)
    BY <1>2, CoarseIs
  <2>2. w \in Int /\ Same(P, w, t)
    <3>1. Agree(secret, secret, t)
      BY <1>1, <1>2, SameReflexive DEF Agree, Polynomials
    <3>2. Agree(Negacyclic(CoarseOf(c, u), secret), Negacyclic(RoundsOf(c, u), secret), t)
      BY <1>1, <1>2, <1>3, <3>1, NegacyclicsAgree
    <3>3. Negacyclic(RoundsOf(c, u), secret) \in Polynomials
      BY <1>2, <1>3, NegacyclicIs
    <3> QED BY <1>4, <3>2, <3>3 DEF Agree, Polynomials
  <2>3. Rounded_(c, a, u, secret, j) = y + w
    BY DEF Rounded_
  <2>4. BootN * f \in Int /\ f \in Int
    BY <1>1, <1>6
  <2> DEFINE x == BootN * f
  <2> HIDE DEF y, w, x, K, P, first, t
  <2>5. Same(first + P, y + w, t) /\ first + P \in Int /\ y + w \in Int
    BY <1>1, <1>8, <1>9, <2>1, <2>2, SameSum
  <2>6. Same(x, K, t) /\ x \in Int
    BY <1>6, <2>4 DEF x
  <2>7. Same(x + (first + P), K + (y + w), t) /\ x + (first + P) \in Int /\ K + (y + w) \in Int
    <3> DEFINE z1 == first + P
               z2 == y + w
    <3>1. z1 \in Int /\ z2 \in Int /\ Same(z1, z2, t)
      BY <2>5
    <3> HIDE DEF z1, z2
    <3>2. Same(x + z1, K + z2, t)
      BY <1>1, <1>5, <2>6, <3>1, SameSum
    <3>3. x + z1 \in Int /\ K + z2 \in Int
      BY <1>5, <2>6, <3>1
    <3> QED BY <3>2, <3>3 DEF z1, z2
  <2>8. Same(K + (y + w), m, t)
    BY <1>5, <2>3
  <2>9. Same(x + (first + P), m, t)
    <3> DEFINE z1 == x + (first + P)
               z2 == K + (y + w)
    <3>1. z1 \in Int /\ z2 \in Int /\ Same(z1, z2, t) /\ Same(z2, m, t)
      BY <2>7, <2>8
    <3> HIDE DEF z1, z2
    <3>2. Same(z1, m, t)
      BY <1>1, <3>1, SameTransitive
    <3> QED BY <3>2 DEF z1
  <2> QED BY <2>9 DEF x
<1> HIDE DEF t, s, Q, d, r, L, R, K, f, first, P, norm, carry, T
<1>11. V \in Int /\ G \in Nat /\ -G <= V /\ V <= G
  <2> DEFINE x == BootN * f
             y == BootN * L
             z == first + P
  <2>1. x \in Int /\ y \in Nat /\ -y <= x /\ x <= y
    <3>1. -BootN <= BootN /\ BootN <= BootN /\ f \in Int /\ -L <= f /\ f <= L /\ BootN \in Int
      BY <1>1, <1>6
    <3>2. -(BootN * L) <= BootN * f /\ BootN * f <= BootN * L /\ BootN * L \in Nat
      BY <1>1, <1>6, <3>1, ProductIsBounded
    <3> QED BY <1>1, <3>1, <3>2
  <2>2. z \in Int /\ -norm <= z /\ z <= norm
    BY <1>8, <1>9
  <2> HIDE DEF x, y, z
  <2>3. x + z \in Int /\ y + norm \in Nat /\ -(y + norm) <= x + z /\ x + z <= y + norm
    BY <1>9, <2>1, <2>2
  <2> QED BY <2>3 DEF x, y, z
<1>12. /\ t * (B0 + B1) + r * G = bound /\ bound \in Nat /\ t * (B0 + B1) \in Nat
       /\ B0 + B1 \in Nat /\ B0 \in Nat /\ B1 \in Nat
  <2>1. /\ c.controls = s * t * 4 * N
        /\ c.lookup = (r * L + c.controls) * BootN + s * t * (BootN - 1)
    BY ClockBounds DEF s, t, r, L, Q
  <2> QED BY <1>1, <1>6, <1>9, <2>1, TransducedBound
<1>13. Drifts(t * (V * d), Q * m, r * G, t * Q)
  <2> HIDE DEF V, G
  <2> QED BY <1>1, <1>10, <1>11, ScaledValue
<1>14. V * d = found + first * d + P * d /\ V * d \in Int /\ first * d \in Int
  <2> DEFINE x == BootN * f
  <2>1. x \in Int /\ f \in Int
    BY <1>1, <1>6
  <2> HIDE DEF x
  <2>2. (x + (first + P)) * d = x * d + first * d + P * d
    BY <1>1, <1>8, <1>9, <2>1
  <2>3. x * d = found
    BY <1>1, <2>1 DEF x
  <2>4. V = x + (first + P)
    BY DEF x
  <2> HIDE DEF V
  <2>5. V * d \in Int /\ first * d \in Int
    BY <1>1, <1>9, <1>11
  <2> QED BY <2>2, <2>3, <2>4, <2>5
<1>15. Transduced(c, ct, j, secret, e)
         = [phase |-> TransducedPhase(c, ct, j, secret, e), bound |-> bound]
  BY TransducedIs DEF r, Q, t, norm
<1>16. ASSUME NEW k \in BootPowers
       PROVE  Drifts(t * TransducedPhase(c, ct, j, secret, e)[k], Q * (IF k = 0 THEN m ELSE 0),
                     bound, t * Q)
  <2> DEFINE x1 == carry[k]
             y1 == IF k = 0 THEN found ELSE 0
             x2 == IF k = 0 THEN first * d ELSE 0
             x3 == T(k)
             y3 == IF k = 0 THEN P * d ELSE 0
             y == IF k = 0 THEN V * d ELSE 0
             x == x1 + x2 + x3
  <2>1. TransducedPhase(c, ct, j, secret, e)[k] = x % Q
    BY Zenon DEF TransducedPhase, carry, first, d, Q, t, T, u, a
  <2>2. /\ x1 \in Int /\ x2 \in Int /\ x3 \in Int /\ y1 \in Int /\ y3 \in Int /\ y \in Int
        /\ Drifts(x1, y1, B0, Q) /\ Drifts(x3, y3, B1, Q)
        /\ y = y1 + x2 + y3
    <3>1. /\ x1 \in Int /\ x3 \in Int /\ Drifts(x1, y1, B0, Q) /\ Drifts(x3, y3, B1, Q)
      BY <1>7, <1>8
    <3>2. x2 \in Int /\ y1 \in Int /\ y3 \in Int /\ y \in Int
      BY <1>7, <1>8, <1>14
    <3>3. y = y1 + x2 + y3
      <4>1. CASE k = 0
        BY <1>14, <4>1
      <4>2. CASE k # 0
        BY <4>2
      <4> QED BY <4>1, <4>2
    <3> QED BY <3>1, <3>2, <3>3
  <2> HIDE DEF x1, x2, x3, y1, y3, B0, B1
  <2>3. Drifts(x1 + x2, y1 + x2, B0 + 0, Q) /\ x1 + x2 \in Int /\ y1 + x2 \in Int
    <3>1. Drifts(x2, x2, 0, Q) /\ 0 \in Int /\ B0 \in Int
      BY <1>1, <1>12, <2>2, DriftsNone
    <3> DEFINE z == 0
    <3>2. Drifts(x2, x2, z, Q) /\ z \in Int
      BY <3>1
    <3> HIDE DEF z
    <3>3. Drifts(x1 + x2, y1 + x2, B0 + z, Q)
      BY <1>1, <2>2, <3>1, <3>2, DriftsSum
    <3> QED BY <2>2, <3>3 DEF z
  <2>4. Drifts(x, y, B0 + B1, Q) /\ x \in Int
    <3> DEFINE z1 == x1 + x2
               z2 == y1 + x2
    <3>1. z1 \in Int /\ z2 \in Int /\ Drifts(z1, z2, B0, Q) /\ B0 \in Int /\ B1 \in Int
      <4>1. B0 + 0 = B0
        BY <1>12
      <4> QED BY <1>12, <2>3, <4>1
    <3>2. x = z1 + x3 /\ y = z2 + y3
      BY <2>2
    <3> HIDE DEF z1, z2, x, y
    <3>3. Drifts(z1 + x3, z2 + y3, B0 + B1, Q)
      BY <1>1, <2>2, <3>1, DriftsSum
    <3>4. z1 + x3 \in Int
      BY <2>2, <3>1
    <3> QED BY <3>2, <3>3, <3>4
  <2> HIDE DEF x, y
  <2>5. Drifts(x % Q, y, B0 + B1, Q) /\ x % Q \in Int
    <3>1. B0 + B1 \in Int /\ y \in Int
      BY <1>12, <2>2
    <3> DEFINE b == B0 + B1
    <3> HIDE DEF b
    <3>2. b \in Int /\ Drifts(x, y, b, Q)
      BY <2>4, <3>1 DEF b
    <3>3. Drifts(x % Q, y, b, Q) /\ x % Q \in Int
      BY <1>1, <2>4, <3>1, <3>2, DriftsResidue
    <3> QED BY <3>3 DEF b
  <2>6. Drifts(t * (x % Q), t * y, t * (B0 + B1), t * Q)
    <3> DEFINE b == B0 + B1
               v == x % Q
    <3>1. b \in Int /\ v \in Int /\ Drifts(v, y, b, Q) /\ y \in Int
      BY <1>12, <2>2, <2>5
    <3> HIDE DEF b, v
    <3>2. Drifts(t * v, t * y, t * b, t * Q)
      BY <1>1, <3>1, DriftsScaled
    <3> QED BY <3>2 DEF b, v
  <2>7. Drifts(t * y, Q * (IF k = 0 THEN m ELSE 0), r * G, t * Q) /\ t * y \in Int
        /\ Q * (IF k = 0 THEN m ELSE 0) \in Int /\ r * G \in Nat
    <3>1. r * G \in Nat /\ t * Q \in Int
      <4> HIDE DEF G
      <4> QED BY <1>1, <1>11
    <3>2. CASE k = 0
      <4>1. y = V * d
        BY <3>2 DEF y
      <4>2. t * (V * d) \in Int /\ Q * m \in Int
        <5> DEFINE z == V * d
        <5>1. z \in Int
          BY <1>14
        <5> HIDE DEF z
        <5>2. t * z \in Int /\ Q * m \in Int
          BY <1>1, <5>1
        <5> QED BY <5>2 DEF z
      <4> QED BY <1>13, <3>1, <3>2, <4>1, <4>2
    <3>3. CASE k # 0
      <4>1. t * y = 0 /\ Q * (IF k = 0 THEN m ELSE 0) = 0
        BY <1>1, <3>3 DEF y
      <4> DEFINE b == r * G
                 M == t * Q
                 z == 0
      <4>2. b \in Nat /\ M \in Int /\ z \in Int
        BY <3>1
      <4> HIDE DEF b, M, z
      <4>3. Drifts(z, z, b, M)
        BY <4>2, DriftsNone
      <4> QED BY <4>1, <4>2, <4>3 DEF b, M, z
    <3> QED BY <3>2, <3>3
  <2>8. Drifts(t * (x % Q), Q * (IF k = 0 THEN m ELSE 0), t * (B0 + B1) + r * G, t * Q)
    <3> DEFINE v == t * (x % Q)
               w == t * y
               z == Q * (IF k = 0 THEN m ELSE 0)
               b1 == t * (B0 + B1)
               b2 == r * G
               M == t * Q
    <3>1. /\ v \in Int /\ w \in Int /\ z \in Int /\ b1 \in Int /\ b2 \in Int /\ M \in Int
          /\ Drifts(v, w, b1, M) /\ Drifts(w, z, b2, M)
      <4>1. t * (x % Q) \in Int
        <5> DEFINE v0 == x % Q
        <5>1. v0 \in Int
          BY <2>5
        <5> HIDE DEF v0
        <5>2. t * v0 \in Int
          BY <1>1, <5>1
        <5> QED BY <5>2 DEF v0
      <4>2. t * Q \in Int
        BY <1>1
      <4>3. b1 \in Int /\ b2 \in Int
        BY <1>12, <2>7
      <4> QED BY <2>6, <2>7, <4>1, <4>2, <4>3
    <3> HIDE DEF v, w, z, b1, b2, M
    <3>2. Drifts(v, z, b1 + b2, M)
      BY <3>1, DriftsChain
    <3> QED BY <3>2 DEF v, z, b1, b2, M
  <2> QED BY <1>12, <2>1, <2>8
<1> HIDE DEF bound
<1> QED BY <1>15, <1>16 DEF t, Q

-----------------------------------------------------------------------------
(* The coefficients, assembled.                                             *)

\* A part of the assembly: phases with bounds
ArePhases(part) == \A j \in Powers : part[j].phase \in BootPolynomials /\ part[j].bound \in Nat

\* The coefficient of the boot ring where a coefficient goes
LEMMA PlaceIs ==
  ASSUME NEW j \in Powers, NEW k \in BootPowers
  PROVE  /\ j * Ratio \in Int /\ k - j * Ratio \in Int
         /\ k - j * Ratio \in -BootN .. BootN - 1 /\ k - j * Ratio # -BootN
         /\ k - j * Ratio = 0 <=> (k % Ratio = 0 /\ k \div Ratio = j)
         /\ k % Ratio = 0 => k \div Ratio \in Powers
<1>1. /\ Ratio \in Nat /\ Ratio >= 1 /\ BootN = Ratio * N /\ BootN \in Nat /\ N \in Nat /\ N >= 1
      /\ Powers = 0 .. N - 1 /\ BootPowers = 0 .. BootN - 1
  BY BootIs, BootPowersAre, DegreeIs DEF Powers
<1>2. j \in Int /\ j >= 0 /\ j <= N - 1 /\ k \in Int /\ k >= 0 /\ k <= BootN - 1
  BY <1>1
<1> DEFINE p == j * Ratio
           d == k \div Ratio
           r == k % Ratio
<1>3. p \in Nat /\ p <= BootN - Ratio
  <2>1. Ratio * j \in Nat /\ Ratio * j <= Ratio * (N - 1)
    <3>1. N - 1 \in Int /\ Ratio * j \in Nat
      BY <1>1, <1>2
    <3> QED BY <1>1, <1>2, <3>1, FactorKeepsOrder
  <2>2. Ratio * (N - 1) = Ratio * N - Ratio /\ j * Ratio = Ratio * j
    BY <1>1, <1>2
  <2> DEFINE x == Ratio * j
  <2>3. x \in Nat /\ x <= BootN - Ratio /\ p = x
    BY <1>1, <2>1, <2>2
  <2> HIDE DEF x, p
  <2> QED BY <2>3
<1>4. k = Ratio * d + r /\ r \in 0 .. Ratio - 1 /\ d \in Int
  BY <1>1, <1>2, Division
<1>5. r = 0 => d \in Powers
  <2>1. SUFFICES ASSUME r = 0 PROVE d \in Powers
    OBVIOUS
  <2> HIDE DEF d, r
  <2>2. Ratio * d = k
    <3> DEFINE x == Ratio * d
    <3>1. x \in Int /\ k = x + 0
      BY <1>1, <1>4, <2>1
    <3> HIDE DEF x
    <3>2. k = x
      BY <3>1
    <3> QED BY <3>2 DEF x
  <2>3. d >= 0
    <3>1. SUFFICES ASSUME d <= -1 PROVE FALSE
      BY <1>4
    <3>2. Ratio * d <= Ratio * (-1)
      BY <1>1, <1>4, <3>1, FactorKeepsOrder
    <3>3. k <= -Ratio
      BY <1>1, <2>2, <3>2
    <3> QED BY <1>1, <1>2, <3>3
  <2>4. d <= N - 1
    <3>1. SUFFICES ASSUME d >= N PROVE FALSE
      BY <1>1, <1>4
    <3>2. Ratio * N <= Ratio * d
      BY <1>1, <1>4, <3>1, FactorKeepsOrder
    <3>3. BootN <= k
      BY <1>1, <2>2, <3>2
    <3> QED BY <1>1, <1>2, <3>3
  <2> QED BY <1>1, <1>4, <2>3, <2>4
<1>6. k - p = 0 <=> (r = 0 /\ d = j)
  <2>1. ASSUME k - p = 0 PROVE r = 0 /\ d = j
    <3>1. 0 \in 0 .. Ratio - 1 /\ Ratio * j + 0 = k /\ Ratio > 0
      <4>1. Ratio * j = p
        BY <1>1, <1>2
      <4> DEFINE x == Ratio * j
      <4>2. x = p
        BY <4>1
      <4> HIDE DEF x, p
      <4>3. 0 \in 0 .. Ratio - 1 /\ x + 0 = k /\ Ratio > 0
        BY <1>1, <1>2, <1>3, <2>1, <4>2
      <4> QED BY <4>3 DEF x
    <3>2. (Ratio * j + 0) \div Ratio = j /\ (Ratio * j + 0) % Ratio = 0
      BY <1>1, <1>2, <3>1, QuotientIs
    <3> DEFINE y == Ratio * j + 0
    <3>3. y = k /\ y \div Ratio = j /\ y % Ratio = 0
      BY <3>1, <3>2
    <3> HIDE DEF y
    <3> QED BY <3>3
  <2>2. ASSUME r = 0, d = j PROVE k - p = 0
    <3>1. Ratio * j = p
      BY <1>1, <1>2
    <3> DEFINE x == Ratio * d
    <3>2. k = x + 0 /\ x = p
      BY <1>4, <2>2, <3>1
    <3> HIDE DEF x, p
    <3> QED BY <1>2, <1>3, <3>2
  <2> QED BY <2>1, <2>2
<1>7. k - p \in Int /\ k - p \in -BootN .. BootN - 1 /\ k - p # -BootN /\ p \in Int
  <2> HIDE DEF p
  <2> QED BY <1>1, <1>2, <1>3
<1> QED BY <1>5, <1>6, <1>7

\* A coefficient of the source, moved to where it belongs
LEMMA MovedFollows ==
  ASSUME NEW t \in Nat, NEW Q \in Nat, NEW a \in BootPolynomials, NEW m \in Int, NEW b \in Nat,
         NEW j \in Powers, NEW k \in BootPowers,
         \A i \in BootPowers : Drifts(t * a[i], Q * (IF i = 0 THEN m ELSE 0), b, t * Q)
  PROVE  /\ ShiftBy(BootN, a, j * Ratio)[k] \in Int
         /\ Drifts(t * ShiftBy(BootN, a, j * Ratio)[k],
                   Q * (IF k % Ratio = 0 /\ k \div Ratio = j THEN m ELSE 0), b, t * Q)
<1> DEFINE d == k - j * Ratio
           x == ShiftBy(BootN, a, j * Ratio)[k]
           M == t * Q
<1>1. /\ j * Ratio \in Int /\ d \in Int /\ d \in -BootN .. BootN - 1 /\ d # -BootN
      /\ d = 0 <=> (k % Ratio = 0 /\ k \div Ratio = j)
  BY PlaceIs
<1>2. /\ BootN \in Nat /\ BootN > 0 /\ BootPowers = 0 .. BootN - 1 /\ a \in [0 .. BootN - 1 -> Int]
      /\ M \in Int
  BY BootIs, BootPowersAre DEF BootPolynomials
<1>3. x = Circled(BootN, a, d)
  BY <1>1, <1>2, ShiftIs
<1> HIDE DEF d, x
<1>4. CASE d >= 0
  <2>1. d \in BootPowers /\ d \in 0 .. BootN - 1
    BY <1>1, <1>2, <1>4
  <2>2. x = a[d] /\ a[d] \in Int
    BY <1>2, <1>3, <2>1, CircledIs
  <2>3. Drifts(t * a[d], Q * (IF d = 0 THEN m ELSE 0), b, t * Q)
    BY <2>1
  <2> QED BY <1>1, <2>2, <2>3 DEF x
<1>5. CASE d < 0
  <2> DEFINE i == d + BootN
  <2>1. i \in BootPowers /\ d \in -BootN .. -1 /\ i # 0 /\ i \in 0 .. BootN - 1 /\ d # 0
    BY <1>1, <1>2, <1>5
  <2>2. x = -a[i] /\ a[i] \in Int
    BY <1>2, <1>3, <2>1, CircledIs
  <2> HIDE DEF i
  <2> DEFINE y == a[i]
             v == t * y
             z == Q * 0
  <2>3. Drifts(v, z, b, M) /\ v \in Int /\ z = 0 /\ b \in Int
    <3>1. Drifts(t * a[i], Q * (IF i = 0 THEN m ELSE 0), b, t * Q)
      BY <2>1
    <3>2. (IF i = 0 THEN m ELSE 0) = 0
      BY <2>1
    <3>3. v \in Int /\ z = 0
      BY <2>2
    <3> QED BY <3>1, <3>2, <3>3
  <2>4. t * (-y) = -v
    <3>1. y \in Int
      BY <2>2
    <3> HIDE DEF y
    <3>2. t * (-y) = -(t * y)
      BY <3>1
    <3> QED BY <3>2
  <2> HIDE DEF v, z, M
  <2>5. Drifts(-v, -z, b, M) /\ -z = z
    <3>1. z \in Int /\ v \in Int /\ b \in Int /\ Drifts(v, z, b, M)
      BY <2>3
    <3>2. Drifts(-v, -z, b, M)
      BY <1>2, <3>1, DriftsNegative
    <3>3. z \in Int /\ z <= 0 /\ z >= 0
      BY <2>3
    <3>4. -z = z
      BY <3>3
    <3> QED BY <3>2, <3>4
  <2>6. Drifts(t * x, Q * 0, b, t * Q)
    <3>1. Drifts(-v, z, b, M)
      BY <2>5
    <3>2. t * x = -v
      BY <2>2, <2>4
    <3> QED BY <3>1, <3>2 DEF z, M
  <2>7. x \in Int
    <3>1. y \in Int
      BY <2>2
    <3> HIDE DEF y
    <3>2. -y \in Int
      BY <3>1
    <3> QED BY <2>2, <3>2 DEF y
  <2>8. ~ (k % Ratio = 0 /\ k \div Ratio = j)
    BY <1>1, <2>1
  <2> QED BY <2>6, <2>7, <2>8 DEF x
<1> QED BY <1>1, <1>4, <1>5

\* All coefficients, side by side
LEMMA AssembledIs ==
  ASSUME NEW part
  PROVE  Assembled(part)
           = [phase |-> [k \in BootPowers |->
                          Total([j \in Powers |-> [i \in Powers |-> ShiftBy(BootN, part[i].phase, i * Ratio)][j][k]])],
              bound |-> Total([j \in Powers |-> part[j].bound])]
BY Zenon DEF Assembled, SumOver, Total

\* It is a ciphertext of the boot ring, coefficient by coefficient a total.
LEMMA AssembledTyped ==
  ASSUME NEW part, ArePhases(part)
  PROVE  /\ Assembled(part).phase \in BootPolynomials /\ Assembled(part).bound \in Nat
         /\ Assembled(part).bound = Total([j \in Powers |-> part[j].bound])
         /\ \A k \in BootPowers :
              /\ [j \in Powers |-> ShiftBy(BootN, part[j].phase, j * Ratio)[k]] \in [Powers -> Int]
              /\ Assembled(part).phase[k]
                   = Total([j \in Powers |-> ShiftBy(BootN, part[j].phase, j * Ratio)[k]])
<1>1. IsFiniteSet(Powers)
  BY PowersAre
<1>2. ASSUME NEW k \in BootPowers, NEW j \in Powers
      PROVE  ShiftBy(BootN, part[j].phase, j * Ratio)[k] \in Int
  <2>1. /\ BootN \in Nat /\ BootN > 0 /\ BootPowers = 0 .. BootN - 1
        /\ part[j].phase \in [0 .. BootN - 1 -> Int]
    BY BootIs, BootPowersAre DEF ArePhases, BootPolynomials
  <2>2. j * Ratio \in Int
    BY PlaceIs
  <2>3. ShiftBy(BootN, part[j].phase, j * Ratio) \in [0 .. BootN - 1 -> Int]
    BY <2>1, <2>2, ShiftIs
  <2> QED BY <2>1, <2>3
<1> DEFINE f(k) == [j \in Powers |-> ShiftBy(BootN, part[j].phase, j * Ratio)[k]]
           b == [j \in Powers |-> part[j].bound]
<1>3. \A k \in BootPowers : f(k) \in [Powers -> Int]
  BY <1>2
<1>4. \A k \in BootPowers : Total(f(k)) \in Int
  <2> HIDE DEF f
  <2> QED BY <1>1, <1>3, TotalIsInt
<1>5. b \in [Powers -> Nat]
  BY DEF ArePhases
<1>6. Total(b) \in Nat
  <2> HIDE DEF b
  <2> QED BY <1>1, <1>5, TotalIsNat
<1>7. \A k \in BootPowers :
        [j \in Powers |-> [i \in Powers |-> ShiftBy(BootN, part[i].phase, i * Ratio)][j][k]] = f(k)
  OBVIOUS
<1>8. Assembled(part).phase = [k \in BootPowers |-> Total(f(k))] /\ Assembled(part).bound = Total(b)
  <2>1. Assembled(part).phase
          = [k \in BootPowers |->
               Total([j \in Powers |-> [i \in Powers |-> ShiftBy(BootN, part[i].phase, i * Ratio)][j][k]])]
    BY AssembledIs
  <2>2. Assembled(part).bound = Total(b)
    BY AssembledIs
  <2> QED BY <1>7, <2>1, <2>2
<1> HIDE DEF b
<1>9. Assembled(part).phase \in BootPolynomials
  BY <1>4, <1>8 DEF BootPolynomials
<1>10. \A k \in BootPowers : Assembled(part).phase[k] = Total(f(k))
  <2> HIDE DEF f
  <2> QED BY <1>8
<1> QED BY <1>3, <1>6, <1>8, <1>9, <1>10 DEF b

\* Side by side, the coefficients make the embedded message, and their
\* errors add up to the bound.
LEMMA AssembledFollows ==
  ASSUME NEW part, ArePhases(part), NEW t \in Nat, NEW Q \in Nat, NEW m \in [Powers -> Int],
         \A j \in Powers : \A k \in BootPowers :
           Drifts(t * part[j].phase[k], Q * (IF k = 0 THEN m[j] ELSE 0), part[j].bound, t * Q),
         NEW k \in BootPowers
  PROVE  /\ k % Ratio = 0 => k \div Ratio \in Powers
         /\ Drifts(t * Assembled(part).phase[k],
                   Q * (IF k % Ratio = 0 THEN m[k \div Ratio] ELSE 0), Assembled(part).bound, t * Q)
<1> DEFINE at(j) == ShiftBy(BootN, part[j].phase, j * Ratio)[k]
           here(j) == k % Ratio = 0 /\ k \div Ratio = j
           f == [j \in Powers |-> at(j)]
           tf == [j \in Powers |-> t * f[j]]
           g == [j \in Powers |-> Q * (IF here(j) THEN m[j] ELSE 0)]
           b == [j \in Powers |-> part[j].bound]
           M == t * Q
<1>1. IsFiniteSet(Powers) /\ t \in Int /\ M \in Int /\ 0 \in Powers /\ Q \in Int
  BY PowersAre
<1>2. f \in [Powers -> Int] /\ Assembled(part).phase[k] = Total(f) /\ Assembled(part).bound = Total(b)
  BY AssembledTyped
<1>3. b \in [Powers -> Nat]
  BY DEF ArePhases
<1>4. ASSUME NEW j \in Powers PROVE Drifts(tf[j], g[j], b[j], M)
  <2> DEFINE a == part[j].phase
             z == part[j].bound
             y == m[j]
  <2>1. /\ a \in BootPolynomials /\ z \in Nat /\ y \in Int
        /\ \A i \in BootPowers : Drifts(t * a[i], Q * (IF i = 0 THEN y ELSE 0), z, t * Q)
    BY DEF ArePhases
  <2>2. Drifts(t * ShiftBy(BootN, a, j * Ratio)[k],
               Q * (IF k % Ratio = 0 /\ k \div Ratio = j THEN y ELSE 0), z, t * Q)
    <3> HIDE DEF a, z, y
    <3> QED BY <2>1, MovedFollows
  <2> QED BY <2>2
<1> HIDE DEF at, here
<1>5. tf \in [Powers -> Int] /\ Total(tf) = t * Total(f)
  <2>1. \A j \in Powers : f[j] \in Int
    BY <1>2
  <2> HIDE DEF f
  <2>2. \A j \in Powers : t * f[j] \in Int
    BY <1>1, <2>1
  <2>3. tf \in [Powers -> Int]
    BY <2>2
  <2>4. Total(tf) = t * Total(f)
    BY <1>1, <1>2, TotalOfMultiples
  <2> QED BY <2>3, <2>4
<1>6. g \in [Powers -> Int]
  <2>1. ASSUME NEW j \in Powers PROVE Q * (IF here(j) THEN m[j] ELSE 0) \in Int
    <3> DEFINE y == IF here(j) THEN m[j] ELSE 0
    <3>1. y \in Int
      OBVIOUS
    <3> HIDE DEF y
    <3>2. Q * y \in Int
      BY <3>1
    <3> QED BY <3>2 DEF y
  <2> QED BY <2>1
<1>7. b \in [Powers -> Int]
  BY <1>3
<1> HIDE DEF f, tf, g, b, M
<1>8. Drifts(Total(tf), Total(g), Total(b), M)
  BY <1>1, <1>4, <1>5, <1>6, <1>7, DriftsTotal
<1>9. k % Ratio = 0 => k \div Ratio \in Powers
  BY <1>1, PlaceIs
<1>10. Total(g) = Q * (IF k % Ratio = 0 THEN m[k \div Ratio] ELSE 0)
  <2>1. CASE k % Ratio = 0
    <3> DEFINE z == k \div Ratio
    <3>1. z \in Powers
      BY <1>9, <2>1
    <3>2. \A j \in Powers : j # z => g[j] = Q * 0
      BY <2>1 DEF g, here
    <3>3. Q * 0 = 0
      OBVIOUS
    <3>4. g[z] = Q * m[z]
      BY <2>1, <3>1 DEF g, here
    <3> HIDE DEF z
    <3>5. Total(g) = g[z]
      BY <1>1, <1>6, <3>1, <3>2, <3>3, TotalOfOne
    <3> QED BY <2>1, <3>4, <3>5 DEF z
  <2>2. CASE k % Ratio # 0
    <3>1. \A j \in Powers : g[j] = Q * 0
      BY <2>2 DEF g, here
    <3>2. Q * 0 = 0
      OBVIOUS
    <3>3. Total(g) = 0
      BY <1>1, <1>6, <3>1, <3>2, TotalOfZeros
    <3> QED BY <2>2, <3>2, <3>3
  <2> QED BY <2>1, <2>2
<1> QED BY <1>2, <1>5, <1>8, <1>9, <1>10 DEF M

-----------------------------------------------------------------------------
(* The products of both rings.                                              *)

\* The products of the two rings
LEMMA TimesIs ==
  ASSUME NEW n \in Nat, NEW a \in [0 .. n - 1 -> Int], NEW b \in [0 .. n - 1 -> Int]
  PROVE  /\ Times(n, a, b) \in [0 .. n - 1 -> Int]
         /\ \A k \in 0 .. n - 1 :
              LET f == [i \in 0 .. n - 1 |-> IF i <= k THEN a[i] * b[k - i] ELSE (-(a[i] * b[n + k - i]))]
              IN  f \in [0 .. n - 1 -> Int] /\ Times(n, a, b)[k] = Total(f)
<1> DEFINE f(k) == [i \in 0 .. n - 1 |-> IF i <= k THEN a[i] * b[k - i] ELSE (-(a[i] * b[n + k - i]))]
<1>1. IsFiniteSet(0 .. n - 1)
  <2>1. 0 \in Int /\ n - 1 \in Int
    OBVIOUS
  <2> QED BY <2>1, FS_Interval
<1>2. ASSUME NEW k \in 0 .. n - 1 PROVE f(k) \in [0 .. n - 1 -> Int]
  <2>1. ASSUME NEW i \in 0 .. n - 1
        PROVE  (IF i <= k THEN a[i] * b[k - i] ELSE (-(a[i] * b[n + k - i]))) \in Int
    <3>1. CASE i <= k
      <4>1. a[i] \in Int /\ k - i \in 0 .. n - 1
        BY <3>1
      <4>2. a[i] \in Int /\ b[k - i] \in Int
        BY <4>1
      <4> DEFINE x == a[i]
                 y == b[k - i]
      <4>3. x \in Int /\ y \in Int
        BY <4>2
      <4> HIDE DEF x, y
      <4>4. x * y \in Int
        BY <4>3
      <4> QED BY <3>1, <4>4 DEF x, y
    <3>2. CASE ~ (i <= k)
      <4>1. a[i] \in Int /\ n + k - i \in 0 .. n - 1
        BY <3>2
      <4>2. a[i] \in Int /\ b[n + k - i] \in Int
        BY <4>1
      <4> DEFINE x == a[i]
                 y == b[n + k - i]
      <4>3. x \in Int /\ y \in Int
        BY <4>2
      <4> HIDE DEF x, y
      <4>4. -(x * y) \in Int
        BY <4>3
      <4> QED BY <3>2, <4>4 DEF x, y
    <3> QED BY <3>1, <3>2
  <2> QED BY <2>1
<1>3. \A k \in 0 .. n - 1 : Total(f(k)) \in Int
  <2> HIDE DEF f
  <2> QED BY <1>1, <1>2, TotalIsInt
<1>4. Times(n, a, b) = [k \in 0 .. n - 1 |-> Total(f(k))]
  BY Zenon DEF Times, SumOver, Total
<1> HIDE DEF f
<1>5. \A k \in 0 .. n - 1 : Times(n, a, b)[k] = Total(f(k))
  BY <1>4
<1>6. Times(n, a, b) \in [0 .. n - 1 -> Int]
  BY <1>3, <1>4
<1> QED BY <1>2, <1>5, <1>6 DEF f

\* In the work ring, it is the product of the other modules.
LEMMA TimesIsNegacyclic ==
  ASSUME NEW a \in Polynomials, NEW b \in Polynomials
  PROVE  Times(N, a, b) = Negacyclic(a, b)
<1>1. N \in Nat /\ Powers = 0 .. N - 1
  BY DegreeIs DEF Powers
<1>2. a \in [0 .. N - 1 -> Int] /\ b \in [0 .. N - 1 -> Int]
  BY <1>1 DEF Polynomials
<1>3. /\ Times(N, a, b) \in Polynomials /\ Negacyclic(a, b) \in Polynomials
  BY <1>1, <1>2, TimesIs, NegacyclicIs DEF Polynomials
<1>4. ASSUME NEW k \in Powers PROVE Times(N, a, b)[k] = Negacyclic(a, b)[k]
  <2> DEFINE f == [i \in 0 .. N - 1 |-> IF i <= k THEN a[i] * b[k - i] ELSE (-(a[i] * b[N + k - i]))]
  <2>1. Times(N, a, b)[k] = Total(f)
    BY <1>1, <1>2, TimesIs
  <2>2. Negacyclic(a, b)[k] = Total(NegacyclicTerms(a, b, k))
    BY NegacyclicIs
  <2>3. f = NegacyclicTerms(a, b, k)
    BY <1>1 DEF NegacyclicTerms
  <2> QED BY <2>1, <2>2, <2>3
<1> QED BY <1>3, <1>4, SamePolynomial

\* What is encrypted is what the phase is.
LEMMA PhaseOfMade ==
  ASSUME NEW n \in Nat, NEW q \in Nat, q > 0, NEW phase \in [0 .. n - 1 -> Int],
         NEW mask \in [0 .. n - 1 -> Int], NEW s \in [0 .. n - 1 -> Int],
         NEW ct, ct = WithPhase(n, q, phase, mask, s)
  PROVE  /\ ct[1] \in [0 .. n - 1 -> Int] /\ ct[2] \in [0 .. n - 1 -> Int]
         /\ \A k \in 0 .. n - 1 : /\ Same(ct[1][k] + Times(n, ct[2], s)[k], phase[k], q)
                                  /\ PhaseIn(n, q, ct, s)[k] = phase[k] % q
                                  /\ PhaseIn(n, q, ct, s)[k] = (ct[1][k] + Times(n, ct[2], s)[k]) % q
<1> DEFINE a == [k \in 0 .. n - 1 |-> mask[k] % q]
           product == Times(n, a, s)
           b == [k \in 0 .. n - 1 |-> (phase[k] - product[k]) % q]
<1>1. ASSUME NEW k \in 0 .. n - 1 PROVE mask[k] % q \in Int
  <2>1. mask[k] \in Int
    OBVIOUS
  <2>2. mask[k] % q \in 0 .. q - 1
    BY <2>1, Division
  <2> QED BY <2>2
<1>2. a \in [0 .. n - 1 -> Int]
  BY <1>1
<1>3. ct = <<b, a>>
  BY Zenon DEF WithPhase
<1>4. ct[1] = b /\ ct[2] = a
  <2> HIDE DEF a, b
  <2> QED BY <1>3
<1> HIDE DEF a
<1>5. product \in [0 .. n - 1 -> Int]
  BY <1>2, TimesIs
<1> HIDE DEF product
<1>6. ASSUME NEW k \in 0 .. n - 1
      PROVE  /\ (phase[k] - product[k]) % q \in Int
             /\ Same(((phase[k] - product[k]) % q) + product[k], phase[k], q)
  <2> DEFINE x == phase[k]
             y == product[k]
             z == x - y
             w == z % q
  <2>1. x \in Int /\ y \in Int /\ z \in Int /\ x = z + y
    BY <1>5
  <2> HIDE DEF x, y, z
  <2>2. w \in Int /\ Same(w, z, q)
    <3>1. w \in 0 .. q - 1 /\ Same(w, z, q)
      BY <2>1, ResidueIsSame
    <3> QED BY <3>1
  <2> HIDE DEF w
  <2>3. Same(w + y, z + y, q)
    <3>1. q \in Int
      OBVIOUS
    <3>2. Same(y, y, q)
      BY <2>1, <3>1, SameReflexive
    <3> QED BY <2>1, <2>2, <3>1, <3>2, SameSum
  <2> QED BY <2>1, <2>2, <2>3 DEF w, x, y, z
<1>7. b \in [0 .. n - 1 -> Int]
  BY <1>6
<1>8. ASSUME NEW k \in 0 .. n - 1
      PROVE  /\ Same(ct[1][k] + Times(n, ct[2], s)[k], phase[k], q)
             /\ PhaseIn(n, q, ct, s)[k] = phase[k] % q
             /\ PhaseIn(n, q, ct, s)[k] = (ct[1][k] + Times(n, ct[2], s)[k]) % q
  <2>1. PhaseIn(n, q, ct, s)[k] = (ct[1][k] + Times(n, ct[2], s)[k]) % q
    BY DEF PhaseIn
  <2>2. ct[1][k] = (phase[k] - product[k]) % q /\ Times(n, ct[2], s)[k] = product[k]
    BY <1>4 DEF product
  <2> DEFINE x == ct[1][k]
             y == product[k]
  <2>3. Same(x + y, phase[k], q) /\ x \in Int /\ y \in Int /\ phase[k] \in Int
    BY <1>5, <1>6, <2>2
  <2> HIDE DEF x, y
  <2>4. (x + y) % q = phase[k] % q
    <3> DEFINE z == x + y
               v == phase[k]
    <3>1. z \in Int /\ v \in Int /\ Same(z, v, q)
      BY <2>3
    <3> HIDE DEF z, v
    <3>2. z % q = v % q
      BY <3>1, SameResidue
    <3> QED BY <3>2 DEF z, v
  <2> QED BY <2>1, <2>2, <2>3, <2>4 DEF x, y
<1> QED BY <1>2, <1>4, <1>7, <1>8

-----------------------------------------------------------------------------
(* The return: classes of coefficients.                                     *)

\* What circles in the work ring turns.
LEMMA TurningIsCircled ==
  ASSUME NEW b \in Polynomials, NEW i \in -N .. N - 1
  PROVE  Turning(b, i) = Circled(N, b, i) /\ Circled(N, b, i) \in Int
<1>1. N \in Nat /\ N > 0 /\ b \in [0 .. N - 1 -> Int] /\ i \in Int
  BY DegreeIs DEF Polynomials, Powers
<1>2. Circled(N, b, i) \in Int
  BY <1>1, CircledIs
<1>3. CASE i >= 0
  <2>1. i \in 0 .. N - 1
    BY <1>1, <1>3
  <2>2. Circled(N, b, i) = b[i]
    BY <1>1, <2>1, CircledIs
  <2> QED BY <1>2, <1>3, <2>2 DEF Turning
<1>4. CASE ~ (i >= 0)
  <2>1. i \in -N .. -1
    BY <1>1, <1>4
  <2>2. Circled(N, b, i) = -b[i + N]
    BY <1>1, <2>1, CircledIs
  <2>3. i >= -N
    BY <1>1, <2>1
  <2> QED BY <1>2, <1>4, <2>2, <2>3 DEF Turning
<1> QED BY <1>3, <1>4

\* A product, and one whose first factor is turned by a step
LEMMA TimesCircles ==
  ASSUME NEW a \in Polynomials, NEW b \in Polynomials, NEW k \in Powers
  PROVE  /\ Times(N, a, b)[k] = Total([i \in Powers |-> a[i] * Circled(N, b, k - i)])
         /\ Times(N, ShiftBy(N, a, 1), b)[k]
              = Total([i \in Powers |-> a[i] * Circled(N, b, (k - 1) - i)])
<1>1. N \in Nat /\ N >= 2 /\ Powers = 0 .. N - 1 /\ 1 \in Powers
  BY DegreeIs DEF Powers
<1>2. a \in [0 .. N - 1 -> Int] /\ b \in [0 .. N - 1 -> Int] /\ k \in Int
  BY <1>1 DEF Polynomials
<1>3. Times(N, a, b)[k] = Total([i \in Powers |-> a[i] * Circled(N, b, k - i)])
  <2>1. Times(N, a, b)[k] = Total(ProductTerms(a, b, k))
    BY TimesIsNegacyclic, ProductTermsAre
  <2>2. \A i \in Powers : k - i \in -N .. N - 1
    BY <1>1
  <2>3. \A i \in Powers : Turning(b, k - i) = Circled(N, b, k - i)
    BY <2>2, TurningIsCircled
  <2>4. ProductTerms(a, b, k) = [i \in Powers |-> a[i] * Circled(N, b, k - i)]
    BY <2>3 DEF ProductTerms
  <2> QED BY <2>1, <2>4
<1> DEFINE c == ShiftBy(N, a, 1)
<1>4. c \in Polynomials /\ \A i \in Powers : c[i] = Circled(N, a, i - 1)
  <2>1. 1 \in Int /\ N > 0
    BY <1>1
  <2>2. c \in [0 .. N - 1 -> Int] /\ \A i \in 0 .. N - 1 : c[i] = Circled(N, a, i - 1)
    BY <1>1, <1>2, <2>1, ShiftIs
  <2> QED BY <1>1, <2>2 DEF Polynomials
<1>5. \A i \in Int : Circled(N, c, i) = Circled(N, a, i - 1)
  <2>1. 1 \in Int /\ N > 0
    BY <1>1
  <2> QED BY <1>1, <1>2, <2>1, CircledOfShift
<1> HIDE DEF c
<1>6. Times(N, c, b)[k] = Total(ProductTerms(b, c, k))
  <2>1. Times(N, c, b) = Negacyclic(b, c)
    BY <1>4, TimesIsNegacyclic, NegacyclicCommutes
  <2> QED BY <1>4, <2>1, ProductTermsAre
<1>7. Total(ProductTerms(b, c, k)) = Total([j \in Powers |-> b[j] * Turning(a, k - 1 - j)])
  <2>1. ASSUME NEW j \in Powers PROVE Turning(c, k - j) = Turning(a, k - 1 - j)
    <3>1. k - j \in -N .. N - 1 /\ k - 1 - j \in -N .. N - 1 /\ k - j \in Int
          /\ (k - j) - 1 = k - 1 - j
      BY <1>1
    <3>2. Turning(c, k - j) = Circled(N, c, k - j)
      BY <1>4, <3>1, TurningIsCircled
    <3>3. Turning(a, k - 1 - j) = Circled(N, a, k - 1 - j)
      BY <3>1, TurningIsCircled
    <3> QED BY <1>5, <3>1, <3>2, <3>3
  <2>2. ProductTerms(b, c, k) = [j \in Powers |-> b[j] * Turning(a, k - 1 - j)]
    BY <2>1 DEF ProductTerms
  <2> QED BY <2>2
<1>8. /\ Turning(Negacyclic(b, a), k - 1) = Total([j \in Powers |-> b[j] * Turning(a, k - 1 - j)])
      /\ Turning(Negacyclic(a, b), k - 1) = Total([j \in Powers |-> a[j] * Turning(b, k - 1 - j)])
  <2> DEFINE o == 1
  <2>1. o \in Powers
    BY <1>1
  <2> HIDE DEF o
  <2>2. Turning(Negacyclic(b, a), k - o) = Total([j \in Powers |-> b[j] * Turning(a, k - o - j)])
    BY <2>1, TurningOfProduct
  <2>3. Turning(Negacyclic(a, b), k - o) = Total([j \in Powers |-> a[j] * Turning(b, k - o - j)])
    BY <2>1, TurningOfProduct
  <2> QED BY <2>2, <2>3 DEF o
<1>9. [j \in Powers |-> a[j] * Turning(b, k - 1 - j)]
        = [i \in Powers |-> a[i] * Circled(N, b, (k - 1) - i)]
  <2>1. \A i \in Powers : (k - 1) - i \in -N .. N - 1
    BY <1>1
  <2>2. \A i \in Powers : Turning(b, k - 1 - i) = Circled(N, b, (k - 1) - i)
    BY <2>1, TurningIsCircled
  <2> QED BY <2>2
<1>10. Times(N, c, b)[k] = Total([i \in Powers |-> a[i] * Circled(N, b, (k - 1) - i)])
  BY <1>6, <1>7, <1>8, <1>9, NegacyclicCommutes
<1> QED BY <1>3, <1>10 DEF c

\* Blocks circle as the whole does.
LEMMA CircledOfBlock ==
  ASSUME NEW s \in BootPolynomials, NEW o \in 0 .. Ratio - 1
  PROVE  /\ Block(s, o) \in Polynomials
         /\ \A z \in -N .. N - 1 : /\ Ratio * z + o \in Int
                                   /\ Circled(BootN, s, Ratio * z + o) = Circled(N, Block(s, o), z)
<1>1. N \in Nat /\ N > 0 /\ Powers = 0 .. N - 1
  BY DegreeIs DEF Powers
<1>2. BootN \in Nat /\ BootN > 0 /\ Ratio \in Nat /\ Ratio >= 1 /\ BootN = Ratio * N
  BY BootIs
<1>3. s \in [0 .. BootN - 1 -> Int] /\ BootPowers = 0 .. BootN - 1
  BY DEF BootPolynomials, BootPowers
<1>4. ASSUME NEW z \in Powers PROVE Ratio * z + o \in 0 .. BootN - 1 /\ Ratio * z = z * Ratio
  <2> DEFINE x == Ratio * z
             y == Ratio * N
  <2>1. x \in Int /\ x >= 0 /\ y \in Int /\ x + Ratio <= y /\ x = z * Ratio
    <3>1. z + 1 <= N /\ z \in Nat
      BY <1>1
    <3>2. Ratio * (z + 1) <= Ratio * N
      BY <1>1, <1>2, <3>1
    <3>3. Ratio * (z + 1) = Ratio * z + Ratio /\ Ratio * z >= 0
      BY <1>2, <3>1
    <3> QED BY <1>1, <1>2, <3>1, <3>2, <3>3
  <2>2. y = BootN
    BY <1>2
  <2> HIDE DEF x, y
  <2>3. x + o \in 0 .. BootN - 1
    BY <1>2, <2>1, <2>2
  <2> QED BY <2>1, <2>3 DEF x
<1>5. Block(s, o) \in Polynomials /\ \A z \in Powers : Block(s, o)[z] = s[Ratio * z + o]
  <2>1. \A z \in Powers : s[z * Ratio + o] \in Int /\ s[z * Ratio + o] = s[Ratio * z + o]
    BY <1>3, <1>4
  <2> QED BY <2>1 DEF Block, Polynomials
<1>6. ASSUME NEW z \in -N .. N - 1
      PROVE  /\ Ratio * z + o \in Int
             /\ Circled(BootN, s, Ratio * z + o) = Circled(N, Block(s, o), z)
  <2>1. Block(s, o) \in [0 .. N - 1 -> Int]
    BY <1>1, <1>5 DEF Polynomials
  <2>2. CASE z >= 0
    <3>1. z \in Powers /\ z \in 0 .. N - 1
      BY <1>1, <2>2
    <3>2. Circled(N, Block(s, o), z) = Block(s, o)[z]
      BY <1>1, <2>1, <3>1, CircledIs
    <3>3. Ratio * z + o \in 0 .. BootN - 1
      BY <1>4, <3>1
    <3>4. Circled(BootN, s, Ratio * z + o) = s[Ratio * z + o]
      BY <1>2, <1>3, <3>3, CircledIs
    <3> QED BY <1>5, <3>1, <3>2, <3>3, <3>4
  <2>3. CASE ~ (z >= 0)
    <3>1. z \in -N .. -1 /\ z + N \in Powers
      BY <1>1, <2>3
    <3>2. Circled(N, Block(s, o), z) = -Block(s, o)[z + N]
      BY <1>1, <2>1, <3>1, CircledIs
    <3>3. Ratio * (z + N) + o \in 0 .. BootN - 1
      BY <1>4, <3>1
    <3>4. Ratio * z + o \in Int /\ Ratio * (z + N) + o = (Ratio * z + o) + BootN
      <4>1. z \in Int
        OBVIOUS
      <4>2. Ratio * (z + N) = Ratio * z + Ratio * N /\ Ratio * z \in Int
        BY <1>1, <1>2, <4>1
      <4> DEFINE x == Ratio * z
                 y == Ratio * N
                 w == Ratio * (z + N)
      <4>3. x \in Int /\ y = BootN /\ w = x + y /\ o \in Int
        BY <1>2, <4>2
      <4> HIDE DEF x, y, w
      <4>4. x + o \in Int /\ w + o = (x + o) + BootN
        BY <1>2, <4>3
      <4> QED BY <4>4 DEF x, w
    <3> DEFINE i == Ratio * z + o
    <3>5. i \in Int /\ i + BootN \in 0 .. BootN - 1
      BY <3>3, <3>4
    <3> HIDE DEF i
    <3>6. i \in -BootN .. -1
      BY <1>2, <3>5
    <3>7. Circled(BootN, s, i) = -s[i + BootN]
      BY <1>2, <1>3, <3>6, CircledIs
    <3>8. Block(s, o)[z + N] = s[i + BootN]
      BY <1>5, <3>1, <3>4 DEF i
    <3> QED BY <3>2, <3>4, <3>7, <3>8 DEF i
  <2> QED BY <2>2, <2>3
<1> QED BY <1>5, <1>6

\* The class of the secret that a class of c1 meets
Met(r) == IF r = 0 THEN 0 ELSE Ratio - r

\* One class of the product
LEMMA ClassMeets ==
  ASSUME NEW a \in BootPolynomials, NEW s \in BootPolynomials, NEW r \in 0 .. Ratio - 1,
         NEW k \in Powers
  PROVE  /\ Met(r) \in 0 .. Ratio - 1
         /\ \A w \in Powers :
              /\ w * Ratio + r \in 0 .. BootN - 1 /\ (w * Ratio + r) % Ratio = r
              /\ Block(a, r)[w] = a[w * Ratio + r]
              /\ k * Ratio - (w * Ratio + r) \in Int
              /\ Circled(BootN, s, k * Ratio - (w * Ratio + r))
                   = Circled(N, Block(s, Met(r)), IF r = 0 THEN k - w ELSE (k - 1) - w)
<1>1. N \in Nat /\ N >= 2 /\ Powers = 0 .. N - 1
  BY DegreeIs DEF Powers
<1>2. BootN \in Nat /\ BootN > 0 /\ Ratio \in Nat /\ Ratio >= 1 /\ BootN = Ratio * N
  BY BootIs
<1>3. Met(r) \in 0 .. Ratio - 1
  BY <1>2 DEF Met
<1>4. ASSUME NEW w \in Powers
      PROVE  /\ w * Ratio + r \in 0 .. BootN - 1 /\ (w * Ratio + r) % Ratio = r
             /\ Block(a, r)[w] = a[w * Ratio + r]
             /\ k * Ratio - (w * Ratio + r) \in Int
             /\ Circled(BootN, s, k * Ratio - (w * Ratio + r))
                  = Circled(N, Block(s, Met(r)), IF r = 0 THEN k - w ELSE (k - 1) - w)
  <2> DEFINE x == w * Ratio
             y == Ratio * N
             v == k * Ratio
             z == IF r = 0 THEN k - w ELSE (k - 1) - w
  <2>1. x \in Int /\ x >= 0 /\ y \in Int /\ x + Ratio <= y /\ x = Ratio * w /\ v \in Int
    <3>1. w + 1 <= N /\ w \in Nat /\ k \in Nat
      BY <1>1
    <3>2. Ratio * (w + 1) <= Ratio * N
      BY <1>1, <1>2, <3>1
    <3>3. Ratio * (w + 1) = Ratio * w + Ratio /\ Ratio * w >= 0
      BY <1>2, <3>1
    <3> QED BY <1>1, <1>2, <3>1, <3>2, <3>3
  <2>2. y = BootN
    BY <1>2
  <2>3. (x + r) % Ratio = r
    <3>1. w \in Int /\ r \in 0 .. Ratio - 1 /\ Ratio > 0
      BY <1>1, <1>2
    <3>2. (Ratio * w + r) % Ratio = r
      BY <1>2, <3>1, QuotientIs
    <3> QED BY <2>1, <3>2
  <2>4. z \in -N .. N - 1
    BY <1>1
  <2>5. v - (x + r) = Ratio * z + Met(r)
    <3>1. k \in Int /\ w \in Int
      BY <1>1
    <3>2. CASE r = 0
      <4>1. Ratio * (k - w) = k * Ratio - w * Ratio
        BY <1>2, <3>1
      <4>2. Met(r) = 0 /\ z = k - w
        BY <3>2 DEF Met
      <4> DEFINE u == Ratio * (k - w)
      <4>3. u = v - x
        BY <4>1
      <4>4. Ratio * z = u
        BY <4>2
      <4> HIDE DEF u, v, x, z
      <4> QED BY <2>1, <3>2, <4>2, <4>3, <4>4
    <3>3. CASE r # 0
      <4>1. Ratio * ((k - 1) - w) = k * Ratio - Ratio - w * Ratio
        BY <1>2, <3>1
      <4>2. Met(r) = Ratio - r /\ z = (k - 1) - w
        BY <3>3 DEF Met
      <4> DEFINE u == Ratio * ((k - 1) - w)
      <4>3. u = v - Ratio - x
        BY <4>1
      <4>4. Ratio * z = u
        BY <4>2
      <4> HIDE DEF u, v, x, z
      <4> QED BY <1>2, <2>1, <3>3, <4>2, <4>3, <4>4
    <3> QED BY <3>2, <3>3
  <2>6. Circled(BootN, s, Ratio * z + Met(r)) = Circled(N, Block(s, Met(r)), z)
    <3> HIDE DEF z
    <3> QED BY <1>3, <2>4, CircledOfBlock
  <2>7. Block(a, r)[w] = a[x + r]
    BY DEF Block
  <2>8. x + r \in 0 .. BootN - 1 /\ v - (x + r) \in Int
    <3> HIDE DEF x, y, v
    <3> QED BY <1>2, <2>1, <2>2
  <2>9. Circled(BootN, s, v - (x + r)) = Circled(N, Block(s, Met(r)), z)
    <3> HIDE DEF x, v, z
    <3> QED BY <2>5, <2>6
  <2> QED BY <2>3, <2>7, <2>8, <2>9
<1> QED BY <1>3, <1>4

\* A class meets its class as the products of the code say.
LEMMA ClassIsProduct ==
  ASSUME NEW a \in BootPolynomials, NEW s \in BootPolynomials, NEW r \in 0 .. Ratio - 1,
         NEW k \in Powers
  PROVE  /\ Times(N, Component(a, r), Block(s, Met(r)))[k] \in Int
         /\ Times(N, Component(a, r), Block(s, Met(r)))[k]
              = Total([w \in Powers |-> a[w * Ratio + r]
                                          * Circled(BootN, s, k * Ratio - (w * Ratio + r))])
<1>1. Met(r) \in 0 .. Ratio - 1
  BY ClassMeets
<1>2. Block(a, r) \in Polynomials /\ Block(s, Met(r)) \in Polynomials
  BY <1>1, CircledOfBlock
<1>3. CASE r = 0
  <2>1. Component(a, r) = Block(a, r)
    BY <1>3 DEF Component
  <2>2. Times(N, Block(a, r), Block(s, Met(r)))[k]
          = Total([w \in Powers |-> Block(a, r)[w] * Circled(N, Block(s, Met(r)), k - w)])
    BY <1>2, TimesCircles
  <2>3. \A w \in Powers : /\ Block(a, r)[w] = a[w * Ratio + r]
                          /\ Circled(BootN, s, k * Ratio - (w * Ratio + r))
                               = Circled(N, Block(s, Met(r)), k - w)
    BY <1>3, ClassMeets
  <2>4. [w \in Powers |-> Block(a, r)[w] * Circled(N, Block(s, Met(r)), k - w)]
          = [w \in Powers |-> a[w * Ratio + r] * Circled(BootN, s, k * Ratio - (w * Ratio + r))]
    BY <2>3, Zenon
  <2>5. Times(N, Block(a, r), Block(s, Met(r)))[k] \in Int
    BY <1>2, TimesIsNegacyclic, NegacyclicIs DEF Polynomials
  <2> QED BY <2>1, <2>2, <2>4, <2>5
<1>4. CASE r # 0
  <2> DEFINE b == Block(a, r)
             c == Block(s, Met(r))
  <2>1. Component(a, r) = ShiftBy(N, b, 1)
    BY <1>4 DEF Component
  <2>2. Times(N, ShiftBy(N, b, 1), c)[k]
          = Total([w \in Powers |-> b[w] * Circled(N, c, (k - 1) - w)])
    BY <1>2, TimesCircles
  <2>3. \A w \in Powers : /\ b[w] = a[w * Ratio + r]
                          /\ Circled(BootN, s, k * Ratio - (w * Ratio + r))
                               = Circled(N, c, (k - 1) - w)
    BY <1>4, ClassMeets
  <2>4. [w \in Powers |-> b[w] * Circled(N, c, (k - 1) - w)]
          = [w \in Powers |-> a[w * Ratio + r] * Circled(BootN, s, k * Ratio - (w * Ratio + r))]
    BY <2>3, Zenon
  <2>5. Times(N, ShiftBy(N, b, 1), c)[k] \in Int
    <3>1. N \in Nat /\ N > 0 /\ 1 \in Int /\ b \in [0 .. N - 1 -> Int]
      BY <1>2, DegreeIs DEF Polynomials, Powers
    <3> HIDE DEF b, c
    <3>2. ShiftBy(N, b, 1) \in Polynomials
      BY <3>1, ShiftIs DEF Polynomials, Powers
    <3> QED BY <1>2, <3>2, TimesIsNegacyclic, NegacyclicIs DEF Polynomials, c
  <2> QED BY <2>1, <2>2, <2>4, <2>5
<1> QED BY <1>3, <1>4

\* The product in the boot ring, where a coefficient of the work ring lies, is
\* the sum of the products of the classes.
LEMMA ProductByClasses ==
  ASSUME NEW a \in BootPolynomials, NEW s \in BootPolynomials, NEW k \in Powers
  PROVE  /\ k * Ratio \in BootPowers
         /\ Times(BootN, a, s)[k * Ratio] \in Int
         /\ [r \in 0 .. Ratio - 1 |-> Times(N, Component(a, r), Block(s, Met(r)))[k]]
              \in [0 .. Ratio - 1 -> Int]
         /\ Times(BootN, a, s)[k * Ratio]
              = Total([r \in 0 .. Ratio - 1 |-> Times(N, Component(a, r), Block(s, Met(r)))[k]])
<1> DEFINE n == BootN
           K == k * Ratio
           D == 0 .. n - 1
           E == 0 .. Ratio - 1
<1>1. n \in Nat /\ n > 0 /\ Ratio \in Nat /\ Ratio >= 1
  BY BootIs
<1>2. IsFiniteSet(D) /\ IsFiniteSet(E) /\ IsFiniteSet(Powers)
  <2>1. n - 1 \in Int /\ Ratio - 1 \in Int /\ 0 \in Int /\ N - 1 \in Int
    BY <1>1, DegreeIs
  <2> QED BY <2>1, FS_Interval DEF Powers
<1>3. a \in [0 .. n - 1 -> Int] /\ s \in [0 .. n - 1 -> Int] /\ BootPowers = D
  BY DEF BootPolynomials, BootPowers
<1>4. K \in D
  <2>1. 0 \in 0 .. Ratio - 1
    BY <1>1
  <2>2. k * Ratio + 0 \in 0 .. BootN - 1
    BY <2>1, ClassMeets
  <2>3. k * Ratio \in Int
    BY <1>1, DegreeIs DEF Powers
  <2> QED BY <2>2, <2>3
<1> DEFINE f == [i \in D |-> a[i] * Circled(n, s, K - i)]
<1>5. f \in [D -> Int] /\ Times(n, a, s)[K] = Total(f)
  <2> DEFINE g == [i \in 0 .. n - 1 |-> IF i <= K THEN a[i] * s[K - i] ELSE (-(a[i] * s[n + K - i]))]
  <2>1. g \in [0 .. n - 1 -> Int] /\ Times(n, a, s)[K] = Total(g)
    <3> HIDE DEF K
    <3> QED BY <1>1, <1>3, <1>4, TimesIs
  <2>2. ASSUME NEW i \in D PROVE g[i] = a[i] * Circled(n, s, K - i)
    <3> HIDE DEF K
    <3>1. i \in Int /\ K \in Int /\ a[i] \in Int
      BY <1>3, <1>4
    <3>2. CASE i <= K
      <4>1. K - i \in 0 .. n - 1
        BY <1>1, <1>4, <3>1, <3>2
      <4>2. Circled(n, s, K - i) = s[K - i]
        BY <1>1, <1>3, <4>1, CircledIs
      <4> QED BY <3>2, <4>2
    <3>3. CASE ~ (i <= K)
      <4> DEFINE z == K - i
      <4>1. z \in -n .. -1 /\ n + K - i = z + n /\ z + n \in 0 .. n - 1
        BY <1>1, <1>4, <3>1, <3>3
      <4> HIDE DEF z
      <4>2. Circled(n, s, z) = -s[z + n] /\ s[z + n] \in Int
        BY <1>1, <1>3, <4>1, CircledIs
      <4> DEFINE x == a[i]
                 y == s[z + n]
      <4>3. x \in Int /\ y \in Int
        BY <3>1, <4>2
      <4> HIDE DEF x, y
      <4>4. -(x * y) = x * (-y)
        BY <4>3
      <4>5. g[i] = -(x * y)
        BY <3>3, <4>1 DEF x, y
      <4>6. Circled(n, s, K - i) = -y
        BY <4>2 DEF y, z
      <4> QED BY <4>4, <4>5, <4>6 DEF x
    <3> QED BY <3>2, <3>3
  <2>3. f = g
    <3>1. \A i \in D : f[i] = g[i]
      BY <2>2
    <3>2. f = [i \in D |-> f[i]] /\ g = [i \in D |-> g[i]]
      BY DEF f, g
    <3> HIDE DEF f, g
    <3> QED BY <3>1, <3>2, Zenon
  <2> HIDE DEF f, g
  <2> QED BY <2>1, <2>3
<1> DEFINE h == [i \in D |-> i % Ratio]
<1>6. h \in [D -> E]
  <2>1. \A i \in D : i % Ratio \in E
    <3>1. ASSUME NEW i \in D PROVE i % Ratio \in E
      <4>1. i \in Int /\ Ratio > 0
        BY <1>1
      <4> QED BY <1>1, <4>1, Division
    <3> QED BY <3>1
  <2> QED BY <2>1
<1>7. /\ \A e \in E : Sent(D, f, h, e) \in [D -> Int]
      /\ Total(f) = Total([e \in E |-> Total(Sent(D, f, h, e))])
  <2> HIDE DEF D, E, f, h
  <2> QED BY <1>2, <1>5, <1>6, TotalOfParts
<1>8. ASSUME NEW r \in E
      PROVE  /\ Times(N, Component(a, r), Block(s, Met(r)))[k] \in Int
             /\ Total(Sent(D, f, h, r)) = Times(N, Component(a, r), Block(s, Met(r)))[k]
  <2> DEFINE g == [w \in Powers |-> w * Ratio + r]
             F == Sent(D, f, h, r)
  <2>1. \A w \in Powers : w * Ratio + r \in D /\ (w * Ratio + r) % Ratio = r
    BY ClassMeets
  <2>2. g \in [Powers -> D]
    BY <2>1
  <2>3. ASSUME NEW v \in Powers, NEW w \in Powers, g[v] = g[w] PROVE v = w
    <3>1. v \in Int /\ w \in Int
      BY DegreeIs DEF Powers
    <3>2. Ratio * v + r = Ratio * w + r
      <4>1. Ratio * v = v * Ratio /\ Ratio * w = w * Ratio
        BY <1>1, <3>1
      <4> QED BY <2>3, <4>1
    <3>3. Ratio > 0
      BY <1>1
    <3> QED BY <1>1, <3>1, <3>2, <3>3, DivisionIsUnique
  <2>4. ASSUME NEW i \in D, \A w \in Powers : g[w] # i PROVE F[i] = 0
    <3>1. CASE i % Ratio = r
      <4>1. i \in Int /\ Ratio > 0 /\ i \in BootPowers
        BY <1>1, <1>3
      <4> DEFINE w == i \div Ratio
      <4>2. i = Ratio * w + (i % Ratio) /\ w \in Int
        BY <1>1, <4>1, Division
      <4>3. w \in Powers
        <5> HIDE DEF w
        <5>1. BootN = Ratio * N
          BY BootIs
        <5> DEFINE x == Ratio * w
                   y == Ratio * N
        <5>2. i = x + r /\ y = n /\ i >= 0 /\ i < n /\ r \in E /\ x \in Int /\ i \in Int
          BY <1>1, <3>1, <4>1, <4>2, <5>1
        <5>3. N \in Nat /\ w \in Int /\ Powers = 0 .. N - 1
          BY <4>2, DegreeIs DEF Powers
        <5>4. w >= 0
          <6>1. SUFFICES ASSUME w <= -1 PROVE FALSE
            BY <5>3
          <6>2. Ratio * w <= Ratio * (-1)
            BY <1>1, <5>3, <6>1
          <6>3. Ratio * (-1) = -Ratio
            BY <1>1
          <6> HIDE DEF y
          <6>4. x <= -Ratio
            BY <6>2, <6>3
          <6> HIDE DEF x
          <6> QED BY <1>1, <5>2, <6>4
        <5>5. w < N
          <6>1. SUFFICES ASSUME w >= N PROVE FALSE
            BY <5>3
          <6>2. Ratio * w >= Ratio * N
            BY <1>1, <5>3, <6>1
          <6>3. x >= y
            BY <6>2
          <6> HIDE DEF x, y
          <6> QED BY <1>1, <5>2, <6>3
        <5> QED BY <5>3, <5>4, <5>5
      <4>4. g[w] = i
        <5> HIDE DEF w
        <5>1. Ratio * w = w * Ratio
          BY <1>1, <4>2
        <5> QED BY <3>1, <4>2, <4>3, <5>1
      <4> QED BY <2>4, <4>3, <4>4
    <3>2. CASE i % Ratio # r
      <4>1. h[i] # r
        BY <3>2
      <4> HIDE DEF D, f, h
      <4> QED BY <2>4, <4>1 DEF Sent, F
    <3> QED BY <3>1, <3>2
  <2>5. Total(F) = Total([w \in Powers |-> F[g[w]]])
    <3>1. F \in [D -> Int]
      BY <1>7
    <3> HIDE DEF D, g, F
    <3> QED BY <1>2, <2>2, <2>3, <2>4, <3>1, TotalOfReached
  <2>6. [w \in Powers |-> F[g[w]]]
          = [w \in Powers |-> a[w * Ratio + r] * Circled(BootN, s, k * Ratio - (w * Ratio + r))]
    <3>1. ASSUME NEW w \in Powers
          PROVE  F[g[w]] = a[w * Ratio + r] * Circled(BootN, s, k * Ratio - (w * Ratio + r))
      <4>1. g[w] = w * Ratio + r /\ g[w] \in D /\ h[g[w]] = r
        BY <2>1
      <4>2. F[g[w]] = f[g[w]]
        <5> HIDE DEF D, f, h, g
        <5> QED BY <4>1 DEF Sent
      <4>3. f[g[w]] = a[g[w]] * Circled(n, s, K - g[w])
        <5> HIDE DEF D, h, g
        <5> QED BY <4>1
      <4> HIDE DEF F, g
      <4> QED BY <4>1, <4>2, <4>3
    <3> HIDE DEF F, g
    <3> QED BY <3>1
  <2>7. /\ Times(N, Component(a, r), Block(s, Met(r)))[k] \in Int
        /\ Times(N, Component(a, r), Block(s, Met(r)))[k]
             = Total([w \in Powers |-> a[w * Ratio + r]
                                         * Circled(BootN, s, k * Ratio - (w * Ratio + r))])
    BY ClassIsProduct
  <2> HIDE DEF F, g
  <2>8. Total(F) = Times(N, Component(a, r), Block(s, Met(r)))[k]
    BY <2>5, <2>6, <2>7
  <2> QED BY <2>7, <2>8 DEF F
<1>9. [e \in E |-> Total(Sent(D, f, h, e))]
        = [r \in E |-> Times(N, Component(a, r), Block(s, Met(r)))[k]]
  <2> HIDE DEF D, E, f, h
  <2> QED BY <1>8
<1>10. Total(f) \in Int
  <2> HIDE DEF D, f
  <2> QED BY <1>2, <1>5, TotalIsInt
<1>11. [r \in E |-> Times(N, Component(a, r), Block(s, Met(r)))[k]] \in [E -> Int]
  <2> HIDE DEF D, E, f, h
  <2> QED BY <1>8
<1>12. K \in BootPowers
  BY <1>3, <1>4
<1>13. Times(n, a, s)[K] = Total([r \in E |-> Times(N, Component(a, r), Block(s, Met(r)))[k]])
  <2> HIDE DEF D, E, f, h, K
  <2> QED BY <1>5, <1>7, <1>9
<1>14. Times(n, a, s)[K] \in Int
  <2> HIDE DEF D, E, f, h, K
  <2> QED BY <1>5, <1>10
<1> QED BY <1>11, <1>12, <1>13, <1>14

\* What the return computes
LEMMA ReturnedIs ==
  ASSUME NEW c, NEW ct, NEW s, NEW e
  PROVE  ReturnedPhase(c, ct, s, e)
           = [k \in Powers |->
               (Block(ct[1], 0)[k]
                 + Total([r \in 0 .. Ratio - 1 |->
                     [r_1 \in 0 .. Ratio - 1 |->
                        Times(N, Component(ct[2], r_1), Block(s, IF r_1 = 0 THEN 0 ELSE Ratio - r_1))][r][k]
                       + c.back * e.back[k]])) % c.q]
BY Zenon DEF ReturnedPhase, SumOver, Total

\* A total of sums with one number added
LEMMA TotalWithOne ==
  ASSUME NEW D, IsFiniteSet(D), NEW f \in [D -> Int], NEW x \in Int, NEW b \in Nat,
         -b <= x, x <= b
  PROVE  \E z \in Int : /\ Total([i \in D |-> f[i] + x]) = Total(f) + z
                        /\ -(b * Cardinality(D)) <= z /\ z <= b * Cardinality(D)
<1> DEFINE g == [i \in D |-> x]
           h == [i \in D |-> f[i] + x]
<1>1. g \in [D -> Int] /\ h \in [D -> Int] /\ \A i \in D : g[i] = x /\ h[i] = f[i] + x
  OBVIOUS
<1> HIDE DEF g, h
<1>2. IsCombination(D, h, 1, f, 1, g)
  <2>1. \A i \in D : h[i] = 1 * f[i] + 1 * g[i]
    BY <1>1
  <2> QED BY <2>1 DEF IsCombination
<1>3. Total(h) = 1 * Total(f) + 1 * Total(g)
  <2>1. 1 \in Int
    OBVIOUS
  <2> QED BY <1>1, <1>2, <2>1, TotalIsLinear
<1>4. Total(f) \in Int /\ Total(g) \in Int
  BY <1>1, TotalIsInt
<1>5. -(b * Cardinality(D)) <= Total(g) /\ Total(g) <= b * Cardinality(D)
  <2>1. \A i \in D : -b <= g[i] /\ g[i] <= b
    BY <1>1
  <2> QED BY <1>1, <2>1, TotalIsBounded
<1>6. Total(h) = Total(f) + Total(g)
  BY <1>3, <1>4
<1> QED BY <1>4, <1>5, <1>6 DEF h

\* What comes back is block zero of the phase, but for the switches' noise.
LEMMA ReturnFollows ==
  ASSUME NEW c, c.q \in Nat, c.q > 0, c.back \in Nat, NEW e, IsKeySwitch(e),
         NEW ct, ct[1] \in BootPolynomials, ct[2] \in BootPolynomials, NEW s \in BootPolynomials
  PROVE  /\ ReturnedPhase(c, ct, s, e) \in Polynomials
         /\ \A k \in Powers :
              /\ k * Ratio \in BootPowers
              /\ Drifts(ReturnedPhase(c, ct, s, e)[k],
                        ct[1][k * Ratio] + Times(BootN, ct[2], s)[k * Ratio], c.back * Ratio, c.q)
<1> DEFINE E == 0 .. Ratio - 1
           met(k) == [r \in E |-> Times(N, Component(ct[2], r), Block(s, Met(r)))[k]]
           at(k) == [r \in E |-> met(k)[r] + c.back * e.back[k]]
<1>1. Ratio \in Nat /\ Ratio >= 1
  BY BootIs
<1>2. IsFiniteSet(E) /\ Cardinality(E) = Ratio
  <2>1. 0 \in Int /\ Ratio - 1 \in Int /\ 0 <= Ratio - 1
    BY <1>1
  <2>2. IsFiniteSet(0 .. Ratio - 1)
        /\ Cardinality(0 .. Ratio - 1) = (IF 0 > Ratio - 1 THEN 0 ELSE (Ratio - 1) - 0 + 1)
    BY <2>1, FS_Interval
  <2>3. (IF 0 > Ratio - 1 THEN 0 ELSE (Ratio - 1) - 0 + 1) = Ratio
    BY <1>1
  <2> QED BY <2>2, <2>3
<1>3. ReturnedPhase(c, ct, s, e) = [k \in Powers |-> (Block(ct[1], 0)[k] + Total(at(k))) % c.q]
  <2>1. ASSUME NEW k \in Powers
        PROVE  at(k) = [r \in E |-> [r_1 \in E |->
                          Times(N, Component(ct[2], r_1), Block(s, IF r_1 = 0 THEN 0 ELSE Ratio - r_1))][r][k]
                        + c.back * e.back[k]]
    <3>1. \A r \in E : Block(s, IF r = 0 THEN 0 ELSE Ratio - r) = Block(s, Met(r))
      BY DEF Met
    <3> QED BY <3>1
  <2>2. ReturnedPhase(c, ct, s, e)
          = [k \in Powers |-> (Block(ct[1], 0)[k]
              + Total([r \in E |-> [r_1 \in E |->
                          Times(N, Component(ct[2], r_1), Block(s, IF r_1 = 0 THEN 0 ELSE Ratio - r_1))][r][k]
                        + c.back * e.back[k]])) % c.q]
    BY ReturnedIs
  <2> HIDE DEF at, E
  <2> QED BY <2>1, <2>2
<1>4. ASSUME NEW k \in Powers
      PROVE  /\ (Block(ct[1], 0)[k] + Total(at(k))) % c.q \in Int
             /\ k * Ratio \in BootPowers
             /\ Drifts((Block(ct[1], 0)[k] + Total(at(k))) % c.q,
                       ct[1][k * Ratio] + Times(BootN, ct[2], s)[k * Ratio], c.back * Ratio, c.q)
  <2> DEFINE x == ct[1][k * Ratio]
             y == Times(BootN, ct[2], s)[k * Ratio]
             v == c.back * e.back[k]
  <2>1. k * Ratio \in BootPowers /\ y \in Int /\ met(k) \in [E -> Int] /\ y = Total(met(k))
    BY ProductByClasses
  <2>2. Block(ct[1], 0)[k] = x /\ x \in Int
    <3>1. k * Ratio + 0 = k * Ratio
      BY <1>1, DegreeIs DEF Powers
    <3>2. ct[1] \in [BootPowers -> Int]
      BY DEF BootPolynomials, BootPowers
    <3> QED BY <2>1, <3>1, <3>2 DEF Block
  <2>3. v \in Int /\ -c.back <= v /\ v <= c.back
    <3>1. e.back[k] \in -1 .. 1
      BY DEF IsKeySwitch, Ternary
    <3> DEFINE g == c.back
               u == e.back[k]
    <3>2. g \in Nat /\ (u = -1 \/ u = 0 \/ u = 1)
      BY <3>1
    <3> HIDE DEF g, u
    <3>3. g * u \in Int /\ -g <= g * u /\ g * u <= g
      BY <3>2
    <3> QED BY <3>3 DEF g, u
  <2> HIDE DEF x, y, v
  <2>4. PICK z \in Int : /\ Total([r \in E |-> met(k)[r] + v]) = Total(met(k)) + z
                         /\ -(c.back * Cardinality(E)) <= z /\ z <= c.back * Cardinality(E)
    <3> HIDE DEF met, E
    <3> QED BY <1>2, <2>1, <2>3, TotalWithOne
  <2>5. Total(at(k)) = y + z
    <3> HIDE DEF met, E
    <3> QED BY <2>1, <2>4 DEF v
  <2> DEFINE b == c.back * Ratio
  <2>6. b \in Nat /\ z \in -b .. b
    <3>1. b \in Nat
      BY <1>1
    <3> QED BY <1>2, <2>4, <3>1
  <2> HIDE DEF b
  <2>7. Drifts((x + y) + z, x + y, b, c.q)
    <3>1. x + y \in Int /\ c.q \in Int
      BY <2>1, <2>2
    <3> DEFINE p == x + y
    <3> HIDE DEF p
    <3>2. p \in Int
      BY <3>1 DEF p
    <3>3. Drifts(p + z, p, b, c.q)
      BY <2>6, <3>1, <3>2, DriftsBy
    <3> QED BY <3>3 DEF p
  <2>8. Block(ct[1], 0)[k] + Total(at(k)) = (x + y) + z /\ x + y \in Int /\ (x + y) + z \in Int
    <3> HIDE DEF at
    <3> QED BY <2>1, <2>2, <2>5
  <2>9. Drifts(((x + y) + z) % c.q, x + y, b, c.q) /\ ((x + y) + z) % c.q \in Int
    <3> DEFINE p == x + y
               w == (x + y) + z
    <3>1. p \in Int /\ w \in Int /\ Drifts(w, p, b, c.q) /\ b \in Int
      BY <2>6, <2>7, <2>8
    <3> HIDE DEF p, w
    <3>2. Drifts(w % c.q, p, b, c.q) /\ w % c.q \in Int
      BY <3>1, DriftsResidue
    <3> QED BY <3>2 DEF p, w
  <2> HIDE DEF at
  <2> QED BY <2>1, <2>8, <2>9 DEF x, y, b
<1> HIDE DEF at
<1>5. ReturnedPhase(c, ct, s, e) \in Polynomials
  BY <1>3, <1>4 DEF Polynomials
<1> QED BY <1>3, <1>4, <1>5

-----------------------------------------------------------------------------
(* What a ciphertext says.                                                  *)

\* Where the message lies in the boot ring
Embedded(m, k) == IF k % Ratio = 0 THEN m[k \div Ratio] ELSE 0

\* A ciphertext of the work ring, and one of the boot ring, that carry a
\* message with an error within a bound
Says(c, ct, s, m, b) ==
  \A k \in Powers : Drifts(c.t * (ct[1][k] + Negacyclic(ct[2], s)[k]), c.q * m[k], b, c.t * c.q)

SaysOuter(c, ct, s, m, b) ==
  \A k \in BootPowers : Drifts(c.t * (ct[1][k] + Times(BootN, ct[2], s)[k]),
                               c.bootQ * Embedded(m, k), b, c.t * c.bootQ)

\* What is the same modulo q may stand for it.
LEMMA DriftsFor ==
  ASSUME NEW x \in Int, NEW y \in Int, NEW q \in Int, Same(x, y, q), NEW t \in Nat,
         NEW z \in Int, NEW b \in Int, Drifts(t * y, z, b, t * q)
  PROVE  Drifts(t * x, z, b, t * q)
<1>1. Drifts(x, y, 0, q)
  BY DriftsSame
<1>2. 0 \in Int
  OBVIOUS
<1>3. Drifts(t * x, t * y, t * 0, t * q)
  BY <1>1, <1>2, DriftsScaled
<1> DEFINE x1 == t * x
           y1 == t * y
           o1 == t * 0
           q1 == t * q
<1>4. x1 \in Int /\ y1 \in Int /\ o1 \in Int /\ q1 \in Int /\ o1 = 0
  OBVIOUS
<1> HIDE DEF x1, y1, o1, q1
<1>5. Drifts(x1, y1, o1, q1) /\ Drifts(y1, z, b, q1)
  BY <1>3 DEF x1, y1, o1, q1
<1>6. Drifts(x1, z, o1 + b, q1)
  BY <1>4, <1>5, DriftsChain
<1>7. o1 + b = b
  BY <1>4
<1> QED BY <1>6, <1>7 DEF x1, q1

\* The distance that is measured is that of the residue.
LEMMA OffOfResidue ==
  ASSUME NEW q \in Nat, q > 0, NEW t \in Nat, t > 0, NEW x \in Int, NEW m \in Int, NEW b \in Nat
  PROVE  Off(q, t, x % q, m) \in -b .. b <=> Drifts(t * x, q * m, b, t * q)
<1> DEFINE y == x % q
           z == q * m
<1>1. y \in Int /\ Same(y, x, q)
  <2>1. y \in 0 .. q - 1 /\ Same(y, x, q)
    BY ResidueIsSame
  <2> QED BY <2>1
<1>2. q \in Int /\ z \in Int /\ b \in Int
  OBVIOUS
<1> HIDE DEF y
<1>3. Same(x, y, q)
  BY <1>1, <1>2, SameSymmetric
<1>4. Off(q, t, y, m) \in -b .. b <=> Drifts(t * y, z, b, t * q)
  BY <1>1, OffIs
<1> HIDE DEF z
<1>5. Drifts(t * y, z, b, t * q) => Drifts(t * x, z, b, t * q)
  BY <1>1, <1>2, <1>3, DriftsFor
<1>6. Drifts(t * x, z, b, t * q) => Drifts(t * y, z, b, t * q)
  BY <1>1, <1>2, DriftsFor
<1> QED BY <1>4, <1>5, <1>6 DEF y, z

\* Saying is what the distances measure.
LEMMA SaysIs ==
  ASSUME NEW c, IsClock(c), NEW ct, ct[1] \in Polynomials, ct[2] \in Polynomials,
         NEW s \in Polynomials, NEW m \in [Powers -> Int], NEW b \in Nat
  PROVE  Says(c, ct, s, m, b)
           <=> \A k \in Powers : Off(c.q, c.t, PhaseIn(N, c.q, ct, s)[k], m[k]) \in -b .. b
<1>1. c.q \in Nat /\ c.q > 0 /\ c.t \in Nat /\ c.t > 0
  BY ClockNumbers
<1>2. ASSUME NEW k \in Powers
      PROVE  Off(c.q, c.t, PhaseIn(N, c.q, ct, s)[k], m[k]) \in -b .. b
               <=> Drifts(c.t * (ct[1][k] + Negacyclic(ct[2], s)[k]), c.q * m[k], b, c.t * c.q)
  <2> DEFINE x == ct[1][k] + Negacyclic(ct[2], s)[k]
             y == m[k]
  <2>1. x \in Int /\ y \in Int
    <3>1. Negacyclic(ct[2], s)[k] \in Int
      BY NegacyclicIs DEF Polynomials
    <3>2. ct[1][k] \in Int
      BY DEF Polynomials
    <3> QED BY <3>1, <3>2
  <2>2. PhaseIn(N, c.q, ct, s)[k] = x % c.q
    <3>1. k \in 0 .. N - 1
      BY DEF Powers
    <3>2. PhaseIn(N, c.q, ct, s)[k] = (ct[1][k] + Times(N, ct[2], s)[k]) % c.q
      BY <3>1 DEF PhaseIn
    <3> QED BY <3>2, TimesIsNegacyclic
  <2> HIDE DEF x, y
  <2>3. Off(c.q, c.t, x % c.q, y) \in -b .. b <=> Drifts(c.t * x, c.q * y, b, c.t * c.q)
    BY <1>1, <2>1, OffOfResidue
  <2> QED BY <2>2, <2>3 DEF x, y
<1> QED BY <1>2 DEF Says

\* Saying in the boot ring is what the distances measure there.
LEMMA SaysOuterIs ==
  ASSUME NEW c, IsClock(c), NEW ct, ct[1] \in BootPolynomials, ct[2] \in BootPolynomials,
         NEW s \in BootPolynomials, NEW m \in [Powers -> Int], NEW b \in Nat
  PROVE  /\ \A k \in BootPowers : Embedded(m, k) \in Int
         /\ SaysOuter(c, ct, s, m, b)
              <=> \A k \in BootPowers :
                    Off(c.bootQ, c.t, PhaseIn(BootN, c.bootQ, ct, s)[k], Embedded(m, k)) \in -b .. b
<1>1. c.bootQ \in Nat /\ c.bootQ > 0 /\ c.t \in Nat /\ c.t > 0
  BY ClockNumbers DEF IsClock
<1>2. ASSUME NEW k \in BootPowers
      PROVE  /\ Embedded(m, k) \in Int
             /\ Off(c.bootQ, c.t, PhaseIn(BootN, c.bootQ, ct, s)[k], Embedded(m, k)) \in -b .. b
               <=> Drifts(c.t * (ct[1][k] + Times(BootN, ct[2], s)[k]), c.bootQ * Embedded(m, k),
                          b, c.t * c.bootQ)
  <2> DEFINE x == ct[1][k] + Times(BootN, ct[2], s)[k]
             y == Embedded(m, k)
  <2>1. x \in Int
    <3>1. BootN \in Nat /\ ct[2] \in [0 .. BootN - 1 -> Int] /\ s \in [0 .. BootN - 1 -> Int]
          /\ k \in 0 .. BootN - 1
      BY BootIs DEF BootPolynomials, BootPowers
    <3>2. Times(BootN, ct[2], s)[k] \in Int
      <4> DEFINE a == ct[2]
      <4> HIDE DEF a
      <4>1. a \in [0 .. BootN - 1 -> Int]
        BY <3>1 DEF a
      <4>2. Times(BootN, a, s) \in [0 .. BootN - 1 -> Int]
        BY <3>1, <4>1, TimesIs
      <4>3. Times(BootN, a, s)[k] \in Int
        BY <3>1, <4>2
      <4> QED BY <4>3 DEF a
    <3>3. ct[1][k] \in Int
      BY DEF BootPolynomials
    <3> QED BY <3>2, <3>3
  <2>2. y \in Int
    <3>1. 0 \in Powers
      BY DegreeIs DEF Powers
    <3>2. k % Ratio = 0 => k \div Ratio \in Powers
      BY <3>1, PlaceIs
    <3> QED BY <3>2 DEF Embedded
  <2>3. PhaseIn(BootN, c.bootQ, ct, s)[k] = x % c.bootQ
    <3>1. k \in 0 .. BootN - 1
      BY DEF BootPowers
    <3> QED BY <3>1 DEF PhaseIn
  <2> HIDE DEF x, y
  <2>4. Off(c.bootQ, c.t, x % c.bootQ, y) \in -b .. b
          <=> Drifts(c.t * x, c.bootQ * y, b, c.t * c.bootQ)
    BY <1>1, <2>1, <2>2, OffOfResidue
  <2> QED BY <2>2, <2>3, <2>4 DEF x, y
<1> QED BY <1>2 DEF SaysOuter

\* A larger bound
LEMMA SaysMore ==
  ASSUME NEW c, IsClock(c), NEW ct, ct[1] \in Polynomials, ct[2] \in Polynomials,
         NEW s \in Polynomials, NEW m \in [Powers -> Int], NEW b \in Nat, Says(c, ct, s, m, b),
         NEW d \in Nat, b <= d
  PROVE  Says(c, ct, s, m, d)
<1>1. c.q \in Nat /\ c.t \in Nat
  BY ClockNumbers
<1>2. ASSUME NEW k \in Powers
      PROVE  Drifts(c.t * (ct[1][k] + Negacyclic(ct[2], s)[k]), c.q * m[k], d, c.t * c.q)
  <2> DEFINE x == c.t * (ct[1][k] + Negacyclic(ct[2], s)[k])
             y == c.q * m[k]
             z == c.t * c.q
  <2>1. Negacyclic(ct[2], s)[k] \in Int /\ ct[1][k] \in Int /\ m[k] \in Int
    BY NegacyclicIs DEF Polynomials
  <2>2. x \in Int /\ y \in Int /\ z \in Int /\ b \in Int /\ d \in Int
    BY <1>1, <2>1
  <2>3. Drifts(x, y, b, z)
    BY DEF Says
  <2> HIDE DEF x, y, z
  <2>4. Drifts(x, y, d, z)
    BY <2>2, <2>3, DriftsMore
  <2> QED BY <2>4 DEF x, y, z
<1> QED BY <1>2 DEF Says

\* Twice a ciphertext says twice its message, with twice the error.
LEMMA TwiceSays ==
  ASSUME NEW c, IsClock(c), NEW ct, ct[1] \in Polynomials, ct[2] \in Polynomials,
         NEW s \in Polynomials, NEW m \in [Powers -> Int], NEW b \in Nat, Says(c, ct, s, m, b),
         NEW d, d = <<Mod([k \in Powers |-> 2 * ct[1][k]], c.q),
                      Mod([k \in Powers |-> 2 * ct[2][k]], c.q)>>
  PROVE  /\ d[1] \in Polynomials /\ d[2] \in Polynomials
         /\ [k \in Powers |-> (2 * m[k]) % c.t] \in [Powers -> Int]
         /\ Says(c, d, s, [k \in Powers |-> (2 * m[k]) % c.t], 2 * b)
<1> DEFINE a1 == [k \in Powers |-> 2 * ct[1][k]]
           a2 == [k \in Powers |-> 2 * ct[2][k]]
           z == Negacyclic(ct[2], s)
           w == [k \in Powers |-> (2 * m[k]) % c.t]
<1>1. c.q \in Nat /\ c.q > 0 /\ c.t \in Nat /\ c.t > 0 /\ c.q \in Int
  BY ClockNumbers
<1>2. a1 \in Polynomials /\ a2 \in Polynomials /\ z \in Polynomials
  BY NegacyclicIs DEF Polynomials
<1>3. Combines(a2, 2, ct[2], 0, ct[2])
  <2>1. ASSUME NEW k \in Powers PROVE a2[k] = 2 * ct[2][k] + 0 * ct[2][k]
    <3>1. ct[2][k] \in Int
      BY DEF Polynomials
    <3> QED BY <3>1
  <2> QED BY <2>1 DEF Combines
<1>4. \A k \in Powers : Negacyclic(a2, s)[k] = 2 * z[k]
  <2>1. Combines(Negacyclic(a2, s), 2, z, 0, z)
    <3>1. 2 \in Int /\ 0 \in Int
      OBVIOUS
    <3> HIDE DEF a2
    <3> QED BY <1>2, <1>3, <3>1, ProductIsLinear DEF z
  <2>2. \A k \in Powers : z[k] \in Int
    BY <1>2 DEF Polynomials
  <2> HIDE DEF a2, z
  <2> QED BY <2>1, <2>2 DEF Combines
<1> HIDE DEF a1, a2
<1>5. d[1] = Mod(a1, c.q) /\ d[2] = Mod(a2, c.q)
  BY DEF a1, a2
<1>6. /\ d[1] \in Polynomials /\ d[2] \in Polynomials
      /\ Agree(d[1], a1, c.q) /\ Agree(d[2], a2, c.q)
  BY <1>1, <1>2, <1>5, ModIs, ModAgrees
<1>7. Agree(Negacyclic(d[2], s), Negacyclic(a2, s), c.q)
  <2>1. Agree(s, s, c.q)
    <3>1. \A k \in Powers : s[k] \in Int
      BY DEF Polynomials
    <3> QED BY <1>1, <3>1, SameReflexive DEF Agree
  <2> DEFINE x == d[2]
  <2>2. x \in Polynomials /\ Agree(x, a2, c.q)
    BY <1>6
  <2> HIDE DEF x
  <2>3. Agree(Negacyclic(x, s), Negacyclic(a2, s), c.q)
    BY <1>1, <1>2, <2>1, <2>2, NegacyclicsAgree
  <2> QED BY <2>3 DEF x
<1>8. ASSUME NEW k \in Powers
      PROVE  /\ (2 * m[k]) % c.t \in Int
             /\ Drifts(c.t * (d[1][k] + Negacyclic(d[2], s)[k]), c.q * ((2 * m[k]) % c.t),
                       2 * b, c.t * c.q)
  <2> DEFINE x == ct[1][k] + z[k]
             y == d[1][k] + Negacyclic(d[2], s)[k]
             p == m[k]
             t == c.t
             q == c.q
  <2>1. x \in Int /\ y \in Int /\ p \in Int
    <3>1. Negacyclic(d[2], s)[k] \in Int /\ z[k] \in Int
      BY <1>2, <1>6, NegacyclicIs DEF Polynomials
    <3>2. d[1][k] \in Int /\ ct[1][k] \in Int
      BY <1>6 DEF Polynomials
    <3> QED BY <3>1, <3>2
  <2>2. Same(y, 2 * x, q)
    <3> DEFINE u == d[1][k]
               v == Negacyclic(d[2], s)[k]
               u1 == ct[1][k]
               v1 == z[k]
    <3>1. u \in Int /\ v \in Int /\ u1 \in Int /\ v1 \in Int
      BY <1>2, <1>6, NegacyclicIs DEF Polynomials
    <3>2. a1[k] = 2 * u1
      BY DEF a1
    <3>3. Same(u, 2 * u1, q) /\ Same(v, 2 * v1, q)
      BY <1>4, <1>6, <1>7, <3>2 DEF Agree
    <3> HIDE DEF u, v, u1, v1
    <3>4. 2 * u1 \in Int /\ 2 * v1 \in Int
      BY <3>1
    <3>5. Same(u + v, 2 * u1 + 2 * v1, q)
      BY <1>1, <3>1, <3>3, <3>4, SameSum
    <3>6. 2 * u1 + 2 * v1 = 2 * (u1 + v1)
      BY <3>1
    <3> QED BY <3>5, <3>6 DEF u, v, u1, v1
  <2>3. Drifts(t * x, q * p, b, t * q)
    BY DEF Says
  <2>4. t \in Nat /\ t > 0 /\ q \in Nat /\ q > 0
    BY <1>1
  <2> HIDE DEF x, y, z, p, t, q
  <2> DEFINE tx == t * x
             qp == q * p
             tq == t * q
             tx2 == t * (2 * x)
             r == (2 * p) % t
             qr == q * r
             qp2 == q * (2 * p)
  <2>5. /\ tx \in Int /\ qp \in Int /\ tq \in Int /\ tx2 = tx + tx /\ tx2 \in Int
        /\ qp2 = qp + qp /\ qp2 \in Int
    BY <2>1, <2>4
  <2>6. r \in Int /\ qr \in Int /\ Same(2 * p, r, t)
    <3>1. 2 * p \in Int /\ t \in Int
      BY <2>1, <2>4
    <3>2. r \in 0 .. t - 1 /\ Same(r, 2 * p, t)
      BY <2>4, <3>1, ResidueIsSame
    <3>3. r \in Int
      BY <3>2
    <3> HIDE DEF r
    <3>4. q * r \in Int
      BY <2>4, <3>3
    <3> QED BY <3>1, <3>2, <3>3, <3>4, SameSymmetric
  <2>7. Drifts(tx2, qp2, 2 * b, tq)
    <3>1. Drifts(tx, qp, b, tq)
      BY <2>3
    <3> HIDE DEF tx, qp, tq, tx2, qp2
    <3>2. b \in Int /\ b + b = 2 * b
      OBVIOUS
    <3>3. Drifts(tx + tx, qp + qp, b + b, tq)
      BY <2>5, <3>1, <3>2, DriftsSum
    <3> QED BY <2>5, <3>2, <3>3
  <2>8. Drifts(qp2, qr, 0, tq)
    <3>1. 2 * p \in Int /\ t \in Int
      BY <2>1, <2>4
    <3> DEFINE v == 2 * p
    <3>2. Drifts(v, r, 0, t)
      BY <2>6, <3>1, DriftsSame
    <3>3. v \in Int /\ 0 \in Int
      BY <3>1
    <3> HIDE DEF r, v
    <3>4. Drifts(q * v, q * r, q * 0, q * t)
      BY <2>4, <2>6, <3>1, <3>2, <3>3, DriftsScaled
    <3>5. q * 0 = 0 /\ q * t = t * q
      BY <2>4
    <3> QED BY <3>4, <3>5 DEF v
  <2>9. Drifts(t * y, qr, 2 * b, t * q)
    <3>1. Drifts(tx2, qr, 2 * b + 0, tq)
      <4>1. 2 * b \in Int /\ 0 \in Int
        OBVIOUS
      <4> DEFINE e == 2 * b
      <4> HIDE DEF tx, qp, tq, tx2, qp2, qr, e
      <4>2. e \in Int /\ Drifts(tx2, qp2, e, tq)
        BY <2>7, <4>1 DEF e
      <4>3. Drifts(tx2, qr, e + 0, tq)
        BY <2>5, <2>6, <2>8, <4>1, <4>2, DriftsChain
      <4> QED BY <4>3 DEF e
    <3>2. 2 * b + 0 = 2 * b /\ 2 * b \in Int
      OBVIOUS
    <3> DEFINE x2 == 2 * x
               e == 2 * b
    <3>3. x2 \in Int /\ e \in Int /\ Same(y, x2, q) /\ Drifts(t * x2, qr, e, t * q) /\ q \in Int
      BY <2>1, <2>2, <2>4, <3>1, <3>2
    <3> HIDE DEF x2, e, qr
    <3>4. Drifts(t * y, qr, e, t * q)
      BY <2>1, <2>4, <2>6, <3>3, DriftsFor
    <3> QED BY <3>4 DEF e
  <2> QED BY <2>6, <2>9 DEF y, t, q, p
<1>9. w \in [Powers -> Int]
  BY <1>8
<1>10. Says(c, d, s, w, 2 * b)
  <2>1. \A k \in Powers : w[k] = (2 * m[k]) % c.t
    OBVIOUS
  <2> HIDE DEF w
  <2> QED BY <1>8, <2>1 DEF Says
<1> QED BY <1>6, <1>9, <1>10

\* Of a mask only what the ring has room for is taken.
LEMMA MaskIsCut ==
  ASSUME NEW n, NEW q, NEW phase, NEW mask, NEW s
  PROVE  WithPhase(n, q, phase, mask, s)
           = WithPhase(n, q, phase, [k \in 0 .. n - 1 |-> mask[k]], s)
<1> DEFINE a == [k \in 0 .. n - 1 |-> mask[k] % q]
           b == [k \in 0 .. n - 1 |-> [j \in 0 .. n - 1 |-> mask[j]][k] % q]
<1>1. a = b
  OBVIOUS
<1>2. /\ WithPhase(n, q, phase, mask, s)
           = <<[k \in 0 .. n - 1 |-> (phase[k] - Times(n, a, s)[k]) % q], a>>
      /\ WithPhase(n, q, phase, [k \in 0 .. n - 1 |-> mask[k]], s)
           = <<[k \in 0 .. n - 1 |-> (phase[k] - Times(n, b, s)[k]) % q], b>>
  BY Zenon DEF WithPhase
<1> HIDE DEF a, b
<1> QED BY <1>1, <1>2

\* A ciphertext made for a phase, in either ring
LEMMA MadeInWork ==
  ASSUME NEW q \in Nat, q > 0, NEW phase \in Polynomials, NEW mask \in Polynomials,
         NEW s \in Polynomials, NEW d, d = WithPhase(N, q, phase, mask, s)
  PROVE  /\ d[1] \in Polynomials /\ d[2] \in Polynomials
         /\ \A k \in Powers : Same(d[1][k] + Negacyclic(d[2], s)[k], phase[k], q)
<1>1. N \in Nat /\ Powers = 0 .. N - 1 /\ Polynomials = [0 .. N - 1 -> Int]
  BY DegreeIs DEF Powers, Polynomials
<1>2. /\ d[1] \in [0 .. N - 1 -> Int] /\ d[2] \in [0 .. N - 1 -> Int]
      /\ \A k \in 0 .. N - 1 : Same(d[1][k] + Times(N, d[2], s)[k], phase[k], q)
  BY <1>1, PhaseOfMade
<1>3. d[1] \in Polynomials /\ d[2] \in Polynomials
  BY <1>1, <1>2
<1>4. Times(N, d[2], s) = Negacyclic(d[2], s)
  BY <1>3, TimesIsNegacyclic
<1> QED BY <1>1, <1>2, <1>3, <1>4

\* The same, with a mask of the boot ring
LEMMA MadeWithMask ==
  ASSUME NEW q \in Nat, q > 0, NEW phase \in Polynomials, NEW mask \in BootPolynomials,
         NEW s \in Polynomials, NEW d, d = WithPhase(N, q, phase, mask, s)
  PROVE  /\ d[1] \in Polynomials /\ d[2] \in Polynomials
         /\ \A k \in Powers : Same(d[1][k] + Negacyclic(d[2], s)[k], phase[k], q)
<1> DEFINE cut == [k \in 0 .. N - 1 |-> mask[k]]
<1>1. N \in Nat /\ Powers = 0 .. N - 1 /\ BootN \in Nat /\ BootN >= N
  BY DegreeIs, PhaseClockAssumption, BootIs DEF Powers
<1>2. cut \in Polynomials
  <2>1. \A k \in 0 .. N - 1 : k \in BootPowers
    BY <1>1 DEF BootPowers
  <2> QED BY <1>1, <2>1 DEF Polynomials, BootPolynomials
<1>3. d = WithPhase(N, q, phase, cut, s)
  BY MaskIsCut
<1> HIDE DEF cut
<1> QED BY <1>2, <1>3, MadeInWork

\* What is made so is a ciphertext with that phase, modulo q.
LEMMA MadeInBoot ==
  ASSUME NEW q \in Nat, q > 0, NEW phase \in BootPolynomials, NEW mask \in BootPolynomials,
         NEW s \in BootPolynomials, NEW d, d = WithPhase(BootN, q, phase, mask, s)
  PROVE  /\ d[1] \in BootPolynomials /\ d[2] \in BootPolynomials
         /\ Times(BootN, d[2], s) \in BootPolynomials
         /\ \A k \in BootPowers : Same(d[1][k] + Times(BootN, d[2], s)[k], phase[k], q)
<1>1. BootN \in Nat /\ BootPowers = 0 .. BootN - 1 /\ BootPolynomials = [0 .. BootN - 1 -> Int]
  BY BootIs DEF BootPowers, BootPolynomials
<1>2. /\ d[1] \in [0 .. BootN - 1 -> Int] /\ d[2] \in [0 .. BootN - 1 -> Int]
      /\ \A k \in 0 .. BootN - 1 : Same(d[1][k] + Times(BootN, d[2], s)[k], phase[k], q)
  BY <1>1, PhaseOfMade
<1>3. Times(BootN, d[2], s) \in [0 .. BootN - 1 -> Int]
  <2> DEFINE a == d[2]
  <2>1. a \in [0 .. BootN - 1 -> Int] /\ s \in [0 .. BootN - 1 -> Int]
    BY <1>1, <1>2
  <2> HIDE DEF a
  <2>2. Times(BootN, a, s) \in [0 .. BootN - 1 -> Int]
    BY <1>1, <2>1, TimesIs
  <2> QED BY <2>2 DEF a
<1> QED BY <1>1, <1>2, <1>3

\* The clock's output says what the source says, if the source is within the
\* clock's allowance and the secret within its weight.
LEMMA OuterSays ==
  ASSUME NEW c, IsClock(c), NEW ct, ct[1] \in Polynomials, ct[2] \in Polynomials,
         NEW secret \in Ternary, NEW e, IsKeySwitch(e),
         Weight(secret) <= c.weight, NEW s \in BootPolynomials, NEW mask \in BootPolynomials,
         NEW out, out = Assembled([j \in Powers |-> Transduced(c, ct, j, secret, e)]),
         NEW d, d = WithPhase(BootN, c.bootQ, out.phase, mask, s)
  PROVE  /\ out.bound \in Nat
         /\ d[1] \in BootPolynomials /\ d[2] \in BootPolynomials
         /\ \A m \in [Powers -> Int] :
              Says(c, ct, secret, m, c.error) => SaysOuter(c, d, s, m, out.bound)
<1> DEFINE part == [j \in Powers |-> Transduced(c, ct, j, secret, e)]
<1>1. \A j \in Powers : part[j] = Transduced(c, ct, j, secret, e)
  OBVIOUS
<1> HIDE DEF part
<1>2. ArePhases(part)
  <2>1. ASSUME NEW j \in Powers
        PROVE part[j].phase \in BootPolynomials /\ part[j].bound \in Nat
    BY <1>1, TransducedTyped
  <2> QED BY <2>1 DEF ArePhases
<1>3. out = Assembled(part)
  BY DEF part
<1>4. out.phase \in BootPolynomials /\ out.bound \in Nat
  BY <1>2, <1>3, AssembledTyped
<1>5. c.bootQ \in Nat /\ c.bootQ > 0 /\ c.t \in Nat /\ c.t > 0 /\ c.q \in Nat
  BY ClockNumbers
<1>6. /\ d[1] \in BootPolynomials /\ d[2] \in BootPolynomials
      /\ Times(BootN, d[2], s) \in BootPolynomials
      /\ \A k \in BootPowers : Same(d[1][k] + Times(BootN, d[2], s)[k], out.phase[k], c.bootQ)
  <2> DEFINE phase == out.phase
             q == c.bootQ
  <2>1. phase \in BootPolynomials /\ q \in Nat /\ q > 0 /\ d = WithPhase(BootN, q, phase, mask, s)
    BY <1>4, <1>5
  <2> HIDE DEF phase, q
  <2>2. /\ d[1] \in BootPolynomials /\ d[2] \in BootPolynomials
        /\ Times(BootN, d[2], s) \in BootPolynomials
        /\ \A k \in BootPowers : Same(d[1][k] + Times(BootN, d[2], s)[k], phase[k], q)
    BY <2>1, MadeInBoot
  <2> QED BY <2>2 DEF phase, q
<1>7. ASSUME NEW m \in [Powers -> Int], Says(c, ct, secret, m, c.error)
      PROVE  SaysOuter(c, d, s, m, out.bound)
  <2>1. ASSUME NEW j \in Powers, NEW k \in BootPowers
        PROVE  Drifts(c.t * part[j].phase[k], c.bootQ * (IF k = 0 THEN m[j] ELSE 0),
                      part[j].bound, c.t * c.bootQ)
    <3> DEFINE v == m[j]
    <3>1. v \in Int
      OBVIOUS
    <3>2. Drifts(c.t * (ct[1][j] + Negacyclic(ct[2], secret)[j]), c.q * v, c.error, c.t * c.q)
      BY <1>7 DEF Says
    <3> HIDE DEF v
    <3>3. Drifts(c.t * Transduced(c, ct, j, secret, e).phase[k],
                 c.bootQ * (IF k = 0 THEN v ELSE 0),
                 Transduced(c, ct, j, secret, e).bound, c.t * c.bootQ)
      BY <3>1, <3>2, TransducedFollows
    <3> QED BY <1>1, <3>3 DEF v
  <2>2. ASSUME NEW k \in BootPowers
        PROVE  Drifts(c.t * (d[1][k] + Times(BootN, d[2], s)[k]), c.bootQ * Embedded(m, k),
                      out.bound, c.t * c.bootQ)
    <3> DEFINE x == d[1][k] + Times(BootN, d[2], s)[k]
               y == out.phase[k]
               z == c.bootQ * Embedded(m, k)
               t == c.t
               q == c.bootQ
               b == out.bound
    <3>1. Drifts(t * y, z, b, t * q) /\ Embedded(m, k) \in Int
      <4>1. /\ k % Ratio = 0 => k \div Ratio \in Powers
            /\ Drifts(t * Assembled(part).phase[k], q * (IF k % Ratio = 0 THEN m[k \div Ratio] ELSE 0),
                      Assembled(part).bound, t * q)
        <5> HIDE DEF t, q
        <5>1. t \in Nat /\ q \in Nat
          BY <1>5 DEF t, q
        <5>2. \A j \in Powers : \A i \in BootPowers :
                Drifts(t * part[j].phase[i], q * (IF i = 0 THEN m[j] ELSE 0), part[j].bound, t * q)
          BY <2>1 DEF t, q
        <5> QED BY <1>2, <5>1, <5>2, AssembledFollows
      <4> QED BY <1>3, <4>1 DEF Embedded
    <3>2. x \in Int /\ y \in Int /\ z \in Int /\ t \in Nat /\ q \in Int /\ b \in Int
      <4>1. d[1][k] \in Int /\ Times(BootN, d[2], s)[k] \in Int /\ out.phase[k] \in Int
        BY <1>4, <1>6 DEF BootPolynomials
      <4> QED BY <1>4, <1>5, <3>1, <4>1
    <3>3. Same(x, y, q)
      BY <1>6
    <3> HIDE DEF x, y, z, t, q, b
    <3>4. Drifts(t * x, z, b, t * q)
      BY <3>1, <3>2, <3>3, DriftsFor
    <3> QED BY <3>4 DEF x, z, t, q, b
  <2> QED BY <2>2 DEF SaysOuter
<1> QED BY <1>4, <1>6, <1>7

\* What comes back says what was in the boot ring.
LEMMA ReturnSays ==
  ASSUME NEW c, IsClock(c), c.bootQ = c.q, NEW e, IsKeySwitch(e),
         NEW ct, ct[1] \in BootPolynomials, ct[2] \in BootPolynomials,
         NEW s \in BootPolynomials, NEW secret \in Polynomials, NEW mask \in BootPolynomials,
         NEW b \in Nat,
         NEW d, d = WithPhase(N, c.q, ReturnedPhase(c, ct, s, e), mask, secret)
  PROVE  /\ b + ReturnBound(c) \in Nat
         /\ d[1] \in Polynomials /\ d[2] \in Polynomials
         /\ \A m \in [Powers -> Int] :
              SaysOuter(c, ct, s, m, b) => Says(c, d, secret, m, b + ReturnBound(c))
<1> DEFINE phase == ReturnedPhase(c, ct, s, e)
<1>1. /\ c.q \in Nat /\ c.q > 0 /\ c.t \in Nat /\ c.t > 0 /\ c.back \in Nat
      /\ Ratio \in Nat /\ Ratio >= 1
  BY ClockNumbers, BootIs
<1>2. /\ phase \in Polynomials
      /\ \A k \in Powers :
           /\ k * Ratio \in BootPowers
           /\ Drifts(phase[k], ct[1][k * Ratio] + Times(BootN, ct[2], s)[k * Ratio],
                     c.back * Ratio, c.q)
  BY <1>1, ReturnFollows
<1> HIDE DEF phase
<1>3. /\ d[1] \in Polynomials /\ d[2] \in Polynomials
      /\ \A k \in Powers : Same(d[1][k] + Negacyclic(d[2], secret)[k], phase[k], c.q)
  <2> DEFINE q == c.q
  <2>1. q \in Nat /\ q > 0 /\ d = WithPhase(N, q, phase, mask, secret)
    BY <1>1 DEF phase
  <2> HIDE DEF q
  <2>2. /\ d[1] \in Polynomials /\ d[2] \in Polynomials
        /\ \A k \in Powers : Same(d[1][k] + Negacyclic(d[2], secret)[k], phase[k], q)
    BY <1>2, <2>1, MadeWithMask
  <2> QED BY <2>2 DEF q
<1> DEFINE r == ReturnBound(c)
           noise == c.back * Ratio
<1>4. r \in Nat /\ noise \in Nat /\ c.t * noise = r
  <2> DEFINE x == c.back
             t == c.t
  <2>1. x \in Nat /\ t \in Nat
    BY <1>1
  <2>2. r = x * t * Ratio /\ noise = x * Ratio
    BY DEF ReturnBound
  <2> HIDE DEF x, t, r, noise
  <2>3. x * t * Ratio \in Nat /\ x * Ratio \in Nat /\ t * (x * Ratio) = x * t * Ratio
    BY <1>1, <2>1
  <2> QED BY <2>2, <2>3 DEF t
<1> HIDE DEF r, noise
<1>5. b + r \in Nat
  BY <1>4
<1>6. ASSUME NEW m \in [Powers -> Int], SaysOuter(c, ct, s, m, b)
      PROVE  Says(c, d, secret, m, b + r)
  <2>1. ASSUME NEW k \in Powers
        PROVE  Drifts(c.t * (d[1][k] + Negacyclic(d[2], secret)[k]), c.q * m[k], b + r, c.t * c.q)
    <3> DEFINE K == k * Ratio
               x == d[1][k] + Negacyclic(d[2], secret)[k]
               y == phase[k]
               z == ct[1][K] + Times(BootN, ct[2], s)[K]
               t == c.t
               q == c.q
               v == m[k]
    <3>1. K \in BootPowers
      BY <1>2
    <3>2. Embedded(m, K) = v
      <4>1. k \in Int /\ 0 \in 0 .. Ratio - 1 /\ Ratio > 0
        BY <1>1, DegreeIs DEF Powers
      <4>2. (Ratio * k + 0) \div Ratio = k /\ (Ratio * k + 0) % Ratio = 0
        BY <1>1, <4>1, QuotientIs
      <4>3. Ratio * k + 0 = K
        BY <1>1, <4>1
      <4>4. K \div Ratio = k /\ K % Ratio = 0
        <5> HIDE DEF K
        <5> QED BY <4>2, <4>3
      <4> HIDE DEF K
      <4> QED BY <4>4 DEF Embedded
    <3>3. x \in Int /\ y \in Int /\ z \in Int /\ v \in Int /\ t \in Nat /\ q \in Nat /\ q > 0
      <4>1. Negacyclic(d[2], secret)[k] \in Int /\ d[1][k] \in Int /\ phase[k] \in Int
        BY <1>2, <1>3, NegacyclicIs DEF Polynomials
      <4>2. ct[1][K] \in Int
        BY <3>1 DEF BootPolynomials
      <4>3. Times(BootN, ct[2], s)[K] \in Int
        <5> DEFINE a == ct[2]
        <5> HIDE DEF a
        <5>1. a \in BootPolynomials
          BY DEF a
        <5>2. Times(BootN, a, s)[K] \in Int
          BY <5>1, ProductByClasses
        <5> QED BY <5>2 DEF a
      <4> HIDE DEF K
      <4> QED BY <1>1, <4>1, <4>2, <4>3
    <3>4. Same(x, y, q) /\ Drifts(y, z, noise, q)
      BY <1>2, <1>3 DEF noise
    <3>5. Drifts(t * z, q * v, b, t * q)
      <4>1. Drifts(c.t * (ct[1][K] + Times(BootN, ct[2], s)[K]), c.bootQ * Embedded(m, K), b, c.t * c.bootQ)
        BY <1>6, <3>1 DEF SaysOuter
      <4> HIDE DEF K
      <4> QED BY <3>2, <4>1
    <3> HIDE DEF x, y, z, t, q, v, K
    <3>6. Drifts(t * y, t * z, r, t * q)
      <4>1. noise \in Int /\ q \in Int
        BY <1>4, <3>3
      <4>2. Drifts(t * y, t * z, t * noise, t * q)
        BY <3>3, <3>4, <4>1, DriftsScaled
      <4>3. t * noise = r
        BY <1>4 DEF t
      <4> QED BY <4>2, <4>3
    <3> DEFINE ty == t * y
               tz == t * z
               qv == q * v
               tq == t * q
    <3>7. ty \in Int /\ tz \in Int /\ qv \in Int /\ tq \in Int /\ r \in Int /\ b \in Int
      BY <1>4, <3>3
    <3>8. Drifts(ty, tz, r, tq) /\ Drifts(tz, qv, b, tq)
      BY <3>5, <3>6
    <3>9. Drifts(t * y, q * v, r + b, t * q)
      <4> HIDE DEF ty, tz, qv, tq
      <4>1. Drifts(ty, qv, r + b, tq)
        BY <3>7, <3>8, DriftsChain
      <4> QED BY <4>1 DEF ty, qv, tq
    <3>10. Drifts(t * x, qv, r + b, t * q)
      <4> DEFINE e1 == r + b
      <4>1. e1 \in Int /\ q \in Int
        BY <3>3, <3>7
      <4>2. Drifts(t * y, qv, e1, t * q)
        BY <3>9
      <4> HIDE DEF qv, e1
      <4>3. Drifts(t * x, qv, e1, t * q)
        BY <3>3, <3>4, <3>7, <4>1, <4>2, DriftsFor
      <4> QED BY <4>3 DEF e1
    <3>11. r + b = b + r
      BY <1>4
    <3> QED BY <3>10, <3>11 DEF t, x, q, v
  <2> QED BY <2>1 DEF Says
<1> QED BY <1>3, <1>5, <1>6 DEF r

-----------------------------------------------------------------------------
(* What the constructors accept.                                            *)

\* What a table says where it is read
Chosen(S) == IF S = {} THEN 0 ELSE CHOOSE v \in S : TRUE

\* A clock is read as its proposal is.
LEMMA ChartIsProposed ==
  ASSUME NEW c, NEW d, c.main = d.main, c.error = d.error, c.weight = d.weight,
         c.coordinate = d.coordinate, c.t = d.t
  PROVE  /\ TwiceWindow(c) = TwiceWindow(d)
         /\ \A r : Readings(c, r) = Readings(d, r)
         /\ TableMessage(c) = TableMessage(d)
<1>1. TwiceWindow(c) = TwiceWindow(d)
  BY DEF TwiceWindow
<1>2. \A r : Near(c, r) = Near(d, r)
  BY <1>1, Zenon DEF Near
<1>3. \A r : Readings(c, r) = Readings(d, r)
  <2> SUFFICES ASSUME NEW r PROVE Readings(c, r) = Readings(d, r)
    OBVIOUS
  <2> DEFINE x == Near(d, r)
             y == Near(d, (r + BootN) % Turn)
  <2>1. Readings(d, r) = x \cup {-v : v \in y}
    BY DEF Readings
  <2>2. Near(c, r) = x /\ Near(c, (r + BootN) % Turn) = y
    BY <1>2
  <2> HIDE DEF x, y
  <2>3. Readings(c, r) = x \cup {-v : v \in y}
    BY <2>2, Zenon DEF Readings
  <2> QED BY <2>1, <2>3
<1>4. \A r : Lookup(c, r) = Lookup(d, r)
  <2>1. \A r : Lookup(c, r) = Chosen(Readings(c, r)) /\ Lookup(d, r) = Chosen(Readings(d, r))
    BY Zenon DEF Lookup, Chosen
  <2> QED BY <1>3, <2>1
<1>5. TableMessage(c) = TableMessage(d)
  <2>1. /\ TableMessage(c) = [k \in BootPowers |-> IF k = 0 THEN Share(c, Lookup(c, 0))
                                               ELSE Share(c, -Lookup(c, BootN - k))]
        /\ TableMessage(d) = [k \in BootPowers |-> IF k = 0 THEN Share(d, Lookup(d, 0))
                                               ELSE Share(d, -Lookup(d, BootN - k))]
    BY Zenon DEF TableMessage, Share
  <2>2. \A v : Share(c, v) = Share(d, v)
    BY DEF Share
  <2>3. \A k \in BootPowers :
          (IF k = 0 THEN Share(c, Lookup(c, 0)) ELSE Share(c, -Lookup(c, BootN - k)))
            = (IF k = 0 THEN Share(d, Lookup(d, 0)) ELSE Share(d, -Lookup(d, BootN - k)))
    BY <1>4, <2>2
  <2> QED BY <2>1, <2>3
<1> QED BY <1>1, <1>3, <1>5

\* The noise of a switch is a number.
LEMMA SwitchNoiseIs ==
  ASSUME NEW n \in Nat, NEW moduli \in Seq(Nat \ {0})
  PROVE  SwitchNoise(n, moduli) \in Nat
<1> DEFINE f == [i \in DOMAIN moduli |-> GadgetDigits(moduli[i])]
<1>1. IsFiniteSet(DOMAIN moduli) /\ \A i \in DOMAIN moduli : moduli[i] \in Nat \ {0}
  <2>1. DOMAIN moduli = 1 .. Len(moduli) /\ Len(moduli) \in Nat
    OBVIOUS
  <2>2. 1 \in Int /\ Len(moduli) \in Int
    BY <2>1
  <2>3. IsFiniteSet(1 .. Len(moduli))
    BY <2>2, FS_Interval
  <2>4. \A i \in 1 .. Len(moduli) : moduli[i] \in Nat \ {0}
    BY <2>1
  <2> QED BY <2>1, <2>3, <2>4
<1>2. ASSUME NEW i \in DOMAIN moduli PROVE GadgetDigits(moduli[i]) \in Nat
  <2> DEFINE m == moduli[i]
             b == BitLength(m)
  <2>1. m \in Nat /\ m > 0
    BY <1>1
  <2> HIDE DEF m
  <2>2. b \in Nat
    BY <2>1, BitLengthIs
  <2>3. BaseBits \in Nat /\ BaseBits > 0
    BY ExactMultiplicationAssumption
  <2> HIDE DEF b
  <2>4. (b + BaseBits - 1) \div BaseBits \in Nat
    BY <2>2, <2>3
  <2> QED BY <2>4 DEF GadgetDigits, b, m
<1>3. f \in [DOMAIN moduli -> Nat]
  BY <1>2
<1>4. Total(f) \in Nat
  <2> HIDE DEF f
  <2> QED BY <1>1, <1>3, TotalIsNat
<1>5. SwitchNoise(n, moduli) = n * Eta * (TwoTo[BaseBits] - 1) * Total(f)
  BY Zenon DEF SwitchNoise, SumOver, Total
<1>6. TwoTo[BaseBits] - 1 \in Nat /\ Eta \in Nat
  <2>1. BaseBits \in Nat
    BY ExactMultiplicationAssumption
  <2>2. TwoTo[BaseBits] \in Nat \ {0}
    BY <2>1, TwoToIs
  <2> QED BY <2>2, ExactMultiplicationAssumption
<1> DEFINE x == TwoTo[BaseBits] - 1
           y == Total(f)
<1>7. x \in Nat /\ y \in Nat /\ Eta \in Nat
  BY <1>4, <1>6
<1> HIDE DEF x, y
<1>8. n * Eta \in Nat
  BY <1>7
<1>9. n * Eta * x \in Nat
  BY <1>7, <1>8
<1>10. n * Eta * x * y \in Nat
  BY <1>7, <1>9
<1> QED BY <1>5, <1>10 DEF x, y

\* The clients' side of a clock
AreClients(c) ==
  /\ c.secrets \in Seq(Ternary)
  /\ c.bundles \subseteq [client : Nat, family : DOMAIN BootSecrets, registered : BOOLEAN]
  /\ \A b \in c.bundles : b.client \in DOMAIN c.secrets
  /\ c.boot = c.main => c.bootQ = c.q

\* Odd numbers have a half to center by.
LEMMA OddIs ==
  ASSUME NEW n \in Nat, n % 2 = 1
  PROVE  \E h \in Nat : OddFrom(n, h)
<1>1. n = 2 * (n \div 2) + 1 /\ n \div 2 \in Nat
  OBVIOUS
<1> QED BY <1>1 DEF OddFrom

\* What plan and evaluator accept makes a clock.
LEMMA NewClockIs ==
  ASSUME NEW p \in Proposals, Accepts(p), Builds(p),
         \A b \in p.bundles : b.client \in DOMAIN p.secrets
  PROVE  IsClock(NewClock(p)) /\ AreClients(NewClock(p))
<1> DEFINE c == NewClock(p)
<1>1. /\ p.main \in Seq(Nat \ {0}) /\ p.boot \in Seq(Nat \ {0}) /\ p.t \in Nat /\ p.error \in Nat
      /\ p.weight \in Nat /\ p.coordinate \in Nat /\ p.secrets \in Seq(Ternary)
      /\ p.bundles \subseteq [client : Nat, family : DOMAIN BootSecrets, registered : BOOLEAN]
  BY DEF Proposals
<1>2. /\ c.main = p.main /\ c.boot = p.boot /\ c.t = p.t /\ c.error = p.error
      /\ c.weight = p.weight /\ c.coordinate = p.coordinate
      /\ c.secrets = p.secrets /\ c.bundles = p.bundles
      /\ c.q = Product(p.main) /\ c.bootQ = Product(p.boot)
      /\ c.message = TableMessage(p) /\ c.lookup = LookupBound(p)
      /\ c.controls = ControlsBound(p) /\ c.switch = SwitchNoise(BootN, p.boot)
      /\ c.trace = GaloisKeys /\ c.back = SwitchNoise(N, p.main)
  BY DEF NewClock
<1> HIDE DEF c
<1>3. /\ TwiceWindow(c) = TwiceWindow(p) /\ (\A r : Readings(c, r) = Readings(p, r))
      /\ TableMessage(c) = TableMessage(p)
  BY <1>2, ChartIsProposed
<1>4. /\ p.t >= 3 /\ p.t % 2 = 1 /\ p.coordinate >= 3 /\ p.coordinate % 2 = 1
      /\ p.error <= Product(p.main) \div 2
      /\ TwiceWindow(p) < BootN
      /\ \A r \in 0 .. Turn - 1 : Cardinality(Readings(p, r)) <= 1
  BY DEF Accepts
<1>5. Coprime(BootN, p.t) /\ p.coordinate > p.weight + 1
  BY DEF Builds
<1>6. /\ c.q \in Nat /\ c.q > 0 /\ c.bootQ \in Nat /\ c.bootQ > 0
      /\ Product(p.main) \in Nat /\ Product(p.main) > 0
  <2>1. Product(p.main) \in Nat \ {0} /\ Product(p.boot) \in Nat \ {0}
    BY <1>1, ProductIsPositive
  <2> QED BY <1>2, <2>1
<1>7. (\E h \in Nat : OddFrom(p.t, h)) /\ (\E h \in Nat : OddFrom(p.coordinate, h))
  BY <1>1, <1>4, OddIs
<1>8. c.switch \in Nat /\ c.back \in Nat
  BY <1>1, <1>2, SwitchNoiseIs, BootIs, DegreeIs
<1>9. TwiceWindow(p) \in Int
  <2> DEFINE x == 2 * Turn * p.error + Product(p.main) - 1
             y == p.coordinate * (p.weight + 1)
             q == Product(p.main)
  <2>1. Turn \in Nat
    BY BootIs
  <2>2. x \in Int
    <3> DEFINE z == 2 * Turn * p.error
    <3>1. z \in Int
      BY <1>1, <2>1
    <3> HIDE DEF z
    <3>2. x = z + q - 1 /\ q \in Nat
      BY <1>6 DEF z
    <3> HIDE DEF x, q
    <3>3. z + q - 1 \in Int
      BY <3>1, <3>2
    <3> QED BY <3>2, <3>3
  <2>3. y \in Int
    BY <1>1
  <2>4. q \in Nat /\ q > 0
    BY <1>6
  <2>5. TwiceWindow(p) = (x \div q) + y
    BY DEF TwiceWindow
  <2> HIDE DEF x, y, q
  <2>6. x \div q \in Int
    BY <2>2, <2>4, Division
  <2> QED BY <2>3, <2>5, <2>6
<1>10. IsChart(c)
  <2>1. \A r \in 0 .. Turn - 1 : Cardinality(Readings(c, r)) <= 1
    BY <1>3, <1>4
  <2> QED BY <1>1, <1>2, <1>3, <1>4, <1>7, <1>9, <2>1 DEF IsChart
<1>11. IsDial(c)
  BY <1>1, <1>2, <1>6, <1>7 DEF IsDial
<1>12. c.controls = c.switch * c.t * 4 * N
  BY <1>2 DEF ControlsBound
<1>13. c.lookup = ((c.bootQ % c.t) * Largest(c) + c.controls) * BootN + c.switch * c.t * (BootN - 1)
  <2>1. LookupBound(p)
          = ((Product(p.boot) % p.t) * Max({Magnitude(TableMessage(p)[k]) : k \in BootPowers})
              + ControlsBound(p)) * BootN + SwitchNoise(BootN, p.boot) * p.t * (BootN - 1)
    BY Zenon DEF LookupBound
  <2>2. Largest(c) = Max({Magnitude(TableMessage(p)[k]) : k \in BootPowers})
    <3> DEFINE f == TableMessage(p)
    <3>1. TableMessage(c) = f
      BY <1>3
    <3> HIDE DEF f
    <3>2. Largest(c) = Max({Magnitude(f[k]) : k \in BootPowers})
      BY <3>1, Zenon DEF Largest
    <3> QED BY <3>2 DEF f
  <2> DEFINE g == Max({Magnitude(TableMessage(p)[k]) : k \in BootPowers})
  <2> HIDE DEF g
  <2>3. Largest(c) = g /\ LookupBound(p) = ((Product(p.boot) % p.t) * g + ControlsBound(p)) * BootN
                                             + SwitchNoise(BootN, p.boot) * p.t * (BootN - 1)
    BY <2>1, <2>2 DEF g
  <2> QED BY <1>2, <2>3
<1>14. c.t > 0 /\ (\E h \in Nat : OddFrom(c.t, h)) /\ Coprime(BootN, c.t)
  BY <1>1, <1>2, <1>4, <1>5, <1>7
<1>15. c.weight \in Nat /\ c.coordinate > c.weight + 1 /\ c.error \in Nat /\ c.error <= c.q \div 2
  BY <1>1, <1>2, <1>4, <1>5
<1>16. c.q = Product(c.main) /\ c.message = TableMessage(c) /\ c.trace = GaloisKeys
  BY <1>2, <1>3
<1>17. IsClock(c)
  BY <1>6, <1>8, <1>10, <1>11, <1>12, <1>13, <1>14, <1>15, <1>16 DEF IsClock
<1>18. AreClients(c)
  BY <1>1, <1>2 DEF AreClients
<1> QED BY <1>17, <1>18 DEF c

-----------------------------------------------------------------------------
(* What is kept of the item on its way round.                               *)

\* A ciphertext of which the evaluator that it belongs to knows the message
Owned(i) == i.kind \in {"main", "input"} \/ (i.kind \in {"outer", "returned"} /\ i.owner # None)

\* The ciphertext on its way round says its message, wherever it is.
Keeping(c, i) ==
  /\ i = Item(i.kind, i.owner, i.family, i.ct, i.bound, i.message, i.refreshes)
  /\ i.kind \in {"raw", "main", "input", "outer", "returned"}
  /\ i.bound \in Nat
  /\ i.message = {} \/ \E m \in [Powers -> Int] : i.message = {m}
  /\ i.kind # "outer" => i.ct[1] \in Polynomials /\ i.ct[2] \in Polynomials
  /\ i.kind = "outer" => /\ i.ct[1] \in BootPolynomials /\ i.ct[2] \in BootPolynomials
                         /\ i.family \in DOMAIN BootSecrets
  /\ Owned(i) => i.owner \in DOMAIN c.secrets /\ i.message # {}
  /\ i.kind = "input" => i.bound <= c.error
  /\ Owned(i) /\ i.kind # "outer" =>
       \A m \in i.message : Says(c, i.ct, c.secrets[i.owner], m, i.bound)
  /\ i.kind = "outer" =>
       \A m \in i.message : SaysOuter(c, i.ct, BootSecrets[i.family], m, i.bound)

\* Secrets are polynomials.
LEMMA SecretsAre ==
  ASSUME NEW c, AreClients(c), NEW o \in DOMAIN c.secrets
  PROVE  /\ c.secrets[o] \in Ternary /\ c.secrets[o] \in Polynomials /\ o # None /\ o \in Nat
<1>1. c.secrets \in Seq(Ternary)
  BY DEF AreClients
<1> DEFINE s == c.secrets
<1>2. s \in Seq(Ternary) /\ o \in DOMAIN s
  BY <1>1
<1> HIDE DEF s
<1>3. DOMAIN s = 1 .. Len(s) /\ Len(s) \in Nat /\ s[o] \in Ternary
  BY <1>2
<1>4. o \in Nat /\ o # None
  BY <1>2, <1>3 DEF None
<1>5. s[o] \in Polynomials
  BY <1>3, TernaryIs
<1> QED BY <1>3, <1>4, <1>5 DEF s

\* The secrets of the families too
LEMMA BootSecretsAre ==
  ASSUME NEW f \in DOMAIN BootSecrets
  PROVE  BootSecrets[f] \in BootPolynomials
<1>1. BootSecrets[f] \in [0 .. BootN - 1 -> -1 .. 1]
  BY PhaseClockAssumption
<1>2. \A k \in 0 .. BootN - 1 : BootSecrets[f][k] \in Int
  BY <1>1
<1> QED BY <1>1, <1>2 DEF BootPolynomials, BootPowers

\* What is chosen from one message
LEMMA ChosenMessage ==
  ASSUME NEW m, NEW S, S = {m}
  PROVE  (CHOOSE x \in S : TRUE) = m
BY Zenon

\* Then its message is kept.
LEMMA KeepingKeeps ==
  ASSUME IsClock(clock), AreClients(clock), Keeping(clock, item)
  PROVE  RefreshKeepsMessage
<1>1. ASSUME Owned(item), item.kind # "outer"
      PROVE  /\ item.message # {}
             /\ LET phase == WorkPhase(clock, item.owner, item.ct)
                    m == CHOOSE m \in item.message : TRUE
                IN  \A k \in Powers :
                      Off(clock.q, clock.t, phase[k], m[k]) \in -item.bound .. item.bound
  <2>1. item.message # {} /\ item.owner \in DOMAIN clock.secrets /\ item.bound \in Nat
    BY <1>1 DEF Keeping
  <2>2. PICK m \in [Powers -> Int] : item.message = {m}
    BY <2>1 DEF Keeping
  <2> DEFINE s == clock.secrets[item.owner]
             x == CHOOSE m_1 \in item.message : TRUE
             b == item.bound
             ct == item.ct
  <2>3. s \in Polynomials
    BY <2>1, SecretsAre
  <2>4. Says(clock, ct, s, m, b) /\ ct[1] \in Polynomials /\ ct[2] \in Polynomials
    BY <1>1, <2>2 DEF Keeping
  <2>5. x = m
    BY <2>2, ChosenMessage
  <2>6. WorkPhase(clock, item.owner, ct) = PhaseIn(N, clock.q, ct, s)
    BY DEF WorkPhase
  <2> HIDE DEF s, x, b, ct
  <2>7. b \in Nat
    BY <2>1 DEF b
  <2>8. \A k \in Powers : Off(clock.q, clock.t, PhaseIn(N, clock.q, ct, s)[k], m[k]) \in -b .. b
    BY <2>3, <2>4, <2>7, SaysIs
  <2>9. \A k \in Powers : Off(clock.q, clock.t, WorkPhase(clock, item.owner, ct)[k], x[k]) \in -b .. b
    BY <2>5, <2>6, <2>8
  <2> QED BY <2>1, <2>9 DEF x, b, ct
<1>2. ASSUME item.kind = "outer", item.message # {}
      PROVE  LET phase == PhaseIn(BootN, clock.bootQ, item.ct, BootSecrets[item.family])
                 m == CHOOSE m \in item.message : TRUE
                 embedded(k) == IF k % Ratio = 0 THEN m[k \div Ratio] ELSE 0
             IN  \A k \in BootPowers :
                   Off(clock.bootQ, clock.t, phase[k], embedded(k)) \in -item.bound .. item.bound
  <2>1. item.family \in DOMAIN BootSecrets /\ item.bound \in Nat
    BY <1>2 DEF Keeping
  <2>2. PICK m \in [Powers -> Int] : item.message = {m}
    BY <1>2 DEF Keeping
  <2> DEFINE s == BootSecrets[item.family]
             x == CHOOSE m_1 \in item.message : TRUE
             b == item.bound
             ct == item.ct
  <2>3. s \in BootPolynomials
    BY <2>1, BootSecretsAre
  <2>4. SaysOuter(clock, ct, s, m, b) /\ ct[1] \in BootPolynomials /\ ct[2] \in BootPolynomials
    BY <1>2, <2>2 DEF Keeping
  <2>5. x = m
    BY <2>2, ChosenMessage
  <2> HIDE DEF s, x, b, ct
  <2>6. b \in Nat
    BY <2>1 DEF b
  <2>7. \A k \in BootPowers :
          Off(clock.bootQ, clock.t, PhaseIn(BootN, clock.bootQ, ct, s)[k], Embedded(m, k)) \in -b .. b
    BY <2>3, <2>4, <2>6, SaysOuterIs
  <2>8. \A k \in BootPowers :
          Off(clock.bootQ, clock.t, PhaseIn(BootN, clock.bootQ, ct, s)[k],
              IF k % Ratio = 0 THEN x[k \div Ratio] ELSE 0) \in -b .. b
    BY <2>5, <2>7 DEF Embedded
  <2> QED BY <2>8 DEF s, x, b, ct
<1>3. item.kind \in {"main", "input"} => Owned(item) /\ item.kind # "outer"
  BY DEF Owned
<1>4. item.kind = "returned" /\ item.owner # None => Owned(item) /\ item.kind # "outer"
  BY DEF Owned
<1> QED BY <1>1, <1>2, <1>3, <1>4, Zenon DEF RefreshKeepsMessage

\* What is read is a message.
LEMMA ReadFromIs ==
  ASSUME NEW c, IsClock(c), NEW phase, \A k \in Powers : phase[k] \in Int
  PROVE  ReadFrom(c, phase) \in [Powers -> Int]
<1>1. c.q \in Nat /\ c.q > 0 /\ c.t \in Nat /\ c.t > 0
  BY ClockNumbers
<1>2. ASSUME NEW k \in Powers PROVE RoundTo(c.t, c.q, phase[k]) % c.t \in Int
  <2> DEFINE x == phase[k]
             r == RoundTo(c.t, c.q, x)
  <2>1. x \in Int
    OBVIOUS
  <2> HIDE DEF x
  <2>2. r \in Int
    BY <1>1, <2>1, RoundToIs
  <2> HIDE DEF r
  <2>3. r % c.t \in 0 .. c.t - 1
    BY <1>1, <2>2, Division
  <2>4. r % c.t \in Int
    BY <1>1, <2>3
  <2> QED BY <2>4 DEF r, x
<1>3. ReadFrom(c, phase) = [k \in Powers |-> RoundTo(c.t, c.q, phase[k]) % c.t]
  BY Zenon DEF ReadFrom
<1> QED BY <1>2, <1>3

\* A source that is made to say it says it.
LEMMA MadeSays ==
  ASSUME NEW c, IsClock(c), NEW phase \in Polynomials, NEW mask \in Polynomials,
         NEW s \in Polynomials, NEW d, d = WithPhase(N, c.q, phase, mask, s),
         NEW m \in [Powers -> Int], NEW b \in Nat,
         \A k \in Powers : Off(c.q, c.t, phase[k], m[k]) \in -b .. b
  PROVE  Says(c, d, s, m, b)
<1>1. c.q \in Nat /\ c.q > 0 /\ c.t \in Nat /\ c.t > 0
  BY ClockNumbers
<1>2. /\ d[1] \in Polynomials /\ d[2] \in Polynomials
      /\ \A k \in Powers : Same(d[1][k] + Negacyclic(d[2], s)[k], phase[k], c.q)
  <2> DEFINE q == c.q
  <2>1. q \in Nat /\ q > 0 /\ d = WithPhase(N, q, phase, mask, s)
    BY <1>1
  <2> HIDE DEF q
  <2>2. /\ d[1] \in Polynomials /\ d[2] \in Polynomials
        /\ \A k \in Powers : Same(d[1][k] + Negacyclic(d[2], s)[k], phase[k], q)
    BY <2>1, MadeInWork
  <2> QED BY <2>2 DEF q
<1>3. ASSUME NEW k \in Powers
      PROVE  Drifts(c.t * (d[1][k] + Negacyclic(d[2], s)[k]), c.q * m[k], b, c.t * c.q)
  <2> DEFINE x == d[1][k] + Negacyclic(d[2], s)[k]
             y == phase[k]
             v == m[k]
             z == c.q * v
             t == c.t
             q == c.q
  <2>1. x \in Int /\ y \in Int /\ v \in Int /\ z \in Int /\ t \in Nat /\ t > 0
        /\ q \in Nat /\ q > 0 /\ q \in Int /\ b \in Int
    <3>1. d[1][k] \in Int /\ Negacyclic(d[2], s)[k] \in Int /\ phase[k] \in Int
      BY <1>2, NegacyclicIs DEF Polynomials
    <3>2. v \in Int
      OBVIOUS
    <3> HIDE DEF v
    <3>3. z \in Int
      BY <1>1, <3>2
    <3> QED BY <1>1, <3>1, <3>2, <3>3
  <2>2. Same(x, y, q) /\ Off(q, t, y, v) \in -b .. b
    BY <1>2
  <2>3. z = q * v
    OBVIOUS
  <2> HIDE DEF x, y, z, v, t, q
  <2>4. Drifts(t * y, q * v, b, t * q)
    BY <2>1, <2>2, OffIs
  <2>5. Drifts(t * y, z, b, t * q)
    BY <2>3, <2>4
  <2>6. Drifts(t * x, z, b, t * q)
    BY <2>1, <2>2, <2>5, DriftsFor
  <2> QED BY <2>6 DEF x, z, v, t, q
<1> QED BY <1>3 DEF Says

\* What is promised of a source, the source says.
LEMMA PromiseIs ==
  ASSUME NEW c, IsClock(c), AreClients(c), NEW o \in DOMAIN c.secrets,
         NEW ct, ct[1] \in Polynomials, ct[2] \in Polynomials
  PROVE  /\ Promise(c, o, ct) = {} \/ \E m \in [Powers -> Int] : Promise(c, o, ct) = {m}
         /\ \A m \in Promise(c, o, ct) : /\ m \in [Powers -> Int]
                                         /\ Says(c, ct, c.secrets[o], m, c.error)
<1> DEFINE s == c.secrets[o]
           phase == WorkPhase(c, o, ct)
           m0 == ReadFrom(c, phase)
<1>1. s \in Polynomials
  BY SecretsAre
<1>2. c.q \in Nat /\ c.q > 0 /\ c.t \in Nat /\ c.t > 0 /\ c.error \in Nat
  BY ClockNumbers
<1>3. phase = PhaseIn(N, c.q, ct, s)
  BY DEF WorkPhase
<1> HIDE DEF s, phase
<1>4. \A k \in Powers : phase[k] \in Int
  <2>1. ASSUME NEW k \in Powers PROVE phase[k] \in Int
    <3> DEFINE x == ct[1][k] + Times(N, ct[2], s)[k]
    <3>1. Times(N, ct[2], s) = Negacyclic(ct[2], s)
      BY <1>1, TimesIsNegacyclic
    <3>2. x \in Int
      <4>1. Negacyclic(ct[2], s)[k] \in Int /\ ct[1][k] \in Int
        BY <1>1, NegacyclicIs DEF Polynomials
      <4> QED BY <3>1, <4>1
    <3>3. k \in 0 .. N - 1
      BY DEF Powers
    <3>4. phase[k] = x % c.q
      BY <1>3, <3>3 DEF PhaseIn
    <3> HIDE DEF x
    <3>5. x % c.q \in 0 .. c.q - 1
      BY <1>2, <3>2, Division
    <3>6. x % c.q \in Int
      BY <1>2, <3>5
    <3> QED BY <3>4, <3>6
  <2> QED BY <2>1
<1>5. m0 \in [Powers -> Int]
  BY <1>4, ReadFromIs
<1>6. Promise(c, o, ct)
        = IF \A k \in Powers : Off(c.q, c.t, phase[k], m0[k]) \in -c.error .. c.error
          THEN {m0} ELSE {}
  BY Zenon DEF Promise, phase
<1> HIDE DEF m0
<1>7. CASE \A k \in Powers : Off(c.q, c.t, phase[k], m0[k]) \in -c.error .. c.error
  <2>1. Promise(c, o, ct) = {m0}
    BY <1>6, <1>7, Zenon
  <2>2. Says(c, ct, s, m0, c.error)
    <3> DEFINE b == c.error
    <3>1. b \in Nat /\ \A k \in Powers : Off(c.q, c.t, PhaseIn(N, c.q, ct, s)[k], m0[k]) \in -b .. b
      BY <1>2, <1>3, <1>7
    <3> HIDE DEF b
    <3>2. Says(c, ct, s, m0, b)
      BY <1>1, <1>5, <3>1, SaysIs
    <3> QED BY <3>2 DEF b
  <2> QED BY <1>5, <2>1, <2>2 DEF s
<1>8. CASE ~ \A k \in Powers : Off(c.q, c.t, phase[k], m0[k]) \in -c.error .. c.error
  <2>1. Promise(c, o, ct) = {}
    BY <1>6, <1>8, Zenon
  <2> QED BY <2>1
<1> QED BY <1>7, <1>8

\* The invariant: the clock is one that was accepted and built, and the item
\* says its message under the secret of whoever owns it.
ClockInv ==
  /\ IsClock(clock) /\ AreClients(clock) /\ IsKeySwitch(errors)
  /\ Keeping(clock, item)

\* The fields of an item
LEMMA ItemIs ==
  ASSUME NEW i, NEW kind, NEW owner, NEW family, NEW ct, NEW bound, NEW message, NEW refreshes,
         i = Item(kind, owner, family, ct, bound, message, refreshes)
  PROVE  /\ i.kind = kind /\ i.owner = owner /\ i.family = family /\ i.ct = ct
         /\ i.bound = bound /\ i.message = message /\ i.refreshes = refreshes
         /\ i = Item(i.kind, i.owner, i.family, i.ct, i.bound, i.message, i.refreshes)
BY DEF Item

\* The constants are of their types.
LEMMA SwitchesAre ==
  ASSUME NEW e \in Switches
  PROVE  IsKeySwitch(e)
<1>1. e \in [plus  : [0 .. BootN - 1 -> -1 .. 1], minus : [0 .. BootN - 1 -> -1 .. 1],
             trace : [0 .. BootN - 1 -> -1 .. 1], back  : [Powers -> -1 .. 1]]
  BY PhaseClockAssumption
<1> QED BY <1>1 DEF IsKeySwitch, Signs, BootPowers, Ternary

\* and masks too.
LEMMA MasksAre ==
  ASSUME NEW mask \in Masks
  PROVE  mask \in BootPolynomials
BY PhaseClockAssumption DEF BootPolynomials, BootPowers

\* What is set up is kept.
LEMMA ClockStarts == ClockInit => ClockInv
<1> SUFFICES ASSUME ClockInit PROVE ClockInv
  OBVIOUS
<1>1. PICK p \in SetUps :
        /\ Accepts(p[1]) /\ Builds(p[1])
        /\ clock = NewClock(p[1])
        /\ \E s \in p[2] : item = Item(s.kind, s.owner, None,
                                       WithPhase(N, clock.q, s.phase, s.mask, clock.secrets[s.owner]),
                                       s.bound, {ReadFrom(clock, s.phase)}, 0)
  BY Zenon DEF ClockInit
<1>2. PICK s \in p[2] : item = Item(s.kind, s.owner, None,
                                    WithPhase(N, clock.q, s.phase, s.mask, clock.secrets[s.owner]),
                                    s.bound, {ReadFrom(clock, s.phase)}, 0)
  BY <1>1
<1>3. IsKeySwitch(errors)
  BY SwitchesAre DEF ClockInit
<1>4. /\ p[1] \in Proposals /\ \A b \in p[1].bundles : b.client \in DOMAIN p[1].secrets
      /\ s \in Sources /\ s.owner \in DOMAIN p[1].secrets
      /\ s.kind = "main" =>
           \A k \in Powers :
             Off(Product(p[1].main), p[1].t, s.phase[k],
                 RoundTo(p[1].t, Product(p[1].main), s.phase[k]) % p[1].t) \in -s.bound .. s.bound
  BY SetUpsAssumption, Zenon
<1>5. IsClock(clock) /\ AreClients(clock)
  BY <1>1, <1>4, NewClockIs
<1>6. /\ s.kind \in {"raw", "main"} /\ s.phase \in [Powers -> Nat] /\ s.mask \in Polynomials
      /\ s.bound \in Nat
  BY <1>4 DEF Sources
<1>7. clock.q = Product(p[1].main) /\ clock.t = p[1].t /\ clock.secrets = p[1].secrets
  BY <1>1 DEF NewClock
<1> DEFINE phase == s.phase
           mask == s.mask
           secret == clock.secrets[s.owner]
           d == WithPhase(N, clock.q, phase, mask, secret)
           m == ReadFrom(clock, phase)
           b == s.bound
<1>8. phase \in Polynomials /\ mask \in Polynomials /\ b \in Nat
  BY <1>6 DEF Polynomials
<1>9. secret \in Polynomials /\ s.owner \in DOMAIN clock.secrets
  BY <1>4, <1>5, <1>7, SecretsAre
<1>10. m \in [Powers -> Int] /\ \A k \in Powers : m[k] = RoundTo(clock.t, clock.q, phase[k]) % clock.t
  <2>1. \A k \in Powers : phase[k] \in Int
    BY <1>8 DEF Polynomials
  <2>2. m \in [Powers -> Int]
    <3> HIDE DEF phase
    <3> QED BY <1>5, <2>1, ReadFromIs
  <2>3. m = [k \in Powers |-> RoundTo(clock.t, clock.q, phase[k]) % clock.t]
    BY Zenon DEF ReadFrom
  <2> HIDE DEF m
  <2> QED BY <2>2, <2>3
<1>11. item = Item(s.kind, s.owner, None, d, b, {m}, 0)
  BY <1>2
<1>12. s.kind = "main" => Says(clock, d, secret, m, b)
  <2> SUFFICES ASSUME s.kind = "main" PROVE Says(clock, d, secret, m, b)
    OBVIOUS
  <2>1. \A k \in Powers : Off(clock.q, clock.t, phase[k], m[k]) \in -b .. b
    <3> HIDE DEF m
    <3> QED BY <1>4, <1>7, <1>10
  <2>2. d = WithPhase(N, clock.q, phase, mask, secret)
    OBVIOUS
  <2> HIDE DEF phase, mask, secret, m, d, b
  <2> QED BY <1>5, <1>8, <1>9, <1>10, <2>1, <2>2, MadeSays
<1>13. d[1] \in Polynomials /\ d[2] \in Polynomials
  <2> DEFINE q == clock.q
  <2>1. q \in Nat /\ q > 0 /\ d = WithPhase(N, q, phase, mask, secret)
    BY <1>5, ClockNumbers
  <2> HIDE DEF phase, mask, secret, q, d
  <2> QED BY <1>8, <1>9, <2>1, MadeInWork
<1> HIDE DEF phase, mask, secret, m, d, b
<1>14. /\ item.kind = s.kind /\ item.owner = s.owner /\ item.ct = d /\ item.bound = b
       /\ item.message = {m}
       /\ item = Item(item.kind, item.owner, item.family, item.ct, item.bound, item.message,
                      item.refreshes)
  BY <1>11, ItemIs
<1>15. item.message = {} \/ \E m_1 \in [Powers -> Int] : item.message = {m_1}
  BY <1>10, <1>14
<1>16. item.kind # "outer" /\ item.kind # "input" /\ item.kind # "returned"
       /\ item.kind \in {"raw", "main", "input", "outer", "returned"}
       /\ (Owned(item) => item.kind = "main")
  BY <1>6, <1>14 DEF Owned
<1>17. Owned(item) => \A m_1 \in item.message : Says(clock, item.ct, clock.secrets[item.owner], m_1, item.bound)
  BY <1>12, <1>14, <1>16 DEF secret
<1>18. item.bound \in Nat /\ item.ct[1] \in Polynomials /\ item.ct[2] \in Polynomials
       /\ item.owner \in DOMAIN clock.secrets /\ item.message # {}
  BY <1>8, <1>9, <1>13, <1>14
<1>19. Keeping(clock, item)
  BY <1>14, <1>15, <1>16, <1>17, <1>18 DEF Keeping
<1> QED BY <1>3, <1>5, <1>19 DEF ClockInv

-----------------------------------------------------------------------------
(* The steps.                                                               *)

\* An owned ciphertext, taken apart
LEMMA OwnedIs ==
  ASSUME NEW c, AreClients(c), NEW i, Keeping(c, i), Owned(i)
  PROVE  /\ i.owner \in DOMAIN c.secrets /\ c.secrets[i.owner] \in Polynomials /\ i.bound \in Nat
         /\ i.kind # "outer" => i.ct[1] \in Polynomials /\ i.ct[2] \in Polynomials
         /\ \E m \in [Powers -> Int] :
              /\ i.message = {m}
              /\ i.kind # "outer" => Says(c, i.ct, c.secrets[i.owner], m, i.bound)
<1>1. i.owner \in DOMAIN c.secrets /\ i.message # {} /\ i.bound \in Nat
  BY DEF Keeping
<1>2. c.secrets[i.owner] \in Polynomials
  BY <1>1, SecretsAre
<1>3. PICK m \in [Powers -> Int] : i.message = {m}
  BY <1>1 DEF Keeping
<1>4. i.kind # "outer" => Says(c, i.ct, c.secrets[i.owner], m, i.bound)
  BY <1>3 DEF Keeping
<1>5. i.kind # "outer" => i.ct[1] \in Polynomials /\ i.ct[2] \in Polynomials
  BY DEF Keeping
<1> QED BY <1>1, <1>2, <1>3, <1>4, <1>5

\* A ciphertext of the work ring that is owned by a client whose secret reads
\* its message in it
LEMMA OwnedKeeps ==
  ASSUME NEW c, NEW i, i = Item(i.kind, i.owner, i.family, i.ct, i.bound, i.message, i.refreshes),
         i.kind \in {"main", "input", "returned"}, i.bound \in Nat,
         i.ct[1] \in Polynomials, i.ct[2] \in Polynomials, i.owner \in DOMAIN c.secrets,
         i.kind = "input" => i.bound <= c.error,
         NEW m \in [Powers -> Int], i.message = {m},
         Says(c, i.ct, c.secrets[i.owner], m, i.bound)
  PROVE  Keeping(c, i)
<1>1. i.message = {} \/ \E m_1 \in [Powers -> Int] : i.message = {m_1}
  OBVIOUS
<1>2. i.kind # "outer" /\ i.kind \in {"raw", "main", "input", "outer", "returned"}
  OBVIOUS
<1>3. i.message # {} /\ \A m_1 \in i.message : Says(c, i.ct, c.secrets[i.owner], m_1, i.bound)
  OBVIOUS
<1> QED BY <1>1, <1>2, <1>3 DEF Keeping

\* The steps of the client: doubling, ingress, admission
LEMMA DoubledKeeps ==
  ASSUME ClockInv, Doubled
  PROVE  ClockInv'
<1>1. IsClock(clock) /\ AreClients(clock) /\ IsKeySwitch(errors) /\ Keeping(clock, item)
  BY DEF ClockInv
<1>2. item.kind = "main" /\ Owned(item)
  BY DEF Doubled, Owned
<1>3. /\ item.owner \in DOMAIN clock.secrets /\ clock.secrets[item.owner] \in Polynomials
      /\ item.bound \in Nat /\ item.ct[1] \in Polynomials /\ item.ct[2] \in Polynomials
  BY <1>1, <1>2, OwnedIs
<1>4. PICK m \in [Powers -> Int] :
        item.message = {m} /\ Says(clock, item.ct, clock.secrets[item.owner], m, item.bound)
  BY <1>1, <1>2, OwnedIs
<1> DEFINE d == <<Mod([k \in Powers |-> 2 * item.ct[1][k]], clock.q),
                  Mod([k \in Powers |-> 2 * item.ct[2][k]], clock.q)>>
           w == [k \in Powers |-> (2 * m[k]) % clock.t]
           ws == {[k \in Powers |-> (2 * m_1[k]) % clock.t] : m_1 \in item.message}
           s == clock.secrets[item.owner]
<1>5. /\ d[1] \in Polynomials /\ d[2] \in Polynomials /\ w \in [Powers -> Int]
      /\ Says(clock, d, s, w, 2 * item.bound)
  <2> DEFINE ct == item.ct
             b == item.bound
  <2>1. /\ ct[1] \in Polynomials /\ ct[2] \in Polynomials /\ s \in Polynomials /\ b \in Nat
        /\ Says(clock, ct, s, m, b)
        /\ d = <<Mod([k \in Powers |-> 2 * ct[1][k]], clock.q), Mod([k \in Powers |-> 2 * ct[2][k]], clock.q)>>
    BY <1>3, <1>4
  <2> HIDE DEF ct, b, d, s
  <2>2. /\ d[1] \in Polynomials /\ d[2] \in Polynomials
        /\ [k \in Powers |-> (2 * m[k]) % clock.t] \in [Powers -> Int]
        /\ Says(clock, d, s, [k \in Powers |-> (2 * m[k]) % clock.t], 2 * b)
    BY <1>1, <2>1, TwiceSays
  <2> QED BY <2>2 DEF b
<1>6. ws = {w}
  BY <1>4
<1>7. item = Item(item.kind, item.owner, item.family, item.ct, item.bound, item.message, item.refreshes)
  BY <1>1 DEF Keeping
<1>8. item' = [item EXCEPT !.ct = d, !.bound = 2 * item.bound, !.message = ws]
  BY Zenon DEF Doubled
<1>9. clock' = clock /\ errors' = errors
  BY DEF Doubled
<1> HIDE DEF d, w, ws
<1>10. item' = Item(item.kind, item.owner, item.family, d, 2 * item.bound, ws, item.refreshes)
  BY <1>7, <1>8 DEF Item
<1> DEFINE i == item'
<1>11. /\ i.kind = item.kind /\ i.owner = item.owner /\ i.ct = d /\ i.bound = 2 * item.bound
       /\ i.message = ws /\ i = Item(i.kind, i.owner, i.family, i.ct, i.bound, i.message, i.refreshes)
  <2> HIDE DEF i
  <2>1. i = Item(item.kind, item.owner, item.family, d, 2 * item.bound, ws, item.refreshes)
    BY <1>10 DEF i
  <2> QED BY <2>1, ItemIs
<1> HIDE DEF i
<1>12. Keeping(clock, i)
  <2>1. /\ i.kind \in {"main", "input", "returned"} /\ i.kind # "input" /\ i.bound \in Nat
        /\ i.ct[1] \in Polynomials /\ i.ct[2] \in Polynomials /\ i.owner \in DOMAIN clock.secrets
        /\ i.message = {w} /\ Says(clock, i.ct, clock.secrets[i.owner], w, i.bound)
    BY <1>2, <1>3, <1>5, <1>6, <1>11
  <2> QED BY <1>5, <1>11, <2>1, OwnedKeeps
<1>13. Keeping(clock', item')
  BY <1>9, <1>12 DEF i
<1> QED BY <1>1, <1>9, <1>13 DEF ClockInv

\* Only a ciphertext within the clock's allowance enters.
LEMMA IngressKeeps ==
  ASSUME ClockInv, Ingress
  PROVE  ClockInv'
<1>1. IsClock(clock) /\ AreClients(clock) /\ IsKeySwitch(errors) /\ Keeping(clock, item)
  BY DEF ClockInv
<1>2. item.kind = "main" /\ Owned(item) /\ item.bound <= clock.error
  BY DEF Ingress, Owned
<1>3. /\ item.owner \in DOMAIN clock.secrets
      /\ item.bound \in Nat /\ item.ct[1] \in Polynomials /\ item.ct[2] \in Polynomials
  BY <1>1, <1>2, OwnedIs
<1>4. PICK m \in [Powers -> Int] :
        item.message = {m} /\ Says(clock, item.ct, clock.secrets[item.owner], m, item.bound)
  BY <1>1, <1>2, OwnedIs
<1>5. item = Item(item.kind, item.owner, item.family, item.ct, item.bound, item.message, item.refreshes)
  BY <1>1 DEF Keeping
<1>6. item' = [item EXCEPT !.kind = "input"] /\ clock' = clock /\ errors' = errors
  BY DEF Ingress
<1>7. item' = Item("input", item.owner, item.family, item.ct, item.bound, item.message, item.refreshes)
  BY <1>5, <1>6 DEF Item
<1> DEFINE i == item'
<1>8. /\ i.kind = "input" /\ i.owner = item.owner /\ i.ct = item.ct /\ i.bound = item.bound
      /\ i.message = item.message
      /\ i = Item(i.kind, i.owner, i.family, i.ct, i.bound, i.message, i.refreshes)
  <2> HIDE DEF i
  <2>1. i = Item("input", item.owner, item.family, item.ct, item.bound, item.message, item.refreshes)
    BY <1>7 DEF i
  <2> QED BY <2>1, ItemIs
<1> HIDE DEF i
<1>9. Keeping(clock, i)
  <2>1. /\ i.kind \in {"main", "input", "returned"} /\ i.bound <= clock.error /\ i.bound \in Nat
        /\ i.ct[1] \in Polynomials /\ i.ct[2] \in Polynomials /\ i.owner \in DOMAIN clock.secrets
        /\ i.message = {m} /\ Says(clock, i.ct, clock.secrets[i.owner], m, i.bound)
    BY <1>2, <1>3, <1>4, <1>8
  <2> QED BY <1>8, <2>1, OwnedKeeps
<1>10. Keeping(clock', item')
  BY <1>6, <1>9 DEF i
<1> QED BY <1>1, <1>6, <1>10 DEF ClockInv

\* A ciphertext that came back is admitted for its client.
LEMMA AdmitKeeps ==
  ASSUME ClockInv, NEW client \in DOMAIN clock.secrets, Admit(client)
  PROVE  ClockInv'
<1>1. IsClock(clock) /\ AreClients(clock) /\ IsKeySwitch(errors) /\ Keeping(clock, item)
  BY DEF ClockInv
<1>2. item.kind = "returned" /\ item.owner = client /\ Owned(item)
  <2>1. client # None
    BY <1>1, SecretsAre
  <2> QED BY <2>1 DEF Admit, Owned, HasReceipt
<1>3. /\ item.owner \in DOMAIN clock.secrets
      /\ item.bound \in Nat /\ item.ct[1] \in Polynomials /\ item.ct[2] \in Polynomials
  BY <1>1, <1>2, OwnedIs
<1>4. PICK m \in [Powers -> Int] :
        item.message = {m} /\ Says(clock, item.ct, clock.secrets[item.owner], m, item.bound)
  BY <1>1, <1>2, OwnedIs
<1>5. item = Item(item.kind, item.owner, item.family, item.ct, item.bound, item.message, item.refreshes)
  BY <1>1 DEF Keeping
<1>6. /\ item' = [item EXCEPT !.kind = "main", !.owner = client, !.family = None]
      /\ clock' = clock /\ errors' = errors
  BY DEF Admit
<1>7. item' = Item("main", client, None, item.ct, item.bound, item.message, item.refreshes)
  BY <1>5, <1>6 DEF Item
<1> DEFINE i == item'
<1>8. /\ i.kind = "main" /\ i.owner = item.owner /\ i.ct = item.ct /\ i.bound = item.bound
      /\ i.message = item.message
      /\ i = Item(i.kind, i.owner, i.family, i.ct, i.bound, i.message, i.refreshes)
  <2> HIDE DEF i
  <2>1. i = Item("main", client, None, item.ct, item.bound, item.message, item.refreshes)
    BY <1>7 DEF i
  <2> QED BY <1>2, <2>1, ItemIs
<1> HIDE DEF i
<1>9. Keeping(clock, i)
  <2>1. /\ i.kind \in {"main", "input", "returned"} /\ i.kind # "input" /\ i.bound \in Nat
        /\ i.ct[1] \in Polynomials /\ i.ct[2] \in Polynomials /\ i.owner \in DOMAIN clock.secrets
        /\ i.message = {m} /\ Says(clock, i.ct, clock.secrets[i.owner], m, i.bound)
    BY <1>3, <1>4, <1>8
  <2> QED BY <1>8, <2>1, OwnedKeeps
<1>10. Keeping(clock', item')
  BY <1>6, <1>9 DEF i
<1> QED BY <1>1, <1>6, <1>10 DEF ClockInv

\* The keys of a bundle are those of a client and of a family.
LEMMA BundleIs ==
  ASSUME AreClients(clock), NEW b \in clock.bundles
  PROVE  /\ b.client \in DOMAIN clock.secrets /\ clock.secrets[b.client] \in Ternary
         /\ clock.secrets[b.client] \in Polynomials
         /\ b.family \in DOMAIN BootSecrets /\ BootSecrets[b.family] \in BootPolynomials
         /\ Domain(b) # None => Domain(b) = b.client
<1>1. b \in [client : Nat, family : DOMAIN BootSecrets, registered : BOOLEAN]
      /\ b.client \in DOMAIN clock.secrets
  BY DEF AreClients
<1>2. b.family \in DOMAIN BootSecrets
  BY <1>1
<1>3. clock.secrets[b.client] \in Ternary /\ clock.secrets[b.client] \in Polynomials
  BY <1>1, SecretsAre
<1>4. BootSecrets[b.family] \in BootPolynomials
  BY <1>2, BootSecretsAre
<1>5. Domain(b) # None => Domain(b) = b.client
  BY DEF Domain
<1> QED BY <1>1, <1>2, <1>3, <1>4, <1>5

\* What a bundle makes of a source says what the source says under the
\* bundle's own secret.
LEMMA OuterKeeps ==
  ASSUME ClockInv, NEW b \in clock.bundles, NEW mask \in Masks, HasKeys(b), item.kind # "outer",
         NEW owner, NEW message, message = {} \/ \E m \in [Powers -> Int] : message = {m},
         \A m \in message : m \in [Powers -> Int]
                              /\ Says(clock, item.ct, clock.secrets[b.client], m, clock.error),
         owner # None => owner \in DOMAIN clock.secrets /\ message # {}
  PROVE  /\ Keeping(clock, Outer(b, owner, message, mask))
         /\ Outer(b, owner, message, mask).kind = "outer"
         /\ Outer(b, owner, message, mask).owner = owner
<1> DEFINE secret == clock.secrets[b.client]
           s == BootSecrets[b.family]
           ct == item.ct
           out == Assembled([j \in Powers |-> Transduced(clock, ct, j, secret, errors)])
           d == WithPhase(BootN, clock.bootQ, out.phase, mask, s)
           i == Outer(b, owner, message, mask)
<1>1. IsClock(clock) /\ AreClients(clock) /\ IsKeySwitch(errors) /\ Keeping(clock, item)
  BY DEF ClockInv
<1>2. secret \in Ternary /\ s \in BootPolynomials /\ b.family \in DOMAIN BootSecrets
  BY <1>1, BundleIs
<1>3. ct[1] \in Polynomials /\ ct[2] \in Polynomials
  BY <1>1 DEF Keeping
<1>4. Weight(secret) <= clock.weight
  BY DEF HasKeys
<1>5. mask \in BootPolynomials
  BY MasksAre
<1>6. i = Item("outer", owner, b.family, d, out.bound, message, item.refreshes + 1)
  <2> DEFINE part == [j \in Powers |-> Transduced(clock, ct, j, secret, errors)]
  <2>1. Computed(part) = part
    <3> HIDE DEF part
    <3> QED BY ComputedIs
  <2>2. i = Item("outer", owner, b.family,
                 WithPhase(BootN, clock.bootQ, Assembled(Computed(part)).phase, mask, BootSecrets[b.family]),
                 Assembled(Computed(part)).bound, message, item.refreshes + 1)
    BY Zenon DEF Outer
  <2>3. out = Assembled(part)
    OBVIOUS
  <2>4. d = WithPhase(BootN, clock.bootQ, out.phase, mask, BootSecrets[b.family])
    OBVIOUS
  <2> HIDE DEF part, out, d, i
  <2> QED BY <2>1, <2>2, <2>3, <2>4
<1>7. /\ out.bound \in Nat
      /\ d[1] \in BootPolynomials /\ d[2] \in BootPolynomials
      /\ \A m \in [Powers -> Int] :
           Says(clock, ct, secret, m, clock.error) => SaysOuter(clock, d, s, m, out.bound)
  <2>1. out = Assembled([j \in Powers |-> Transduced(clock, ct, j, secret, errors)])
        /\ d = WithPhase(BootN, clock.bootQ, out.phase, mask, s)
    OBVIOUS
  <2> HIDE DEF out, d, secret, ct, s
  <2> QED BY <1>1, <1>2, <1>3, <1>4, <1>5, <2>1, OuterSays
<1>8. \A m \in message : SaysOuter(clock, d, s, m, out.bound)
  <2> HIDE DEF out, d, s
  <2> QED BY <1>7
<1> HIDE DEF secret, ct, out, d, i
<1>9. /\ i.kind = "outer" /\ i.owner = owner /\ i.family = b.family /\ i.ct = d
      /\ i.bound = out.bound /\ i.message = message
      /\ i = Item(i.kind, i.owner, i.family, i.ct, i.bound, i.message, i.refreshes)
  BY <1>6, ItemIs
<1>10. i.message = {} \/ \E m \in [Powers -> Int] : i.message = {m}
  BY <1>9
<1>11. Owned(i) => i.owner \in DOMAIN clock.secrets /\ i.message # {}
  BY <1>9 DEF Owned
<1>12. \A m \in i.message : SaysOuter(clock, i.ct, BootSecrets[i.family], m, i.bound)
  BY <1>8, <1>9 DEF s
<1>13. /\ i.kind \in {"raw", "main", "input", "outer", "returned"} /\ i.bound \in Nat
       /\ i.ct[1] \in BootPolynomials /\ i.ct[2] \in BootPolynomials
       /\ i.family \in DOMAIN BootSecrets /\ i.kind # "input"
  BY <1>2, <1>7, <1>9
<1>14. Keeping(clock, i)
  BY <1>9, <1>10, <1>11, <1>12, <1>13 DEF Keeping
<1> QED BY <1>9, <1>14 DEF i

\* What a bundle brings back says it to the bundle's client.
LEMMA ReturnedKeeps ==
  ASSUME IsClock(clock), AreClients(clock), IsKeySwitch(errors),
         NEW outer, Keeping(clock, outer), outer.kind = "outer",
         NEW b \in clock.bundles, NEW mask \in Masks, ReturnsTo(b, outer)
  PROVE  Keeping(clock, Returned(b, outer, mask))
<1> DEFINE secret == clock.secrets[b.client]
           s == BootSecrets[b.family]
           ct == outer.ct
           d == WithPhase(N, clock.q, ReturnedPhase(clock, ct, s, errors), mask, secret)
           i == Returned(b, outer, mask)
           r == outer.bound + ReturnBound(clock)
<1>1. b.family = outer.family /\ (outer.owner # None => outer.owner = Domain(b)) /\ clock.boot = clock.main
  BY DEF ReturnsTo, HasReturn
<1>2. clock.bootQ = clock.q
  BY <1>1 DEF AreClients
<1>3. secret \in Polynomials /\ s \in BootPolynomials
  BY BundleIs
<1>4. /\ outer = Item(outer.kind, outer.owner, outer.family, outer.ct, outer.bound, outer.message,
                      outer.refreshes)
      /\ outer.bound \in Nat /\ ct[1] \in BootPolynomials /\ ct[2] \in BootPolynomials
      /\ outer.message = {} \/ \E m \in [Powers -> Int] : outer.message = {m}
      /\ \A m \in outer.message : SaysOuter(clock, ct, s, m, outer.bound)
      /\ outer.owner # None => outer.owner \in DOMAIN clock.secrets /\ outer.message # {}
  BY <1>1 DEF Keeping, Owned
<1>5. mask \in BootPolynomials
  BY MasksAre
<1>6. /\ r \in Nat /\ d[1] \in Polynomials /\ d[2] \in Polynomials
      /\ \A m \in [Powers -> Int] :
           SaysOuter(clock, ct, s, m, outer.bound) => Says(clock, d, secret, m, r)
  <2> DEFINE k == outer.bound
  <2>1. k \in Nat /\ d = WithPhase(N, clock.q, ReturnedPhase(clock, ct, s, errors), mask, secret)
    BY <1>4
  <2> HIDE DEF d, secret, ct, s, k
  <2>2. /\ k + ReturnBound(clock) \in Nat /\ d[1] \in Polynomials /\ d[2] \in Polynomials
        /\ \A m \in [Powers -> Int] :
             SaysOuter(clock, ct, s, m, k) => Says(clock, d, secret, m, k + ReturnBound(clock))
    BY <1>2, <1>3, <1>4, <1>5, <2>1, ReturnSays
  <2> QED BY <2>2 DEF k
<1>7. i = [outer EXCEPT !.kind = "returned", !.ct = d, !.bound = @ + ReturnBound(clock)]
  BY Zenon DEF Returned
<1> HIDE DEF d, i, secret
<1>8. i = Item("returned", outer.owner, outer.family, d, r, outer.message, outer.refreshes)
  BY <1>4, <1>7 DEF Item
<1> HIDE DEF r, ct, s
<1>9. /\ i.kind = "returned" /\ i.owner = outer.owner /\ i.ct = d /\ i.bound = r
      /\ i.message = outer.message
      /\ i = Item(i.kind, i.owner, i.family, i.ct, i.bound, i.message, i.refreshes)
  BY <1>8, ItemIs
<1>10. \A m \in outer.message : Says(clock, d, secret, m, r)
  <2>1. \A m \in outer.message : m \in [Powers -> Int]
    BY <1>4
  <2> QED BY <1>4, <1>6, <2>1
<1>11. Owned(i) => outer.owner # None
  BY <1>9 DEF Owned
<1>12. outer.owner # None => clock.secrets[outer.owner] = secret
  BY <1>1, BundleIs DEF secret
<1>13. Owned(i) => /\ i.owner \in DOMAIN clock.secrets /\ i.message # {}
                   /\ \A m \in i.message : Says(clock, i.ct, clock.secrets[i.owner], m, i.bound)
  BY <1>4, <1>9, <1>10, <1>11, <1>12
<1>14. /\ i.kind \in {"raw", "main", "input", "outer", "returned"} /\ i.kind # "outer"
       /\ i.kind # "input" /\ i.bound \in Nat
       /\ i.ct[1] \in Polynomials /\ i.ct[2] \in Polynomials
       /\ i.message = {} \/ \E m \in [Powers -> Int] : i.message = {m}
  BY <1>4, <1>6, <1>9
<1>15. Keeping(clock, i)
  BY <1>9, <1>13, <1>14 DEF Keeping
<1> QED BY <1>15 DEF i

\* What the item of a state is kept as stays so when only the item changes.
LEMMA ItemSteps ==
  ASSUME ClockInv, Keeping(clock, item'), UNCHANGED <<clock, errors>>
  PROVE  ClockInv'
<1>1. clock' = clock /\ errors' = errors
  OBVIOUS
<1>2. IsClock(clock) /\ AreClients(clock) /\ IsKeySwitch(errors)
  BY DEF ClockInv
<1>3. IsClock(clock') /\ AreClients(clock') /\ IsKeySwitch(errors')
  BY <1>1, <1>2
<1>4. Keeping(clock', item')
  BY <1>1
<1> QED BY <1>3, <1>4 DEF ClockInv

\* The steps of the circuit: transduction, of what an evaluator owns,
LEMMA InputKeeps ==
  ASSUME ClockInv, NEW b \in clock.bundles, NEW mask \in Masks, TransduceInput(b, mask)
  PROVE  ClockInv'
<1>1. IsClock(clock) /\ AreClients(clock) /\ IsKeySwitch(errors) /\ Keeping(clock, item)
  BY DEF ClockInv
<1>2. /\ item.kind = "input" /\ HasKeys(b) /\ Domain(b) = item.owner
      /\ item' = Outer(b, item.owner, item.message, mask) /\ UNCHANGED <<clock, errors>>
  BY DEF TransduceInput, MatchesDomain
<1>3. Owned(item) /\ item.kind # "outer"
  BY <1>2 DEF Owned
<1>4. /\ item.owner \in DOMAIN clock.secrets /\ item.bound \in Nat
      /\ item.ct[1] \in Polynomials /\ item.ct[2] \in Polynomials
      /\ clock.secrets[item.owner] \in Polynomials
  BY <1>1, <1>3, OwnedIs
<1>5. PICK m \in [Powers -> Int] :
        item.message = {m} /\ Says(clock, item.ct, clock.secrets[item.owner], m, item.bound)
  BY <1>1, <1>3, OwnedIs
<1>6. b.client = item.owner
  <2>1. item.owner # None
    BY <1>1, <1>4, SecretsAre
  <2> QED BY <1>1, <1>2, <2>1, BundleIs
<1>7. item.bound <= clock.error /\ clock.error \in Nat
  BY <1>1, <1>2, ClockNumbers DEF Keeping
<1>8. Says(clock, item.ct, clock.secrets[b.client], m, clock.error)
  <2> DEFINE s == clock.secrets[b.client]
             x == item.bound
             y == clock.error
             ct == item.ct
  <2>1. /\ s \in Polynomials /\ x \in Nat /\ y \in Nat /\ x <= y /\ Says(clock, ct, s, m, x)
        /\ ct[1] \in Polynomials /\ ct[2] \in Polynomials
    BY <1>4, <1>5, <1>6, <1>7
  <2> HIDE DEF s, x, y, ct
  <2>2. Says(clock, ct, s, m, y)
    BY <1>1, <2>1, SaysMore
  <2> QED BY <2>2 DEF s, y, ct
<1>9. Keeping(clock, Outer(b, item.owner, item.message, mask))
  <2> DEFINE message == item.message
             owner == item.owner
  <2>1. /\ message = {} \/ \E m_1 \in [Powers -> Int] : message = {m_1}
        /\ \A m_1 \in message : m_1 \in [Powers -> Int]
             /\ Says(clock, item.ct, clock.secrets[b.client], m_1, clock.error)
        /\ owner # None => owner \in DOMAIN clock.secrets /\ message # {}
    BY <1>4, <1>5, <1>8
  <2> HIDE DEF message, owner
  <2>2. Keeping(clock, Outer(b, owner, message, mask))
    BY <1>2, <1>3, <2>1, OuterKeeps
  <2> QED BY <2>2 DEF message, owner
<1> QED BY <1>2, <1>9, ItemSteps

\* What is promised serves as well as what is known.
LEMMA PromisedKeeps ==
  ASSUME ClockInv, NEW b \in clock.bundles, NEW mask \in Masks, HasKeys(b), item.kind # "outer"
  PROVE  Keeping(clock, Outer(b, None, Promise(clock, b.client, item.ct), mask))
<1>1. IsClock(clock) /\ AreClients(clock) /\ IsKeySwitch(errors) /\ Keeping(clock, item)
  BY DEF ClockInv
<1>2. item.ct[1] \in Polynomials /\ item.ct[2] \in Polynomials /\ b.client \in DOMAIN clock.secrets
  BY <1>1, BundleIs DEF Keeping
<1> DEFINE message == Promise(clock, b.client, item.ct)
           ct == item.ct
           o == b.client
<1>3. /\ message = {} \/ \E m \in [Powers -> Int] : message = {m}
      /\ \A m \in message : m \in [Powers -> Int] /\ Says(clock, item.ct, clock.secrets[b.client], m, clock.error)
  <2>1. ct[1] \in Polynomials /\ ct[2] \in Polynomials /\ o \in DOMAIN clock.secrets
    BY <1>2
  <2> HIDE DEF ct, o
  <2>2. /\ Promise(clock, o, ct) = {} \/ \E m \in [Powers -> Int] : Promise(clock, o, ct) = {m}
        /\ \A m \in Promise(clock, o, ct) : m \in [Powers -> Int]
                                              /\ Says(clock, ct, clock.secrets[o], m, clock.error)
    BY <1>1, <2>1, PromiseIs
  <2> QED BY <2>2 DEF ct, o
<1> HIDE DEF message
<1>4. Keeping(clock, Outer(b, None, message, mask))
  BY <1>3, OuterKeeps
<1> QED BY <1>4 DEF message

\* and of raw ciphertexts,
LEMMA RawKeeps ==
  ASSUME ClockInv, NEW b \in clock.bundles, NEW mask \in Masks, TransduceRaw(b, mask)
  PROVE  ClockInv'
<1>1. /\ item.kind # "outer" /\ HasKeys(b)
      /\ item' = Outer(b, None, Promise(clock, b.client, item.ct), mask)
      /\ UNCHANGED <<clock, errors>>
  BY DEF TransduceRaw
<1>2. Keeping(clock, item')
  BY <1>1, PromisedKeeps
<1> QED BY <1>1, <1>2, ItemSteps

\* and the return,
LEMMA ReturnKeeps ==
  ASSUME ClockInv, NEW b \in clock.bundles, NEW mask \in Masks, Return(b, mask)
  PROVE  ClockInv'
<1>1. IsClock(clock) /\ AreClients(clock) /\ IsKeySwitch(errors) /\ Keeping(clock, item)
  BY DEF ClockInv
<1>2. /\ item.kind = "outer" /\ ReturnsTo(b, item) /\ item' = Returned(b, item, mask)
      /\ UNCHANGED <<clock, errors>>
  BY DEF Return
<1>3. Keeping(clock, item')
  BY <1>1, <1>2, ReturnedKeeps
<1> QED BY <1>2, <1>3, ItemSteps

\* A refresh is both at once.
LEMMA RefreshKeeps ==
  ASSUME ClockInv, NEW b \in clock.bundles, NEW mask \in Masks, RefreshReturned(b, mask)
  PROVE  ClockInv'
<1>1. IsClock(clock) /\ AreClients(clock) /\ IsKeySwitch(errors) /\ Keeping(clock, item)
  BY DEF ClockInv
<1> DEFINE promised == IF item.owner = None THEN Promise(clock, b.client, item.ct) ELSE item.message
           outer == Outer(b, item.owner, promised, mask)
<1>2. /\ item.kind = "returned" /\ HasKeys(b) /\ item.bound <= clock.error
      /\ item.owner # None => item.owner = Domain(b)
      /\ ReturnsTo(b, outer) /\ item' = Returned(b, outer, mask)
      /\ UNCHANGED <<clock, errors>>
  BY DEF RefreshReturned
<1>3. Keeping(clock, outer) /\ outer.kind = "outer"
  <2>1. CASE item.owner = None
    <3>1. outer = Outer(b, None, Promise(clock, b.client, item.ct), mask)
      BY <2>1
    <3>2. Keeping(clock, outer)
      BY <1>2, <3>1, PromisedKeeps
    <3>3. outer.kind = "outer"
      <4> HIDE DEF promised
      <4> QED BY DEF Outer, Item
    <3> QED BY <3>2, <3>3
  <2>2. CASE item.owner # None
    <3>1. Owned(item) /\ item.kind # "outer"
      BY <1>2, <2>2 DEF Owned
    <3>2. /\ item.owner \in DOMAIN clock.secrets /\ item.bound \in Nat
          /\ item.ct[1] \in Polynomials /\ item.ct[2] \in Polynomials
          /\ clock.secrets[item.owner] \in Polynomials
      BY <1>1, <3>1, OwnedIs
    <3>3. PICK m \in [Powers -> Int] :
            item.message = {m} /\ Says(clock, item.ct, clock.secrets[item.owner], m, item.bound)
      BY <1>1, <3>1, OwnedIs
    <3>4. b.client = item.owner
      BY <1>1, <1>2, <2>2, BundleIs
    <3>5. clock.error \in Nat
      BY <1>1, ClockNumbers
    <3>6. Says(clock, item.ct, clock.secrets[b.client], m, clock.error)
      <4> DEFINE s == clock.secrets[b.client]
                 x == item.bound
                 y == clock.error
                 ct == item.ct
      <4>1. /\ s \in Polynomials /\ x \in Nat /\ y \in Nat /\ x <= y /\ Says(clock, ct, s, m, x)
            /\ ct[1] \in Polynomials /\ ct[2] \in Polynomials
        BY <1>2, <3>2, <3>3, <3>4, <3>5
      <4> HIDE DEF s, x, y, ct
      <4>2. Says(clock, ct, s, m, y)
        BY <1>1, <4>1, SaysMore
      <4> QED BY <4>2 DEF s, y, ct
    <3> DEFINE owner == item.owner
    <3>7. promised = item.message
      BY <2>2
    <3> HIDE DEF promised
    <3>8. /\ promised = {} \/ \E m_1 \in [Powers -> Int] : promised = {m_1}
          /\ \A m_1 \in promised : m_1 \in [Powers -> Int]
               /\ Says(clock, item.ct, clock.secrets[b.client], m_1, clock.error)
          /\ owner # None => owner \in DOMAIN clock.secrets /\ promised # {}
      BY <3>2, <3>3, <3>6, <3>7
    <3> HIDE DEF owner
    <3>9. /\ Keeping(clock, Outer(b, owner, promised, mask))
          /\ Outer(b, owner, promised, mask).kind = "outer"
      BY <1>2, <3>1, <3>8, OuterKeeps
    <3> QED BY <3>9 DEF owner
  <2> QED BY <2>1, <2>2
<1> HIDE DEF outer
<1>4. Keeping(clock, item')
  BY <1>1, <1>2, <1>3, ReturnedKeeps
<1> QED BY <1>2, <1>4, ItemSteps

\* All steps
LEMMA ClockSteps ==
  ClockInv /\ [ClockNext]_clockVars => ClockInv'
<1> SUFFICES ASSUME ClockInv, [ClockNext]_clockVars PROVE ClockInv'
  OBVIOUS
<1>1. CASE Doubled
  BY <1>1, DoubledKeeps
<1>2. CASE Ingress
  BY <1>2, IngressKeeps
<1>3. ASSUME NEW b \in clock.bundles, NEW mask \in Masks,
             \/ TransduceInput(b, mask) \/ TransduceRaw(b, mask)
             \/ Return(b, mask) \/ RefreshReturned(b, mask)
      PROVE  ClockInv'
  <2>1. CASE TransduceInput(b, mask)
    BY <2>1, InputKeeps
  <2>2. CASE TransduceRaw(b, mask)
    BY <2>2, RawKeeps
  <2>3. CASE Return(b, mask)
    BY <2>3, ReturnKeeps
  <2>4. CASE RefreshReturned(b, mask)
    BY <2>4, RefreshKeeps
  <2> QED BY <1>3, <2>1, <2>2, <2>3, <2>4
<1>4. ASSUME NEW client \in DOMAIN clock.secrets, Admit(client) PROVE ClockInv'
  BY <1>4, AdmitKeeps
<1>5. CASE UNCHANGED clockVars
  <2>1. clock' = clock /\ errors' = errors /\ item' = item
    BY <1>5 DEF clockVars
  <2>2. Keeping(clock, item')
    BY <2>1 DEF ClockInv
  <2> QED BY <2>1, <2>2, ItemSteps
<1>6. CASE ClockNext
  BY <1>1, <1>2, <1>3, <1>4, <1>6, Zenon DEF ClockNext
<1> QED BY <1>5, <1>6

\* A refresh gives the ciphertext back with its message: whatever secrets,
\* masks, errors of key switches and ciphertexts there are, in every reachable
\* state each ciphertext that claims a client, a family and a bound decrypts
\* under that client's secret, or the secret of its family, to the message it was
\* made of, with an error within the bound that transduce and return_to_work
\* publish, and within the allowance that the checks of the plan require.
THEOREM RefreshesKeepMessage == ClockSpec => []RefreshKeepsMessage
<1>1. ClockInit => ClockInv
  BY ClockStarts
<1>2. ClockInv /\ [ClockNext]_clockVars => ClockInv'
  BY ClockSteps
<1>3. ClockInv => RefreshKeepsMessage
  BY KeepingKeeps DEF ClockInv
<1> QED BY <1>1, <1>2, <1>3, PTL DEF ClockSpec

=============================================================================
