------------------------ MODULE MainQEvaluatorProofs ------------------------
(***************************************************************************)
(* Proofs about MainQEvaluator, for every ring degree, modulus, error      *)
(* bound, gadget and number of ciphertexts.  The invariant is Linv: T      *)
(* times the phase is within the carried bound of Q times the plaintext,   *)
(* modulo T*Q, in every coefficient.  Each operation keeps it; for a       *)
(* lemmas on totals of IntegerLemmas.  At the end, LaneExecutor, which     *)
(* lemmas on totals of IntegerLemmas.  At the end, LaneExecutor, which      *)
(* computes limbs in parallel, for any number of threads and lanes.        *)
(***************************************************************************)
EXTENDS MainQEvaluator, LaneExecutor, IntegerLemmas

-----------------------------------------------------------------------------
(* Integers.                                                                *)

\* x is within b of a multiple of m.
Near(x, m, b) == \E j \in Int : - b <= x - m * j /\ x - m * j <= b

LEMMA NearIntro ==
  ASSUME NEW x \in Int, NEW m \in Int, NEW b \in Int, NEW j \in Int,
         - b <= x - m * j, x - m * j <= b
  PROVE  Near(x, m, b)
  BY Zenon DEF Near

\* The centered residue is small exactly when x is near a multiple.
Centered(x, m) == IF 2 * (x % m) > m THEN (x % m) - m ELSE x % m

LEMMA CenteredIsNear ==
  ASSUME NEW x \in Int, NEW m \in Nat, m > 0, NEW b \in Nat, 2 * b < m
  PROVE  Near(x, m, b) <=> Abs(Centered(x, m)) <= b
<1>0. /\ x = m * (x \div m) + (x % m)
      /\ x % m \in 0 .. m - 1
      /\ x \div m \in Int
  BY Division
<1>1. ASSUME Abs(Centered(x, m)) <= b PROVE Near(x, m, b)
  <2>1. CASE 2 * (x % m) > m
    <3> DEFINE j == x \div m + 1
    <3>1. x - m * j = (x % m) - m /\ j \in Int /\ b \in Int /\ m \in Int
      BY <1>0
    <3>2. - b <= (x % m) - m /\ (x % m) - m <= b
      BY <1>0, <1>1, <2>1 DEF Abs, Centered
    <3> HIDE DEF j
    <3>3. - b <= x - m * j /\ x - m * j <= b
      BY <3>1, <3>2
    <3> QED BY <3>1, <3>3, NearIntro, Zenon
  <2>2. CASE ~ (2 * (x % m) > m)
    <3> DEFINE j == x \div m
    <3>1. x - m * j = x % m /\ j \in Int /\ b \in Int /\ m \in Int
      BY <1>0
    <3>2. - b <= x % m /\ x % m <= b
      BY <1>0, <1>1, <2>2 DEF Abs, Centered
    <3> HIDE DEF j
    <3>3. - b <= x - m * j /\ x - m * j <= b
      BY <3>1, <3>2
    <3> QED BY <3>1, <3>3, NearIntro, Zenon
  <2> QED BY <2>1, <2>2
<1>2. ASSUME Near(x, m, b) PROVE Abs(Centered(x, m)) <= b
  <2>1. PICK j \in Int : - b <= x - m * j /\ x - m * j <= b
    BY <1>2 DEF Near
  <2> DEFINE v == x - m * j
  <2>2. v \in Int /\ x = m * j + v /\ - b <= v /\ v <= b
    BY <2>1
  <2> HIDE DEF v
  <2>3. CASE v >= 0
    <3>1. v \in 0 .. m - 1
      BY <2>2, <2>3
    <3>2. x % m = v
      BY <2>2, <3>1, QuotientIs
    <3> QED BY <2>2, <2>3, <3>2 DEF Abs, Centered
  <2>4. CASE v < 0
    <3> DEFINE w == v + m
               i == j - 1
    <3>1. w \in 0 .. m - 1 /\ i \in Int /\ m * i + w = x
      BY <2>2, <2>4
    <3>2. (m * i + w) % m = w
      <4> HIDE DEF w, i
      <4> QED BY <3>1, QuotientIs
    <3>3. x % m = v + m
      BY <3>1, <3>2
    <3> QED BY <2>2, <2>4, <3>3 DEF Abs, Centered
  <2> QED BY <2>2, <2>3, <2>4
<1> QED BY <1>1, <1>2

LEMMA NearSum ==
  ASSUME NEW m \in Nat, NEW x \in Int, NEW y \in Int, NEW a \in Nat, NEW b \in Nat,
         Near(x, m, a), Near(y, m, b)
  PROVE  Near(x + y, m, a + b) /\ Near(x - y, m, a + b)
<1>1. PICK j \in Int : - a <= x - m * j /\ x - m * j <= a
  BY DEF Near
<1>2. PICK k \in Int : - b <= y - m * k /\ y - m * k <= b
  BY DEF Near
<1>3. m * j \in Int /\ m * k \in Int /\ m * (j + k) = m * j + m * k /\ m * (j - k) = m * j - m * k
  OBVIOUS
<1>4. - (a + b) <= (x + y) - m * (j + k) /\ (x + y) - m * (j + k) <= a + b
  BY <1>1, <1>2, <1>3
<1>5. - (a + b) <= (x - y) - m * (j - k) /\ (x - y) - m * (j - k) <= a + b
  BY <1>1, <1>2, <1>3
<1>6. /\ j + k \in Int /\ j - k \in Int
      /\ x + y \in Int /\ x - y \in Int /\ a + b \in Int /\ m \in Int
  OBVIOUS
<1>7. Near(x + y, m, a + b)
  BY <1>4, <1>6, NearIntro, Zenon
<1>8. Near(x - y, m, a + b)
  BY <1>5, <1>6, NearIntro, Zenon
<1> QED BY <1>7, <1>8

\* s * v for v within a of zero.
LEMMA Scaled ==
  ASSUME NEW v \in Int, NEW a \in Nat, - a <= v, v <= a, NEW s \in Int
  PROVE  - (a * Abs(s)) <= s * v /\ s * v <= a * Abs(s) /\ Abs(s) \in Nat
<1>1. CASE s >= 0
  <2>1. s * (a - v) >= 0 /\ s * (a + v) >= 0
    BY <1>1
  <2> QED BY <1>1, <2>1 DEF Abs
<1>2. CASE s < 0
  <2>1. (- s) * (a - v) >= 0 /\ (- s) * (a + v) >= 0
    BY <1>2
  <2> QED BY <1>2, <2>1 DEF Abs
<1> QED BY <1>1, <1>2

LEMMA NearProduct ==
  ASSUME NEW m \in Nat, NEW x \in Int, NEW a \in Nat, NEW s \in Int, Near(x, m, a)
  PROVE  Near(s * x, m, a * Abs(s))
<1>1. PICK j \in Int : - a <= x - m * j /\ x - m * j <= a
  BY DEF Near
<1> DEFINE v == x - m * j
           i == s * j
           b == a * Abs(s)
<1>2. v \in Int /\ - a <= v /\ v <= a
  BY <1>1
<1>3. s * x - m * i = s * v
  OBVIOUS
<1> HIDE DEF v
<1>4. Abs(s) \in Nat /\ - b <= s * v /\ s * v <= b
  BY <1>2, Scaled
<1>5. b \in Int /\ i \in Int /\ s * x \in Int /\ m \in Int
  BY <1>4
<1> HIDE DEF i, b
<1>6. - b <= s * x - m * i /\ s * x - m * i <= b
  BY <1>3, <1>4
<1>7. Near(s * x, m, b)
  BY <1>5, <1>6, NearIntro, Zenon
<1> QED BY <1>7 DEF b

\* Adding a multiple of m changes nothing.
LEMMA NearShift ==
  ASSUME NEW m \in Int, NEW x \in Int, NEW y \in Int, NEW b \in Int, NEW i \in Int,
         y = x + m * i, Near(x, m, b)
  PROVE  Near(y, m, b)
<1>1. PICK j \in Int : - b <= x - m * j /\ x - m * j <= b
  BY DEF Near
<1> DEFINE k == j + i
<1>2. k \in Int /\ m * k = m * j + m * i /\ m * j \in Int /\ m * i \in Int
  OBVIOUS
<1> HIDE DEF k
<1>3. - b <= y - m * k /\ y - m * k <= b
  BY <1>1, <1>2
<1> QED BY <1>2, <1>3, NearIntro, Zenon

-----------------------------------------------------------------------------
(* Ciphertexts.                                                             *)

Excess(c, k) == T * c.phase[k] - Q * Scalar(c.plain)[k]

Sound(c) ==
  /\ c \in Ciphertext
  /\ Admitted(c.bound)
  /\ \A k \in Coefficient : Near(Excess(c, k), T * Q, c.bound)

LEMMA Constants ==
  /\ T \in Nat /\ T > 0 /\ Q \in Nat /\ Q > 0 /\ Q % 2 = 1
  /\ T * Q \in Nat /\ T * Q > 0 /\ Q <= T * Q
  /\ 0 \in Coefficient /\ Coefficient \subseteq Nat
  /\ Delta \in Nat /\ Remainder \in Nat /\ Q = T * Delta + Remainder
<1>1. T \in Nat /\ T > 0 /\ Q \in Nat /\ Q > 0 /\ Q % 2 = 1 /\ N \in Nat /\ N >= 2
  BY CertifiedBoundAssumption
<1>2. T * Q \in Nat /\ T * Q > 0 /\ Q <= T * Q
  <2>1. (T - 1) * Q >= 0 /\ T * Q = (T - 1) * Q + Q
    BY <1>1
  <2> QED BY <1>1, <2>1
<1>3. 0 \in Coefficient /\ Coefficient \subseteq Nat
  BY <1>1 DEF Coefficient
<1>4. Delta \in Nat /\ Remainder \in Nat /\ Q = T * Delta + Remainder
  BY <1>1 DEF Delta, Remainder
<1> QED BY <1>1, <1>2, <1>3, <1>4

LEMMA ScalarIsInt ==
  ASSUME NEW k \in Coefficient, NEW x \in Int
  PROVE  Scalar(x)[k] \in Int
  BY DEF Scalar

LEMMA ScalarSum ==
  ASSUME NEW k \in Coefficient, NEW x \in Int, NEW y \in Int
  PROVE  /\ Scalar(x + y)[k] = Scalar(x)[k] + Scalar(y)[k]
         /\ Scalar(x - y)[k] = Scalar(x)[k] - Scalar(y)[k]
  BY DEF Scalar

LEMMA ScalarProduct ==
  ASSUME NEW k \in Coefficient, NEW x \in Int, NEW y \in Int
  PROVE  Scalar(x * y)[k] = y * Scalar(x)[k]
<1>1. CASE k = 0
  BY <1>1 DEF Scalar
<1>2. CASE k # 0
  BY <1>2 DEF Scalar
<1> QED BY <1>1, <1>2

\* Reducing the phase modulo Q and the value modulo T moves the excess by a
\* multiple of T * Q.
LEMMA OutputIsSound ==
  ASSUME NEW plain \in Int, NEW phase \in [Coefficient -> Int], NEW bound \in Nat,
         Admitted(bound),
         \A k \in Coefficient :
           Near(T * phase[k] - Q * Scalar(plain)[k], T * Q, bound)
  PROVE  Sound(Output(plain, phase, bound))
<1> DEFINE c == Output(plain, phase, bound)
<1>1. /\ plain % T \in 0 .. T - 1 /\ plain \div T \in Int
      /\ plain = T * (plain \div T) + (plain % T)
  BY Constants, Division
<1>2. ASSUME NEW k \in Coefficient
      PROVE  /\ phase[k] % Q \in 0 .. Q - 1 /\ phase[k] \div Q \in Int
             /\ phase[k] = Q * (phase[k] \div Q) + (phase[k] % Q)
  <2>1. phase[k] \in Int
    OBVIOUS
  <2> QED BY <2>1, Constants, Division
<1>3. c \in Ciphertext /\ c.bound = bound /\ c.plain = plain % T
  BY <1>1, <1>2 DEF Output, Ciphertext, Plain
<1>4. ASSUME NEW k \in Coefficient
      PROVE  Near(Excess(c, k), T * Q, bound)
  <2> DEFINE x == T * phase[k] - Q * Scalar(plain)[k]
             y == Excess(c, k)
             p == phase[k]
             d == phase[k] \div Q
             w == phase[k] % Q
             g == Scalar(plain \div T)[k]
             h == Scalar(plain % T)[k]
             i == g - d
  <2>1. c.phase[k] = w
    BY DEF Output
  <2>2. y = T * w - Q * h
    BY <2>1, <1>3 DEF Excess
  <2>3. /\ g \in Int /\ h \in Int
        /\ Scalar(plain)[k] = T * g + h
    <3>1. Scalar(plain)[k] \in Int /\ g \in Int /\ h \in Int
      <4>1. plain % T \in Int
        BY <1>1, Constants
      <4> QED BY <1>1, <4>1, ScalarIsInt, Zenon
    <3>2. CASE k = 0
      BY <3>2, <1>1 DEF Scalar
    <3>3. CASE k # 0
      BY <3>3, Constants DEF Scalar
    <3> QED BY <3>1, <3>2, <3>3
  <2>4. w \in Int /\ d \in Int /\ p = Q * d + w
    BY <1>2
  <2>5. T \in Int /\ Q \in Int /\ T * Q \in Int /\ bound \in Int
    BY Constants
  <2>6. x = T * p - Q * (T * g + h)
    BY <2>3
  <2> HIDE DEF w, d, g, h, p
  <2>7. i \in Int /\ x \in Int /\ y \in Int
    BY <2>2, <2>3, <2>4, <2>5, <2>6
  <2>8. y = x + (T * Q) * i
    BY <2>2, <2>3, <2>4, <2>5, <2>6
  <2>9. Near(x, T * Q, bound)
    OBVIOUS
  <2> HIDE DEF x, y, i
  <2>10. Near(y, T * Q, bound)
    BY <2>5, <2>7, <2>8, <2>9, NearShift, Zenon
  <2> QED BY <2>10 DEF y
<1> QED BY <1>3, <1>4, Zenon DEF Sound

-----------------------------------------------------------------------------
(* Every operation but ciphertext multiplication keeps held ciphertexts     *)
(* sound.                                                                   *)

Linv ==
  /\ ct \in [Register -> Ciphertext \cup {Empty}]
  /\ \A r \in Held : Sound(ct[r])

LEMMA HeldIsSound ==
  ASSUME Linv, NEW x \in Held
  PROVE  /\ Sound(ct[x])
         /\ ct[x].plain \in Int /\ ct[x].phase \in [Coefficient -> Int] /\ ct[x].bound \in Nat
         /\ \A k \in Coefficient : ct[x].phase[k] \in Int
<1>1. Sound(ct[x])
  BY DEF Linv
<1>2. ct[x] \in Ciphertext
  BY <1>1 DEF Sound
<1>3. Plain \subseteq Int /\ 0 .. Q - 1 \subseteq Int
  BY Constants DEF Plain
<1>4. ct[x].plain \in Int /\ ct[x].bound \in Nat
  BY <1>2, <1>3 DEF Ciphertext
<1>5. ct[x].phase \in [Coefficient -> 0 .. Q - 1]
  BY <1>2 DEF Ciphertext
<1>6. ct[x].phase \in [Coefficient -> Int]
  BY <1>3, <1>5
<1> QED BY <1>1, <1>4, <1>6

LEMMA StoreKeeps ==
  ASSUME Linv, NEW r \in Register, NEW out, Store(r, out), Admitted(out.bound) => Sound(out)
  PROVE  Linv'
<1>1. Sound(out) /\ out \in Ciphertext /\ ct' = [ct EXCEPT ![r] = out]
  BY DEF Store, Sound
<1>2. ct' \in [Register -> Ciphertext \cup {Empty}]
  BY <1>1 DEF Linv
<1>3. ASSUME NEW q \in Register, ct'[q] # Empty PROVE Sound(ct'[q])
  <2>1. CASE q = r
    BY <1>1, <2>1 DEF Linv
  <2>2. CASE q # r
    BY <1>1, <1>3, <2>2 DEF Linv, Held
  <2> QED BY <2>1, <2>2
<1>4. \A q \in Held' : Sound(ct'[q])
  BY <1>3 DEF Held
<1> QED BY <1>2, <1>4 DEF Linv, Sound

LEMMA OutputBound ==
  ASSUME NEW plain, NEW phase, NEW bound
  PROVE  Output(plain, phase, bound).bound = bound
  BY DEF Output

\* cram_main.rs add, sub
LEMMA SumKeeps ==
  ASSUME Linv, NEW r \in Register, NEW x \in Held, NEW y \in Held
  PROVE  (Add(r, x, y) => Linv') /\ (Sub(r, x, y) => Linv')
<1> DEFINE a == ct[x]
           b == ct[y]
           plus == [k \in Coefficient |-> a.phase[k] + b.phase[k]]
           minus == [k \in Coefficient |-> a.phase[k] - b.phase[k]]
           bound == AddBound(a.bound, b.bound)
<1>1. /\ Sound(a) /\ a.plain \in Int /\ a.bound \in Nat
      /\ \A k \in Coefficient : a.phase[k] \in Int
  BY HeldIsSound
<1>2. /\ Sound(b) /\ b.plain \in Int /\ b.bound \in Nat
      /\ \A k \in Coefficient : b.phase[k] \in Int
  BY HeldIsSound
<1> HIDE DEF a, b
<1>3. bound = a.bound + b.bound /\ bound \in Nat
  BY <1>1, <1>2 DEF AddBound
<1>4. plus \in [Coefficient -> Int] /\ minus \in [Coefficient -> Int]
  BY <1>1, <1>2
<1>5. ASSUME NEW k \in Coefficient
      PROVE  /\ Near(T * plus[k] - Q * Scalar(a.plain + b.plain)[k], T * Q, bound)
             /\ Near(T * minus[k] - Q * Scalar(a.plain - b.plain)[k], T * Q, bound)
  <2> DEFINE p == a.phase[k]
             q == b.phase[k]
             g == Scalar(a.plain)[k]
             h == Scalar(b.plain)[k]
             u == Excess(a, k)
             v == Excess(b, k)
  <2>1. /\ p \in Int /\ q \in Int /\ g \in Int /\ h \in Int /\ T \in Int /\ Q \in Int
        /\ Scalar(a.plain + b.plain)[k] = g + h
        /\ Scalar(a.plain - b.plain)[k] = g - h
    <3>1. p \in Int /\ q \in Int /\ T \in Int /\ Q \in Int
      BY <1>1, <1>2, Constants
    <3>2. g \in Int /\ h \in Int
      BY <1>1, <1>2, ScalarIsInt, Zenon
    <3>3. /\ Scalar(a.plain + b.plain)[k] = g + h
          /\ Scalar(a.plain - b.plain)[k] = g - h
      BY <1>1, <1>2, ScalarSum, Zenon
    <3> QED BY <3>1, <3>2, <3>3
  <2>2. plus[k] = p + q /\ minus[k] = p - q
    OBVIOUS
  <2>3. u = T * p - Q * g /\ v = T * q - Q * h
    BY DEF Excess
  <2>4. Near(u, T * Q, a.bound) /\ Near(v, T * Q, b.bound)
    BY <1>1, <1>2 DEF Sound
  <2> HIDE DEF p, q, g, h, u, v, plus, minus
  <2>5. /\ u \in Int /\ v \in Int
        /\ T * (p + q) - Q * (g + h) = u + v
        /\ T * (p - q) - Q * (g - h) = u - v
    BY <2>1, <2>3
  <2>6. Near(u + v, T * Q, a.bound + b.bound) /\ Near(u - v, T * Q, a.bound + b.bound)
    BY <1>1, <1>2, <2>4, <2>5, Constants, NearSum
  <2> QED BY <1>3, <2>1, <2>2, <2>5, <2>6
<1>6. a.plain + b.plain \in Int /\ a.plain - b.plain \in Int
  BY <1>1, <1>2
<1> HIDE DEF plus, minus, bound
<1>7. /\ Admitted(bound) => Sound(Output(a.plain + b.plain, plus, bound))
      /\ Admitted(bound) => Sound(Output(a.plain - b.plain, minus, bound))
  BY <1>3, <1>4, <1>5, <1>6, OutputIsSound
<1>8. ASSUME Add(r, x, y) PROVE Linv'
  BY <1>7, <1>8, OutputBound, StoreKeeps DEF Add, a, b, plus, bound
<1>9. ASSUME Sub(r, x, y) PROVE Linv'
  BY <1>7, <1>9, OutputBound, StoreKeeps DEF Sub, a, b, minus, bound
<1> QED BY <1>8, <1>9

\* cram_main.rs scale_signed: negate and mul_plain
LEMMA ScaleKeeps ==
  ASSUME Linv, NEW r \in Register, NEW x \in Held, NEW scalar \in Int, Scale(r, x, scalar)
  PROVE  Linv'
<1> DEFINE a == ct[x]
           times == [k \in Coefficient |-> a.phase[k] * scalar]
           bound == ScalarBound(a.bound, scalar)
<1>1. /\ Sound(a) /\ a.plain \in Int /\ a.bound \in Nat
      /\ \A k \in Coefficient : a.phase[k] \in Int
  BY HeldIsSound
<1> HIDE DEF a
<1>2. bound = a.bound * Abs(scalar) /\ bound \in Nat
  BY <1>1 DEF ScalarBound, Abs
<1>3. times \in [Coefficient -> Int]
  BY <1>1
<1>4. ASSUME NEW k \in Coefficient
      PROVE  Near(T * times[k] - Q * Scalar(a.plain * scalar)[k], T * Q, bound)
  <2> DEFINE p == a.phase[k]
             g == Scalar(a.plain)[k]
             u == Excess(a, k)
  <2>1. /\ p \in Int /\ g \in Int /\ T \in Int /\ Q \in Int
        /\ Scalar(a.plain * scalar)[k] = scalar * g
    <3>1. p \in Int /\ T \in Int /\ Q \in Int
      BY <1>1, Constants
    <3>2. g \in Int
      BY <1>1, ScalarIsInt, Zenon
    <3>3. Scalar(a.plain * scalar)[k] = scalar * g
      BY <1>1, ScalarProduct, Zenon
    <3> QED BY <3>1, <3>2, <3>3
  <2>2. times[k] = p * scalar
    OBVIOUS
  <2>3. u = T * p - Q * g
    BY DEF Excess
  <2>4. Near(u, T * Q, a.bound)
    BY <1>1 DEF Sound
  <2> HIDE DEF p, g, u, times, bound
  <2>5. u \in Int /\ T * (p * scalar) - Q * (scalar * g) = scalar * u
    BY <2>1, <2>3
  <2>6. Near(scalar * u, T * Q, bound)
    BY <1>1, <1>2, <2>4, <2>5, Constants, NearProduct
  <2> QED BY <2>1, <2>2, <2>5, <2>6
<1>5. a.plain * scalar \in Int
  BY <1>1
<1> HIDE DEF times, bound
<1>6. Admitted(bound) => Sound(Output(a.plain * scalar, times, bound))
  BY <1>2, <1>3, <1>4, <1>5, OutputIsSound
<1> QED BY <1>6, OutputBound, StoreKeeps DEF Scale, a, times, bound

\* cram_main.rs add_plain: the scaled constant misses Q * scalar by
\* Remainder * scalar.
LEMMA AddPlainKeeps ==
  ASSUME Linv, NEW r \in Register, NEW x \in Held, NEW value \in Plain, AddPlain(r, x, value)
  PROVE  Linv'
<1> DEFINE a == ct[x]
           s == CenteredScalar(value)
           shifted == [k \in Coefficient |-> a.phase[k] + Delta * Scalar(s)[k]]
           bound == AddPlainBound(a.bound, s)
<1>1. /\ Sound(a) /\ a.plain \in Int /\ a.bound \in Nat
      /\ \A k \in Coefficient : a.phase[k] \in Int
  BY HeldIsSound
<1> HIDE DEF a
<1>2. s \in Int
  BY Constants DEF CenteredScalar, Plain
<1> HIDE DEF s
<1>3. Abs(s) \in Nat /\ - Abs(s) <= s /\ s <= Abs(s)
  BY <1>2 DEF Abs
<1>4. bound = a.bound + Remainder * Abs(s) /\ bound \in Nat /\ Remainder * Abs(s) \in Nat
  BY <1>1, <1>3, Constants DEF AddPlainBound
<1>5. shifted \in [Coefficient -> Int]
  BY <1>1, <1>2, Constants, ScalarIsInt
<1>6. ASSUME NEW k \in Coefficient
      PROVE  Near(T * shifted[k] - Q * Scalar(a.plain + s)[k], T * Q, bound)
  <2> DEFINE p == a.phase[k]
             g == Scalar(a.plain)[k]
             h == Scalar(s)[k]
             u == Excess(a, k)
             v == Remainder * h
             c == Remainder * Abs(s)
             zero == 0
  <2>1. p \in Int /\ T \in Int /\ Q \in Int /\ Delta \in Int /\ Remainder \in Nat
    BY <1>1, Constants
  <2>2. g \in Int /\ h \in Int
    BY <1>1, <1>2, ScalarIsInt, Zenon
  <2>3. Scalar(a.plain + s)[k] = g + h
    BY <1>1, <1>2, ScalarSum, Zenon
  <2>4. shifted[k] = p + Delta * h
    OBVIOUS
  <2>5. u = T * p - Q * g
    BY DEF Excess
  <2>6. Near(u, T * Q, a.bound)
    BY <1>1 DEF Sound
  <2>7. - Abs(s) <= h /\ h <= Abs(s)
    <3>1. CASE k = 0
      BY <1>2, <1>3, <3>1 DEF Scalar
    <3>2. CASE k # 0
      BY <1>3, <3>2 DEF Scalar
    <3> QED BY <3>1, <3>2
  <2> HIDE DEF p, g, h, u, shifted, bound
  <2>8. v \in Int /\ c \in Nat /\ - c <= v /\ v <= c
    <3>1. v \in Int /\ c \in Nat
      BY <1>4, <2>1, <2>2
    <3>2. Remainder * (Abs(s) - h) >= 0 /\ Remainder * (Abs(s) + h) >= 0
      BY <1>3, <2>1, <2>2, <2>7
    <3> QED BY <1>3, <2>1, <2>2, <3>1, <3>2
  <2>9. u \in Int /\ T * (p + Delta * h) - Q * (g + h) = u - v
    <3>1. u \in Int
      BY <2>1, <2>2, <2>5
    <3>2. Q * h = T * (Delta * h) + v
      BY <2>1, <2>2, Constants
    <3> QED BY <2>1, <2>2, <2>5, <3>1, <3>2
  <2>10. /\ T * Q \in Int /\ (T * Q) * zero = 0 /\ zero \in Int
    BY Constants
  <2> HIDE DEF v, c, zero
  <2>11. - c <= v - (T * Q) * zero /\ v - (T * Q) * zero <= c
    BY <2>8, <2>10
  <2>12. Near(v, T * Q, c)
    <3>1. c \in Int
      BY <2>8
    <3> QED BY <2>8, <2>10, <2>11, <3>1, NearIntro, Zenon
  <2>13. Near(u - v, T * Q, a.bound + c)
    BY <1>1, <2>6, <2>8, <2>9, <2>12, Constants, NearSum
  <2> QED BY <1>4, <2>3, <2>4, <2>9, <2>13 DEF c
<1>7. a.plain + s \in Int
  BY <1>1, <1>2
<1> HIDE DEF shifted, bound
<1>8. Admitted(bound) => Sound(Output(a.plain + s, shifted, bound))
  BY <1>4, <1>5, <1>6, <1>7, OutputIsSound
<1> QED BY <1>8, OutputBound, StoreKeeps DEF AddPlain, a, s, shifted, bound

\* CramMainClient::encrypt
LEMMA EncryptKeeps ==
  ASSUME Linv, NEW r \in Register, NEW m \in Plain, NEW e \in Errors, Encrypt(r, m, e)
  PROVE  Linv'
<1> DEFINE fresh == [k \in Coefficient |-> Delta * Scalar(m)[k] + e[k]]
           E == (2 * N + 1) * Eta
<1>1. /\ N \in Nat /\ Eta \in Nat /\ E \in Nat
      /\ m \in Nat /\ m <= T - 1
  <2>1. N \in Nat /\ Eta \in Nat
    BY CertifiedBoundAssumption
  <2> QED BY <2>1, Constants DEF Plain
<1>2. ASSUME NEW k \in Coefficient PROVE e[k] \in Int /\ - E <= e[k] /\ e[k] <= E
  <2>1. e[k] \in (- (2 * N + 1) * Eta) .. ((2 * N + 1) * Eta)
    BY MainQEvaluatorAssumption
  <2>2. (- (2 * N + 1) * Eta) = - E
    BY <1>1
  <2> QED BY <1>1, <2>1, <2>2
<1>3. FreshBound = T * E + Remainder * (T - 1) /\ FreshBound \in Nat
  BY <1>1, Constants DEF FreshBound
<1> HIDE DEF E
<1>4. fresh \in [Coefficient -> Int]
  BY <1>1, <1>2, Constants, ScalarIsInt
<1>5. ASSUME NEW k \in Coefficient
      PROVE  Near(T * fresh[k] - Q * Scalar(m)[k], T * Q, FreshBound)
  <2> DEFINE h == Scalar(m)[k]
             d == e[k]
             u == T * fresh[k] - Q * h
             zero == 0
  <2>1. h \in Nat /\ h <= T - 1
    BY <1>1, Constants DEF Scalar
  <2>2. d \in Int /\ - E <= d /\ d <= E
    BY <1>2
  <2>3. fresh[k] = Delta * h + d
    OBVIOUS
  <2> HIDE DEF h, d, fresh
  <2>4. u = T * d - Remainder * h /\ u \in Int
    <3>1. Q * h = T * (Delta * h) + Remainder * h
      BY <2>1, Constants
    <3> QED BY <2>1, <2>2, <2>3, <3>1, Constants
  <2>5. - (T * E) <= T * d /\ T * d <= T * E
    <3>1. T * (E - d) >= 0 /\ T * (E + d) >= 0
      BY <1>1, <2>2, Constants
    <3> QED BY <1>1, <2>2, <3>1, Constants
  <2>6. 0 <= Remainder * h /\ Remainder * h <= Remainder * (T - 1)
    <3>1. Remainder * (T - 1 - h) >= 0 /\ Remainder * h >= 0
      BY <2>1, Constants
    <3> QED BY <2>1, <3>1, Constants
  <2>7. /\ T * Q \in Int /\ (T * Q) * zero = 0 /\ zero \in Int
        /\ T * E \in Nat /\ T * d \in Int /\ Remainder * h \in Int /\ Remainder * (T - 1) \in Nat
    BY <1>1, <2>1, <2>2, Constants
  <2> HIDE DEF u, zero
  <2>8. - FreshBound <= u - (T * Q) * zero /\ u - (T * Q) * zero <= FreshBound
    BY <1>3, <2>4, <2>5, <2>6, <2>7
  <2>9. FreshBound \in Int
    BY <1>3
  <2>10. Near(u, T * Q, FreshBound)
    BY <2>4, <2>7, <2>8, <2>9, NearIntro, Zenon
  <2> QED BY <2>10 DEF u, h
<1>6. m \in Int
  BY <1>1
<1> HIDE DEF fresh
<1>7. Admitted(FreshBound) => Sound(Output(m, fresh, FreshBound))
  BY <1>3, <1>4, <1>5, <1>6, OutputIsSound
<1> QED BY <1>7, OutputBound, StoreKeeps DEF Encrypt, fresh

LEMMA LinearStepKeeps == Linv /\ [LinearNext]_vars => Linv'
<1> SUFFICES ASSUME Linv, [LinearNext]_vars PROVE Linv'
  OBVIOUS
<1>1. ASSUME NEW r \in Register, NEW m \in Plain, NEW e \in Errors, Encrypt(r, m, e)
      PROVE  Linv'
  BY <1>1, EncryptKeeps
<1>2. ASSUME NEW r \in Register, NEW x \in Held, Negate(r, x)
      PROVE  Linv'
  BY <1>2, ScaleKeeps DEF Negate
<1>3. ASSUME NEW r \in Register, NEW x \in Held, NEW value \in Plain, MulPlain(r, x, value)
      PROVE  Linv'
  <2>1. CenteredScalar(value) \in Int
    BY Constants DEF CenteredScalar, Plain
  <2> QED BY <1>3, <2>1, ScaleKeeps DEF MulPlain
<1>4. ASSUME NEW r \in Register, NEW x \in Held, NEW value \in Plain, AddPlain(r, x, value)
      PROVE  Linv'
  BY <1>4, AddPlainKeeps
<1>5. ASSUME NEW r \in Register, NEW x \in Held, NEW y \in Held, Add(r, x, y) \/ Sub(r, x, y)
      PROVE  Linv'
  BY <1>5, SumKeeps
<1>6. CASE UNCHANGED vars
  BY <1>6, Zenon DEF vars, Linv, Held
<1> QED BY <1>1, <1>2, <1>3, <1>4, <1>5, <1>6 DEF LinearNext

-----------------------------------------------------------------------------
(* Ciphertext multiplication.  T times a lift is Q times the centered      *)
(* plaintext plus the error plus T*Q times a small integer; a product of   *)
(* two such sums has five parts, and the sums over the coefficients of     *)
(* each are bounded one by one.                                            *)

Half == (T - 1) \div 2
Wraps == N \div 2 + 1

LEMMA Halves ==
  /\ N \in Nat /\ N > 0 /\ N = 2 * (N \div 2) /\ N \div 2 \in Nat
  /\ Wraps \in Nat /\ 2 * Wraps = N + 2
  /\ Half \in Nat /\ T = 2 * Half + 1
  BY CertifiedBoundAssumption DEF Half, Wraps

\* A number and a bound on its size
Within(x, b) == - b <= x /\ x <= b

LEMMA WithinSum ==
  ASSUME NEW x \in Int, NEW y \in Int, NEW a \in Nat, NEW b \in Nat,
         Within(x, a), Within(y, b)
  PROVE  Within(x + y, a + b)
  BY DEF Within

LEMMA WithinProduct ==
  ASSUME NEW x \in Int, NEW y \in Int, NEW a \in Nat, NEW b \in Nat,
         Within(x, a), Within(y, b)
  PROVE  /\ x * y \in Int /\ a * b \in Nat /\ Within(x * y, a * b)
         /\ Within(- (x * y), a * b)
<1>1. (a - x) * (b - y) >= 0 /\ (a + x) * (b + y) >= 0
  BY DEF Within
<1>2. (a - x) * (b + y) >= 0 /\ (a + x) * (b - y) >= 0
  BY DEF Within
<1>3. /\ (a - x) * (b - y) = a * b - a * y - x * b + x * y
      /\ (a + x) * (b + y) = a * b + a * y + x * b + x * y
      /\ (a - x) * (b + y) = a * b + a * y - x * b - x * y
      /\ (a + x) * (b - y) = a * b - a * y + x * b - x * y
  OBVIOUS
<1>4. x * y \in Int /\ a * b \in Nat /\ a * y \in Int /\ x * b \in Int
  OBVIOUS
<1> QED BY <1>1, <1>2, <1>3, <1>4 DEF Within

\* One coefficient of a lift
Splits(p, s, b) ==
  \E e, j \in Int : T * p = Q * s + e + (T * Q) * j /\ Within(e, b) /\ Within(j, Wraps)

LEMMA LiftOfCoefficient ==
  ASSUME NEW x \in Int, NEW i \in Int, NEW p \in Int, p = x + Q * i,
         2 * Abs(p) <= (Q - 1) * (N + 1),
         NEW s \in Int, Within(s, Half), NEW v \in Int,
         NEW b \in Nat, 2 * b < Q, Near(T * x - Q * (s + T * v), T * Q, b)
  PROVE  Splits(p, s, b)
<1>1. PICK l \in Int : /\ - b <= (T * x - Q * (s + T * v)) - (T * Q) * l
                       /\ (T * x - Q * (s + T * v)) - (T * Q) * l <= b
  BY DEF Near
<1> DEFINE e == (T * x - Q * (s + T * v)) - (T * Q) * l
           j == v + l + i
<1>2. T \in Nat /\ Q \in Nat /\ T * Q \in Nat /\ T * Q > 0 /\ T > 0 /\ Q > 0
  BY Constants
<1>3. e \in Int /\ j \in Int /\ Within(e, b)
  BY <1>1, <1>2 DEF Within
<1>4. T * p = Q * s + e + (T * Q) * j
  <2>1. /\ T * p = T * x + (T * Q) * i
        /\ Q * (s + T * v) = Q * s + (T * Q) * v
        /\ (T * Q) * j = (T * Q) * v + (T * Q) * l + (T * Q) * i
    BY <1>2
  <2> QED BY <1>2, <2>1
<1> HIDE DEF e, j
<1>5. Within(j, Wraps)
  <2> DEFINE M == T * Q
             big == Q * s
  <2>1. 2 * (T * p) <= M * (N + 1) /\ - (M * (N + 1)) <= 2 * (T * p)
    <3>1. 2 * p <= (Q - 1) * (N + 1) /\ - ((Q - 1) * (N + 1)) <= 2 * p
      BY <1>2, Halves DEF Abs
    <3>2. (Q - 1) * (N + 1) <= Q * (N + 1) /\ Q * (N + 1) \in Int
      BY <1>2, Halves
    <3>3. 2 * p <= Q * (N + 1) /\ - (Q * (N + 1)) <= 2 * p
      <4>1. (Q - 1) * (N + 1) \in Int
        BY <1>2, Halves
      <4> QED BY <3>1, <3>2, <4>1
    <3> DEFINE y == Q * (N + 1)
    <3>4. T * (y - 2 * p) >= 0 /\ T * (y + 2 * p) >= 0
      <4> HIDE DEF y
      <4> QED BY <1>2, <3>2, <3>3 DEF y
    <3>5. T * (y - 2 * p) = M * (N + 1) - 2 * (T * p) /\ T * (y + 2 * p) = M * (N + 1) + 2 * (T * p)
      BY <1>2, Halves
    <3>6. T * p \in Int /\ M * (N + 1) \in Int
      BY <1>2, Halves
    <3> QED BY <3>4, <3>5, <3>6
  <2>2. 2 * big <= M - Q /\ - (M - Q) <= 2 * big
    <3>1. Q * (Half - s) >= 0 /\ Q * (Half + s) >= 0
      BY <1>2, Halves DEF Within
    <3>2. M = 2 * (Q * Half) + Q
      BY <1>2, Halves
    <3> QED BY <1>2, <3>1, <3>2, Halves
  <2>3. M * j = T * p - big - e /\ M * j \in Int /\ T * p \in Int /\ big \in Int
    BY <1>2, <1>3, <1>4
  <2>4. 2 * (M * j) < M * (N + 1) + M /\ - (M * (N + 1) + M) < 2 * (M * j)
    <3>1. M * (N + 1) \in Int /\ M \in Int
      BY <1>2, Halves
    <3> HIDE DEF M, big
    <3> QED BY <1>2, <1>3, <2>1, <2>2, <2>3, <3>1 DEF Within
  <2>5. M \in Nat /\ M > 0
    BY <1>2
  <2>6. ASSUME j > Wraps PROVE FALSE
    <3>1. M * (2 * j - (N + 2)) > 0
      BY <1>3, <2>5, <2>6, Halves
    <3>2. M * (2 * j - (N + 2)) = 2 * (M * j) - M * (N + 1) - M
      BY <1>3, <2>5, Halves
    <3>3. M * (N + 1) \in Int
      BY <1>2, Halves
    <3> HIDE DEF M
    <3> QED BY <2>3, <2>4, <2>5, <3>1, <3>2, <3>3
  <2>7. ASSUME j < - Wraps PROVE FALSE
    <3>1. M * (- 2 * j - (N + 2)) > 0
      BY <1>3, <2>5, <2>7, Halves
    <3>2. M * (- 2 * j - (N + 2)) = - (2 * (M * j)) - M * (N + 1) - M
      BY <1>3, <2>5, Halves
    <3>3. M * (N + 1) \in Int
      BY <1>2, Halves
    <3> HIDE DEF M
    <3> QED BY <2>3, <2>4, <2>5, <3>1, <3>2, <3>3
  <2> QED BY <1>3, <2>6, <2>7, Halves DEF Within
<1> QED BY <1>3, <1>4, <1>5 DEF Splits

\* The plaintext of a multiplication is centered.
LEMMA CenteredPlain ==
  ASSUME NEW x \in 0 .. T - 1
  PROVE  \E m, w \in Int : x = m + T * w /\ Within(m, Half)
<1>1. CASE x <= Half
  <2>1. x = x + T * 0 /\ Within(x, Half) /\ x \in Int /\ 0 \in Int
    BY <1>1, Halves, Constants DEF Within
  <2> QED BY <2>1, Zenon
<1>2. CASE x > Half
  <2>1. x = (x - T) + T * 1 /\ Within(x - T, Half) /\ x - T \in Int /\ 1 \in Int
    BY <1>2, Halves, Constants DEF Within
  <2> QED BY <2>1, Zenon
<1> QED BY <1>1, <1>2, Halves, Constants

\* A lift p of a sound ciphertext: T * p = Q * m + e + T*Q * j in every
\* coefficient, the plaintext being m modulo T.
IsSplit(c, p, m, w, e, j) ==
  /\ m \in Int /\ w \in Int /\ c.plain = m + T * w /\ Within(m, Half)
  /\ p \in [Coefficient -> Int] /\ e \in [Coefficient -> Int] /\ j \in [Coefficient -> Int]
  /\ \A k \in Coefficient :
       /\ T * p[k] = Q * Scalar(m)[k] + e[k] + (T * Q) * j[k]
       /\ Within(e[k], c.bound) /\ Within(j[k], Wraps)

LEMMA LiftSplits ==
  ASSUME NEW c, Sound(c), NEW p \in Lifts(c.phase)
  PROVE  \E m, w, e, j : IsSplit(c, p, m, w, e, j)
<1> DEFINE Ok(k, m, e, j) ==
             /\ T * p[k] = Q * Scalar(m)[k] + e + (T * Q) * j
             /\ Within(e, c.bound) /\ Within(j, Wraps)
<1>1. c.plain \in 0 .. T - 1 /\ c.bound \in Nat /\ 2 * c.bound < Q
  BY DEF Sound, Ciphertext, Plain, Admitted
<1>2. PICK m \in Int, w \in Int : c.plain = m + T * w /\ Within(m, Half)
  BY <1>1, CenteredPlain
<1>3. ASSUME NEW k \in Coefficient
      PROVE  /\ c.phase[k] \in Int
             /\ \E i \in Int : p[k] = c.phase[k] + Q * i
             /\ 2 * Abs(p[k]) <= (Q - 1) * (N + 1)
             /\ p[k] \in Int
  <2>1. c.phase[k] \in Int
    BY Constants DEF Sound, Ciphertext
  <2>2. p[k] \in {c.phase[k] + Q * i : i \in (- N) .. N} /\ 2 * Abs(p[k]) <= (Q - 1) * (N + 1)
    BY DEF Lifts
  <2>3. PICK i \in (- N) .. N : p[k] = c.phase[k] + Q * i
    BY <2>2
  <2>4. i \in Int
    BY <2>3, Halves
  <2>5. \E l \in Int : p[k] = c.phase[k] + Q * l
    BY <2>3, <2>4, Zenon
  <2>6. c.phase[k] + Q * i \in Int
    BY <2>1, <2>4, Constants
  <2> QED BY <2>1, <2>2, <2>3, <2>5, <2>6, Zenon
<1>4. ASSUME NEW k \in Coefficient PROVE \E e, j \in Int : Ok(k, m, e, j)
  <2> DEFINE s == Scalar(m)[k]
             v == Scalar(w)[k]
             x == c.phase[k]
             y == p[k]
             b == c.bound
  <2>1. PICK i \in Int : y = x + Q * i
    BY <1>3
  <2>2. x \in Int /\ y \in Int /\ 2 * Abs(y) <= (Q - 1) * (N + 1)
    BY <1>3
  <2>3. s \in Int /\ v \in Int /\ Within(s, Half)
    BY <1>2, Halves, ScalarIsInt DEF Scalar, Within
  <2>4. Scalar(c.plain)[k] = s + T * v
    BY <1>2, Constants DEF Scalar
  <2>5. Near(T * x - Q * (s + T * v), T * Q, b)
    BY <2>4 DEF Sound, Excess
  <2>6. b \in Nat /\ 2 * b < Q
    BY <1>1
  <2> HIDE DEF s, v, x, y, b
  <2>7. Splits(y, s, b)
    BY <2>1, <2>2, <2>3, <2>5, <2>6, LiftOfCoefficient
  <2> QED BY <2>7, Zenon DEF s, y, b, Splits
<1> DEFINE pair == [k \in Coefficient |-> CHOOSE z \in Int \X Int : Ok(k, m, z[1], z[2])]
           e == [k \in Coefficient |-> pair[k][1]]
           j == [k \in Coefficient |-> pair[k][2]]
<1>5. ASSUME NEW k \in Coefficient PROVE e[k] \in Int /\ j[k] \in Int /\ Ok(k, m, e[k], j[k])
  <2> HIDE DEF Ok
  <2>1. \E z \in Int \X Int : Ok(k, m, z[1], z[2])
    <3>1. PICK a \in Int, b \in Int : Ok(k, m, a, b)
      BY <1>4
    <3>2. <<a, b>> \in Int \X Int /\ Ok(k, m, <<a, b>>[1], <<a, b>>[2])
      BY <3>1
    <3> QED BY <3>2, Zenon
  <2>2. pair[k] \in Int \X Int /\ Ok(k, m, pair[k][1], pair[k][2])
    BY <2>1, Zenon
  <2> QED BY <2>2
<1>6. p \in [Coefficient -> Int]
  <2>1. p = [k \in Coefficient |-> p[k]]
    BY DEF Lifts
  <2> QED BY <1>3, <2>1
<1>7. e \in [Coefficient -> Int] /\ j \in [Coefficient -> Int]
  BY <1>5
<1> HIDE DEF e, j
<1>8. IsSplit(c, p, m, w, e, j)
  BY <1>2, <1>5, <1>6, <1>7 DEF IsSplit
<1> QED BY <1>8

-----------------------------------------------------------------------------
(* The terms of a coefficient of a negacyclic product.                      *)

Terms(f, g, k) ==
  [i \in Coefficient |-> IF i <= k THEN f[i] * g[k - i] ELSE - f[i] * g[N + k - i]]

Sign(k, i) == IF i <= k THEN 1 ELSE -1
Partner(k, i) == IF i <= k THEN k - i ELSE N + k - i

LEMMA ProductIsTotal ==
  ASSUME NEW f, NEW g, NEW k \in Coefficient
  PROVE  Negacyclic(f, g)[k] = Total(Terms(f, g, k))
  BY Zenon DEF Negacyclic, Total, Terms

LEMMA CoefficientsAreFinite == IsFiniteSet(Coefficient) /\ Cardinality(Coefficient) = N
<1>1. N \in Nat /\ 0 \in Int /\ N - 1 \in Int /\ N - 1 >= 0
  BY CertifiedBoundAssumption
<1>2. Cardinality(0 .. N - 1) = (N - 1) - 0 + 1 /\ IsFiniteSet(0 .. N - 1)
  BY <1>1, FS_Interval
<1> QED BY <1>1, <1>2 DEF Coefficient

LEMMA TermIs ==
  ASSUME NEW k \in Coefficient, NEW i \in Coefficient
  PROVE  /\ Sign(k, i) \in {1, -1} /\ Partner(k, i) \in Coefficient
         /\ Partner(k, i) = 0 <=> i = k
         /\ (i = 0 => Partner(k, i) = k /\ Sign(k, i) = 1)
         /\ (i = k => Sign(k, i) = 1)
         /\ \A f, g : f[i] \in Int /\ g[Partner(k, i)] \in Int =>
              Terms(f, g, k)[i] = Sign(k, i) * (f[i] * g[Partner(k, i)])
<1>1. N \in Nat /\ i \in 0 .. N - 1 /\ k \in 0 .. N - 1
  BY Halves DEF Coefficient
<1>2. CASE i <= k
  BY <1>1, <1>2 DEF Sign, Partner, Terms, Coefficient
<1>3. CASE ~ (i <= k)
  BY <1>1, <1>3 DEF Sign, Partner, Terms, Coefficient
<1> QED BY <1>2, <1>3

LEMMA TermsAreInt ==
  ASSUME NEW f \in [Coefficient -> Int], NEW g \in [Coefficient -> Int], NEW k \in Coefficient
  PROVE  Terms(f, g, k) \in [Coefficient -> Int]
<1>1. ASSUME NEW i \in Coefficient PROVE Terms(f, g, k)[i] \in Int
  <2>1. f[i] \in Int /\ g[Partner(k, i)] \in Int
    BY TermIs
  <2>2. Terms(f, g, k)[i] = Sign(k, i) * (f[i] * g[Partner(k, i)])
    BY <2>1, TermIs
  <2> QED BY <2>1, <2>2, TermIs
<1> QED BY <1>1 DEF Terms

\* Either factor a constant polynomial: one term is left.
LEMMA ScalarTerms ==
  ASSUME NEW f \in [Coefficient -> Int], NEW m \in Int, NEW k \in Coefficient
  PROVE  Total(Terms(Scalar(m), f, k)) = m * f[k] /\ Total(Terms(f, Scalar(m), k)) = m * f[k]
<1> DEFINE s == Scalar(m)
<1>1. s \in [Coefficient -> Int]
  BY ScalarIsInt DEF Scalar
<1>2. s[0] = m /\ \A i \in Coefficient : i # 0 => s[i] = 0
  BY Constants DEF Scalar
<1>3. 0 \in Coefficient /\ f[k] \in Int
  BY Constants
<1> HIDE DEF s
<1>4. Total(Terms(s, f, k)) = m * f[k]
  <2>1. ASSUME NEW i \in Coefficient, i # 0 PROVE Terms(s, f, k)[i] = 0
    <3>1. s[i] = 0 /\ f[Partner(k, i)] \in Int
      BY <1>2, <2>1, TermIs
    <3> QED BY <3>1, TermIs
  <2>2. Terms(s, f, k)[0] = m * f[k]
    <3>1. s[0] \in Int /\ f[Partner(k, 0)] = f[k] /\ Sign(k, 0) = 1
      BY <1>1, <1>3, TermIs
    <3> QED BY <1>2, <1>3, <3>1, TermIs
  <2>3. Terms(s, f, k) \in [Coefficient -> Int]
    BY <1>1, TermsAreInt
  <2> QED BY <1>3, <2>1, <2>2, <2>3, TotalOfOne, CoefficientsAreFinite
<1>5. Total(Terms(f, s, k)) = m * f[k]
  <2>1. ASSUME NEW i \in Coefficient, i # k PROVE Terms(f, s, k)[i] = 0
    <3>1. s[Partner(k, i)] = 0 /\ f[i] \in Int
      BY <1>2, <2>1, TermIs
    <3> QED BY <3>1, TermIs
  <2>2. Terms(f, s, k)[k] = m * f[k]
    <3>1. s[Partner(k, k)] = m /\ Sign(k, k) = 1
      BY <1>2, TermIs
    <3> QED BY <1>3, <3>1, TermIs
  <2>3. Terms(f, s, k) \in [Coefficient -> Int]
    BY <1>1, TermsAreInt
  <2> QED BY <2>1, <2>2, <2>3, TotalOfOne, CoefficientsAreFinite
<1> QED BY <1>4, <1>5 DEF s

LEMMA TermsAreWithin ==
  ASSUME NEW f \in [Coefficient -> Int], NEW g \in [Coefficient -> Int], NEW k \in Coefficient,
         NEW a \in Nat, NEW b \in Nat,
         \A i \in Coefficient : Within(f[i], a) /\ Within(g[i], b)
  PROVE  Total(Terms(f, g, k)) \in Int /\ Within(Total(Terms(f, g, k)), (a * b) * N)
<1>1. Terms(f, g, k) \in [Coefficient -> Int]
  BY TermsAreInt
<1>2. a * b \in Nat
  OBVIOUS
<1>3. ASSUME NEW i \in Coefficient
      PROVE  - (a * b) <= Terms(f, g, k)[i] /\ Terms(f, g, k)[i] <= a * b
  <2> DEFINE x == f[i]
             y == g[Partner(k, i)]
  <2>1. x \in Int /\ y \in Int /\ Within(x, a) /\ Within(y, b)
    BY TermIs
  <2>2. Terms(f, g, k)[i] = Sign(k, i) * (x * y) /\ Sign(k, i) \in {1, -1}
    BY <2>1, TermIs
  <2> HIDE DEF x, y
  <2>3. x * y \in Int /\ Within(x * y, a * b) /\ Within(- (x * y), a * b)
    BY <2>1, WithinProduct
  <2> QED BY <2>2, <2>3 DEF Within
<1> HIDE DEF Terms
<1> QED BY <1>1, <1>2, <1>3, CoefficientsAreFinite, TotalIsInt, TotalIsBounded DEF Within

-----------------------------------------------------------------------------
(* The coefficient of a product.                                            *)

\* The sum of the five parts over all coefficients
IsSum(h, f1, f2, f3, f4, f5) ==
  /\ h \in [Coefficient -> Int] /\ f1 \in [Coefficient -> Int] /\ f2 \in [Coefficient -> Int]
  /\ f3 \in [Coefficient -> Int] /\ f4 \in [Coefficient -> Int] /\ f5 \in [Coefficient -> Int]
  /\ \A d \in Coefficient :
       (T * T) * h[d] = (Q * Q) * f1[d] + Q * f2[d] + f3[d] + (T * Q * Q) * f4[d] + (T * Q) * f5[d]

Sums(h, f1, f2, f3, f4, f5) ==
  (T * T) * h = (Q * Q) * f1 + Q * f2 + f3 + (T * Q * Q) * f4 + (T * Q) * f5

LEMMA TotalOfParts ==
  ASSUME NEW h, NEW f1, NEW f2, NEW f3, NEW f4, NEW f5, IsSum(h, f1, f2, f3, f4, f5)
  PROVE  Sums(Total(h), Total(f1), Total(f2), Total(f3), Total(f4), Total(f5))
<1> DEFINE D == Coefficient
           r == T * T
           a1 == Q * Q
           a2 == Q
           a4 == T * Q * Q
           a5 == T * Q
           s == [d \in D |-> a1 * f1[d] + a2 * f2[d]]
           u == [d \in D |-> a4 * f4[d] + a5 * f5[d]]
           v == [d \in D |-> 1 * s[d] + 1 * u[d]]
           w == [d \in D |-> 1 * v[d] + 1 * f3[d]]
           x == [d \in D |-> r * h[d] + 0 * h[d]]
<1>10. r \in Int /\ a1 \in Int /\ a2 \in Int /\ a4 \in Int /\ a5 \in Int
  BY Constants
<1>11. \A d \in D : r * h[d] = a1 * f1[d] + a2 * f2[d] + f3[d] + a4 * f4[d] + a5 * f5[d]
  BY DEF IsSum
<1>12. IsFiniteSet(D)
  BY CoefficientsAreFinite
<1>14. /\ h \in [D -> Int] /\ f1 \in [D -> Int] /\ f2 \in [D -> Int]
       /\ f3 \in [D -> Int] /\ f4 \in [D -> Int] /\ f5 \in [D -> Int]
  BY DEF IsSum
<1> HIDE DEF r, a1, a2, a4, a5, D
<1>1. /\ s \in [D -> Int] /\ u \in [D -> Int] /\ v \in [D -> Int] /\ w \in [D -> Int]
      /\ x \in [D -> Int]
  BY <1>10, <1>14
<1>0. 0 \in Int /\ 1 \in Int
  OBVIOUS
<1>2. Total(s) = a1 * Total(f1) + a2 * Total(f2)
  <2>1. IsCombination(D, s, a1, f1, a2, f2)
    BY DEF IsCombination
  <2> HIDE DEF s, u, v, w, x
  <2> QED BY <1>0, <1>1, <1>10, <1>12, <1>14, <2>1, TotalIsLinear
<1>3. Total(u) = a4 * Total(f4) + a5 * Total(f5)
  <2>1. IsCombination(D, u, a4, f4, a5, f5)
    BY DEF IsCombination
  <2> HIDE DEF s, u, v, w, x
  <2> QED BY <1>0, <1>1, <1>10, <1>12, <1>14, <2>1, TotalIsLinear
<1>4. Total(v) = 1 * Total(s) + 1 * Total(u)
  <2>1. IsCombination(D, v, 1, s, 1, u)
    BY DEF IsCombination
  <2> HIDE DEF s, u, v, w, x
  <2> QED BY <1>0, <1>1, <1>10, <1>12, <1>14, <2>1, TotalIsLinear
<1>5. Total(w) = 1 * Total(v) + 1 * Total(f3)
  <2>1. IsCombination(D, w, 1, v, 1, f3)
    BY DEF IsCombination
  <2> HIDE DEF s, u, v, w, x
  <2> QED BY <1>0, <1>1, <1>10, <1>12, <1>14, <2>1, TotalIsLinear
<1>6. Total(x) = r * Total(h) + 0 * Total(h)
  <2>1. IsCombination(D, x, r, h, 0, h)
    BY DEF IsCombination
  <2> HIDE DEF s, u, v, w, x
  <2> QED BY <1>0, <1>1, <1>10, <1>12, <1>14, <2>1, TotalIsLinear
<1>7. x = w
  <2>1. ASSUME NEW d \in D PROVE x[d] = w[d]
    <3>1. /\ x[d] = r * h[d] + 0 * h[d] /\ w[d] = 1 * v[d] + 1 * f3[d]
          /\ v[d] = 1 * s[d] + 1 * u[d]
          /\ s[d] = a1 * f1[d] + a2 * f2[d] /\ u[d] = a4 * f4[d] + a5 * f5[d]
      OBVIOUS
    <3>2. /\ r * h[d] \in Int /\ h[d] \in Int /\ f3[d] \in Int /\ a1 * f1[d] \in Int
          /\ a2 * f2[d] \in Int /\ a4 * f4[d] \in Int /\ a5 * f5[d] \in Int
      BY <1>10, <1>14
    <3>3. r * h[d] = a1 * f1[d] + a2 * f2[d] + f3[d] + a4 * f4[d] + a5 * f5[d]
      BY <1>11
    <3> HIDE DEF s, u, v, w, x
    <3> QED BY <3>1, <3>2, <3>3
  <2>2. DOMAIN x = D /\ DOMAIN w = D /\ x = [d \in D |-> x[d]] /\ w = [d \in D |-> w[d]]
    OBVIOUS
  <2> HIDE DEF s, u, v, w, x
  <2> QED BY <2>1, <2>2
<1> HIDE DEF s, u, v, w, x
<1>8. /\ Total(h) \in Int /\ Total(f1) \in Int /\ Total(f2) \in Int /\ Total(f3) \in Int
      /\ Total(f4) \in Int /\ Total(f5) \in Int
      /\ Total(s) \in Int /\ Total(u) \in Int /\ Total(v) \in Int
  BY <1>1, <1>12, <1>14, TotalIsInt
<1>9. /\ r * Total(h) \in Int /\ a1 * Total(f1) \in Int /\ a2 * Total(f2) \in Int
      /\ a4 * Total(f4) \in Int /\ a5 * Total(f5) \in Int
  BY <1>8, <1>10
<1>13. r * Total(h) = a1 * Total(f1) + a2 * Total(f2) + Total(f3) + a4 * Total(f4)
                        + a5 * Total(f5)
  BY <1>2, <1>3, <1>4, <1>5, <1>6, <1>7, <1>8, <1>9
<1> QED BY <1>13, Zenon DEF Sums, r, a1, a2, a4, a5

LEMMA ProductSplits ==
  ASSUME NEW c, NEW p, NEW m, NEW w, NEW e, NEW i, Sound(c), IsSplit(c, p, m, w, e, i),
         NEW d, NEW q, NEW n, NEW x, NEW f, NEW j, Sound(d), IsSplit(d, q, n, x, f, j),
         NEW k \in Coefficient
  PROVE  \E B, C, J, E \in Int :
           /\ (T * T) * Negacyclic(p, q)[k]
                = (Q * Q) * Scalar(m * n)[k] + Q * B + C + (T * Q * Q) * J + (T * Q) * E
           /\ Negacyclic(p, q)[k] \in Int
           /\ Within(B, (c.bound + d.bound) * Half)
           /\ Within(C, (c.bound * d.bound) * N)
           /\ Within(E, (c.bound + d.bound) * (N * Wraps))
<1> DEFINE a == c.bound
           b == d.bound
           U == Scalar(m)
           V == Scalar(n)
           fW == Terms(p, q, k)
           f1 == Terms(U, V, k)
           f2a == Terms(U, f, k)
           f2b == Terms(e, V, k)
           f2 == [l \in Coefficient |-> 1 * f2a[l] + 1 * f2b[l]]
           f3 == Terms(e, f, k)
           f4a == Terms(i, V, k)
           f4b == Terms(U, j, k)
           f4c == Terms(i, j, k)
           f4 == [l \in Coefficient |-> f4a[l] + f4b[l] + T * f4c[l]]
           f5a == Terms(i, f, k)
           f5b == Terms(e, j, k)
           f5 == [l \in Coefficient |-> 1 * f5a[l] + 1 * f5b[l]]
<1>1. a \in Nat /\ b \in Nat /\ T \in Nat /\ Q \in Nat /\ Half \in Nat /\ Wraps \in Nat /\ N \in Nat
  BY Constants, Halves DEF Sound, Ciphertext
<1>2. /\ m \in Int /\ n \in Int /\ Within(m, Half) /\ Within(n, Half)
      /\ p \in [Coefficient -> Int] /\ q \in [Coefficient -> Int]
      /\ e \in [Coefficient -> Int] /\ f \in [Coefficient -> Int]
      /\ i \in [Coefficient -> Int] /\ j \in [Coefficient -> Int]
      /\ \A l \in Coefficient : /\ Within(e[l], a) /\ Within(f[l], b)
                                /\ Within(i[l], Wraps) /\ Within(j[l], Wraps)
                                /\ T * p[l] = Q * U[l] + e[l] + (T * Q) * i[l]
                                /\ T * q[l] = Q * V[l] + f[l] + (T * Q) * j[l]
  BY DEF IsSplit
<1>3. U \in [Coefficient -> Int] /\ V \in [Coefficient -> Int]
  BY <1>2, ScalarIsInt DEF Scalar
<1> HIDE DEF a, b
<1>4. /\ fW \in [Coefficient -> Int] /\ f1 \in [Coefficient -> Int]
      /\ f2a \in [Coefficient -> Int] /\ f2b \in [Coefficient -> Int]
      /\ f3 \in [Coefficient -> Int] /\ f4a \in [Coefficient -> Int]
      /\ f4b \in [Coefficient -> Int] /\ f4c \in [Coefficient -> Int]
      /\ f5a \in [Coefficient -> Int] /\ f5b \in [Coefficient -> Int]
  <2> HIDE DEF U, V
  <2> QED BY <1>2, <1>3, TermsAreInt
<1>5. ASSUME NEW l \in Coefficient
      PROVE  (T * T) * fW[l] = (Q * Q) * f1[l] + Q * f2[l] + f3[l] + (T * Q * Q) * f4[l]
                                 + (T * Q) * f5[l]
  <2> DEFINE s == Sign(k, l)
             o == Partner(k, l)
  <2>1. o \in Coefficient /\ s \in {1, -1}
    BY TermIs
  <2> HIDE DEF U, V, s, o
  <2>2. /\ p[l] \in Int /\ U[l] \in Int /\ e[l] \in Int /\ i[l] \in Int
        /\ q[o] \in Int /\ V[o] \in Int /\ f[o] \in Int /\ j[o] \in Int
    BY <1>2, <1>3, <2>1
  <2>3. /\ fW[l] = s * (p[l] * q[o]) /\ f1[l] = s * (U[l] * V[o])
        /\ f2a[l] = s * (U[l] * f[o]) /\ f2b[l] = s * (e[l] * V[o])
        /\ f3[l] = s * (e[l] * f[o])
        /\ f4a[l] = s * (i[l] * V[o]) /\ f4b[l] = s * (U[l] * j[o]) /\ f4c[l] = s * (i[l] * j[o])
        /\ f5a[l] = s * (i[l] * f[o]) /\ f5b[l] = s * (e[l] * j[o])
    BY <2>2, TermIs DEF s, o
  <2>4. /\ f2[l] = 1 * f2a[l] + 1 * f2b[l]
        /\ f4[l] = f4a[l] + f4b[l] + T * f4c[l]
        /\ f5[l] = 1 * f5a[l] + 1 * f5b[l]
    OBVIOUS
  <2>5. (T * T) * (p[l] * q[o])
           = (Q * Q) * (U[l] * V[o]) + Q * (U[l] * f[o] + e[l] * V[o]) + e[l] * f[o]
               + (T * Q * Q) * (i[l] * V[o] + U[l] * j[o] + T * (i[l] * j[o]))
               + (T * Q) * (i[l] * f[o] + e[l] * j[o])
    <3> DEFINE x1 == p[l]
               x2 == q[o]
               a1 == U[l]
               a2 == V[o]
               e1 == e[l]
               e2 == f[o]
               i1 == i[l]
               i2 == j[o]
    <3>1. T * x1 = Q * a1 + e1 + (T * Q) * i1 /\ T * x2 = Q * a2 + e2 + (T * Q) * i2
      BY <1>2, <2>1
    <3>2. /\ x1 \in Int /\ a1 \in Int /\ e1 \in Int /\ i1 \in Int
          /\ x2 \in Int /\ a2 \in Int /\ e2 \in Int /\ i2 \in Int
      BY <2>2
    <3> HIDE DEF x1, x2, a1, a2, e1, e2, i1, i2
    <3>3. (T * T) * (x1 * x2) = (T * x1) * (T * x2)
      BY <1>1, <3>2
    <3>4. (Q * a1 + e1 + (T * Q) * i1) * (Q * a2 + e2 + (T * Q) * i2)
            = (Q * Q) * (a1 * a2) + Q * (a1 * e2 + e1 * a2) + e1 * e2
                + (T * Q * Q) * (i1 * a2 + a1 * i2 + T * (i1 * i2))
                + (T * Q) * (i1 * e2 + e1 * i2)
      BY <1>1, <3>2
    <3> QED BY <3>1, <3>3, <3>4, Zenon DEF x1, x2, a1, a2, e1, e2, i1, i2
  <2> DEFINE pq == p[l] * q[o]
             uv == U[l] * V[o]
             uf == U[l] * f[o]
             ev == e[l] * V[o]
             ef == e[l] * f[o]
             iv == i[l] * V[o]
             uj == U[l] * j[o]
             ij == i[l] * j[o]
             if == i[l] * f[o]
             ej == e[l] * j[o]
  <2>6. /\ pq \in Int /\ uv \in Int /\ uf \in Int /\ ev \in Int /\ ef \in Int /\ iv \in Int
        /\ uj \in Int /\ ij \in Int /\ if \in Int /\ ej \in Int
    BY <2>2
  <2>7. (T * T) * pq = (Q * Q) * uv + Q * (uf + ev) + ef + (T * Q * Q) * (iv + uj + T * ij)
                         + (T * Q) * (if + ej)
    BY <2>5
  <2> HIDE DEF fW, f1, f2a, f2b, f2, f3, f4a, f4b, f4c, f4, f5a, f5b, f5,
               pq, uv, uf, ev, ef, iv, uj, ij, if, ej
  <2>8. /\ fW[l] = s * pq /\ f1[l] = s * uv /\ f2a[l] = s * uf /\ f2b[l] = s * ev /\ f3[l] = s * ef
        /\ f4a[l] = s * iv /\ f4b[l] = s * uj /\ f4c[l] = s * ij /\ f5a[l] = s * if
        /\ f5b[l] = s * ej
    BY <2>3 DEF pq, uv, uf, ev, ef, iv, uj, ij, if, ej
  <2>9. CASE s = 1
    BY <1>1, <2>4, <2>6, <2>7, <2>8, <2>9
  <2>10. CASE s = -1
    <3>1. /\ fW[l] = - pq /\ f1[l] = - uv /\ f2[l] = - (uf + ev) /\ f3[l] = - ef
          /\ f4[l] = - (iv + uj + T * ij) /\ f5[l] = - (if + ej)
      BY <1>1, <2>4, <2>6, <2>8, <2>10
    <3> QED BY <1>1, <2>6, <2>7, <3>1
  <2> QED BY <2>1, <2>9, <2>10
<1>6. f2 \in [Coefficient -> Int] /\ f4 \in [Coefficient -> Int] /\ f5 \in [Coefficient -> Int]
  <2> HIDE DEF U, V, f2a, f2b, f4a, f4b, f4c, f5a, f5b
  <2> QED BY <1>1, <1>4
<1>7. Total(f1) = Scalar(m * n)[k]
  <2>1. Total(f1) = m * V[k]
    <3> HIDE DEF V
    <3> QED BY <1>2, <1>3, ScalarTerms
  <2> QED BY <1>2, <2>1, ScalarProduct
<1>8. Total(f2) \in Int /\ Within(Total(f2), (a + b) * Half)
  <2>1. f[k] \in Int /\ e[k] \in Int /\ Within(f[k], b) /\ Within(e[k], a)
    BY <1>2
  <2>2. Total(f2a) = m * f[k] /\ Total(f2b) = n * e[k]
    BY <1>2, ScalarTerms
  <2>3. Total(f2) = 1 * Total(f2a) + 1 * Total(f2b) /\ Total(f2) \in Int
    <3>1. IsCombination(Coefficient, f2, 1, f2a, 1, f2b)
      BY DEF IsCombination
    <3>2. 1 \in Int
      OBVIOUS
    <3> HIDE DEF f2, f2a, f2b
    <3> QED BY <1>4, <1>6, <3>1, <3>2, CoefficientsAreFinite, TotalIsLinear, TotalIsInt
  <2> HIDE DEF f2, f2a, f2b
  <2>4. /\ m * f[k] \in Int /\ Within(m * f[k], Half * b) /\ Half * b \in Nat
        /\ n * e[k] \in Int /\ Within(n * e[k], Half * a) /\ Half * a \in Nat
    BY <1>1, <1>2, <2>1, WithinProduct
  <2>5. Within(m * f[k] + n * e[k], Half * b + Half * a)
    BY <2>4, WithinSum
  <2>6. Half * b + Half * a = (a + b) * Half
    BY <1>1
  <2>7. Total(f2) = m * f[k] + n * e[k]
    BY <2>2, <2>3, <2>4
  <2> QED BY <2>3, <2>5, <2>6, <2>7
<1>9. Total(f3) \in Int /\ Within(Total(f3), (a * b) * N)
  BY <1>1, <1>2, TermsAreWithin
<1>10. Total(f5) \in Int /\ Within(Total(f5), (a + b) * (N * Wraps))
  <2>1. Total(f5a) \in Int /\ Within(Total(f5a), (Wraps * b) * N)
    BY <1>1, <1>2, TermsAreWithin
  <2>2. Total(f5b) \in Int /\ Within(Total(f5b), (a * Wraps) * N)
    BY <1>1, <1>2, TermsAreWithin
  <2>3. Total(f5) = 1 * Total(f5a) + 1 * Total(f5b) /\ Total(f5) \in Int
    <3>1. IsCombination(Coefficient, f5, 1, f5a, 1, f5b)
      BY DEF IsCombination
    <3>2. 1 \in Int
      OBVIOUS
    <3> HIDE DEF f5, f5a, f5b
    <3> QED BY <1>4, <1>6, <3>1, <3>2, CoefficientsAreFinite, TotalIsLinear, TotalIsInt
  <2> HIDE DEF f5, f5a, f5b
  <2>4. (Wraps * b) * N \in Nat /\ (a * Wraps) * N \in Nat
    BY <1>1
  <2>5. Within(Total(f5a) + Total(f5b), (Wraps * b) * N + (a * Wraps) * N)
    BY <2>1, <2>2, <2>4, WithinSum
  <2>6. (Wraps * b) * N + (a * Wraps) * N = (a + b) * (N * Wraps)
    BY <1>1
  <2>7. Total(f5) = Total(f5a) + Total(f5b)
    BY <2>1, <2>2, <2>3
  <2> QED BY <2>3, <2>5, <2>6, <2>7
<1>11. Total(f4) \in Int /\ Total(fW) \in Int /\ Negacyclic(p, q)[k] = Total(fW)
  <2>1. Negacyclic(p, q)[k] = Total(fW)
    BY ProductIsTotal
  <2> HIDE DEF f4, fW
  <2> QED BY <1>4, <1>6, <2>1, CoefficientsAreFinite, TotalIsInt
<1>12. (T * T) * Total(fW) = (Q * Q) * Total(f1) + Q * Total(f2) + Total(f3)
                               + (T * Q * Q) * Total(f4) + (T * Q) * Total(f5)
  <2>1. IsSum(fW, f1, f2, f3, f4, f5)
    BY <1>4, <1>5, <1>6, Zenon DEF IsSum
  <2> HIDE DEF fW, f1, f2, f3, f4, f5
  <2>2. Sums(Total(fW), Total(f1), Total(f2), Total(f3), Total(f4), Total(f5))
    BY <2>1, TotalOfParts, Zenon
  <2> QED BY <2>2 DEF Sums
<1> HIDE DEF fW, f1, f2, f3, f4, f5
<1> QED BY <1>7, <1>8, <1>9, <1>10, <1>11, <1>12, Zenon DEF a, b

\* The rounding and the key switch: p is within slack of the exact quotient.
Slack == Q * (1 + N + N * N) + 2 * Q * SwitchError

LEMMA SlackIsNat ==
  /\ SwitchError \in Nat /\ Slack \in Nat /\ Slack >= 2 * Q
  /\ T * Slack = Q * (T * (1 + N + N * N)) + 2 * (Q * (T * SwitchError))
<1>1. SwitchError \in Nat
  <2>1. /\ Eta \in Nat /\ Base - 1 \in Nat /\ Digits \in Nat
    BY CertifiedBoundAssumption
  <2>2. N * Eta \in Nat
    BY <2>1, Halves
  <2>3. N * Eta * (Base - 1) \in Nat
    BY <2>1, <2>2
  <2> QED BY <2>1, <2>3 DEF SwitchError
<1> DEFINE r == 1 + N + N * N
           s == SwitchError
<1>2. r \in Nat /\ r >= 2 /\ s \in Nat
  BY <1>1, Halves
<1>3. Slack = Q * r + 2 * Q * s
  BY DEF Slack
<1> HIDE DEF r, s
<1>4. Q * r >= 2 * Q /\ Q * s >= 0 /\ Q * r \in Nat /\ Q * s \in Nat
  BY <1>2, Constants
<1>5. T * Slack = Q * (T * r) + 2 * (Q * (T * s))
  BY <1>2, <1>3, Constants
<1> QED BY <1>1, <1>3, <1>4, <1>5, Constants DEF r, s

LEMMA RoundedProduct ==
  ASSUME NEW px, NEW py, NEW p \in Products(px, py), NEW k \in Coefficient,
         Negacyclic(px, py)[k] \in Int
  PROVE  p[k] \in Int /\ Within(2 * Q * p[k] - 2 * T * Negacyclic(px, py)[k], Slack)
<1> DEFINE y == 2 * T * Negacyclic(px, py)[k]
           m == 2 * Q
           low == (y - Slack + 2 * Q - 1) \div (2 * Q)
           high == (y + Slack) \div (2 * Q)
<1>1. p[k] = low \/ p[k] = high
  BY DEF Products, Slack
<1>2. y \in Int /\ m \in Nat /\ m > 0 /\ Slack \in Nat /\ Slack >= m
  <2> DEFINE W == Negacyclic(px, py)[k]
  <2>1. W \in Int
    OBVIOUS
  <2> HIDE DEF W
  <2>2. 2 * T * W \in Int
    BY <2>1, Constants
  <2> QED BY <2>2, Constants, SlackIsNat DEF W
<1>3. CASE p[k] = low
  <2> DEFINE x == y - Slack + m - 1
  <2>1. x \in Int
    BY <1>2
  <2> HIDE DEF m
  <2>2. x = m * (x \div m) + (x % m) /\ x % m \in 0 .. m - 1 /\ x \div m \in Int
    <3> HIDE DEF x
    <3> QED BY <1>2, <2>1, Division
  <2>3. p[k] = x \div m
    BY <1>3 DEF m
  <2> HIDE DEF y
  <2>4. m * p[k] = x - (x % m) /\ p[k] \in Int /\ m * p[k] \in Int
    <3> HIDE DEF x
    <3> QED BY <1>2, <2>1, <2>2, <2>3
  <2>5. Within(m * p[k] - y, Slack)
    BY <1>2, <2>2, <2>4 DEF Within
  <2> QED BY <2>4, <2>5 DEF m, y
<1>4. CASE p[k] = high
  <2> DEFINE x == y + Slack
  <2>1. x \in Int
    BY <1>2
  <2> HIDE DEF m
  <2>2. x = m * (x \div m) + (x % m) /\ x % m \in 0 .. m - 1 /\ x \div m \in Int
    <3> HIDE DEF x
    <3> QED BY <1>2, <2>1, Division
  <2>3. p[k] = x \div m
    BY <1>4 DEF m
  <2> HIDE DEF y
  <2>4. m * p[k] = x - (x % m) /\ p[k] \in Int /\ m * p[k] \in Int
    <3> HIDE DEF x
    <3> QED BY <1>2, <2>1, <2>2, <2>3
  <2>5. Within(m * p[k] - y, Slack)
    BY <1>2, <2>2, <2>4 DEF Within
  <2> QED BY <2>4, <2>5 DEF m, y
<1> QED BY <1>1, <1>3, <1>4

\* N*a*b/Q is at most N/2 times the smaller of two admitted bounds.
LEMMA CrossTerm ==
  ASSUME NEW a \in Nat, NEW b \in Nat, 2 * a < Q, 2 * b < Q
  PROVE  /\ (a * b) * N <= Q * (Lesser(a, b) * (N \div 2))
         /\ Lesser(a, b) * (N \div 2) \in Nat
<1> DEFINE s == Lesser(a, b)
           g == IF a < b THEN b ELSE a
           h == N \div 2
<1>1. s \in Nat /\ g \in Nat /\ 2 * g <= Q /\ a * b = s * g
  BY Constants DEF Lesser
<1>2. h \in Nat /\ N = 2 * h /\ Q \in Nat
  BY Halves, Constants
<1> HIDE DEF s, g, h
<1>3. s * h \in Nat
  BY <1>1, <1>2
<1>4. (s * h) * (Q - 2 * g) >= 0
  BY <1>1, <1>2, <1>3
<1>5. (s * h) * (Q - 2 * g) = Q * (s * h) - (s * g) * (2 * h)
  BY <1>1, <1>2
<1>6. (s * g) * (2 * h) \in Int /\ Q * (s * h) \in Int
  BY <1>1, <1>2
<1>7. (s * g) * (2 * h) <= Q * (s * h)
  BY <1>4, <1>5, <1>6
<1> QED BY <1>1, <1>2, <1>3, <1>7 DEF s, h

\* What is left of the error of a product
LEMMA ProductError ==
  ASSUME NEW a \in Nat, NEW b \in Nat, 2 * a < Q, 2 * b < Q,
         NEW W \in Int, NEW M \in Int, NEW B \in Int, NEW C \in Int, NEW J \in Int, NEW E \in Int,
         NEW p \in Int,
         (T * T) * W = (Q * Q) * M + Q * B + C + (T * Q * Q) * J + (T * Q) * E,
         Within(B, (a + b) * Half), Within(C, (a * b) * N), Within(E, (a + b) * (N * Wraps)),
         Within(2 * Q * p - 2 * T * W, Slack)
  PROVE  Within(T * p - Q * M - (T * Q) * J, MultiplyBound(a, b)) /\ MultiplyBound(a, b) \in Nat
<1> DEFINE v == T * p - Q * M - (T * Q) * J
           z == 2 * Q * p - 2 * T * W
           s == Lesser(a, b) * (N \div 2)
           bb == (a + b) * Half
           ee == (a + b) * (N * Wraps)
           cc == (a * b) * N
           r == T * (1 + N + N * N)
           half == (r + 1) \div 2
           w == T * SwitchError
<1>1. /\ T \in Nat /\ Q \in Nat /\ Q > 0 /\ Half \in Nat /\ N \in Nat /\ Wraps \in Nat
      /\ SwitchError \in Nat /\ Slack \in Nat
  BY Constants, Halves, SlackIsNat
<1>2. s \in Nat /\ cc <= Q * s
  BY CrossTerm
<1>3. cc \in Nat /\ bb \in Nat /\ ee \in Nat /\ N * Wraps \in Nat /\ a + b \in Nat
  BY <1>1
<1>4. r \in Nat /\ half \in Nat /\ r <= 2 * half /\ w \in Nat
  <2>1. r \in Nat /\ w \in Nat
    BY <1>1
  <2> HIDE DEF r
  <2> QED BY <2>1
<1>5. T * Slack = Q * r + 2 * (Q * w)
  BY SlackIsNat
<1>6. v \in Int /\ z \in Int
  BY <1>1
<1>7. (2 * Q) * v = (2 * Q) * B + 2 * C + (2 * Q) * (T * E) + T * z
  <2>1. (2 * Q) * v = T * (2 * Q * p) - 2 * ((Q * Q) * M) - 2 * ((T * Q * Q) * J)
    BY <1>1
  <2>2. T * (2 * Q * p) = 2 * ((T * T) * W) + T * z
    BY <1>1
  <2>3. (2 * Q) * (T * E) = 2 * ((T * Q) * E) /\ (2 * Q) * B = 2 * (Q * B)
    BY <1>1
  <2>4. /\ (T * T) * W \in Int /\ (Q * Q) * M \in Int /\ (T * Q * Q) * J \in Int
        /\ (T * Q) * E \in Int /\ Q * B \in Int /\ T * z \in Int /\ T * (2 * Q * p) \in Int
    BY <1>1
  <2> HIDE DEF v, z
  <2> QED BY <2>1, <2>2, <2>3, <2>4
<1>8. MultiplyBound(a, b) = bb + T * ee + s + half + w
  <2>1. (a + b) * (Half + N * T * Wraps) = bb + T * ee
    BY <1>1
  <2>2. MultiplyBound(a, b) = (a + b) * (Half + N * T * Wraps) + s + half + w
    BY DEF MultiplyBound, Half, Wraps
  <2> QED BY <2>1, <2>2
<1> HIDE DEF v, z, s, bb, ee, cc, r, half, w
<1>9. T * ee \in Nat /\ T * E \in Int /\ Q * r \in Nat /\ Q * w \in Nat /\ T * z \in Int
  BY <1>1, <1>3, <1>4, <1>6
<1>10. /\ Within(B, bb) /\ Within(C, cc) /\ Within(E, ee) /\ Within(z, Slack)
  BY DEF bb, cc, ee, z
<1>11. Within(T * E, T * ee) /\ Within(T * z, T * Slack)
  <2>1. T * (ee - E) >= 0 /\ T * (ee + E) >= 0 /\ T * (Slack - z) >= 0 /\ T * (Slack + z) >= 0
    BY <1>1, <1>3, <1>6, <1>10 DEF Within
  <2>2. /\ T * (ee - E) = T * ee - T * E /\ T * (ee + E) = T * ee + T * E
        /\ T * (Slack - z) = T * Slack - T * z /\ T * (Slack + z) = T * Slack + T * z
    BY <1>1, <1>3, <1>6
  <2>3. T * Slack \in Int
    BY <1>1
  <2> QED BY <1>9, <2>1, <2>2, <2>3 DEF Within
<1> DEFINE te == T * E
           tee == T * ee
           tz == T * z
           total == bb + tee + s + half + w
<1>12. /\ te \in Int /\ tee \in Nat /\ tz \in Int /\ Within(te, tee) /\ Within(tz, Q * r + 2 * (Q * w))
       /\ (2 * Q) * v = (2 * Q) * B + 2 * C + (2 * Q) * te + tz
  BY <1>5, <1>7, <1>9, <1>11
<1> HIDE DEF te, tee, tz
<1>13. total \in Nat
  BY <1>2, <1>3, <1>4, <1>12
<1>14. Within((2 * Q) * v, (2 * Q) * total)
  <2>1. (2 * Q) * total = (2 * Q) * bb + (2 * Q) * tee + 2 * (Q * s) + Q * (2 * half) + 2 * (Q * w)
    BY <1>1, <1>2, <1>3, <1>4, <1>12
  <2>2. Q * r <= Q * (2 * half)
    <3>1. Q * (2 * half - r) >= 0
      BY <1>1, <1>4
    <3> QED BY <1>1, <1>4, <3>1
  <2>3. Within((2 * Q) * B, (2 * Q) * bb) /\ Within((2 * Q) * te, (2 * Q) * tee)
    <3>1. /\ (2 * Q) * (bb - B) >= 0 /\ (2 * Q) * (bb + B) >= 0
          /\ (2 * Q) * (tee - te) >= 0 /\ (2 * Q) * (tee + te) >= 0
      BY <1>1, <1>3, <1>10, <1>12 DEF Within
    <3> QED BY <1>1, <1>3, <1>12, <3>1 DEF Within
  <2>4. /\ (2 * Q) * B \in Int /\ (2 * Q) * bb \in Int /\ (2 * Q) * te \in Int
        /\ (2 * Q) * tee \in Int /\ Q * s \in Int /\ Q * (2 * half) \in Int /\ Q * r \in Int
        /\ Q * w \in Int /\ (2 * Q) * v \in Int
    BY <1>1, <1>2, <1>3, <1>4, <1>6, <1>12
  <2> HIDE DEF total
  <2> QED BY <1>2, <1>3, <1>10, <1>12, <2>1, <2>2, <2>3, <2>4 DEF Within
<1> HIDE DEF total
<1>15. Within(v, total)
  <2>1. ASSUME v > total PROVE FALSE
    <3>1. (2 * Q) * (v - total) > 0
      BY <1>1, <1>6, <1>13, <2>1
    <3>2. (2 * Q) * (v - total) = (2 * Q) * v - (2 * Q) * total
      BY <1>1, <1>6, <1>13
    <3>3. (2 * Q) * v \in Int /\ (2 * Q) * total \in Int
      BY <1>1, <1>6, <1>13
    <3> QED BY <1>14, <3>1, <3>2, <3>3 DEF Within
  <2>2. ASSUME v < - total PROVE FALSE
    <3>1. (2 * Q) * (- total - v) > 0
      BY <1>1, <1>6, <1>13, <2>2
    <3>2. (2 * Q) * (- total - v) = - ((2 * Q) * v) - (2 * Q) * total
      BY <1>1, <1>6, <1>13
    <3>3. (2 * Q) * v \in Int /\ (2 * Q) * total \in Int
      BY <1>1, <1>6, <1>13
    <3> QED BY <1>14, <3>1, <3>2, <3>3 DEF Within
  <2> QED BY <1>6, <1>13, <2>1, <2>2 DEF Within
<1>16. MultiplyBound(a, b) = total
  BY <1>8 DEF total, tee
<1> QED BY <1>13, <1>15, <1>16 DEF v

\* cram_main.rs multiply
LEMMA MultiplyKeeps ==
  ASSUME Linv, NEW r \in Register, NEW x \in Held, NEW y \in Held, Multiply(r, x, y)
  PROVE  Linv'
<1> DEFINE c == ct[x]
           d == ct[y]
           bound == MultiplyBound(c.bound, d.bound)
<1>0. PICK px \in Lifts(c.phase), py \in Lifts(d.phase) :
        \E p \in Products(px, py) : Store(r, Output(c.plain * d.plain, p, bound))
  BY DEF Multiply
<1>1. PICK p \in Products(px, py) : Store(r, Output(c.plain * d.plain, p, bound))
  BY <1>0
<1>2. Sound(c) /\ Sound(d) /\ c.plain \in Int /\ d.plain \in Int
  BY HeldIsSound
<1> HIDE DEF c, d
<1>3. PICK m, w, e, i : IsSplit(c, px, m, w, e, i)
  BY <1>2, LiftSplits
<1>4. PICK n, v, f, j : IsSplit(d, py, n, v, f, j)
  BY <1>2, LiftSplits
<1>5. /\ m \in Int /\ w \in Int /\ n \in Int /\ v \in Int
      /\ c.plain = m + T * w /\ d.plain = n + T * v
  BY <1>3, <1>4 DEF IsSplit
<1>6. c.bound \in Nat /\ d.bound \in Nat /\ 2 * c.bound < Q /\ 2 * d.bound < Q
  BY <1>2 DEF Sound, Ciphertext, Admitted
<1> DEFINE o == m * v + w * n + T * (w * v)
<1>7. o \in Int /\ m * n \in Int /\ c.plain * d.plain = m * n + T * o
  BY <1>5, Constants
<1>8. ASSUME NEW k \in Coefficient
      PROVE  /\ p[k] \in Int /\ bound \in Nat
             /\ Near(T * p[k] - Q * Scalar(c.plain * d.plain)[k], T * Q, bound)
  <2> DEFINE W == Negacyclic(px, py)[k]
             M == Scalar(m * n)[k]
             O == Scalar(o)[k]
             z == p[k]
  <2>1. PICK B \in Int, C \in Int, J \in Int, E \in Int :
          /\ (T * T) * W = (Q * Q) * M + Q * B + C + (T * Q * Q) * J + (T * Q) * E
          /\ W \in Int
          /\ Within(B, (c.bound + d.bound) * Half)
          /\ Within(C, (c.bound * d.bound) * N)
          /\ Within(E, (c.bound + d.bound) * (N * Wraps))
    BY <1>2, <1>3, <1>4, ProductSplits
  <2>2. z \in Int /\ Within(2 * Q * z - 2 * T * W, Slack)
    BY <2>1, RoundedProduct
  <2>3. M \in Int /\ O \in Int /\ Scalar(c.plain * d.plain)[k] = M + T * O
    <3>1. M \in Int /\ O \in Int
      BY <1>7, ScalarIsInt, Zenon
    <3>2. CASE k = 0
      BY <1>7, <3>2 DEF Scalar
    <3>3. CASE k # 0
      BY <3>3, Constants DEF Scalar
    <3> QED BY <3>1, <3>2, <3>3
  <2> HIDE DEF W, M, O, o, z
  <2>4. Within(T * z - Q * M - (T * Q) * J, bound) /\ bound \in Nat
    BY <1>6, <2>1, <2>2, <2>3, ProductError
  <2> DEFINE u == T * z - Q * (M + T * O)
             l == J - O
  <2> HIDE DEF bound
  <2>5. u \in Int /\ l \in Int /\ T * Q \in Int /\ u - (T * Q) * l = T * z - Q * M - (T * Q) * J
    <3>1. /\ Q * (M + T * O) = Q * M + (T * Q) * O
          /\ (T * Q) * (J - O) = (T * Q) * J - (T * Q) * O
      BY <2>1, <2>3, Constants
    <3>2. /\ T * z \in Int /\ Q * M \in Int /\ (T * Q) * O \in Int /\ (T * Q) * J \in Int
          /\ T * Q \in Int
      BY <2>1, <2>2, <2>3, Constants
    <3> QED BY <2>1, <2>3, <3>1, <3>2
  <2>6. - bound <= u - (T * Q) * l /\ u - (T * Q) * l <= bound
    BY <2>4, <2>5 DEF Within
  <2> HIDE DEF u, l
  <2>7. Near(u, T * Q, bound)
    <3>1. bound \in Int
      BY <2>4
    <3> QED BY <2>5, <2>6, <3>1, NearIntro, Zenon
  <2> QED BY <2>2, <2>3, <2>4, <2>7 DEF u, z
<1>9. p \in [Coefficient -> Int] /\ bound \in Nat
  <2>1. p = [k \in Coefficient |-> p[k]]
    BY DEF Products
  <2> HIDE DEF bound
  <2> QED BY <1>8, <2>1, Constants
<1> HIDE DEF bound, o
<1>10. c.plain * d.plain \in Int
  BY <1>2
<1>11. Admitted(bound) => Sound(Output(c.plain * d.plain, p, bound))
  BY <1>8, <1>9, <1>10, OutputIsSound
<1> QED BY <1>1, <1>11, OutputBound, StoreKeeps

LEMMA StepKeeps == Linv /\ [Next]_vars => Linv'
<1> SUFFICES ASSUME Linv, [Next]_vars PROVE Linv'
  OBVIOUS
<1>1. CASE [LinearNext]_vars
  BY <1>1, LinearStepKeeps
<1>2. ASSUME NEW r \in Register, NEW x \in Held, NEW y \in Held, Multiply(r, x, y)
      PROVE  Linv'
  BY <1>2, MultiplyKeeps
<1> QED BY <1>1, <1>2, Zenon DEF Next

-----------------------------------------------------------------------------
(* What soundness gives.                                                    *)

LEMMA SoundIsWithinBound ==
  ASSUME NEW c, Sound(c), NEW k \in Coefficient
  PROVE  Abs(PhaseError(c, k)) <= c.bound
<1> DEFINE x == Excess(c, k)
           m == T * Q
<1>1. c.bound \in Nat /\ 2 * c.bound < Q /\ Near(x, m, c.bound)
  BY DEF Sound, Ciphertext, Admitted
<1>2. x \in Int
  <2>1. c.phase[k] \in Int /\ c.plain \in Int
    BY Constants DEF Sound, Ciphertext, Plain
  <2>2. Scalar(c.plain)[k] \in Int
    BY <2>1, ScalarIsInt, Zenon
  <2> QED BY <2>1, <2>2, Constants DEF Excess
<1>3. m \in Nat /\ m > 0 /\ 2 * c.bound < m
  BY <1>1, Constants
<1>4. PhaseError(c, k) = Centered(x, m)
  BY DEF PhaseError, Centered, Excess
<1> HIDE DEF x, m
<1> QED BY <1>1, <1>2, <1>3, <1>4, CenteredIsNear

\* CanonicalScaleRound of a constant coefficient whose error is less than half
\* of Q.
LEMMA NearDecrypts ==
  ASSUME NEW c \in Ciphertext, Admitted(c.bound), Near(Excess(c, 0), T * Q, c.bound)
  PROVE  Decrypt(c) = c.plain
<1> DEFINE p == c.phase[0]
           b == c.bound
           h == c.plain
<1>1. p \in Int /\ b \in Nat /\ h \in 0 .. T - 1 /\ 2 * b < Q /\ T \in Nat /\ T > 0 /\ Q \in Nat /\ Q > 0
  BY Constants DEF Ciphertext, Plain, Admitted
<1>2. PICK j \in Int : - b <= Excess(c, 0) - (T * Q) * j /\ Excess(c, 0) - (T * Q) * j <= b
  BY Zenon DEF Near
<1>3. Excess(c, 0) = T * p - Q * h
  BY Constants DEF Excess, Scalar
<1> HIDE DEF p, b, h
<1> DEFINE half == Q \div 2
           v == T * p - Q * h - (T * Q) * j
           w == v + half
           i == h + T * j
<1>4. half \in Int /\ Q = 2 * half + 1
  BY Constants
<1>5. w \in 0 .. Q - 1
  BY <1>1, <1>2, <1>3, <1>4
<1>6. i \in Int /\ T * p + half = Q * i + w
  <2>1. Q * (T * j) = (T * Q) * j
    BY <1>1
  <2> QED BY <1>1, <1>4, <2>1
<1> HIDE DEF w, half
<1>7. (T * p + half) \div Q = i
  <2> HIDE DEF i
  <2> QED BY <1>1, <1>5, <1>6, QuotientIs
<1>8. (T * j + h) % T = h
  BY <1>1, QuotientIs
<1>9. i % T = h
  BY <1>1, <1>8
<1> QED BY <1>7, <1>9 DEF Decrypt, p, half, h

-----------------------------------------------------------------------------
(* The theorems.                                                            *)

LEMMA Initially == Init => Linv
  BY DEF Init, Linv, Held

\* Ciphertexts stay reduced, in both parts.
THEOREM TypeCorrect == Spec => []TypeOK
<1> DEFINE Inv == Linv /\ steps \in 0 .. MaxSteps
<1>1. Init => Inv
  BY Initially, MainQEvaluatorAssumption DEF Init
<1>2. Inv /\ [Next]_vars => Inv'
  <2> SUFFICES ASSUME Inv, [Next]_vars PROVE Inv'
    OBVIOUS
  <2>1. Linv'
    BY StepKeeps
  <2>2. CASE UNCHANGED vars
    BY <2>1, <2>2 DEF vars
  <2>3. CASE Next
    <3>1. steps < MaxSteps /\ steps' = steps + 1
      BY <2>3, ZenonT(60) DEF Next, LinearNext, Encrypt, Negate, MulPlain, Scale, AddPlain, Add, Sub,
                         Multiply, Store
    <3> QED BY <2>1, <3>1, MainQEvaluatorAssumption
  <2> QED BY <2>2, <2>3
<1>3. Inv => TypeOK
  BY DEF Linv, TypeOK
<1> QED BY <1>1, <1>2, <1>3, PTL DEF Spec

\* Whatever encryptions, linear operations and ciphertext multiplications led
\* to a ciphertext, for every even ring degree, odd modulus, error bound and
\* gadget: the bound it carries is never below its error in any coefficient.
THEOREM BoundsAreSound == Spec => []BoundIsSound
<1>1. Linv => BoundIsSound
  <2> SUFFICES ASSUME Linv, NEW r \in Held
               PROVE  \A k \in Coefficient : Abs(PhaseError(ct[r], k)) <= ct[r].bound
    BY Zenon DEF BoundIsSound
  <2> QED BY HeldIsSound, SoundIsWithinBound
<1> QED BY <1>1, Initially, StepKeeps, PTL DEF Spec

\* Every ciphertext the evaluator hands out decrypts to the value of its
\* circuit, multiplications included.
THEOREM EvaluatorIsExact == Spec => []DecryptsExactly
<1>1. Linv => DecryptsExactly
  <2> SUFFICES ASSUME Linv, NEW r \in Held PROVE Decrypt(ct[r]) = ct[r].plain
    BY Zenon DEF DecryptsExactly
  <2>1. Sound(ct[r])
    BY HeldIsSound
  <2> QED BY <2>1, Constants, NearDecrypts DEF Sound
<1> QED BY <1>1, Initially, StepKeeps, PTL DEF Spec

-----------------------------------------------------------------------------
(* The lane executor.  For any number of threads and lanes, and for any     *)
(* lanes that panic, a call runs each lane once, leaves no thread behind    *)
(* and implements LaneMap.                                                  *)

(* The inductive invariant of a call.                                       *)

\* Threads 1 .. spawned exist, and only in a parallel call.
Started ==
  /\ spawned <= Workers
  /\ \A t \in Thread : pc[t] = "absent" <=> t > spawned
  /\ ~ Parallel => spawned = 0 /\ next = 0 /\ outcome \in {"running", "returned", "panicked"}

\* A thread at work has a lane below the counter; it panics on a faulty one.
Working ==
  \A t \in Thread :
    /\ pc[t] \in {"computing", "panicked"} => lane[t] \in Lane /\ lane[t] < next
    /\ pc[t] = "panicked" => lane[t] \in faulty
    /\ pc[t] = "done" => next >= lanes
    /\ pc[t] = "absent" => bucket[t] = {}

\* Threads hold values of lanes that do not panic only.
Computed == \A t \in Thread : bucket[t] \subseteq {Pair(i) : i \in Lane \ faulty}

\* The counter has handed out exactly the lanes below it.
HandedOut ==
  /\ Parallel \/ outcome = "running" =>
       \A i \in AllLanes : calls[i] = IF i \in Lane /\ i < next THEN 1 ELSE 0
  /\ \A i \in AllLanes : calls[i] <= 1
  /\ ~ Parallel /\ outcome = "returned" => \A i \in Lane : calls[i] = 1

\* Unless a thread panicked, with the values it had, every lane that was handed
\* out is still computed by a thread or in a thread's bucket.
NothingLost ==
  \/ \E t \in Thread : pc[t] = "panicked"
  \/ \A i \in Lane : i < next =>
       \E t \in Thread : \/ pc[t] = "computing" /\ lane[t] = i
                         \/ Pair(i) \in bucket[t]

\* How far the calling thread has come and why.
Progress ==
  /\ \A t \in 1 .. joined : pc[t] = "done"
  /\ outcome = "unwinding" =>
       spawned < Workers \/ \E t \in Thread : pc[t] = "panicked"
  /\ Returned => \A t \in Thread : pc[t] \in Ended \cup {"absent"}
  /\ Parallel /\ outcome = "returned" => next >= lanes

LanesInv == LaneTypeOK /\ Started /\ Working /\ Computed /\ HandedOut /\ NothingLost /\ Progress

-----------------------------------------------------------------------------
(* Each step of a thread and of the caller keeps it.                        *)

USE LaneExecutorAssumption DEF LaneExecutorAssumption

\* The lanes of a call never change, nor what depends on them only.
LEMMA SameCall ==
  ASSUME UNCHANGED call
  PROVE  /\ lanes' = lanes /\ faulty' = faulty /\ Lane' = Lane
         /\ Workers' = Workers /\ Parallel' = Parallel
BY DEF call, Lane, Workers, Parallel

LEMMA WorkersExist ==
  ASSUME LaneTypeOK
  PROVE  Workers \in Nat /\ Workers <= WorkerCount /\ spawned \in Nat /\ lanes \in Nat
BY DEF LaneTypeOK, Workers

LEMMA CallStarts == LaneInit => LanesInv
<1>. SUFFICES ASSUME LaneInit PROVE LanesInv
  OBVIOUS
<1>1. LaneTypeOK
  BY DEF LaneInit, LaneTypeOK, Lane
<1>2. Started
  BY WorkersExist, <1>1 DEF LaneInit, Started, Thread
<1>3. Working /\ Computed
  BY DEF LaneInit, Working, Computed
<1>4. HandedOut
  BY DEF LaneInit, HandedOut, Lane, AllLanes
<1>5. NothingLost
  BY DEF LaneInit, NothingLost, Lane
<1>6. Progress
  BY DEF LaneInit, Progress, Returned
<1>. QED
  BY <1>1, <1>2, <1>3, <1>4, <1>5, <1>6 DEF LanesInv

\* A thread that can take a step belongs to a parallel call that is not over.
LEMMA StepsInParallel ==
  ASSUME LanesInv, NEW t \in Thread, pc[t] \in {"claiming", "computing"}
  PROVE  Parallel /\ outcome \in {"running", "unwinding"} /\ t > joined
<1>1. Parallel
  BY DEF LanesInv, Started, Thread
<1>2. ~ Returned
  BY DEF LanesInv, Progress, Ended
<1>3. t > joined
  BY DEF LanesInv, Progress, Thread, LaneTypeOK
<1>. QED
  BY <1>1, <1>2, <1>3 DEF LanesInv, LaneTypeOK, Returned

LEMMA ClaimKeeps == ASSUME LanesInv, NEW t \in Thread, Claim(t) PROVE LanesInv'
<1>. USE DEF LanesInv
<1>1. /\ pc[t] = "claiming" /\ next \in Nat /\ next' = next + 1 /\ bucket' = bucket
      /\ UNCHANGED <<lanes, faulty, spawned, joined, outcome, output>>
  BY DEF Claim, call, main, LaneTypeOK
<1>2. UNCHANGED call /\ Parallel /\ outcome \in {"running", "unwinding"} /\ t > joined
  BY <1>1, StepsInParallel DEF Claim
<1>3. CASE next >= lanes
  <2>1. pc' = [pc EXCEPT ![t] = "done"] /\ UNCHANGED <<lane, calls>>
    BY <1>3 DEF Claim, IsPast
  <2>2. LaneTypeOK'
    BY <1>1, <2>1, SameCall, <1>2 DEF LaneTypeOK
  <2>3. Started'
    BY <1>1, <1>2, <2>1, SameCall DEF Started, LaneTypeOK
  <2>4. Working'
    <3>1. next + 1 >= lanes
      BY <1>1, <1>3, WorkersExist
    <3>2. \A u \in Thread : u # t => pc'[u] = pc[u]
      BY <1>1, <2>1 DEF LaneTypeOK
    <3>3. pc'[t] = "done"
      BY <2>1 DEF LaneTypeOK
    <3>4. \A u \in Thread : lane[u] \in Lane /\ lane[u] < next => lane[u] < next + 1
      BY <1>1 DEF Lane
    <3>. QED
      BY <1>1, <1>2, <2>1, <3>1, <3>2, <3>3, <3>4, SameCall DEF Working
  <2>5. Computed'
    BY <1>1, <1>2, SameCall DEF Computed
  <2>6. HandedOut'
    BY <1>1, <1>2, <1>3, <2>1, SameCall, WorkersExist DEF HandedOut, AllLanes, Lane
  <2>7. NothingLost'
    BY <1>1, <1>2, <1>3, <2>1, SameCall, WorkersExist DEF NothingLost, LaneTypeOK, Lane
  <2>8. Progress'
    BY <1>1, <1>2, <2>1, <1>3, SameCall, WorkersExist DEF Progress, LaneTypeOK, Returned, Ended, Thread
  <2>. QED
    BY <2>2, <2>3, <2>4, <2>5, <2>6, <2>7, <2>8
<1>4. CASE next < lanes
  <2>1. /\ pc' = [pc EXCEPT ![t] = "computing"]
        /\ lane' = [lane EXCEPT ![t] = next]
        /\ calls' = [calls EXCEPT ![next] = @ + 1]
    BY <1>1, <1>4, WorkersExist DEF Claim, IsPast
  <2>2. next \in Lane /\ next \in AllLanes
    BY <1>1, <1>4, WorkersExist DEF Lane, AllLanes, LaneTypeOK
  <2>3. LaneTypeOK'
    BY <1>1, <1>2, <2>1, <2>2, SameCall DEF LaneTypeOK
  <2>4. Started'
    BY <1>1, <1>2, <2>1, SameCall DEF Started, LaneTypeOK
  <2>5. Working' /\ Computed'
    BY <1>1, <1>2, <2>1, <2>2, SameCall DEF Working, Computed, LaneTypeOK, Lane
  <2>6. HandedOut'
    <3>1. \A i \in AllLanes : calls[i] = IF i \in Lane /\ i < next THEN 1 ELSE 0
      BY <1>2 DEF HandedOut
    <3>2. \A i \in AllLanes : calls'[i] = IF i \in Lane /\ i < next + 1 THEN 1 ELSE 0
      BY <1>1, <2>1, <2>2, <3>1 DEF LaneTypeOK, AllLanes, Lane
    <3>. QED
      BY <1>1, <1>2, <3>2, SameCall DEF HandedOut
  <2>7. NothingLost'
    BY <1>1, <1>2, <2>1, <2>2, SameCall DEF NothingLost, LaneTypeOK, Lane
  <2>8. Progress'
    BY <1>1, <1>2, <2>1, SameCall DEF Progress, LaneTypeOK, Returned, Thread
  <2>. QED
    BY <2>3, <2>4, <2>5, <2>6, <2>7, <2>8
<1>. QED
  BY <1>1, <1>3, <1>4, WorkersExist

LEMMA ComputeKeeps == ASSUME LanesInv, NEW t \in Thread, Compute(t) PROVE LanesInv'
<1>. USE DEF LanesInv
<1>. DEFINE pair == Pair(lane[t])
<1>1. /\ pc[t] = "computing" /\ pc' = [pc EXCEPT ![t] = "claiming"]
      /\ bucket' = [bucket EXCEPT ![t] = @ \cup {pair}]
      /\ UNCHANGED <<lanes, faulty, spawned, next, lane, joined, calls, outcome, output>>
  BY DEF Compute, call, main
<1>2. UNCHANGED call /\ Parallel /\ outcome \in {"running", "unwinding"} /\ t > joined
  BY <1>1, StepsInParallel DEF Compute
<1>3. lane[t] \in Lane \ faulty
  BY <1>1 DEF Working, Compute
<1>4. LaneTypeOK'
  BY <1>1, <1>2, <1>3, SameCall DEF LaneTypeOK
<1>5. Started' /\ Working'
  BY <1>1, <1>2, SameCall DEF Started, Working, LaneTypeOK
<1>6. Computed'
  BY <1>1, <1>2, <1>3, SameCall DEF Computed, LaneTypeOK
<1>7. HandedOut'
  BY <1>1, <1>2, SameCall DEF HandedOut
<1>8. NothingLost'
  <2>1. CASE \E u \in Thread : pc[u] = "panicked"
    BY <2>1, <1>1 DEF NothingLost, LaneTypeOK
  <2>2. CASE ~ \E u \in Thread : pc[u] = "panicked"
    <3>1. SUFFICES ASSUME NEW i \in Lane, i < next
                   PROVE  \E u \in Thread : \/ pc'[u] = "computing" /\ lane'[u] = i
                                            \/ Pair(i) \in bucket'[u]
      BY <1>1, <1>2, SameCall DEF NothingLost
    <3>2. PICK u \in Thread : \/ pc[u] = "computing" /\ lane[u] = i
                             \/ Pair(i) \in bucket[u]
      BY <2>2, <3>1 DEF NothingLost
    <3>3. CASE u = t
      BY <1>1, <3>2, <3>3 DEF LaneTypeOK
    <3>4. CASE u # t
      BY <1>1, <3>2, <3>4 DEF LaneTypeOK
    <3>. QED
      BY <3>3, <3>4
  <2>. QED
    BY <2>1, <2>2
<1>9. Progress'
  BY <1>1, <1>2, SameCall DEF Progress, LaneTypeOK, Returned, Thread
<1>. QED
  BY <1>4, <1>5, <1>6, <1>7, <1>8, <1>9

LEMMA LanePanicsKeeps == ASSUME LanesInv, NEW t \in Thread, LanePanics(t) PROVE LanesInv'
<1>. USE DEF LanesInv
<1>1. /\ pc[t] = "computing" /\ pc' = [pc EXCEPT ![t] = "panicked"]
      /\ bucket' = [bucket EXCEPT ![t] = {}] /\ lane[t] \in faulty
      /\ UNCHANGED <<lanes, faulty, spawned, next, lane, joined, calls, outcome, output>>
  BY DEF LanePanics, call, main
<1>2. UNCHANGED call /\ Parallel /\ outcome \in {"running", "unwinding"} /\ t > joined
  BY <1>1, StepsInParallel DEF LanePanics
<1>3. LaneTypeOK' /\ Started' /\ Working' /\ Computed'
  BY <1>1, <1>2, SameCall DEF LaneTypeOK, Started, Working, Computed
<1>4. HandedOut'
  BY <1>1, <1>2, SameCall DEF HandedOut
<1>5. NothingLost' /\ Progress'
  BY <1>1, <1>2, SameCall DEF NothingLost, Progress, LaneTypeOK, Returned, Thread
<1>. QED
  BY <1>3, <1>4, <1>5

\* A plain loop: there is no thread, before and after.
LEMMA SequentialKeeps == ASSUME LanesInv, Sequential PROVE LanesInv'
<1>. USE DEF LanesInv
<1>1. /\ ~ Parallel /\ outcome = "running"
      /\ UNCHANGED <<lanes, faulty, next, pc, lane, bucket, spawned, joined>>
      /\ outcome' \in {"returned", "panicked"}
      /\ outcome' = "returned" => faulty = {}
  BY DEF Sequential, call
<1>2. UNCHANGED call
  BY DEF Sequential
<1>3. calls' = [i \in AllLanes |-> IF i \in Lane /\ \A j \in faulty : i <= j THEN 1 ELSE 0]
  BY DEF Sequential
<1>4. LaneTypeOK'
  BY <1>1, <1>2, <1>3, SameCall DEF LaneTypeOK
<1>5. Started' /\ Working' /\ Computed'
  BY <1>1, <1>2, SameCall DEF Started, Working, Computed
<1>6. HandedOut'
  <2>1. \A i \in Lane : i \in AllLanes
    BY DEF Lane, AllLanes, LaneTypeOK
  <2>. QED
    BY <1>1, <1>2, <1>3, <2>1, SameCall DEF HandedOut
<1>7. NothingLost'
  BY <1>1, <1>2, SameCall DEF NothingLost, Started, Lane, LaneTypeOK
<1>8. Progress'
  <2>1. \A t \in Thread : pc[t] = "absent"
    BY <1>1 DEF Started, Thread
  <2>. QED
    BY <1>1, <1>2, <2>1, SameCall DEF Progress
<1>. QED
  BY <1>4, <1>5, <1>6, <1>7, <1>8

LEMMA SpawnKeeps == ASSUME LanesInv, Spawn PROVE LanesInv'
<1>. USE DEF LanesInv
<1>. DEFINE t == spawned + 1
<1>1. /\ outcome = "running" /\ Parallel /\ spawned < Workers
      /\ spawned' = spawned + 1 /\ pc' = [pc EXCEPT ![t] = "claiming"]
      /\ UNCHANGED <<lanes, faulty, next, lane, bucket, calls, joined, outcome, output>>
  BY DEF Spawn, Spawning, call
<1>2. UNCHANGED call
  BY DEF Spawn
<1>3. t \in Thread /\ pc[t] = "absent" /\ t > joined
  BY <1>1, WorkersExist DEF Thread, Started, LaneTypeOK
<1>4. LaneTypeOK'
  BY <1>1, <1>2, <1>3, SameCall, WorkersExist DEF LaneTypeOK
<1>5. Started'
  BY <1>1, <1>2, <1>3, SameCall, WorkersExist DEF Started, LaneTypeOK, Thread
<1>6. Working' /\ Computed'
  BY <1>1, <1>2, <1>3, SameCall DEF Working, Computed, LaneTypeOK
<1>7. HandedOut'
  BY <1>1, <1>2, SameCall DEF HandedOut
<1>8. NothingLost'
  BY <1>1, <1>2, <1>3, SameCall DEF NothingLost, LaneTypeOK
<1>9. Progress'
  BY <1>1, <1>2, <1>3, SameCall DEF Progress, LaneTypeOK, Returned, Thread
<1>. QED
  BY <1>4, <1>5, <1>6, <1>7, <1>8, <1>9

\* Steps of the calling thread after which it has joined one thread more, or
\* unwinds: they touch no other thread.
LEMMA MainKeeps ==
  ASSUME LanesInv, UNCHANGED <<call, threads, spawned>>, Parallel, joined' \in 0 .. spawned,
         outcome' \in {"running", "unwinding", "returned", "panicked", "no_thread"},
         Progress'
  PROVE  LanesInv'
<1>. USE DEF LanesInv
<1>1. UNCHANGED <<lanes, faulty, next, pc, lane, bucket, calls>>
  BY DEF call, threads
<1>2. LaneTypeOK' /\ Started'
  BY <1>1, SameCall DEF LaneTypeOK, Started
<1>3. Working' /\ Computed' /\ NothingLost'
  BY <1>1, SameCall DEF Working, Computed, NothingLost
<1>4. HandedOut'
  BY <1>1, SameCall DEF HandedOut
<1>. QED
  BY <1>2, <1>3, <1>4

LEMMA SpawnFailsKeeps == ASSUME LanesInv, SpawnFails PROVE LanesInv'
<1>1. /\ UNCHANGED <<call, threads, spawned, joined>> /\ Parallel
      /\ spawned < Workers /\ outcome' = "unwinding"
  BY DEF SpawnFails, Spawning
<1>2. Progress'
  BY <1>1, SameCall DEF LanesInv, Progress, Returned, threads
<1>. QED
  BY <1>1, <1>2, MainKeeps DEF LanesInv, LaneTypeOK

LEMMA JoinKeeps == ASSUME LanesInv, Join PROVE LanesInv'
<1>1. /\ UNCHANGED <<call, threads, spawned>> /\ Parallel /\ outcome = "running"
      /\ spawned = Workers /\ joined < Workers /\ pc[joined + 1] \in Ended
      /\ IF pc[joined + 1] = "done"
         THEN joined' = joined + 1 /\ outcome' = "running"
         ELSE joined' = joined /\ outcome' = "unwinding"
  BY DEF Join, Joining
<1>2. pc' = pc /\ next' = next
  BY <1>1 DEF threads
<1>3. joined + 1 \in Thread /\ joined + 1 \in 0 .. spawned
  BY <1>1, WorkersExist DEF Thread, LanesInv, LaneTypeOK
<1>4. Progress'
  BY <1>1, <1>2, <1>3, SameCall DEF LanesInv, LaneTypeOK, Progress, Returned, Ended
<1>. QED
  BY <1>1, <1>3, <1>4, MainKeeps DEF LanesInv, LaneTypeOK

\* Unwinding is over only when all threads have ended.
LEMMA UnwindKeeps == ASSUME LanesInv, Unwind PROVE LanesInv'
<1>1. /\ UNCHANGED <<call, threads, spawned, joined>> /\ outcome = "unwinding"
      /\ \A t \in 1 .. spawned : pc[t] \in Ended
      /\ outcome' \in {"no_thread", "panicked"}
  BY DEF Unwind
<1>2. Parallel
  BY <1>1 DEF LanesInv, Started
<1>3. pc' = pc /\ next' = next
  BY <1>1 DEF threads
<1>4. \A t \in Thread : pc[t] \in Ended \cup {"absent"}
  BY <1>1 DEF LanesInv, Started, Thread, LaneTypeOK
<1>5. Progress'
  BY <1>1, <1>3, <1>4, SameCall DEF LanesInv, Progress
<1>. QED
  BY <1>1, <1>2, <1>5, MainKeeps DEF LanesInv, LaneTypeOK

\* When all threads are joined, every lane is in a bucket.
LEMMA AllComputed ==
  ASSUME LanesInv, Joining, joined = Workers
  PROVE  /\ \A t \in Thread : pc[t] \in Ended \cup {"absent"}
         /\ next >= lanes
         /\ \A i \in Lane : \E t \in 1 .. Workers : Pair(i) \in bucket[t]
<1>. USE DEF LanesInv
<1>1. spawned = Workers /\ Parallel /\ Workers > 1 /\ Workers \in Nat /\ Workers <= WorkerCount
  BY WorkersExist DEF Joining, Parallel
<1>2. \A t \in 1 .. Workers : pc[t] = "done"
  BY DEF Progress
<1>3. \A t \in Thread : IF t <= Workers THEN pc[t] = "done" ELSE pc[t] = "absent"
  BY <1>1, <1>2 DEF Started, Thread
<1>4. next >= lanes
  BY <1>1, <1>3 DEF Working, Thread
<1>5. \A i \in Lane : \E t \in Thread : Pair(i) \in bucket[t]
  BY <1>3, <1>4, WorkersExist DEF NothingLost, Lane, LaneTypeOK
<1>6. \A t \in Thread : ~ (t <= Workers) => bucket[t] = {}
  BY <1>3 DEF Working
<1>. QED
  BY <1>3, <1>4, <1>5, <1>6 DEF Ended, Thread

\* Collect finds every slot filled, with the value of its lane; its other
\* branch is the panic "lane never computed", which is never reached.
LEMMA CollectReturns ==
  ASSUME LanesInv, Collect
  PROVE  /\ outcome = "running" /\ outcome' = "returned" /\ faulty = {}
         /\ output' = [i \in Lane |-> Result[i]]
         /\ UNCHANGED <<call, threads, spawned, joined>>
<1>. DEFINE results == UNION {bucket[t] : t \in 1 .. Workers}
<1>1. Joining /\ joined = Workers /\ UNCHANGED <<call, threads, spawned, joined>>
  BY DEF Collect
<1>2. \A i \in Lane : Pair(i) \in results
  BY <1>1, AllComputed
<1>3. \A r \in results : \E i \in Lane \ faulty : r = Pair(i)
  BY <1>1, WorkersExist DEF LanesInv, Computed, Thread
<1>4. faulty = {}
  <2>1. SUFFICES ASSUME NEW i \in Lane PROVE i \notin faulty
    BY DEF LanesInv, LaneTypeOK
  <2>2. PICK j \in Lane \ faulty : Pair(i) = Pair(j)
    BY <1>2, <1>3
  <2>. QED
    BY <2>2 DEF Pair
<1>5. ASSUME NEW i \in Lane
      PROVE  /\ \E r \in results : r[1] = i
             /\ (CHOOSE r \in results : r[1] = i)[2] = Result[i]
  <2>1. Pair(i)[1] = i
    BY DEF Pair
  <2>2. PICK r : r = CHOOSE q \in results : q[1] = i
    OBVIOUS
  <2>3. r \in results /\ r[1] = i
    BY <1>2, <2>1, <2>2
  <2>4. PICK j \in Lane : r = Pair(j)
    BY <1>3, <2>3
  <2>5. r[2] = Result[i]
    BY <2>3, <2>4 DEF Pair
  <2>. QED
    BY <2>2, <2>3, <2>5
<1>6. outcome' = "returned" /\ output' = [i \in Lane |-> (CHOOSE r \in results : r[1] = i)[2]]
  BY <1>5 DEF Collect
<1>. QED
  BY <1>1, <1>4, <1>5, <1>6 DEF Joining

LEMMA CollectKeeps == ASSUME LanesInv, Collect PROVE LanesInv'
<1>1. Joining /\ joined = Workers /\ Parallel
  BY DEF Collect, Joining
<1>2. UNCHANGED <<call, threads, spawned, joined>> /\ outcome' = "returned"
  BY CollectReturns
<1>3. pc' = pc /\ next' = next
  BY <1>2 DEF threads
<1>4. Progress'
  BY <1>1, <1>2, <1>3, AllComputed, SameCall DEF LanesInv, Progress
<1>. QED
  BY <1>1, <1>2, <1>4, MainKeeps DEF LanesInv, LaneTypeOK

LEMMA LanesInvariance == LaneSpec => []LanesInv
<1>1. LanesInv /\ [LaneNext]_laneVars => LanesInv'
  <2>. SUFFICES ASSUME LanesInv, [LaneNext]_laneVars PROVE LanesInv'
    OBVIOUS
  <2>1. CASE UNCHANGED laneVars
    BY <2>1, SameCall DEF laneVars, call, threads, main, LanesInv, LaneTypeOK, Started, Working,
       Computed, HandedOut, NothingLost, Progress, Returned
  <2>2. CASE Main
    BY <2>2, SequentialKeeps, SpawnKeeps, JoinKeeps, UnwindKeeps, CollectKeeps DEF Main
  <2>3. CASE SpawnFails
    BY <2>3, SpawnFailsKeeps
  <2>4. CASE \E t \in Thread : Step(t)
    BY <2>4, ClaimKeeps, ComputeKeeps, LanePanicsKeeps DEF Step
  <2>. QED
    BY <2>1, <2>2, <2>3, <2>4 DEF LaneNext
<1>. QED
  BY <1>1, CallStarts, PTL DEF LaneSpec

-----------------------------------------------------------------------------
(* The theorems.                                                            *)

\* Every reachable state is well typed: no thread works on an index that is
\* not a lane of the call (run_lanes, the test after fetch_add).
THEOREM LanesTypeCorrect == LaneSpec => []LaneTypeOK
<1>1. LanesInv => LaneTypeOK
  BY DEF LanesInv
<1>. QED
  BY <1>1, LanesInvariance, PTL

\* lane_fn is never called twice for a lane, and once for each of them when
\* run_lanes returns, for any number of threads that race for the counter.
THEOREM LanesOnce == LaneSpec => []EachLaneOnce
<1>1. LanesInv => EachLaneOnce
  <2>. SUFFICES ASSUME LanesInv PROVE EachLaneOnce
    OBVIOUS
  <2>1. \A i \in AllLanes : calls[i] <= 1
    BY DEF LanesInv, HandedOut
  <2>2. ASSUME outcome = "returned", NEW i \in Lane PROVE calls[i] = 1
    <3>1. CASE Parallel
      BY <2>2, <3>1, WorkersExist DEF LanesInv, HandedOut, Progress, Lane, AllLanes, LaneTypeOK
    <3>2. CASE ~ Parallel
      BY <2>2, <3>2 DEF LanesInv, HandedOut
    <3>. QED
      BY <3>1, <3>2
  <2>. QED
    BY <2>1, <2>2 DEF EachLaneOnce
<1>. QED
  BY <1>1, LanesInvariance, PTL

\* When run_lanes returns or unwinds to its caller, none of its threads is
\* still running the closure.
THEOREM NoThreadIsLeft == LaneSpec => []NoThreadOutlivesCall
<1>1. LanesInv => NoThreadOutlivesCall
  BY DEF LanesInv, Progress, NoThreadOutlivesCall
<1>. QED
  BY <1>1, LanesInvariance, PTL

\* The steps of the threads, and of the calling thread until it is done with
\* them, are not seen by the caller.
LEMMA Unseen ==
  ASSUME UNCHANGED <<lanes, faulty, output>>, {outcome, outcome'} \subseteq {"running", "unwinding"}
  PROVE  UNCHANGED Map!vars
BY DEF Map!vars

LEMMA SequentialRefines == ASSUME LanesInv, Sequential PROVE Map!Next
<1>. USE DEF Map!Next, Map!Return, Map!Panic, Map!Ends
<1>1. CASE faulty = {}
  BY <1>1 DEF Sequential, call, Lane
<1>2. CASE faulty # {}
  BY <1>2 DEF Sequential, call
<1>. QED
  BY <1>1, <1>2

LEMMA CollectRefines == ASSUME LanesInv, Collect PROVE Map!Next
BY CollectReturns DEF call, Lane, Map!Next, Map!Return, Map!Ends

LEMMA UnwindRefines == ASSUME LanesInv, Unwind PROVE Map!Next
<1>. USE DEF Map!Next
<1>1. UNCHANGED <<lanes, faulty, output>> /\ outcome = "unwinding" /\ Parallel /\ lanes > 1
  BY DEF Unwind, call, LanesInv, Started, Parallel
<1>2. CASE spawned < Workers
  <2>1. outcome' = "no_thread"
    BY <1>2 DEF Unwind
  <2>2. Map!NoThread
    BY <1>1, <2>1 DEF Map!NoThread, Map!Ends
  <2>. QED
    BY <2>2
<1>3. CASE ~ (spawned < Workers)
  <2>1. outcome' = "panicked"
    BY <1>3 DEF Unwind
  <2>2. faulty # {}
    BY <1>1, <1>3 DEF LanesInv, Progress, Working
  <2>3. Map!Panic
    BY <1>1, <2>1, <2>2 DEF Map!Panic, Map!Ends
  <2>. QED
    BY <2>3
<1>. QED
  BY <1>2, <1>3

\* The parallel call is one step of a sequential map, or fails for a reason the
\* map has too: the bit-identity that run_lanes' contract promises, for every
\* thread count, every number of lanes and every set of panicking lanes.
THEOREM ExecutorImplementsMap == LaneSpec => ImplementsMap
<1>1. LaneInit => Map!Init
  BY DEF LaneInit, Map!Init, Lane
<1>2. LanesInv /\ [LaneNext]_laneVars => [Map!Next]_(Map!vars)
  <2>. SUFFICES ASSUME LanesInv, [LaneNext]_laneVars PROVE [Map!Next]_(Map!vars)
    OBVIOUS
  <2>1. CASE UNCHANGED laneVars
    BY <2>1 DEF laneVars, call, main, Map!vars
  <2>2. CASE Sequential \/ Collect \/ Unwind
    BY <2>2, SequentialRefines, CollectRefines, UnwindRefines
  <2>3. CASE Spawn \/ SpawnFails \/ Join
    <3>1. UNCHANGED <<lanes, faulty, output>> /\ outcome = "running"
          /\ outcome' \in {"running", "unwinding"}
      BY <2>3 DEF Spawn, SpawnFails, Join, Spawning, Joining, call
    <3>. QED
      BY <3>1, Unseen
  <2>4. ASSUME NEW t \in Thread, Step(t)
        PROVE  [Map!Next]_(Map!vars)
    <3>1. UNCHANGED <<lanes, faulty, outcome, output>>
      BY <2>4 DEF Step, Claim, Compute, LanePanics, call, main
    <3>. QED
      BY <3>1 DEF Map!vars
  <2>. QED
    BY <2>1, <2>2, <2>3, <2>4 DEF LaneNext, Main
<1>. QED
  BY <1>1, <1>2, LanesInvariance, PTL DEF LaneSpec, ImplementsMap, Map!Spec

=============================================================================
