------------------------------ MODULE RnsBasis ------------------------------
(***************************************************************************)
(* Residue number systems (crates/clockwork-core/src/basis.rs, garner.rs,  *)
(* decode_to_q.rs): encoding and decoding by the Chinese remainder         *)
(* theorem, Garner's mixed-radix digits by plain and by constant-time      *)
(* arithmetic, and the projection to the modulus of a cryptosystem.        *)
(*                                                                         *)
(* The arithmetic is that of a build without overflow checks: u64 and u128 *)
(* wrap, at 2^WordBits and 2^(2*WordBits) here.                            *)
(***************************************************************************)
EXTENDS Numbers, SequencesExt

CONSTANT WordBits   \* 64

ASSUME WordAssumption == WordBits \in Nat \ {0}

Word == TwoTo[WordBits]
Wide == Word * Word

-----------------------------------------------------------------------------
(* Inverses.                                                                *)

\* gcd(a, b) and the coefficients of a and b that make it, for a pair <<a, b>>
Euclid[p \in Nat \X Nat] ==
  IF p[1] = 0 THEN <<p[2], 0, 1>>
  ELSE LET e == Euclid[<<p[2] % p[1], p[1]>>]
       IN  <<e[1], e[3] - (p[2] \div p[1]) * e[2], e[2]>>

ExtendedGcd(a, b) == Euclid[<<a, b>>]

Coprime(a, b) == ExtendedGcd(a, b)[1] = 1

\* Of a modulo m, for coprime ones
ModInverse(a, m) == ExtendedGcd(a % m, m)[2] % m

\* a * b modulo m, by shifting and adding when the product may not fit: one
\* round for every bit of b.
ShiftAdd(a, b, m) ==
  LET shifted[k \in 0 .. BitLength(b)] ==
        IF k = 0 THEN a ELSE ((2 * shifted[k - 1]) % Wide) % m
      sum[k \in 0 .. BitLength(b)] ==
        IF k = 0 THEN 0
        ELSE IF (b \div TwoTo[k - 1]) % 2 = 1
             THEN ((sum[k - 1] + shifted[k - 1]) % Wide) % m
             ELSE sum[k - 1]
  IN  sum[BitLength(b)]

MulMod(a, b, m) ==
  IF BitLength(a) + BitLength(b) <= 2 * WordBits THEN (a * b) % m
  ELSE ShiftAdd(a % m, b % m, m)

-----------------------------------------------------------------------------
(* A basis.                                                                 *)

Product(moduli) ==
  LET first[k \in 0 .. Len(moduli)] == IF k = 0 THEN 1 ELSE first[k - 1] * moduli[k]
  IN  first[Len(moduli)]

\* The moduli that RnsBasis::new accepts
IsBasis(moduli) ==
  /\ moduli # <<>>
  /\ \A i \in DOMAIN moduli : moduli[i] \in 2 .. Word - 1
  /\ \A i, j \in DOMAIN moduli : i < j => Coprime(moduli[i], moduli[j])
  /\ Product(moduli) < Wide

\* The multiple of all the other moduli that is 1 modulo moduli[i]
Coefficient(moduli, i) ==
  LET m == Product(moduli)
      others == m \div moduli[i]
  IN  MulMod(others, ModInverse(others % moduli[i], moduli[i]), m)

NewBasis(moduli) ==
  [moduli   |-> moduli,
   capacity |-> Product(moduli),
   coeffs   |-> [i \in DOMAIN moduli |-> Coefficient(moduli, i)]]

Gears(basis) == DOMAIN basis.moduli

\* Of natural numbers and of negative ones
Encode(basis, x) == [i \in Gears(basis) |-> x % basis.moduli[i]]

Decode(basis, residues) ==
  LET term(i) == MulMod(residues[i], basis.coeffs[i], basis.capacity)
      sum[k \in 0 .. Len(basis.moduli)] ==
        IF k = 0 THEN 0
        ELSE ((sum[k - 1] + term(k)) % Wide) % basis.capacity
  IN  sum[Len(basis.moduli)]

CenteredLift(basis, x) ==
  LET v == x % basis.capacity
  IN  IF v <= basis.capacity \div 2 THEN v ELSE v - basis.capacity

DecodeCentered(basis, residues) == CenteredLift(basis, Decode(basis, residues))

Extend(basis, modulus) == NewBasis(Append(basis.moduli, modulus))

\* The residue a caller supplies for one more modulus is checked.
Promotes(basis, residues, modulus, claimed) ==
  Decode(basis, residues) % modulus = claimed
Promoted(residues, claimed) == Append(residues, claimed)

Demoted(residues, gears) == SubSeq(residues, 1, gears)

-----------------------------------------------------------------------------
(* Garner's digits.                                                         *)

\* The multiple of m that takes r to s modulo a
KEliminate(r, s, m, a) ==
  LET diff == IF s >= r THEN s - r ELSE (s + a - (r % a)) % a
  IN  (diff * ModInverse(m, a)) % a

\* x modulo a modulus, bit by bit from the highest, the subtraction selected
\* by a mask
ReduceCt(x, modulus) ==
  LET bit(k) == (x \div TwoTo[2 * WordBits - k]) % 2
      rest[k \in 0 .. 2 * WordBits] ==
        IF k = 0 THEN 0
        ELSE LET shifted == bit(k) + 2 * rest[k - 1]
             IN  IF shifted >= modulus THEN shifted - modulus ELSE shifted
  IN  rest[2 * WordBits]

\* Variant: the residue is taken to be reduced already.
KEliminateCt_Unreduced(r, s, m, a) ==
  ReduceCt(ReduceCt((s + a - r) % Wide, a) * ModInverse(m, a), a)

KEliminateCt(r, s, m, a) ==
  ReduceCt(ReduceCt(s + a - ReduceCt(r, a), a) * ModInverse(m, a), a)

\* The step of the decomposition that is not constant-time
PeelOff(d, current, m, a) == (((current + a - (d % a)) % a) * ModInverse(m, a)) % a

\* Each residue is freed of the digits below it, one after the other.
GarnerDigits(moduli, residues, Step(_, _, _, _)) ==
  LET Freed(digits, i) ==
        LET current[j \in 0 .. i - 1] ==
              IF j = 0 THEN residues[i]
              ELSE Step(digits[j], current[j - 1], moduli[j], moduli[i])
        IN  current[i - 1]
      first[k \in 0 .. Len(moduli)] ==
        IF k = 0 THEN <<>>
        ELSE LET below == first[k - 1] IN Append(below, Freed(below, k))
  IN  first[Len(moduli)]

GarnerDecompose(moduli, residues) == GarnerDigits(moduli, residues, PeelOff)
GarnerDecomposeCt(moduli, residues) == GarnerDigits(moduli, residues, KEliminateCt)

Reconstruct(moduli, digits) ==
  LET weighted(i) == digits[i] * Product(SubSeq(moduli, 1, i - 1))
      lowest[k \in 0 .. Len(moduli)] ==
        IF k = 0 THEN 0 ELSE lowest[k - 1] + weighted(k)
  IN  lowest[Len(moduli)]

-----------------------------------------------------------------------------
(* DecodeToQ, which projects to the integers modulo q.                      *)

ToQ(basis, residues, q, centered) ==
  (IF centered THEN DecodeCentered(basis, residues) ELSE Decode(basis, residues)) % q

FromQ(basis, c, q, centered) ==
  Encode(basis, IF centered /\ c > q \div 2 THEN c - q ELSE c)

=============================================================================
