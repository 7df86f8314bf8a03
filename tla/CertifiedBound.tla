--------------------------- MODULE CertifiedBound ---------------------------
(***************************************************************************)
(* The noise bounds of ScalarNoiseModel (crates/nine65/src/noise/          *)
(* certified.rs), as operators on integers.  The code keeps them in 512    *)
(* bits; the limits that ScalarNoiseModel::new enforces keep every         *)
(* intermediate below that width, so they are unbounded integers here.     *)
(***************************************************************************)
EXTENDS Integers

CONSTANTS
  N,        \* ring degree
  T,        \* plaintext modulus
  Q,        \* ciphertext modulus, the product of the main primes
  Eta,      \* bound on a sampled error coefficient
  Base,     \* gadget base of the relinearisation key, 2^HYBRID_BASE_BITS
  Digits    \* gadget digits over all primes

\* The limits of ScalarNoiseModel::new that do not concern word sizes.  N is a
\* power of two, of which the bounds use that it is even; Q is a product of
\* odd primes larger than T.
ASSUME CertifiedBoundAssumption ==
  /\ N \in Nat /\ N >= 2 /\ N % 2 = 0
  /\ T \in Nat /\ T >= 3 /\ T % 2 = 1
  /\ Q \in Nat /\ Q > T /\ Q % 2 = 1
  /\ Eta \in Nat
  /\ Base \in Nat /\ Base >= 1
  /\ Digits \in Nat

Abs(x) == IF x < 0 THEN - x ELSE x
Lesser(a, b) == IF a < b THEN a ELSE b

Remainder == Q % T
SwitchError == N * Eta * (Base - 1) * Digits

\* ScalarNoiseModel::admit
Admitted(bound) == 2 * bound < Q

FreshBound == T * (2 * N + 1) * Eta + Remainder * (T - 1)

AddBound(a, b) == a + b

ScalarBound(a, scalar) == a * Abs(scalar)

AddPlainBound(a, scalar) == a + Remainder * Abs(scalar)

\* Variant: the wraps of the two operands are left out.
MultiplyBound_NoWraps(a, b) ==
  (a + b) * ((T - 1) \div 2) + T * SwitchError

MultiplyBound(a, b) ==
  LET factor   == (T - 1) \div 2 + N * T * (N \div 2 + 1)
      rounding == (T * (1 + N + N * N) + 1) \div 2
  IN  (a + b) * factor + Lesser(a, b) * (N \div 2) + rounding + T * SwitchError

\* CramMainEvaluator::centered_scalar, for 0 <= value < T
CenteredScalar(value) == IF value > T \div 2 THEN value - T ELSE value

\* Bits of a non-negative integer, and the display of the bits left.
Bits(x) == CHOOSE k \in 0 .. x : 2 ^ k > x /\ (k = 0 \/ 2 ^ (k - 1) <= x)
RemainingBits(bound) ==
  LET spent == Bits(bound) + 2
  IN  IF Bits(Q) > spent THEN Bits(Q) - spent ELSE 0

=============================================================================
