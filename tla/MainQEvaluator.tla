--------------------------- MODULE MainQEvaluator ---------------------------
(***************************************************************************)
(* CramMainEvaluator and CramMainClient (crates/nine65/src/ops/            *)
(* cram_main.rs): scalar BFV ciphertexts and the bound that travels with   *)
(* each of them.  A ciphertext is seen through the secret key: phase is    *)
(* the polynomial c0 + c1*s modulo Q and x^N + 1, which the homomorphic    *)
(* operations transform exactly or up to a bounded rounding.  plain is the *)
(* value the circuit should have; the program never sees it.               *)
(***************************************************************************)
EXTENDS CertifiedBound, FiniteSetsExt

CONSTANTS
  Register,   \* names for the ciphertexts a client holds
  Errors,     \* encryption errors tried: polynomials
  Empty,      \* no ciphertext
  MaxSteps    \* bound on the operations of a behaviour

Coefficient == 0 .. N - 1

\* public-key error times u, plus e1, plus e2 times s, with u and s ternary
ASSUME MainQEvaluatorAssumption ==
  /\ Errors \subseteq [Coefficient -> (- (2 * N + 1) * Eta) .. ((2 * N + 1) * Eta)]
  /\ MaxSteps \in Nat

VARIABLES
  ct,      \* the ciphertext in each register
  steps    \* operations done

vars == <<ct, steps>>

Plain == 0 .. T - 1
Delta == Q \div T

Ciphertext == [plain : Plain, phase : [Coefficient -> 0 .. Q - 1], bound : Nat]

\* The value as a polynomial
Scalar(value) == [k \in Coefficient |-> IF k = 0 THEN value ELSE 0]

Output(plain, phase, bound) ==
  [plain |-> plain % T,
   phase |-> [k \in Coefficient |-> phase[k] % Q],
   bound |-> bound]

Held == {r \in Register : ct[r] # Empty}

\* An operation runs only when its bound is admitted; else it is refused with
\* NoiseExhausted before any arithmetic and nothing changes.
Store(r, out) ==
  /\ Admitted(out.bound)
  /\ ct' = [ct EXCEPT ![r] = out]
  /\ steps' = steps + 1

Init ==
  /\ ct = [r \in Register |-> Empty]
  /\ steps = 0

Encrypt(r, m, e) ==
  Store(r, Output(m, [k \in Coefficient |-> Delta * Scalar(m)[k] + e[k]], FreshBound))

Add(r, x, y) ==
  Store(r, Output(ct[x].plain + ct[y].plain,
                  [k \in Coefficient |-> ct[x].phase[k] + ct[y].phase[k]],
                  AddBound(ct[x].bound, ct[y].bound)))

Sub(r, x, y) ==
  Store(r, Output(ct[x].plain - ct[y].plain,
                  [k \in Coefficient |-> ct[x].phase[k] - ct[y].phase[k]],
                  AddBound(ct[x].bound, ct[y].bound)))

\* scale_signed
Scale(r, x, scalar) ==
  Store(r, Output(ct[x].plain * scalar,
                  [k \in Coefficient |-> ct[x].phase[k] * scalar],
                  ScalarBound(ct[x].bound, scalar)))

Negate(r, x) == Scale(r, x, -1)

MulPlain(r, x, value) == Scale(r, x, CenteredScalar(value))

AddPlain(r, x, value) ==
  LET scalar == CenteredScalar(value)
  IN  Store(r, Output(ct[x].plain + scalar,
                      [k \in Coefficient |-> ct[x].phase[k] + Delta * Scalar(scalar)[k]],
                      AddPlainBound(ct[x].bound, scalar)))

\* The centered lift of c0 + c1*s before reduction: the coefficients of c0 and
\* c1 are centered and s is ternary.
Lifts(phase) ==
  LET lifts(a) == {p \in {a + Q * k : k \in (- N) .. N} : 2 * Abs(p) <= (Q - 1) * (N + 1)}
  IN  {f \in [Coefficient -> UNION {lifts(phase[k]) : k \in Coefficient}] :
         \A k \in Coefficient : f[k] \in lifts(phase[k])}

\* Multiplication modulo x^N + 1
Negacyclic(p, q) ==
  [k \in Coefficient |->
     FoldFunction(+, 0, [i \in Coefficient |->
       IF i <= k THEN p[i] * q[k - i] ELSE - p[i] * q[N + k - i]])]

\* What the exact tensor, its coefficient-wise rounding and the key switch may
\* make of two lifts: T*px*py/Q, each coefficient off by (1+N+N*N)/2 +
\* SwitchError at most.  Both extremes stand for what lies between.
Products(px, py) ==
  LET slack   == Q * (1 + N + N * N) + 2 * Q * SwitchError
      exact   == Negacyclic(px, py)
      low(k)  == (2 * T * exact[k] - slack + 2 * Q - 1) \div (2 * Q)
      high(k) == (2 * T * exact[k] + slack) \div (2 * Q)
  IN  {[k \in Coefficient |-> IF k \in up THEN high(k) ELSE low(k)] : up \in SUBSET Coefficient}

Multiply(r, x, y) ==
  LET bound == MultiplyBound(ct[x].bound, ct[y].bound)
  IN  /\ Admitted(bound)
      /\ \E px \in Lifts(ct[x].phase), py \in Lifts(ct[y].phase) :
           \E p \in Products(px, py) :
             Store(r, Output(ct[x].plain * ct[y].plain, p, bound))

LinearNext ==
  /\ steps < MaxSteps
  /\ \/ \E r \in Register, m \in Plain, e \in Errors : Encrypt(r, m, e)
     \/ \E r \in Register, x \in Held :
          \/ Negate(r, x)
          \/ \E value \in Plain : MulPlain(r, x, value) \/ AddPlain(r, x, value)
          \/ \E y \in Held : Add(r, x, y) \/ Sub(r, x, y)

Next ==
  \/ LinearNext
  \/ /\ steps < MaxSteps
     /\ \E r \in Register, x, y \in Held : Multiply(r, x, y)

Spec == Init /\ [][Next]_vars

-----------------------------------------------------------------------------

\* Variant: the quotient is truncated.
Decrypt_Truncates(c) == ((T * c.phase[0]) \div Q) % T

\* CramMainClient::decrypt with CanonicalScaleRound, Q odd.
Decrypt(c) == ((T * c.phase[0] + Q \div 2) \div Q) % T

\* The phase error T*phase - Q*plain in one coefficient, reduced to its
\* centered residue mod T*Q (the centered plaintext differs from plain by a
\* multiple of T).
PhaseError(c, k) ==
  LET r == (T * c.phase[k] - Q * Scalar(c.plain)[k]) % (T * Q)
  IN  IF 2 * r > T * Q THEN r - T * Q ELSE r

\* Ciphertexts are reduced, in both parts.
TypeOK == ct \in [Register -> Ciphertext \cup {Empty}] /\ steps \in 0 .. MaxSteps

\* The bound that travels with a ciphertext is never smaller than the error
\* the ciphertext really has in any coefficient, whatever operations led to it
\* and whatever encryption, rounding and key switching contributed.
BoundIsSound ==
  \A r \in Held : \A k \in Coefficient : Abs(PhaseError(ct[r], k)) <= ct[r].bound

\* Every ciphertext the evaluator hands out decrypts to the value of its
\* circuit: an operation is refused before, never after, it could be wrong.
DecryptsExactly ==
  \A r \in Held : Decrypt(ct[r]) = ct[r].plain

=============================================================================
