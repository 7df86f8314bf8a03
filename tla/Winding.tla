------------------------------ MODULE Winding ------------------------------
(***************************************************************************)
(* How often a modulus goes into an integer, its winding, read from two    *)
(* residues: K-elimination and its form with the anchor M + 1              *)
(* (crates/nine65/src/arithmetic/k_elimination.rs), the recovery of        *)
(* crates/cram-core/src/anchor.rs, and the checks that one value follows    *)
(* another by whole windings (crates/cram-core/src/phase_lock.rs).         *)
(*                                                                         *)
(* u64 is Word and u128 is Wide of RnsBasis.  An operation that may refuse *)
(* or panic returns the set of its results: empty or one value.             *)
(***************************************************************************)
EXTENDS RnsBasis

CONSTANTS
  Shadow,       \* 11
  Anchor        \* 22

ASSUME WindingAssumption ==
  /\ Shadow \in Nat /\ Shadow % 2 = 1 /\ Shadow > 1 /\ Shadow < Word \div 2
  /\ Anchor = 2 * Shadow

-----------------------------------------------------------------------------
(* Modular arithmetic on u128 whose operands are reduced, for moduli up to  *)
(* the width.                                                               *)

SubMod(a, b, m) ==
  LET difference == (a - b) % Wide
  IN  IF a < b THEN (difference + m) % Wide ELSE difference

\* Variant: the sum is formed before it is reduced.
AddMod_Wraps(a, b, m) == ((a + b) % Wide) % m

AddMod(a, b, m) == IF a >= m - b THEN a - (m - b) ELSE a + b

\* Doubling and adding over the bits of b
MulModCt(a, b, m) ==
  LET doubled[k \in 0 .. 2 * WordBits] ==
        IF k = 0 THEN a % m ELSE AddMod(doubled[k - 1], doubled[k - 1], m)
      sum[k \in 0 .. 2 * WordBits] ==
        IF k = 0 THEN 0
        ELSE AddMod(sum[k - 1],
                    IF (b \div TwoTo[k - 1]) % 2 = 1 THEN doubled[k - 1] ELSE 0, m)
  IN  sum[2 * WordBits]

-----------------------------------------------------------------------------
(* K-elimination over two families of moduli.                               *)

\* The families that KElimination::try_new accepts
Eliminates(alpha, beta) ==
  /\ IsBasis(alpha) /\ IsBasis(beta)
  /\ \A i \in DOMAIN alpha, j \in DOMAIN beta : Coprime(alpha[i], beta[j])

ExtractK(m, a, alphaResidue, betaResidue) ==
  MulModCt(SubMod(betaResidue, alphaResidue % a, a), ModInverse(m, a), a)

ExtractKVartime(m, a, alphaResidue, betaResidue) ==
  LET reduced == alphaResidue % a
      difference == IF betaResidue >= reduced THEN betaResidue - reduced
                    ELSE a - (reduced - betaResidue)
  IN  MulModCt(difference, ModInverse(m, a), a)

\* With a = m + 1, modulo which the inverse of m is -1
ExtractKAdjacent(m, alphaResidue, betaResidue) ==
  SubMod(alphaResidue, betaResidue, m + 1)

\* r + k * m, refused when it does not fit.
Wound(m, r, k) == {v \in {r + k * m} : v < Wide}

Rebuilt(m, a, alphaResidue, betaResidue) ==
  IF alphaResidue < m /\ betaResidue < a
  THEN Wound(m, alphaResidue, ExtractK(m, a, alphaResidue, betaResidue))
  ELSE {}

\* Divisions of what was rebuilt, never by 0: exact_divide truncates,
\* exact_divide_checked and exact_divide_validated refuse a remainder.
ExactDivide(rebuilt, divisor) ==
  {v \div divisor : v \in {n \in rebuilt : divisor # 0}}
ExactDivideChecked(rebuilt, divisor) ==
  {v \div divisor : v \in {n \in rebuilt : divisor # 0 /\ n % divisor = 0}}

\* The numerator goes through its residues, whatever its size.
ScaleAndRound(m, a, v, t, q) ==
  LET numerator == v * t + q \div 2
  IN  {(n \div q) % q : n \in Rebuilt(m, a, numerator % m, numerator % a)}

-----------------------------------------------------------------------------
(* The recovery of cram-core, on u64.                                       *)

Recovers(r, s, m, a) ==
  /\ m \in 2 .. Word \div 2 - 1 /\ a \in 2 .. Word \div 2 - 1
  /\ r < m /\ s < a /\ Coprime(m, a)

RecoverWinding(r, s, m, a) ==
  IF Recovers(r, s, m, a)
  THEN {((IF s >= r % a THEN s - (r % a) ELSE a - ((r % a) - s)) * ModInverse(m, a)) % a}
  ELSE {}

RecoverAdjacentWinding(r, s, m) ==
  IF Recovers(r, s, m, m + 1) THEN {((r % (m + 1)) + m + 1 - s) % (m + 1)} ELSE {}

-----------------------------------------------------------------------------
(* Successors: b is a and some whole windings of the payload's product.     *)

\* The payloads that Shadow11Plan::new accepts
Shadows(payload) ==
  /\ payload # <<>>
  /\ \A i \in DOMAIN payload : payload[i] >= 2 /\ Coprime(payload[i], Shadow)
  /\ \A i, j \in DOMAIN payload : i < j => Coprime(payload[i], payload[j])
  /\ Product(payload) < Word \div 2

\* Variant: only the source is held to the capacity.
FitsBelow_SourceOnly(m, anchor, sourceUpper, windings) == sourceUpper < m * anchor

\* The whole interval in which the successor may lie fits.
FitsBelow(m, anchor, sourceUpper, windings) ==
  sourceUpper < m * anchor /\ sourceUpper + m * windings < m * anchor

\* Shadow11Plan::verify_successor
VerifySuccessor(payload, a, shadowA, b, shadowB, sourceUpper, deltaUpper) ==
  LET m == Product(payload)
  IN  /\ shadowA < Shadow /\ shadowB < Shadow
      /\ deltaUpper < Shadow
      /\ FitsBelow(m, Shadow, sourceUpper, deltaUpper)
      /\ Len(a) = Len(payload) /\ Len(b) = Len(payload)
      /\ \A i \in DOMAIN payload : a[i] < payload[i] /\ a[i] = b[i]
      /\ \E w \in RecoverWinding(0, (shadowB - shadowA) % Shadow, m, Shadow) :
           w <= deltaUpper

\* The residue modulo the anchor that has these two
Residue22(residue2, residue11) ==
  residue11 + Shadow * ((residue2 - residue11) % 2)

\* PhaseLock22::verify_residue_successor, with the two residues of a lock
VerifyResidueSuccessor(from, to, m, delta, sourceUpper) ==
  /\ m \in 2 .. Word \div 2 - 1
  /\ Coprime(m, Anchor)
  /\ FitsBelow(m, Anchor, sourceUpper, delta)
  /\ Residue22(to[1], to[2]) =
       (Residue22(from[1], from[2]) + (m % Anchor) * (delta % Anchor)) % Anchor

-----------------------------------------------------------------------------
(* The machines: an integer is read back from the residues of two families, *)
(* and one integer is offered as the successor of another.                  *)

CONSTANTS
  Families,     \* pairs of families of moduli
  Probes,       \* the integers read back
  Divisors,
  Scales,       \* t and q of scale_and_round, as pairs
  Payloads,     \* of a Shadow11Plan
  Slacks,       \* by which the bound of a source exceeds it
  Increments    \* claimed

ASSUME ReadingsAssumption ==
  /\ \A f \in Families : f[1] \in Seq(Nat) /\ f[2] \in Seq(Nat)
  /\ \A p \in Payloads : p \in Seq(Nat)
  /\ Probes \subseteq Nat /\ Divisors \subseteq Nat
  /\ \A x \in Scales : x[1] \in Nat /\ x[2] \in Nat \ {0}
  /\ Slacks \subseteq Nat /\ Increments \subseteq Nat

VARIABLES
  families,     \* the two families
  number,       \* the integer behind the residues
  wound         \* what was made of them, or <<>>
windVars == <<families, number, wound>>

Alpha == Product(families[1])
Beta == Product(families[2])

WindInit ==
  /\ families \in {f \in Families : Eliminates(f[1], f[2])}
  /\ number \in Probes /\ number < Alpha * Beta
  /\ wound = <<>>

\* Every reading of the residues; the ones for adjacent families where Beta
\* is Alpha + 1.
Wind ==
  LET r == number % Alpha
      s == number % Beta
      rebuilt == Rebuilt(Alpha, Beta, r, s)
      adjacent == Beta = Alpha + 1
  IN  /\ wound = <<>>
      /\ wound' =
           [rebuilt   |-> rebuilt,
            others    |-> {Wound(Alpha, r, ExtractKVartime(Alpha, Beta, r, s))}
                          \cup (IF adjacent THEN {Wound(Alpha, r, ExtractKAdjacent(Alpha, r, s))}
                                ELSE {}),
            recovered |-> RecoverWinding(r, s, Alpha, Beta)
                          \cup (IF adjacent THEN RecoverAdjacentWinding(r, s, Alpha) ELSE {}),
            truncated |-> [d \in Divisors |-> ExactDivide(rebuilt, d)],
            divided   |-> [d \in Divisors |-> ExactDivideChecked(rebuilt, d)],
            scaled    |-> [x \in Scales |-> ScaleAndRound(Alpha, Beta, number, x[1], x[2])]]
      /\ UNCHANGED <<families, number>>

WindSpec == WindInit /\ [][Wind]_windVars

VARIABLES
  payload,      \* the payload's moduli
  source,       \* the integer before
  successor,    \* the one offered
  verified      \* the claims that passed the two checks, or <<>>
successorVars == <<payload, source, successor, verified>>

Period == Product(payload)

\* The source is at either end of a winding; the successor may differ from it
\* by windings, or by one more.
SuccessorInit ==
  /\ payload \in {p \in Payloads : Shadows(p)}
  /\ source \in {x \in 0 .. Period * Shadow - 1 : x % Period \in {0, Period - 1}}
  /\ successor \in {y \in 0 .. Period * Anchor - 1 : (y - source) % Period \in {0, 1}}
  /\ verified = <<>>

View(n) == [i \in DOMAIN payload |-> n % payload[i]]

\* A claim is how far the source's bound exceeds it, and an increment.
Verify ==
  /\ verified = <<>>
  /\ verified' =
       [shadow |-> {c \in Slacks \X Increments :
                      VerifySuccessor(payload, View(source), source % Shadow, View(successor),
                                      successor % Shadow, source + c[1], c[2])},
        lock   |-> {c \in Slacks \X Increments :
                      VerifyResidueSuccessor(<<source % 2, source % Shadow>>,
                                             <<successor % 2, successor % Shadow>>,
                                             Period, c[2], source + c[1])}]
  /\ UNCHANGED <<payload, source, successor>>

SuccessorSpec == SuccessorInit /\ [][Verify]_successorVars

-----------------------------------------------------------------------------
(* Properties.                                                              *)

\* An integer read back from its residues is the integer, by every route and
\* for moduli that nearly fill the width, or is refused because it does not
\* fit a word; never is it another one (k_elimination.rs
\* reconstruct_boundary_checked, anchor.rs).  A checked division is exact or
\* refused.  Scaling is the nearest rounding as long as its numerator is
\* inside the capacity, which scale_and_round does not test.
WindingsAreExact ==
  wound # <<>> =>
    LET whole == {v \in {number} : v < Wide}
    IN  /\ wound.rebuilt = whole
        /\ \A other \in wound.others : other = whole
        /\ \A k \in wound.recovered : k = number \div Alpha
        /\ \A d \in Divisors \ {0} :
             /\ \A v \in wound.truncated[d] : d * v \in number - d + 1 .. number
             /\ \A v \in wound.divided[d] : d * v = number
             /\ number < Wide /\ number % d = 0 => wound.divided[d] # {}
        /\ \A x \in Scales :
             number * x[1] + x[2] \div 2 < Alpha * Beta =>
               \A y \in wound.scaled[x] :
                 \E turns \in 0 .. number * x[1] :
                   2 * (number * x[1] - (y + turns * x[2]) * x[2]) \in -x[2] .. x[2]

\* A verified successor really is the source and at most the claimed number
\* of windings (Shadow11Plan), or exactly the claimed number (PhaseLock22
\* over an unchanged payload), although only residues are compared: the bound
\* on the source keeps every other candidate out of the capacity.  And what
\* is one, passes.
SuccessorsAreReal ==
  verified # <<>> =>
    \A c \in Slacks \X Increments :
      LET upper == source + c[1] + Period * c[2]
      IN  /\ successor < Period * Shadow =>
               (c \in verified.shadow <=>
                  /\ upper < Period * Shadow /\ c[2] < Shadow
                  /\ \E k \in 0 .. c[2] : successor = source + k * Period)
          /\ (successor - source) % Period = 0 /\ Coprime(Period, Anchor) =>
               (c \in verified.lock <=>
                  upper < Period * Anchor /\ successor = source + c[2] * Period)

=============================================================================
