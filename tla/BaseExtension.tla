--------------------------- MODULE BaseExtension ---------------------------
(***************************************************************************)
(* Extension of residues from one basis to another without the integer     *)
(* behind them (crates/nine65/src/arithmetic/main_only_base_ext.rs).       *)
(*                                                                         *)
(* The residues r of X modulo the main basis, M its product, give          *)
(* coefficients c with X = Sum c_i * M / m_i - rank * M.  The rank is read *)
(* from a fixed-point sum that is a little too small, and computed exactly *)
(* when that sum lies too close to an integer, or to a half, to tell.  The *)
(* kernel's 1024-bit accumulator is an integer here; its capacity test     *)
(* stays.                                                                  *)
(***************************************************************************)
EXTENDS RnsBasis

CONSTANTS
  FracBits,          \* RANK_FRAC_BITS: 64
  MaxLanes,          \* MAX_LANES: 16
  AccumulatorBits    \* 1024

ASSUME ExtensionAssumption ==
  /\ FracBits \in Nat \ {0}
  /\ MaxLanes \in Nat \ {0}
  /\ AccumulatorBits \in Nat

SumOver(S, f(_)) == FoldFunction(+, 0, [x \in S |-> f(x)])

\* The bases that MainOnlyBaseExt::new accepts.
Extends(main, aux) ==
  /\ Len(main) <= MaxLanes
  /\ aux # <<>> /\ \A j \in DOMAIN aux : aux[j] > 0
  /\ \A i \in DOMAIN main : main[i] >= 2
  /\ \A i, k \in DOMAIN main : i < k => Coprime(main[i], main[k])
  /\ LET width(i) == BitLength(main[i])
     IN  SumOver(DOMAIN main, width) + BitLength(Len(main) + 1) <= AccumulatorBits

Others(moduli, i) == Product(moduli) \div moduli[i]

\* The coefficients of the residues r: xi is the inverse of the other lanes'
\* product.
LaneCoefficients(main, r) ==
  [i \in DOMAIN main |-> (r[i] * ModInverse(Others(main, i), main[i])) % main[i]]

\* Variant: the sum is taken to be what it should be.
Decided_AnySum(residual, lanes, needHalf) == TRUE

\* The fixed-point path answers when the whole interval [acc, acc + lanes)
\* that holds the true sum lies on one side.
Decided(residual, lanes, needHalf) ==
  LET top == TwoTo[FracBits]
  IN  /\ residual + lanes <= top
      /\ needHalf => residual >= top \div 2 \/ residual + lanes <= top \div 2

\* How often M goes into the sum n, whose fixed-point value is acc, and
\* whether what remains is past M / 2
Placed(lanes, m, acc, n, needHalf) ==
  LET residual == acc % TwoTo[FracBits]
      rho == Max({r \in 0 .. lanes : n >= r * m})
  IN  IF Decided(residual, lanes, needHalf)
      THEN [rank  |-> acc \div TwoTo[FracBits],
            upper |-> needHalf /\ residual >= TwoTo[FracBits] \div 2]
      ELSE [rank  |-> rho,
            upper |-> needHalf /\ n >= rho * m + (m + 1) \div 2]

RankAndHalf(main, c, needHalf) ==
  LET fixed(i) == (c[i] * TwoTo[FracBits]) \div main[i]
      whole(i) == c[i] * Others(main, i)
  IN  Placed(Len(main), Product(main), SumOver(DOMAIN main, fixed),
             SumOver(DOMAIN main, whole), needHalf)

\* The residues modulo the auxiliary basis of the sum, less a multiple of M
Extended(main, aux, c, multiple) ==
  LET out(a) == LET term(i) == (c[i] * (Others(main, i) % a)) % a
                    sub == (multiple * (Product(main) % a)) % a
                IN  ((SumOver(DOMAIN main, term) % a) + a - sub) % a
  IN  [j \in DOMAIN aux |-> out(aux[j])]

Correction(place) == place.rank + (IF place.upper THEN 1 ELSE 0)

\* The residues of X, or of X - M for X in the upper half when they are to be
\* centered
Project(main, aux, r, centered) ==
  LET c == LaneCoefficients(main, r)
      place == RankAndHalf(main, c, centered)
  IN  [residues |-> Extended(main, aux, c, Correction(place)), upper |-> place.upper]

-----------------------------------------------------------------------------
(* CanonicalScaleRound: rounding of target * X / Q for X in [0, Q)          *)
(* (arithmetic/canonical_scale_round.rs).                                   *)

\* What CanonicalScaleRound::new accepts
Rounds(main, target) ==
  /\ main # <<>>
  /\ target >= 2
  /\ \A i \in DOMAIN main : main[i] % 2 = 1 /\ Coprime(main[i], target)
  /\ Extends(main, <<target>>)

HalfQModTarget(main, target) == ((Product(main) % (2 * target)) - 1) \div 2

\* The rounded quotient modulo the target.
ScaledModTarget(main, target, r) ==
  LET z == [i \in DOMAIN main |->
              (r[i] * (target % main[i]) + (main[i] - 1) \div 2) % main[i]]
      rest == Project(main, <<target>>, z, FALSE).residues[1]
      difference == (HalfQModTarget(main, target) + target - rest) % target
  IN  (difference * ModInverse(Product(main), target)) % target

\* Zero may stand for the target itself: the half that X lies in decides.
Unreduced(value, target, upper) == IF value = 0 /\ upper THEN target ELSE value

ScaleRoundUnreduced(main, target, r) ==
  LET value == ScaledModTarget(main, target, r)
  IN  Unreduced(value, target, Project(main, <<target>>, r, TRUE).upper)

-----------------------------------------------------------------------------
(* The machine: one coefficient is converted between two bases.             *)

CONSTANT Conversions   \* the main and auxiliary bases, as pairs

ASSUME ConversionsAssumption ==
  \A p \in Conversions : p[1] \in Seq(Nat) /\ p[2] \in Seq(Nat)

VARIABLES
  conversion,   \* the bases
  integer,      \* the one behind the residues
  converted     \* what the kernels made of it, or <<>>
extensionVars == <<conversion, integer, converted>>

ExtensionInit ==
  /\ conversion \in {p \in Conversions : Extends(p[1], p[2])}
  /\ integer \in 0 .. Product(conversion[1]) - 1
  /\ converted = <<>>

ResiduesOf(moduli, n) == [i \in DOMAIN moduli |-> n % moduli[i]]

\* project and project_centered, and scale_round_unreduced to the first
\* auxiliary modulus where that may be a target
Convert ==
  LET main == conversion[1]
      aux == conversion[2]
      r == ResiduesOf(main, integer)
  IN  /\ converted = <<>>
      /\ converted' =
           [plain    |-> Project(main, aux, r, FALSE).residues,
            centered |-> Project(main, aux, r, TRUE).residues,
            rounded  |-> IF Rounds(main, aux[1]) THEN {ScaleRoundUnreduced(main, aux[1], r)}
                         ELSE {}]
      /\ UNCHANGED <<conversion, integer>>

ExtensionSpec == ExtensionInit /\ [][Convert]_extensionVars

-----------------------------------------------------------------------------
(* Properties.                                                              *)

\* The extension gives the residues of the very integer, plain or centered,
\* although the rank comes from a sum cut off after FracBits bits: where that
\* sum cannot tell, at the multiples of M and around the halves, the exact
\* path is taken (main_only_base_ext.rs rank_and_half).  The rounding is that
\* of the rational number target * X / Q to the nearest, in 0 .. target with
\* both ends told apart, although it is computed modulo the target where the
\* ends are the same (canonical_scale_round.rs scale_round_unreduced).
ConversionsAreExact ==
  converted # <<>> =>
    LET m == Product(conversion[1])
        target == conversion[2][1]
        lift == IF 2 * integer >= m THEN integer - m ELSE integer
    IN  /\ converted.plain = ResiduesOf(conversion[2], integer)
        /\ converted.centered = ResiduesOf(conversion[2], lift)
        /\ \A y \in converted.rounded :
             /\ y \in 0 .. target
             /\ 2 * target * integer - 2 * y * m \in -m + 1 .. m - 1

=============================================================================
