----------------------------- MODULE DualRescale -----------------------------
(***************************************************************************)
(* The integer arithmetic of the dual-track evaluator                      *)
(* (crates/nine65/src/ops/rns_fhe.rs): division by Delta of an integer     *)
(* v + k * q of which only the residue v and the winding k are known,      *)
(* division by a dropped modulus, and decoding with its margin.  The       *)
(* code's integers of 256 bits hold all of these and are integers here.    *)
(***************************************************************************)
EXTENDS Integers

AbsValue(x) == IF x < 0 THEN -x ELSE x

\* The representative of x nearest to zero, in the upper half a negative one
Centered(x, q) == IF x > q \div 2 THEN x - q ELSE x

\* The winding that a residue modulo the capacity of the anchors stands for
SignedWinding(k, capacity) == IF k > capacity \div 2 THEN k - capacity ELSE k

\* x / d to the nearest, the quotient searched in 0 .. upper
RoundSmall(x, d, upper) ==
  LET quotient == IF x \div d < upper THEN x \div d ELSE upper
  IN  IF x - d * quotient >= d - d \div 2 THEN quotient + 1 ELSE quotient

\* The magnitude is rounded, the sign kept.
RoundSigned(x, d, upper) ==
  IF x >= 0 THEN RoundSmall(x, d, upper) ELSE -RoundSmall(-x, d, upper)

\* Variant: the residue is centered, the winding left as it was.
Rescaled_Centered(v, k, t, q) ==
  LET delta == q \div t
      turns == AbsValue(k) % delta
  IN  IF k >= 0
      THEN (turns * t + RoundSigned(Centered(v, q) + turns * (q % t), delta, 2 * t + 4)) % q
      ELSE (RoundSigned(Centered(v, q) - turns * (q % t), delta, 2 * t + 4) - turns * t) % q

\* (v + k * q) / Delta, modulo q: whole turns of k only add multiples of q.
Rescaled(v, k, t, q) ==
  LET delta == q \div t
      turns == AbsValue(k) % delta
  IN  IF k >= 0
      THEN (turns * t + RoundSigned(v + turns * (q % t), delta, 2 * t + 4)) % q
      ELSE (RoundSigned(v - turns * (q % t), delta, 2 * t + 4) - turns * t) % q

\* x / d, where a remainder of d \div 2 or more rounds away from zero
DropRound(x, d) ==
  LET up(y) == y \div d + (IF y % d >= d \div 2 THEN 1 ELSE 0)
  IN  IF x >= 0 THEN up(x) ELSE -up(-x)

\* The plaintext for a phase x in 0 .. q - 1, and how far x is from the end of
\* what decodes to it
Decoded(x, t, q) ==
  LET upper == x > q \div 2
      scaled == ((IF upper THEN q - x ELSE x) * t + q \div 2) \div q
      value == IF upper THEN (IF scaled = 0 THEN 0 ELSE t - (scaled % t)) ELSE scaled % t
      steps == IF upper /\ value # 0 THEN t - value ELSE value
      ideal == IF upper THEN q - steps * (q \div t) ELSE steps * (q \div t)
  IN  [value |-> value, margin |-> (q \div t) \div 2 - AbsValue(x - ideal)]

=============================================================================
