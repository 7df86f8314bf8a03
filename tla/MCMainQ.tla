------------------------------- MODULE MCMainQ -------------------------------
(* For TLC: a session and the evaluator behind it, one at a time: requests    *)
(* that publish ciphertexts in a session's registry, whose bounds are numbers, *)
(* and circuits on ciphertexts that carry such bounds.                        *)
EXTENDS MainQEvaluator, MainQSession, TLC

CONSTANTS
  x, y,           \* registers
  w1, w2, w3, w4  \* wires

VARIABLE part

Worst == (2 * N + 1) * Eta

\* The extreme errors in every coefficient
ExtremeErrors == [Coefficient -> {- Worst, Worst}]

Symmetry == Permutations(Wire)

MCInit == part \in {"evaluator", "session"} /\ Init /\ RegistryInit

MCNext ==
  /\ \/ part = "evaluator" /\ Next /\ UNCHANGED registryVars
     \/ part = "session" /\ RegistryNext /\ UNCHANGED vars
  /\ UNCHANGED part

MCSpec == MCInit /\ [][MCNext]_<<part, vars, registryVars>>
=============================================================================
