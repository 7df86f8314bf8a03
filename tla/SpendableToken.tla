--------------------------- MODULE SpendableToken ---------------------------
(***************************************************************************)
(* What a kiosk unit promises: it is loaded once, it may be used a limited *)
(* number of times, and it is destroyed once, after which nothing is left. *)
(***************************************************************************)
EXTENDS Integers

VARIABLES
  allowance,  \* the uses the token was made for
  phase, uses,
  intact      \* whether what it protects is still there

vars == <<allowance, phase, uses, intact>>

Init == allowance \in Nat /\ phase = "fresh" /\ uses = 0 /\ intact = TRUE

Load == phase = "fresh" /\ phase' = "live" /\ UNCHANGED <<allowance, uses, intact>>

Use ==
  /\ phase = "live" /\ uses < allowance
  /\ uses' = uses + 1
  /\ UNCHANGED <<allowance, phase, intact>>

\* A token can run out before it is loaded; loading it is then of no use.
RunOut ==
  /\ phase \in {"fresh", "live"}
  /\ phase' = "over"
  /\ UNCHANGED <<allowance, uses, intact>>

Destroy ==
  /\ phase # "gone"
  /\ phase' = "gone" /\ intact' = FALSE
  /\ UNCHANGED <<allowance, uses>>

Next == Load \/ Use \/ RunOut \/ Destroy

Spec == Init /\ [][Next]_vars
=============================================================================
