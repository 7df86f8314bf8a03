--------------------------- MODULE AutoBootstrap ---------------------------
(***************************************************************************)
(* AutoBootstrapEvaluator (crates/nine65/src/ops/auto_bootstrap.rs): an    *)
(* evaluator that refreshes an operand when the ledger that travels with   *)
(* it runs low.  The gate in front of a refresh is closed: it always       *)
(* returns an error, because the first phase does not compute what it      *)
(* should (bootstrap.rs).  The evaluator's accounts do not depend on that, *)
(* and are modelled behind an open gate as well; what comes out of a       *)
(* refresh is then not taken to be what went in.                           *)
(***************************************************************************)
EXTENDS NoiseLedger

CONSTANTS
  Thresholds,  \* permille thresholds a caller sets
  MaxFresh,    \* bound on the encryptions
  MaxCalls,    \* bound on the operations that succeed
  MaxBootstraps

ASSUME AutoBootstrapAssumption ==
  /\ Thresholds \subseteq 0 .. 1000
  /\ MaxFresh \in Nat /\ MaxCalls \in Nat /\ MaxBootstraps \in Nat

VARIABLES
  gate,        \* of the first phase of a refresh: "closed", as it is, or "open"
  permille,    \* trigger_permille
  tracked,     \* the tracked ciphertexts the caller holds, clones aside
  fresh,       \* encryptions so far
  bootstraps, muls, adds,  \* the counters of the evaluator
  outcome      \* of the last call

counters == <<bootstraps, muls, adds>>
vars     == <<gate, permille, tracked, fresh, counters, outcome>>

Init ==
  /\ gate \in {"closed", "open"}
  /\ permille = 250
  /\ tracked = {}
  /\ fresh = 0
  /\ bootstraps = 0 /\ muls = 0 /\ adds = 0
  /\ outcome = "none"

\* Encryption under a public key, tracked from the level of fresh noise.
\* The bits of a ciphertext are the term it was computed by; it is exact while
\* it is known to encrypt the value of its circuit.
Encrypt ==
  /\ fresh < MaxFresh
  /\ fresh' = fresh + 1
  /\ tracked' = tracked \cup
       {[bits |-> <<"encrypt", <<fresh>>, <<>>>>, noise |-> FreshNoise,
         exact |-> TRUE, budget |-> FreshBudget]}
  /\ UNCHANGED <<gate, permille, counters, outcome>>

SetTriggerThreshold ==
  /\ permille' \in Thresholds
  /\ UNCHANGED <<gate, tracked, fresh, counters, outcome>>

-----------------------------------------------------------------------------
(* Before an operation.                                                     *)

CanRefresh == RefreshFits /\ gate = "open"

NeedsRefresh(c, cost) ==
  \/ ~ CanPerformWithReserve(c.budget, cost)
  \/ ShouldBootstrap(c.budget, permille)

\* The first phase rounds the two components apart and loses a carry that
\* depends on the secret, whatever the noise: the plaintext may be another.
Refreshed(c) ==
  [bits   |-> <<"refresh", c.bits, <<>>>>,
   noise  |-> RefreshNoise,
   exact  |-> FALSE,
   budget |-> RefreshedBudget]

Prepared(c, cost) == IF NeedsRefresh(c, cost) THEN Refreshed(c) ELSE c

SecondOperand(a, b, cost) ==
  IF a.bits = b.bits THEN Prepared(a, cost) ELSE Prepared(b, cost)

\* The refreshes one call makes: a ciphertext met twice is refreshed once.
Refreshes(a, b, cost) ==
  (IF NeedsRefresh(a, cost) THEN 1 ELSE 0)
    + (IF a.bits # b.bits /\ NeedsRefresh(b, cost) THEN 1 ELSE 0)

\* Variant: the sum inherits the ledger of the first operand.
WorseBudget_First(a, b) == a.budget

WorseBudget(a, b) ==
  IF a.budget.remaining <= b.budget.remaining THEN a.budget ELSE b.budget

-----------------------------------------------------------------------------
(* The operations.  Calls that fail drop what they refreshed, not the       *)
(* count of it.                                                             *)

Operation(op, a, b, cost, NoiseOf(_, _)) ==
  /\ muls + adds < MaxCalls
  /\ bootstraps < MaxBootstraps
  /\ LET needed == Refreshes(a, b, cost)
         first  == Prepared(a, cost)
         second == SecondOperand(a, b, cost)
         budget == WorseBudget(first, second)
     IN  IF needed > 0 /\ ~ CanRefresh
         THEN /\ outcome' = "refused"
              /\ UNCHANGED <<tracked, counters>>
         ELSE /\ bootstraps' = bootstraps + needed
              /\ IF IsFunded(budget, cost)
                 THEN /\ outcome' = "done"
                      /\ tracked' = tracked \cup
                           {[bits   |-> <<op, first.bits, second.bits>>,
                             noise  |-> NoiseOf(first.noise, second.noise),
                             exact  |-> first.exact /\ second.exact,
                             budget |-> Consume(budget, cost)]}
                      /\ muls' = IF op = "mul" THEN muls + 1 ELSE muls
                      /\ adds' = IF op = "add" THEN adds + 1 ELSE adds
                 ELSE /\ outcome' = "refused"
                      /\ UNCHANGED <<tracked, muls, adds>>
  /\ UNCHANGED <<gate, permille, fresh>>

MulAuto    == \E a, b \in tracked : Operation("mul", a, b, MulCost, MulNoise)
TryAddAuto == \E a, b \in tracked : Operation("add", a, b, AddCost, AddNoise)

Next == Encrypt \/ SetTriggerThreshold \/ MulAuto \/ TryAddAuto

Spec == Init /\ [][Next]_vars

-----------------------------------------------------------------------------
(* Properties.                                                              *)

\* Type invariant: every ledger stays between nothing and the level its last
\* refresh seated it at.
TypeOK ==
  /\ gate \in {"closed", "open"}
  /\ permille \in Thresholds \cup {250}
  /\ outcome \in {"none", "done", "refused"}
  /\ fresh \in Nat /\ bootstraps \in Nat /\ muls \in Nat /\ adds \in Nat
  /\ \A c \in tracked :
       /\ c.noise \in Nat /\ c.exact \in BOOLEAN
       /\ c.budget.remaining \in Nat /\ c.budget.cycle \in Nat
       /\ c.budget.remaining <= c.budget.cycle
       /\ c.budget.cycle <= Capacity

\* What the ledger says was used covers the noise that is there, for any mix
\* of additions, products and refreshes (noise/budget.rs charges one constant
\* per operation and folds the additive terms in once, at the start).
Covers(budget, noise) == noise + T <= Pow2[Capacity - budget.remaining]

LedgerCoversNoise == \A c \in tracked : Covers(c.budget, c.noise)

\* A refreshed ledger funds the costliest operation and keeps the reserve.
\* The parameter sets secure_192 and secure_256 meet this, secure_128_deep
\* does not.
RefreshKeepsReserve ==
  /\ RefreshFits
  /\ BudgetAbove(RefreshBits) >= MulCost + Reserve

\* Whatever was computed on the way to a ciphertext, its noise stays in the
\* window of a refresh's input and its ledger keeps the reserve that says so:
\* the trigger fires before the window closes.  What a refresh does with such
\* an input is not said.
StaysRefreshable ==
  gate = "closed" \/ RefreshKeepsReserve =>
    \A c \in tracked :
      /\ c.budget.remaining >= Smaller(Reserve, BudgetAbove(FreshBits))
      /\ RefreshKeepsReserve => InWindow(c.noise)

\* The evaluator refuses in time: whatever is computed without a refresh
\* decrypts to the value of its circuit, and behind the gate as it is that
\* is everything it returns, for any mix of operations and thresholds.
DecryptsExactly ==
  \A c \in tracked :
    /\ gate = "closed" => c.exact
    /\ c.exact => Decrypts(c.noise)

=============================================================================
