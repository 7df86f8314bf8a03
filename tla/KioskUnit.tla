----------------------------- MODULE KioskUnit -----------------------------
(***************************************************************************)
(* KioskUnit (crates/nine65/src/kiosk/unit.rs): a unit of computation that *)
(* meters its operations, checks each of them, and destroys itself.  The   *)
(* fuse is fuse.rs, the check lane is inv8.rs.                             *)
(***************************************************************************)
EXTENDS FoldOperator

CONSTANTS
  Operands,       \* operands a caller passes
  Lifetimes,      \* of Fuse units, 0 for none
  MaxClock,       \* bound on the clock
  CapsuleUses,    \* operation budgets of Capsule units
  Cost,           \* cost_per_op_mb
  MaxWord,        \* where the budget saturates
  Faults          \* whether a result may differ from what was computed

ASSUME KioskUnitAssumption ==
  /\ Operands \subseteq Nat
  /\ CapsuleUses \subseteq Nat
  /\ Lifetimes \subseteq Nat /\ MaxClock \in Nat
  /\ Cost \in Nat \ {0} /\ MaxWord \in Nat
  /\ Faults \in BOOLEAN

VARIABLES
  kind, lifetime,  \* of the unit
  status,
  limbs, op,       \* the residues and the fold operator
  recorded,        \* operations_performed of the destruction sequence
  laneActive,      \* the check lane has seen no violation
  fuse,            \* state, total, remaining, consumed and entropy
  clock,           \* time since creation
  receipt,
  results          \* what the unit handed out

unitVars == <<kind, lifetime, status, limbs, op, recorded, laneActive, fuse,
          clock, receipt, results>>

-----------------------------------------------------------------------------
(* The fuse.                                                                *)

Budget(uses) == IF uses * Cost > MaxWord THEN MaxWord ELSE uses * Cost

ForOperations(uses) ==
  [state |-> "armed", total |-> Budget(uses), remaining |-> Budget(uses),
   consumed |-> 0, entropy |-> <<>>]

\* The accumulator is modelled by the quotients fed into it.
ConsumeFuse(f, quotient) ==
  IF f.state # "armed" THEN f
  ELSE [f EXCEPT !.entropy = Append(@, quotient), !.consumed = @ + 1,
                 !.remaining = IF @ <= Cost THEN 0 ELSE @ - Cost,
                 !.state = IF f.remaining <= Cost THEN "triggered" ELSE "armed"]

\* Variant: the accumulator outlives the unit.
MarkSpent_KeepsEntropy(f) == [f EXCEPT !.state = "spent", !.remaining = 0]

MarkSpent(f) == [f EXCEPT !.state = "spent", !.remaining = 0, !.entropy = <<>>]

-----------------------------------------------------------------------------
(* The unit.                                                                *)

Created(k, uses, nanos) ==
  /\ kind = k /\ lifetime = nanos
  /\ fuse = ForOperations(uses)

UnitInit ==
  /\ \/ Created("bullet", 1, 0)
     \/ \E uses \in CapsuleUses : Created("capsule", uses, 0)
     \/ \E nanos \in Lifetimes : Created("fuse", MaxWord, nanos)
  /\ status = "ready"
  /\ limbs = Erased
  /\ \E masks \in Masks : op = NewFold(masks)
  /\ recorded = 0 /\ laneActive = TRUE
  /\ clock = 0
  /\ receipt = NoReceipt /\ results = <<>>

\* The clock of a unit without a lifetime is not read.
Tick ==
  /\ lifetime > 0 /\ clock < MaxClock
  /\ clock' = clock + 1
  /\ UNCHANGED <<kind, lifetime, status, limbs, op, recorded, laneActive, fuse,
                 receipt, results>>

\* Variant: a unit may be loaded again.
Load_AnyTime ==
  /\ status # "destroyed"
  /\ limbs' \in Limbs
  /\ status' = "active"
  /\ UNCHANGED <<kind, lifetime, op, recorded, laneActive, fuse, clock, receipt, results>>

Load ==
  /\ status = "ready"
  /\ limbs' \in Limbs
  /\ status' = "active"
  /\ UNCHANGED <<kind, lifetime, op, recorded, laneActive, fuse, clock, receipt, results>>

\* Variant: the unit expires at one instant.
Expired_AtOnce == lifetime > 0 /\ clock = lifetime

Expired == lifetime > 0 /\ clock >= lifetime

ShouldDestroy ==
  \/ status \in {"triggered", "compromised", "destroyed"}
  \/ fuse.state = "triggered" \/ Expired \/ ~ laneActive

\* One checked operation on limb i: value is what it should come to, result
\* what it came to.
Checked(i, value, result) ==
  /\ status = "active"
  /\ \/ /\ ShouldDestroy
        /\ status' = "triggered"
        /\ UNCHANGED <<limbs, recorded, laneActive, fuse, results>>
     \/ /\ ~ ShouldDestroy /\ result # value
        /\ status' = "compromised" /\ laneActive' = FALSE
        /\ UNCHANGED <<limbs, recorded, fuse, results>>
     \/ /\ ~ ShouldDestroy /\ result = value
        /\ fuse' = ConsumeFuse(fuse, result)
        /\ recorded' = recorded + 1
        /\ IF fuse'.state = "triggered"
           THEN status' = "triggered" /\ UNCHANGED <<limbs, results>>
           ELSE /\ limbs' = [limbs EXCEPT ![i] = result]
                /\ results' = Append(results, result)
                /\ UNCHANGED status
        /\ UNCHANGED laneActive
  /\ UNCHANGED <<kind, lifetime, op, clock, receipt>>

\* The modulus is the caller's.  A fault leaves some other residue.
Slips == IF Faults THEN {0, 1} ELSE {0}

CheckedMul ==
  \E i, j \in Limb, a, b \in Operands, slip \in Slips :
    Checked(i, (a * b) % Moduli[j], (((a * b) % Moduli[j]) + slip) % Moduli[j])

CheckedAdd ==
  \E i, j \in Limb, a, b \in Operands, slip \in Slips :
    Checked(i, (a + b) % Moduli[j], (((a + b) % Moduli[j]) + slip) % Moduli[j])

\* Variant: the entropy is read once the fuse is spent.
Destroy_SpendsFirst ==
  /\ status # "destroyed"
  /\ CanPermanentFold(op)
  /\ limbs' = Erased /\ op' = ZeroedFold
  /\ receipt' = Receipt(op, recorded, MarkSpent(fuse).entropy)
  /\ fuse' = MarkSpent(fuse)
  /\ status' = "destroyed"
  /\ UNCHANGED <<kind, lifetime, recorded, laneActive, clock, results>>

\* The destruction sequence has a flag of its own, set with the status.
Destroy ==
  /\ status # "destroyed"
  /\ CanPermanentFold(op)
  /\ limbs' = Erased /\ op' = ZeroedFold
  /\ receipt' = Receipt(op, recorded, fuse.entropy)
  /\ fuse' = MarkSpent(fuse)
  /\ status' = "destroyed"
  /\ UNCHANGED <<kind, lifetime, recorded, laneActive, clock, results>>

UnitNext == Tick \/ Load \/ CheckedMul \/ CheckedAdd \/ Destroy

UnitSpec == UnitInit /\ [][UnitNext]_unitVars

-----------------------------------------------------------------------------
(* What a kiosk unit promises.                                              *)

\* Type invariant: the limbs are residues while the unit lives, and the
\* unit's parts are in states that can go together.
UnitTypeOK ==
  /\ kind \in {"bullet", "capsule", "fuse"}
  /\ status \in {"ready", "active", "triggered", "compromised", "destroyed"}
  /\ limbs \in [Limb -> Nat]
  /\ op.state \in {"unfolded", "zeroed"}
  /\ recorded \in Nat /\ clock \in Nat /\ lifetime \in Nat
  /\ laneActive \in BOOLEAN
  /\ fuse.state \in {"armed", "triggered", "spent"}
  /\ fuse.total \in Nat /\ fuse.remaining \in Nat /\ fuse.consumed \in Nat

\* The meter, the count of the receipt and what was handed out agree, also
\* over operations that failed: only the operation that blows the fuse is
\* counted and returns nothing (unit.rs checked_mul, checked_add).
MeterAgrees ==
  /\ recorded = fuse.consumed
  /\ fuse.state = "armed" =>
       /\ fuse.consumed = Len(results)
       /\ fuse.consumed > 0 => fuse.remaining > 0
       /\ fuse.remaining = fuse.total - Cost * fuse.consumed
  /\ fuse.state = "triggered" =>
       fuse.consumed = Len(results) + 1 /\ Cost * fuse.consumed >= fuse.total

\* Until it is destroyed a unit can be, whatever happened to it; destroyed it
\* holds no residue, no mask and no entropy.
NothingIsLeft ==
  /\ status # "destroyed" => receipt = NoReceipt /\ CanPermanentFold(op)
  /\ status = "destroyed" =>
       /\ receipt # NoReceipt
       /\ limbs = Erased /\ op = ZeroedFold
       /\ fuse.state = "spent" /\ fuse.remaining = 0 /\ fuse.entropy = <<>>

\* A receipt states every operation that was counted, and its entropy is
\* that of what was handed out and of the operation that blew the fuse.
ReceiptAccounts ==
  status = "destroyed" =>
    /\ receipt.operations = recorded /\ Len(receipt.entropy) = recorded
    /\ \A k \in 1 .. Len(results) : receipt.entropy[k] = results[k]
    /\ recorded - Len(results) \in {0, 1}

\* Once a unit says that it should be destroyed it says so forever, and hands
\* nothing out any more.
OverIsOver == [][ShouldDestroy => ShouldDestroy' /\ results' = results]_unitVars

-----------------------------------------------------------------------------
(* The unit implements a token.                                             *)

Phase ==
  CASE status = "destroyed"                     -> "gone"
    [] status # "destroyed" /\ ShouldDestroy    -> "over"
    [] status = "ready" /\ ~ ShouldDestroy      -> "fresh"
    [] status = "active" /\ ~ ShouldDestroy     -> "live"

\* The operations the fuse was calibrated for
Allowance == fuse.total \div Cost

Token ==
  INSTANCE SpendableToken
    WITH allowance <- Allowance, phase <- Phase, uses <- Len(results),
         intact <- op.state # "zeroed"

\* The unit is loaded once, hands out no more results than it was made for,
\* and is destroyed once; from the moment its fuse, its lifetime or its lane
\* says so it is over, loaded or not, and hands nothing out (unit.rs
\* should_destroy).  How many results come before that is AllUsesAreHandedOut.
IsSpendableToken == Token!Spec

\* Exactly as many operations as a bullet or a capsule was made for can be
\* performed before its fuse triggers, as fuse.rs 74 says; in the table of
\* unit.rs 8 a bullet has one use, a capsule N.  The operation that meets the
\* end of the budget triggers the fuse and returns nothing.
AllUsesAreHandedOut ==
  kind \in {"bullet", "capsule"} /\ fuse.state = "triggered" => Len(results) = Allowance

=============================================================================
