---------------------------- MODULE FoldOperator ----------------------------
(***************************************************************************)
(* FoldOperator and DestructionSequence (crates/nine65/src/kiosk/fold.rs,  *)
(* destruction.rs): residues are multiplied by secret masks, the masks are *)
(* erased, the residues are erased.  An operator is a record, so that the  *)
(* unit that owns one and the public interface share these definitions.    *)
(***************************************************************************)
EXTENDS Integers, Sequences

CONSTANTS
  Moduli,       \* the moduli of the limbs, a sequence
  Generations   \* the generation counter wraps at this many folds

ASSUME FoldOperatorAssumption ==
  /\ Moduli \in Seq(Nat \ {0, 1})
  /\ Generations \in Nat \ {0}

Limb  == DOMAIN Moduli
Limbs == {l \in [Limb -> UNION {0 .. Moduli[i] - 1 : i \in Limb}] :
            \A i \in Limb : l[i] < Moduli[i]}
Erased == [i \in Limb |-> 0]

\* A mask is a nonzero residue.
Masks == {l \in Limbs : \A i \in Limb : l[i] # 0}

NewFold(masks) == [masks |-> masks, state |-> "unfolded", generation |-> 0]

ModInverse(a, m) == CHOOSE x \in 0 .. m - 1 : (x * a) % m = 1 % m

Scaled(limbs, by) == [i \in Limb |-> (limbs[i] * by[i]) % Moduli[i]]

(* Each of the next is a call that is accepted: what it makes of the        *)
(* operator and of the limbs.                                               *)

CanFold(op)          == op.state = "unfolded"
FoldedBy(op, limbs)  == Scaled(limbs, op.masks)
AfterFold(op)        == [op EXCEPT !.state = "folded",
                                   !.generation = (@ + 1) % Generations]

\* Variant: the mask is applied once more.
UnfoldedBy_Mask(op, limbs) == Scaled(limbs, op.masks)

CanUnfold(op)         == op.state = "folded"
UnfoldedBy(op, limbs) ==
  Scaled(limbs, [i \in Limb |-> ModInverse(op.masks[i], Moduli[i])])
AfterUnfold(op)       == [op EXCEPT !.state = "unfolded"]

\* Data that is folded already is not folded again.
CanPermanentFold(op) == op.state \in {"unfolded", "folded"}
HiddenBy(op, limbs)  == IF CanFold(op) THEN FoldedBy(op, limbs) ELSE limbs
AfterPermanentFold(op) ==
  [IF CanFold(op) THEN AfterFold(op) ELSE op
     EXCEPT !.masks = <<>>, !.state = "permanently_folded"]

ZeroedFold == [masks |-> <<>>, state |-> "zeroed", generation |-> 0]

NoReceipt == [generation |-> -1, operations |-> -1, entropy |-> <<>>]

\* The receipt of a destruction, which hides and erases the limbs of op.
Receipt(op, operations, entropy) ==
  [generation |-> AfterPermanentFold(op).generation,
   operations |-> operations, entropy |-> entropy]

=============================================================================
