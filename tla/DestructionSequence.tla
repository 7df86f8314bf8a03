------------------------ MODULE DestructionSequence ------------------------
(***************************************************************************)
(* A destruction sequence (crates/nine65/src/kiosk/destruction.rs) and the *)
(* fold operator of the same limbs, called in any order through their      *)
(* public interface.  A call that is refused changes nothing.              *)
(***************************************************************************)
EXTENDS FoldOperator

CONSTANTS MaxOperations, MaxFolds  \* bounds on the calls

\* The moduli are such that masks can be inverted, as primes are: mod_inverse
\* "requires gcd(a, m) == 1", which its caller does not test.
ASSUME MaskAssumption ==
  \A i \in Limb : \A a \in 1 .. Moduli[i] - 1 :
    \E x \in 0 .. Moduli[i] - 1 : (x * a) % Moduli[i] = 1

VARIABLES
  original, key,  \* the limbs and the masks at the start
  folder, data,   \* the fold operator, and the limbs it is called with
  counted,        \* operations_performed
  executed,       \* destroyed
  issued,         \* the receipt
  folds           \* the folds made so far

sequenceVars == <<original, key, folder, data, counted, executed, issued, folds>>

SequenceInit ==
  /\ original \in Limbs /\ key \in Masks
  /\ folder = NewFold(key) /\ data = original
  /\ counted = 0 /\ executed = FALSE /\ issued = NoReceipt
  /\ folds = 0

RecordOperation ==
  /\ counted < MaxOperations
  /\ counted' = counted + 1
  /\ UNCHANGED <<original, key, folder, data, executed, issued, folds>>

Fold ==
  /\ folds < MaxFolds
  /\ CanFold(folder)
  /\ folder' = AfterFold(folder) /\ data' = FoldedBy(folder, data)
  /\ folds' = folds + 1
  /\ UNCHANGED <<original, key, counted, executed, issued>>

Unfold ==
  /\ CanUnfold(folder)
  /\ folder' = AfterUnfold(folder) /\ data' = UnfoldedBy(folder, data)
  /\ UNCHANGED <<original, key, counted, executed, issued, folds>>

PermanentFold ==
  /\ CanPermanentFold(folder)
  /\ folder' = AfterPermanentFold(folder) /\ data' = HiddenBy(folder, data)
  /\ folds' = IF CanFold(folder) THEN folds + 1 ELSE folds
  /\ UNCHANGED <<original, key, counted, executed, issued>>

Zero ==
  /\ folder' = ZeroedFold
  /\ UNCHANGED <<original, key, data, counted, executed, issued, folds>>

\* Refused once the operator was zeroed or permanently folded by a caller.
Execute ==
  /\ ~ executed /\ CanPermanentFold(folder)
  /\ folder' = ZeroedFold /\ data' = Erased
  /\ issued' = Receipt(folder, counted, <<>>)
  /\ executed' = TRUE
  /\ folds' = IF CanFold(folder) THEN folds + 1 ELSE folds
  /\ UNCHANGED <<original, key, counted>>

SequenceNext ==
  \/ RecordOperation \/ Fold \/ Unfold \/ PermanentFold \/ Zero \/ Execute

SequenceSpec == SequenceInit /\ [][SequenceNext]_sequenceVars

-----------------------------------------------------------------------------
(* Properties.                                                              *)

\* However often the limbs were folded and unfolded, unfolded limbs are the
\* original ones and folded limbs are masked exactly once; past the permanent
\* fold the masks are gone, and a receipt is only had for limbs that are
\* erased and states how often they were folded (fold.rs fold, unfold,
\* permanent_fold, destruction.rs execute).
LimbsFollowState ==
  /\ folder.state = "unfolded" => data = original /\ folder.masks = key
  /\ folder.state = "folded" => data = Scaled(original, key) /\ folder.masks = key
  /\ folder.state = "permanently_folded" =>
       data = Scaled(original, key) /\ folder.masks = <<>>
  /\ executed =>
       /\ data = Erased /\ folder.masks = <<>>
       /\ folds > 0 /\ issued.generation = folds % Generations

=============================================================================
