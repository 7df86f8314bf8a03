-------------------------- MODULE LifecycleProofs --------------------------
(***************************************************************************)
(* Proofs about things that come to an end or go round: kiosk units, for   *)
(* every budget, cost, lifetime and modulus; destruction sequences; keys   *)
(* in two shares; values in three copies; pooled buffers; the integers of  *)
(* the dual-track evaluator, which are read by their windings; and noise   *)
(* ledgers that are spent and refreshed, for every parameter set that the  *)
(* assumptions of NoiseLedger admit.                                       *)
(***************************************************************************)
EXTENDS KioskUnit, DestructionSequence, KeyLifecycle, TripleRedundant,
        PolynomialPool, DualRescale, AutoBootstrap, SequenceTheorems, TLAPS

-----------------------------------------------------------------------------
(* Kiosk units.                                                             *)

Fuses ==
  [state : {"armed", "triggered", "spent"}, total : Nat, remaining : Nat,
   consumed : Nat, entropy : Seq(Nat)]

Metered ==
  /\ recorded = fuse.consumed
  /\ fuse.state = "armed" =>
       /\ fuse.consumed = Len(results)
       /\ fuse.remaining + Cost * fuse.consumed = fuse.total
       /\ fuse.consumed > 0 => fuse.remaining > 0
  /\ fuse.state = "triggered" =>
       fuse.consumed = Len(results) + 1 /\ Cost * fuse.consumed >= fuse.total

\* The entropy a receipt is made of, before and after.
Accounts(entropy) ==
  /\ entropy \in Seq(Nat)
  /\ Len(entropy) = recorded
  /\ \A k \in 1 .. Len(results) : entropy[k] = results[k]

IInv ==
  /\ kind \in {"bullet", "capsule", "fuse"}
  /\ status \in {"ready", "active", "triggered", "compromised", "destroyed"}
  /\ limbs \in [Limb -> Nat]
  /\ recorded \in Nat /\ clock \in Nat /\ lifetime \in Nat
  /\ laneActive \in BOOLEAN
  /\ fuse \in Fuses
  /\ results \in Seq(Nat)
  /\ recorded - Len(results) \in {0, 1}
  /\ Metered
  /\ status # "destroyed" =>
       /\ op.state = "unfolded" /\ receipt = NoReceipt
       /\ fuse.state # "spent" /\ Accounts(fuse.entropy)
  /\ status = "destroyed" =>
       /\ limbs = Erased /\ op = ZeroedFold
       /\ fuse.state = "spent" /\ fuse.remaining = 0 /\ fuse.entropy = <<>>
       /\ receipt.operations = recorded /\ Accounts(receipt.entropy)
       /\ receipt # NoReceipt

-----------------------------------------------------------------------------

LEMMA ModuliNat == \A i \in Limb : Moduli[i] \in Nat /\ Moduli[i] > 0
  BY FoldOperatorAssumption DEF Limb

LEMMA ErasedNat == Erased \in [Limb -> Nat]
  BY DEF Erased

LEMMA LimbsNat == \A l \in Limbs : l \in [Limb -> Nat]
<1>1. UNION {0 .. Moduli[i] - 1 : i \in Limb} \subseteq Nat
  BY ModuliNat
<1> QED
  BY <1>1 DEF Limbs

LEMMA ChargeArithmetic ==
  ASSUME NEW c \in Nat, NEW n \in Nat
  PROVE  c * (n + 1) = c * n + c /\ c * n \in Nat
  OBVIOUS

LEMMA NewFuse ==
  ASSUME NEW uses \in Nat
  PROVE  /\ ForOperations(uses) \in Fuses
         /\ ForOperations(uses).state = "armed" /\ ForOperations(uses).consumed = 0
         /\ ForOperations(uses).remaining = ForOperations(uses).total
         /\ ForOperations(uses).entropy = <<>>
<1>1. uses * Cost \in Nat /\ MaxWord \in Nat
  BY KioskUnitAssumption
<1>2. Budget(uses) \in Nat
  BY <1>1 DEF Budget
<1> QED
  BY <1>2 DEF ForOperations, Fuses

\* One operation: the meter moves by one, and the fuse blows exactly when
\* the cost is not covered by more than what is left.
LEMMA ConsumeFacts ==
  ASSUME NEW f \in Fuses, f.state = "armed", NEW r \in Nat
  PROVE  /\ ConsumeFuse(f, r) \in Fuses
         /\ ConsumeFuse(f, r).total = f.total
         /\ ConsumeFuse(f, r).consumed = f.consumed + 1
         /\ ConsumeFuse(f, r).entropy = Append(f.entropy, r)
         /\ f.remaining <= Cost => ConsumeFuse(f, r).state = "triggered"
         /\ f.remaining > Cost => /\ ConsumeFuse(f, r).state = "armed"
                                  /\ ConsumeFuse(f, r).remaining = f.remaining - Cost
<1>1. Cost \in Nat
  BY KioskUnitAssumption
<1>2. /\ f.remaining \in Nat /\ f.consumed \in Nat /\ f.total \in Nat
      /\ f.entropy \in Seq(Nat) /\ Append(f.entropy, r) \in Seq(Nat)
  BY DEF Fuses
<1> DEFINE left  == IF f.remaining <= Cost THEN 0 ELSE f.remaining - Cost
           after == IF f.remaining <= Cost THEN "triggered" ELSE "armed"
<1>3. ConsumeFuse(f, r) = [state |-> after, total |-> f.total, remaining |-> left,
                       consumed |-> f.consumed + 1, entropy |-> Append(f.entropy, r)]
  BY DEF ConsumeFuse, Fuses
<1>4. left \in Nat /\ after \in {"armed", "triggered"}
  BY <1>1, <1>2
<1> HIDE DEF left, after
<1>5. ConsumeFuse(f, r) \in Fuses
  BY <1>2, <1>3, <1>4 DEF Fuses
<1>6. /\ ConsumeFuse(f, r).total = f.total /\ ConsumeFuse(f, r).consumed = f.consumed + 1
      /\ ConsumeFuse(f, r).entropy = Append(f.entropy, r)
      /\ ConsumeFuse(f, r).state = after /\ ConsumeFuse(f, r).remaining = left
  BY <1>3
<1>7. /\ f.remaining <= Cost => after = "triggered"
      /\ f.remaining > Cost => after = "armed" /\ left = f.remaining - Cost
  BY <1>1, <1>2 DEF left, after
<1> QED
  BY <1>5, <1>6, <1>7

LEMMA Initial == UnitInit => IInv
<1> SUFFICES ASSUME UnitInit PROVE IInv
  OBVIOUS
<1>1. PICK uses \in Nat : fuse = ForOperations(uses)
  BY KioskUnitAssumption DEF UnitInit, Created
<1>2. /\ kind \in {"bullet", "capsule", "fuse"} /\ lifetime \in Nat
      /\ op.state = "unfolded"
  BY KioskUnitAssumption DEF UnitInit, Created, NewFold
<1>3. /\ status = "ready" /\ limbs = Erased /\ recorded = 0 /\ laneActive = TRUE
      /\ clock = 0 /\ receipt = NoReceipt /\ results = <<>>
  BY DEF UnitInit
<1>4. Cost * 0 = 0
  BY KioskUnitAssumption
<1> HIDE DEF UnitInit
<1>5. Metered
  BY <1>1, <1>3, <1>4, NewFuse DEF Metered, Fuses
<1>6. <<>> \in Seq(Nat) /\ Len(<<>>) = 0
  OBVIOUS
<1>7. fuse \in Fuses /\ fuse.state = "armed" /\ fuse.entropy = <<>>
  BY <1>1, NewFuse
<1>8. Accounts(fuse.entropy)
  <2>1. \A k \in 1 .. 0 : fuse.entropy[k] = results[k]
    OBVIOUS
  <2>2. Len(results) = 0 /\ Len(fuse.entropy) = 0 /\ fuse.entropy \in Seq(Nat)
    BY <1>3, <1>6, <1>7, Zenon
  <2> QED  BY <1>3, <2>1, <2>2, Zenon DEF Accounts
<1>9. results \in Seq(Nat) /\ recorded - Len(results) = 0
  <2>1. results \in Seq(Nat) /\ Len(results) = 0 /\ recorded = 0
    BY <1>3, <1>6, Zenon
  <2> QED  BY <2>1
<1> QED
  BY <1>2, <1>3, <1>5, <1>7, <1>8, <1>9, ErasedNat DEF IInv

LEMMA CheckedStep ==
  ASSUME IInv, NEW i \in Limb, NEW value \in Nat, NEW result \in Nat,
         Checked(i, value, result)
  PROVE  IInv'
<1>1. /\ status = "active" /\ op' = op /\ receipt' = receipt
      /\ kind' = kind /\ lifetime' = lifetime /\ clock' = clock
  BY DEF Checked
<1>2. CASE ShouldDestroy
  <2>1. /\ status' = "triggered" /\ limbs' = limbs /\ recorded' = recorded
        /\ laneActive' = laneActive /\ fuse' = fuse /\ results' = results
    BY <1>2 DEF Checked
  <2> QED  BY <1>1, <2>1 DEF IInv, Metered, Accounts
<1>3. CASE ~ ShouldDestroy /\ result # value
  <2>1. /\ status' = "compromised" /\ limbs' = limbs /\ recorded' = recorded
        /\ laneActive' = FALSE /\ fuse' = fuse /\ results' = results
    BY <1>3 DEF Checked
  <2> QED  BY <1>1, <2>1 DEF IInv, Metered, Accounts
<1>4. CASE ~ ShouldDestroy /\ result = value
  <2>1. fuse.state = "armed" /\ fuse \in Fuses
    BY <1>1, <1>4 DEF ShouldDestroy, IInv, Fuses
  <2>2. /\ fuse' = ConsumeFuse(fuse, result) /\ recorded' = recorded + 1
        /\ laneActive' = laneActive
    BY <1>4 DEF Checked
  <2>3. /\ fuse' \in Fuses /\ fuse'.total = fuse.total
        /\ fuse'.consumed = fuse.consumed + 1
        /\ fuse'.entropy = Append(fuse.entropy, result)
        /\ fuse.remaining <= Cost => fuse'.state = "triggered"
        /\ fuse.remaining > Cost => fuse'.state = "armed" /\ fuse'.remaining = fuse.remaining - Cost
    BY <2>1, <2>2, ConsumeFacts
  <2>4. /\ recorded = fuse.consumed /\ fuse.consumed = Len(results)
        /\ fuse.remaining + Cost * fuse.consumed = fuse.total
        /\ fuse.consumed \in Nat /\ fuse.remaining \in Nat /\ fuse.total \in Nat
        /\ results \in Seq(Nat) /\ fuse.entropy \in Seq(Nat)
        /\ Len(fuse.entropy) = recorded
        /\ \A k \in 1 .. Len(results) : fuse.entropy[k] = results[k]
        /\ op.state = "unfolded" /\ receipt = NoReceipt
    BY <1>1, <2>1 DEF IInv, Metered, Accounts, Fuses
  <2>5. Cost \in Nat /\ Cost > 0
    BY KioskUnitAssumption
  <2>6. Cost * (fuse.consumed + 1) = Cost * fuse.consumed + Cost /\ Cost * fuse.consumed \in Nat
    BY <2>4, <2>5, ChargeArithmetic
  <2>7. CASE fuse.remaining <= Cost
    <3>1. /\ fuse'.state = "triggered" /\ status' = "triggered"
          /\ limbs' = limbs /\ results' = results
      BY <1>4, <2>2, <2>3, <2>7 DEF Checked
    <3>2. Cost * fuse'.consumed >= fuse'.total
      BY <2>3, <2>4, <2>5, <2>6, <2>7
    <3>3. Metered'
      BY <2>2, <2>3, <2>4, <3>1, <3>2 DEF Metered
    <3>4. Accounts(fuse.entropy)'
      BY <2>2, <2>3, <2>4, <3>1 DEF Accounts
    <3>5. (recorded - Len(results))' \in {0, 1}
      BY <2>2, <2>4, <3>1
    <3> QED
      BY <1>1, <2>2, <2>3, <2>4, <3>1, <3>3, <3>4, <3>5 DEF IInv
  <2>8. CASE fuse.remaining > Cost
    <3>1. /\ fuse'.state = "armed" /\ status' = status
          /\ limbs' = [limbs EXCEPT ![i] = result]
          /\ results' = Append(results, result)
      BY <1>4, <2>2, <2>3, <2>8 DEF Checked
    <3>2. /\ results' \in Seq(Nat) /\ Len(results') = Len(results) + 1
          /\ limbs' \in [Limb -> Nat]
      <4>1. \A seq \in Seq(Nat) : Append(seq, result) \in Seq(Nat) /\ Len(Append(seq, result)) = Len(seq) + 1
        OBVIOUS
      <4>2. limbs \in [Limb -> Nat]
        BY DEF IInv
      <4>3. [limbs EXCEPT ![i] = result] \in [Limb -> Nat]
        BY <4>2
      <4> QED  BY <2>4, <3>1, <4>1, <4>3
    <3>3. Metered'
      <4>1. /\ recorded' = fuse'.consumed /\ fuse'.consumed = Len(results')
            /\ fuse'.remaining > 0
        BY <2>2, <2>3, <2>4, <2>5, <2>8, <3>1, <3>2
      <4>2. fuse'.remaining + Cost * fuse'.consumed = fuse'.total
        <5>1. Cost * fuse'.consumed = Cost * fuse.consumed + Cost
          BY <2>3, <2>6, Zenon
        <5>2. \A l, c, m, n, t \in Nat : l + m = t /\ l > c /\ n = m + c => (l - c) + n = t
          OBVIOUS
        <5>3. Cost * fuse.consumed + Cost \in Nat
          BY <2>5, <2>6
        <5>4. (fuse.remaining - Cost) + Cost * fuse'.consumed = fuse.total
          BY <2>4, <2>5, <2>6, <2>8, <5>1, <5>2, <5>3
        <5> QED  BY <2>3, <2>8, <5>4, Zenon
      <4> QED  BY <3>1, <4>1, <4>2 DEF Metered
    <3>4. Accounts(fuse.entropy)'
      <4>1. \A k \in 1 .. Len(results') : Append(fuse.entropy, result)[k] = Append(results, result)[k]
        <5>1. \A seq \in Seq(Nat) : \A k \in 1 .. Len(seq) : Append(seq, result)[k] = seq[k]
          OBVIOUS
        <5>2. \A seq \in Seq(Nat) : Append(seq, result)[Len(seq) + 1] = result
          OBVIOUS
        <5>3. /\ Len(results) \in Nat /\ Len(fuse.entropy) = Len(results)
              /\ \A k \in 1 .. Len(results) + 1 : k \in 1 .. Len(results) \/ k = Len(results) + 1
          BY <2>4
        <5> QED  BY <2>4, <3>2, <5>1, <5>2, <5>3, Zenon
      <4> QED  BY <2>2, <2>3, <2>4, <3>1, <3>2, <4>1 DEF Accounts
    <3>5. (recorded - Len(results))' \in {0, 1}
      BY <2>2, <2>4, <3>2
    <3> QED
      BY <1>1, <2>2, <2>3, <2>4, <3>1, <3>2, <3>3, <3>4, <3>5 DEF IInv
  <2> QED  BY <2>4, <2>5, <2>7, <2>8
<1> QED
  BY <1>2, <1>3, <1>4

LEMMA DestroyStep ==
  ASSUME IInv, Destroy
  PROVE  IInv'
<1>1. /\ status # "destroyed" /\ status' = "destroyed"
      /\ limbs' = Erased /\ op' = ZeroedFold
      /\ receipt' = Receipt(op, recorded, fuse.entropy) /\ fuse' = MarkSpent(fuse)
      /\ recorded' = recorded /\ laneActive' = laneActive /\ results' = results
      /\ kind' = kind /\ lifetime' = lifetime /\ clock' = clock
  BY DEF Destroy
<1>2. /\ fuse' \in Fuses /\ fuse'.state = "spent" /\ fuse'.remaining = 0
      /\ fuse'.entropy = <<>> /\ fuse'.consumed = fuse.consumed
  <2>1. fuse \in Fuses /\ fuse' = [fuse EXCEPT !.state = "spent", !.remaining = 0, !.entropy = <<>>]
    BY <1>1 DEF IInv, MarkSpent
  <2>2. <<>> \in Seq(Nat)
    OBVIOUS
  <2> HIDE DEF IInv
  <2> QED  BY <2>1, <2>2 DEF Fuses
<1>3. receipt'.operations = recorded /\ receipt'.entropy = fuse.entropy
  BY <1>1 DEF Receipt
<1>4. Accounts(fuse.entropy) /\ recorded \in Nat /\ recorded = fuse.consumed
  BY <1>1 DEF IInv, Metered
<1>5. receipt' # NoReceipt
  BY <1>3, <1>4 DEF NoReceipt
<1>6. Accounts(receipt.entropy)'
  BY <1>1, <1>3, <1>4 DEF Accounts
<1>7. Metered'
  BY <1>1, <1>2, <1>4 DEF Metered
<1> QED
  BY <1>1, <1>2, <1>3, <1>5, <1>6, <1>7, ErasedNat DEF IInv

LEMMA Operations ==
  ASSUME CheckedMul \/ CheckedAdd
  PROVE  \E i \in Limb, value \in Nat, result \in Nat : Checked(i, value, result)
<1>1. \A m \in Nat, x \in Nat : m > 0 => x % m \in Nat
  OBVIOUS
<1>2. \A a, b \in Operands : a * b \in Nat /\ a + b \in Nat
  <2>1. \A a, b \in Nat : a * b \in Nat /\ a + b \in Nat
    OBVIOUS
  <2> QED  BY <2>1, KioskUnitAssumption
<1>3. \A x \in Nat, s \in Slips : x + s \in Nat
  BY DEF Slips
<1>4. CASE CheckedMul
  <2>1. PICK i \in Limb, j \in Limb, a \in Operands, b \in Operands, slip \in Slips :
          Checked(i, (a * b) % Moduli[j], (((a * b) % Moduli[j]) + slip) % Moduli[j])
    BY <1>4, Zenon DEF CheckedMul
  <2>2. (a * b) % Moduli[j] \in Nat
    BY <1>1, <1>2, ModuliNat
  <2>3. (((a * b) % Moduli[j]) + slip) % Moduli[j] \in Nat
    BY <1>1, <1>3, <2>2, ModuliNat
  <2> QED  BY <2>1, <2>2, <2>3, Zenon
<1>5. CASE CheckedAdd
  <2>1. PICK i \in Limb, j \in Limb, a \in Operands, b \in Operands, slip \in Slips :
          Checked(i, (a + b) % Moduli[j], (((a + b) % Moduli[j]) + slip) % Moduli[j])
    BY <1>5, Zenon DEF CheckedAdd
  <2>2. (a + b) % Moduli[j] \in Nat
    BY <1>1, <1>2, ModuliNat
  <2>3. (((a + b) % Moduli[j]) + slip) % Moduli[j] \in Nat
    BY <1>1, <1>3, <2>2, ModuliNat
  <2> QED  BY <2>1, <2>2, <2>3, Zenon
<1> QED
  BY <1>4, <1>5

LEMMA Inductive == IInv /\ [UnitNext]_unitVars => IInv'
<1> SUFFICES ASSUME IInv, [UnitNext]_unitVars PROVE IInv'
  OBVIOUS
<1>1. CASE Tick
  BY <1>1 DEF Tick, IInv, Metered, Accounts
<1>2. CASE Load
  <2>1. limbs' \in [Limb -> Nat]
    BY <1>2, LimbsNat DEF Load
  <2> QED  BY <1>2, <2>1 DEF Load, IInv, Metered, Accounts
<1>3. CASE CheckedMul \/ CheckedAdd
  BY <1>3, Operations, CheckedStep
<1>4. CASE Destroy
  BY <1>4, DestroyStep
<1>5. CASE UNCHANGED unitVars
  BY <1>5 DEF unitVars, IInv, Metered, Accounts
<1> QED
  BY <1>1, <1>2, <1>3, <1>4, <1>5 DEF UnitNext

THEOREM Invariance == UnitSpec => []IInv
  BY Initial, Inductive, PTL DEF UnitSpec

\* The parts of a unit are always in states that can go together.
THEOREM TypeCorrect == UnitSpec => []UnitTypeOK
<1>1. IInv => UnitTypeOK
  <2>1. ZeroedFold.state = "zeroed"
    BY DEF ZeroedFold
  <2> QED  BY <2>1 DEF IInv, UnitTypeOK, Fuses
<1> QED
  BY <1>1, Invariance, PTL

\* The meter, the count of the receipt and what was handed out agree.
THEOREM MeterIsRight == UnitSpec => []MeterAgrees
<1>1. IInv => MeterAgrees
  <2> SUFFICES ASSUME IInv PROVE MeterAgrees
    OBVIOUS
  <2>1. /\ fuse.remaining \in Nat /\ fuse.total \in Nat /\ fuse.consumed \in Nat
        /\ Metered
    BY DEF IInv, Fuses
  <2>2. Cost * fuse.consumed \in Nat
    BY <2>1, KioskUnitAssumption
  <2>3. \A r, m, t \in Nat : r + m = t => r = t - m
    OBVIOUS
  <2>4. fuse.state = "armed" => fuse.remaining = fuse.total - Cost * fuse.consumed
    BY <2>1, <2>2, <2>3, Zenon DEF Metered
  <2> QED  BY <2>1, <2>4, Zenon DEF Metered, MeterAgrees
<1> QED
  BY <1>1, Invariance, PTL

\* Until it is destroyed a unit can be destroyed, and then nothing is left.
THEOREM DestroysCompletely == UnitSpec => []NothingIsLeft
<1>1. IInv => NothingIsLeft
  BY DEF IInv, NothingIsLeft, CanPermanentFold
<1> QED
  BY <1>1, Invariance, PTL

\* A receipt accounts for every operation of the unit.
THEOREM ReceiptIsComplete == UnitSpec => []ReceiptAccounts
<1>1. IInv => ReceiptAccounts
  BY DEF IInv, ReceiptAccounts, Accounts
<1> QED
  BY <1>1, Invariance, PTL

LEMMA OverStays ==
  IInv /\ [UnitNext]_unitVars => (ShouldDestroy => ShouldDestroy' /\ results' = results)
<1> SUFFICES ASSUME IInv, [UnitNext]_unitVars, ShouldDestroy
             PROVE  ShouldDestroy' /\ results' = results
  OBVIOUS
<1>1. CASE Tick
  BY <1>1 DEF Tick, ShouldDestroy, Expired, IInv
<1>2. CASE Load
  BY <1>2 DEF Load, ShouldDestroy, Expired
<1>3. CASE CheckedMul \/ CheckedAdd
  <2>1. PICK i \in Limb, value \in Nat, result \in Nat : Checked(i, value, result)
    BY <1>3, Operations
  <2> QED  BY <2>1 DEF Checked, ShouldDestroy
<1>4. CASE Destroy
  BY <1>4 DEF Destroy, ShouldDestroy
<1>5. CASE UNCHANGED unitVars
  BY <1>5 DEF unitVars, ShouldDestroy, Expired
<1> QED  BY <1>1, <1>2, <1>3, <1>4, <1>5 DEF UnitNext

\* A unit that says it should be destroyed says so forever, and hands nothing
\* out any more.
THEOREM OverForever == UnitSpec => OverIsOver
<1>1. IInv /\ [UnitNext]_unitVars => [ShouldDestroy => ShouldDestroy' /\ results' = results]_unitVars
  BY OverStays
<1> QED
  BY <1>1, Invariance, PTL DEF UnitSpec, OverIsOver

-----------------------------------------------------------------------------
(* The unit implements the token.                                           *)

LEMMA QuotientBound ==
  ASSUME NEW a \in Nat, NEW c \in Nat, c > 0, NEW k \in Nat, c * k <= a
  PROVE  k <= a \div c
<1> DEFINE u == a \div c
<1>1. u \in Int /\ a < c * u + c
  BY SMTT(30)
<1> HIDE DEF u
<1>2. SUFFICES ASSUME u < k PROVE FALSE
  BY <1>1 DEF u
<1>3. u + 1 <= k
  BY <1>1, <1>2
<1>4. c * (u + 1) <= c * k
  BY <1>1, <1>3
<1>5. c * (u + 1) = c * u + c
  BY <1>1
<1> QED
  BY <1>1, <1>4, <1>5

LEMMA AllowanceNat == ASSUME fuse \in Fuses PROVE Allowance \in Nat
<1>1. fuse.total \in Nat /\ Cost \in Nat /\ Cost > 0
  BY KioskUnitAssumption DEF Fuses
<1>2. \A a, c \in Nat : c > 0 => a \div c \in Nat
  OBVIOUS
<1> QED
  BY <1>1, <1>2 DEF Allowance

\* A unit that hands out a result was made for one more.
LEMMA WithinAllowance ==
  ASSUME IInv, status = "active", fuse.state = "armed", fuse.remaining > Cost
  PROVE  Len(results) < Allowance
<1>1. /\ fuse.remaining + Cost * fuse.consumed = fuse.total
      /\ fuse.consumed = Len(results)
      /\ fuse.remaining \in Nat /\ fuse.total \in Nat /\ fuse.consumed \in Nat
      /\ fuse \in Fuses
  BY DEF IInv, Metered, Fuses
<1>2. Cost \in Nat /\ Cost > 0
  BY KioskUnitAssumption
<1>3. /\ Cost * (fuse.consumed + 1) = Cost * fuse.consumed + Cost
      /\ Cost * fuse.consumed \in Nat
  BY <1>1, <1>2, ChargeArithmetic
<1>4. \A l, m, t, c \in Nat : l + m = t /\ l > c => m + c <= t
  OBVIOUS
<1>5. Cost * fuse.consumed + Cost <= fuse.total
  BY <1>1, <1>2, <1>3, <1>4
<1>6. Cost * (fuse.consumed + 1) <= fuse.total /\ fuse.consumed + 1 \in Nat
  <2>1. fuse.consumed + 1 \in Nat
    BY <1>1
  <2> QED  BY <1>3, <1>5, <2>1, Zenon
<1>7. fuse.consumed + 1 <= fuse.total \div Cost
  BY <1>1, <1>2, <1>6, QuotientBound
<1>8. fuse.consumed + 1 <= Allowance /\ Allowance \in Nat
  BY <1>1, <1>7, AllowanceNat DEF Allowance
<1> QED
  BY <1>1, <1>8

\* The status is one of five.
LEMMA StatusCases ==
  ASSUME IInv
  PROVE  status \in {"ready", "active", "triggered", "compromised", "destroyed"}
  BY DEF IInv

LEMMA TokenInitial == UnitInit => Token!Init
<1> SUFFICES ASSUME UnitInit PROVE Token!Init
  OBVIOUS
<1>1. Allowance \in Nat
  BY Initial, AllowanceNat DEF IInv
<1>2. Len(<<>>) = 0
  OBVIOUS
<1>3. Phase = "fresh" /\ Len(results) = 0 /\ (op.state # "zeroed") = TRUE
  <2>1. status = "ready" /\ results = <<>> /\ op.state = "unfolded"
    BY DEF UnitInit, NewFold
  <2>2. ~ ShouldDestroy
    <3>1. fuse.state = "armed"
      BY Initial DEF UnitInit, Created, ForOperations
    <3>2. ~ Expired
      BY KioskUnitAssumption DEF UnitInit, Created, Expired
    <3> QED  BY <2>1, <3>1, <3>2 DEF ShouldDestroy, UnitInit
  <2>3. Phase = "fresh"
    BY <2>1, <2>2 DEF Phase
  <2> QED  BY <1>2, <2>1, <2>3
<1> QED
  BY <1>1, <1>3 DEF Token!Init

LEMMA TokenStep == IInv /\ IInv' /\ [UnitNext]_unitVars => [Token!Next]_(Token!vars)
<1> SUFFICES ASSUME IInv, IInv', [UnitNext]_unitVars PROVE [Token!Next]_(Token!vars)
  OBVIOUS
<1> USE DEF Token!vars, Token!Next
<1>0. ShouldDestroy => ShouldDestroy'
  BY OverStays
<1>1. CASE UNCHANGED unitVars
  BY <1>1 DEF unitVars, Phase, Allowance, ShouldDestroy, Expired
<1>2. CASE Tick
  <2>1. /\ Allowance' = Allowance /\ Len(results)' = Len(results) /\ status' = status
        /\ (op.state # "zeroed")' = (op.state # "zeroed")
    BY <1>2 DEF Tick, Allowance
  <2>2. CASE ShouldDestroy' <=> ShouldDestroy
    BY <2>1, <2>2, StatusCases DEF Phase
  <2>3. CASE ~ ShouldDestroy /\ ShouldDestroy'
    <3>1. status \in {"ready", "active"}
      BY <2>3, StatusCases DEF ShouldDestroy
    <3>2. Phase \in {"fresh", "live"} /\ Phase' = "over"
      BY <2>1, <2>3, <3>1 DEF Phase
    <3> QED  BY <2>1, <3>2 DEF Token!RunOut
  <2> QED  BY <1>0, <2>2, <2>3
<1>3. CASE Load
  <2>1. /\ status = "ready" /\ status' = "active" /\ Allowance' = Allowance
        /\ Len(results)' = Len(results) /\ (op.state # "zeroed")' = (op.state # "zeroed")
        /\ ShouldDestroy' <=> ShouldDestroy
    BY <1>3 DEF Load, Allowance, ShouldDestroy, Expired
  <2>2. CASE ShouldDestroy
    <3>1. Phase = "over" /\ Phase' = "over"
      BY <2>1, <2>2 DEF Phase
    <3> QED  BY <2>1, <3>1
  <2>3. CASE ~ ShouldDestroy
    <3>1. Phase = "fresh" /\ Phase' = "live"
      BY <2>1, <2>3 DEF Phase
    <3> QED  BY <2>1, <3>1 DEF Token!Load
  <2> QED  BY <2>2, <2>3
<1>4. CASE CheckedMul \/ CheckedAdd
  <2>1. PICK i \in Limb, value \in Nat, result \in Nat : Checked(i, value, result)
    BY <1>4, Operations
  <2>2. /\ status = "active" /\ op' = op /\ fuse \in Fuses
        /\ ~ ShouldDestroy => Phase = "live"
        /\ (op.state # "zeroed")' = (op.state # "zeroed")
    BY <2>1 DEF Checked, IInv, Phase
  <2>3. CASE ShouldDestroy
    <3>1. fuse' = fuse /\ results' = results /\ status' = "triggered"
      BY <2>1, <2>3 DEF Checked
    <3>2. Phase = "over" /\ Phase' = "over"
      BY <1>0, <2>2, <2>3, <3>1 DEF Phase
    <3>3. Allowance' = Allowance /\ Len(results)' = Len(results)
      BY <3>1 DEF Allowance
    <3> QED  BY <2>2, <3>2, <3>3
  <2>4. CASE ~ ShouldDestroy /\ result # value
    <3>1. fuse' = fuse /\ results' = results /\ status' = "compromised"
      BY <2>1, <2>4 DEF Checked
    <3>2. Phase' = "over" /\ Allowance' = Allowance /\ Len(results)' = Len(results)
      BY <3>1 DEF Phase, Allowance, ShouldDestroy
    <3> QED  BY <2>2, <2>4, <3>2 DEF Token!RunOut
  <2>5. CASE ~ ShouldDestroy /\ result = value
    <3>1. fuse.state = "armed"
      BY <2>2, <2>5 DEF ShouldDestroy, IInv, Fuses
    <3>2. /\ fuse' = ConsumeFuse(fuse, result) /\ laneActive' = laneActive
          /\ UNCHANGED <<lifetime, clock>>
      BY <2>1, <2>5 DEF Checked
    <3>3. /\ fuse'.total = fuse.total
          /\ fuse.remaining <= Cost => fuse'.state = "triggered"
          /\ fuse.remaining > Cost => fuse'.state = "armed"
      BY <2>2, <3>1, <3>2, ConsumeFacts
    <3>4. Allowance' = Allowance
      BY <3>3 DEF Allowance
    <3>5. CASE fuse.remaining <= Cost
      <4>1. status' = "triggered" /\ results' = results
        BY <2>1, <2>5, <3>2, <3>3, <3>5 DEF Checked
      <4>2. Phase' = "over" /\ Len(results)' = Len(results)
        BY <4>1 DEF Phase, ShouldDestroy
      <4> QED  BY <2>2, <2>5, <3>4, <4>2 DEF Token!RunOut
    <3>6. CASE fuse.remaining > Cost
      <4>1. status' = status /\ results' = Append(results, result)
        BY <2>1, <2>5, <3>2, <3>3, <3>6 DEF Checked
      <4>2. Len(results') = Len(results) + 1
        BY <4>1 DEF IInv
      <4>3. ~ ShouldDestroy'
        BY <2>2, <2>5, <3>2, <3>3, <3>6, <4>1 DEF ShouldDestroy, Expired
      <4>4. Phase' = "live"
        BY <2>2, <4>1, <4>3 DEF Phase
      <4>5. Len(results) < Allowance
        BY <2>2, <3>1, <3>6, WithinAllowance
      <4> QED  BY <2>2, <2>5, <3>4, <4>2, <4>4, <4>5 DEF Token!Use
    <3>7. fuse.remaining \in Nat /\ Cost \in Nat
      BY <2>2, KioskUnitAssumption DEF Fuses
    <3> QED  BY <3>5, <3>6, <3>7
  <2> QED  BY <2>3, <2>4, <2>5
<1>5. CASE Destroy
  <2>1. /\ status # "destroyed" /\ status' = "destroyed" /\ op' = ZeroedFold
        /\ fuse' = MarkSpent(fuse) /\ results' = results /\ fuse \in Fuses
    BY <1>5 DEF Destroy, IInv
  <2>2. fuse'.total = fuse.total
    BY <2>1 DEF MarkSpent, Fuses
  <2>3. Allowance' = Allowance /\ Len(results)' = Len(results)
    BY <2>1, <2>2 DEF Allowance
  <2>4. Phase # "gone" /\ Phase' = "gone"
    BY <2>1, StatusCases DEF Phase, ShouldDestroy
  <2>5. (op.state # "zeroed")' = FALSE
    BY <2>1 DEF ZeroedFold
  <2> QED  BY <2>3, <2>4, <2>5 DEF Token!Destroy
<1> QED
  BY <1>1, <1>2, <1>3, <1>4, <1>5 DEF UnitNext

\* For every budget, cost, lifetime and modulus the unit implements the token:
\* loaded once, used no more often than it was made for, destroyed once.
THEOREM Implements == UnitSpec => IsSpendableToken
<1>1. IInv /\ [UnitNext]_unitVars => IInv'
  BY Inductive
<1> QED
  BY TokenInitial, TokenStep, <1>1, Invariance, PTL DEF UnitSpec, IsSpendableToken, Token!Spec

-----------------------------------------------------------------------------
(* The destruction sequence.  Residues first.                               *)

LEMMA Division ==
  ASSUME NEW x \in Int, NEW m \in Nat, m > 0
  PROVE  /\ x = m * (x \div m) + (x % m)
         /\ x % m \in 0 .. m - 1
         /\ x \div m \in Int
  BY SMT

LEMMA RemainderIsUnique ==
  ASSUME NEW m \in Nat, m > 0, NEW j \in Int, NEW v \in 0 .. m - 1
  PROVE  (m * j + v) % m = v
<1> DEFINE x == m * j + v
           k == x \div m
           w == x % m
<1>1. x \in Int
  OBVIOUS
<1>2. m * j + v = m * k + w /\ w \in 0 .. m - 1 /\ k \in Int
  BY <1>1, Division
<1> HIDE DEF k, w
<1>3. m * (j - k) = w - v
  BY <1>2
<1>4. ~ (j - k >= 1)
  <2>1. j - k >= 1 => m * (j - k) >= m
    BY <1>2
  <2> QED BY <1>2, <1>3, <2>1
<1>5. ~ (j - k <= -1)
  <2>1. j - k <= -1 => m * (j - k) <= - m
    BY <1>2
  <2> QED BY <1>2, <1>3, <2>1
<1>6. j = k
  BY <1>2, <1>4, <1>5
<1>7. w = v
  BY <1>2, <1>6
<1> QED BY <1>7 DEF w

\* A residue is back after it was multiplied by a and by an inverse of a.
LEMMA InverseUndoes ==
  ASSUME NEW m \in Nat, m > 0, NEW a \in Nat, NEW y \in Nat, (y * a) % m = 1,
         NEW x \in 0 .. m - 1
  PROVE  (((x * a) % m) * y) % m = x
<1> DEFINE p == (x * a) \div m
           r == (x * a) % m
           u == (y * a) \div m
<1>1. x * a = m * p + r /\ p \in Int /\ r \in Int
  <2>1. x * a \in Int
    OBVIOUS
  <2> QED BY <2>1, Division
<1>2. y * a = m * u + 1 /\ u \in Int
  <2>1. y * a \in Int
    OBVIOUS
  <2> QED BY <2>1, Division
<1> HIDE DEF p, r, u
<1>3. r * y = (x * a - m * p) * y
  BY <1>1
<1>4. (x * a - m * p) * y = x * (y * a) - m * (p * y)
  BY <1>1
<1>5. x * (y * a) = x * (m * u) + x
  BY <1>2
<1>6. r * y = m * (x * u - p * y) + x
  BY <1>1, <1>2, <1>3, <1>4, <1>5
<1>7. x * u - p * y \in Int
  BY <1>1, <1>2
<1>8. (r * y) % m = x
  BY <1>6, <1>7, RemainderIsUnique
<1> QED BY <1>8 DEF r

LEMMA CountIsModular ==
  ASSUME NEW n \in Nat
  PROVE  ((n % Generations) + 1) % Generations = (n + 1) % Generations
<1> DEFINE g == Generations
           k == n \div g
           r == n % g
<1>1. g \in Nat /\ g > 0
  BY FoldOperatorAssumption
<1>2. n = g * k + r /\ r \in 0 .. g - 1 /\ k \in Int
  BY <1>1, Division
<1> HIDE DEF g, k, r
<1>3. CASE r + 1 < g
  <2>1. (g * k + (r + 1)) % g = r + 1
    BY <1>1, <1>2, <1>3, RemainderIsUnique
  <2>2. (g * 0 + (r + 1)) % g = r + 1
    BY <1>1, <1>2, <1>3, RemainderIsUnique
  <2>3. g * k + (r + 1) = n + 1 /\ g * 0 + (r + 1) = r + 1
    BY <1>1, <1>2
  <2> QED BY <2>1, <2>2, <2>3 DEF g, r
<1>4. CASE r + 1 = g
  <2>1. (g * (k + 1) + 0) % g = 0
    BY <1>1, <1>2, RemainderIsUnique
  <2>2. (g * 1 + 0) % g = 0
    BY <1>1, RemainderIsUnique
  <2>3. g * (k + 1) + 0 = n + 1 /\ g * 1 + 0 = r + 1
    BY <1>1, <1>2, <1>4
  <2> QED BY <2>1, <2>2, <2>3 DEF g, r
<1> QED BY <1>1, <1>2, <1>3, <1>4

\* Unfolding takes the mask off again, in every limb.
LEMMA UnfoldUndoes ==
  ASSUME NEW d \in Limbs, NEW k \in Masks
  PROVE  Scaled(Scaled(d, k), [i \in Limb |-> ModInverse(k[i], Moduli[i])]) = d
<1> DEFINE inverse == [i \in Limb |-> ModInverse(k[i], Moduli[i])]
<1>1. ASSUME NEW i \in Limb
      PROVE  (((d[i] * k[i]) % Moduli[i]) * inverse[i]) % Moduli[i] = d[i]
  <2>1. Moduli[i] \in Nat /\ Moduli[i] > 1
    BY FoldOperatorAssumption DEF Limb
  <2>2. d[i] \in Nat /\ d[i] < Moduli[i]
    BY <2>1, FoldOperatorAssumption DEF Limbs, Limb
  <2>3. k[i] \in Nat /\ k[i] < Moduli[i] /\ k[i] # 0
    BY <2>1, FoldOperatorAssumption DEF Limbs, Limb, Masks
  <2>4. \E x \in 0 .. Moduli[i] - 1 : (x * k[i]) % Moduli[i] = 1
    <3>1. k[i] \in 1 .. Moduli[i] - 1
      BY <2>1, <2>3
    <3> QED BY <3>1, MaskAssumption, Zenon
  <2>5. 1 % Moduli[i] = 1
    <3>1. (Moduli[i] * 0 + 1) % Moduli[i] = 1
      BY <2>1, RemainderIsUnique
    <3> QED BY <2>1, <3>1
  <2>6. /\ ModInverse(k[i], Moduli[i]) \in 0 .. Moduli[i] - 1
        /\ (ModInverse(k[i], Moduli[i]) * k[i]) % Moduli[i] = 1
    BY <2>4, <2>5 DEF ModInverse
  <2>7. inverse[i] \in Nat /\ (inverse[i] * k[i]) % Moduli[i] = 1
    BY <2>1, <2>6
  <2>8. d[i] \in 0 .. Moduli[i] - 1 /\ Moduli[i] > 0 /\ k[i] \in Nat
    BY <2>1, <2>2, <2>3
  <2> HIDE DEF inverse
  <2> QED BY <2>1, <2>7, <2>8, InverseUndoes
<1>2. Scaled(Scaled(d, k), inverse) = [i \in Limb |-> d[i]]
  BY <1>1 DEF Scaled
<1>3. d = [i \in Limb |-> d[i]]
  BY DEF Limbs
<1> QED BY <1>2, <1>3

-----------------------------------------------------------------------------
(* The invariant: the operator counts its folds, and keeps its masks as     *)
(* long as they can be taken off.                                           *)

SequenceInv ==
  /\ original \in Limbs /\ key \in Masks
  /\ folds \in Nat
  /\ folder \in [masks : {key, <<>>}, generation : Nat,
                 state : {"unfolded", "folded", "permanently_folded", "zeroed"}]
  /\ folder.state # "zeroed" => folder.generation = folds % Generations
  /\ folder.state \in {"folded", "permanently_folded"} => folds > 0
  /\ executed \in BOOLEAN
  /\ executed => folder.state = "zeroed"
  /\ LimbsFollowState

LEMMA SequenceStarts == SequenceInit => SequenceInv
<1> SUFFICES ASSUME SequenceInit PROVE SequenceInv
  OBVIOUS
<1>1. Generations \in Nat /\ Generations > 0
  BY FoldOperatorAssumption
<1>2. (Generations * 0 + 0) % Generations = 0
  BY <1>1, RemainderIsUnique
<1>3. 0 % Generations = 0
  BY <1>1, <1>2
<1>4. folder = [masks |-> key, state |-> "unfolded", generation |-> 0]
  BY DEF SequenceInit, NewFold
<1>5. folder \in [masks : {key, <<>>}, generation : Nat,
                 state : {"unfolded", "folded", "permanently_folded", "zeroed"}]
  BY <1>4
<1>6. folder.masks = key /\ folder.state = "unfolded" /\ folder.generation = 0
  BY <1>4
<1> QED BY <1>3, <1>5, <1>6 DEF SequenceInit, SequenceInv, LimbsFollowState

LEMMA FoldedRecord ==
  ASSUME NEW k, NEW g, NEW f, f = [masks |-> k, state |-> "unfolded", generation |-> g]
  PROVE  AfterFold(f) = [masks |-> k, state |-> "folded", generation |-> (g + 1) % Generations]
<1>1. f.generation = g
  OBVIOUS
<1> DEFINE h == (g + 1) % Generations
<1>2. AfterFold(f) = [f EXCEPT !.state = "folded", !.generation = h]
  BY <1>1 DEF AfterFold
<1> HIDE DEF h
<1>3. AfterFold(f) = [masks |-> k, state |-> "folded", generation |-> h]
  BY <1>2
<1> QED BY <1>3 DEF h

LEMMA FolderAfterFold ==
  ASSUME SequenceInv, CanFold(folder)
  PROVE  /\ AfterFold(folder) = [masks |-> key, state |-> "folded",
                                 generation |-> (folds + 1) % Generations]
         /\ (folds + 1) % Generations \in Nat
         /\ FoldedBy(folder, data) = Scaled(original, key)
<1>1. /\ folder.masks = key /\ data = original
      /\ folder.generation = folds % Generations /\ folds \in Nat
  BY DEF SequenceInv, LimbsFollowState, CanFold
<1>2. Generations \in Nat /\ Generations > 0
  BY FoldOperatorAssumption
<1>3. (folder.generation + 1) % Generations = (folds + 1) % Generations
  BY <1>1, CountIsModular
<1>4. AfterFold(folder) = [masks |-> key, state |-> "folded",
                           generation |-> (folder.generation + 1) % Generations]
  <2>1. folder = [masks |-> key, state |-> "unfolded", generation |-> folder.generation]
    BY <1>1 DEF SequenceInv, CanFold
  <2> QED BY <2>1, FoldedRecord
<1>5. (folds + 1) % Generations \in Nat
  <2>1. folds + 1 \in Int
    BY <1>1
  <2>2. (folds + 1) % Generations \in 0 .. Generations - 1
    BY <1>2, <2>1, Division
  <2> QED BY <1>2, <2>2
<1> QED BY <1>1, <1>3, <1>4, <1>5 DEF FoldedBy

LEMMA SequenceStep == SequenceInv /\ [SequenceNext]_sequenceVars => SequenceInv'
<1> SUFFICES ASSUME SequenceInv, [SequenceNext]_sequenceVars PROVE SequenceInv'
  OBVIOUS
<1>1. CASE RecordOperation
  BY <1>1 DEF RecordOperation, SequenceInv, LimbsFollowState
<1>2. CASE Fold
  <2>1. /\ folder' = [masks |-> key, state |-> "folded",
                      generation |-> (folds + 1) % Generations]
        /\ (folds + 1) % Generations \in Nat
        /\ data' = Scaled(original, key)
    BY <1>2, FolderAfterFold DEF Fold
  <2>2. /\ folds' = folds + 1 /\ original' = original /\ key' = key
        /\ executed' = executed /\ issued' = issued
    BY <1>2 DEF Fold
  <2>3. ~ executed
    BY <1>2 DEF Fold, CanFold, SequenceInv
  <2> QED BY <2>1, <2>2, <2>3 DEF SequenceInv, LimbsFollowState
<1>3. CASE Unfold
  <2>1. /\ folder.masks = key /\ data = Scaled(original, key) /\ ~ executed
        /\ original \in Limbs /\ key \in Masks
    BY <1>3 DEF Unfold, CanUnfold, SequenceInv, LimbsFollowState
  <2>2. data' = original
    BY <1>3, <2>1, UnfoldUndoes DEF Unfold, UnfoldedBy
  <2>3. folder' = [folder EXCEPT !.state = "unfolded"]
    BY <1>3 DEF Unfold, AfterUnfold
  <2>4. /\ folds' = folds /\ original' = original /\ key' = key
        /\ executed' = executed /\ issued' = issued /\ folder.state = "folded"
    BY <1>3 DEF Unfold, CanUnfold
  <2> QED BY <2>1, <2>2, <2>3, <2>4 DEF SequenceInv, LimbsFollowState
<1>4. CASE PermanentFold
  <2>1. /\ original' = original /\ key' = key /\ executed' = executed /\ issued' = issued
        /\ folder' = AfterPermanentFold(folder) /\ data' = HiddenBy(folder, data)
        /\ folds' = IF CanFold(folder) THEN folds + 1 ELSE folds
        /\ ~ executed
    BY <1>4 DEF PermanentFold, CanPermanentFold, SequenceInv
  <2>2. CASE CanFold(folder)
    <3> DEFINE count == (folds + 1) % Generations
    <3>a. /\ AfterFold(folder) = [masks |-> key, state |-> "folded", generation |-> count]
          /\ count \in Nat /\ FoldedBy(folder, data) = Scaled(original, key)
      BY <2>2, FolderAfterFold
    <3> HIDE DEF count
    <3>b. folder' = [[masks |-> key, state |-> "folded", generation |-> count]
                       EXCEPT !.masks = <<>>, !.state = "permanently_folded"]
      BY <2>1, <2>2, <3>a DEF AfterPermanentFold
    <3>c. folder' = [masks |-> <<>>, state |-> "permanently_folded", generation |-> count]
      BY <3>b
    <3>1. /\ folder' = [masks |-> <<>>, state |-> "permanently_folded",
                        generation |-> (folds + 1) % Generations]
          /\ (folds + 1) % Generations \in Nat
          /\ data' = Scaled(original, key)
      BY <2>1, <2>2, <3>a, <3>c DEF HiddenBy, count
    <3> QED BY <2>1, <2>2, <3>1 DEF SequenceInv, LimbsFollowState
  <2>3. CASE ~ CanFold(folder)
    <3>1. folder.state = "folded"
      BY <1>4, <2>3 DEF PermanentFold, CanPermanentFold, CanFold
    <3>2. folder' = [folder EXCEPT !.masks = <<>>, !.state = "permanently_folded"]
      BY <2>1, <2>3 DEF AfterPermanentFold
    <3>3. data' = data /\ folds' = folds
      BY <2>1, <2>3 DEF HiddenBy
    <3> QED BY <2>1, <3>1, <3>2, <3>3 DEF SequenceInv, LimbsFollowState
  <2> QED BY <2>2, <2>3
<1>5. CASE Zero
  <2>1. /\ original' = original /\ key' = key /\ executed' = executed /\ issued' = issued
        /\ folds' = folds /\ data' = data /\ folder' = ZeroedFold
    BY <1>5 DEF Zero
  <2> QED BY <2>1 DEF SequenceInv, LimbsFollowState, ZeroedFold
<1>6. CASE Execute
  <2>1. /\ original' = original /\ key' = key /\ executed' = TRUE
        /\ folder' = ZeroedFold /\ data' = Erased
        /\ issued'.generation = AfterPermanentFold(folder).generation
        /\ folds' = IF CanFold(folder) THEN folds + 1 ELSE folds
    BY <1>6 DEF Execute, Receipt
  <2>2. folds' \in Nat /\ folds' > 0 /\ issued'.generation = folds' % Generations
    <3>1. CASE CanFold(folder)
      <4>1. AfterPermanentFold(folder).generation = (folds + 1) % Generations
        BY <3>1, FolderAfterFold DEF AfterPermanentFold
      <4> QED BY <2>1, <3>1, <4>1 DEF SequenceInv
    <3>2. CASE ~ CanFold(folder)
      <4>1. folder.state = "folded"
        BY <1>6, <3>2 DEF Execute, CanPermanentFold, CanFold
      <4>2. AfterPermanentFold(folder).generation = folder.generation
        BY <3>2 DEF AfterPermanentFold, SequenceInv
      <4> QED BY <2>1, <3>2, <4>1, <4>2 DEF SequenceInv
    <3> QED BY <3>1, <3>2
  <2> QED BY <2>1, <2>2 DEF SequenceInv, LimbsFollowState, ZeroedFold
<1>7. CASE UNCHANGED sequenceVars
  BY <1>7 DEF sequenceVars, SequenceInv, LimbsFollowState
<1> QED
  BY <1>1, <1>2, <1>3, <1>4, <1>5, <1>6, <1>7 DEF SequenceNext

\* In any order of calls of the public interface, for any limbs, masks and
\* moduli that have inverses: unfolding brings the original limbs back, folded
\* ones are masked once, and a receipt is only had for limbs that are erased.
THEOREM FoldsComeOff == SequenceSpec => []LimbsFollowState
<1>1. SequenceInv => LimbsFollowState
  BY DEF SequenceInv
<1> QED
  BY SequenceStarts, SequenceStep, <1>1, PTL DEF SequenceSpec

-----------------------------------------------------------------------------
(* Keys in two shares.                                                      *)

LEMMA MultiplesVanish ==
  ASSUME NEW m \in Nat, m > 0, NEW x \in Int, NEW j \in Int
  PROVE  (x + m * j) % m = x % m
<1> DEFINE k == x \div m
           r == x % m
<1>1. x = m * k + r /\ r \in 0 .. m - 1 /\ k \in Int
  BY Division
<1> HIDE DEF k, r
<1>2. x + m * j = m * (k + j) + r
  BY <1>1
<1>3. (m * (k + j) + r) % m = r
  BY <1>1, RemainderIsUnique
<1> QED BY <1>2, <1>3 DEF r

LEMMA SmallRemainder ==
  ASSUME NEW m \in Nat, m > 0, NEW v \in 0 .. m - 1
  PROVE  v % m = v
<1>1. (m * 0 + v) % m = v
  BY RemainderIsUnique
<1> QED BY <1>1

\* Both sums that splitting and resharing take modulo q
LEMMA SumOfResidues ==
  ASSUME NEW m \in Nat, m > 0, NEW x \in 0 .. m - 1, NEW r \in 0 .. m - 1
  PROVE  (x + r) % m = IF x + r < m THEN x + r ELSE x + r - m
<1>1. CASE x + r < m
  BY <1>1, SmallRemainder
<1>2. CASE x + r >= m
  <2>1. (m * 1 + (x + r - m)) % m = x + r - m
    BY <1>2, RemainderIsUnique
  <2> QED BY <1>2, <2>1
<1> QED BY <1>1, <1>2

LEMMA DifferenceOfResidues ==
  ASSUME NEW m \in Nat, m > 0, NEW x \in 0 .. m - 1, NEW r \in 0 .. m - 1
  PROVE  (x + m - r) % m = IF x >= r THEN x - r ELSE x + m - r
<1>1. CASE x >= r
  <2>1. (m * 1 + (x - r)) % m = x - r
    BY <1>1, RemainderIsUnique
  <2> QED BY <1>1, <2>1
<1>2. CASE x < r
  BY <1>2, SmallRemainder
<1> QED BY <1>1, <1>2

KeyInv ==
  /\ q \in KeyModuli
  /\ keyState \in {"keygen", "active", "zeroed"}
  /\ shares \in [a : Int, b : Int]
  /\ keyState = "active" => secret \in 0 .. q - 1
  /\ SharesMakeTheSecret

LEMMA KeyModulus == q \in KeyModuli => q \in Nat /\ q > 1 /\ 2 * q <= KeyWord /\ KeyWord \in Nat
  BY KeyLifecycleAssumption, KeyWordAssumption

LEMMA SplitMakesTheSecret ==
  ASSUME q \in KeyModuli, NEW s \in 0 .. q - 1, NEW r \in 0 .. q - 1
  PROVE  /\ Split(s, r).a \in 0 .. q - 1 /\ Split(s, r).b \in 0 .. q - 1
         /\ Reconstructed(Split(s, r)) = s
<1>1. q \in Nat /\ q > 0 /\ 2 * q <= KeyWord /\ KeyWord \in Nat /\ KeyWord > 0
  BY KeyModulus
<1>2. (s + q - r) % KeyWord = s + q - r
  <2>1. s + q - r \in 0 .. KeyWord - 1
    BY <1>1
  <2> QED BY <1>1, <2>1, SmallRemainder
<1> DEFINE b == (s + q - r) % q
<1>3. b = IF s >= r THEN s - r ELSE s + q - r
  BY <1>1, DifferenceOfResidues
<1>4. Split(s, r) = [a |-> r, b |-> b]
  BY <1>2 DEF Split
<1> HIDE DEF b
<1>5. b \in 0 .. q - 1
  BY <1>1, <1>3
<1>6. (r + b) % q = s
  BY <1>1, <1>3, <1>5, SumOfResidues
<1> QED BY <1>4, <1>5, <1>6 DEF Reconstructed

LEMMA ReshareKeepsTheSecret ==
  ASSUME q \in KeyModuli, NEW pair, NEW r \in 0 .. q - 1,
         pair.a \in 0 .. q - 1, pair.b \in 0 .. q - 1
  PROVE  /\ Reshared(pair, r).a \in 0 .. q - 1 /\ Reshared(pair, r).b \in 0 .. q - 1
         /\ Reconstructed(Reshared(pair, r)) = Reconstructed(pair)
<1>1. q \in Nat /\ q > 0
  BY KeyModulus
<1> DEFINE x == pair.a
           y == pair.b
           a == (x + r) % q
           b == (y + q - r) % q
<1>2. a = IF x + r < q THEN x + r ELSE x + r - q
  BY <1>1, SumOfResidues
<1>3. b = IF y >= r THEN y - r ELSE y + q - r
  BY <1>1, DifferenceOfResidues
<1>4. Reshared(pair, r) = [a |-> a, b |-> b]
  BY DEF Reshared
<1>5. x \in 0 .. q - 1 /\ y \in 0 .. q - 1
  OBVIOUS
<1> HIDE DEF a, b, x, y
<1>6. a \in 0 .. q - 1 /\ b \in 0 .. q - 1
  BY <1>1, <1>2, <1>3, <1>5
<1>7. a + b \in {x + y, (x + y) + q * 1, (x + y) + q * (-1)}
  BY <1>1, <1>2, <1>3, <1>5
<1>8. (a + b) % q = (x + y) % q
  <2>1. /\ ((x + y) + q * 1) % q = (x + y) % q
        /\ ((x + y) + q * (-1)) % q = (x + y) % q
    BY <1>1, <1>5, MultiplesVanish
  <2> QED BY <1>7, <2>1
<1> QED BY <1>4, <1>6, <1>8 DEF Reconstructed, x, y

LEMMA KeyStarts == KeyInit => KeyInv
  BY DEF KeyInit, KeyInv, SharesMakeTheSecret, NoShares

LEMMA KeyStep == KeyInv /\ [KeyNext]_keyVars => KeyInv'
<1> SUFFICES ASSUME KeyInv, [KeyNext]_keyVars PROVE KeyInv'
  OBVIOUS
<1>0. q \in Nat /\ \A r \in KeyDraws[q] : r \in 0 .. q - 1
  BY KeyLifecycleAssumption DEF KeyInv
<1>1. CASE Initialize
  <2>1. PICK s \in KeyDraws[q], r \in KeyDraws[q] : secret' = s /\ shares' = Split(s, r)
    BY <1>1 DEF Initialize
  <2>2. q' = q /\ keyState' = "active" /\ q \in KeyModuli
    BY <1>1 DEF Initialize, KeyInv
  <2>3. /\ shares'.a \in 0 .. q - 1 /\ shares'.b \in 0 .. q - 1
        /\ (shares'.a + shares'.b) % q = secret'
    BY <1>0, <2>1, <2>2, SplitMakesTheSecret DEF Reconstructed
  <2>4. shares' \in [a : Int, b : Int]
    BY <1>0, <2>1, <2>3 DEF Split
  <2> QED BY <1>0, <2>1, <2>2, <2>3, <2>4 DEF KeyInv, SharesMakeTheSecret, Reconstructed
<1>2. CASE RecordKeyOperation
  BY <1>2 DEF RecordKeyOperation, KeyInv, SharesMakeTheSecret, Reconstructed
<1>3. CASE Reshare
  <2>1. PICK r \in KeyDraws[q] : shares' = Reshared(shares, r)
    BY <1>3 DEF Reshare
  <2>2. /\ q' = q /\ keyState' = keyState /\ keyState = "active" /\ secret' = secret
        /\ q \in KeyModuli /\ secret \in 0 .. q - 1
        /\ shares.a \in 0 .. q - 1 /\ shares.b \in 0 .. q - 1
        /\ (shares.a + shares.b) % q = secret
    BY <1>3 DEF Reshare, KeyInv, SharesMakeTheSecret, Reconstructed
  <2>3. /\ shares'.a \in 0 .. q - 1 /\ shares'.b \in 0 .. q - 1
        /\ (shares'.a + shares'.b) % q = secret'
    BY <1>0, <2>1, <2>2, ReshareKeepsTheSecret DEF Reconstructed
  <2>4. shares' \in [a : Int, b : Int]
    BY <1>0, <2>1, <2>3 DEF Reshared
  <2> QED BY <2>2, <2>3, <2>4 DEF KeyInv, SharesMakeTheSecret, Reconstructed
<1>4. CASE DestroyKey
  <2>1. NoShares \in [a : Int, b : Int]
    BY DEF NoShares
  <2> QED BY <1>4, <2>1 DEF DestroyKey, KeyInv, SharesMakeTheSecret
<1>5. CASE UNCHANGED keyVars
  BY <1>5 DEF keyVars, KeyInv, SharesMakeTheSecret, Reconstructed
<1> QED
  BY <1>1, <1>2, <1>3, <1>4, <1>5 DEF KeyNext

\* For every modulus up to half of the word, every secret and all randomness:
\* the shares make the secret through any number of reshares, and nothing
\* brings a destroyed key back.
THEOREM SharesStaySound == KeySpec => []SharesMakeTheSecret
<1>1. KeyInv => SharesMakeTheSecret
  BY DEF KeyInv
<1> QED
  BY KeyStarts, KeyStep, <1>1, PTL DEF KeySpec

-----------------------------------------------------------------------------
(* Values in three copies.                                                  *)

VoteInv ==
  /\ written \in Values /\ copies \in [Copy -> Values]
  /\ \E v \in Values : checksum = Crc(v)

LEMMA VoteStep == VoteInv /\ [VoteNext]_voteVars => VoteInv'
<1> SUFFICES ASSUME VoteInv, [VoteNext]_voteVars PROVE VoteInv'
  OBVIOUS
<1>1. CASE WriteValue
  BY <1>1 DEF WriteValue, Store, VoteInv
<1>2. CASE Repair
  <2>1. CASE MajorityVote.kind = "recovered"
    <3>1. MajorityVote.value \in Values
      <4>1. Failed.kind # "recovered" /\ \A v : AllAgree(v).kind # "recovered"
        BY DEF Failed, AllAgree
      <4>2. \/ \E c \in Copy : MajorityVote = AllAgree(copies[c])
            \/ \E c, d \in Copy : MajorityVote = Recovered(copies[c], d)
            \/ MajorityVote = Failed
        BY DEF MajorityVote, Copy
      <4>3. PICK c \in Copy, d \in Copy : MajorityVote = Recovered(copies[c], d)
        BY <2>1, <4>1, <4>2
      <4> QED BY <4>3 DEF Recovered, VoteInv
    <3> QED BY <1>2, <2>1, <3>1 DEF Repair, Store, VoteInv
  <2>2. CASE MajorityVote.kind # "recovered"
    BY <1>2, <2>2 DEF Repair, VoteInv
  <2> QED BY <2>1, <2>2
<1>3. CASE Corrupt
  BY <1>3 DEF Corrupt, VoteInv
<1>4. CASE UNCHANGED voteVars
  BY <1>4 DEF voteVars, VoteInv
<1> QED BY <1>1, <1>2, <1>3, <1>4 DEF VoteNext

LEMMA NoMajority ==
  ASSUME ~ (copies["A"] = copies["B"] /\ copies["A"] = copies["C"]),
         ~ (copies["A"] = copies["B"] /\ Vouched("A")),
         ~ (copies["A"] = copies["C"] /\ Vouched("A")),
         ~ (copies["B"] = copies["C"] /\ Vouched("B"))
  PROVE  MajorityVote = Failed
  BY DEF MajorityVote, Copy

LEMMA VoteIsRight == VoteInv => DamageIsCured
<1> SUFFICES ASSUME VoteInv PROVE DamageIsCured
  OBVIOUS
<1> DEFINE a == copies["A"]
           b == copies["B"]
           c == copies["C"]
<1>1. \A v, w : Crc(v) = Crc(w) <=> v = w
  BY DEF Crc
<1>2. /\ "A" \in Damaged <=> a # written
      /\ "B" \in Damaged <=> b # written
      /\ "C" \in Damaged <=> c # written
      /\ "checksum" \in Damaged <=> checksum # Crc(written)
      /\ Damaged \subseteq {"A", "B", "C", "checksum"}
  BY DEF Damaged, Copy
<1>3. ASSUME Damaged = {} PROVE MajorityVote = AllAgree(written)
  <2>1. a = written /\ b = written /\ c = written
    BY <1>2, <1>3
  <2> QED BY <2>1 DEF MajorityVote, Copy
<1>4. ASSUME NEW d \in Copy, Damaged = {d} PROVE MajorityVote = Recovered(written, d)
  <2>1. /\ checksum = Crc(written)
        /\ a # written <=> d = "A"
        /\ b # written <=> d = "B"
        /\ c # written <=> d = "C"
    BY <1>2, <1>4 DEF Copy
  <2>2. CASE d = "A"
    BY <2>1, <2>2 DEF MajorityVote, Vouched, Copy
  <2>3. CASE d = "B"
    BY <2>1, <2>3 DEF MajorityVote, Vouched, Copy
  <2>4. CASE d = "C"
    BY <2>1, <2>4 DEF MajorityVote, Vouched, Copy
  <2> QED BY <2>2, <2>3, <2>4 DEF Copy
<1>5. ASSUME NEW d \in Damaged, NEW e \in Damaged, d # e, Damaged = {d, e}
      PROVE  MajorityVote = Failed
  <2>1. /\ checksum = Crc(written) => (Vouched("A") <=> a = written)
        /\ checksum = Crc(written) => (Vouched("B") <=> b = written)
    BY <1>1 DEF Vouched
  <2>2. CASE checksum = Crc(written)
    <3>1. {d, e} \subseteq {"A", "B", "C"}
      BY <1>2, <1>5, <2>2
    <3>2. \/ a # written /\ b # written /\ c = written
          \/ a # written /\ b = written /\ c # written
          \/ a = written /\ b # written /\ c # written
      BY <1>2, <1>5, <3>1
    <3>3. /\ ~ (a = b /\ a = c) /\ ~ (a = b /\ Vouched("A"))
          /\ ~ (a = c /\ Vouched("A")) /\ ~ (b = c /\ Vouched("B"))
      BY <2>1, <2>2, <3>2
    <3> QED BY <3>3, NoMajority
  <2>3. CASE checksum # Crc(written)
    <3>1. \/ a # written /\ b = written /\ c = written
          \/ a = written /\ b # written /\ c = written
          \/ a = written /\ b = written /\ c # written
      BY <1>2, <1>5, <2>3
    <3>2. /\ ~ (a = b /\ a = c) /\ ~ (a = b /\ Vouched("A"))
          /\ ~ (a = c /\ Vouched("A")) /\ ~ (b = c /\ Vouched("B"))
      BY <2>3, <3>1 DEF Vouched
    <3> QED BY <3>2, NoMajority
  <2> QED BY <2>2, <2>3
<1> QED BY <1>3, <1>4, <1>5 DEF DamageIsCured

\* For any values: one damaged copy is cured, two places are not believed, whatever
\* was corrupted, written and repaired before.
THEOREM OneFaultIsCured == VoteSpec => []DamageIsCured
<1>1. VoteInit => VoteInv
  BY DEF VoteInit, VoteInv
<1> QED
  BY <1>1, VoteStep, VoteIsRight, PTL DEF VoteSpec

-----------------------------------------------------------------------------
(* Pooled buffers.                                                          *)

Buffers == [length : Lengths, dirty : BOOLEAN]

PoolInv ==
  /\ cache \in [Lengths -> Seq(Buffers)]
  /\ held \in Seq(Buffers)
  /\ BuffersAreClean

LEMMA NatLengths ==
  /\ Lengths \subseteq Nat /\ MaxPerSize \in Nat /\ Sizes \subseteq Lengths
  /\ \A n \in Lengths : \A d \in BOOLEAN : Buffer(n, d) \in Buffers
  BY PoolAssumption DEF Lengths, Buffers, Buffer

LEMMA BufferFacts ==
  ASSUME NEW b \in Buffers
  PROVE  /\ b.length \in Lengths /\ [b EXCEPT !.dirty = TRUE] \in Buffers
         /\ Zeroed(b) = Buffer(b.length, FALSE)
<1>1. PICK l \in Lengths, d \in BOOLEAN : b = [length |-> l, dirty |-> d]
  BY DEF Buffers
<1>2. b.length = l
  BY <1>1
<1>3. \A e \in BOOLEAN :
        [[length |-> l, dirty |-> d] EXCEPT !.dirty = e] = [length |-> l, dirty |-> e]
  OBVIOUS
<1>4. \A e \in BOOLEAN : [b EXCEPT !.dirty = e] = [length |-> l, dirty |-> e]
  BY <1>1, <1>3, Zenon
<1> QED BY <1>2, <1>3, <1>4 DEF Buffers, Buffer, Zeroed

LEMMA RemoveAtType ==
  ASSUME NEW S, NEW s \in Seq(S), NEW k \in DOMAIN s
  PROVE  RemoveAt(s, k) \in Seq(S)
<1>1. k \in 1 .. Len(s) /\ Len(s) \in Nat
  BY LenProperties
<1>2. \A i \in 1 .. Len(s) : s[i] \in S
  BY ElementOfSeq
<1>3. \A i \in 1 .. k - 1 : s[i] \in S
  BY <1>1, <1>2
<1>4. \A i \in k + 1 .. Len(s) : s[i] \in S
  BY <1>1, <1>2
<1>5. k - 1 \in Int /\ k + 1 \in Int /\ Len(s) \in Int
  BY <1>1
<1>6. SubSeq(s, 1, k - 1) \in Seq(S)
  BY <1>3, <1>5, SubSeqProperties
<1>7. SubSeq(s, k + 1, Len(s)) \in Seq(S)
  BY <1>4, <1>5, SubSeqProperties
<1> QED BY <1>6, <1>7, ConcatProperties DEF RemoveAt

LEMMA FrontIsPart ==
  ASSUME NEW S, NEW s \in Seq(S), s # <<>>
  PROVE  /\ Front(s) \in Seq(S) /\ Len(Front(s)) = Len(s) - 1
         /\ \A k \in DOMAIN Front(s) : k \in DOMAIN s /\ Front(s)[k] = s[k]
         /\ Len(s) \in DOMAIN s /\ Last(s) = s[Len(s)] /\ Last(s) \in S
<1>1. Len(s) \in Nat /\ Len(s) >= 1 /\ DOMAIN s = 1 .. Len(s)
  BY EmptySeq, LenProperties
<1>2. \A i \in 1 .. Len(s) : s[i] \in S
  BY ElementOfSeq
<1> DEFINE m == Len(s) - 1
<1>3. m \in Nat /\ \A i \in 1 .. m : i \in 1 .. Len(s) /\ s[i] \in S
  BY <1>1, <1>2
<1> HIDE DEF m
<1>4. /\ SubSeq(s, 1, m) \in Seq(S)
      /\ Len(SubSeq(s, 1, m)) = IF 1 <= m THEN m - 1 + 1 ELSE 0
      /\ \A i \in 1 .. m - 1 + 1 : SubSeq(s, 1, m)[i] = s[1 + i - 1]
  BY <1>3, SubSeqProperties, 1 \in Int, m \in Int
<1>5. Front(s) = SubSeq(s, 1, m)
  BY DEF Front, m
<1>6. Len(Front(s)) = m /\ Front(s) \in Seq(S)
  BY <1>3, <1>4, <1>5
<1>7. DOMAIN Front(s) = 1 .. m
  BY <1>6, LenProperties
<1>8. \A i \in 1 .. m : Front(s)[i] = s[i]
  BY <1>3, <1>4, <1>5
<1>9. Len(s) \in DOMAIN s /\ Last(s) = s[Len(s)] /\ Last(s) \in S
  BY <1>1, <1>2 DEF Last
<1> QED BY <1>1, <1>3, <1>6, <1>7, <1>8, <1>9 DEF m

\* A clean buffer put on a stack of clean ones
LEMMA OneMoreClean ==
  ASSUME NEW s \in Seq(Buffers), NEW b \in Buffers, \A i \in DOMAIN s : s[i] = b
  PROVE  /\ Append(s, b) \in Seq(Buffers) /\ Len(Append(s, b)) = Len(s) + 1
         /\ \A i \in DOMAIN Append(s, b) : Append(s, b)[i] = b
<1>1. /\ Append(s, b) \in Seq(Buffers) /\ Len(Append(s, b)) = Len(s) + 1
      /\ \A i \in 1 .. Len(s) : Append(s, b)[i] = s[i]
      /\ Append(s, b)[Len(s) + 1] = b
  BY AppendProperties
<1>2. DOMAIN Append(s, b) = 1 .. Len(Append(s, b))
  BY <1>1, LenProperties
<1>3. Len(s) \in Nat /\ DOMAIN s = 1 .. Len(s)
  BY LenProperties
<1>4. \A i \in 1 .. Len(s) + 1 : i \in 1 .. Len(s) \/ i = Len(s) + 1
  BY <1>3
<1> QED BY <1>1, <1>2, <1>3, <1>4

\* A row of new buffers
LEMMA CleanRow ==
  ASSUME NEW n \in Nat, NEW b \in Buffers
  PROVE  [k \in 1 .. n |-> b] \in Seq(Buffers)
<1>1. [k \in 1 .. n |-> b] \in [1 .. n -> Buffers]
  OBVIOUS
<1>2. Seq(Buffers) = UNION {[1 .. m -> Buffers] : m \in Nat}
  BY SeqDef
<1> DEFINE row == [k \in 1 .. n |-> b]
<1> HIDE DEF row
<1>3. row \in [1 .. n -> Buffers]
  BY <1>1 DEF row
<1>4. row \in UNION {[1 .. m -> Buffers] : m \in Nat}
  BY <1>3
<1> QED BY <1>2, <1>4 DEF row

\* Two stacks of clean buffers, one on the other
LEMMA StacksOfClean ==
  ASSUME NEW s \in Seq(Buffers), NEW t \in Seq(Buffers), NEW b,
         \A i \in DOMAIN s : s[i] = b, \A i \in DOMAIN t : t[i] = b
  PROVE  /\ s \o t \in Seq(Buffers) /\ Len(s \o t) = Len(s) + Len(t)
         /\ \A i \in DOMAIN (s \o t) : (s \o t)[i] = b
<1>1. /\ s \o t \in Seq(Buffers) /\ Len(s \o t) = Len(s) + Len(t)
      /\ \A i \in 1 .. Len(s) + Len(t) :
           (s \o t)[i] = IF i <= Len(s) THEN s[i] ELSE t[i - Len(s)]
  BY ConcatProperties
<1>2. /\ DOMAIN (s \o t) = 1 .. Len(s) + Len(t)
      /\ DOMAIN s = 1 .. Len(s) /\ DOMAIN t = 1 .. Len(t)
      /\ Len(s) \in Nat /\ Len(t) \in Nat
  BY <1>1, LenProperties
<1>3. ASSUME NEW i \in 1 .. Len(s) + Len(t)
      PROVE  (s \o t)[i] = b
  <2>1. CASE i <= Len(s)
    <3>1. i \in DOMAIN s
      BY <1>2, <2>1
    <3> QED BY <1>1, <2>1, <3>1
  <2>2. CASE ~ (i <= Len(s))
    <3>1. i - Len(s) \in DOMAIN t
      BY <1>2, <2>2
    <3> QED BY <1>1, <2>2, <3>1
  <2> QED BY <2>1, <2>2
<1> QED BY <1>1, <1>2, <1>3

\* A cache of clean buffers stays one when one length's stack is replaced by a
\* stack of clean buffers that is no longer than allowed.
LEMMA CleanStack ==
  ASSUME PoolInv, NEW n \in Lengths, NEW stack2 \in Seq(Buffers), Len(stack2) <= MaxPerSize,
         \A k \in DOMAIN stack2 : stack2[k] = Buffer(n, FALSE),
         cache' = [cache EXCEPT ![n] = stack2]
  PROVE  /\ cache' \in [Lengths -> Seq(Buffers)]
         /\ \A m \in Lengths :
              /\ Len(cache'[m]) <= MaxPerSize
              /\ \A k \in DOMAIN cache'[m] : cache'[m][k] = Buffer(m, FALSE)
<1>1. cache' \in [Lengths -> Seq(Buffers)]
  BY DEF PoolInv
<1>2. \A m \in Lengths : cache'[m] = IF m = n THEN stack2 ELSE cache[m]
  BY DEF PoolInv
<1> QED BY <1>1, <1>2 DEF PoolInv, BuffersAreClean

LEMMA PoolStep == PoolInv /\ [PoolNext]_poolVars => PoolInv'
<1> SUFFICES ASSUME PoolInv, [PoolNext]_poolVars PROVE PoolInv'
  OBVIOUS
<1> USE NatLengths
<1>1. CASE Acquire
  <2>1. PICK n \in Sizes :
          LET found  == cache[n] # <<>>
              buffer == IF found THEN Last(cache[n]) ELSE Buffer(n, FALSE)
          IN  /\ cache' = IF found THEN [cache EXCEPT ![n] = Front(@)] ELSE cache
              /\ held' = Append(held, buffer)
              /\ handedOut' = [asked |-> n, buffer |-> buffer]
    BY <1>1 DEF Acquire
  <2>2. n \in Lengths /\ cache[n] \in Seq(Buffers)
    BY DEF PoolInv
  <2>3. CASE cache[n] # <<>>
    <3>1. /\ cache' = [cache EXCEPT ![n] = Front(cache[n])]
          /\ held' = Append(held, Last(cache[n]))
          /\ handedOut' = [asked |-> n, buffer |-> Last(cache[n])]
      BY <2>1, <2>3
    <3>2. /\ Front(cache[n]) \in Seq(Buffers) /\ Len(Front(cache[n])) = Len(cache[n]) - 1
          /\ \A k \in DOMAIN Front(cache[n]) :
               k \in DOMAIN cache[n] /\ Front(cache[n])[k] = cache[n][k]
          /\ Len(cache[n]) \in DOMAIN cache[n] /\ Last(cache[n]) = cache[n][Len(cache[n])]
          /\ Last(cache[n]) \in Buffers
      BY <2>2, <2>3, FrontIsPart
    <3>3. /\ Len(cache[n]) <= MaxPerSize
          /\ \A k \in DOMAIN cache[n] : cache[n][k] = Buffer(n, FALSE)
      BY <2>2 DEF PoolInv, BuffersAreClean
    <3>4. Len(cache[n]) - 1 <= MaxPerSize
      BY <2>2, <3>3
    <3> DEFINE rest == Front(cache[n])
    <3>8. /\ rest \in Seq(Buffers) /\ Len(rest) <= MaxPerSize
          /\ \A k \in DOMAIN rest : rest[k] = Buffer(n, FALSE)
          /\ cache' = [cache EXCEPT ![n] = rest]
      BY <3>1, <3>2, <3>3, <3>4
    <3> HIDE DEF rest
    <3>5. /\ cache' \in [Lengths -> Seq(Buffers)]
          /\ \A m \in Lengths :
               /\ Len(cache'[m]) <= MaxPerSize
               /\ \A k \in DOMAIN cache'[m] : cache'[m][k] = Buffer(m, FALSE)
      BY <2>2, <3>8, CleanStack
    <3>6. held' \in Seq(Buffers)
      BY <3>1, <3>2, AppendProperties DEF PoolInv
    <3>7. handedOut'.buffer = Buffer(handedOut'.asked, FALSE)
      BY <3>1, <3>2, <3>3
    <3> QED BY <3>5, <3>6, <3>7 DEF PoolInv, BuffersAreClean
  <2>4. CASE cache[n] = <<>>
    <3>1. /\ cache' = cache /\ held' = Append(held, Buffer(n, FALSE))
          /\ handedOut' = [asked |-> n, buffer |-> Buffer(n, FALSE)]
      BY <2>1, <2>4
    <3>2. Buffer(n, FALSE) \in Buffers
      BY <2>2
    <3>3. held' \in Seq(Buffers)
      BY <3>1, <3>2, AppendProperties DEF PoolInv
    <3>4. handedOut'.buffer = Buffer(handedOut'.asked, FALSE)
      BY <3>1
    <3> QED BY <3>1, <3>3, <3>4 DEF PoolInv, BuffersAreClean
  <2> QED BY <2>3, <2>4
<1>2. CASE FromCoeffs
  <2>1. PICK n \in Sizes : held' = Append(held, Buffer(n, TRUE))
    BY <1>2 DEF FromCoeffs
  <2>2. Buffer(n, TRUE) \in Buffers
    OBVIOUS
  <2>3. held' \in Seq(Buffers)
    BY <2>1, <2>2, AppendProperties DEF PoolInv
  <2> QED BY <1>2, <2>3 DEF FromCoeffs, PoolInv, BuffersAreClean
<1>3. CASE Write
  <2>1. PICK k \in DOMAIN held : held' = [held EXCEPT ![k].dirty = TRUE]
    BY <1>3 DEF Write
  <2>2. held \in Seq(Buffers) /\ DOMAIN held = 1 .. Len(held) /\ held[k] \in Buffers
    BY LenProperties, ElementOfSeq DEF PoolInv
  <2>3. [held[k] EXCEPT !.dirty = TRUE] \in Buffers
    BY <2>2, BufferFacts
  <2>4. held' = [held EXCEPT ![k] = [held[k] EXCEPT !.dirty = TRUE]]
    BY <2>1
  <2>5. held' \in Seq(Buffers)
    BY <2>2, <2>3, <2>4, ExceptSeq
  <2> QED BY <1>3, <2>5 DEF Write, PoolInv, BuffersAreClean
<1>4. CASE ZeroizeBuffer
  <2>1. Buffer(0, FALSE) \in Buffers
    BY DEF Lengths
  <2>3. PICK k \in DOMAIN held : held' = [held EXCEPT ![k] = Buffer(0, FALSE)]
    BY <1>4 DEF ZeroizeBuffer
  <2>4. held \in Seq(Buffers) /\ DOMAIN held = 1 .. Len(held)
    BY LenProperties DEF PoolInv
  <2>2. held' \in Seq(Buffers)
    BY <2>1, <2>3, <2>4, ExceptSeq
  <2> QED BY <1>4, <2>2 DEF ZeroizeBuffer, PoolInv, BuffersAreClean
<1>5. CASE IntoRingPolynomial
  <2>1. held' \in Seq(Buffers)
    BY <1>5, RemoveAtType DEF IntoRingPolynomial, PoolInv
  <2> QED BY <1>5, <2>1 DEF IntoRingPolynomial, PoolInv, BuffersAreClean
<1>6. CASE Release
  <2>1. PICK k \in DOMAIN held :
          /\ held' = RemoveAt(held, k)
          /\ cache' = IF HasPlaceFor(held[k].length)
                      THEN [cache EXCEPT ![held[k].length] = Append(@, Cached(held[k]))]
                      ELSE cache
    BY <1>6 DEF Release
  <2> DEFINE n == held[k].length
  <2>9. held \in Seq(Buffers) /\ DOMAIN held = 1 .. Len(held) /\ held[k] \in Buffers
    BY LenProperties, ElementOfSeq DEF PoolInv
  <2>2. n \in Lengths /\ held' \in Seq(Buffers)
    BY <2>1, <2>9, RemoveAtType, BufferFacts
  <2>3. Cached(held[k]) = Buffer(n, FALSE) /\ Buffer(n, FALSE) \in Buffers
    BY <2>2, <2>9, BufferFacts DEF Cached
  <2>4. /\ cache[n] \in Seq(Buffers) /\ Len(cache[n]) <= MaxPerSize
        /\ \A i \in DOMAIN cache[n] : cache[n][i] = Buffer(n, FALSE)
    BY <2>2 DEF PoolInv, BuffersAreClean
  <2>5. handedOut' = handedOut
    BY <1>6 DEF Release
  <2>6. CASE HasPlaceFor(n)
    <3>1. cache' = [cache EXCEPT ![n] = Append(cache[n], Buffer(n, FALSE))]
      BY <2>1, <2>3, <2>6
    <3> HIDE DEF n
    <3>2. /\ Append(cache[n], Buffer(n, FALSE)) \in Seq(Buffers)
          /\ Len(Append(cache[n], Buffer(n, FALSE))) = Len(cache[n]) + 1
          /\ \A i \in DOMAIN Append(cache[n], Buffer(n, FALSE)) :
               Append(cache[n], Buffer(n, FALSE))[i] = Buffer(n, FALSE)
      BY <2>3, <2>4, OneMoreClean
    <3>5. Len(cache[n]) \in Nat /\ Len(cache[n]) < MaxPerSize
      BY <2>4, <2>6, LenProperties DEF HasPlaceFor
    <3>3. Len(Append(cache[n], Buffer(n, FALSE))) <= MaxPerSize
      BY <3>2, <3>5
    <3>4. /\ cache' \in [Lengths -> Seq(Buffers)]
          /\ \A m \in Lengths :
               /\ Len(cache'[m]) <= MaxPerSize
               /\ \A i \in DOMAIN cache'[m] : cache'[m][i] = Buffer(m, FALSE)
      BY <2>2, <3>1, <3>2, <3>3, CleanStack
    <3> QED BY <2>2, <2>5, <3>4 DEF PoolInv, BuffersAreClean
  <2>7. CASE ~ HasPlaceFor(n)
    <3>1. cache' = cache
      BY <2>1, <2>7
    <3> QED BY <2>2, <2>5, <3>1 DEF PoolInv, BuffersAreClean
  <2> QED BY <2>6, <2>7
<1>7. CASE Prewarm
  <2>1. PICK sizes \in SUBSET Sizes, count \in 0 .. MaxPerSize + 1 :
          LET wanted == IF count <= MaxPerSize THEN count ELSE MaxPerSize
          IN  cache' = [n \in Lengths |->
                IF n \in sizes
                THEN cache[n] \o [k \in 1 .. wanted - Len(cache[n]) |-> Buffer(n, FALSE)]
                ELSE cache[n]]
    BY <1>7 DEF Prewarm
  <2> DEFINE wanted == IF count <= MaxPerSize THEN count ELSE MaxPerSize
             added(n) == [k \in 1 .. wanted - Len(cache[n]) |-> Buffer(n, FALSE)]
  <2>2. wanted \in Nat /\ wanted <= MaxPerSize
    OBVIOUS
  <2>3. cache' = [n \in Lengths |-> IF n \in sizes THEN cache[n] \o added(n) ELSE cache[n]]
    BY <2>1
  <2> HIDE DEF wanted
  <2>4. ASSUME NEW n \in Lengths
        PROVE  /\ cache[n] \o added(n) \in Seq(Buffers)
               /\ Len(cache[n] \o added(n)) <= MaxPerSize
               /\ \A k \in DOMAIN (cache[n] \o added(n)) :
                    (cache[n] \o added(n))[k] = Buffer(n, FALSE)
    <3> DEFINE extra == added(n)
    <3>1. /\ cache[n] \in Seq(Buffers) /\ Len(cache[n]) <= MaxPerSize
          /\ \A k \in DOMAIN cache[n] : cache[n][k] = Buffer(n, FALSE)
      BY DEF PoolInv, BuffersAreClean
    <3>2. Len(cache[n]) \in Nat /\ Buffer(n, FALSE) \in Buffers
      BY <3>1, LenProperties
    <3>3. PICK more \in Nat :
            /\ 1 .. more = 1 .. wanted - Len(cache[n])
            /\ more + Len(cache[n]) <= MaxPerSize
      <4>1. CASE wanted - Len(cache[n]) >= 0
        <5>1. wanted - Len(cache[n]) \in Nat
          BY <2>2, <3>2, <4>1
        <5> WITNESS wanted - Len(cache[n]) \in Nat
        <5> QED BY <2>2, <3>2, <4>1
      <4>2. CASE wanted - Len(cache[n]) < 0
        <5> WITNESS 0 \in Nat
        <5> QED BY <2>2, <3>1, <3>2, <4>2
      <4> QED BY <2>2, <3>2, <4>1, <4>2
    <3>4. extra = [k \in 1 .. more |-> Buffer(n, FALSE)]
      BY <3>3
    <3> HIDE DEF extra
    <3>5. extra \in Seq(Buffers)
      BY <3>2, <3>4, CleanRow
    <3>6. DOMAIN extra = 1 .. more /\ \A k \in DOMAIN extra : extra[k] = Buffer(n, FALSE)
      BY <3>4
    <3>7. Len(extra) = more
      BY <3>5, <3>6, LenProperties
    <3>8. /\ cache[n] \o extra \in Seq(Buffers)
          /\ Len(cache[n] \o extra) = Len(cache[n]) + Len(extra)
          /\ \A i \in DOMAIN (cache[n] \o extra) : (cache[n] \o extra)[i] = Buffer(n, FALSE)
      BY <3>1, <3>5, <3>6, StacksOfClean
    <3>9. Len(cache[n] \o extra) <= MaxPerSize
      BY <3>2, <3>3, <3>7, <3>8
    <3> QED BY <3>8, <3>9 DEF extra
  <2> HIDE DEF added
  <2>5. cache' \in [Lengths -> Seq(Buffers)]
    BY <2>3, <2>4 DEF PoolInv
  <2>6. \A m \in Lengths :
          /\ Len(cache'[m]) <= MaxPerSize
          /\ \A i \in DOMAIN cache'[m] : cache'[m][i] = Buffer(m, FALSE)
    BY <2>3, <2>4 DEF PoolInv, BuffersAreClean
  <2> QED BY <1>7, <2>5, <2>6 DEF Prewarm, PoolInv, BuffersAreClean
<1>8. CASE Clear
  <2>1. /\ cache' \in [Lengths -> Seq(Buffers)]
        /\ \A m \in Lengths : Len(cache'[m]) = 0 /\ DOMAIN cache'[m] = {}
    <3>1. \A m \in Lengths : cache'[m] = <<>>
      BY <1>8 DEF Clear
    <3>2. <<>> \in Seq(Buffers) /\ cache' = [m \in Lengths |-> <<>>]
      BY <1>8, EmptySeq DEF Clear
    <3>3. cache' \in [Lengths -> Seq(Buffers)]
      BY <3>2
    <3> QED BY <3>1, <3>3
  <2>2. UNCHANGED <<held, handedOut>>
    BY <1>8 DEF Clear
  <2>3. ASSUME NEW m \in Lengths
        PROVE  /\ Len(cache'[m]) <= MaxPerSize
               /\ \A i \in DOMAIN cache'[m] : cache'[m][i] = Buffer(m, FALSE)
    <3>1. Len(cache'[m]) = 0 /\ DOMAIN cache'[m] = {}
      BY <2>1
    <3>2. Len(cache'[m]) <= MaxPerSize
      BY <3>1
    <3>3. \A i \in DOMAIN cache'[m] : cache'[m][i] = Buffer(m, FALSE)
      BY <3>1
    <3> QED BY <3>2, <3>3
  <2> QED BY <2>1, <2>2, <2>3 DEF PoolInv, BuffersAreClean
<1>9. CASE UNCHANGED poolVars
  BY <1>9 DEF poolVars, PoolInv, BuffersAreClean
<1> QED
  BY <1>1, <1>2, <1>3, <1>4, <1>5, <1>6, <1>7, <1>8, <1>9 DEF PoolNext

\* Whatever holders do to their buffers, and for any sizes and limits: what is
\* handed out is clean and has the length asked for.
THEOREM PoolStaysClean == PoolSpec => []BuffersAreClean
<1>1. PoolInit => PoolInv
  <2> SUFFICES ASSUME PoolInit PROVE PoolInv
    OBVIOUS
  <2>1. cache \in [Lengths -> Seq(Buffers)] /\ held \in Seq(Buffers)
    BY DEF PoolInit
  <2>2. \A m \in Lengths : Len(cache[m]) = 0 /\ DOMAIN cache[m] = {}
    BY DEF PoolInit
  <2> QED BY <2>1, <2>2, NatLengths DEF PoolInit, PoolInv, BuffersAreClean
<1>2. PoolInv => BuffersAreClean
  BY DEF PoolInv
<1> QED
  BY <1>1, <1>2, PoolStep, PTL DEF PoolSpec

-----------------------------------------------------------------------------
(* The arithmetic of the dual-track evaluator.                              *)

LEMMA RoundSmallIsNearest ==
  ASSUME NEW x \in Nat, NEW d \in Nat, d > 0, NEW upper \in Int, x \div d < upper
  PROVE  RoundSmall(x, d, upper) \in Int /\ 2 * (d * RoundSmall(x, d, upper) - x) \in -d .. d
<1> DEFINE a == x \div d
           r == x % d
           h == d \div 2
<1>1. x = d * a + r /\ r \in 0 .. d - 1 /\ a \in Int
  BY Division
<1>2. RoundSmall(x, d, upper) = IF x - d * a >= d - h THEN a + 1 ELSE a
  BY DEF RoundSmall
<1>3. h \in Int /\ 2 * h <= d /\ d <= 2 * h + 1
  OBVIOUS
<1> HIDE DEF a, r, h
<1>4. d * (a + 1) = d * a + d /\ d * a \in Int
  BY <1>1
<1>5. CASE x - d * a >= d - h
  <2>1. 2 * (d * (a + 1) - x) = 2 * (d - r)
    BY <1>1, <1>4
  <2>2. d - r <= h
    BY <1>1, <1>3, <1>4, <1>5
  <2> QED BY <1>1, <1>2, <1>3, <1>5, <2>1, <2>2
<1>6. CASE ~ (x - d * a >= d - h)
  <2>1. 2 * (d * a - x) = - (2 * r)
    BY <1>1, <1>4
  <2>2. r < d - h
    BY <1>1, <1>3, <1>4, <1>6
  <2> QED BY <1>1, <1>2, <1>3, <1>6, <2>1, <2>2
<1> QED BY <1>5, <1>6

LEMMA QuotientBelow ==
  ASSUME NEW x \in Nat, NEW d \in Nat, d > 0, NEW b \in Nat, x < d * b
  PROVE  x \div d < b
<1> DEFINE a == x \div d
           r == x % d
<1>1. x = d * a + r /\ r \in 0 .. d - 1 /\ a \in Int
  BY Division
<1> HIDE DEF a, r
<1>2. a >= b => d * a >= d * b
  <2>1. d * a = d * b + d * (a - b)
    BY <1>1
  <2>2. a >= b => d * (a - b) >= 0
    BY <1>1
  <2> QED BY <1>1, <2>1, <2>2
<1>3. a < b
  BY <1>1, <1>2
<1> QED BY <1>3 DEF a

LEMMA RoundSignedIsNearest ==
  ASSUME NEW x \in Int, NEW d \in Nat, d > 0, NEW b \in Nat, x < d * b, -x < d * b,
         NEW upper \in Int, b <= upper
  PROVE  RoundSigned(x, d, upper) \in Int /\ 2 * (d * RoundSigned(x, d, upper) - x) \in -d .. d
<1>1. CASE x >= 0
  <2>1. x \in Nat /\ x \div d < b
    BY <1>1, QuotientBelow
  <2>2. x \div d < upper
    BY <2>1
  <2> QED BY <1>1, <2>1, <2>2, RoundSmallIsNearest DEF RoundSigned
<1>2. CASE x < 0
  <2>1. -x \in Nat /\ (-x) \div d < b
    BY <1>2, QuotientBelow
  <2>2. (-x) \div d < upper
    BY <2>1
  <2> DEFINE r == RoundSmall(-x, d, upper)
  <2>3. r \in Int /\ 2 * (d * r - (-x)) \in -d .. d
    BY <2>1, <2>2, RoundSmallIsNearest
  <2>4. RoundSigned(x, d, upper) = -r
    BY <1>2 DEF RoundSigned
  <2> HIDE DEF r
  <2>5. d * (-r) = -(d * r) /\ d * r \in Int
    BY <2>3
  <2> QED BY <2>3, <2>4, <2>5
<1> QED BY <1>1, <1>2

\* What is rounded is less than twice the plaintext modulus times Delta, so
\* that the search for the quotient never meets its upper end.
LEMMA NumeratorIsSmall ==
  ASSUME NEW n \in Nat, n > 0, NEW m \in Nat, NEW delta \in Nat, delta > 0,
         NEW rest \in 0 .. n - 1, m = n * delta + rest,
         NEW v \in 0 .. m - 1, NEW turns \in 0 .. delta - 1
  PROVE  /\ turns * rest \in Nat
         /\ v + turns * rest < delta * (2 * n)
         /\ -(v - turns * rest) < delta * (2 * n)
         /\ v - turns * rest < delta * (2 * n)
<1>1. turns * rest \in Nat
  OBVIOUS
<1>2. turns * rest <= (delta - 1) * rest
  <2>1. (delta - 1) * rest - turns * rest = (delta - 1 - turns) * rest
    OBVIOUS
  <2>2. (delta - 1 - turns) * rest >= 0
    OBVIOUS
  <2> QED BY <2>1, <2>2, <1>1
<1>3. (delta - 1) * rest = delta * rest - rest
  OBVIOUS
<1>4. delta * rest <= delta * n /\ delta * rest \in Nat /\ delta * n \in Nat
  <2>1. delta * n - delta * rest = delta * (n - rest)
    OBVIOUS
  <2>2. delta * (n - rest) >= 0
    OBVIOUS
  <2> QED BY <2>1, <2>2
<1>5. delta * (2 * n) = delta * n + delta * n /\ n * delta = delta * n
  OBVIOUS
<1> QED BY <1>1, <1>2, <1>3, <1>4, <1>5

\* The rescaling of a dual-track product divides the integer v + k * m, of
\* which it only knows the residue and the winding, by Delta to the nearest,
\* for every modulus, plaintext modulus, residue and winding, also negative
\* ones (rns_fhe.rs k_elim_rescale_dual).
THEOREM RescaleIsExact ==
  ASSUME NEW n \in Nat, n > 0, NEW m \in Nat, m >= n, NEW v \in 0 .. m - 1, NEW k \in Int
  PROVE  \E y \in Int :
           /\ Rescaled(v, k, n, m) = y % m
           /\ 2 * ((m \div n) * y - (v + k * m)) \in -(m \div n) .. (m \div n)
<1> DEFINE delta == m \div n
           rest == m % n
           a == AbsValue(k)
           turns == a % delta
           whole == a \div delta
<1>1. delta \in Nat /\ delta > 0 /\ rest \in 0 .. n - 1 /\ m = n * delta + rest
  <2>1. m = n * delta + rest /\ rest \in 0 .. n - 1 /\ delta \in Int
    BY Division
  <2> HIDE DEF delta, rest
  <2>2. ~ (delta <= 0)
    <3>1. delta <= 0 => n * delta <= 0
      BY <2>1
    <3>2. delta <= 0 => m <= rest
      BY <2>1, <3>1
    <3> QED BY <2>1, <3>2
  <2> QED BY <2>1, <2>2
<1>2. a \in Nat /\ (k >= 0 => k = a) /\ (k < 0 => k = -a)
  BY DEF AbsValue
<1>3. /\ Rescaled(v, k, n, m) =
           IF k >= 0
           THEN (turns * n + RoundSigned(v + turns * rest, delta, 2 * n + 4)) % m
           ELSE (RoundSigned(v - turns * rest, delta, 2 * n + 4) - turns * n) % m
  BY DEF Rescaled
<1>4. SUFFICES \E y \in Int :
                 /\ Rescaled(v, k, n, m) = y % m
                 /\ 2 * (delta * y - (v + k * m)) \in -delta .. delta
  OBVIOUS
<1> HIDE DEF delta, rest, a
<1>5. a = delta * whole + turns /\ turns \in 0 .. delta - 1 /\ whole \in Int
  BY <1>1, <1>2, Division
<1> HIDE DEF turns, whole
<1>6. /\ turns * rest \in Nat
      /\ v + turns * rest < delta * (2 * n)
      /\ -(v - turns * rest) < delta * (2 * n)
      /\ v - turns * rest < delta * (2 * n)
  BY <1>1, <1>5, NumeratorIsSmall
<1>7. 2 * n \in Nat /\ 2 * n <= 2 * n + 4 /\ 2 * n + 4 \in Int
  OBVIOUS
<1>8. CASE k >= 0
  <2> DEFINE x == v + turns * rest
             r == RoundSigned(x, delta, 2 * n + 4)
             y == turns * n + r + m * whole
  <2>1. x \in Int /\ x < delta * (2 * n) /\ -x < delta * (2 * n)
    <3>1. x >= 0 /\ x \in Int
      BY <1>6
    <3>2. delta * (2 * n) > 0 /\ delta * (2 * n) \in Int
      BY <1>1, <1>6
    <3> QED BY <1>6, <3>1, <3>2
  <2>2. r \in Int /\ 2 * (delta * r - x) \in -delta .. delta
    <3> HIDE DEF x
    <3> QED BY <1>1, <1>7, <2>1, RoundSignedIsNearest
  <2>3. Rescaled(v, k, n, m) = (turns * n + r) % m
    BY <1>3, <1>8
  <2> HIDE DEF r
  <2>4. turns * n + r \in Int /\ y \in Int
    BY <1>1, <1>5, <2>2
  <2>5. y % m = (turns * n + r) % m
    <3> DEFINE z == turns * n + r
    <3>1. z \in Int
      BY <2>4
    <3> HIDE DEF z
    <3>2. whole \in Int /\ m \in Nat /\ m > 0
      BY <1>5
    <3>3. (z + m * whole) % m = z % m
      BY <3>1, <3>2, MultiplesVanish
    <3> QED BY <3>3 DEF z
  <2>6. delta * y = delta * (turns * n) + delta * r + delta * (m * whole)
    BY <1>1, <1>5, <2>2
  <2>7. k * m = (delta * whole) * m + turns * m
    BY <1>1, <1>2, <1>5, <1>8
  <2>8. turns * m = turns * (n * delta) + turns * rest
    BY <1>1, <1>5
  <2>9. delta * (m * whole) = (delta * whole) * m /\ delta * (turns * n) = turns * (n * delta)
    BY <1>1, <1>5
  <2>10. delta * y - (v + k * m) = delta * r - x
    <3>1. /\ delta * (turns * n) \in Int /\ delta * r \in Int /\ delta * (m * whole) \in Int
          /\ turns * rest \in Int /\ v \in Int
      BY <1>1, <1>5, <1>6, <2>2
    <3> HIDE DEF y
    <3> QED BY <2>6, <2>7, <2>8, <2>9, <3>1
  <2>11. 2 * (delta * y - (v + k * m)) \in -delta .. delta
    BY <2>2, <2>10
  <2>12. Rescaled(v, k, n, m) = y % m
    BY <2>3, <2>5
  <2> HIDE DEF x, y
  <2> QED BY <2>4, <2>11, <2>12
<1>9. CASE k < 0
  <2> DEFINE x == v - turns * rest
             r == RoundSigned(x, delta, 2 * n + 4)
             y == r - turns * n + m * (-whole)
  <2>1. x \in Int /\ x < delta * (2 * n) /\ -x < delta * (2 * n)
    BY <1>6
  <2>2. r \in Int /\ 2 * (delta * r - x) \in -delta .. delta
    <3> HIDE DEF x
    <3> QED BY <1>1, <1>7, <2>1, RoundSignedIsNearest
  <2>3. Rescaled(v, k, n, m) = (r - turns * n) % m
    BY <1>3, <1>9
  <2> HIDE DEF r
  <2>4. r - turns * n \in Int /\ -whole \in Int /\ y \in Int
    BY <1>1, <1>5, <2>2
  <2>5. y % m = (r - turns * n) % m
    <3> DEFINE z == r - turns * n
    <3>1. z \in Int
      BY <2>4
    <3> HIDE DEF z
    <3>2. -whole \in Int /\ m \in Nat /\ m > 0
      BY <1>5
    <3>3. (z + m * (-whole)) % m = z % m
      BY <3>1, <3>2, MultiplesVanish
    <3> QED BY <3>3 DEF z
  <2>6. delta * y = delta * r - delta * (turns * n) - delta * (m * whole)
    BY <1>1, <1>5, <2>2
  <2>7. k * m = -((delta * whole) * m) - turns * m
    BY <1>1, <1>2, <1>5, <1>9
  <2>8. turns * m = turns * (n * delta) + turns * rest
    BY <1>1, <1>5
  <2>9. delta * (m * whole) = (delta * whole) * m /\ delta * (turns * n) = turns * (n * delta)
    BY <1>1, <1>5
  <2>10. delta * y - (v + k * m) = delta * r - x
    <3>1. /\ delta * (turns * n) \in Int /\ delta * r \in Int /\ delta * (m * whole) \in Int
          /\ turns * rest \in Int /\ v \in Int
      BY <1>1, <1>5, <1>6, <2>2
    <3> HIDE DEF y
    <3> QED BY <2>6, <2>7, <2>8, <2>9, <3>1
  <2>11. 2 * (delta * y - (v + k * m)) \in -delta .. delta
    BY <2>2, <2>10
  <2>12. Rescaled(v, k, n, m) = y % m
    BY <2>3, <2>5
  <2> HIDE DEF x, y
  <2> QED BY <2>4, <2>11, <2>12
<1> QED BY <1>8, <1>9

\* Dropping a prime d divides by it to within (d + 1) / (2 * d), for every
\* integer of either sign: not to the nearest, since the remainder
\* (d - 1) / 2 is rounded away from zero (rns_fhe.rs mod_switch_down_dual).
THEOREM DropIsClose ==
  ASSUME NEW d \in Nat, d > 0, NEW x \in Int
  PROVE  DropRound(x, d) \in Int /\ 2 * (d * DropRound(x, d) - x) \in -(d + 1) .. (d + 1)
<1> DEFINE up(y) == y \div d + (IF y % d >= d \div 2 THEN 1 ELSE 0)
<1>1. ASSUME NEW y \in Nat
      PROVE  up(y) \in Int /\ 2 * (d * up(y) - y) \in -(d + 1) .. (d + 1)
  <2> DEFINE a == y \div d
             r == y % d
             h == d \div 2
  <2>1. y = d * a + r /\ r \in 0 .. d - 1 /\ a \in Int
    BY Division
  <2>2. h \in Int /\ 2 * h <= d /\ d <= 2 * h + 1
    OBVIOUS
  <2>3. up(y) = a + (IF r >= h THEN 1 ELSE 0)
    OBVIOUS
  <2> HIDE DEF a, r, h, up
  <2>4. d * (a + 1) = d * a + d /\ d * a \in Int
    BY <2>1
  <2>5. CASE r >= h
    <3>1. up(y) = a + 1
      BY <2>1, <2>3, <2>5
    <3>2. d * up(y) - y = d - r
      BY <2>1, <2>4, <3>1
    <3> QED BY <2>1, <2>2, <2>5, <3>1, <3>2
  <2>6. CASE ~ (r >= h)
    <3>1. up(y) = a
      BY <2>1, <2>3, <2>6
    <3>2. d * up(y) - y = -r
      BY <2>1, <2>4, <3>1
    <3> QED BY <2>1, <2>2, <2>6, <3>1, <3>2
  <2> QED BY <2>5, <2>6
<1>2. DropRound(x, d) = IF x >= 0 THEN up(x) ELSE -up(-x)
  BY DEF DropRound
<1> HIDE DEF up
<1>3. CASE x >= 0
  BY <1>1, <1>2, <1>3
<1>4. CASE x < 0
  <2>1. -x \in Nat
    BY <1>4
  <2>2. up(-x) \in Int /\ 2 * (d * up(-x) - (-x)) \in -(d + 1) .. (d + 1)
    BY <1>1, <2>1
  <2>3. d * (-up(-x)) = -(d * up(-x)) /\ d * up(-x) \in Int
    BY <2>2
  <2> QED BY <1>2, <1>4, <2>2, <2>3
<1> QED BY <1>3, <1>4

\* The margin that checked decryption tests is never below -(n + 2), for
\* every modulus and plaintext modulus and every phase, however large its
\* error: it measures how far the phase is from the plaintext it was just
\* decoded to (rns_fhe.rs try_decrypt_dual, decrypt_dual_with_diagnostics).
THEOREM MarginIsBlind ==
  ASSUME NEW n \in Nat, n > 0, NEW m \in Nat, m >= n, NEW x \in 0 .. m - 1
  PROVE  Decoded(x, n, m).margin >= -(n + 2)
<1> DEFINE delta == m \div n
           rest == m % n
           half == m \div 2
           size == IF x > half THEN m - x ELSE x
           scaled == (size * n + half) \div m
           low == (size * n + half) % m
           decoded == Decoded(x, n, m)
<1>1. delta \in Int /\ rest \in 0 .. n - 1 /\ m = n * delta + rest
  BY Division
<1>2. half \in Int /\ 2 * half <= m /\ m <= 2 * half + 1
  OBVIOUS
<1>3. size \in 0 .. half
  BY <1>2
<1>4. size * n \in Nat /\ size * n + half \in Nat
  <2> HIDE DEF size, half
  <2> QED BY <1>2, <1>3
<1>5. size * n + half = m * scaled + low /\ low \in 0 .. m - 1 /\ scaled \in Int
  <2> DEFINE z == size * n + half
  <2>1. z \in Int
    BY <1>4
  <2> HIDE DEF z
  <2>2. z = m * (z \div m) + (z % m) /\ z % m \in 0 .. m - 1 /\ z \div m \in Int
    BY <2>1, Division
  <2> QED BY <2>2 DEF z
<1>6. delta \div 2 \in Int /\ 2 * (delta \div 2) >= delta - 1
  <2> HIDE DEF delta
  <2> QED BY <1>1
<1>7. scaled % n \in 0 .. n - 1
  <2> HIDE DEF scaled
  <2> QED BY <1>5, Division
<1> DEFINE e == size - (scaled % n) * delta
<1>8. decoded.margin = delta \div 2 - AbsValue(e)
  <2> DEFINE steps == scaled % n
  <2>1. CASE x > half
    <3> DEFINE value == IF scaled = 0 THEN 0 ELSE n - steps
               back == IF value # 0 THEN n - value ELSE value
    <3>1. size = m - x
      BY <2>1
    <3>2. decoded.margin = delta \div 2 - AbsValue(x - (m - back * delta))
      BY <2>1 DEF Decoded
    <3>3. scaled = 0 => steps = 0
      BY SmallRemainder
    <3> HIDE DEF decoded, scaled, steps, delta, half, size
    <3>4. back = steps
      BY <1>7, <3>3 DEF steps
    <3>5. back * delta \in Int
      BY <1>1, <1>7, <3>4 DEF steps
    <3>6. x - (m - back * delta) = -e
      BY <3>1, <3>4, <3>5 DEF steps
    <3>7. e \in Int
      BY <1>3, <1>2, <3>4, <3>5 DEF steps
    <3> HIDE DEF e
    <3>8. AbsValue(-e) = AbsValue(e)
      BY <3>7 DEF AbsValue
    <3> QED BY <3>2, <3>6, <3>8
  <2>2. CASE ~ (x > half)
    BY <2>2 DEF Decoded
  <2> QED BY <2>1, <2>2
<1> HIDE DEF half, size, scaled, low, delta, rest, decoded
<1>9. 0 <= scaled /\ 2 * scaled <= n + 1
  <2>1. ~ (scaled <= -1)
    <3>1. scaled <= -1 => m * scaled <= -m
      BY <1>5
    <3> QED BY <1>2, <1>4, <1>5, <3>1
  <2>2. size * n <= half * n
    <3>1. half * n - size * n = (half - size) * n
      BY <1>2, <1>3
    <3>2. (half - size) * n >= 0
      BY <1>2, <1>3
    <3> QED BY <1>2, <1>3, <1>4, <3>1, <3>2
  <2>3. 2 * (half * n) + 2 * half <= m * n + m
    <3>1. m * n - 2 * (half * n) = (m - 2 * half) * n
      BY <1>2
    <3>2. (m - 2 * half) * n >= 0
      BY <1>2
    <3>3. half * n \in Int /\ m * n \in Int
      BY <1>2
    <3> QED BY <1>2, <3>1, <3>2, <3>3
  <2>4. 2 * (m * scaled) <= m * n + m
    <3>1. half * n \in Int /\ m * n \in Int /\ m * scaled \in Int
      BY <1>2, <1>5
    <3> QED BY <1>2, <1>4, <1>5, <2>2, <2>3, <3>1
  <2>5. ~ (2 * scaled >= n + 2)
    <3>1. m * (2 * scaled - n - 1) = 2 * (m * scaled) - (m * n + m)
      BY <1>5
    <3>2. 2 * scaled - n - 1 >= 1 => m * (2 * scaled - n - 1) >= m
      BY <1>5
    <3>3. m * (2 * scaled - n - 1) <= 0
      <4>1. 2 * (m * scaled) \in Int /\ m * n + m \in Int
        BY <1>5
      <4> QED BY <2>4, <3>1, <4>1
    <3> QED BY <1>5, <3>2, <3>3
  <2> QED BY <1>5, <2>1, <2>5
<1>10. CASE n = 1
  <2>1. scaled % n = 0
    BY <1>7, <1>10
  <2>2. e = size
    BY <1>1, <1>2, <1>3, <2>1
  <2>3. delta = m
    BY <1>1, <1>10
  <2>4. AbsValue(e) = size
    BY <1>2, <1>3, <2>2 DEF AbsValue
  <2> HIDE DEF e
  <2>5. 2 * size <= delta
    BY <1>2, <1>3, <2>3
  <2> QED BY <1>1, <1>2, <1>3, <1>6, <1>8, <1>10, <2>4, <2>5 DEF decoded
<1>11. CASE n > 1
  <2>1. scaled % n = scaled
    <3>1. scaled \in 0 .. n - 1
      BY <1>5, <1>9, <1>11
    <3> QED BY <3>1, SmallRemainder
  <2>2. e = size - scaled * delta /\ scaled * delta \in Int /\ e \in Int
    BY <1>1, <1>2, <1>3, <1>5, <2>1
  <2> HIDE DEF e
  <2>3. n * e = (size * n - m * scaled) + scaled * rest
    <3>1. n * e = n * size - n * (scaled * delta)
      BY <1>2, <1>3, <2>2
    <3>2. m * scaled = n * (scaled * delta) + scaled * rest
      BY <1>1, <1>5
    <3>3. n * (scaled * delta) \in Int /\ scaled * rest \in Int /\ n * size = size * n
      BY <1>1, <1>2, <1>3, <1>5, <2>2
    <3> QED BY <1>4, <3>1, <3>2, <3>3
  <2>4. size * n - m * scaled >= -half /\ size * n - m * scaled <= half
    <3>1. m * scaled \in Int
      BY <1>5
    <3> QED BY <1>2, <1>4, <1>5, <3>1
  <2>5. scaled * rest >= 0 /\ 2 * (scaled * rest) <= (n + 1) * (n - 1)
    <3>1. scaled * rest >= 0
      BY <1>1, <1>5, <1>9
    <3>2. (2 * scaled) * rest <= (n + 1) * rest
      <4>1. (n + 1) * rest - (2 * scaled) * rest = (n + 1 - 2 * scaled) * rest
        BY <1>1, <1>5
      <4>2. (n + 1 - 2 * scaled) * rest >= 0
        BY <1>1, <1>5, <1>9
      <4>3. (n + 1) * rest \in Int /\ (2 * scaled) * rest \in Int
        BY <1>1, <1>5
      <4> QED BY <4>1, <4>2, <4>3
    <3>3. (n + 1) * rest <= (n + 1) * (n - 1)
      <4>1. (n + 1) * (n - 1) - (n + 1) * rest = (n + 1) * (n - 1 - rest)
        BY <1>1
      <4>2. (n + 1) * (n - 1 - rest) >= 0
        BY <1>1
      <4>3. (n + 1) * rest \in Int /\ (n + 1) * (n - 1) \in Int
        BY <1>1
      <4> QED BY <4>1, <4>2, <4>3
    <3>4. 2 * (scaled * rest) = (2 * scaled) * rest
      BY <1>1, <1>5
    <3>5. (2 * scaled) * rest \in Int /\ (n + 1) * rest \in Int /\ (n + 1) * (n - 1) \in Int
      BY <1>1, <1>5
    <3> QED BY <3>1, <3>2, <3>3, <3>4, <3>5
  \* Twice the distance is less than Delta + n + 3.
  <2> DEFINE far == delta + n + 3
  <2>6. n * far = n * delta + n * n + 3 * n /\ (n + 1) * (n - 1) = n * n - 1
    BY <1>1
  <2>7. n * (2 * e) = 2 * (n * e) /\ n * (2 * e) \in Int
    BY <2>2
  <2>8. /\ n * delta \in Int /\ n * n \in Int /\ scaled * rest \in Int
        /\ size * n - m * scaled \in Int /\ n * e \in Int
    BY <1>1, <1>4, <1>5, <2>2
  <2>9. n * (2 * e) < n * far /\ n * (2 * e) > -(n * far)
    <3>1. 2 * half <= n * delta + n - 1
      BY <1>1, <1>2, <2>8
    <3>2. 2 * (n * e) <= n * delta + n - 1 + (n * n - 1)
      BY <1>2, <2>3, <2>4, <2>5, <2>6, <2>8, <3>1
    <3>3. 2 * (n * e) >= -(n * delta + n - 1)
      BY <1>2, <2>3, <2>4, <2>5, <2>8, <3>1
    <3>4. n * n >= 0
      OBVIOUS
    <3> QED BY <1>1, <2>6, <2>7, <2>8, <3>2, <3>3, <3>4
  <2> HIDE DEF far
  <2>10. far \in Int /\ far = delta + n + 3
    BY <1>1 DEF far
  <2>11. 2 * e < far
    <3>1. 2 * e - far >= 0 => n * (2 * e - far) >= 0
      BY <2>2, <2>10
    <3>2. n * (2 * e - far) = n * (2 * e) - n * far /\ n * far \in Int
      BY <2>2, <2>10
    <3> QED BY <2>2, <2>7, <2>9, <2>10, <3>1, <3>2
  <2>12. 2 * e > -far
    <3>1. 2 * e + far <= 0 => n * (2 * e + far) <= 0
      BY <2>2, <2>10
    <3>2. n * (2 * e + far) = n * (2 * e) + n * far /\ n * far \in Int
      BY <2>2, <2>10
    <3> QED BY <2>2, <2>7, <2>9, <2>10, <3>1, <3>2
  <2>13. AbsValue(e) \in Int /\ 2 * AbsValue(e) < delta + n + 3
    BY <2>2, <2>10, <2>11, <2>12 DEF AbsValue
  <2> QED BY <1>1, <1>6, <1>8, <1>11, <2>13 DEF decoded
<1> QED BY <1>10, <1>11

-----------------------------------------------------------------------------
(* The automatic bootstrap.                                                *)

(* Powers of two. *)

LEMMA Pow2Nat ==
  ASSUME NEW i \in Nat, i <= MaxBits
  PROVE  Pow2[i] \in Nat /\ Pow2[i] >= 1
  BY Pow2Assumption

LEMMA Pow2Sum ==
  ASSUME NEW i \in Nat, NEW j \in Nat, i + j <= MaxBits
  PROVE  Pow2[i + j] = Pow2[i] * Pow2[j]
<1>1. i \in 0 .. MaxBits /\ j \in 0 .. MaxBits
  BY Pow2Assumption
<1> QED
  BY <1>1, Pow2Additive, Zenon

LEMMA Pow2Double ==
  ASSUME NEW i \in Nat, i + 1 <= MaxBits
  PROVE  Pow2[i + 1] = 2 * Pow2[i]
<1>1. 1 \in Nat /\ i <= MaxBits /\ Pow2[1] = 2
  BY NoiseLedgerAssumption, Pow2Assumption
<1>2. Pow2[i + 1] = Pow2[i] * Pow2[1]
  BY <1>1, Pow2Sum, Zenon
<1>3. Pow2[i] \in Nat
  BY <1>1, Pow2Nat
<1>4. \A a \in Nat : a * 2 = 2 * a
  OBVIOUS
<1> QED
  BY <1>1, <1>2, <1>3, <1>4, Zenon

LEMMA Pow2Mono ==
  ASSUME NEW i \in Nat, NEW j \in Nat, i <= j, j <= MaxBits
  PROVE  Pow2[i] <= Pow2[j]
<1>1. j - i \in Nat /\ j - i <= MaxBits /\ i <= MaxBits /\ i + (j - i) = j
  BY Pow2Assumption
<1>2. Pow2[i + (j - i)] = Pow2[i] * Pow2[j - i]
  BY <1>1, Pow2Sum
<1>3. Pow2[i] \in Nat /\ Pow2[j - i] \in Nat /\ Pow2[j - i] >= 1
  BY <1>1, Pow2Nat
<1>4. \A a, b \in Nat : b >= 1 => a <= a * b
  OBVIOUS
<1>5. Pow2[i] <= Pow2[i] * Pow2[j - i]
  BY <1>3, <1>4
<1> QED
  BY <1>1, <1>2, <1>5

-----------------------------------------------------------------------------
(* The parameters. *)

Floor == Start(FreshBits)

LEMMA Parameters ==
  /\ N \in Nat /\ N >= 1
  /\ FreshBits \in Nat /\ RefreshBits \in Nat /\ GrowthBits \in Nat
  /\ FreshBits <= RefreshBits
  /\ Smaller(FreshBits, RefreshBits) = FreshBits
  /\ Start(FreshBits) \in Nat /\ Start(RefreshBits) \in Nat
  /\ Start(FreshBits) <= Start(RefreshBits)
  /\ Capacity \in Nat /\ Capacity = DeltaBits - 2 /\ Capacity <= MaxBits
  /\ BudgetAbove(FreshBits) = Capacity - Start(FreshBits)
  /\ BudgetAbove(RefreshBits) = Capacity - Start(RefreshBits)
<1>1. RingBits <= MaxBits
  BY NoiseLedgerAssumption, Pow2Assumption DEF Start, Larger, FreshBits, GrowthBits
<1>2. N \in Nat /\ N >= 1
  BY <1>1, Pow2Nat, NoiseLedgerAssumption DEF N
<1>3. /\ FreshBits \in Nat /\ RefreshBits \in Nat /\ GrowthBits \in Nat
      /\ FreshBits <= RefreshBits
  BY NoiseLedgerAssumption DEF FreshBits, RefreshBits, GrowthBits
<1>4. /\ Start(FreshBits) \in Nat /\ Start(RefreshBits) \in Nat
      /\ Start(FreshBits) <= Start(RefreshBits)
      /\ Start(FreshBits) >= 1
      /\ Smaller(FreshBits, RefreshBits) = FreshBits
  BY <1>3, NoiseLedgerAssumption DEF Start, Larger, Smaller
<1>5. Capacity \in Nat /\ Capacity = DeltaBits - 2 /\ Capacity <= MaxBits
  BY <1>4, NoiseLedgerAssumption, Pow2Assumption DEF Capacity, Larger
<1>6. /\ BudgetAbove(FreshBits) = Capacity - Start(FreshBits)
      /\ BudgetAbove(RefreshBits) = Capacity - Start(RefreshBits)
  BY <1>4, <1>5, NoiseLedgerAssumption DEF BudgetAbove, Larger
<1> QED
  BY <1>2, <1>3, <1>4, <1>5, <1>6

\* Two levels below one power of two add up to less than the next.
LEMMA SumFits ==
  ASSUME NEW a \in Nat, NEW b \in Nat, NEW i \in Nat, NEW j \in Nat,
         i + 1 <= MaxBits, j + 1 <= MaxBits, a <= Pow2[i], b <= Pow2[j]
  PROVE  a + b <= Pow2[Larger(i, j) + 1]
<1> DEFINE m == Larger(i, j)
<1>1. m \in Nat /\ m + 1 <= MaxBits /\ i <= m /\ j <= m /\ m <= MaxBits
  BY Pow2Assumption DEF Larger
<1>2. Pow2[i] <= Pow2[m] /\ Pow2[j] <= Pow2[m]
  BY <1>1, Pow2Mono
<1>3. Pow2[m + 1] = 2 * Pow2[m]
  BY <1>1, Pow2Double
<1>4. Pow2[i] \in Nat /\ Pow2[j] \in Nat /\ Pow2[m] \in Nat
  BY <1>1, Pow2Nat, Pow2Assumption
<1> QED
  BY <1>2, <1>3, <1>4

LEMMA ProductMono ==
  ASSUME NEW a \in Nat, NEW b \in Nat, NEW c \in Nat, NEW d \in Nat,
         a <= c, b <= d
  PROVE  a * b <= c * d /\ a * b \in Nat
<1>1. a * b <= c * b
  OBVIOUS
<1>2. c * b <= c * d
  OBVIOUS
<1> QED
  BY <1>1, <1>2

LEMMA Pow2Two == 2 <= MaxBits => Pow2[2] = 4
<1>1. 2 <= MaxBits => Pow2[1 + 1] = 2 * Pow2[1]
  BY Pow2Double
<1> QED
  BY <1>1, NoiseLedgerAssumption

LEMMA FreshLevel ==
  /\ FreshBits + 1 <= MaxBits /\ PlaintextBits + 1 <= MaxBits
  /\ Pow2[RingBits] = N /\ Pow2[ErrorBits] \in Nat
  /\ Pow2[FreshBits] = (4 * N) * Pow2[ErrorBits]
<1>0. /\ FreshBits = (RingBits + ErrorBits) + 2 /\ FreshBits + 1 <= MaxBits
      /\ PlaintextBits + 1 <= MaxBits
      /\ RingBits \in Nat /\ ErrorBits \in Nat /\ MaxBits \in Nat
  BY NoiseLedgerAssumption, Pow2Assumption, Parameters DEF FreshBits, Start, Larger
<1>1. /\ FreshBits = (RingBits + ErrorBits) + 2 /\ FreshBits + 1 <= MaxBits
      /\ (RingBits + ErrorBits) + 2 <= MaxBits /\ RingBits + ErrorBits <= MaxBits
      /\ ErrorBits <= MaxBits /\ 2 \in Nat
      /\ PlaintextBits + 1 <= MaxBits
      /\ RingBits \in Nat /\ ErrorBits \in Nat /\ RingBits + ErrorBits \in Nat
      /\ 2 <= MaxBits
  BY <1>0
<1>2. Pow2[(RingBits + ErrorBits) + 2] = Pow2[RingBits + ErrorBits] * Pow2[2]
  BY <1>1, Pow2Sum, Zenon
<1>3. Pow2[RingBits + ErrorBits] = Pow2[RingBits] * Pow2[ErrorBits]
  BY <1>1, Pow2Sum, Zenon
<1>4. Pow2[2] = 4
  BY <1>1, Pow2Two
<1>5. Pow2[ErrorBits] \in Nat
  BY <1>1, Pow2Nat
<1>6. N \in Nat
  BY Parameters
<1>7. \A a, b \in Nat : (a * b) * 4 = (4 * a) * b
  OBVIOUS
<1>8. (N * Pow2[ErrorBits]) * 4 = (4 * N) * Pow2[ErrorBits]
  BY <1>5, <1>6, <1>7
<1>9. Pow2[FreshBits] = (4 * N) * Pow2[ErrorBits]
  BY <1>1, <1>2, <1>3, <1>4, <1>8, Zenon DEF N
<1> QED
  BY <1>1, <1>5, <1>9, Zenon DEF N

LEMMA PlainFits == Pow2[PlaintextBits] \in Nat /\ T <= Pow2[PlaintextBits]
<1>1. PlaintextBits \in Nat /\ PlaintextBits <= MaxBits
  BY FreshLevel, NoiseLedgerAssumption, Pow2Assumption
<1> QED
  BY <1>1, Pow2Nat, NoiseLedgerAssumption

\* The noise of an encryption is within the level the ledger starts from.
LEMMA FreshCovered == FreshNoise \in Nat /\ FreshNoise + T <= Pow2[Start(FreshBits)]
<1>1. N \in Nat /\ N >= 1 /\ FreshBits \in Nat
  BY Parameters
<1>2. Eta \in Nat /\ Eta <= Pow2[ErrorBits] /\ T \in Nat /\ PlaintextBits \in Nat
  BY NoiseLedgerAssumption
<1>3. 2 * N + 1 \in Nat /\ 4 * N \in Nat /\ 2 * N + 1 <= 4 * N
  BY <1>1
<1>4. (2 * N + 1) * Eta \in Nat /\ (2 * N + 1) * Eta <= (4 * N) * Pow2[ErrorBits]
  BY <1>2, <1>3, FreshLevel, ProductMono
<1>5. FreshNoise \in Nat /\ FreshNoise <= Pow2[FreshBits]
  BY <1>4, FreshLevel DEF FreshNoise
<1>6. FreshNoise + T <= Pow2[Larger(FreshBits, PlaintextBits) + 1]
  BY <1>1, <1>2, <1>5, FreshLevel, PlainFits, SumFits
<1> QED
  BY <1>5, <1>6 DEF Start

LEMMA RefreshLevel ==
  /\ RefreshBits + 1 <= MaxBits
  /\ Pow2[RefreshBits] = (4 * (N * N)) * (Pow2[PlaintextBits] * Pow2[ErrorBits])
<1>0. /\ RefreshBits = PlaintextBits + 2 * RingBits + ErrorBits + 2
      /\ RefreshBits + 1 <= MaxBits /\ MaxBits \in Nat
      /\ RingBits \in Nat /\ ErrorBits \in Nat /\ PlaintextBits \in Nat
  BY NoiseLedgerAssumption, Pow2Assumption, Parameters DEF RefreshBits, Start, Larger
<1>1. /\ RefreshBits = (2 + (RingBits + RingBits)) + (PlaintextBits + ErrorBits)
      /\ RefreshBits + 1 <= MaxBits /\ 2 <= MaxBits
      /\ RingBits \in Nat /\ ErrorBits \in Nat /\ PlaintextBits \in Nat
      /\ 2 \in Nat /\ RingBits + RingBits \in Nat
      /\ 2 + (RingBits + RingBits) \in Nat /\ PlaintextBits + ErrorBits \in Nat
      /\ RingBits + RingBits <= MaxBits /\ PlaintextBits + ErrorBits <= MaxBits
      /\ 2 + (RingBits + RingBits) <= MaxBits
      /\ (2 + (RingBits + RingBits)) + (PlaintextBits + ErrorBits) <= MaxBits
  BY <1>0
<1>2. /\ Pow2[RingBits + RingBits] = N * N
      /\ Pow2[PlaintextBits + ErrorBits] = Pow2[PlaintextBits] * Pow2[ErrorBits]
  BY <1>1, Pow2Sum, Zenon DEF N
<1>3. Pow2[2 + (RingBits + RingBits)] = Pow2[2] * Pow2[RingBits + RingBits]
  BY <1>1, Pow2Sum, Zenon
<1>4. Pow2[(2 + (RingBits + RingBits)) + (PlaintextBits + ErrorBits)]
        = Pow2[2 + (RingBits + RingBits)] * Pow2[PlaintextBits + ErrorBits]
  BY <1>1, Pow2Sum, Zenon
<1>5. Pow2[2] = 4
  BY <1>1, Pow2Two
<1> QED
  BY <1>1, <1>2, <1>3, <1>4, <1>5, Zenon

\* The noise of a refresh is within the level the ledger restarts from.
LEMMA RefreshCovered ==
  RefreshNoise \in Nat /\ RefreshNoise + T <= Pow2[Start(RefreshBits)]
<1>1. N \in Nat /\ RefreshBits \in Nat
  BY Parameters
<1>2. /\ Eta \in Nat /\ Eta <= Pow2[ErrorBits] /\ Pow2[ErrorBits] \in Nat
      /\ T \in Nat /\ T <= Pow2[PlaintextBits] /\ Pow2[PlaintextBits] \in Nat
      /\ PlaintextBits \in Nat
  BY NoiseLedgerAssumption, FreshLevel, PlainFits
<1>3. T * Eta \in Nat /\ T * Eta <= Pow2[PlaintextBits] * Pow2[ErrorBits]
  BY <1>2, ProductMono
<1>4. Pow2[PlaintextBits] * Pow2[ErrorBits] \in Nat
  BY <1>2, ProductMono
<1>5. N * N \in Nat
  BY <1>1, ProductMono
<1>6. 4 * (N * N) \in Nat /\ 4 * (N * N) <= 4 * (N * N)
  BY <1>5
<1>7. /\ (4 * (N * N)) * (T * Eta) \in Nat
      /\ (4 * (N * N)) * (T * Eta)
           <= (4 * (N * N)) * (Pow2[PlaintextBits] * Pow2[ErrorBits])
  BY <1>3, <1>4, <1>6, ProductMono
<1>8. \A n, t, e \in Nat : 4 * n * n * t * e = (4 * (n * n)) * (t * e)
  OBVIOUS
<1>9. RefreshNoise = (4 * (N * N)) * (T * Eta)
  BY <1>1, <1>2, <1>8 DEF RefreshNoise
<1>10. RefreshNoise \in Nat /\ RefreshNoise <= Pow2[RefreshBits]
  BY <1>7, <1>9, RefreshLevel
<1>11. RefreshNoise + T <= Pow2[Larger(RefreshBits, PlaintextBits) + 1]
  BY <1>1, <1>2, <1>10, FreshLevel, RefreshLevel, SumFits
<1> QED
  BY <1>10, <1>11 DEF Start

-----------------------------------------------------------------------------
(* One operation costs no more than it is charged. *)

LEMMA TensorArithmetic ==
  ASSUME NEW n \in Nat, NEW t \in Nat, NEW k \in Nat, NEW sum \in Nat, n >= 1,
         k = n * n * t
  PROVE  2 * n * t * sum * (1 + n) \in Nat /\ 2 * n * t * sum * (1 + n) <= 4 * (k * sum)
<1>1. n * t \in Nat
  BY ProductMono
<1>2. (n * t) * sum \in Nat
  BY <1>1, ProductMono
<1> DEFINE m == (n * t) * sum
<1>3. m * (1 + n) <= m * (2 * n) /\ m * (1 + n) \in Nat
  <2>1. 1 + n \in Nat /\ 2 * n \in Nat /\ 1 + n <= 2 * n /\ m \in Nat /\ m <= m
    BY <1>2
  <2> HIDE DEF m
  <2> QED  BY <2>1, ProductMono
<1>4. 2 * n * t * sum * (1 + n) = 2 * (m * (1 + n))
  OBVIOUS
<1>5. m * (2 * n) = 2 * (k * sum)
  OBVIOUS
<1>6. k * sum \in Nat
  BY ProductMono
<1> HIDE DEF m
<1> QED
  BY <1>3, <1>4, <1>5, <1>6

LEMMA MulArithmetic ==
  ASSUME NEW n \in Nat, NEW t \in Nat, NEW k \in Nat, NEW v \in Nat, NEW w \in Nat,
         NEW p \in Nat, NEW g \in Nat, NEW tensor \in Nat, NEW relin \in Nat,
         n >= 1, t >= 1, k >= 1, k = n * n * t,
         v + t <= p, w + t <= p,
         tensor <= 4 * (k * t), relin <= p * g, 8 * k <= g
  PROVE  2 * n * t * (v + w) * (1 + n) + tensor + relin + t <= 2 * (p * g)
<1>1. /\ 2 * n * t * (v + w) * (1 + n) \in Nat
      /\ 2 * n * t * (v + w) * (1 + n) <= 4 * (k * (v + w))
  BY TensorArithmetic
<1>2. k * (v + w + 2 * t) <= k * (2 * p)
  <2>1. v + w + 2 * t \in Nat /\ 2 * p \in Nat /\ v + w + 2 * t <= 2 * p /\ k <= k
    OBVIOUS
  <2> QED  BY <2>1, ProductMono
<1>3. k * (v + w + 2 * t) = k * (v + w) + 2 * (k * t) /\ k * (2 * p) = 2 * (k * p)
  OBVIOUS
<1>4. t <= k * t /\ k * t \in Nat
  <2>1. 1 * t <= k * t /\ k * t \in Nat
    BY ProductMono
  <2> QED  BY <2>1
<1>5. (8 * k) * p <= g * p
  <2>1. 8 * k \in Nat /\ p <= p
    OBVIOUS
  <2> QED  BY <2>1, ProductMono
<1>6. (8 * k) * p = 8 * (k * p) /\ g * p = p * g
  OBVIOUS
<1>7. k * p \in Nat /\ p * g \in Nat /\ k * (v + w) \in Nat
  BY ProductMono
<1>8. \A a, b, c, d, e, x \in Nat :
        x <= 4 * a /\ a + 2 * b <= 2 * c /\ t <= b /\ 8 * c <= d
        /\ tensor <= 4 * b /\ relin <= d => x + tensor + relin + t <= 2 * d
  OBVIOUS
<1> QED
  BY <1>1, <1>2, <1>3, <1>4, <1>5, <1>6, <1>7, <1>8

LEMMA GrowthLevel ==
  /\ GrowthBits <= MaxBits /\ Pow2[GrowthBits] \in Nat
  /\ N * N * T \in Nat /\ N * N * T >= 1
  /\ 8 * (N * N * T) <= Pow2[GrowthBits]
<1>1. /\ GrowthBits = (3 + (RingBits + RingBits)) + PlaintextBits
      /\ GrowthBits <= MaxBits
      /\ RingBits \in Nat /\ PlaintextBits \in Nat /\ MaxBits \in Nat
  BY NoiseLedgerAssumption, Pow2Assumption, Parameters DEF GrowthBits
<1>2. /\ 3 \in Nat /\ RingBits + RingBits \in Nat /\ 3 + (RingBits + RingBits) \in Nat
      /\ RingBits + RingBits <= MaxBits /\ 3 + (RingBits + RingBits) <= MaxBits
      /\ (3 + (RingBits + RingBits)) + PlaintextBits <= MaxBits
      /\ 2 <= MaxBits /\ 2 + 1 <= MaxBits /\ 2 \in Nat /\ 2 + 1 = 3
  BY <1>1
<1>3. Pow2[RingBits + RingBits] = N * N
  BY <1>1, <1>2, Pow2Sum, Zenon DEF N
<1>4. Pow2[3 + (RingBits + RingBits)] = Pow2[3] * Pow2[RingBits + RingBits]
  BY <1>2, Pow2Sum, Zenon
<1>5. Pow2[(3 + (RingBits + RingBits)) + PlaintextBits]
        = Pow2[3 + (RingBits + RingBits)] * Pow2[PlaintextBits]
  BY <1>1, <1>2, Pow2Sum, Zenon
<1>6. Pow2[3] = 8
  <2>1. Pow2[2 + 1] = 2 * Pow2[2]
    BY <1>2, Pow2Double
  <2> QED  BY <2>1, <1>2, Pow2Two
<1>7. Pow2[GrowthBits] = (8 * (N * N)) * Pow2[PlaintextBits]
  BY <1>1, <1>3, <1>4, <1>5, <1>6, Zenon
<1>8. N \in Nat /\ N >= 1 /\ T \in Nat /\ T >= 1
  BY Parameters, NoiseLedgerAssumption
<1>9. N * N \in Nat /\ N * N >= 1
  <2>1. 1 * 1 <= N * N /\ N * N \in Nat
    BY <1>8, ProductMono
  <2> QED  BY <2>1
<1>10. (N * N) * T \in Nat /\ (N * N) * T >= 1
  <2>1. 1 * 1 <= (N * N) * T /\ (N * N) * T \in Nat
    BY <1>8, <1>9, ProductMono
  <2> QED  BY <2>1
<1>11. 8 * (N * N) \in Nat /\ 8 * (N * N) <= 8 * (N * N)
  BY <1>9
<1>12. (8 * (N * N)) * T <= (8 * (N * N)) * Pow2[PlaintextBits]
  BY <1>8, <1>11, PlainFits, ProductMono
<1>13. \A a, b \in Nat : (8 * a) * b = 8 * (a * b)
  OBVIOUS
<1>14. (8 * (N * N)) * T = 8 * ((N * N) * T)
  BY <1>8, <1>9, <1>13
<1>15. 8 * (N * N * T) <= Pow2[GrowthBits]
  BY <1>7, <1>12, <1>14
<1>16. Pow2[GrowthBits] \in Nat
  BY <1>1, Parameters, Pow2Nat
<1> QED
  BY <1>1, <1>10, <1>15, <1>16

\* A product of two ciphertexts within one level is within the level the
\* charge takes its ledger to.
LEMMA MulCovered ==
  ASSUME NEW v \in Nat, NEW w \in Nat, NEW s \in Nat, s >= Floor, s + MulCost <= Capacity,
         v + T <= Pow2[s], w + T <= Pow2[s]
  PROVE  MulNoise(v, w) \in Nat /\ MulNoise(v, w) + T <= Pow2[s + MulCost]
<1>0. /\ MulCost = GrowthBits + 1 /\ GrowthBits \in Nat /\ Floor \in Nat
      /\ Capacity \in Nat /\ Capacity <= MaxBits /\ MaxBits \in Nat
  BY Parameters, Pow2Assumption DEF MulCost, Floor
<1>1. /\ MulCost \in Nat /\ MulCost = GrowthBits + 1 /\ GrowthBits \in Nat
      /\ s + GrowthBits \in Nat /\ (s + GrowthBits) + 1 <= MaxBits
      /\ s + GrowthBits <= MaxBits /\ s + MulCost = (s + GrowthBits) + 1
      /\ s <= MaxBits /\ Floor \in Nat /\ Floor + GrowthBits \in Nat
      /\ Floor + GrowthBits <= s + GrowthBits
  BY <1>0
<1>2. N \in Nat /\ N >= 1 /\ T \in Nat /\ T >= 1 /\ TensorDeposit \in Nat /\ RelinNoise \in Nat
  BY Parameters, NoiseLedgerAssumption
<1>3. Pow2[s] \in Nat /\ Pow2[GrowthBits] \in Nat
  BY <1>1, GrowthLevel, Pow2Nat
<1>4. Pow2[s + GrowthBits] = Pow2[s] * Pow2[GrowthBits]
  BY <1>1, Pow2Sum, Zenon
<1>5. RelinNoise <= Pow2[s] * Pow2[GrowthBits]
  <2>1. RelinNoise <= Pow2[Floor + GrowthBits]
    BY DepositAssumption, Parameters, Zenon DEF Floor
  <2>2. Pow2[Floor + GrowthBits] <= Pow2[s + GrowthBits]
    BY <1>1, Pow2Mono
  <2>3. Pow2[Floor + GrowthBits] \in Nat /\ Pow2[s + GrowthBits] \in Nat
    <3>1. Floor + GrowthBits <= MaxBits
      BY <1>1, Pow2Assumption
    <3> QED  BY <1>1, <3>1, Pow2Nat
  <2>4. RelinNoise <= Pow2[s + GrowthBits]
    BY <1>2, <2>1, <2>2, <2>3
  <2> QED  BY <2>4, <1>4, Zenon
<1>6. TensorDeposit <= 4 * ((N * N * T) * T)
  <2>1. TensorDeposit <= 4 * N * N * T * T
    BY DepositAssumption, Zenon
  <2>2. \A n, t \in Nat : 4 * n * n * t * t = 4 * ((n * n * t) * t)
    OBVIOUS
  <2>3. 4 * N * N * T * T = 4 * ((N * N * T) * T)
    BY <2>2, <1>2, Zenon
  <2> QED  BY <2>1, <2>3, Zenon
<1>7. MulNoise(v, w) + T <= 2 * (Pow2[s] * Pow2[GrowthBits])
  <2> DEFINE k == N * N * T
  <2>1. k \in Nat /\ k >= 1 /\ k = N * N * T /\ 8 * k <= Pow2[GrowthBits]
        /\ TensorDeposit <= 4 * (k * T)
    BY GrowthLevel, <1>6, Zenon
  <2> HIDE DEF k
  <2>2. 2 * N * T * (v + w) * (1 + N) + TensorDeposit + RelinNoise + T
          <= 2 * (Pow2[s] * Pow2[GrowthBits])
    BY <1>2, <1>3, <1>5, <2>1, MulArithmetic
  <2> QED  BY <2>2, Zenon DEF MulNoise
<1>8. Pow2[s + MulCost] = 2 * (Pow2[s] * Pow2[GrowthBits])
  <2>1. Pow2[(s + GrowthBits) + 1] = 2 * Pow2[s + GrowthBits]
    BY <1>1, Pow2Double
  <2> QED  BY <1>1, <1>4, <2>1, Zenon
<1>9. MulNoise(v, w) \in Nat
  <2>1. v + w \in Nat /\ N * N * T \in Nat
    BY GrowthLevel
  <2>2. 2 * N * T * (v + w) * (1 + N) \in Nat
    BY <1>2, <2>1, TensorArithmetic, Zenon
  <2> QED  BY <1>2, <2>2 DEF MulNoise
<1> QED
  BY <1>7, <1>8, <1>9, Zenon

\* A sum of two ciphertexts within one level is within the next.
LEMMA AddCovered ==
  ASSUME NEW v \in Nat, NEW w \in Nat, NEW s \in Nat, s + AddCost <= Capacity,
         v + T <= Pow2[s], w + T <= Pow2[s]
  PROVE  AddNoise(v, w) \in Nat /\ AddNoise(v, w) + T <= Pow2[s + AddCost]
<1>1. s + 1 <= MaxBits /\ s <= MaxBits
  BY Parameters, Pow2Assumption DEF AddCost
<1>2. Pow2[s + 1] = 2 * Pow2[s] /\ Pow2[s] \in Nat
  BY <1>1, Pow2Double, Pow2Nat
<1>3. T \in Nat /\ T >= 1
  BY NoiseLedgerAssumption
<1> QED
  BY <1>2, <1>3 DEF AddNoise, AddCost

-----------------------------------------------------------------------------
(* A tracked ciphertext whose ledger is in order.                           *)

CtOK(c) ==
  /\ c.noise \in Nat /\ c.exact \in BOOLEAN
  /\ c.budget \in [remaining : Nat, cycle : Nat]
  /\ c.budget.remaining <= c.budget.cycle
  /\ c.budget.cycle <= Capacity - Floor
  /\ Covers(c.budget, c.noise)

LEMMA CoversMono ==
  ASSUME NEW n \in Nat, NEW r \in Nat, NEW lower \in Nat, lower <= r, r <= Capacity,
         n + T <= Pow2[Capacity - r]
  PROVE  n + T <= Pow2[Capacity - lower]
<1>0. Capacity \in Nat /\ Capacity <= MaxBits /\ MaxBits \in Nat
  BY Parameters, Pow2Assumption
<1>1. /\ Capacity - r \in Nat /\ Capacity - lower \in Nat /\ Capacity - r <= Capacity - lower
      /\ Capacity - lower <= MaxBits /\ Capacity - r <= MaxBits
  BY <1>0
<1>2. Pow2[Capacity - r] <= Pow2[Capacity - lower]
  BY <1>1, Pow2Mono
<1>3. Pow2[Capacity - r] \in Nat /\ Pow2[Capacity - lower] \in Nat /\ T \in Nat
  BY <1>1, Pow2Nat, NoiseLedgerAssumption
<1> QED
  BY <1>2, <1>3

LEMMA EncryptedOK ==
  ASSUME NEW t
  PROVE  CtOK([bits |-> t, noise |-> FreshNoise, exact |-> TRUE, budget |-> FreshBudget])
<1>1. /\ BudgetAbove(FreshBits) \in Nat
      /\ BudgetAbove(FreshBits) = Capacity - Floor
      /\ Capacity - BudgetAbove(FreshBits) = Start(FreshBits)
      /\ Capacity - Floor <= Capacity - Floor
  BY Parameters, NoiseLedgerAssumption DEF Floor
<1>2. FreshNoise \in Nat /\ FreshNoise + T <= Pow2[Capacity - BudgetAbove(FreshBits)]
  BY <1>1, FreshCovered, Zenon
<1> QED
  BY <1>1, <1>2 DEF CtOK, FreshBudget, Seated, Covers

LEMMA RefreshedOK ==
  ASSUME NEW c, CtOK(c)
  PROVE  CtOK(Refreshed(c))
<1>1. /\ BudgetAbove(RefreshBits) \in Nat
      /\ BudgetAbove(RefreshBits) <= Capacity - Floor
      /\ Capacity - BudgetAbove(RefreshBits) = Start(RefreshBits)
  BY Parameters, NoiseLedgerAssumption DEF Floor
<1>2. RefreshNoise \in Nat /\ RefreshNoise + T <= Pow2[Capacity - BudgetAbove(RefreshBits)]
  BY <1>1, RefreshCovered, Zenon
<1>3. Refreshed(c) = [bits |-> <<"refresh", c.bits, <<>>>>, noise |-> RefreshNoise,
                      exact |-> FALSE, budget |-> RefreshedBudget]
  BY DEF Refreshed
<1> QED
  BY <1>1, <1>2, <1>3 DEF CtOK, RefreshedBudget, Seated, Covers

LEMMA PreparedOK ==
  ASSUME NEW a, NEW b, CtOK(a), CtOK(b), NEW cost
  PROVE  CtOK(Prepared(a, cost)) /\ CtOK(SecondOperand(a, b, cost))
<1>1. \A c : CtOK(c) => CtOK(Prepared(c, cost))
  BY RefreshedOK DEF Prepared
<1> QED
  BY <1>1 DEF SecondOperand

-----------------------------------------------------------------------------
(* What an operation returns.                                               *)

Result(t, noise, f, s, cost) ==
  [bits |-> t, noise |-> noise, exact |-> f.exact /\ s.exact,
   budget |-> Consume(WorseBudget(f, s), cost)]

\* The result's ledger is the worse operand's, charged.
LEMMA ResultLedger ==
  ASSUME NEW f, NEW s, CtOK(f), CtOK(s), NEW cost \in Nat, NEW t, NEW noise,
         IsFunded(WorseBudget(f, s), cost)
  PROVE  LET r == WorseBudget(f, s).remaining IN
         /\ r \in Nat /\ r >= cost /\ r <= Capacity - Floor
         /\ r <= f.budget.remaining /\ r <= s.budget.remaining
         /\ f.budget.remaining <= Capacity /\ s.budget.remaining <= Capacity
         /\ r = f.budget.remaining \/ r = s.budget.remaining
         /\ Consume(WorseBudget(f, s), cost) \in [remaining : Nat, cycle : Nat]
         /\ Consume(WorseBudget(f, s), cost).remaining = r - cost
         /\ Consume(WorseBudget(f, s), cost).remaining
              <= Consume(WorseBudget(f, s), cost).cycle
         /\ Consume(WorseBudget(f, s), cost).cycle <= Capacity - Floor
<1> DEFINE u == WorseBudget(f, s)
<1>1. /\ f.budget \in [remaining : Nat, cycle : Nat]
      /\ s.budget \in [remaining : Nat, cycle : Nat]
      /\ f.budget.remaining <= f.budget.cycle /\ f.budget.cycle <= Capacity - Floor
      /\ s.budget.remaining <= s.budget.cycle /\ s.budget.cycle <= Capacity - Floor
  BY DEF CtOK
<1>2. Capacity \in Nat /\ Floor \in Nat
  BY Parameters DEF Floor
<1>3. /\ u \in [remaining : Nat, cycle : Nat]
      /\ u.remaining <= u.cycle /\ u.cycle <= Capacity - Floor
      /\ u.remaining <= f.budget.remaining /\ u.remaining <= s.budget.remaining
      /\ u.remaining = f.budget.remaining \/ u.remaining = s.budget.remaining
  BY <1>1 DEF WorseBudget
<1>4. u.remaining >= cost
  BY DEF IsFunded
<1> HIDE DEF u
<1>5. /\ Consume(u, cost) \in [remaining : Nat, cycle : Nat]
      /\ Consume(u, cost).remaining = u.remaining - cost
      /\ Consume(u, cost).cycle = u.cycle
  BY <1>3, <1>4 DEF Consume
<1>6. /\ u.remaining \in Nat /\ u.cycle \in Nat
      /\ f.budget.remaining \in Nat /\ s.budget.remaining \in Nat
      /\ f.budget.cycle \in Nat /\ s.budget.cycle \in Nat
  BY <1>1, <1>3
<1>7. /\ u.remaining <= Capacity - Floor
      /\ f.budget.remaining <= Capacity /\ s.budget.remaining <= Capacity
      /\ u.remaining - cost <= u.cycle
  BY <1>1, <1>2, <1>3, <1>6
<1> QED
  BY <1>3, <1>4, <1>5, <1>6, <1>7 DEF u

LEMMA MulResultOK ==
  ASSUME NEW f, NEW s, CtOK(f), CtOK(s), NEW t, IsFunded(WorseBudget(f, s), MulCost)
  PROVE  CtOK(Result(t, MulNoise(f.noise, s.noise), f, s, MulCost))
<1> DEFINE r == WorseBudget(f, s).remaining
           d == Consume(WorseBudget(f, s), MulCost)
           e == f.exact /\ s.exact
           n == MulNoise(f.noise, s.noise)
<1>1. MulCost \in Nat /\ Capacity \in Nat /\ Floor \in Nat
  BY Parameters DEF MulCost, Floor
<1>2. /\ r \in Nat /\ r >= MulCost /\ r <= Capacity - Floor
      /\ r <= f.budget.remaining /\ r <= s.budget.remaining
      /\ f.budget.remaining <= Capacity /\ s.budget.remaining <= Capacity
      /\ d \in [remaining : Nat, cycle : Nat]
      /\ d.remaining = r - MulCost /\ d.remaining <= d.cycle /\ d.cycle <= Capacity - Floor
  BY <1>1, ResultLedger
<1>3. /\ f.noise \in Nat /\ s.noise \in Nat
      /\ f.budget.remaining \in Nat /\ s.budget.remaining \in Nat
      /\ f.noise + T <= Pow2[Capacity - f.budget.remaining]
      /\ s.noise + T <= Pow2[Capacity - s.budget.remaining]
  BY DEF CtOK, Covers
<1>4. e \in BOOLEAN
  OBVIOUS
<1>5. Result(t, n, f, s, MulCost) = [bits |-> t, noise |-> n, exact |-> e, budget |-> d]
  BY DEF Result
<1> HIDE DEF r, d, e
<1>6. f.noise + T <= Pow2[Capacity - r] /\ s.noise + T <= Pow2[Capacity - r]
  BY <1>2, <1>3, CoversMono
<1>7. /\ Capacity - r \in Nat /\ Capacity - r >= Floor
      /\ (Capacity - r) + MulCost <= Capacity
      /\ (Capacity - r) + MulCost = Capacity - d.remaining
  BY <1>1, <1>2
<1>8. n \in Nat /\ n + T <= Pow2[(Capacity - r) + MulCost]
  BY <1>3, <1>6, <1>7, MulCovered, Zenon
<1>9. n + T <= Pow2[Capacity - d.remaining]
  BY <1>7, <1>8, Zenon
<1> HIDE DEF n
<1>10. ASSUME NEW c, c = [bits |-> t, noise |-> n, exact |-> e, budget |-> d]
       PROVE  CtOK(c)
  <2>1. c.noise = n /\ c.exact = e /\ c.budget = d
    BY <1>10
  <2>2. c.exact \in BOOLEAN
    BY <2>1, <1>4, Zenon
  <2>3. Covers(c.budget, c.noise)
    BY <2>1, <1>9, Zenon DEF Covers
  <2> QED  BY <1>2, <1>8, <2>1, <2>2, <2>3 DEF CtOK
<1> QED
  BY <1>5, <1>10 DEF n

LEMMA AddResultOK ==
  ASSUME NEW f, NEW s, CtOK(f), CtOK(s), NEW t, IsFunded(WorseBudget(f, s), AddCost)
  PROVE  CtOK(Result(t, AddNoise(f.noise, s.noise), f, s, AddCost))
<1> DEFINE r == WorseBudget(f, s).remaining
           d == Consume(WorseBudget(f, s), AddCost)
           e == f.exact /\ s.exact
           n == AddNoise(f.noise, s.noise)
<1>1. AddCost \in Nat /\ Capacity \in Nat /\ Floor \in Nat
  BY Parameters DEF AddCost, Floor
<1>2. /\ r \in Nat /\ r >= AddCost /\ r <= Capacity - Floor
      /\ r <= f.budget.remaining /\ r <= s.budget.remaining
      /\ f.budget.remaining <= Capacity /\ s.budget.remaining <= Capacity
      /\ d \in [remaining : Nat, cycle : Nat]
      /\ d.remaining = r - AddCost /\ d.remaining <= d.cycle /\ d.cycle <= Capacity - Floor
  BY <1>1, ResultLedger
<1>3. /\ f.noise \in Nat /\ s.noise \in Nat
      /\ f.budget.remaining \in Nat /\ s.budget.remaining \in Nat
      /\ f.noise + T <= Pow2[Capacity - f.budget.remaining]
      /\ s.noise + T <= Pow2[Capacity - s.budget.remaining]
  BY DEF CtOK, Covers
<1>4. e \in BOOLEAN
  OBVIOUS
<1>5. Result(t, n, f, s, AddCost) = [bits |-> t, noise |-> n, exact |-> e, budget |-> d]
  BY DEF Result
<1> HIDE DEF r, d, e
<1>6. f.noise + T <= Pow2[Capacity - r] /\ s.noise + T <= Pow2[Capacity - r]
  BY <1>2, <1>3, CoversMono
<1>7. /\ Capacity - r \in Nat
      /\ (Capacity - r) + AddCost <= Capacity
      /\ (Capacity - r) + AddCost = Capacity - d.remaining
  BY <1>1, <1>2
<1>8. n \in Nat /\ n + T <= Pow2[(Capacity - r) + AddCost]
  BY <1>3, <1>6, <1>7, AddCovered, Zenon
<1>9. n + T <= Pow2[Capacity - d.remaining]
  BY <1>7, <1>8, Zenon
<1> HIDE DEF n
<1>10. ASSUME NEW c, c = [bits |-> t, noise |-> n, exact |-> e, budget |-> d]
       PROVE  CtOK(c)
  <2>1. c.noise = n /\ c.exact = e /\ c.budget = d
    BY <1>10
  <2>2. c.exact \in BOOLEAN
    BY <2>1, <1>4, Zenon
  <2>3. Covers(c.budget, c.noise)
    BY <2>1, <1>9, Zenon DEF Covers
  <2> QED  BY <1>2, <1>8, <2>1, <2>2, <2>3 DEF CtOK
<1> QED
  BY <1>5, <1>10 DEF n

-----------------------------------------------------------------------------
(* The invariant.                                                           *)

LevelInv ==
  /\ gate \in {"closed", "open"}
  /\ permille \in Thresholds \cup {250}
  /\ outcome \in {"none", "done", "refused"}
  /\ fresh \in Nat /\ bootstraps \in Nat /\ muls \in Nat /\ adds \in Nat
  /\ \A c \in tracked : CtOK(c)

\* What one call of either operation may do.
Step(call, a, b, cost, noise) ==
  \/ UNCHANGED <<tracked, counters>> /\ outcome' = "refused"
  \/ /\ outcome' = "refused" /\ UNCHANGED <<tracked, muls, adds>>
     /\ bootstraps' = bootstraps + Refreshes(a, b, cost)
  \/ /\ outcome' = "done"
     /\ IsFunded(WorseBudget(Prepared(a, cost), SecondOperand(a, b, cost)), cost)
     /\ bootstraps' = bootstraps + Refreshes(a, b, cost)
     /\ \E t : tracked' = tracked \cup
           {Result(t, noise, Prepared(a, cost), SecondOperand(a, b, cost), cost)}
     /\ muls' \in {muls, muls + 1} /\ adds' \in {adds, adds + 1}

LEMMA MulStep ==
  ASSUME NEW a, NEW b, Operation("mul", a, b, MulCost, MulNoise)
  PROVE  /\ UNCHANGED <<gate, permille, fresh>>
         /\ Step("mul", a, b, MulCost,
                 MulNoise(Prepared(a, MulCost).noise, SecondOperand(a, b, MulCost).noise))
  BY Zenon DEF Operation, Step, Result, counters

LEMMA AddStep ==
  ASSUME NEW a, NEW b, Operation("add", a, b, AddCost, AddNoise)
  PROVE  /\ UNCHANGED <<gate, permille, fresh>>
         /\ Step("add", a, b, AddCost,
                 AddNoise(Prepared(a, AddCost).noise, SecondOperand(a, b, AddCost).noise))
  BY Zenon DEF Operation, Step, Result, counters

LEMMA LevelInitial == Init => LevelInv
  BY DEF Init, LevelInv

LEMMA LevelInductive == LevelInv /\ [Next]_vars => LevelInv'
<1> SUFFICES ASSUME LevelInv, [Next]_vars PROVE LevelInv'
  OBVIOUS
<1>1. CASE Encrypt
  <2>1. PICK t : tracked' = tracked \cup
           {[bits |-> t, noise |-> FreshNoise, exact |-> TRUE, budget |-> FreshBudget]}
    BY <1>1 DEF Encrypt
  <2>2. \A c \in tracked' : CtOK(c)
    <3> DEFINE new == [bits |-> t, noise |-> FreshNoise, exact |-> TRUE, budget |-> FreshBudget]
    <3>1. CtOK(new) /\ tracked' = tracked \cup {new}
      BY <2>1, EncryptedOK
    <3> HIDE DEF new
    <3> QED  BY <3>1 DEF LevelInv
  <2>3. /\ gate' = gate /\ permille' = permille /\ outcome' = outcome
        /\ fresh' \in Nat /\ bootstraps' = bootstraps /\ muls' = muls /\ adds' = adds
    BY <1>1 DEF Encrypt, LevelInv, counters
  <2> QED  BY <2>2, <2>3 DEF LevelInv, CtOK, Covers
<1>2. CASE SetTriggerThreshold
  BY <1>2 DEF SetTriggerThreshold, LevelInv, counters, CtOK, Covers
<1>3. CASE MulAuto
  <2>1. PICK a \in tracked, b \in tracked : Operation("mul", a, b, MulCost, MulNoise)
    BY <1>3 DEF MulAuto
  <2> DEFINE f == Prepared(a, MulCost)
             s == SecondOperand(a, b, MulCost)
  <2>2. /\ UNCHANGED <<gate, permille, fresh>>
        /\ Step("mul", a, b, MulCost, MulNoise(f.noise, s.noise))
    BY <2>1, MulStep
  <2>3. CtOK(f) /\ CtOK(s)
    BY PreparedOK, Zenon DEF LevelInv
  <2>4. \A c \in tracked' : CtOK(c)
    <3>1. CASE tracked' = tracked
      BY <3>1 DEF LevelInv
    <3>2. ASSUME NEW t, IsFunded(WorseBudget(f, s), MulCost),
                 tracked' = tracked \cup {Result(t, MulNoise(f.noise, s.noise), f, s, MulCost)}
          PROVE  \A c \in tracked' : CtOK(c)
      <4> DEFINE new == Result(t, MulNoise(f.noise, s.noise), f, s, MulCost)
      <4> HIDE DEF f, s
      <4>1. CtOK(new)
        BY <2>3, <3>2, MulResultOK
      <4> HIDE DEF new
      <4> QED  BY <3>2, <4>1 DEF LevelInv, new
    <3> QED  BY <2>2, <3>1, <3>2, Zenon DEF Step
  <2>5. Refreshes(a, b, MulCost) \in Nat
    BY DEF Refreshes
  <2>6. /\ gate' = gate /\ permille' = permille /\ fresh' = fresh
        /\ outcome' \in {"done", "refused"}
        /\ bootstraps' \in Nat /\ muls' \in Nat /\ adds' \in Nat
    BY <2>2, <2>5 DEF Step, LevelInv, counters
  <2> QED  BY <2>4, <2>6 DEF LevelInv, CtOK, Covers
<1>4. CASE TryAddAuto
  <2>1. PICK a \in tracked, b \in tracked : Operation("add", a, b, AddCost, AddNoise)
    BY <1>4 DEF TryAddAuto
  <2> DEFINE f == Prepared(a, AddCost)
             s == SecondOperand(a, b, AddCost)
  <2>2. /\ UNCHANGED <<gate, permille, fresh>>
        /\ Step("add", a, b, AddCost, AddNoise(f.noise, s.noise))
    BY <2>1, AddStep
  <2>3. CtOK(f) /\ CtOK(s)
    BY PreparedOK, Zenon DEF LevelInv
  <2>4. \A c \in tracked' : CtOK(c)
    <3>1. CASE tracked' = tracked
      BY <3>1 DEF LevelInv
    <3>2. ASSUME NEW t, IsFunded(WorseBudget(f, s), AddCost),
                 tracked' = tracked \cup {Result(t, AddNoise(f.noise, s.noise), f, s, AddCost)}
          PROVE  \A c \in tracked' : CtOK(c)
      <4> DEFINE new == Result(t, AddNoise(f.noise, s.noise), f, s, AddCost)
      <4> HIDE DEF f, s
      <4>1. CtOK(new)
        BY <2>3, <3>2, AddResultOK
      <4> HIDE DEF new
      <4> QED  BY <3>2, <4>1 DEF LevelInv, new
    <3> QED  BY <2>2, <3>1, <3>2, Zenon DEF Step
  <2>5. Refreshes(a, b, AddCost) \in Nat
    BY DEF Refreshes
  <2>6. /\ gate' = gate /\ permille' = permille /\ fresh' = fresh
        /\ outcome' \in {"done", "refused"}
        /\ bootstraps' \in Nat /\ muls' \in Nat /\ adds' \in Nat
    BY <2>2, <2>5 DEF Step, LevelInv, counters
  <2> QED  BY <2>4, <2>6 DEF LevelInv, CtOK, Covers
<1>5. CASE UNCHANGED vars
  BY <1>5 DEF vars, LevelInv, counters, CtOK, Covers
<1> QED
  BY <1>1, <1>2, <1>3, <1>4, <1>5 DEF Next

THEOREM LevelInvariance == Spec => []LevelInv
  BY LevelInitial, LevelInductive, PTL DEF Spec

\* Every ledger stays between nothing and the level its last refresh seated
\* it at, which is within the capacity of the parameters.
THEOREM TrackedTypeCorrect == Spec => []TypeOK
<1>1. LevelInv => TypeOK
  <2>1. ASSUME LevelInv, NEW c \in tracked
        PROVE  /\ c.noise \in Nat /\ c.exact \in BOOLEAN
               /\ c.budget.remaining \in Nat /\ c.budget.cycle \in Nat
               /\ c.budget.remaining <= c.budget.cycle
               /\ c.budget.cycle <= Capacity
    <3>1. CtOK(c)
      BY <2>1 DEF LevelInv
    <3>2. Capacity \in Nat /\ Floor \in Nat
      BY Parameters DEF Floor
    <3> QED  BY <3>1, <3>2 DEF CtOK
  <2> QED  BY <2>1, Zenon DEF LevelInv, TypeOK
<1> QED
  BY <1>1, LevelInvariance, PTL

\* For every parameter set the assumptions admit, what the ledger of a
\* ciphertext says was used covers the noise that is there.
THEOREM LedgerIsSound == Spec => []LedgerCoversNoise
<1>1. LevelInv => LedgerCoversNoise
  BY Zenon DEF LevelInv, LedgerCoversNoise, CtOK
<1> QED
  BY <1>1, LevelInvariance, PTL

-----------------------------------------------------------------------------
(* The window and exactness.                                                *)

LEMMA BelowDelta == Pow2[Capacity] \in Nat /\ 2 * Pow2[Capacity] <= Delta
<1>1. Capacity \in Nat /\ Capacity + 1 = DeltaBits - 1 /\ Capacity + 1 <= MaxBits
      /\ Capacity <= MaxBits /\ Pow2[DeltaBits - 1] <= Delta
  BY Parameters, NoiseLedgerAssumption, Pow2Assumption
<1>2. Pow2[Capacity + 1] = 2 * Pow2[Capacity] /\ Pow2[Capacity] \in Nat
  BY <1>1, Pow2Double, Pow2Nat
<1> QED
  BY <1>1, <1>2

\* A ciphertext whose ledger is in order decrypts.
LEMMA CoveredDecrypts ==
  ASSUME NEW c, CtOK(c)
  PROVE  Decrypts(c.noise)
<1>1. /\ c.noise \in Nat /\ c.budget.remaining \in Nat /\ c.budget.remaining <= Capacity
      /\ c.noise + T <= Pow2[Capacity - c.budget.remaining]
  <2>1. Capacity \in Nat /\ Floor \in Nat
    BY Parameters DEF Floor
  <2> QED  BY <2>1 DEF CtOK, Covers
<1>2. 0 \in Nat /\ 0 <= c.budget.remaining /\ Capacity - 0 = Capacity
  BY <1>1, Parameters
<1>3. c.noise + T <= Pow2[Capacity - 0]
  BY <1>1, <1>2, CoversMono, Zenon
<1>4. c.noise + T <= Pow2[Capacity]
  BY <1>2, <1>3, Zenon
<1>5. T \in Nat /\ T >= 1 /\ Delta \in Nat
  BY NoiseLedgerAssumption
<1> QED
  BY <1>1, <1>4, <1>5, BelowDelta DEF Decrypts

\* With the reserve left, the noise is inside the window of a refresh's input.
LEMMA ReserveKeepsWindow ==
  ASSUME NEW c, CtOK(c), c.budget.remaining >= Reserve
  PROVE  InWindow(c.noise)
<1>1. /\ c.noise \in Nat /\ c.budget.remaining \in Nat /\ c.budget.remaining <= Capacity
      /\ c.noise + T <= Pow2[Capacity - c.budget.remaining]
      /\ Capacity \in Nat /\ Capacity <= MaxBits /\ MaxBits \in Nat
  <2>1. Capacity \in Nat /\ Floor \in Nat /\ Capacity <= MaxBits /\ MaxBits \in Nat
    BY Parameters, Pow2Assumption DEF Floor
  <2> QED  BY <2>1 DEF CtOK, Covers
<1>2. /\ Reserve \in Nat /\ Reserve = RingBits + 1 /\ RingBits \in Nat
  BY NoiseLedgerAssumption DEF Reserve
<1>3. /\ Capacity - Reserve \in Nat /\ (Capacity - Reserve) + Reserve = Capacity
      /\ (Capacity - Reserve) + Reserve <= MaxBits /\ RingBits + 1 <= MaxBits
      /\ Reserve <= c.budget.remaining /\ Capacity - Reserve <= MaxBits
  BY <1>1, <1>2
<1>4. c.noise + T <= Pow2[Capacity - Reserve]
  BY <1>1, <1>2, <1>3, CoversMono, Zenon
<1>5. Pow2[(Capacity - Reserve) + Reserve] = Pow2[Capacity - Reserve] * Pow2[Reserve]
  BY <1>2, <1>3, Pow2Sum, Zenon
<1>6. Pow2[RingBits + 1] = 2 * Pow2[RingBits]
  BY <1>2, <1>3, Pow2Double, Zenon
<1>7. Pow2[Capacity] = Pow2[Capacity - Reserve] * (2 * N)
  BY <1>2, <1>3, <1>5, <1>6, Zenon DEF N
<1>8. N \in Nat /\ N >= 1 /\ T \in Nat /\ T >= 1 /\ 2 * N \in Nat /\ Delta \in Nat
  BY Parameters, NoiseLedgerAssumption
<1>9. Pow2[Capacity - Reserve] \in Nat /\ c.noise + T \in Nat /\ 2 * N <= 2 * N
  BY <1>1, <1>3, <1>8, Pow2Nat
<1>10. (c.noise + T) * (2 * N) <= Pow2[Capacity - Reserve] * (2 * N)
  BY <1>4, <1>8, <1>9, ProductMono
<1>11. (c.noise + T) * (2 * N) <= Pow2[Capacity]
  BY <1>7, <1>10, Zenon
<1>12. \A n, v, t \in Nat : n >= 1 /\ t >= 1 =>
         2 * n * v \in Nat /\ (v + t) * (2 * n) >= 2 * n * v + 1 /\ (v + t) * (2 * n) \in Nat
  <2>1. SUFFICES ASSUME NEW n \in Nat, NEW v \in Nat, NEW t \in Nat, n >= 1, t >= 1
                 PROVE  /\ 2 * n * v \in Nat /\ (v + t) * (2 * n) \in Nat
                        /\ (v + t) * (2 * n) >= 2 * n * v + 1
    OBVIOUS
  <2>2. n * v \in Nat /\ n * t \in Nat /\ 1 * 1 <= n * t
    BY <2>1, ProductMono
  <2>3. 2 * n * v = 2 * (n * v) /\ (v + t) * (2 * n) = 2 * (n * v) + 2 * (n * t)
    OBVIOUS
  <2> QED  BY <2>2, <2>3
<1>13. /\ 2 * N * c.noise \in Nat /\ (c.noise + T) * (2 * N) \in Nat
       /\ (c.noise + T) * (2 * N) >= 2 * N * c.noise + 1
  BY <1>1, <1>8, <1>12
<1>14. 2 * N * c.noise < Delta
  BY <1>8, <1>11, <1>13, BelowDelta
<1> QED
  BY <1>14 DEF InWindow

Trusted == gate = "closed" \/ RefreshKeepsReserve
Least   == Smaller(Reserve, BudgetAbove(FreshBits))

Healthy(c) == c.budget.remaining >= Least

LEMMA LeastInt ==
  /\ Least \in Nat /\ Least <= Reserve /\ Least <= BudgetAbove(FreshBits)
  /\ RefreshKeepsReserve => Least = Reserve
<1>1. /\ BudgetAbove(FreshBits) \in Nat /\ Reserve \in Nat /\ MulCost \in Nat
      /\ BudgetAbove(RefreshBits) \in Nat
      /\ BudgetAbove(RefreshBits) <= BudgetAbove(FreshBits)
  BY Parameters, NoiseLedgerAssumption DEF Reserve, MulCost
<1> QED
  BY <1>1 DEF Least, Smaller, RefreshKeepsReserve

\* A prepared operand affords the operation and the reserve, and is what it was
\* unless it had to be refreshed.
LEMMA PreparedHealthy ==
  ASSUME NEW c, CtOK(c), NEW cost \in Nat, cost <= MulCost,
         RefreshKeepsReserve \/ ~ NeedsRefresh(c, cost)
  PROVE  Prepared(c, cost).budget.remaining >= cost + Reserve
<1>1. /\ c.budget.remaining \in Nat /\ Reserve \in Nat /\ MulCost \in Nat
      /\ BudgetAbove(RefreshBits) \in Nat
  BY Parameters, NoiseLedgerAssumption DEF CtOK, Reserve, MulCost
<1>2. CASE ~ NeedsRefresh(c, cost)
  <2>1. c.budget.remaining - Reserve >= cost
    BY <1>2 DEF NeedsRefresh, CanPerformWithReserve
  <2>2. Prepared(c, cost) = c
    BY <1>2 DEF Prepared
  <2> QED  BY <1>1, <2>1, <2>2
<1>3. CASE NeedsRefresh(c, cost)
  <2>1. Prepared(c, cost) = Refreshed(c) /\ RefreshKeepsReserve
    BY <1>3 DEF Prepared
  <2>2. Refreshed(c).budget.remaining = BudgetAbove(RefreshBits)
    BY DEF Refreshed, RefreshedBudget, Seated
  <2>3. BudgetAbove(RefreshBits) >= MulCost + Reserve
    BY <2>1 DEF RefreshKeepsReserve
  <2> QED  BY <1>1, <2>1, <2>2, <2>3
<1> QED
  BY <1>2, <1>3

\* So does the second, unless one of the two needs a refresh it cannot have.
LEMMA BothHealthy ==
  ASSUME NEW a, NEW b, CtOK(a), CtOK(b), NEW cost \in Nat, cost <= MulCost,
         RefreshKeepsReserve \/ Refreshes(a, b, cost) = 0
  PROVE  /\ Prepared(a, cost).budget.remaining >= cost + Reserve
         /\ SecondOperand(a, b, cost).budget.remaining >= cost + Reserve
<1>1. /\ RefreshKeepsReserve \/ ~ NeedsRefresh(a, cost)
      /\ RefreshKeepsReserve \/ a.bits = b.bits \/ ~ NeedsRefresh(b, cost)
  BY DEF Refreshes
<1>2. Prepared(a, cost).budget.remaining >= cost + Reserve
  BY <1>1, PreparedHealthy
<1>3. CASE a.bits = b.bits
  BY <1>2, <1>3 DEF SecondOperand
<1>4. CASE a.bits # b.bits
  BY <1>1, <1>2, <1>4, PreparedHealthy DEF SecondOperand
<1> QED
  BY <1>3, <1>4

\* Without a refresh the operands are the ciphertexts that were passed, up to
\* which of two equal ones stands for both.
LEMMA Untouched ==
  ASSUME NEW a, NEW b, NEW cost, a.exact = TRUE, b.exact = TRUE, Refreshes(a, b, cost) = 0
  PROVE  Prepared(a, cost).exact = TRUE /\ SecondOperand(a, b, cost).exact = TRUE
<1>1. ~ NeedsRefresh(a, cost) /\ (a.bits = b.bits \/ ~ NeedsRefresh(b, cost))
  BY DEF Refreshes
<1> QED
  BY <1>1 DEF Prepared, SecondOperand

\* The trigger keeps the reserve, also across refreshes where these leave it;
\* and behind the closed gate nothing was refreshed.
GInv ==
  /\ LevelInv
  /\ Trusted => \A c \in tracked : Healthy(c)
  /\ gate = "closed" => \A c \in tracked : c.exact = TRUE

LEMMA ResultHealthy ==
  ASSUME NEW f, NEW s, CtOK(f), CtOK(s), NEW cost \in Nat, NEW t, NEW noise,
         f.budget.remaining >= cost + Reserve, s.budget.remaining >= cost + Reserve
  PROVE  Healthy(Result(t, noise, f, s, cost))
<1>1. /\ f.budget.remaining \in Nat /\ s.budget.remaining \in Nat /\ Reserve \in Nat
      /\ Least \in Nat /\ Least <= Reserve
  BY LeastInt, NoiseLedgerAssumption DEF CtOK, Reserve
<1>2. IsFunded(WorseBudget(f, s), cost)
  BY <1>1 DEF IsFunded, WorseBudget
<1>3. /\ Consume(WorseBudget(f, s), cost).remaining = WorseBudget(f, s).remaining - cost
      /\ WorseBudget(f, s).remaining \in Nat
      /\ \/ WorseBudget(f, s).remaining = f.budget.remaining
         \/ WorseBudget(f, s).remaining = s.budget.remaining
  BY <1>2, ResultLedger
<1>4. Consume(WorseBudget(f, s), cost).remaining >= Least
  BY <1>1, <1>3
<1>5. Result(t, noise, f, s, cost).budget = Consume(WorseBudget(f, s), cost)
  BY DEF Result
<1> QED
  BY <1>4, <1>5 DEF Healthy

LEMMA HealthyStep ==
  ASSUME GInv, NEW call, NEW a \in tracked, NEW b \in tracked, NEW cost \in Nat,
         cost <= MulCost, NEW noise,
         gate' = gate, Step(call, a, b, cost, noise),
         outcome' = "done" => Refreshes(a, b, cost) = 0 \/ CanRefresh
  PROVE  /\ Trusted' => \A c \in tracked' : Healthy(c)
         /\ gate' = "closed" => \A c \in tracked' : c.exact = TRUE
<1> DEFINE f == Prepared(a, cost)
           s == SecondOperand(a, b, cost)
<1>1. CtOK(a) /\ CtOK(b) /\ CtOK(f) /\ CtOK(s)
  BY PreparedOK, Zenon DEF GInv, LevelInv
<1>2. Trusted' <=> Trusted
  BY DEF Trusted, RefreshKeepsReserve
<1>3. ASSUME RefreshKeepsReserve \/ Refreshes(a, b, cost) = 0
      PROVE  f.budget.remaining >= cost + Reserve /\ s.budget.remaining >= cost + Reserve
  BY <1>1, <1>3, BothHealthy
<1>4. ASSUME gate = "closed", Refreshes(a, b, cost) = 0
      PROVE  f.exact = TRUE /\ s.exact = TRUE
  <2>1. a.exact = TRUE /\ b.exact = TRUE
    BY <1>4, Zenon DEF GInv
  <2> QED  BY <1>4, <2>1, Untouched, Zenon DEF f, s
<1> HIDE DEF f, s
<1>5. CASE tracked' = tracked
  BY <1>2, <1>5 DEF GInv
<1>6. ASSUME outcome' = "done", NEW t,
             tracked' = tracked \cup {Result(t, noise, f, s, cost)}
      PROVE  /\ Trusted => \A c \in tracked' : Healthy(c)
             /\ gate = "closed" => \A c \in tracked' : c.exact = TRUE
  <2> DEFINE new == Result(t, noise, f, s, cost)
  <2>1. gate = "closed" => Refreshes(a, b, cost) = 0
    BY <1>6 DEF CanRefresh
  <2>2. ASSUME Trusted PROVE Healthy(new)
    <3>1. RefreshKeepsReserve \/ Refreshes(a, b, cost) = 0
      BY <2>1, <2>2 DEF Trusted
    <3> QED  BY <1>1, <1>3, <3>1, ResultHealthy
  <2>3. ASSUME gate = "closed" PROVE new.exact = TRUE
    BY <1>4, <2>1, <2>3 DEF Result
  <2> HIDE DEF new
  <2>4. tracked' = tracked \cup {new}
    BY <1>6 DEF new
  <2> QED  BY <2>2, <2>3, <2>4 DEF GInv
<1>7. CASE \E t : outcome' = "done" /\ tracked' = tracked \cup {Result(t, noise, f, s, cost)}
  BY <1>2, <1>6, <1>7
<1> QED
  BY <1>5, <1>7, Zenon DEF Step, f, s

LEMMA MulDecision ==
  ASSUME NEW a, NEW b, Operation("mul", a, b, MulCost, MulNoise)
  PROVE  outcome' = "done" => Refreshes(a, b, MulCost) = 0 \/ CanRefresh
<1>1. Refreshes(a, b, MulCost) = 0 \/ Refreshes(a, b, MulCost) > 0
  BY DEF Refreshes
<1>2. "refused" # "done"
  OBVIOUS
<1> QED
  BY <1>1, <1>2, Zenon DEF Operation

LEMMA AddDecision ==
  ASSUME NEW a, NEW b, Operation("add", a, b, AddCost, AddNoise)
  PROVE  outcome' = "done" => Refreshes(a, b, AddCost) = 0 \/ CanRefresh
<1>1. Refreshes(a, b, AddCost) = 0 \/ Refreshes(a, b, AddCost) > 0
  BY DEF Refreshes
<1>2. "refused" # "done"
  OBVIOUS
<1> QED
  BY <1>1, <1>2, Zenon DEF Operation

LEMMA HealthyInitial == Init => GInv
  BY LevelInitial DEF Init, GInv

LEMMA HealthyInductive == GInv /\ [Next]_vars => GInv'
<1> SUFFICES ASSUME GInv, [Next]_vars PROVE GInv'
  OBVIOUS
<1>1. LevelInv'
  BY LevelInductive DEF GInv
<1> SUFFICES /\ Trusted' => \A c \in tracked' : Healthy(c)
             /\ gate' = "closed" => \A c \in tracked' : c.exact = TRUE
  BY <1>1, Zenon DEF GInv, Healthy, Least, RefreshKeepsReserve
<1>2. CASE Encrypt
  <2>1. PICK t : tracked' = tracked \cup
           {[bits |-> t, noise |-> FreshNoise, exact |-> TRUE, budget |-> FreshBudget]}
    BY <1>2 DEF Encrypt
  <2> DEFINE new == [bits |-> t, noise |-> FreshNoise, exact |-> TRUE, budget |-> FreshBudget]
  <2>2. Healthy(new) /\ new.exact = TRUE
    BY LeastInt, Parameters DEF Healthy, FreshBudget, Seated
  <2>3. gate' = gate /\ tracked' = tracked \cup {new}
    BY <1>2, <2>1 DEF Encrypt
  <2> HIDE DEF new
  <2> QED  BY <2>2, <2>3 DEF GInv, Trusted, RefreshKeepsReserve
<1>3. CASE SetTriggerThreshold
  BY <1>3 DEF SetTriggerThreshold, GInv, Trusted, RefreshKeepsReserve
<1>4. CASE MulAuto
  <2>1. PICK a \in tracked, b \in tracked : Operation("mul", a, b, MulCost, MulNoise)
    BY <1>4 DEF MulAuto
  <2>2. /\ gate' = gate
        /\ Step("mul", a, b, MulCost,
                MulNoise(Prepared(a, MulCost).noise, SecondOperand(a, b, MulCost).noise))
    BY <2>1, MulStep
  <2>3. MulCost \in Nat /\ MulCost <= MulCost
    BY Parameters DEF MulCost
  <2> QED  BY <2>1, <2>2, <2>3, MulDecision, HealthyStep
<1>5. CASE TryAddAuto
  <2>1. PICK a \in tracked, b \in tracked : Operation("add", a, b, AddCost, AddNoise)
    BY <1>5 DEF TryAddAuto
  <2>2. /\ gate' = gate
        /\ Step("add", a, b, AddCost,
                AddNoise(Prepared(a, AddCost).noise, SecondOperand(a, b, AddCost).noise))
    BY <2>1, AddStep
  <2>3. AddCost \in Nat /\ AddCost <= MulCost
    BY Parameters DEF MulCost, AddCost
  <2> QED  BY <2>1, <2>2, <2>3, AddDecision, HealthyStep
<1>6. CASE UNCHANGED vars
  BY <1>6 DEF vars, GInv, Trusted, RefreshKeepsReserve
<1> QED
  BY <1>2, <1>3, <1>4, <1>5, <1>6 DEF Next

THEOREM Health == Spec => []GInv
  BY HealthyInitial, HealthyInductive, PTL DEF Spec

\* Every tracked ciphertext stays in the window of a refresh's input: the check
\* in front of an operation leaves the reserve, whatever was computed before.
THEOREM RefreshableForever == Spec => []StaysRefreshable
<1>1. GInv => StaysRefreshable
  <2>1. ASSUME GInv, Trusted, NEW c \in tracked
        PROVE  /\ c.budget.remaining >= Least
               /\ RefreshKeepsReserve => InWindow(c.noise)
    <3>1. CtOK(c) /\ c.budget.remaining >= Least
      BY <2>1, Zenon DEF GInv, LevelInv, Healthy
    <3> QED  BY <3>1, LeastInt, ReserveKeepsWindow
  <2> QED  BY <2>1, Zenon DEF StaysRefreshable, Trusted, Least
<1> QED
  BY <1>1, Health, PTL

\* What was computed without a refresh decrypts to the value of its circuit, and
\* with the gate as it is the evaluator returns nothing else.
THEOREM Exactness == Spec => []DecryptsExactly
<1>1. GInv => DecryptsExactly
  <2>1. ASSUME GInv, NEW c \in tracked
        PROVE  /\ gate = "closed" => c.exact
               /\ Decrypts(c.noise)
    <3>1. CtOK(c) /\ (gate = "closed" => c.exact = TRUE)
      BY <2>1, Zenon DEF GInv, LevelInv
    <3> QED  BY <3>1, CoveredDecrypts
  <2> QED  BY <2>1, Zenon DEF DecryptsExactly
<1> QED
  BY <1>1, Health, PTL

=============================================================================
