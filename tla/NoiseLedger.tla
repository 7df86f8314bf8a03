---------------------------- MODULE NoiseLedger ----------------------------
(***************************************************************************)
(* NoiseBudget (crates/nine65/src/noise/budget.rs): the integer ledger of  *)
(* the noise a ciphertext may carry, and the growth of the noise it        *)
(* stands for.  The code counts millibits; everything the bootstrapping    *)
(* evaluator charges is a whole number of bits, and bits are used here.    *)
(* Noise is the largest coefficient of the error polynomial.               *)
(***************************************************************************)
EXTENDS Integers

CONSTANTS
  Pow2,           \* the powers of two up to MaxBits
  MaxBits,
  RingBits,       \* log2 of the ring degree
  T,              \* plaintext modulus
  PlaintextBits,  \* its bit length
  Eta,            \* width of the error distribution
  ErrorBits,      \* its bit length
  Delta,          \* floor(Q / T)
  DeltaBits,      \* its bit length
  TensorDeposit,  \* what rescaling a tensor product adds to any noise
  RelinNoise      \* what relinearisation adds

N == Pow2[RingBits]

Larger(a, b)  == IF a >= b THEN a ELSE b
Smaller(a, b) == IF a <= b THEN a ELSE b

-----------------------------------------------------------------------------
(* The ledger.                                                              *)

FreshBits   == RingBits + ErrorBits + 2
RefreshBits == PlaintextBits + 2 * RingBits + ErrorBits + 2
GrowthBits  == PlaintextBits + 2 * RingBits + 3

\* Variant: the credit of a prime drop is taken for a product that drops none.
MulCost_DropCredit == GrowthBits + 1 - (PlaintextBits - 1)

AddCost == 1
MulCost == GrowthBits + 1

Capacity   == Larger(DeltaBits - 2, 0)
Start(b)   == Larger(b, PlaintextBits) + 1
BudgetAbove(b) == Larger(Capacity - Start(b), 0)

Seated(bits)    == [remaining |-> bits, cycle |-> bits]
FreshBudget     == Seated(BudgetAbove(FreshBits))
RefreshedBudget == Seated(BudgetAbove(RefreshBits))

\* What a ciphertext must have left to be the input of a refresh
Reserve == RingBits + 1

\* Variant: the boundary of decryption is taken for that of a refresh.
CanPerformWithReserve_NoReserve(budget, cost) == budget.remaining >= cost

CanPerformWithReserve(budget, cost) == budget.remaining - Reserve >= cost

ShouldBootstrap(budget, permille) ==
  1000 * budget.remaining <= budget.cycle * permille

IsFunded(budget, cost) == budget.remaining >= cost
Consume(budget, cost)  == [budget EXCEPT !.remaining = @ - cost]

\* The headroom screen of a public refresh
RefreshFits == DeltaBits - (PlaintextBits + ErrorBits + RingBits) >= MulCost

-----------------------------------------------------------------------------
(* The noise itself, at its worst.                                          *)

FreshNoise   == (2 * N + 1) * Eta
RefreshNoise == 4 * N * N * T * Eta

\* The sum of two plaintexts may wrap, which costs Q mod T.
AddNoise(v, w) == v + w + (T - 1)

MulNoise(v, w) == 2 * N * T * (v + w) * (1 + N) + TensorDeposit + RelinNoise

Decrypts(noise) == 2 * noise < Delta

\* Phase 1 of a refresh rounds to T; beyond this noise the noise alone makes it
\* round wrongly.
InWindow(noise) == 2 * N * noise < Delta

-----------------------------------------------------------------------------
(* The limits of the parameters: bit lengths are bit lengths, and the two   *)
(* deposits keep to the bounds the ledger is derived from.                  *)

ASSUME Pow2Assumption ==
  /\ MaxBits \in Nat
  /\ Pow2 \in [0 .. MaxBits -> Nat \ {0}]

ASSUME Pow2Additive ==
  \A i, j \in 0 .. MaxBits : i + j <= MaxBits => Pow2[i + j] = Pow2[i] * Pow2[j]

ASSUME NoiseLedgerAssumption ==
  /\ RingBits \in Nat
  /\ PlaintextBits \in Nat /\ ErrorBits \in Nat /\ DeltaBits \in Nat
  /\ T \in Nat /\ Eta \in Nat /\ Delta \in Nat
  /\ TensorDeposit \in Nat /\ RelinNoise \in Nat
  /\ T >= 2 /\ Eta >= 1
  /\ 1 <= DeltaBits /\ DeltaBits <= MaxBits
  /\ 1 <= MaxBits /\ Pow2[1] = 2
  /\ T <= Pow2[PlaintextBits]
  /\ Eta <= Pow2[ErrorBits]
  /\ Pow2[DeltaBits - 1] <= Delta
  /\ Start(FreshBits) + GrowthBits <= MaxBits
  /\ Start(RefreshBits) + GrowthBits <= MaxBits
  /\ Capacity >= Start(FreshBits) /\ Capacity >= Start(RefreshBits)

ASSUME DepositAssumption ==
  /\ TensorDeposit <= 4 * N * N * T * T
  /\ RelinNoise <= Pow2[Start(Smaller(FreshBits, RefreshBits)) + GrowthBits]

=============================================================================
