------------------------------- MODULE GroGate -------------------------------
(***************************************************************************)
(* GroGate (crates/clockwork-core/src/gro.rs), behind TimingGate           *)
(* (crates/nine65/src/security/gro_gate.rs): two phase accumulators that   *)
(* step at different rates; key operations run in the windows where their  *)
(* phases are close.  Times are u64 and wrap, at TimeWord here.            *)
(***************************************************************************)
EXTENDS Numbers, FiniteSets

CONSTANTS
  TimeBits,     \* 64
  MinAccBits,   \* 8
  Steps,        \* phase increments a caller passes
  Widths,       \* window widths a caller passes
  Fibonacci     \* the two consecutive Fibonacci numbers of golden_ratio

ASSUME GroGateAssumption ==
  /\ TimeBits \in Nat /\ MinAccBits \in Nat \ {0}
  /\ Steps \subseteq Nat /\ Widths \subseteq Nat
  /\ Fibonacci \in (Nat \ {0}) \X (Nat \ {0})

VARIABLES
  accBits, stepA, stepB, width,   \* of the gate
  golden,                         \* made by golden_ratio
  time

gateVars == <<accBits, stepA, stepB, width, golden, time>>

TimeWord == TwoTo[TimeBits]
Circle   == TwoTo[accBits]

\* Of a pair <<a, b>>
Gcd[p \in Nat \X Nat] == IF p[2] = 0 THEN p[1] ELSE Gcd[<<p[2], p[1] % p[2]>>]

GcdOf(a, b) == Gcd[<<a, b>>]

-----------------------------------------------------------------------------
(* Construction.  The difference of the increments is not looked at.        *)

Made(bits, a, b, w) ==
  /\ bits \in MinAccBits .. TimeBits - 1
  /\ a # 0 /\ b # 0
  /\ w # 0 /\ w <= (TwoTo[bits] - 1) \div 2
  /\ accBits = bits /\ width = w
  /\ stepA = a % TwoTo[bits] /\ stepB = b % TwoTo[bits]
  /\ time = 0

\* The second increment is moved by one when the difference is even.
Nudged(a, b) == IF (b - a) % 2 = 0 THEN b + 1 ELSE b

GoldenStep(a) == (a * Fibonacci[2]) \div Fibonacci[1]

GateInit ==
  \/ /\ \E bits \in MinAccBits .. TimeBits - 1, a, b \in Steps, w \in Widths : Made(bits, a, b, w)
     /\ golden = FALSE
  \/ /\ \E bits \in MinAccBits .. TimeBits - 1, a \in Steps, w \in Widths :
          /\ GoldenStep(a) < TwoTo[bits]
          /\ Made(bits, a, Nudged(a, GoldenStep(a)), w)
     /\ golden = TRUE

-----------------------------------------------------------------------------

PhaseA(t) == ((t * stepA) % TimeWord) % Circle
PhaseB(t) == ((t * stepB) % TimeWord) % Circle

PhaseDiff(t) ==
  LET raw == IF PhaseA(t) >= PhaseB(t) THEN PhaseA(t) - PhaseB(t)
             ELSE PhaseB(t) - PhaseA(t)
  IN  IF raw > Circle \div 2 THEN Circle - raw ELSE raw

IsWindow(t) == PhaseDiff(t) < width

StepDifference == (stepA - stepB) % Circle

\* Variant: the common divisor is not divided out.
CoincidencePeriod_Half == Circle \div (2 * GcdOf(StepDifference, Circle))

CoincidencePeriod == Circle \div GcdOf(StepDifference, Circle)

IsMaximalPeriod == StepDifference % 2 = 1

Earliest(times) == CHOOSE t \in times : \A u \in times : t <= u

NoWindow == [start |-> -1, end |-> -1]

\* The first window found in the next steps, as far as it was looked at
NextWindow(from, steps) ==
  LET limit  == IF from + steps >= TimeWord THEN TimeWord - 1 ELSE from + steps
      open   == {t \in from .. limit - 1 : IsWindow(t)}
      start  == Earliest(open)
      closed == {t \in start .. limit - 1 : ~ IsWindow(t)} \cup {limit}
  IN  IF open = {} THEN NoWindow ELSE [start |-> start, end |-> Earliest(closed)]

WindowsIn(from, to) == Cardinality({t \in from .. to - 1 : IsWindow(t)})

Advance ==
  /\ time' = (time + 1) % TimeWord
  /\ UNCHANGED <<accBits, stepA, stepB, width, golden>>

GateSpec == GateInit /\ [][Advance]_gateVars

-----------------------------------------------------------------------------
(* Properties.                                                              *)

\* From any time on, also where the time wraps, windows repeat with the
\* coincidence period: a search of one period always finds one, every period
\* has the same number of open steps, and a golden gate has the longest period
\* (gro.rs coincidence_period, next_window, golden_ratio).
WindowsRecur ==
  LET period == CoincidencePeriod
      gcd    == GcdOf(StepDifference, Circle)
  IN  /\ IsWindow((time + period) % TimeWord) = IsWindow(time)
      /\ time + period < TimeWord =>
           /\ NextWindow(time, period) # NoWindow
           /\ WindowsIn(time, time + period) = 2 * ((width - 1) \div gcd) + 1
      /\ golden => IsMaximalPeriod /\ period = Circle

=============================================================================
