------------------------------- MODULE LaneMap -------------------------------
(***************************************************************************)
(* The contract of the lane executor: the call returns what a sequential   *)
(* map over the lanes returns, or fails as a whole, because a lane panics  *)
(* or because the system has no thread to give.                            *)
(***************************************************************************)
EXTENDS Naturals

CONSTANTS MaxLanes, Result, None

VARIABLES lanes, faulty, outcome, output

vars == <<lanes, faulty, outcome, output>>

Init ==
  /\ lanes \in 0 .. MaxLanes
  /\ faulty \in SUBSET (0 .. lanes - 1)
  /\ outcome = "running"
  /\ output = None

Ends(how) ==
  /\ outcome = "running"
  /\ outcome' = how
  /\ UNCHANGED <<lanes, faulty>>

Return ==
  /\ faulty = {}
  /\ Ends("returned")
  /\ output' = [i \in 0 .. lanes - 1 |-> Result[i]]

Panic == faulty # {} /\ Ends("panicked") /\ UNCHANGED output

NoThread == lanes > 1 /\ Ends("no_thread") /\ UNCHANGED output

Next == Return \/ Panic \/ NoThread

Spec == Init /\ [][Next]_vars

=============================================================================
