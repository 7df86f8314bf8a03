------------------------------ MODULE MCThreads ------------------------------
(* For TLC: the threads of the process, one level at a time: the connections  *)
(* of the server, and a call of the lane executor.  Beside the server the      *)
(* call is the empty one, and beside a call nobody connects.                  *)
EXTENDS FheServer, LaneExecutor

VARIABLE part

\* Different lanes have different results, equal ones aside.
Results == [i \in 0 .. MaxLanes - 1 |-> IF i = 3 THEN 10 ELSE 10 + i]

MCInit ==
  /\ part \in {"server", "executor"}
  /\ ServerInit
  /\ LaneInit /\ (part = "server" => lanes = 0)

\* A call may stop, which CallEnds says is at its end; the server may not.
MCNext ==
  /\ \/ part = "server" /\ ServerNext /\ UNCHANGED laneVars
     \/ LaneNext /\ UNCHANGED serverVars
     \/ part = "executor" /\ UNCHANGED <<serverVars, laneVars>>
  /\ UNCHANGED part

MCSpec ==
  /\ MCInit /\ [][MCNext]_<<part, serverVars, laneVars>>
  /\ ServerFairness /\ LaneFairness
=============================================================================
