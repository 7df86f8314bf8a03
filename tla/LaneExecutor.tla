---------------------------- MODULE LaneExecutor ----------------------------
(***************************************************************************)
(* run_lanes (crates/mana/src/executor.rs): one call that computes a pure  *)
(* function for every lane index on scoped threads, which claim indices    *)
(* from an atomic counter.  It is the executor under the limb loops of     *)
(* nine65.  In a build that aborts on panic the process ends at the first  *)
(* panic; the steps after a panic are those of a build that unwinds.       *)
(***************************************************************************)
EXTENDS Naturals

CONSTANTS
  WorkerCount,  \* available_parallelism
  MaxLanes,     \* bound on the lanes of a call
  Result,       \* what lane_fn returns for each lane
  None          \* no lane, no output

ASSUME LaneExecutorAssumption ==
  /\ WorkerCount \in Nat
  /\ MaxLanes \in Nat

VARIABLES
  lanes,    \* lanes of the call
  faulty,   \* lanes for which lane_fn panics
  spawned,  \* threads started
  next,     \* the atomic counter
  pc,       \* where each thread is
  lane,     \* the lane a thread has claimed last
  bucket,   \* the pairs of lane and value each thread has computed
  joined,   \* threads joined, in the order they were started
  calls,    \* invocations of lane_fn, by lane
  outcome,  \* of the call
  output    \* the vector returned

call     == <<lanes, faulty>>
threads  == <<next, pc, lane, bucket, calls>>
main     == <<spawned, joined, outcome, output>>
laneVars == <<call, threads, main>>

AllLanes == 0 .. MaxLanes - 1
Lane     == 0 .. lanes - 1
Thread   == 1 .. WorkerCount
Workers  == IF WorkerCount < lanes THEN WorkerCount ELSE lanes
Parallel == lanes > 1 /\ Workers > 1
Ended    == {"done", "panicked"}

\* What a thread keeps of a lane it has computed
Pair(i) == <<i, Result[i]>>

LaneInit ==
  /\ lanes \in 0 .. MaxLanes
  /\ faulty \in SUBSET Lane
  /\ spawned = 0
  /\ next = 0
  /\ pc = [t \in Thread |-> "absent"]
  /\ lane = [t \in Thread |-> None]
  /\ bucket = [t \in Thread |-> {}]
  /\ joined = 0
  /\ calls = [i \in AllLanes |-> 0]
  /\ outcome = "running"
  /\ output = None

\* Few lanes or one core: a plain loop, which a panicking lane ends.
Sequential ==
  /\ outcome = "running"
  /\ ~ Parallel
  /\ calls' = [i \in AllLanes |-> IF i \in Lane /\ \A j \in faulty : i <= j THEN 1 ELSE 0]
  /\ IF faulty = {}
     THEN outcome' = "returned" /\ output' = [i \in Lane |-> Result[i]]
     ELSE outcome' = "panicked" /\ UNCHANGED output
  /\ UNCHANGED <<call, next, pc, lane, bucket, spawned, joined>>

-----------------------------------------------------------------------------
(* The worker threads.                                                      *)

\* Variant: the last lane is left out.
IsPast_TooEarly(i) == i + 1 >= lanes

IsPast(i) == i >= lanes

\* fetch_add, the test and the start of lane_fn
Claim(t) ==
  /\ pc[t] = "claiming"
  /\ next' = next + 1
  /\ IF IsPast(next)
     THEN /\ pc' = [pc EXCEPT ![t] = "done"]
          /\ UNCHANGED <<lane, calls>>
     ELSE /\ pc' = [pc EXCEPT ![t] = "computing"]
          /\ lane' = [lane EXCEPT ![t] = next]
          /\ calls' = [calls EXCEPT ![next] = @ + 1]
  /\ UNCHANGED <<call, main, bucket>>

Compute(t) ==
  /\ pc[t] = "computing"
  /\ lane[t] \notin faulty
  /\ bucket' = [bucket EXCEPT ![t] = @ \cup {Pair(lane[t])}]
  /\ pc' = [pc EXCEPT ![t] = "claiming"]
  /\ UNCHANGED <<call, main, next, lane, calls>>

\* The thread unwinds; what it had computed is dropped with it.
LanePanics(t) ==
  /\ pc[t] = "computing"
  /\ lane[t] \in faulty
  /\ bucket' = [bucket EXCEPT ![t] = {}]
  /\ pc' = [pc EXCEPT ![t] = "panicked"]
  /\ UNCHANGED <<call, main, next, lane, calls>>

-----------------------------------------------------------------------------
(* The calling thread.                                                      *)

Spawning == outcome = "running" /\ Parallel /\ spawned < Workers
Joining  == outcome = "running" /\ Parallel /\ spawned = Workers

Spawn ==
  /\ Spawning
  /\ spawned' = spawned + 1
  /\ pc' = [pc EXCEPT ![spawned + 1] = "claiming"]
  /\ UNCHANGED <<call, next, lane, bucket, calls, joined, outcome, output>>

\* scope.spawn panics when the system has no thread to give.
SpawnFails ==
  /\ Spawning
  /\ outcome' = "unwinding"
  /\ UNCHANGED <<call, threads, spawned, joined, output>>

\* Variant: the loop waits for a thread to succeed.
Join_AwaitsSuccess ==
  /\ Joining
  /\ joined < Workers
  /\ pc[joined + 1] = "done"
  /\ joined' = joined + 1
  /\ UNCHANGED <<call, threads, spawned, outcome, output>>

\* h.join().expect(..), in the order of the handles
Join ==
  /\ Joining
  /\ joined < Workers
  /\ pc[joined + 1] \in Ended
  /\ IF pc[joined + 1] = "done"
     THEN joined' = joined + 1 /\ UNCHANGED outcome
     ELSE outcome' = "unwinding" /\ UNCHANGED joined
  /\ UNCHANGED <<call, threads, spawned, output>>

\* Variant: threads that are not scoped are left behind.
Unwind_AtOnce ==
  /\ outcome = "unwinding"
  /\ outcome' = IF spawned < Workers THEN "no_thread" ELSE "panicked"
  /\ UNCHANGED <<call, threads, spawned, joined, output>>

\* The scope ends only when every thread it started has ended.
Unwind ==
  /\ outcome = "unwinding"
  /\ \A t \in 1 .. spawned : pc[t] \in Ended
  /\ outcome' = IF spawned < Workers THEN "no_thread" ELSE "panicked"
  /\ UNCHANGED <<call, threads, spawned, joined, output>>

\* Values go to the slots their lane indices name; an empty slot panics.
Collect ==
  /\ Joining
  /\ joined = Workers
  /\ LET results == UNION {bucket[t] : t \in 1 .. Workers}
     IN  IF \A i \in Lane : \E r \in results : r[1] = i
         THEN /\ outcome' = "returned"
              /\ output' = [i \in Lane |-> (CHOOSE r \in results : r[1] = i)[2]]
         ELSE outcome' = "panicked" /\ UNCHANGED output
  /\ UNCHANGED <<call, threads, spawned, joined>>

Step(t) == Claim(t) \/ Compute(t) \/ LanePanics(t)

Main == Sequential \/ Spawn \/ Join \/ Unwind \/ Collect

LaneNext == Main \/ SpawnFails \/ \E t \in Thread : Step(t)

LaneSpec == LaneInit /\ [][LaneNext]_laneVars

\* The operating system schedules every thread and lane_fn terminates.
LaneFairness == WF_laneVars(Main) /\ \A t \in Thread : WF_laneVars(Step(t))

FairLaneSpec == LaneSpec /\ LaneFairness

-----------------------------------------------------------------------------

Returned == outcome \in {"returned", "panicked", "no_thread"}

\* What a thread works on is a lane of the call.
LaneTypeOK ==
  /\ lanes \in 0 .. MaxLanes
  /\ faulty \subseteq Lane
  /\ spawned \in 0 .. WorkerCount
  /\ next \in Nat
  /\ pc \in [Thread -> {"absent", "claiming", "computing", "done", "panicked"}]
  /\ lane \in [Thread -> Lane \cup {None}]
  /\ bucket \in [Thread -> SUBSET {Pair(i) : i \in Lane}]
  /\ joined \in 0 .. spawned
  /\ calls \in [AllLanes -> Nat]
  /\ outcome \in {"running", "unwinding", "returned", "panicked", "no_thread"}

\* "It is invoked exactly once per lane": never twice, whichever threads race
\* for the counter, and for every lane when the call returns a vector.
EachLaneOnce ==
  /\ \A i \in AllLanes : calls[i] <= 1
  /\ outcome = "returned" => \A i \in Lane : calls[i] = 1

\* No thread still runs the caller's closure, which may borrow from the
\* caller's stack, when the call is over, also when the caller unwinds.
NoThreadOutlivesCall ==
  Returned => \A t \in Thread : pc[t] \in Ended \cup {"absent"}

\* Every call ends, whatever lanes panic while others still compute.
CallEnds == <> Returned

Map == INSTANCE LaneMap WITH
  outcome <- IF outcome = "unwinding" THEN "running" ELSE outcome

\* "Output is bit-identical to (0..lanes).map(lane_fn).collect() for every
\* thread count": whatever thread computes what in which order, the call is one
\* step of a sequential map, and it fails only if a lane panics or a thread
\* cannot be had; it never returns a part of the result, and never misses one.
ImplementsMap == Map!Spec

=============================================================================
