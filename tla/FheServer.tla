------------------------------ MODULE FheServer ------------------------------
(***************************************************************************)
(* The process of fhe-service: the accept loop with its connection limit,  *)
(* one thread per connection, the panic boundary around the handlers       *)
(* (main.rs) and the request counters of the router (handlers.rs).  A      *)
(* connection carries one request: should_keep_alive (http.rs) is always   *)
(* false.  What the handlers do to sessions is the subject of              *)
(* SessionStore.                                                           *)
(***************************************************************************)
EXTENDS Integers, FiniteSets

CONSTANTS
  Connection,      \* connections made by clients
  MaxConnections,  \* FHE_MAX_CONNECTIONS
  PanicUnwinds     \* panic = "unwind"; the release profile says "abort"

ASSUME FheServerAssumption ==
  /\ IsFiniteSet(Connection)
  /\ MaxConnections \in Nat
  /\ PanicUnwinds \in BOOLEAN

VARIABLES
  process,    \* the process runs, or why it ended
  stage,      \* where each connection is
  current,    \* what the accept loop's fetch_add returned
  active,     \* AppState.active_connections
  answer,     \* the status class each client was answered with
  total,      \* AppMetrics.requests_total
  failed      \* AppMetrics.requests_failed

counters == <<total, failed>>
serverVars == <<process, stage, current, active, answer, counters>>

Stages == {"absent", "waiting", "accepted", "reading", "read", "routed",
           "handled", "closing", "closed"}
Answers == {"none", "busy", "malformed", "unauthorized", "ok", "error", "panic"}

Alive == process = "running"

\* Connections that a spawned thread serves
Served == {c \in Connection : stage[c] \in {"reading", "read", "routed", "handled", "closing"}}

\* Those of them whose thread waits for a request, for a handler or for the
\* answer to be taken
Waits == {c \in Connection : stage[c] \in {"reading", "routed", "handled"}}

Accepted == {c \in Connection : stage[c] = "accepted"}

ServerInit ==
  /\ process = "running"
  /\ stage = [c \in Connection |-> "absent"]
  /\ current = 0
  /\ active = 0
  /\ answer = [c \in Connection |-> "none"]
  /\ total = 0
  /\ failed = 0

Go(c, to) == stage' = [stage EXCEPT ![c] = to]
Reply(c, a) == answer' = [answer EXCEPT ![c] = a]

Connect(c) ==
  /\ stage[c] = "absent"
  /\ Go(c, "waiting")
  /\ UNCHANGED <<process, current, active, answer, counters>>

-----------------------------------------------------------------------------
(* The accept loop: one connection at a time.                               *)

Accept(c) ==
  /\ Alive
  /\ stage[c] = "waiting"
  /\ Accepted = {}
  /\ current' = active
  /\ active' = active + 1
  /\ Go(c, "accepted")
  /\ UNCHANGED <<process, answer, counters>>

\* Variant: one connection too many.
IsFull_OffByOne == current > MaxConnections

IsFull == current >= MaxConnections

\* Variant: the refused connection's count is kept.
Refuse_KeepsCount(c) ==
  /\ Alive
  /\ stage[c] = "accepted"
  /\ IsFull
  /\ Reply(c, "busy")
  /\ Go(c, "closed")
  /\ UNCHANGED <<process, current, active, counters>>

Refuse(c) ==
  /\ Alive
  /\ stage[c] = "accepted"
  /\ IsFull
  /\ active' = active - 1
  /\ Reply(c, "busy")
  /\ Go(c, "closed")
  /\ UNCHANGED <<process, current, counters>>

\* std::thread::spawn panics when the system has no thread to give, and the
\* accept loop is the main thread: the process ends.
SpawnThread(c) ==
  /\ Alive
  /\ stage[c] = "accepted"
  /\ ~ IsFull
  /\ \/ Go(c, "reading") /\ UNCHANGED process
     \/ Go(c, "closed") /\ process' = "out of threads"
  /\ UNCHANGED <<current, active, answer, counters>>

-----------------------------------------------------------------------------
(* serve_connection                                                         *)

Read(c) ==
  /\ Alive
  /\ stage[c] = "reading"
  /\ Go(c, "read")
  /\ UNCHANGED <<process, current, active, answer, counters>>

\* The client closes, stays silent for 5 seconds, or sends what cannot be
\* parsed and may be told so.
ReadFails(c) ==
  /\ Alive
  /\ stage[c] = "reading"
  /\ \E a \in {"none", "malformed"} : Reply(c, a)
  /\ Go(c, "closing")
  /\ UNCHANGED <<process, current, active, counters>>

\* authorize_and_normalize refuses before the router is called.
Unauthorized(c) ==
  /\ Alive
  /\ stage[c] = "read"
  /\ Reply(c, "unauthorized")
  /\ Go(c, "handled")
  /\ UNCHANGED <<process, current, active, counters>>

\* route counts the request first
Route(c) ==
  /\ Alive
  /\ stage[c] = "read"
  /\ total' = total + 1
  /\ Go(c, "routed")
  /\ UNCHANGED <<process, current, active, answer, failed>>

\* Every return of route: an answer of status 400 or more is counted.
HandlerReturns(c) ==
  /\ Alive
  /\ stage[c] = "routed"
  /\ \E a \in {"ok", "error"} :
       /\ Reply(c, a)
       /\ failed' = failed + IF a = "error" THEN 1 ELSE 0
  /\ Go(c, "handled")
  /\ UNCHANGED <<process, current, active, total>>

\* Variant: the panic passes the boundary and ends the connection's thread.
HandlerPanics_EndsThread(c) ==
  /\ Alive
  /\ stage[c] = "routed"
  /\ Go(c, "closed")
  /\ UNCHANGED <<process, current, active, answer, counters>>

\* A handler panics.  catch_unwind turns it into a 500 when the build unwinds;
\* else the process ends, and with it every connection.
HandlerPanics(c) ==
  /\ Alive
  /\ stage[c] = "routed"
  /\ IF PanicUnwinds
     THEN /\ Reply(c, "panic")
          /\ Go(c, "handled")
          /\ UNCHANGED process
     ELSE /\ process' = "panicked"
          /\ Go(c, "closed")
          /\ UNCHANGED answer
  /\ UNCHANGED <<current, active, counters>>

\* The response is written, or the write fails.
Write(c) ==
  /\ Alive
  /\ stage[c] = "handled"
  /\ Go(c, "closing")
  /\ UNCHANGED <<process, current, active, answer, counters>>

\* The thread's last step gives its slot back.
Release(c) ==
  /\ Alive
  /\ stage[c] = "closing"
  /\ active' = active - 1
  /\ Go(c, "closed")
  /\ UNCHANGED <<process, current, answer, counters>>

AcceptLoop == \E c \in Connection : Accept(c) \/ Refuse(c) \/ SpawnThread(c)

\* The steps that a client or a handler decides on.  The timeout bounds each
\* read, not the request, and nothing bounds a write or a handler.
Others(c) ==
  Read(c) \/ ReadFails(c) \/ HandlerReturns(c) \/ HandlerPanics(c) \/ Write(c)

\* The thread's own steps
Proceed(c) == Unauthorized(c) \/ Route(c) \/ Release(c)

Serve(c) == Others(c) \/ Proceed(c)

\* Nothing is left to do.
Finished ==
  /\ ~ Alive \/ \A c \in Connection : stage[c] = "closed"
  /\ UNCHANGED serverVars

ServerNext ==
  \/ AcceptLoop
  \/ \E c \in Connection : Connect(c) \/ Serve(c)
  \/ Finished

ServerSpec == ServerInit /\ [][ServerNext]_serverVars

\* The threads are scheduled.  Clients and handlers may never end.
ServerFairness ==
  WF_serverVars(AcceptLoop) /\ \A c \in Connection : WF_serverVars(Proceed(c))

ServerFairSpec == ServerSpec /\ ServerFairness

-----------------------------------------------------------------------------
(* Properties.                                                              *)

\* The counters stay within the connections that exist.
ServerTypeOK ==
  /\ process \in {"running", "panicked", "out of threads"}
  /\ stage \in [Connection -> Stages]
  /\ current \in 0 .. Cardinality(Connection)
  /\ active \in 0 .. Cardinality(Connection)
  /\ answer \in [Connection -> Answers]
  /\ total \in 0 .. Cardinality(Connection)
  /\ failed \in 0 .. total

\* However threads end between the accept loop's fetch_add and its
\* comparison, no more than the limit are ever served at once.
ServedWithinLimit == Cardinality(Served) <= MaxConnections

\* A slot is never leaked and never given back twice, on any path out of a
\* connection: refusal, silence, parse error, refused credentials, a panicking
\* handler or a failed write.  A leaked slot would lower the limit for good.
NoSlotIsLost == Alive => active = Cardinality(Served \cup Accepted)

\* "busy" is only answered when the limit's worth of threads were being served
\* at the moment the connection was counted.
RefusedOnlyWhenFull ==
  [][\A c \in Connection :
       stage[c] = "waiting" /\ stage'[c] = "accepted" /\ current' >= MaxConnections =>
         Cardinality(Served) >= MaxConnections]_serverVars

\* Once a connection's client and handler have ended its slot comes back, by
\* whatever way they ended: after the last client has connected, the slots
\* that are taken are in the end those of connections whose client or handler
\* has not ended, which may keep theirs for ever, and every other connection
\* is closed.
SlotsComeBack ==
  (\A c \in Connection : stage[c] # "absent")
    ~> (Alive => /\ active = Cardinality(Waits)
                 /\ \A c \in Connection \ Waits : stage[c] = "closed")

=============================================================================
