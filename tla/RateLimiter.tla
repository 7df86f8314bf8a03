----------------------------- MODULE RateLimiter -----------------------------
(***************************************************************************)
(* The per-tenant request limit of fhe-service: AppMetrics::allow_request  *)
(* and rate_limit_allows (handlers.rs).  A connection thread first reads   *)
(* the minute and only then takes the rate_windows mutex, so that threads  *)
(* may decide in another order than they read the clock.  Nothing inside   *)
(* the critical section can panic: the mutex is never poisoned.            *)
(***************************************************************************)
EXTENDS Integers, FiniteSets

CONSTANTS
  Worker,      \* connection threads
  Tenant,      \* authenticated tenants
  Limit,       \* FHE_RATE_LIMIT_PER_MINUTE
  None,        \* no window, no request
  MaxMinute,   \* bound on the clock
  MaxRequests  \* bound on the requests of a behaviour

ASSUME RateLimiterAssumption ==
  /\ IsFiniteSet(Worker) /\ Worker # {}
  /\ Limit \in Nat \ {0}
  /\ None \notin [minute : Nat, requests : Nat] \cup [tenant : Tenant, minute : Nat]
  /\ MaxMinute \in Nat
  /\ MaxRequests \in Nat

VARIABLES
  minute,    \* unix_now_seconds() / 60; the clock is taken not to step back
  windows,   \* AppMetrics.rate_windows
  arrival,   \* the tenant and minute of the request each thread is deciding
  admitted,  \* requests let through, by tenant and minute of arrival
  requests   \* requests made

vars == <<minute, windows, arrival, admitted, requests>>

Minute == 0 .. MaxMinute

Init ==
  /\ minute = 0
  /\ windows = [t \in Tenant |-> None]
  /\ arrival = [w \in Worker |-> None]
  /\ admitted = [t \in Tenant |-> [m \in Minute |-> 0]]
  /\ requests = 0

NextMinute ==
  /\ minute < MaxMinute
  /\ minute' = minute + 1
  /\ UNCHANGED <<windows, arrival, admitted, requests>>

\* allow_request, before the lock
ReadClock(w, t) ==
  /\ arrival[w] = None
  /\ requests < MaxRequests
  /\ arrival' = [arrival EXCEPT ![w] = [tenant |-> t, minute |-> minute]]
  /\ requests' = requests + 1
  /\ UNCHANGED <<minute, windows, admitted>>

\* Variant: a new minute keeps the count of the old one.
Window_KeepsCount(t, m) ==
  IF windows[t] = None THEN [minute |-> m, requests |-> 0]
  ELSE [windows[t] EXCEPT !.minute = m]

\* The tenant's window, opened or reset when it is not that of minute m
Window(t, m) ==
  IF windows[t] # None /\ windows[t].minute = m
  THEN windows[t]
  ELSE [minute |-> m, requests |-> 0]

\* Variant: the comparison is strict.
HasAllowance_OffByOne(window) == window.requests <= Limit

HasAllowance(window) == window.requests < Limit

\* allow_request under the lock, with rate_limit_allows
Decide(w) ==
  /\ arrival[w] # None
  /\ LET t == arrival[w].tenant
         m == arrival[w].minute
         window == Window(t, m)
     IN  IF HasAllowance(window)
         THEN /\ windows' = [windows EXCEPT ![t] = [window EXCEPT !.requests = @ + 1]]
              /\ admitted' = [admitted EXCEPT ![t][m] = @ + 1]
         ELSE /\ windows' = [windows EXCEPT ![t] = window]
              /\ UNCHANGED admitted
  /\ arrival' = [arrival EXCEPT ![w] = None]
  /\ UNCHANGED <<minute, requests>>

Next ==
  \/ NextMinute
  \/ \E w \in Worker : Decide(w) \/ \E t \in Tenant : ReadClock(w, t)

Spec == Init /\ [][Next]_vars

-----------------------------------------------------------------------------

\* Windows and requests carry minutes the clock has shown, and no window
\* counts more than the limit.
TypeOK ==
  /\ minute \in Minute
  /\ windows \in [Tenant -> [minute : 0 .. minute, requests : 0 .. Limit] \cup {None}]
  /\ arrival \in [Worker -> [tenant : Tenant, minute : 0 .. minute] \cup {None}]
  /\ admitted \in [Tenant -> [Minute -> Nat]]
  /\ requests \in 0 .. MaxRequests

\* A request is refused only when its own tenant has used up the limit in the
\* request's own minute, whatever other tenants and late threads have done to
\* the windows in between.
RefusedOnlyAtLimit ==
  [][\A w \in Worker :
       arrival[w] # None /\ arrival'[w] = None /\ admitted' = admitted =>
         admitted[arrival[w].tenant][arrival[w].minute] >= Limit]_vars

\* A thread that reads the clock before a minute ends and decides after it
\* reopens the window of the earlier minute, and the next request reopens the
\* window of the current one.  Each thread can do that once per minute, so the
\* excess over the limit is bounded by the number of threads; with one thread
\* the limit is exact.
OvershootIsBounded ==
  \A t \in Tenant, m \in Minute :
    admitted[t][m] <= Limit * Cardinality(Worker) + Cardinality(Worker) - 1

\* README.md: "Protected requests are limited per tenant in exact integer
\* one-minute windows": no tenant gets more than the limit in a minute.
WindowIsExact ==
  \A t \in Tenant, m \in Minute : admitted[t][m] <= Limit

=============================================================================
