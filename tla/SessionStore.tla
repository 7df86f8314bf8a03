---------------------------- MODULE SessionStore ----------------------------
(***************************************************************************)
(* The session store of fhe-service (crates/fhe-service/src/session.rs):   *)
(* a HashMap of Arc<RwLock<Session>> behind a RwLock, used by the          *)
(* connection threads and by one reaper thread.                            *)
(*                                                                         *)
(* What is kept: both levels of locks, the order they are taken in, lock   *)
(* poisoning, the tenant check, the capacity check, the access time and    *)
(* the moment each thread samples the clock.  What is abstracted: key      *)
(* material and the work done under the session lock (MainQSession models  *)
(* it); a get, an encrypt, an evaluate and a decrypt take the same two     *)
(* locks in the same order, so they are one request here.                  *)
(***************************************************************************)
EXTENDS Naturals, FiniteSets

CONSTANTS
  Worker,       \* connection threads
  Reaper,       \* the background thread of main()
  SessionId,    \* identifiers generate_session_id can return
  Tenant,       \* authenticated tenants
  None,         \* no thread / no session / no tenant
  MaxSessions,  \* FHE_MAX_SESSIONS
  Ttl,          \* FHE_SESSION_TTL, in clock units
  PanicUnwinds, \* TRUE: dev profile; FALSE: release profile (panic = "abort")
  MaxClock,     \* bound on the clock
  MaxRequests   \* bound on the requests of one connection thread

Thread == Worker \cup {Reaper}

ASSUME SessionStoreAssumption ==
  /\ None \notin Thread \cup SessionId \cup Tenant
  /\ Reaper \notin Worker
  /\ MaxSessions \in Nat
  /\ Ttl \in Nat
  /\ MaxClock \in Nat
  /\ MaxRequests \in Nat
  /\ PanicUnwinds \in BOOLEAN

VARIABLES
  map,          \* keys of SessionStore.sessions
  tenantOf,     \* Session.tenant_id (fixed when the session is generated)
  lastAccessed, \* Session.last_accessed
  poisoned,     \* sessions whose RwLock is poisoned
  storeWriter,  \* holder of the store's write guard
  storeReaders, \* holders of the store's read guard
  sessionGuard, \* holder of each session's write guard
  pc,           \* where each thread is
  target,       \* session a worker's request names (or has generated)
  caller,       \* authenticated tenant of a worker's request
  reaperNow,    \* current_time of reap_expired_sessions
  clock,        \* unix_now_seconds()
  generated,    \* identifiers handed out by generate_session_id
  left          \* requests each worker may still start

data  == <<tenantOf, lastAccessed, poisoned, generated>>
locks == <<storeWriter, storeReaders, sessionGuard>>
vars  == <<map, data, locks, pc, target, caller, reaperNow, clock, left>>

PC == {"idle", "inserting", "looking", "locking", "operating",
       "removing", "deciding", "waiting", "retaining"}

Init ==
  /\ map = {}
  /\ tenantOf = [i \in SessionId |-> None]
  /\ lastAccessed = [i \in SessionId |-> 0]
  /\ poisoned = {}
  /\ storeWriter = None
  /\ storeReaders = {}
  /\ sessionGuard = [i \in SessionId |-> None]
  /\ pc = [t \in Thread |-> "idle"]
  /\ target = [w \in Worker |-> None]
  /\ caller = [w \in Worker |-> None]
  /\ reaperNow = 0
  /\ clock = 0
  /\ generated = {}
  /\ left = [w \in Worker |-> MaxRequests]

-----------------------------------------------------------------------------
(* The locks.  std::sync::RwLock: a writer excludes everyone, readers only  *)
(* writers.                                                                 *)

StoreFreeForRead  == storeWriter = None
StoreFreeForWrite == storeWriter = None /\ storeReaders = {}

\* The handler returns its response: the thread holds nothing any more.
Answer(w) ==
  /\ pc' = [pc EXCEPT ![w] = "idle"]
  /\ target' = [target EXCEPT ![w] = None]
  /\ caller' = [caller EXCEPT ![w] = None]

-----------------------------------------------------------------------------
(* A request reaches its handler with its authenticated tenant.             *)

Start(w, tn, id, at) ==
  /\ pc[w] = "idle"
  /\ left[w] > 0
  /\ left' = [left EXCEPT ![w] = @ - 1]
  /\ pc' = [pc EXCEPT ![w] = at]
  /\ target' = [target EXCEPT ![w] = id]
  /\ caller' = [caller EXCEPT ![w] = tn]
  /\ UNCHANGED <<map, locks, poisoned, reaperNow, clock>>

\* POST /v1/sessions: the session is generated, with its tenant and its
\* time stamps, before the store is locked.  Identifiers are 128 random bits
\* and are taken not to collide.
GenerateSession(w, tn, id) ==
  /\ id \notin generated
  /\ Start(w, tn, id, "inserting")
  /\ generated' = generated \cup {id}
  /\ tenantOf' = [tenantOf EXCEPT ![id] = tn]
  /\ lastAccessed' = [lastAccessed EXCEPT ![id] = clock]

\* GET, encrypt, evaluate and decrypt name a session.
RequestUse(w, tn, id) ==
  /\ Start(w, tn, id, "looking")
  /\ UNCHANGED data

\* DELETE names a session.
RequestDelete(w, tn, id) ==
  /\ Start(w, tn, id, "removing")
  /\ UNCHANGED data

-----------------------------------------------------------------------------
(* SessionStore::insert, one critical section under the write guard.        *)

HasRoom == Cardinality(map) < MaxSessions

Insert(w) ==
  /\ pc[w] = "inserting"
  /\ StoreFreeForWrite
  /\ map' = IF HasRoom THEN map \cup {target[w]} ELSE map
  /\ Answer(w)
  /\ UNCHANGED <<data, locks, reaperNow, clock, left>>

-----------------------------------------------------------------------------
(* SessionStore::with_session_for_tenant and with_session_mut_for_tenant:   *)
(* the store's read guard is kept while the session is locked and used.     *)

\* Variant: the Arc is cloned and the store's read guard dropped at once.
LookUp_DropsGuard(w) ==
  /\ pc[w] = "looking"
  /\ StoreFreeForRead
  /\ IF target[w] \in map
       THEN /\ pc' = [pc EXCEPT ![w] = "locking"]
            /\ UNCHANGED <<target, caller>>
       ELSE Answer(w)
  /\ UNCHANGED <<map, data, locks, reaperNow, clock, left>>

LookUp(w) ==
  /\ pc[w] = "looking"
  /\ StoreFreeForRead
  /\ IF target[w] \in map
       THEN /\ storeReaders' = storeReaders \cup {w}
            /\ pc' = [pc EXCEPT ![w] = "locking"]
            /\ UNCHANGED <<target, caller>>
       ELSE /\ Answer(w)
            /\ UNCHANGED storeReaders
  /\ UNCHANGED <<map, data, storeWriter, sessionGuard, reaperNow, clock, left>>

\* Variant: a poisoned lock is entered all the same (PoisonError::into_inner).
MayServe_IgnoresPoison(w) == tenantOf[target[w]] = caller[w]

\* Locking a session fails when it is poisoned; the caller of another
\* tenant is refused as if the session were absent.
MayServe(w) == /\ target[w] \notin poisoned
               /\ tenantOf[target[w]] = caller[w]

LockSession(w) ==
  /\ pc[w] = "locking"
  /\ sessionGuard[target[w]] = None
  /\ MayServe(w)
  /\ sessionGuard' = [sessionGuard EXCEPT ![target[w]] = w]
  /\ lastAccessed' = [lastAccessed EXCEPT ![target[w]] = clock]
  /\ pc' = [pc EXCEPT ![w] = "operating"]
  /\ UNCHANGED <<map, tenantOf, poisoned, generated, storeWriter, storeReaders,
                 target, caller, reaperNow, clock, left>>

\* Variant: the refusal forgets the store's read guard.
RefuseSession_LeaksGuard(w) ==
  /\ pc[w] = "locking"
  /\ sessionGuard[target[w]] = None
  /\ ~ MayServe(w)
  /\ Answer(w)
  /\ UNCHANGED <<map, data, locks, reaperNow, clock, left>>

RefuseSession(w) ==
  /\ pc[w] = "locking"
  /\ sessionGuard[target[w]] = None
  /\ ~ MayServe(w)
  /\ storeReaders' = storeReaders \ {w}
  /\ Answer(w)
  /\ UNCHANGED <<map, data, storeWriter, sessionGuard, reaperNow, clock, left>>

\* The closure returns and both guards are dropped.
ReleaseBoth(w) ==
  /\ pc[w] = "operating"
  /\ sessionGuard' = [sessionGuard EXCEPT ![target[w]] = None]
  /\ storeReaders' = storeReaders \ {w}
  /\ Answer(w)
  /\ UNCHANGED <<map, tenantOf, lastAccessed, generated, storeWriter,
                 reaperNow, clock, left>>

Finish(w) == ReleaseBoth(w) /\ UNCHANGED poisoned

\* The closure panics (the entropy source fails inside encrypt).  Unwinding
\* drops the write guard, which poisons the session, and the read guard,
\* which does not poison the store; catch_unwind turns it into a 500.
Panic(w) ==
  /\ PanicUnwinds
  /\ ReleaseBoth(w)
  /\ poisoned' = poisoned \cup {target[w]}

-----------------------------------------------------------------------------
(* SessionStore::remove_for_tenant: the write guard first, then the         *)
(* session's read guard for the tenant check.                               *)

LockForRemove(w) ==
  /\ pc[w] = "removing"
  /\ StoreFreeForWrite
  /\ IF target[w] \in map
       THEN /\ storeWriter' = w
            /\ pc' = [pc EXCEPT ![w] = "deciding"]
            /\ UNCHANGED <<target, caller>>
       ELSE /\ Answer(w)
            /\ UNCHANGED storeWriter
  /\ UNCHANGED <<map, data, storeReaders, sessionGuard, reaperNow, clock, left>>

Remove(w) ==
  /\ pc[w] = "deciding"
  /\ sessionGuard[target[w]] = None
  /\ map' = IF MayServe(w) THEN map \ {target[w]} ELSE map
  /\ storeWriter' = None
  /\ Answer(w)
  /\ UNCHANGED <<data, storeReaders, sessionGuard, reaperNow, clock, left>>

-----------------------------------------------------------------------------
(* The reaper: SessionStore::reap_expired_sessions, every 60 seconds.  The  *)
(* clock is sampled before the write guard is obtained.                     *)

SampleTime ==
  /\ pc[Reaper] = "idle"
  /\ reaperNow' = clock
  /\ pc' = [pc EXCEPT ![Reaper] = "waiting"]
  /\ UNCHANGED <<map, data, locks, target, caller, clock, left>>

LockForReap ==
  /\ pc[Reaper] = "waiting"
  /\ StoreFreeForWrite
  /\ storeWriter' = Reaper
  /\ pc' = [pc EXCEPT ![Reaper] = "retaining"]
  /\ UNCHANGED <<map, data, storeReaders, sessionGuard, target, caller,
                 reaperNow, clock, left>>

\* saturating_sub
Age(now, id) == IF now > lastAccessed[id] THEN now - lastAccessed[id] ELSE 0

\* Variants: off by one; one unit of grace.
Keep_OffByOne(id) == id \notin poisoned /\ Age(reaperNow, id) < Ttl
Keep_Grace(id) == id \notin poisoned /\ Age(reaperNow, id) <= Ttl + 1

Keep(id) == id \notin poisoned /\ Age(reaperNow, id) <= Ttl

\* HashMap::retain read-locks every session in turn.
Retain ==
  /\ pc[Reaper] = "retaining"
  /\ \A id \in map : sessionGuard[id] = None
  /\ map' = {id \in map : Keep(id)}
  /\ storeWriter' = None
  /\ pc' = [pc EXCEPT ![Reaper] = "idle"]
  /\ UNCHANGED <<data, storeReaders, sessionGuard, target, caller,
                 reaperNow, clock, left>>

Tick ==
  /\ clock < MaxClock
  /\ clock' = clock + 1
  /\ UNCHANGED <<map, data, locks, pc, target, caller, reaperNow, left>>

-----------------------------------------------------------------------------

Request(w) == \E tn \in Tenant, id \in SessionId :
                \/ GenerateSession(w, tn, id)
                \/ RequestUse(w, tn, id)
                \/ RequestDelete(w, tn, id)

\* The steps of a request already started, the panic aside.
Serve(w) == \/ Insert(w)
            \/ LookUp(w)
            \/ LockSession(w)
            \/ RefuseSession(w)
            \/ Finish(w)
            \/ LockForRemove(w)
            \/ Remove(w)

Reap == SampleTime \/ LockForReap \/ Retain

Next == \/ \E w \in Worker : Request(w) \/ Serve(w) \/ Panic(w)
        \/ Reap
        \/ Tick

Spec == Init /\ [][Next]_vars

\* The operating system keeps scheduling every thread.  A behaviour holds
\* finitely many requests, so weak fairness would do, were it not for the
\* reaper, which takes the write guard in every round of its endless loop.
\* Between two rounds it sleeps 60 seconds holding nothing, which is time for
\* a thread that waits for a lock to get it: strong fairness of the workers.
FairSpec == /\ Spec
            /\ \A w \in Worker : SF_vars(Serve(w))
            /\ WF_vars(Reap)
            /\ WF_vars(Tick)

-----------------------------------------------------------------------------
(* What the session store guarantees its callers.                            *)

\* Every variable has its type; in particular a clock sample never lies in
\* the future.
TypeOK ==
  /\ map \subseteq generated
  /\ generated \subseteq SessionId
  /\ poisoned \subseteq generated
  /\ tenantOf \in [SessionId -> Tenant \cup {None}]
  /\ lastAccessed \in [SessionId -> Nat]
  /\ storeWriter \in Thread \cup {None}
  /\ storeReaders \subseteq Worker
  /\ sessionGuard \in [SessionId -> Worker \cup {None}]
  /\ pc \in [Thread -> PC]
  /\ target \in [Worker -> SessionId \cup {None}]
  /\ caller \in [Worker -> Tenant \cup {None}]
  /\ left \in [Worker -> Nat]
  /\ clock \in Nat
  /\ reaperNow \in 0 .. clock
  /\ \A id \in SessionId : lastAccessed[id] <= clock

\* A worker inside the closure of with_session(_mut)_for_tenant works on a
\* session that is still in the map, is not poisoned, belongs to the
\* worker's tenant and is locked by this worker alone: no request ever acts
\* on a session that a DELETE or the reaper has taken away meanwhile.
NoUseAfterRemove ==
  \A w \in Worker : pc[w] = "operating" =>
    /\ target[w] \in map \ poisoned
    /\ tenantOf[target[w]] = caller[w]
    /\ sessionGuard[target[w]] = w

\* While a thread holds the store's write guard no session guard is held by
\* anyone: the read locks that remove_for_tenant and reap_expired_sessions
\* take under it never wait, so the two lock levels cannot deadlock.
RemoverNeverWaits ==
  storeWriter # None => \A id \in SessionId : sessionGuard[id] = None

\* max_sessions bounds the map although sessions are generated, by any
\* number of threads at once, before the store is locked.
CapacityBound == Cardinality(map) <= MaxSessions

\* A session only leaves the map because its own tenant deleted it or
\* because the reaper found it poisoned or idle for longer than the TTL as
\* measured at that moment: the reaper's time sample is older than its
\* write guard, and that staleness only ever errs towards keeping.
RemovedForCause ==
  [][\A id \in map \ map' :
       \/ \E w \in Worker : /\ pc[w] = "deciding"
                            /\ target[w] = id
                            /\ caller[w] = tenantOf[id]
       \/ pc[Reaper] = "retaining" /\ (id \in poisoned \/ Age(clock, id) > Ttl)]_vars

\* A session that a panic left half-changed fails closed: it is never locked
\* again, its access time never moves again, and no DELETE removes it.
PoisonFailsClosed ==
  [][\A id \in poisoned :
       /\ sessionGuard'[id] = None
       /\ lastAccessed'[id] = lastAccessed[id]
       /\ id \in map \ map' => pc[Reaper] = "retaining"]_vars

\* Every request is answered: no interleaving of lookups, deletes and reaps
\* leaves a thread waiting for a lock for ever.
EveryRequestAnswered ==
  \A w \in Worker : pc[w] # "idle" ~> pc[w] = "idle"

\* No session holds its place in the map for ever: one that is idle for longer
\* than the TTL is used again or reaped, and a poisoned one, which neither its
\* tenant nor a use can free, is reaped.
DueIsReaped ==
  \A id \in SessionId :
    (id \in map /\ (id \in poisoned \/ Age(clock, id) > Ttl))
      ~> (id \notin map \/ (id \notin poisoned /\ Age(clock, id) <= Ttl))

-----------------------------------------------------------------------------
(* The session store implements the lock-free directory SessionDirectory:   *)
(* an entry is a key of the map, and it is leased to the worker that holds   *)
(* the session's write guard.                                                *)

Directory == INSTANCE SessionDirectory WITH
  owner   <- [i \in SessionId |-> IF i \in map THEN tenantOf[i] ELSE None],
  lease   <- sessionGuard,
  spoiled <- poisoned

\* Every step that two threads interleave, with their two levels of locks,
\* is one atomic operation of the directory or leaves it unchanged: in
\* particular a delete or an expiry never takes an entry that a worker uses.
ImplementsDirectory == Directory!Spec

=============================================================================
