---------------------------- MODULE SessionProofs ----------------------------
(***************************************************************************)
(* Proofs about the two registries of the service: the session store, for  *)
(* every number of threads, sessions and tenants, and the registry of one  *)
(* main-Q session, for any registry size, batch size and noise parameters. *)
(***************************************************************************)
EXTENDS SessionStore, MainQSession, FiniteSetTheorems, TLAPS

-----------------------------------------------------------------------------
(* The session store.                                                       *)

\* Where a worker and the reaper may be, and what each place means for the
\* locks.
WorkerPC == PC \ {"waiting", "retaining"}

Places ==
  /\ pc[Reaper] \in {"idle", "waiting", "retaining"}
  /\ \A w \in Worker : pc[w] \in WorkerPC
  /\ \A w \in Worker : pc[w] # "idle" => target[w] \in SessionId
  /\ \A w \in Worker : pc[w] = "inserting" => target[w] \in generated

StoreLock ==
  /\ storeWriter # None => storeReaders = {}
  /\ \A w \in Worker : w \in storeReaders <=> pc[w] \in {"locking", "operating"}
  /\ \A w \in Worker : storeWriter = w <=> pc[w] = "deciding"
  /\ storeWriter = Reaper <=> pc[Reaper] = "retaining"

Held ==
  /\ \A w \in Worker : pc[w] \in {"locking", "operating", "deciding"} => target[w] \in map
  /\ \A id \in SessionId, w \in Worker :
       sessionGuard[id] = w => pc[w] = "operating" /\ target[w] = id

\* A generated session has a tenant; until it is inserted nobody else knows it.
Owned ==
  /\ \A id \in generated : tenantOf[id] \in Tenant
  /\ \A w \in Worker : pc[w] = "inserting" => target[w] \notin map \cup poisoned
  /\ \A v, w \in Worker :
       pc[v] = "inserting" /\ pc[w] = "inserting" /\ target[v] = target[w] => v = w

Bounded == IsFiniteSet(map) /\ CapacityBound

\* The inductive invariant.
IInv == TypeOK /\ Places /\ StoreLock /\ Held /\ NoUseAfterRemove /\ Owned /\ Bounded

-----------------------------------------------------------------------------
\* At the start nothing is locked and the map is empty.
LEMMA InitInv == Init => IInv
<1>. SUFFICES ASSUME Init PROVE IInv
  OBVIOUS
<1>. USE SessionStoreAssumption
<1>1. TypeOK
  BY DEF Init, TypeOK, PC, Thread
<1>2. Places /\ StoreLock /\ Held /\ NoUseAfterRemove /\ Owned
  BY DEF Init, Places, WorkerPC, PC, StoreLock, Held, NoUseAfterRemove, Owned, Thread
<1>3. Bounded
  BY FS_EmptySet DEF Init, Bounded, CapacityBound
<1>. QED
  BY <1>1, <1>2, <1>3 DEF IInv

\* Every step keeps the types.
LEMMA TypeStep == IInv /\ [Next]_vars => TypeOK'
<1>. SUFFICES ASSUME IInv, [Next]_vars PROVE TypeOK'
  OBVIOUS
<1>. USE SessionStoreAssumption DEF IInv, TypeOK, Thread, data, locks, PC
<1>1. ASSUME NEW w \in Worker, NEW tn \in Tenant, NEW id \in SessionId,
             GenerateSession(w, tn, id)
      PROVE TypeOK'
  BY <1>1 DEF GenerateSession, Start
<1>2. ASSUME NEW w \in Worker, NEW tn \in Tenant, NEW id \in SessionId,
             RequestUse(w, tn, id) \/ RequestDelete(w, tn, id)
      PROVE TypeOK'
  BY <1>2 DEF RequestUse, RequestDelete, Start
<1>3. ASSUME NEW w \in Worker, Insert(w) PROVE TypeOK'
  BY <1>3 DEF Insert, Answer, Places
<1>4. ASSUME NEW w \in Worker, LookUp(w) PROVE TypeOK'
  BY <1>4 DEF LookUp, Answer
<1>5. ASSUME NEW w \in Worker, LockSession(w) PROVE TypeOK'
  BY <1>5 DEF LockSession, Places
<1>6. ASSUME NEW w \in Worker, RefuseSession(w) PROVE TypeOK'
  BY <1>6 DEF RefuseSession, Answer
<1>7. ASSUME NEW w \in Worker, Finish(w) \/ Panic(w) PROVE TypeOK'
  BY <1>7 DEF Finish, Panic, ReleaseBoth, Answer, Places, Held
<1>8. ASSUME NEW w \in Worker, LockForRemove(w) PROVE TypeOK'
  BY <1>8 DEF LockForRemove, Answer
<1>9. ASSUME NEW w \in Worker, Remove(w) PROVE TypeOK'
  BY <1>9 DEF Remove, Answer
<1>10. ASSUME Reap PROVE TypeOK'
  BY <1>10 DEF Reap, SampleTime, LockForReap, Retain
<1>11. ASSUME Tick PROVE TypeOK'
  BY <1>11 DEF Tick
<1>12. ASSUME UNCHANGED vars PROVE TypeOK'
  BY <1>12 DEF vars
<1>. QED
  BY <1>1, <1>2, <1>3, <1>4, <1>5, <1>6, <1>7, <1>8, <1>9, <1>10, <1>11, <1>12
     DEF Next, Request, Serve

\* Every step leaves each thread at a place of its own kind, with a target.
LEMMA PlacesStep == IInv /\ [Next]_vars => Places'
<1>. SUFFICES ASSUME IInv, [Next]_vars PROVE Places'
  OBVIOUS
<1>. USE SessionStoreAssumption DEF IInv, TypeOK, Thread, data, locks, PC, Places, WorkerPC
<1>1. ASSUME NEW w \in Worker, NEW tn \in Tenant, NEW id \in SessionId,
             GenerateSession(w, tn, id)
      PROVE Places'
  BY <1>1 DEF GenerateSession, Start
<1>2. ASSUME NEW w \in Worker, NEW tn \in Tenant, NEW id \in SessionId,
             RequestUse(w, tn, id) \/ RequestDelete(w, tn, id)
      PROVE Places'
  BY <1>2 DEF RequestUse, RequestDelete, Start
<1>3. ASSUME NEW w \in Worker, Insert(w) PROVE Places'
  BY <1>3 DEF Insert, Answer, StoreFreeForWrite
<1>4. ASSUME NEW w \in Worker, LookUp(w) PROVE Places'
  BY <1>4 DEF LookUp, Answer, StoreFreeForRead
<1>5. ASSUME NEW w \in Worker, LockSession(w) PROVE Places'
  BY <1>5 DEF LockSession, MayServe
<1>6. ASSUME NEW w \in Worker, RefuseSession(w) PROVE Places'
  BY <1>6 DEF RefuseSession, Answer
<1>7. ASSUME NEW w \in Worker, Finish(w) \/ Panic(w) PROVE Places'
  BY <1>7 DEF Finish, Panic, ReleaseBoth, Answer
<1>8. ASSUME NEW w \in Worker, LockForRemove(w) PROVE Places'
  BY <1>8 DEF LockForRemove, Answer, StoreFreeForWrite
<1>9. ASSUME NEW w \in Worker, Remove(w) PROVE Places'
  BY <1>9 DEF Remove, Answer, MayServe
<1>10. ASSUME Reap PROVE Places'
  BY <1>10 DEF Reap, SampleTime, LockForReap, Retain, StoreFreeForWrite
<1>11. ASSUME Tick PROVE Places'
  BY <1>11 DEF Tick
<1>12. ASSUME UNCHANGED vars PROVE Places'
  BY <1>12 DEF vars
<1>. QED
  BY <1>1, <1>2, <1>3, <1>4, <1>5, <1>6, <1>7, <1>8, <1>9, <1>10, <1>11, <1>12
     DEF Next, Request, Serve

\* Every step keeps the store's guards where the program counters say.
LEMMA StoreLockStep == IInv /\ [Next]_vars => StoreLock'
<1>. SUFFICES ASSUME IInv, [Next]_vars PROVE StoreLock'
  OBVIOUS
<1>. USE SessionStoreAssumption DEF IInv, TypeOK, Thread, data, locks, PC, Places, WorkerPC, StoreLock
<1>1. ASSUME NEW w \in Worker, NEW tn \in Tenant, NEW id \in SessionId,
             GenerateSession(w, tn, id)
      PROVE StoreLock'
  BY <1>1 DEF GenerateSession, Start
<1>2. ASSUME NEW w \in Worker, NEW tn \in Tenant, NEW id \in SessionId,
             RequestUse(w, tn, id) \/ RequestDelete(w, tn, id)
      PROVE StoreLock'
  BY <1>2 DEF RequestUse, RequestDelete, Start
<1>3. ASSUME NEW w \in Worker, Insert(w) PROVE StoreLock'
  BY <1>3 DEF Insert, Answer, StoreFreeForWrite
<1>4. ASSUME NEW w \in Worker, LookUp(w) PROVE StoreLock'
  BY <1>4 DEF LookUp, Answer, StoreFreeForRead
<1>5. ASSUME NEW w \in Worker, LockSession(w) PROVE StoreLock'
  BY <1>5 DEF LockSession, MayServe
<1>6. ASSUME NEW w \in Worker, RefuseSession(w) PROVE StoreLock'
  BY <1>6 DEF RefuseSession, Answer
<1>7. ASSUME NEW w \in Worker, Finish(w) \/ Panic(w) PROVE StoreLock'
  BY <1>7 DEF Finish, Panic, ReleaseBoth, Answer
<1>8. ASSUME NEW w \in Worker, LockForRemove(w) PROVE StoreLock'
  BY <1>8 DEF LockForRemove, Answer, StoreFreeForWrite
<1>9. ASSUME NEW w \in Worker, Remove(w) PROVE StoreLock'
  BY <1>9 DEF Remove, Answer, MayServe
<1>10. ASSUME Reap PROVE StoreLock'
  BY <1>10 DEF Reap, SampleTime, LockForReap, Retain, StoreFreeForWrite
<1>11. ASSUME Tick PROVE StoreLock'
  BY <1>11 DEF Tick
<1>12. ASSUME UNCHANGED vars PROVE StoreLock'
  BY <1>12 DEF vars
<1>. QED
  BY <1>1, <1>2, <1>3, <1>4, <1>5, <1>6, <1>7, <1>8, <1>9, <1>10, <1>11, <1>12
     DEF Next, Request, Serve

\* No step removes a session that a thread holding a guard has found.
LEMMA HeldStep == IInv /\ [Next]_vars => Held'
<1>. SUFFICES ASSUME IInv, [Next]_vars PROVE Held'
  OBVIOUS
<1>. USE SessionStoreAssumption DEF IInv, TypeOK, Thread, data, locks, PC, Places, WorkerPC, StoreLock, Held, NoUseAfterRemove
<1>1. ASSUME NEW w \in Worker, NEW tn \in Tenant, NEW id \in SessionId,
             GenerateSession(w, tn, id)
      PROVE Held'
  BY <1>1 DEF GenerateSession, Start
<1>2. ASSUME NEW w \in Worker, NEW tn \in Tenant, NEW id \in SessionId,
             RequestUse(w, tn, id) \/ RequestDelete(w, tn, id)
      PROVE Held'
  BY <1>2 DEF RequestUse, RequestDelete, Start
<1>3. ASSUME NEW w \in Worker, Insert(w) PROVE Held'
  BY <1>3 DEF Insert, Answer, StoreFreeForWrite
<1>4. ASSUME NEW w \in Worker, LookUp(w) PROVE Held'
  BY <1>4 DEF LookUp, Answer, StoreFreeForRead
<1>5. ASSUME NEW w \in Worker, LockSession(w) PROVE Held'
  BY <1>5 DEF LockSession, MayServe
<1>6. ASSUME NEW w \in Worker, RefuseSession(w) PROVE Held'
  BY <1>6 DEF RefuseSession, Answer
<1>7. ASSUME NEW w \in Worker, Finish(w) \/ Panic(w) PROVE Held'
  BY <1>7 DEF Finish, Panic, ReleaseBoth, Answer
<1>8. ASSUME NEW w \in Worker, LockForRemove(w) PROVE Held'
  BY <1>8 DEF LockForRemove, Answer, StoreFreeForWrite
<1>9. ASSUME NEW w \in Worker, Remove(w) PROVE Held'
  BY <1>9 DEF Remove, Answer, MayServe
<1>10. ASSUME Reap PROVE Held'
  BY <1>10 DEF Reap, SampleTime, LockForReap, Retain, StoreFreeForWrite
<1>11. ASSUME Tick PROVE Held'
  BY <1>11 DEF Tick
<1>12. ASSUME UNCHANGED vars PROVE Held'
  BY <1>12 DEF vars
<1>. QED
  BY <1>1, <1>2, <1>3, <1>4, <1>5, <1>6, <1>7, <1>8, <1>9, <1>10, <1>11, <1>12
     DEF Next, Request, Serve

\* Every step preserves NoUseAfterRemove.
LEMMA UseStep == IInv /\ [Next]_vars => NoUseAfterRemove'
<1>. SUFFICES ASSUME IInv, [Next]_vars PROVE NoUseAfterRemove'
  OBVIOUS
<1>. USE SessionStoreAssumption DEF IInv, TypeOK, Thread, data, locks, PC, Places, WorkerPC, StoreLock, Held, NoUseAfterRemove
<1>1. ASSUME NEW w \in Worker, NEW tn \in Tenant, NEW id \in SessionId,
             GenerateSession(w, tn, id)
      PROVE NoUseAfterRemove'
  BY <1>1 DEF GenerateSession, Start
<1>2. ASSUME NEW w \in Worker, NEW tn \in Tenant, NEW id \in SessionId,
             RequestUse(w, tn, id) \/ RequestDelete(w, tn, id)
      PROVE NoUseAfterRemove'
  BY <1>2 DEF RequestUse, RequestDelete, Start
<1>3. ASSUME NEW w \in Worker, Insert(w) PROVE NoUseAfterRemove'
  BY <1>3 DEF Insert, Answer, StoreFreeForWrite
<1>4. ASSUME NEW w \in Worker, LookUp(w) PROVE NoUseAfterRemove'
  BY <1>4 DEF LookUp, Answer, StoreFreeForRead
<1>5. ASSUME NEW w \in Worker, LockSession(w) PROVE NoUseAfterRemove'
  BY <1>5 DEF LockSession, MayServe
<1>6. ASSUME NEW w \in Worker, RefuseSession(w) PROVE NoUseAfterRemove'
  BY <1>6 DEF RefuseSession, Answer
<1>7. ASSUME NEW w \in Worker, Finish(w) \/ Panic(w) PROVE NoUseAfterRemove'
  BY <1>7 DEF Finish, Panic, ReleaseBoth, Answer
<1>8. ASSUME NEW w \in Worker, LockForRemove(w) PROVE NoUseAfterRemove'
  BY <1>8 DEF LockForRemove, Answer, StoreFreeForWrite
<1>9. ASSUME NEW w \in Worker, Remove(w) PROVE NoUseAfterRemove'
  BY <1>9 DEF Remove, Answer, MayServe
<1>10. ASSUME Reap PROVE NoUseAfterRemove'
  BY <1>10 DEF Reap, SampleTime, LockForReap, Retain, StoreFreeForWrite
<1>11. ASSUME Tick PROVE NoUseAfterRemove'
  BY <1>11 DEF Tick
<1>12. ASSUME UNCHANGED vars PROVE NoUseAfterRemove'
  BY <1>12 DEF vars
<1>. QED
  BY <1>1, <1>2, <1>3, <1>4, <1>5, <1>6, <1>7, <1>8, <1>9, <1>10, <1>11, <1>12
     DEF Next, Request, Serve

\* No step inserts, finds or poisons a session that waits to be inserted.
LEMMA OwnedStep == IInv /\ [Next]_vars => Owned'
<1>. SUFFICES ASSUME IInv, [Next]_vars PROVE Owned'
  OBVIOUS
<1>. USE SessionStoreAssumption DEF IInv, TypeOK, Thread, data, locks, PC, Places, WorkerPC, Held, Owned
<1>1. ASSUME NEW w \in Worker, NEW tn \in Tenant, NEW id \in SessionId,
             GenerateSession(w, tn, id)
      PROVE Owned'
  BY <1>1 DEF GenerateSession, Start
<1>2. ASSUME NEW w \in Worker, NEW tn \in Tenant, NEW id \in SessionId,
             RequestUse(w, tn, id) \/ RequestDelete(w, tn, id)
      PROVE Owned'
  BY <1>2 DEF RequestUse, RequestDelete, Start
<1>3. ASSUME NEW w \in Worker, Insert(w) PROVE Owned'
  BY <1>3 DEF Insert, Answer, StoreFreeForWrite
<1>4. ASSUME NEW w \in Worker, LookUp(w) PROVE Owned'
  BY <1>4 DEF LookUp, Answer, StoreFreeForRead
<1>5. ASSUME NEW w \in Worker, LockSession(w) PROVE Owned'
  BY <1>5 DEF LockSession, MayServe
<1>6. ASSUME NEW w \in Worker, RefuseSession(w) PROVE Owned'
  BY <1>6 DEF RefuseSession, Answer
<1>7. ASSUME NEW w \in Worker, Finish(w) \/ Panic(w) PROVE Owned'
  BY <1>7 DEF Finish, Panic, ReleaseBoth, Answer
<1>8. ASSUME NEW w \in Worker, LockForRemove(w) PROVE Owned'
  BY <1>8 DEF LockForRemove, Answer, StoreFreeForWrite
<1>9. ASSUME NEW w \in Worker, Remove(w) PROVE Owned'
  BY <1>9 DEF Remove, Answer, MayServe
<1>10. ASSUME Reap PROVE Owned'
  BY <1>10 DEF Reap, SampleTime, LockForReap, Retain, StoreFreeForWrite
<1>11. ASSUME Tick PROVE Owned'
  BY <1>11 DEF Tick
<1>12. ASSUME UNCHANGED vars PROVE Owned'
  BY <1>12 DEF vars
<1>. QED
  BY <1>1, <1>2, <1>3, <1>4, <1>5, <1>6, <1>7, <1>8, <1>9, <1>10, <1>11, <1>12
     DEF Next, Request, Serve

\* The map stays finite and within MaxSessions.
LEMMA BoundedStep == IInv /\ [Next]_vars => Bounded'
<1>. SUFFICES ASSUME IInv, [Next]_vars PROVE Bounded'
  OBVIOUS
<1>. USE SessionStoreAssumption DEF IInv, Bounded, CapacityBound
<1>1. CASE map' \subseteq map
  <2>1. IsFiniteSet(map') /\ Cardinality(map') <= Cardinality(map)
    BY <1>1, FS_Subset
  <2>2. Cardinality(map') \in Nat /\ Cardinality(map) \in Nat
    BY <2>1, FS_CardinalityType
  <2>. QED
    BY <2>1, <2>2
<1>2. ASSUME NEW w \in Worker, HasRoom, map' = map \cup {target[w]}
      PROVE Bounded'
  <2>1. CASE target[w] \in map
    BY <1>1, <1>2, <2>1
  <2>2. CASE target[w] \notin map
    <3>1. IsFiniteSet(map') /\ Cardinality(map') = Cardinality(map) + 1
      BY <1>2, <2>2, FS_AddElement
    <3>2. Cardinality(map) \in Nat
      BY FS_CardinalityType
    <3>. QED
      BY <1>2, <3>1, <3>2 DEF HasRoom
  <2>. QED
    BY <2>1, <2>2
<1>3. \/ map' \subseteq map
      \/ \E w \in Worker : HasRoom /\ map' = map \cup {target[w]}
  BY DEF Next, Request, Serve, Reap, vars, GenerateSession, RequestUse,
         RequestDelete, Start, Insert, LookUp, LockSession, RefuseSession,
         Finish, Panic, ReleaseBoth, LockForRemove, Remove, SampleTime,
         LockForReap, Retain, Tick
<1>. QED
  BY <1>1, <1>2, <1>3

\* The inductive invariant holds in every behaviour.
THEOREM Invariance == Spec => []IInv
<1>1. Init => IInv
  BY InitInv
<1>2. IInv /\ [Next]_vars => IInv'
  BY TypeStep, PlacesStep, StoreLockStep, HeldStep, UseStep, OwnedStep,
     BoundedStep DEF IInv
<1>. QED
  BY <1>1, <1>2, PTL DEF Spec

-----------------------------------------------------------------------------
\* Every variable keeps its type, and no clock sample lies in the future.
THEOREM TypeCorrect == Spec => []TypeOK
<1>1. IInv => TypeOK
  BY DEF IInv
<1>. QED
  BY <1>1, Invariance, PTL

\* A request only ever works on a live, unpoisoned session of its tenant
\* that it alone has locked.
THEOREM UseIsSafe == Spec => []NoUseAfterRemove
<1>1. IInv => NoUseAfterRemove
  BY DEF IInv
<1>. QED
  BY <1>1, Invariance, PTL

\* max_sessions is never exceeded.
THEOREM CapacityIsRespected == Spec => []CapacityBound
<1>1. IInv => CapacityBound
  BY DEF IInv, Bounded
<1>. QED
  BY <1>1, Invariance, PTL

\* The read locks taken under the store's write guard never wait.
THEOREM LockOrderIsSafe == Spec => []RemoverNeverWaits
<1>1. IInv => RemoverNeverWaits
  <2>. SUFFICES ASSUME IInv, storeWriter # None, NEW id \in SessionId
                PROVE sessionGuard[id] = None
    BY DEF RemoverNeverWaits
  <2>1. \A w \in Worker : pc[w] # "operating"
    BY DEF IInv, StoreLock
  <2>. QED
    BY <2>1 DEF IInv, TypeOK, Held
<1>. QED
  BY <1>1, Invariance, PTL

\* A session leaves the map only by its tenant's DELETE or by a reap that
\* the present clock justifies as well.
THEOREM RemovalIsJustified == Spec => RemovedForCause
<1>. DEFINE Cause(id) ==
       \/ \E w \in Worker : /\ pc[w] = "deciding"
                            /\ target[w] = id
                            /\ caller[w] = tenantOf[id]
       \/ pc[Reaper] = "retaining" /\ (id \in poisoned \/ Age(clock, id) > Ttl)
<1>1. IInv /\ [Next]_vars => \A id \in map \ map' : Cause(id)
  <2>. SUFFICES ASSUME IInv, [Next]_vars, NEW id \in map \ map'
                PROVE Cause(id)
    OBVIOUS
  <2>. USE SessionStoreAssumption DEF IInv, TypeOK
  <2>1. ASSUME NEW w \in Worker, Remove(w) PROVE Cause(id)
    BY <2>1 DEF Remove, MayServe
  <2>2. ASSUME Retain PROVE Cause(id)
    <3>1. id \in poisoned \/ Age(reaperNow, id) > Ttl
      BY <2>2 DEF Retain, Keep, Age
    <3>2. Age(reaperNow, id) <= Age(clock, id)
      BY DEF Age
    <3>3. Age(reaperNow, id) \in Nat /\ Age(clock, id) \in Nat
      BY DEF Age
    <3>. QED
      BY <2>2, <3>1, <3>2, <3>3 DEF Retain
  <2>3. (\E w \in Worker : Remove(w)) \/ Retain
    BY DEF Next, Request, Serve, Reap, vars, GenerateSession, RequestUse,
           RequestDelete, Start, Insert, LookUp, LockSession, RefuseSession,
           Finish, Panic, ReleaseBoth, LockForRemove, SampleTime, LockForReap,
           Tick
  <2>. QED
    BY <2>1, <2>2, <2>3
<1>. QED
  BY <1>1, Invariance, PTL DEF Spec, RemovedForCause

\* A poisoned session is never locked, never touched and never deleted.
THEOREM PoisonIsContained == Spec => PoisonFailsClosed
<1>. DEFINE Closed(id) ==
       /\ sessionGuard'[id] = None
       /\ lastAccessed'[id] = lastAccessed[id]
       /\ id \in map \ map' => pc[Reaper] = "retaining"
<1>1. IInv /\ [Next]_vars => \A id \in poisoned : Closed(id)
  <2>. SUFFICES ASSUME IInv, [Next]_vars, NEW id \in poisoned
                PROVE Closed(id)
    OBVIOUS
  <2>. USE SessionStoreAssumption DEF IInv, TypeOK, data, locks
  <2>1. sessionGuard[id] = None
    BY DEF Held, NoUseAfterRemove
  <2>2. ASSUME NEW w \in Worker, Request(w) PROVE Closed(id)
    BY <2>1, <2>2 DEF Request, GenerateSession, RequestUse, RequestDelete, Start
  <2>3. ASSUME NEW w \in Worker, Insert(w) \/ LookUp(w) \/ RefuseSession(w)
        PROVE Closed(id)
    BY <2>1, <2>3 DEF Insert, LookUp, RefuseSession
  <2>4. ASSUME NEW w \in Worker, LockSession(w) PROVE Closed(id)
    BY <2>1, <2>4 DEF LockSession, MayServe
  <2>5. ASSUME NEW w \in Worker, Finish(w) \/ Panic(w) PROVE Closed(id)
    BY <2>1, <2>5 DEF Finish, Panic, ReleaseBoth
  <2>6. ASSUME NEW w \in Worker, LockForRemove(w) \/ Remove(w)
        PROVE Closed(id)
    BY <2>1, <2>6 DEF LockForRemove, Remove, MayServe
  <2>7. CASE Reap
    BY <2>1, <2>7 DEF Reap, SampleTime, LockForReap, Retain
  <2>8. CASE Tick \/ UNCHANGED vars
    BY <2>1, <2>8 DEF Tick, vars
  <2>. QED
    BY <2>2, <2>3, <2>4, <2>5, <2>6, <2>7, <2>8 DEF Next, Serve
<1>. QED
  BY <1>1, Invariance, PTL DEF Spec, PoisonFailsClosed

-----------------------------------------------------------------------------
\* The refinement, step by step: what each step is in the directory.

\* A step that changes neither the map nor the guards nor the poison, nor the
\* tenant of a session in the map, is no step of the directory.
LEMMA Stutter ==
  ASSUME map' = map, sessionGuard' = sessionGuard, poisoned' = poisoned,
         \A i \in map : tenantOf'[i] = tenantOf[i]
  PROVE  UNCHANGED Directory!vars
  BY DEF Directory!vars

\* The entries of the directory are the keys of the map.
LEMMA EntriesAreKeys == IInv => Directory!Entries = map
  BY SessionStoreAssumption DEF Directory!Entries, IInv, TypeOK, Owned

\* An insertion opens an entry, or the map is full and nothing happens.
LEMMA InsertRefines ==
  ASSUME IInv, NEW w \in Worker, Insert(w)
  PROVE  [Directory!Next]_(Directory!vars)
<1>. USE SessionStoreAssumption DEF Insert, data, locks
<1>1. CASE HasRoom
  <2>1. PICK id \in SessionId : id = target[w]
    BY DEF IInv, Places
  <2>2. id \in generated /\ id \notin map \cup poisoned
    BY <2>1 DEF IInv, TypeOK, Places, Owned
  <2>3. PICK tn \in Tenant : tn = tenantOf[id]
    BY <2>2 DEF IInv, Owned
  <2>4. map' = map \cup {id} /\ tenantOf' = tenantOf
    BY <1>1, <2>1
  <2>5. /\ id \notin Directory!Entries \cup poisoned
        /\ Directory!Cardinality(Directory!Entries) < MaxSessions
    <3>1. Directory!Cardinality(map) = Cardinality(map)
      BY DEF Cardinality, Directory!Cardinality
    <3>. QED
      BY <1>1, <2>2, <3>1, EntriesAreKeys DEF HasRoom
  <2>6. [i \in SessionId |-> IF i \in map' THEN tenantOf'[i] ELSE None]
        = [[i \in SessionId |-> IF i \in map THEN tenantOf[i] ELSE None]
             EXCEPT ![id] = tn]
    BY <2>2, <2>3, <2>4
  <2>7. Directory!Open(id, tn)
    BY <2>2, <2>5, <2>6 DEF Directory!Open
  <2>. QED
    BY <2>7 DEF Directory!Next, Directory!Open
<1>2. CASE ~ HasRoom
  BY <1>2, Stutter
<1>. QED
  BY <1>1, <1>2

\* Locking a session leases its entry.
LEMMA LockSessionRefines ==
  ASSUME IInv, NEW w \in Worker, LockSession(w)
  PROVE  [Directory!Next]_(Directory!vars)
<1>. USE DEF LockSession, MayServe
<1>1. target[w] \in map /\ target[w] \in SessionId
  BY DEF IInv, Held, Places
<1>2. Directory!Lease(w, target[w])
  BY <1>1, EntriesAreKeys DEF Directory!Lease
<1>. QED
  BY <1>1, <1>2 DEF Directory!Next, Directory!Lease

\* Dropping the session's guard returns the lease; a panic spoils the entry.
LEMMA ReleaseRefines ==
  ASSUME IInv, NEW w \in Worker, Finish(w) \/ Panic(w)
  PROVE  [Directory!Next]_(Directory!vars)
<1>. USE DEF ReleaseBoth
<1>1. target[w] \in SessionId /\ sessionGuard[target[w]] = w
  BY DEF IInv, NoUseAfterRemove, Places, Finish, Panic
<1>2. CASE Finish(w)
  <2>1. Directory!Return(w, target[w])
    BY <1>1, <1>2 DEF Directory!Return, Finish
  <2>. QED
    BY <1>1, <2>1 DEF Directory!Next, Directory!Return
<1>3. CASE Panic(w)
  <2>1. Directory!Spoil(w, target[w])
    BY <1>1, <1>3 DEF Directory!Spoil, Panic
  <2>. QED
    BY <1>1, <2>1 DEF Directory!Next, Directory!Spoil
<1>. QED
  BY <1>2, <1>3

\* A removal closes an entry nobody uses, or is refused.
LEMMA RemoveRefines ==
  ASSUME IInv, NEW w \in Worker, Remove(w)
  PROVE  [Directory!Next]_(Directory!vars)
<1>. USE SessionStoreAssumption DEF Remove, MayServe, data
<1>1. target[w] \in map /\ target[w] \in SessionId
  BY DEF IInv, Held, Places
<1>2. CASE MayServe(w)
  <2>1. Directory!Close(target[w])
    BY <1>1, <1>2, EntriesAreKeys DEF Directory!Close
  <2>. QED
    BY <1>1, <2>1 DEF Directory!Next, Directory!Close
<1>3. CASE ~ MayServe(w)
  BY <1>3, Stutter
<1>. QED
  BY <1>2, <1>3

\* A reap expires entries nobody uses.
LEMMA RetainRefines ==
  ASSUME IInv, Retain
  PROVE  [Directory!Next]_(Directory!vars)
<1>. DEFINE gone == map \ map'
<1>1. gone \in SUBSET SessionId /\ map' \subseteq map
  BY DEF IInv, TypeOK, Retain
<1>2. Directory!Expire(gone)
  BY <1>1, EntriesAreKeys DEF Directory!Expire, Retain, data
<1>. QED
  BY <1>1, <1>2 DEF Directory!Next, Directory!Expire

\* Every behaviour of the store, locks and interleavings included, is a
\* behaviour of the lock-free directory.
THEOREM StoreImplementsDirectory == Spec => ImplementsDirectory
<1>1. Init => Directory!Init
  BY DEF Init, Directory!Init
<1>2. IInv /\ [Next]_vars => [Directory!Next]_(Directory!vars)
  <2>. SUFFICES ASSUME IInv, [Next]_vars
                PROVE [Directory!Next]_(Directory!vars)
    OBVIOUS
  <2>. USE DEF data, locks
  <2>1. ASSUME NEW w \in Worker, Request(w)
        PROVE  [Directory!Next]_(Directory!vars)
    <3>1. \A i \in map : tenantOf'[i] = tenantOf[i]
      BY <2>1 DEF Request, GenerateSession, RequestUse, RequestDelete, Start,
                  IInv, TypeOK
    <3>2. map' = map /\ sessionGuard' = sessionGuard /\ poisoned' = poisoned
      BY <2>1 DEF Request, GenerateSession, RequestUse, RequestDelete, Start
    <3>. QED
      BY <3>1, <3>2, Stutter
  <2>2. ASSUME NEW w \in Worker,
               LookUp(w) \/ RefuseSession(w) \/ LockForRemove(w)
        PROVE  [Directory!Next]_(Directory!vars)
    BY <2>2, Stutter DEF LookUp, RefuseSession, LockForRemove
  <2>3. CASE SampleTime \/ LockForReap \/ Tick \/ UNCHANGED vars
    BY <2>3, Stutter DEF SampleTime, LockForReap, Tick, vars
  <2>. QED
    BY <2>1, <2>2, <2>3, InsertRefines, LockSessionRefines, ReleaseRefines,
       RemoveRefines, RetainRefines DEF Next, Serve, Reap
<1>. QED
  BY <1>1, <1>2, Invariance, PTL DEF Spec, ImplementsDirectory, Directory!Spec

-----------------------------------------------------------------------------
(* The registry of a main-Q session.                                        *)

USE CertifiedBoundAssumption, MainQSessionAssumption

ResultRecord == [wire : Wire, bound : Nat]

RegistryType ==
  /\ issued \in [Wire -> Nat \cup {NotIssued}]
  /\ mode \in {"idle", "encrypting", "evaluating", "publishing"}
  /\ todo \in Nat
  /\ results \in Seq(ResultRecord)
  /\ published \in 0 .. Len(results)
  /\ delivered \subseteq Wire \X Nat

\* Nothing is left of a request that has ended, and only a batch that is being
\* published has exported anything.
Phases ==
  /\ mode = "idle" => results = <<>>
  /\ mode # "publishing" => published = 0

\* The registry has room for all that the running request may still export.
Room ==
  /\ IsFiniteSet(Issued)
  /\ mode \in {"encrypting", "evaluating"} =>
       Cardinality(Issued) + Len(results) + todo <= MaxEntries
  /\ mode = "publishing" =>
       Cardinality(Issued) + Len(results) - published <= MaxEntries

\* Bounds that the running batch has exported for the bytes w, and all bounds
\* ever exported for them.
Exported(w) == {results[i].bound : i \in {j \in 1 .. published : results[j].wire = w}}
Seen(w) == DeliveredBounds(w) \cup Exported(w)

\* The registry holds the worst bound seen, also in the middle of a batch.
IsWorst(bound, seen) ==
  IF seen = {} THEN bound = NotIssued
               ELSE bound \in seen /\ \A b \in seen : b <= bound

Worst == \A w \in Wire : IsWorst(issued[w], Seen(w))

RegistryInv == RegistryType /\ Phases /\ Room /\ Worst

-----------------------------------------------------------------------------

LEMMA FreshIsNatural == FreshBound \in Nat
<1>1. /\ T * (2 * N + 1) * Eta \in Nat
      /\ Remainder \in Nat
      /\ T - 1 \in Nat
  BY DEF Remainder
<1>2. Remainder * (T - 1) \in Nat
  BY <1>1
<1> QED BY <1>1, <1>2 DEF FreshBound

LEMMA AbsoluteIsNatural == ASSUME NEW x \in Int PROVE Abs(x) \in Nat
  BY DEF Abs

LEMMA ProductIsNatural == ASSUME NEW x \in Nat, NEW y \in Nat PROVE x * y \in Nat
  OBVIOUS

LEMMA MultiplyIsNatural ==
  ASSUME NEW a \in Nat, NEW b \in Nat PROVE MultiplyBound(a, b) \in Nat
<1> DEFINE factor == (T - 1) \div 2 + N * T * (N \div 2 + 1)
           rounding == (T * (1 + N + N * N) + 1) \div 2
<1>1. N \div 2 \in Nat /\ (T - 1) \div 2 \in Nat
  OBVIOUS
<1>2. N * T * (N \div 2 + 1) \in Nat
  BY <1>1, ProductIsNatural
<1>3. rounding \in Nat
  <2>1. T * (1 + N + N * N) \in Nat
    BY ProductIsNatural
  <2> QED BY <2>1
<1>4. SwitchError \in Nat
  BY ProductIsNatural DEF SwitchError
<1>5. T * SwitchError \in Nat
  BY <1>4, ProductIsNatural
<1>6. Lesser(a, b) * (N \div 2) \in Nat
  BY <1>1, ProductIsNatural DEF Lesser
<1>7. factor \in Nat
  BY <1>1, <1>2
<1>8. (a + b) * factor \in Nat
  BY <1>7, ProductIsNatural
<1> HIDE DEF factor, rounding
<1>9. MultiplyBound(a, b) = (a + b) * factor + Lesser(a, b) * (N \div 2)
                             + rounding + T * SwitchError
  BY DEF MultiplyBound, factor, rounding
<1> QED BY <1>3, <1>5, <1>6, <1>8, <1>9

\* The bounds an operation can give its result are natural numbers.
LEMMA OthersAreNatural ==
  ASSUME NEW a \in Nat, NEW b \in Nat, NEW s \in Int
  PROVE  /\ AddBound(a, b) \in Nat
         /\ ScalarBound(a, s) \in Nat
         /\ AddPlainBound(a, s) \in Nat
<1>1. Abs(s) \in Nat /\ Remainder \in Nat
  BY AbsoluteIsNatural DEF Remainder
<1>2. a * Abs(s) \in Nat /\ Remainder * Abs(s) \in Nat
  BY <1>1, ProductIsNatural
<1> QED BY <1>2 DEF AddBound, ScalarBound, AddPlainBound

LEMMA ResultBoundsAreNatural == RegistryType => ResultBounds \subseteq Nat
<1> SUFFICES ASSUME RegistryType, NEW x \in ResultBounds PROVE x \in Nat
  OBVIOUS
<1> DEFINE inputs == {issued[w] : w \in Issued}
           scalars == {CenteredScalar(value) : value \in 0 .. T - 1}
<1>1. inputs \subseteq Nat
  BY DEF RegistryType, Issued
<1>2. scalars \cup {-1} \subseteq Int
  BY DEF CenteredScalar
<1>3. \/ \E a, b \in inputs : x = AddBound(a, b)
      \/ \E a \in inputs, s \in scalars \cup {-1} : x = ScalarBound(a, s)
      \/ \E a \in inputs, s \in scalars : x = AddPlainBound(a, s)
      \/ \E a, b \in inputs : x = MultiplyBound(a, b)
  <2>1. x \in {AddBound(a, b) : a, b \in inputs}
             \cup {ScalarBound(a, s) : a \in inputs, s \in scalars \cup {-1}}
             \cup {AddPlainBound(a, s) : a \in inputs, s \in scalars}
             \cup {MultiplyBound(a, b) : a, b \in inputs}
    BY DEF ResultBounds
  <2> HIDE DEF inputs, scalars
  <2> QED BY <2>1
<1> HIDE DEF inputs, scalars
<1>4. CASE \E a, b \in inputs : x = AddBound(a, b)
  BY <1>1, <1>4, OthersAreNatural
<1>5. CASE \E a \in inputs, s \in scalars \cup {-1} : x = ScalarBound(a, s)
  BY <1>1, <1>2, <1>5, OthersAreNatural
<1>6. CASE \E a \in inputs, s \in scalars : x = AddPlainBound(a, s)
  BY <1>1, <1>2, <1>6, OthersAreNatural
<1>7. CASE \E a, b \in inputs : x = MultiplyBound(a, b)
  BY <1>1, <1>7, MultiplyIsNatural
<1> QED BY <1>3, <1>4, <1>5, <1>6, <1>7

-----------------------------------------------------------------------------

\* A result of the running request.
LEMMA ResultAt ==
  ASSUME RegistryType, NEW i \in 1 .. Len(results)
  PROVE  results[i].wire \in Wire /\ results[i].bound \in Nat
<1>1. results[i] \in ResultRecord
  BY DEF RegistryType
<1> QED BY <1>1 DEF ResultRecord

LEMMA SeenIsNatural ==
  ASSUME RegistryType, NEW w \in Wire PROVE Seen(w) \subseteq Nat
<1>1. DeliveredBounds(w) \subseteq Nat
  BY DEF DeliveredBounds, RegistryType
<1>2. published \in 0 .. Len(results) /\ Len(results) \in Nat
  BY DEF RegistryType
<1>3. Exported(w) \subseteq Nat
  BY <1>2, ResultAt DEF Exported
<1> QED BY <1>1, <1>3 DEF Seen

\* Nothing the invariant speaks of changes.
LEMMA NothingChanges ==
  ASSUME RegistryInv, UNCHANGED <<issued, mode, todo, results, published, delivered>>
  PROVE  RegistryInv'
<1>1. \A w \in Wire : Seen(w)' = Seen(w)
  BY DEF Seen, DeliveredBounds, Exported
<1>2. Worst'
  BY <1>1 DEF RegistryInv, Worst
<1>3. Issued' = Issued
  BY DEF Issued
<1>4. Room'
  BY <1>3 DEF RegistryInv, Room
<1> QED BY <1>2, <1>4 DEF RegistryInv, RegistryType, Phases

LEMMA Initially == RegistryInit => RegistryInv
<1> SUFFICES ASSUME RegistryInit PROVE RegistryInv
  OBVIOUS
<1>1. Issued = {}
  BY DEF RegistryInit, Issued
<1>2. RegistryType
  BY DEF RegistryInit, RegistryType
<1>3. Room
  BY <1>1, FS_EmptySet DEF RegistryInit, Room
<1>4. Worst
  BY DEF RegistryInit, Worst, IsWorst, Seen, DeliveredBounds, Exported
<1> QED BY <1>2, <1>3, <1>4 DEF RegistryInv, Phases, RegistryInit

\* What the capacity test means while the registry is within its limit.
LEMMA CapacityTest ==
  ASSUME RegistryInv, NEW count \in Nat \ {0}
  PROVE  HasCapacity(count) <=> Cardinality(Issued) + count <= MaxEntries
  BY FS_CardinalityType DEF RegistryInv, Room, HasCapacity, RemainingCapacity

LEMMA RegistryUnchanged ==
  ASSUME RegistryInv, UNCHANGED <<issued, delivered>>, results' = <<>>, published' = 0,
         mode \in {"idle", "encrypting", "evaluating"}
  PROVE  Worst'
<1>1. \A w \in Wire : Seen(w) = DeliveredBounds(w) /\ Seen(w)' = DeliveredBounds(w)
  BY DEF RegistryInv, Phases, Seen, Exported, DeliveredBounds
<1> QED BY <1>1 DEF RegistryInv, Worst

LEMMA AbandonKeeps ==
  ASSUME RegistryInv, Abandon, mode \in {"encrypting", "evaluating"}
  PROVE  RegistryInv'
<1>1. RegistryType' /\ Phases'
  BY DEF RegistryInv, RegistryType, Phases, Abandon, End
<1>2. Issued' = Issued
  BY DEF Issued, Abandon
<1>3. Room'
  BY <1>2 DEF RegistryInv, Room, Abandon, End
<1>4. Worst'
  BY RegistryUnchanged DEF Abandon, End
<1> QED BY <1>1, <1>3, <1>4 DEF RegistryInv

LEMMA BeginKeeps ==
  ASSUME RegistryInv, NEW count \in 1 .. MaxBatch, NEW at \in {"encrypting", "evaluating"},
         Begin(at, count)
  PROVE  RegistryInv'
<1>1. RegistryType' /\ Phases'
  BY DEF RegistryInv, RegistryType, Phases, Begin
<1>2. Issued' = Issued
  BY DEF Issued, Begin
<1>3. results = <<>> /\ published = 0
  BY DEF RegistryInv, Phases, Begin
<1>4. Cardinality(Issued) + count <= MaxEntries
  BY CapacityTest DEF Begin
<1>5. Room'
  BY <1>2, <1>3, <1>4, FS_CardinalityType DEF RegistryInv, Room, Begin
<1>6. Worst'
  BY <1>3, RegistryUnchanged DEF Begin
<1> QED BY <1>1, <1>5, <1>6 DEF RegistryInv

LEMMA ProduceKeeps ==
  ASSUME RegistryInv, NEW w \in Wire, NEW bound \in Nat, Produce(w, bound),
         mode \in {"encrypting", "evaluating"}
  PROVE  RegistryInv'
<1> DEFINE r == [wire |-> w, bound |-> bound]
<1>1. /\ results' = Append(results, r) /\ todo' = todo - 1 /\ todo \in Nat /\ todo > 0
      /\ UNCHANGED <<issued, mode, published, delivered>>
      /\ results \in Seq(ResultRecord)
      /\ published = 0
  BY DEF Produce, RegistryInv, RegistryType, Phases
<1>2. /\ results' \in Seq(ResultRecord)
      /\ Len(results') = Len(results) + 1
      /\ Len(results) \in Nat
  <2>1. r \in ResultRecord
    BY DEF ResultRecord
  <2> HIDE DEF r
  <2> QED BY <1>1, <2>1
<1>3. RegistryType' /\ Phases'
  BY <1>1, <1>2 DEF RegistryInv, RegistryType, Phases
<1>4. Issued' = Issued
  BY <1>1 DEF Issued
<1>5. Room'
  BY <1>1, <1>2, <1>4, FS_CardinalityType DEF RegistryInv, Room
<1>6. \A v \in Wire : Seen(v)' = Seen(v)
  BY <1>1 DEF Seen, DeliveredBounds, Exported
<1>7. Worst'
  BY <1>1, <1>6 DEF RegistryInv, Worst
<1> QED BY <1>3, <1>5, <1>7 DEF RegistryInv

LEMMA BeginPublishKeeps == ASSUME RegistryInv, BeginPublish PROVE RegistryInv'
<1>1. CASE HasCapacity(Len(results))
  <2>1. /\ mode' = "publishing" /\ mode \in {"encrypting", "evaluating"} /\ todo = 0
        /\ UNCHANGED <<issued, todo, results, published, delivered>>
    BY <1>1 DEF BeginPublish
  <2>2. RegistryType' /\ Phases'
    BY <2>1 DEF RegistryInv, RegistryType, Phases
  <2>3. Issued' = Issued
    BY <2>1 DEF Issued
  <2>4. Cardinality(Issued) \in Nat /\ Len(results) \in Nat /\ published = 0
    BY <2>1, FS_CardinalityType DEF RegistryInv, Room, RegistryType, Phases
  <2>5. Room'
    BY <2>1, <2>3, <2>4 DEF RegistryInv, Room
  <2>6. \A w \in Wire : Seen(w)' = Seen(w)
    BY <2>1 DEF Seen, DeliveredBounds, Exported
  <2>7. Worst'
    BY <2>1, <2>6 DEF RegistryInv, Worst
  <2> QED BY <2>2, <2>5, <2>7 DEF RegistryInv
<1>2. CASE ~ HasCapacity(Len(results))
  BY <1>2, AbandonKeeps DEF BeginPublish
<1> QED BY <1>1, <1>2

\* While a batch is being published the next result has its place.
LEMMA NextHasPlace ==
  ASSUME RegistryInv, mode = "publishing", published < Len(results)
  PROVE  HasPlace(NextResult.wire)
<1>1. /\ Cardinality(Issued) \in Nat /\ Len(results) \in Nat /\ published \in Nat
      /\ Cardinality(Issued) + Len(results) - published <= MaxEntries
  BY FS_CardinalityType DEF RegistryInv, Room, RegistryType
<1> QED BY <1>1 DEF HasPlace

LEMMA ExportKeeps == ASSUME RegistryInv, Export PROVE RegistryInv'
<1> DEFINE w == NextResult.wire
           b == NextResult.bound
<1>1. HasPlace(w)
  BY NextHasPlace DEF Export
<1>2. /\ issued' = [issued EXCEPT ![w] = Registered(w, b)]
      /\ published' = published + 1 /\ published < Len(results)
      /\ UNCHANGED <<mode, todo, results, delivered>>
      /\ mode = "publishing"
  BY <1>1 DEF Export
<1>3. /\ results \in Seq(ResultRecord)
      /\ published \in Nat /\ Len(results) \in Nat
      /\ issued \in [Wire -> Nat \cup {NotIssued}]
  BY DEF RegistryInv, RegistryType
<1>4. published + 1 \in 1 .. Len(results) /\ NextResult = results[published + 1]
  BY <1>2, <1>3 DEF NextResult
<1>5. w \in Wire /\ b \in Nat
  BY <1>4, ResultAt DEF RegistryInv
<1> HIDE DEF w, b
<1>6. Registered(w, b) \in Nat
  BY <1>3, <1>5 DEF Registered, Issued
<1>7. RegistryType' /\ Phases'
  BY <1>2, <1>3, <1>5, <1>6 DEF RegistryInv, RegistryType, Phases
<1>8. Issued' = Issued \cup {w}
  BY <1>2, <1>3, <1>5, <1>6 DEF Issued
<1>9. Room'
  <2>1. IsFiniteSet(Issued)
    BY DEF RegistryInv, Room
  <2>2. IsFiniteSet(Issued') /\ Cardinality(Issued') <= Cardinality(Issued) + 1
    <3>1. Cardinality(Issued) \in Nat
      BY <2>1, FS_CardinalityType
    <3> QED BY <1>8, <2>1, <3>1, FS_AddElement
  <2>3. Cardinality(Issued) \in Nat /\ Cardinality(Issued') \in Nat
    BY <2>1, <2>2, FS_CardinalityType
  <2> QED BY <1>2, <1>3, <2>2, <2>3 DEF RegistryInv, Room
<1>10. \A v \in Wire : Seen(v)' = IF v = w THEN Seen(v) \cup {b} ELSE Seen(v)
  <2> SUFFICES ASSUME NEW v \in Wire
               PROVE  Exported(v)' = IF v = w THEN Exported(v) \cup {b} ELSE Exported(v)
    BY <1>2 DEF Seen, DeliveredBounds
  <2>1. 1 .. published' = 1 .. published \cup {published + 1}
    BY <1>2, <1>3
  <2>2. results[published + 1].wire = w /\ results[published + 1].bound = b
    BY <1>4 DEF w, b
  <2> QED BY <1>2, <2>1, <2>2 DEF Exported
<1>11. Worst'
  <2> SUFFICES ASSUME NEW v \in Wire
               PROVE  IsWorst(issued'[v], Seen(v)')
    BY DEF Worst
  <2>1. IsWorst(issued[v], Seen(v))
    BY DEF RegistryInv, Worst
  <2>2. CASE v # w
    BY <1>2, <1>3, <1>10, <2>1, <2>2
  <2>3. CASE v = w /\ v \in Issued
    <3>1. Seen(v) # {} /\ issued[v] \in Nat
      BY <1>3, <2>1, <2>3 DEF Issued, IsWorst
    <3>2. \A c \in Seen(v) : c \in Nat
      BY SeenIsNatural DEF RegistryInv
    <3>3. issued'[v] = IF issued[v] >= b THEN issued[v] ELSE b
      BY <1>2, <1>3, <2>3 DEF Registered
    <3> QED BY <1>5, <1>10, <2>1, <2>3, <3>1, <3>2, <3>3 DEF IsWorst
  <2>4. CASE v = w /\ v \notin Issued
    <3>1. Seen(v) = {}
      <4>1. issued[v] = NotIssued
        BY <2>4 DEF Issued
      <4>2. Seen(v) \subseteq Nat
        BY SeenIsNatural DEF RegistryInv
      <4> QED BY <2>1, <4>1, <4>2 DEF IsWorst
    <3>2. issued'[v] = b
      BY <1>2, <1>3, <2>4 DEF Registered
    <3> QED BY <1>5, <1>10, <2>4, <3>1, <3>2 DEF IsWorst
  <2> QED BY <2>2, <2>3, <2>4
<1> QED BY <1>7, <1>9, <1>11 DEF RegistryInv

LEMMA PublishKeeps == ASSUME RegistryInv, Publish PROVE RegistryInv'
<1>1. /\ mode = "publishing" /\ published = Len(results)
      /\ mode' = "idle" /\ todo' = 0 /\ results' = <<>> /\ published' = 0
      /\ delivered' = delivered \cup
                        {<<results[i].wire, results[i].bound>> : i \in DOMAIN results}
      /\ issued' = issued
  BY DEF Publish, End
<1>2. /\ results \in Seq(ResultRecord)
      /\ DOMAIN results = 1 .. published
      /\ \A i \in DOMAIN results : results[i].wire \in Wire /\ results[i].bound \in Nat
  <2>1. results \in Seq(ResultRecord) /\ DOMAIN results = 1 .. published
    BY <1>1 DEF RegistryInv, RegistryType
  <2> QED BY <1>1, <2>1, ResultAt DEF RegistryInv
<1>3. delivered' \subseteq Wire \X Nat
  BY <1>1, <1>2 DEF RegistryInv, RegistryType
<1>4. RegistryType' /\ Phases'
  BY <1>1, <1>3 DEF RegistryInv, RegistryType, Phases
<1>5. Issued' = Issued
  BY <1>1 DEF Issued
<1>6. Room'
  BY <1>1, <1>5 DEF RegistryInv, Room
<1>7. \A w \in Wire : Seen(w)' = Seen(w)
  <2> SUFFICES ASSUME NEW w \in Wire PROVE Seen(w)' = Seen(w)
    OBVIOUS
  <2>1. Seen(w)' = DeliveredBounds(w)'
    BY <1>1 DEF Seen, Exported
  <2>2. ASSUME NEW b PROVE b \in DeliveredBounds(w)' <=> b \in Seen(w)
    <3>1. b \in DeliveredBounds(w)' <=>
            \E d \in delivered' : d[1] = w /\ b = d[2]
      BY DEF DeliveredBounds
    <3>2. b \in DeliveredBounds(w) <=> \E d \in delivered : d[1] = w /\ b = d[2]
      BY DEF DeliveredBounds
    <3>3. b \in Exported(w) <=>
            \E i \in DOMAIN results : results[i].wire = w /\ b = results[i].bound
      BY <1>2 DEF Exported
    <3>4. ASSUME NEW d
          PROVE  d \in delivered' <=>
                   \/ d \in delivered
                   \/ \E i \in DOMAIN results :
                        d = <<results[i].wire, results[i].bound>>
      BY <1>1
    <3>5. \A x, y : <<x, y>>[1] = x /\ <<x, y>>[2] = y
      OBVIOUS
    <3>6. b \in DeliveredBounds(w)' <=>
            \/ \E d \in delivered : d[1] = w /\ b = d[2]
            \/ \E i \in DOMAIN results : results[i].wire = w /\ b = results[i].bound
      <4>1. ASSUME NEW i \in DOMAIN results, NEW d,
                   d = <<results[i].wire, results[i].bound>>
            PROVE  d[1] = results[i].wire /\ d[2] = results[i].bound
        BY <3>5, <4>1
      <4>2. ASSUME NEW d \in delivered', d[1] = w, b = d[2]
            PROVE  \/ \E e \in delivered : e[1] = w /\ b = e[2]
                   \/ \E i \in DOMAIN results :
                        results[i].wire = w /\ b = results[i].bound
        BY <3>4, <4>1, <4>2
      <4>3. ASSUME NEW d \in delivered, d[1] = w, b = d[2]
            PROVE  \E e \in delivered' : e[1] = w /\ b = e[2]
        BY <3>4, <4>3
      <4>4. ASSUME NEW i \in DOMAIN results, results[i].wire = w, b = results[i].bound
            PROVE  \E e \in delivered' : e[1] = w /\ b = e[2]
        <5>1. <<results[i].wire, results[i].bound>> \in delivered'
          BY <3>4
        <5> QED BY <3>5, <4>4, <5>1
      <4> QED BY <3>1, <4>2, <4>3, <4>4
    <3> QED BY <3>2, <3>3, <3>6 DEF Seen
  <2> QED BY <2>1, <2>2
<1>8. Worst'
  BY <1>1, <1>7 DEF RegistryInv, Worst
<1> QED BY <1>4, <1>6, <1>8 DEF RegistryInv

LEMMA StepKeeps == RegistryInv /\ [RegistryNext]_registryVars => RegistryInv'
<1> SUFFICES ASSUME RegistryInv, [RegistryNext]_registryVars PROVE RegistryInv'
  OBVIOUS
<1>1. ASSUME NEW count \in 1 .. MaxBatch, BeginEncrypt(count) PROVE RegistryInv'
  BY <1>1, BeginKeeps DEF BeginEncrypt
<1>2. ASSUME NEW count \in 1 .. MaxBatch, BeginEvaluate(count) PROVE RegistryInv'
  BY <1>2, BeginKeeps DEF BeginEvaluate
<1>3. ASSUME NEW count \in 1 .. MaxBatch, DecryptBatch(count) PROVE RegistryInv'
  BY <1>3, NothingChanges DEF DecryptBatch, request
<1>4. ASSUME NEW w \in Wire, EncryptOne(w) PROVE RegistryInv'
  BY <1>4, ProduceKeeps, FreshIsNatural DEF EncryptOne
<1>5. ASSUME NEW w \in Wire, NEW bound \in ResultBounds, EvaluateOne(w, bound) PROVE RegistryInv'
  BY <1>5, ProduceKeeps, ResultBoundsAreNatural DEF EvaluateOne, RegistryInv
<1>6. CASE RequestFails
  BY <1>6, AbandonKeeps DEF RequestFails
<1>7. CASE UNCHANGED registryVars
  BY <1>7, NothingChanges DEF registryVars, request
<1> QED BY <1>1, <1>2, <1>3, <1>4, <1>5, <1>6, <1>7, BeginPublishKeeps, ExportKeeps,
           PublishKeeps DEF RegistryNext

THEOREM RegistryInvariance == RegistrySpec => []RegistryInv
  BY Initially, StepKeeps, PTL DEF RegistrySpec

\* No batch that passed the capacity test is refused, or registered in part,
\* for want of room, whatever the sizes of the registry and of the batch.
THEOREM CapacityPromise == RegistrySpec => []CapacityPromiseIsKept
<1>1. RegistryInv => CapacityPromiseIsKept
  <2> SUFFICES ASSUME RegistryInv PROVE CapacityPromiseIsKept
    OBVIOUS
  <2>1. ASSUME mode \in {"encrypting", "evaluating"}, todo = 0
        PROVE  HasCapacity(Len(results))
    BY <2>1, FS_CardinalityType
       DEF RegistryInv, Room, RegistryType, HasCapacity, RemainingCapacity
  <2> QED BY <2>1, NextHasPlace DEF CapacityPromiseIsKept
<1> QED BY <1>1, RegistryInvariance, PTL

\* Between requests the registry is exactly the worst delivered history of
\* every byte string.
THEOREM RegistryIsWorst == RegistrySpec => []RegistryIsWorstDelivered
<1>1. RegistryInv => RegistryIsWorstDelivered
  BY DEF RegistryInv, Phases, Worst, IsWorst, Seen, Exported, RegistryIsWorstDelivered
<1> QED BY <1>1, RegistryInvariance, PTL

\* No step ever forgets an issued byte string or lowers its bound.
THEOREM BoundsGrow == RegistrySpec => BoundsNeverShrink
<1> DEFINE Grow == \A w \in Issued : w \in Issued' /\ issued[w] <= issued'[w]
<1>1. RegistryInv /\ [RegistryNext]_registryVars => [Grow]_registryVars
  <2> SUFFICES ASSUME RegistryInv, RegistryNext PROVE Grow
    OBVIOUS
  <2>1. issued \in [Wire -> Nat \cup {NotIssued}]
    BY DEF RegistryInv, RegistryType
  <2>2. CASE issued' = issued
    BY <2>1, <2>2 DEF Issued
  <2>3. CASE Export
    <3>1. HasPlace(NextResult.wire)
      BY <2>3, NextHasPlace DEF Export
    <3>2. issued' = [issued EXCEPT ![NextResult.wire] =
                       Registered(NextResult.wire, NextResult.bound)]
      BY <2>3, <3>1 DEF Export
    <3>3. NextResult.bound \in Nat
      <4>1. published + 1 \in 1 .. Len(results)
        BY <2>3 DEF Export, RegistryInv, RegistryType
      <4> QED BY <4>1, ResultAt DEF NextResult, RegistryInv
    <3> QED BY <2>1, <3>2, <3>3 DEF Issued, Registered
  <2>4. issued' = issued \/ Export
    BY DEF RegistryNext, BeginEncrypt, BeginEvaluate, Begin, DecryptBatch, EncryptOne, EvaluateOne,
           Produce, RequestFails, Abandon, BeginPublish, Publish
  <2> QED BY <2>2, <2>3, <2>4
<1> QED BY <1>1, RegistryInvariance, PTL DEF RegistrySpec, BoundsNeverShrink

=============================================================================
