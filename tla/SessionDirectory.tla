-------------------------- MODULE SessionDirectory --------------------------
(***************************************************************************)
(* What the session store promises, without locks: a bounded directory of  *)
(* entries, each owned by one tenant, that are leased to one worker at a   *)
(* time.  An entry is removed only while nobody leases it; once spoiled it *)
(* is never leased again and can only expire.  Every operation is atomic.  *)
(***************************************************************************)
EXTENDS Naturals, FiniteSets

CONSTANTS Worker, SessionId, Tenant, None, MaxSessions

VARIABLES
  owner,    \* tenant of each entry, None when there is no such entry
  lease,    \* worker using each entry, or None
  spoiled   \* entries that a worker left half-changed

vars == <<owner, lease, spoiled>>

Entries == {i \in SessionId : owner[i] # None}

Init ==
  /\ owner = [i \in SessionId |-> None]
  /\ lease = [i \in SessionId |-> None]
  /\ spoiled = {}

Open(id, tn) ==
  /\ id \notin Entries \cup spoiled
  /\ Cardinality(Entries) < MaxSessions
  /\ owner' = [owner EXCEPT ![id] = tn]
  /\ UNCHANGED <<lease, spoiled>>

Lease(w, id) ==
  /\ id \in Entries \ spoiled
  /\ lease[id] = None
  /\ lease' = [lease EXCEPT ![id] = w]
  /\ UNCHANGED <<owner, spoiled>>

Return(w, id) ==
  /\ lease[id] = w
  /\ lease' = [lease EXCEPT ![id] = None]
  /\ UNCHANGED <<owner, spoiled>>

Spoil(w, id) ==
  /\ lease[id] = w
  /\ lease' = [lease EXCEPT ![id] = None]
  /\ spoiled' = spoiled \cup {id}
  /\ UNCHANGED owner

\* The owner closes one entry.
Close(id) ==
  /\ id \in Entries \ spoiled
  /\ lease[id] = None
  /\ owner' = [owner EXCEPT ![id] = None]
  /\ UNCHANGED <<lease, spoiled>>

\* Any number of entries expire at once, none of them in use.
Expire(gone) ==
  /\ gone \subseteq Entries
  /\ \A i \in gone : lease[i] = None
  /\ owner' = [i \in SessionId |-> IF i \in gone THEN None ELSE owner[i]]
  /\ UNCHANGED <<lease, spoiled>>

Next ==
  \/ \E id \in SessionId, tn \in Tenant : Open(id, tn)
  \/ \E id \in SessionId, w \in Worker :
       Lease(w, id) \/ Return(w, id) \/ Spoil(w, id)
  \/ \E id \in SessionId : Close(id)
  \/ \E gone \in SUBSET SessionId : Expire(gone)

Spec == Init /\ [][Next]_vars

=============================================================================
