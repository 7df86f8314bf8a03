---------------------------- MODULE MainQSession ----------------------------
(***************************************************************************)
(* One session of fhe-service: the encrypt, evaluate and decrypt handlers  *)
(* (handlers.rs), Session::publish_batch (session.rs) and the provenance   *)
(* registry MainQTransport (crates/nine65/src/ops/wire_q.rs).  The session *)
(* lock is held from the first to the last step of a request, which        *)
(* SessionStore!NoUseAfterRemove establishes, so one request runs at a     *)
(* time; its steps are kept apart because any of them can fail.            *)
(*                                                                         *)
(* A wire is a ciphertext's exact byte string.  Two histories can give the *)
(* same bytes (multiplication by zero, x + y and y + x, x * 1), so the     *)
(* bytes of an operation's result are any wire; those of an encryption are *)
(* new.  What the bounds mean is the subject of MainQEvaluator.            *)
(***************************************************************************)
EXTENDS CertifiedBound, Sequences, FiniteSets

CONSTANTS
  Wire,        \* byte strings of the right length and header
  MaxEntries,  \* capacity of the registry (4096 in Session::new_for_tenant)
  NotIssued,   \* no registered bound
  MaxBatch,    \* bound on the ciphertexts of one request
  MaxRegistryRequests  \* bound on the requests of a behaviour

ASSUME MainQSessionAssumption ==
  /\ MaxEntries \in Nat
  /\ NotIssued \notin Nat
  /\ MaxBatch \in Nat
  /\ MaxRegistryRequests \in Nat
  /\ Admitted(FreshBound)

VARIABLES
  issued,         \* MainQTransport.issued: the bound of each issued wire
  operationCount, \* Session.operation_count
  lastBudget,     \* Session.last_budget_millibits, in bits
  mode,           \* what the running request is doing
  todo,           \* operations it still has to do
  results,        \* its ciphertexts, in order
  published,      \* how many of them have been exported
  produced,       \* wires that exist anywhere
  delivered,      \* every <<wire, bound>> a client was answered with
  requests        \* requests started

display  == <<operationCount, lastBudget>>
request  == <<mode, todo, results, published>>
registryVars == <<issued, display, request, delivered, produced, requests>>

Issued == {w \in Wire : issued[w] # NotIssued}

RegistryInit ==
  /\ issued = [w \in Wire |-> NotIssued]
  /\ operationCount = 0
  /\ lastBudget = RemainingBits(FreshBound)
  /\ mode = "idle"
  /\ todo = 0
  /\ results = <<>>
  /\ published = 0
  /\ produced = {}
  /\ delivered = {}
  /\ requests = 0

-----------------------------------------------------------------------------

\* MainQTransport::remaining_capacity, with its saturating_sub
RemainingCapacity == IF Cardinality(Issued) > MaxEntries
                     THEN 0 ELSE MaxEntries - Cardinality(Issued)

\* Variant: one result too many is let through.
HasCapacity_OffByOne(count) == count <= RemainingCapacity + 1

\* Session::require_capacity
HasCapacity(count) == count <= RemainingCapacity

\* The request ends: its ciphertexts are dropped and the lock is released.
End == /\ mode' = "idle"
       /\ todo' = 0
       /\ results' = <<>>
       /\ published' = 0

Abandon == End /\ UNCHANGED <<issued, display, delivered, produced, requests>>

\* A request that needs count new ciphertexts is refused unless the registry
\* has room for all of them.
Begin(at, count) ==
  /\ mode = "idle"
  /\ requests < MaxRegistryRequests
  /\ HasCapacity(count)
  /\ mode' = at
  /\ todo' = count
  /\ requests' = requests + 1
  /\ UNCHANGED <<issued, display, results, published, delivered, produced>>

BeginEncrypt(count)  == Begin("encrypting", count)
BeginEvaluate(count) == Begin("evaluating", count)

\* A result with bytes w, if ScalarNoiseModel::admit lets it exist.
Produce(w, bound) ==
  /\ todo > 0
  /\ Admitted(bound)
  /\ results' = Append(results, [wire |-> w, bound |-> bound])
  /\ produced' = produced \cup {w}
  /\ todo' = todo - 1
  /\ UNCHANGED <<issued, display, mode, published, delivered, requests>>

\* CramMainEvaluator::encrypt
EncryptOne(w) ==
  /\ mode = "encrypting"
  /\ w \notin produced
  /\ Produce(w, FreshBound)

\* The bounds of the results the six operations can have on issued inputs;
\* ct_from_b64 gives every input the bound registered for its bytes.
ResultBounds ==
  LET inputs  == {issued[w] : w \in Issued}
      scalars == {CenteredScalar(value) : value \in 0 .. T - 1}
  IN  {AddBound(a, b) : a, b \in inputs}                       \* add, sub
        \cup {ScalarBound(a, s) : a \in inputs, s \in scalars \cup {-1}}
        \cup {AddPlainBound(a, s) : a \in inputs, s \in scalars}
        \cup {MultiplyBound(a, b) : a, b \in inputs}

EvaluateOne(w, bound) ==
  /\ mode = "evaluating"
  /\ bound \in ResultBounds
  /\ Produce(w, bound)

\* An input that was never issued, a wrong arity, a scalar out of range, a
\* bound that is not admitted or a failed sampling ends the whole request.
RequestFails ==
  /\ mode \in {"encrypting", "evaluating"}
  /\ todo > 0
  /\ Abandon

-----------------------------------------------------------------------------
(* Session::publish_batch                                                   *)

BeginPublish ==
  /\ mode \in {"encrypting", "evaluating"}
  /\ todo = 0
  /\ IF HasCapacity(Len(results))
     THEN /\ mode' = "publishing"
          /\ UNCHANGED <<issued, display, todo, results, published,
                         delivered, produced, requests>>
     ELSE Abandon

NextResult == results[published + 1]

\* Variant: a re-export keeps the first record.
Registered_First(w, bound) == IF w \in Issued THEN issued[w] ELSE bound

\* What the registry records when bytes w are exported with a bound: a record
\* that exists is only ever replaced by a larger bound.
Registered(w, bound) ==
  IF w \in Issued /\ issued[w] >= bound THEN issued[w] ELSE bound

HasPlace(w) == w \in Issued \/ Cardinality(Issued) < MaxEntries

\* MainQTransport::export.  When the registry is full the batch fails, and
\* what it has exported so far stays registered although the client never
\* receives it.
Export ==
  /\ mode = "publishing"
  /\ published < Len(results)
  /\ IF HasPlace(NextResult.wire)
     THEN /\ issued' = [issued EXCEPT ![NextResult.wire] =
                          Registered(NextResult.wire, NextResult.bound)]
          /\ published' = published + 1
          /\ UNCHANGED <<display, mode, todo, results, delivered, produced, requests>>
     ELSE Abandon

Budgets == {RemainingBits(results[i].bound) : i \in DOMAIN results}

Publish ==
  /\ mode = "publishing"
  /\ published = Len(results)
  /\ lastBudget' = CHOOSE b \in Budgets : \A c \in Budgets : b <= c
  /\ operationCount' = operationCount + Len(results)
  /\ delivered' = delivered \cup
                     {<<results[i].wire, results[i].bound>> : i \in DOMAIN results}
  /\ End
  /\ UNCHANGED <<issued, produced, requests>>

-----------------------------------------------------------------------------

\* handle_decrypt: all inputs are imported and decrypted, or none counts.
DecryptBatch(count) ==
  /\ mode = "idle"
  /\ requests < MaxRegistryRequests
  /\ Issued # {}
  /\ operationCount' = operationCount + count
  /\ requests' = requests + 1
  /\ UNCHANGED <<issued, lastBudget, request, delivered, produced>>

RegistryNext ==
  \/ \E count \in 1 .. MaxBatch :
       BeginEncrypt(count) \/ BeginEvaluate(count) \/ DecryptBatch(count)
  \/ \E w \in Wire :
       EncryptOne(w) \/ \E bound \in ResultBounds : EvaluateOne(w, bound)
  \/ RequestFails
  \/ BeginPublish
  \/ Export
  \/ Publish

RegistrySpec == RegistryInit /\ [][RegistryNext]_registryVars

-----------------------------------------------------------------------------
(* Properties.                                                              *)

Result == [wire : Wire, bound : {b \in Nat : Admitted(b)}]

\* Every bound on record or in flight is one that the noise model admits.
RegistryTypeOK ==
  /\ issued \in [Wire -> {b \in Nat : Admitted(b)} \cup {NotIssued}]
  /\ operationCount \in Nat
  /\ lastBudget \in Nat
  /\ mode \in {"idle", "encrypting", "evaluating", "publishing"}
  /\ todo \in Nat
  /\ results \in Seq(Result)
  /\ published \in 0 .. Len(results)
  /\ delivered \subseteq Wire \X Nat
  /\ produced \subseteq Wire
  /\ requests \in 0 .. MaxRegistryRequests

\* The capacity test made before a batch is computed still holds when it is
\* published, and makes the whole export loop of publish_batch infallible: no
\* work is thrown away, and no batch registered in part, for want of room.
CapacityPromiseIsKept ==
  /\ mode \in {"encrypting", "evaluating"} /\ todo = 0 =>
       HasCapacity(Len(results))
  /\ mode = "publishing" /\ published < Len(results) =>
       HasPlace(NextResult.wire)

\* Bounds delivered for the bytes w.
DeliveredBounds(w) == {d[2] : d \in {e \in delivered : e[1] = w}}

\* Between requests the registry knows exactly the bytes that clients hold and
\* has, for each, the worst bound of all the histories that led to it: neither
\* a replay nor a second export of the same bytes resets a bound, and a failed
\* batch leaves nothing behind (MainQTransport::export).
RegistryIsWorstDelivered ==
  mode = "idle" =>
    \A w \in Wire :
      IF DeliveredBounds(w) = {}
      THEN issued[w] = NotIssued
      ELSE /\ issued[w] \in DeliveredBounds(w)
           /\ \A b \in DeliveredBounds(w) : b <= issued[w]

\* Inputs of later requests come from the registry, so the bound a client's
\* answer was computed from only ever grows for the same bytes, also while a
\* batch is half exported (MainQTransport::export, "never upgrade").
BoundsNeverShrink ==
  [][\A w \in Issued : w \in Issued' /\ issued[w] <= issued'[w]]_registryVars

=============================================================================
