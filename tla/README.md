# TLA+ models of NINE65

NINE65 is a Rust workspace for exact integer fully homomorphic encryption (BFV
over residue number systems) with an HTTP service on top.  This directory holds
TLA+ modules of the parts whose correctness depends on interleavings, on
sequences of calls or on integer bounds, TLC configurations that check them on
small instances, and TLAPS proofs for all values of the constants.  Paths below
are relative to the repository.

1. [The system](#1-the-system)
2. [Modules and code](#2-modules-and-code)
3. [Runs](#3-runs)
4. [Fairness](#4-fairness)
5. [Proofs](#5-proofs)
6. [Where code and documentation disagree](#6-where-code-and-documentation-disagree)
7. [What is not modelled](#7-what-is-not-modelled)
8. [Plan](#8-plan)

---

## 1. The system

### 1.1 How the parts interact

```
 client --TCP--> accept loop (main.rs) --spawn--> connection thread
                     |                                |
                     | active_connections             | read_request (http.rs)
                     v                                v
                 connection limit          authorize_and_normalize (auth.rs)
                                                      |
                                              catch_unwind( route )   (handlers.rs)
                                                |         |        |
                                     AppMetrics |         |        | decrypt / operator gates
                                  (counters, rate limit)  |
                                                          v
  reaper thread (main.rs) -- every 60 s -->  SessionStore (session.rs)
                                                          | one session at a time
                                                          v
                       Session: keys + CramMainEvaluator + MainQTransport
                                   |                        |
                        ops/cram_main.rs               ops/wire_q.rs
                        noise/certified.rs            (provenance registry)
                        ops/exact_mul.rs, arithmetic/*
```

The service is threads and locks: one thread per connection, one reaper, the
main thread in the accept loop.  What they share is the session store (a
`RwLock` around a map of `Arc<RwLock<Session>>`), the connection count, the two
request counters and the map of rate windows behind a mutex.  Nothing is
persisted: a restart loses every session.  Below the session everything is
sequential integer code, parts of it on several threads through the lane
executor; its hard questions are bounds (does an admitted ciphertext always
decrypt to the right value?), histories of calls (does the registry of issued
ciphertexts keep the right bound for every byte string?) and exactness (do residue
algorithms that never see an integer compute what the integer would give?).
Beside the service stand libraries with protocols of their own: kiosk units that
meter and destroy themselves, an evaluator that refreshes ciphertexts, the public
refresh by a phase clock, and the residue core `clockwork-core` and `cram-core`.

### 1.2 Inventory

| component | state | operations | what is hard | what makes it correct |
|---|---|---|---|---|
| session store (`fhe-service/src/session.rs`) | map of sessions, two levels of `RwLock`, poisoning, access times | insert, with_session(_mut)_for_tenant, remove_for_tenant, reap_expired_sessions | two lock levels taken by all threads; panics under the inner lock; clock sampled before a lock | no use after removal, no deadlock, capacity, removal only for cause, poison fails closed |
| session registry and batches (`session.rs`, `handlers.rs`, `nine65/src/ops/wire_q.rs`) | bound of every issued byte string, last budget, operation count | encrypt, evaluate, decrypt, publish_batch, export, import | failure between two exports, equal bytes from different histories, a full registry | registry = worst bound delivered, bounds never shrink, a capacity test that stays true |
| certified evaluator (`nine65/src/ops/cram_main.rs`, `noise/certified.rs`) | ciphertexts with a travelling noise bound | encrypt, add, sub, negate, mul_plain, add_plain, multiply, decrypt | sums of error terms that must meet the decoding radius exactly | the bound covers the error; what is admitted decrypts exactly |
| server process (`fhe-service/src/main.rs`) | connection count, threads, process | accept, refuse, spawn, serve, panic boundary, release | counting before comparing, panics, the panic strategy of the build | the limit holds, refusals are due to it, a slot comes back once its client and handler have ended |
| rate limiter (`handlers.rs` `AppMetrics`) | window per tenant | allow_request | minute read outside the mutex | refused only at the limit; excess bounded |
| routing and gates (`handlers.rs`) | environment, sessions of tenants | route, session handlers, decrypt and operator token gates | a session that disappears and an identifier or wire that is presented by someone else while requests are on their way | a plaintext only goes to the secret that made its session and received its wire |
| ingress authentication (`fhe-service/src/auth.rs`) | token table | authorize_and_normalize | a client choosing its tenant header; malformed and repeated entries | the handler sees the token's tenant only |
| HTTP and wire parsing (`http.rs`, `wire.rs`) | none between requests | read_request, validation | sizes | bounded input |
| dual-track evaluator (`ops/rns_fhe.rs`) | keys and ciphertexts, each element modulo main primes and modulo anchors; a level per ciphertext | keys, encrypt, add, sub, negate, plain sum and product, public and symmetric multiplication, level drops, decrypt with margin | the tracks drift apart; a winding near the end of what the anchors tell; operands of different levels; a margin that measures the wrong thing | both tracks tell one integer, products rounded exactly or refused, drops cost their rounding |
| base extension and scale-round (`arithmetic/main_only_base_ext.rs`, `canonical_scale_round.rs`, `exact_scale_round.rs`) | tables | project, scale-round | a rank read from a fixed-point sum that may be too small, ties, a full accumulator | equal to the integer definition for every residue vector |
| exact multiplication (`ops/exact_mul.rs`, `ops/rns_fhe.rs`) | plans, gadget keys, ciphertexts | plan, keys, encrypt, tensor, relinearize, decrypt | capacities of two bases, signs of lifts, digits that must cover a modulus, threads that split the gadget | rounded exactly; noise within the certified bound |
| K-elimination and windings (`arithmetic/k_elimination.rs`, `cram-core/src/anchor.rs`, `phase_lock.rs`) | families of moduli | extract, rebuild, divide, scale, verify successor | products at the width of the word, values past the capacity | exact or refused; a verified successor is one |
| clockwork residue core (`clockwork-core/src/basis.rs`, `garner.rs`, `decode_to_q.rs`, `gearstack.rs`, `bound_tracker.rs`) | basis, residues, bound | encode, decode, Garner, promote, add, sub, mul, dot product | value past the capacity of the basis; products past 128 bits | integers stay exact, every way to read them agrees |
| kiosk units (`nine65/src/kiosk`) | fuse, lifetime, witness lane, masks, limbs | load, checked operations, expire, destroy, fold | operation at the last unit of the fuse; a fault between two operations; a refusal half-way | spent once, terminal states terminal, receipts complete, nothing left |
| key lifecycle (`clockwork-core/src/key_lifecycle.rs`) | phase, shares, counters | initialize, record_operation, reshare, destroy | calls in the wrong phase | shares always sum to the key; zeroed stays zeroed |
| integrity vote (`clockwork-core/src/integrity.rs`) | three copies, checksum | write, read, repair | faults between two calls | one damaged copy cured, two damaged places never believed |
| phase gate (`clockwork-core/src/gro.rs`) | two accumulators | windows, period, next window | time that wraps | windows recur with the stated period |
| automatic bootstrap (`ops/auto_bootstrap.rs`, `noise/budget.rs`) | ledger of each ciphertext, counters, gate | encrypt, mul_auto, try_add_auto, refresh | ledger and noise drift apart; the same ciphertext twice; a refresh that is not exact behind a gate that refuses it | the trigger before the window closes, a refusal before a result that does not decrypt |
| public refresh (`ops/public_refresh_*.rs`) and phase clock (`arithmetic/phase_clock_plan.rs`, `ops/public_phase_clock.rs`, `phase_clock_return.rs`, `cram_main_phase_clock.rs`) | plan, keys, families, receipts | plan, transduce, return, refresh again, admit | errors of a lookup that must stay inside its window; bundles of several clients and families | the message survives every round trip, within the bound carried along |
| polynomial pool (`ring/pool.rs`) | buffers of one thread | acquire, release, prewarm, clear | buffers that were written, emptied or replaced by their holder | handed out clean and of the length asked for |
| lane executor (`mana/src/executor.rs`, called through UNHAL from the limb loops of `ops/rns_fhe.rs`) | claim counter, scoped threads, buckets of results | run_lanes | threads racing for lanes; a lane panics or a spawn fails while others compute | results as of a sequential map, no thread outlives the call |
| private feedback (`private-feedback-*`) | a frame of residues or of ciphertexts | add | sum past the capacity, which nothing bounds or reads | none in these crates |
| numeric kernels, parameters, entropy, security utilities, number libraries, bindings | little or none | - | - | section 7 |

`PROJECT.json` lists the same components with their files and status, and under
`hazards` each point of the code where something can go wrong that a test would
hardly reach, with the properties that would notice.

---

## 2. Modules and code

For each component there is a module with the state machine, followed by its
properties, an `MC...` module with the
instances for TLC where constants need one, and a `...Proofs` module where there
are proofs; small components share one.  Operators ending in `_Something` and introduced
as *Variant* are plausible mistakes of the code (a dropped guard, an off-by-one);
no specification uses them.  They are kept beside the definition they vary
because each property was confirmed to fail when one is put in its place.

### 2.1 SessionStore, SessionDirectory

`SessionStore` models `session.rs` with the reaper of `main.rs`.

| code | model |
|---|---|
| `sessions: RwLock<HashMap<..>>` | `map`, `storeWriter`, `storeReaders` |
| `Arc<RwLock<Session>>` | `sessionGuard`, `poisoned` |
| `tenant_id`, `last_accessed` | `tenantOf`, `lastAccessed` |
| thread's place in a request | `pc`, `target`, `caller` |
| `Session::new_for_tenant` before the lock | `GenerateSession` |
| `insert` | `Insert` |
| `with_session(_mut)_for_tenant` | `LookUp` (read guard, kept), `LockSession` or `RefuseSession`, then `Finish` or `Panic` |
| `remove_for_tenant` | `LockForRemove`, `Remove` |
| `reap_expired_sessions` | `SampleTime`, `LockForReap`, `Retain` |

An action begins where a lock is taken and ends at the next point where another
thread could be seen.  Both `with_session` functions take the session's write
lock, so one request stands for get, encrypt, evaluate and decrypt.  The store's
own lock is never poisoned in the model: nothing panics under its write guard,
and a dropped read guard does not poison.  `insert` overwrites an equal
identifier; identifiers are 128 random bits and are taken to be distinct.

`SessionDirectory` is the abstract specification: entries owned by a tenant,
leased to one worker at a time, without any lock.  The mapping is at the end of
`SessionStore`: the entries are the keys of `map`, a lease is a session's
write guard, a spoiled entry is a poisoned session.  A whole reap is one
`Expire` of any set of entries that nobody leases.

### 2.2 CertifiedBound, MainQEvaluator

`CertifiedBound` has the bound formulas of `ScalarNoiseModel` as operators on
integers and, as `CertifiedBoundAssumption`, the limits its constructor
enforces.  The code computes them in 512 bits and those limits keep every
intermediate below that width, so the model uses unbounded integers.

`MainQEvaluator` models `CramMainEvaluator` and `CramMainClient`.  A ciphertext
`(c0, c1)` is represented by its *phase* `c0 + c1*s` modulo `Q` and `x^N + 1`,
which is what decryption sees and what the linear operations transform exactly.
Next to it stand the bound the code carries (`bound`) and the value the circuit
should have (`plain`), which the program never sees.  Each operation first
admits the bound (`2*bound < Q`) and only then computes, as in the code; a
refusal changes nothing and is the action not being enabled.

- `Encrypt`: `Delta*m + e`; `e` ranges over `Errors`, within the bound
  `(2N+1)*Eta` that follows from ternary `u` and `s`.
- `Add`, `Sub`, `Scale` (`negate`, `mul_plain`), `AddPlain`: exact.
- `Multiply`: the two phases are lifted by any multiple of `Q` that centered
  `c0`, `c1` and a ternary `s` allow (`Lifts`), multiplied in the ring, scaled by
  `T/Q`, and each coefficient is moved by the extreme errors that rounding three
  tensor parts and switching the key can add (`Products`).  An outcome between
  the extremes has an error between theirs, also after linear operations; at the
  modulus and within the three operations of the run no product is admitted as an
  operand of another product.
- `Decrypt`: the rounding that `CanonicalScaleRound` computes for odd `Q`.

### 2.3 MainQSession

One session under its lock: the encrypt, evaluate and decrypt handlers,
`publish_batch` and the registry `MainQTransport`.  `SessionStore` shows that
the lock makes requests of one session exclusive, so one request runs at a time;
its steps stay apart because any of them can fail half-way.

| code | model |
|---|---|
| `MainQTransport.issued` | `issued` (wire to bound) |
| `operation_count`, `last_budget_millibits` | `operationCount`, `lastBudget` (bits) |
| the handler's local vector of results | `results`, `todo`, `published` |
| `require_capacity` | `HasCapacity`, tested in `Begin` and `BeginPublish` |
| `MainQTransport::export` | `HasPlace`, `Registered`, `Export` |
| end of `publish_batch` | `Publish` |
| early `return` of a handler | `RequestFails`, `Abandon` |

A wire is an exact byte string.  Two histories can give the same bytes (`x + y`
and `y + x`, multiplication by 0 or 1), so the result of an operation may be any
wire, while an encryption gives a new one.  `produced` and `delivered` are
auxiliary: the wires that exist, and what clients were answered.

### 2.4 RateLimiter, ServiceRequest

`RateLimiter` is `AppMetrics::allow_request` and `rate_limit_allows`: `ReadClock` is
what a thread does before the mutex, `Decide` everything under it.  `admitted` is
auxiliary.  The clock is taken not to step back.

`ServiceRequest` extends it to a request's whole way through the service:

| code | model |
|---|---|
| the four environment variables, read at start | `config` |
| `TenantAuthenticator::from_env`, `authorize_and_normalize` | `TokenFor`, `Authorized`, `Normalized`, in `Arrive` |
| `route`: access check, then `allow_request` | `Arrive` (with `ReadClock`), `Rate` (with `Decide`) |
| the session handlers | `CreateSession`, `DeleteSession`, `Encrypt`, `Evaluate`, `Decrypt` |
| every early `return` of a handler | `HandlerRefuses` |
| decrypt gate | `DecryptAuthorized` |
| reaper | `Expire` |

A step of a handler is atomic, as the refinement of `SessionStore` shows (one lease at a
time), and of a session's registry only the set of issued wires is kept, which
`MainQSession` treats in detail.  What a request contains is chosen when the handler
looks at it.  Refusals at the ingress, public routes and the operator's metrics page
change none of these variables; `FheServer` has the connections they arrive on.
A malformed or empty entry of the token table closes the service to every
tenant, a repeated tenant only to that tenant, as in the code.  `creator`,
`answered` and `disclosed` are auxiliary.

### 2.5 FheServer

`main.rs`: `Accept` (the `fetch_add`), `Refuse` or `SpawnThread` (the comparison and
what follows), the stages of `serve_connection`, the panic boundary, and
`Release`, the last statement of the connection's closure.  `Route` and
`HandlerReturns` count requests as `handlers.rs` does.  The stages are of two kinds:
`Others` are the steps that wait for somebody else (a request is read, a handler ends,
an answer is written, a refusal at the ingress included), `Proceed` those that the
thread makes by itself.  `PanicUnwinds` is the panic strategy of
the build: `Cargo.toml` sets `panic = "abort"` for the release profile.  The
accept loop is the main thread: when `std::thread::spawn` panics, the process
ends (`SpawnThread`).

### 2.6 LaneExecutor, LaneMap

`run_lanes` of `mana/src/executor.rs`, one call.

| code | model |
|---|---|
| `next: AtomicUsize` | `next` |
| `scope.spawn` for each worker, which may panic | `Spawn`, `SpawnFails` |
| `fetch_add`, `if i >= lanes`, start of `lane_fn(i)` | `Claim` |
| `lane_fn` returns, `out.push`; panics | `Compute`; `LanePanics` |
| `h.join().expect(..)` in the order of the handles | `Join` |
| unwinding out of `thread::scope`, which waits for its threads | `Unwind` |
| placing the buckets in the slots, `panic!("lane {i} never computed")` | `Collect` |
| the plain loop for few lanes or one core | `Sequential` |

`lane_fn` is any function of the index (`Result`) that may panic for any set of
lanes (`faulty`): the contract asks callers for a pure function.  `calls` counts its
invocations; the code has no such counter.  `fetch_add` is atomic whatever its
memory ordering, and the values travel through the join, so interleaving is all
there is.  The steps after a panic are those of a build that unwinds; the release
profile ends the process at the panic.

`LaneMap` is the abstract specification: the call returns the sequential map, or
panics if a lane does, or fails because a thread could not be had.

### 2.7 NoiseLedger, AutoBootstrap

`NoiseLedger` is `NoiseBudget`: the levels at which a ledger is seated, the costs,
the reserve and the trigger, in whole bits.  Next to it stand the worst noise of an
encryption, a refresh, a sum and a product (`FreshNoise`, `RefreshNoise`, `AddNoise`,
`MulNoise`), which the program never sees; what rescaling and relinearisation
deposit is bounded by `DepositAssumption`, which restates the side condition a test
of `budget.rs` computes for the parameter sets.

`AutoBootstrap` is the evaluator.  A ciphertext is the term it was computed by (two
equal ones are equal bytes, which is how the code recognises an operand used
twice), its noise, its ledger, and whether it is known to encrypt the value of its
circuit (`exact`).  The gate in front of a refresh is closed (bootstrap.rs 94), so that
every refresh is refused, because the first phase of a refresh rounds two components
apart and loses a carry that depends on the secret, inside the window as well
(bootstrap.rs 8 to 26, budget.rs 93 to 110).  The evaluator's accounts can be judged
behind an open gate too, where what a refresh returns is *not* exact; nothing is said of
the plaintext of a circuit with a refresh in it.  A failed call drops what it refreshed
but keeps the count of it.

### 2.8 FoldOperator, DestructionSequence, KioskUnit, SpendableToken

`FoldOperator` has the operators of `fold.rs` and `destruction.rs` on records, so
that the unit that owns a fold operator and the public interface share them.
`DestructionSequence` is that interface called in any order: fold, unfold, permanent
fold, execute; a refused call changes nothing.

`KioskUnit` is `unit.rs` with `fuse.rs` and `inv8.rs`: `Load`, `CheckedMul` and
`CheckedAdd` (consume the fuse, compute, compare with the check lane), `Expired`,
`Destroy`, and a clock.  With `Faults` a result may differ from what was computed,
which is what the check lane is for.  The operation that blows the fuse is counted
and returns nothing, as in the code, so a budget of n gives n - 1 results
(section 6).  `SpendableToken` is the abstract specification: loaded once, used at most as
often as its allowance says, destroyed once; the mapping is at the end of `KioskUnit`,
and the allowance is the documented number of operations.

### 2.9 Building blocks

`MCArithmetic` (residues) and `MCMachines` (kiosk, destruction, bootstrap, shares,
vote, gate, pool), like `MCMainQ` (2.2 and 2.3) and `MCThreads` (2.5 and 2.6), run one of these at a time: `part` says which, and the others stand
still in one initial state.

| module | code | notes |
|---|---|---|
| `Numbers`, `RnsBasis`, `GearStack` | `basis.rs`, `garner.rs`, `decode_to_q.rs`; `gearstack.rs`, `bound_tracker.rs` | `u64` and `u128` wrap at `2^WordBits` and its square; both Garner routes; `value` is the integer the residues stand for.  A stack starts with zeros that `from_value` accepted, so the capacity is above the guard bits |
| `KeyLifecycle` | `key_lifecycle.rs` | two shares modulo `q`; secrets and random shares are 0, 1 and `q - 1` |
| `TripleRedundant` | `integrity.rs` | `Corrupt` changes any one copy or the checksum at any time; values of equal CRC32 are left out |
| `GroGate` | `gro.rs` | time is a machine word and wraps |
| `PolynomialPool` | `ring/pool.rs` | a buffer is its length and whether it was written; its holder may write, empty, keep or replace it |
| `BaseExtension` | `main_only_base_ext.rs`, `canonical_scale_round.rs` | coefficients, fixed-point rank, exact fallback, plain and centered, both scale-and-rounds |
| `ExactMultiplication` | `exact_mul.rs`, `exact_scale_round.rs`, keys and encryption of `rns_fhe.rs` | real residues of real polynomials of degree `N`; transforms and Montgomery form are one-to-one and left out |
| `Winding` | `k_elimination.rs`, `anchor.rs`, `phase_lock.rs` | an operation that may refuse returns the set of its results |
| `DualRescale`, `DualTrack` | the dual-track part of `rns_fhe.rs` | see below |
| `PhaseClock` | `phase_clock_plan.rs`, `public_phase_clock.rs`, `phase_clock_return.rs`, `rns_galois.rs`, `cram_main_phase_clock.rs` | see below |

`DualTrack` keeps every ring element in residues modulo the main primes and modulo the
anchors, as the code does, and beside a ciphertext the integers those residues should
stand for (`value`) and the plaintext it is meant for (`plain`), which only the
properties read.

| code | model |
|---|---|
| `generate_keys_dual_with_rng`, evaluation key | `GenerateDualKeys`, `EvalKey` |
| `encrypt_dual_with_rng` | `EncryptDual` |
| `add_dual`, `sub_dual`, `negate_dual`, `add_plain_dual`, `mul_plain_dual` | `AddDual` (with a sign), `NegateDual`, `AddPlainDual`, `MulPlainDual` |
| `extract_k_rns_level_cached` | `Windings`: the set of its results, one or none |
| `k_elim_rescale_dual` | `RescaledDual`, on `Rescaled` of `DualRescale` |
| `extract_digit_dual`, `relinearize_dual` | `ExactIntegers`, `DigitsOf`, `RelinearizedDual` |
| `audit_capacity` | `Utilization`, `AuditPasses` |
| `mul_dual_public`, `try_mul_dual_symmetric` | `MulDualPublic`, `MulDualSymmetric` |
| `mod_switch_down_dual` | `Dropped`, and `DownTo` for keys |
| `decrypt_dual_with_diagnostics` | `DecryptDual`, on `Decoded` of `DualRescale` |

A multiplication that the code refuses (a winding too close to the end of the
anchors' range, an anchor that disagrees, a digit that does not fit, the capacity
audit) is a step that changes no ciphertext and is remembered in `last`.
`DualRescale` has the integer functions alone, so that they can be proved about.

`ExactMultiplication` measures its noise against `CertifiedBound`, the same formulas
`MainQEvaluator` uses (`Certified` is an `INSTANCE`): the abstract evaluator's worst
case and the residues' real error meet there.  `Relinearized` takes the number of
threads, since the code splits the gadget over them.  What sampling draws is a parameter:
masks, ternary polynomials and bounded errors (`SamplesAssumption`), on a tape that is long
enough for the keys (`TapesAssumption`).  `Computed(f)` is `f`.

`PhaseClock` refreshes a ciphertext without a secret.  A source coefficient with
`t * phase = Q * (A + K) + g` is read as the sum `A` of its rounded components,
computed under encryption, and the carry `K`, looked up by turning a table by
encrypted trits.  Ciphertexts of the boot ring are represented by their phase, and a
key switch adds an error as large as its bound (`Switches`); those of the work
ring are real, because their two components are rounded apart.  A plan is
accepted or refused (`Accepts`, `Builds`) as the constructors do; the operations are
`Ingress`, `TransduceInput` and `TransduceRaw`, `Return`, `RefreshReturned` and
`Admit`, and `Doubled` is the evaluator's addition of a ciphertext to itself, so that
what is refreshed again is not what came out.  Bundles have a client, a boot family and
may be registered or not: the domains, families and receipts decide what meets what.
The constants that stand for what is drawn are typed (`PhaseClockAssumption`): both degrees
are powers of two, boot secrets are ternary, the error of a switch is at most its bound, masks
are any integers.  What a run or a proof may start from is `SetUps`: any proposal and any
sources, provided that a ciphertext of kind `"main"`, which the certified evaluator made, is
within the bound it carries (`SetUpsAssumption`); `NoiseStaysCertified` is the proof that it is.
Raw ciphertexts carry nothing that is believed.

---

## 3. Runs

| run | configuration | properties |
|---|---|---|
| `store_safety` | 2 workers, 2 sessions, 2 tenants, 1 place, TTL 1, clock to 3, 3 requests per worker; symmetric | `NoUseAfterRemove`, `RemovedForCause`, `PoisonFailsClosed`, `ImplementsDirectory`, deadlock |
| `store_liveness` | 2 workers, 2 sessions, 1 tenant, 2 places, clock to 2, 2 requests per worker | `EveryRequestAnswered`, `DueIsReaped`, deadlock |
| `main_q` | one at a time: *evaluator* N=2, T=3, Q=1309, 3 operations, extreme errors; *session* 4 wires, 3 places in the registry, batches of 2, 4 requests; symmetric in the wires | `BoundIsSound`, `DecryptsExactly`, multiplications included; `CapacityPromiseIsKept`, `RegistryIsWorstDelivered` |
| `service_requests` | 2 threads, 2 tenants, 4 secrets, 2 sessions, 2 wires, 6 environments, limit 1, 3 minutes, 6 requests | `RefusedOnlyAtLimit`, `OvershootIsBounded`, `PlaintextsStayHome` |
| `threads` | one at a time: *server* 4 connections, 2 slots; *executor* up to 3 threads, up to 4 lanes, any set of lanes panics | `ServedWithinLimit`, `RefusedOnlyWhenFull`, `SlotsComeBack`; `NoThreadOutlivesCall`, `CallEnds`, `ImplementsMap`; deadlock |
| `machines` | one machine at a time: *bootstrap* N=2, T=3, 2 encryptions, 3 operations, thresholds 0 and 1000, gate closed and open; *kiosk* moduli 3 and 5, three kinds, capsules of 0 and 3 uses, lifetimes 0 and 2, clock to 3; *sequence* of 2 operations and 4 folds; shares, vote, gate and pool as below | `LedgerCoversNoise`, `StaysRefreshable`, `DecryptsExactly`; `NothingIsLeft`, `ReceiptAccounts`, `IsSpendableToken`; `LimbsFollowState`; `SharesMakeTheSecret`, `DamageIsCured`, `WindowsRecur`, `BuffersAreClean` |
| `arithmetic` | one part at a time, on the instances below | `StackIsExact`, `ReadingsAgree`, `ConversionsAreExact`, `RoundingsAreExact`, `CertificateCoversNoise`, `WindingsAreExact`, `SuccessorsAreReal`, `RefreshKeepsMessage`, `DualTracksStayExact` |
| `rate_limit_exact`, `vote_mismatch`, `fuse_allowance`, `crt_at_capacity`, `exhaustion_reported` | see section 6 | each one sentence of the repository that the code does not keep |

What the properties say is written above each of them in the modules.

Why the bounds are enough:

- *Store.*  The dangerous orders need one user, one remover and the reaper on the
  same session; two workers and the reaper give them, with a third request per
  worker for what happens after a removal or a panic.  Two sessions and one place
  make the map full while a generated session waits to be inserted.  TTL 1 with
  four clock values reaches an age of TTL and of TTL + 1 and a sample that is
  stale by more than one unit.  The theorems of section 5 remove the bounds for
  safety.
- *Evaluator.*  Q=1309 is the product 7*11*17 of small primes and is just large enough
  for one product of fresh ciphertexts to be admitted, while that product with
  anything is refused, so both sides of admission are reached; Q is not a multiple
  of T, so the remainder terms count.  Both properties are proved for all parameters.
- *Registry.*  Three places, batches of two and four requests reach a full
  registry, a batch of which one result is new and one repeats registered bytes,
  and a repeat with a smaller and with a larger bound.
- *Service requests.*  A late thread needs two threads and a minute boundary.  Two
  tenants on two sessions and two wires let one present what the other was given,
  with a session expiring in between; the environments have decryption on and off,
  a repeated tenant, a malformed and an empty entry, and missing secrets.  Both
  the excess and the isolation are proved for any number of each.
- *Server.*  Four connections on two slots have refusals while others end.
- *Lane executor.*  Three threads and four lanes: a thread takes a second lane while
  another is late, panics with a computed lane in its bucket, or is never started;
  up to four lanes include the empty call and the sequential one.
- *Automatic bootstrap.*  Two encryptions and three operations reach sums and products
  of refreshed and of unrefreshed operands, the same operand twice, and a call that
  refreshes both.  Threshold 0 leaves the reserve alone to decide, 1000 refreshes
  always.  The machines share no state, so that running one at a time loses nothing.
- *Kiosk.*  A budget of 3 uses at cost 2 with words up to 7 includes the saturating one; a
  capsule of no uses is spent before it is loaded; lifetime 2 under a clock to 3 expires
  before, between and after operations.  Two moduli leave a half-erased state.
- *Residue core.*  Bases 3,4,5 and 13,5 in 6-bit words; every integer of the capacity is
  read by every route.  Guard bits 2 (8 in the code) let bounds run out in a few steps.
- *Base extension.*  Every integer of four pairs of bases, at 4 fractional bits (64 in the
  code), so that the fixed-point rank is often too close to call and the exact
  fallback decides.  One target modulus is as wide as the word; one pair has an even
  main modulus, which is extended but never rounded.
- *Exact multiplication.*  Systems 37,61 with t=3 (room for a certified product), 5,13,17
  with t=2 (three lanes), 37,61 with t=5 (the wide auxiliary pool, and a product that is
  not certified); errors mixed and all largest; imported ciphertexts with coefficients
  at both ends of the centered range; one and two threads; digits of 3 bits (10 in the
  code).
- *Windings.*  A small pair of families, an adjacent pair, one whose second product is
  above half of the width and whose capacity is above all of it, so that sums and
  products wrap, and one whose moduli share a factor and is
  refused.  All values of the small capacities, and those around the width and around the
  largest capacity.
- *Phase clock.*  Boot ring of degree 16 over 4129*4513.  With a work modulus of 13: all
  sources within error 1 looked up by one trit, exact sources by two trits, for
  secrets of each shape; round trips with two clients and two families in four bundles, one
  of them not registered, and two refreshes; and a set-up whose windows overlap, which is refused.
- *Dual track.*  Main primes 5, 17, 29 with N=2 and four families of anchors: inside
  80 percent of the capacity with the diagnostics on, so that a warning refuses (the
  shipped parameter sets are below 74 percent); with a sixth anchor that is
  compared, not read (5 of them are read, 8 in the code); close to the capacity without such an
  anchor; and beyond the capacity, where the audit refuses.  The distance from the end of
  the range that counts as too close is 500 for the code's 10^6; digits have 3 bits.  Two
  operations follow two encryptions: a product of products, a product after a drop, a
  drop after a product, a sum across levels.  Draws are fixed and their errors mixed;
  anchors are small primes, which need not support a transform.
- *Key shares, vote, gate, pool.*  Moduli 3 and 128; three values; 6-bit time that wraps;
  two lengths with two places each.

Deadlock is checked where the system must be able to go on (`store_safety`,
`store_liveness` and the server in `threads`, whose `Finished` names the states where
nothing is left to do; a call of the executor may stop, and `CallEnds` says that it does
so at its end only).  The other passing runs switch it off because they really stop: at
the bound on their operations, requests or minutes, or, for a kiosk unit and a single
computation, at their end.  For the store, `Tick`, the reaper and
the bound on requests leave the reaper running for ever, so no state is final.

---

## 4. Fairness

- `SessionStore!FairSpec`: strong fairness of each worker's `Serve`, weak fairness
  of the reaper and of the clock.  The strong fairness is about locks: the reaper
  takes the write guard in every round of an endless loop, so a worker's wait is
  enabled again and again, not always.  Between two rounds the reaper sleeps 60
  seconds holding nothing (`main.rs`), which is ample for a waiting thread to be
  woken.  New requests and panics are under no fairness.  The weak fairness of
  `Reap` says that the reaper's thread is scheduled; it ends only with the process.
- `FheServer!ServerFairSpec`, that is `ServerSpec` with `ServerFairness`: weak fairness
  of the accept loop and of each connection's `Proceed`, which the operating system
  gives by scheduling threads.  `Others` is under no
  fairness: a timeout of 5 seconds bounds each read, but nothing bounds a request, a
  handler or the writing of an answer, so a client that sends one byte at a time holds
  its slot.  `SlotsComeBack` therefore says that the slots taken in the end are those of
  connections whose client or handler has not ended, and no others.  The accept loop's
  own answer "busy" is taken to be written: it fits the socket's buffer.
  The run `threads` has this fairness for all of its properties.
- `LaneExecutor!FairLaneSpec`, that is `LaneSpec` with `LaneFairness`: weak fairness of
  the calling thread and of each thread it started.  The operating system schedules them, and `lane_fn` is a bounded loop
  over the coefficients of a limb.  Failing to spawn is under no fairness.
- The other specifications are checked for safety only: nothing in them waits, they do
  what a caller asks.

---

## 5. Proofs

All are checked by TLAPS for every value of the constants that satisfies the
named assumptions of the modules.

| module | theorems | from |
|---|---|---|
| `SessionProofs` | of the store `TypeCorrect`, `UseIsSafe`, `CapacityIsRespected`, `LockOrderIsSafe`, `RemovalIsJustified`, `PoisonIsContained`, `StoreImplementsDirectory`; of the registry `CapacityPromise`, `RegistryIsWorst`, `BoundsGrow` | `SessionStoreAssumption`; `CertifiedBoundAssumption`, `MainQSessionAssumption` |
| `MainQEvaluatorProofs` | `TypeCorrect`, `BoundsAreSound`, `EvaluatorIsExact`; of the lane executor `LanesTypeCorrect`, `LanesOnce`, `NoThreadIsLeft`, `ExecutorImplementsMap` | `CertifiedBoundAssumption`, `MainQEvaluatorAssumption`; `LaneExecutorAssumption` |
| `ServiceRequestProofs` | `TypeCorrect`, `RefusalIsJustified`, `OvershootBounded`, `ServiceRates`, `Isolation`; of the server `LimitIsRespected`, `SlotsAreExact`, `BusyIsJustified` | `RateLimiterAssumption`, `ServiceRequestAssumption`; `FheServerAssumption` |
| `LifecycleProofs` | `TypeCorrect`, `MeterIsRight`, `DestroysCompletely`, `ReceiptIsComplete`, `OverForever`, `Implements`, `FoldsComeOff`, `SharesStaySound`, `OneFaultIsCured`, `PoolStaysClean`, `RescaleIsExact`, `DropIsClose`, `MarginIsBlind`; of the automatic bootstrap `TrackedTypeCorrect`, `LedgerIsSound`, `RefreshableForever`, `Exactness` | `FoldOperatorAssumption`, `KioskUnitAssumption`, `MaskAssumption`, `KeyLifecycleAssumption`, `KeyWordAssumption`, `PoolAssumption`; `Pow2Assumption`, `Pow2Additive`, `NoiseLedgerAssumption`, `DepositAssumption`, `AutoBootstrapAssumption` |
| `ArithmeticProofs` | `GateWindowsRecur`, `StackStaysExact`, `WindingsStayExact`, `ReadingsStayInAgreement`, `VerifiedSuccessorsAreReal`, `ConversionsStayExact` | `GroGateAssumption`, `WordAssumption`, `GearStackAssumption`, `WindingAssumption`, `ReadingsAssumption`, `ExtensionAssumption`, `ConversionsAssumption`; for the stack `BasesLeaveRoom`, for its readings `ExtensionsLeaveRoom` |
| `MultiplicationProofs` | `RoundingsStayExact`, `FoldingStaysExact`, `NoiseStaysCertified` | `WordAssumption`, `ExtensionAssumption`, `ExactMultiplicationAssumption`, `PlaintextAssumption`, `SamplesAssumption`, `TapesAssumption` |
| `PhaseClockProofs` | `RefreshesKeepMessage` | those of `MultiplicationProofs`, `PhaseClockAssumption`, `SetUpsAssumption` |
| `IntegerLemmas` | lemmas only: division, congruence and divisors, sums over finite sets, and functions that are defined by recursion | none |

**Session store.**  No property is inductive alone.  `IInv` adds to `TypeOK` where
every thread is and what it holds: `Places` (a worker's place determines its
target and caller), `StoreLock` (writer and readers exclude each other, and are
exactly the threads at the places where the code holds the guard), `Held` (a
session's guard is held only by a worker that also holds the store's read guard),
`Owned` (everything in the map has a tenant) and `Bounded`.  `Held` is the heart:
from it and the exclusion of the store's lock follows that no session guard is
held while the write guard is, hence `RemoverNeverWaits`, `NoUseAfterRemove` and
the refinement.  `StoreImplementsDirectory` shows that each step is a step or a
stutter of the directory under the mapping; `Retain` becomes `Expire`, and its
condition that nobody leases what expires is `RemoverNeverWaits`.

**Evaluator.**  The invariant `Sound(c)` says that the excess
`T*phase - Q*plain` of every coefficient is within the ciphertext's bound of a
multiple of `T*Q` (`Near`), and that the bound is admitted.  `Near` is closed under
sums and multiples with the sums and multiples of the bounds, and is not disturbed
by reducing the phase modulo `Q` and the value modulo `T` (`OutputIsSound`); the
remainder terms of `FreshBound` and `AddPlainBound` are exactly what `Delta = Q div
T` loses.  `CenteredIsNear` and `NearDecrypts` connect this to the two properties.

A product needs more.  For a phase lifted to the integers, `T*lift = Q*m + e + T*Q*j`:
the message, the error and the turns that lifting and wrapping add.  The product of two
such lifts, times `T`, has five parts: `Q` times the product of the messages, the
two errors with the other's message, the turns with the other's error, the
product of the errors, and multiples of `T*Q`.  `MultiplyBound` is the sum of what each part is at
most.  Each is a coefficient of a product in the ring, that is a sum over the
powers, which `TotalIsLinear` takes apart and `TotalIsBounded` bounds; `Lifts` bounds
the turns, and rounding and the switched key add what the formula's last
terms say.  `BoundsAreSound` and `EvaluatorIsExact` hold for every circuit, every even
`N` and every `T`, `Q` and `Eta` the constructor accepts.  (The code takes powers of two;
`N` even is all that the bound of a lift needs.)

**Session registry.**  `RegistryInv` is `RegistryType`, `Phases` (what `todo`, `results` and
`published` may be in each mode), `Room` (results still to compute plus results
still to export fit into the free places, whichever of them repeat bytes) and
`Worst`: the registry is the maximum over what was delivered *and* what the running
batch has exported.  The property speaks of idle moments only; the invariant must
also describe the half-published batch.

**Service requests.**  `OvershootIsBounded` needs a potential: the requests admitted
for a minute are at most one limit for every time the window of that minute was
opened, and it is opened again only by a thread that read the clock before the
minute ended.  `ExcessInv` counts the threads that can still do so (`Early`,
`Late`) against what has been admitted (`Counted`).  `ServiceRates` carries the
three results of the rate limiter over to the composition: every step of the service is a
step of the rate limiter or leaves it alone.  `Isolation` is `PlaintextsStayHome`
for any tenants, secrets, environments, sessions and wires.  Its invariant `ServiceInv`
adds what a plaintext's way rests on: `Authentic` (a request in a handler carries the
tenant whose own secret it presented), `Founded` (a live session belongs to the
tenant of the secret that created it), `Known` (a wire a registry knows was given out to
that secret) and `Blank` (a session that does not exist has issued nothing).

**Server.**  `IInv` says that `active` is the number of connections that hold a slot
(accepted or served), that at most one connection is between `Accept` and its
decision, and that what `fetch_add` returned is at least the number served at
that moment: threads may end, none can be spawned by anyone else.  That is why
comparing a stale count is safe.

**Lane executor** (`MainQEvaluatorProofs` as well).  `LanesInv` has `HandedOut` (the lanes below the counter were started
once, the others not at all), `NothingLost` (a lane that was handed out is being
computed or in a bucket, unless a thread panicked and took its bucket with it) and
`Computed` (no bucket holds a lane that panics).  At `Collect` all threads are joined,
so nobody computes, nobody panicked and the counter is past the last lane: every
slot is filled with its lane's value (`CollectReturns`), and the panic "lane never
computed" is unreachable.

**Automatic bootstrap.**  The invariant is per ciphertext (`CtOK`): its ledger is
between nothing and the level it was seated at, and `Covers` holds with the slack `T`
that pays for wraps of plaintexts.  A product at most multiplies the noise by the `2^GrowthBits` that its cost charges (`Pow2Additive` and the deposits); a
sum adds at most a bit.  `Healthy` adds that the reserve is never spent, because the
trigger tests the reserve against the cost before the operation; from it and
`Covers` follow the window of a refresh's input and the decoding radius of what was
computed without a refresh.  Behind the closed gate that is everything, so `Exactness` says
that the evaluator as it is refuses before it returns a result that does not decrypt; of
what comes out of a refresh nothing is claimed.  `RefreshKeepsReserve` is a hypothesis of
`StaysRefreshable` behind an open gate: the parameter sets `secure_192` and `secure_256`
satisfy it, `secure_128_deep` does not (a refreshed ledger of 54000 millibits cannot pay
47000 and keep 14000).

**Kiosk.**  `IInv` ties the fuse, the counter of the destruction sequence, the entropy
collected and the results handed out together (`Metered`, `Accounts`), while the
unit lives and after; the difference of one is the operation that blew the fuse.
`Implements` maps each action to a step or a stutter of the token.

**Other lifecycles** (`LifecycleProofs` as well).  *Folds*: the sequence's generation
counts its folds, and a fold by a mask that has an inverse modulo its limb's prime is
undone by the inverse, so the limbs are at every moment the given ones under
the outstanding folds; for this `MaskAssumption` is needed and `fold.rs` does not
test it (section 6).  *Shares*: resharing adds and subtracts the same number modulo `q`;
the first split is in one word, which is where `KeyWordAssumption` comes in.  *Vote*: by
cases on the set of damaged places; of a damaged checksum beside whole copies nothing is
proved (section 6).  *Pool*: every cached buffer *is*
`Buffer(n, FALSE)` in the stack of length `n`, because `release` files a buffer
under the length it has when it comes back and clears it on the way.

**Dual rescale** (`LifecycleProofs` as well).  `RescaleIsExact`: for every residue, winding,
modulus and plaintext modulus, what `Rescaled` computes from `v` and `k`
is `v + k*q` divided by `Delta` to the nearest, modulo `q`.  The code never forms that
integer: it replaces `k` by `k mod Delta`, whose lost turns each add a multiple of `q`, and
searches the quotient in a range of `2t + 4`, which `NumeratorIsSmall` shows to be enough.
`DropIsClose` bounds how far dropping a prime is from dividing by it.  `MarginIsBlind`
says why section 6 has the run `exhaustion_reported`: the margin of a phase is never less
than `-(t + 2)`, whatever the noise was.

**Phase gate** (`ArithmeticProofs`, as the five that follow).  The phases differ by
`time * d` modulo the circle, and by Bezout's identity this runs through the multiples of
`gcd(d, circle)`, each exactly once in a period (`EveryResidueOnce`: multiplication by a number
without common divisor permutes the residues).  Windows are those times whose multiple is near 0 on
either side, so there are `2 * ((width - 1) div gcd) + 1` of them in any period, wherever it
starts, and the search meets one.  A golden gate's difference is odd, so that it has no
divisor in common with a power of two.

**Residues.**  Euclid's algorithm returns a common divisor that is a combination of its
arguments (`ExtendedGcdIs`), so `Coprime` and `ModInverse` do what they say.  Products
modulo `m`, by multiplication or by shifting and adding, are those of the integers as long
as `2 * m` fits the width (`MulModIs`).  Then a decoded value has the residues it was
decoded from, and the moduli having no divisor in common, so has only one number of
the capacity (`DecodeIs`, `DecodeOfEncode`).  `BasesLeaveRoom`, which asks a free bit of the words for
the capacity and for each modulus, is what the finding `crt_at_capacity` of section 6
is about: without it both are false.

**GearStack.**  The invariant `Tracked` says that a register's residues are those of its
value, that the value is below two to the power of the bound on both sides, and that the
bound leaves the guard bits.  Two guard bits (the code has 8) put twice the value below the
capacity, which centered decoding needs.

**Readings.**  Garner's digit at place `k` is `(x div (m_1 * ... * m_(k-1))) mod m_k` (`Mixed`), and what
is left of a residue after `j` digits is `(x div (m_1 * ... * m_j)) mod m_i` (`FreedOf`): one step of
either decomposition takes the one to the next, because the quotient is what the modulus's
inverse recovers from the difference (`EliminationIs`).  The constant-time step adds
that its masked bitwise reduction is the residue for whatever two words hold (`ReduceCtIs`) and
that its operands stay below that (`KEliminateCtIs`).  The two recursions are thereby the same
sequence (`DigitsAre`), whose weighted sum is `x` (`ReconstructIs`).  The elimination of two
gears is one such step.  The centered projection comes back also at the tie `c = q/2`
with `q` the capacity (`RoundTripIs`).  A promoted value has only one residue that is accepted
(`PromotionIs`); the longer basis must leave room too, which is `ExtensionsLeaveRoom`.

**Windings and successors.**  `MulModCt` is exact for every modulus, so that no room is asked.
An integer `n = r + k*m` inside the capacity has the residue `s` with `s - r` congruent to
`k*m`, and the inverse of `m` gives `k` (`WindingFrom`); beside `m + 1` the inverse is -1.
For the successors, `Shadow * Period` divides the difference of what is offered and what the
windings give, and both are below it (`CloseMultiples`).

**Base extension and scale-and-round.**  The coefficients of residues of `x` make
`x + rank * M` (`CoefficientsMakeSum`), with a rank below the number of lanes.  Cutting each
term of the fixed-point sum loses less than one unit, so the true sum lies in a window as
wide as there are lanes (`SumsAreFixedPoint`, `WindowOfSum`); where `Decided` accepts, the
whole window lies between two integers, and on one side of the half when that is asked, so
that rank and half are those of `x` (`FixedDecides`).  Elsewhere the exact path finds them
(`LargestMultiple`).  `RankIs` joins the two, and with it each auxiliary residue is that of `x`
or of its centered lift (`ProjectIs`).  Nothing about the number of fractional bits is needed
beyond being positive: with few of them more calls take the exact path.  `ScaledModTargetIs`
says that the scaled lanes, their remainder and the inverse of `M` give the
nearest quotient modulo the target.  The quotient is 0 only for `x` below the half and
the target only above (`NearestIs`), so the half tells the two ends apart (`RoundedIs`).

**Exact multiplication** (`MultiplicationProofs`).  A polynomial and what stands for it in residues are related lane
by lane: products and sums of polynomials that agree modulo `m` agree modulo `m`
(`NegacyclicsAgree`, `SumsAgree`), so the ring's operations on residues of integer polynomials
give the residues of their products and sums (`RingMulOf`, `RingAddOf`).  `ChineseRemainder`
and `ResiduesTell` give each coefficient its one integer below the modulus, `LiftIs` its
centered lift, which is what `AuxLimbs` extends.  The tensor of lifts is at most
`2 * N * ((Q - 1) / 2)^2` on either side (`TensorIsBounded`); its quotient by `Q` is brought into the
range of the auxiliary basis by the shift, because the constructor takes moduli until their
product passes `Capacity` (`ProductsAreWithin`, `InReachIs`).  There the residues of a quotient
determine it: `ScaleRoundIs`.  Phases are within the same reach, and their quotient is at most `t`, which
the first lane holds by `PlaintextAssumption`; so the lanes never disagree, as the
comment at exact_mul.rs 1678 says (`DecryptedIs`).  The invariant `MultiplyInv` says that the plan is
one the constructor accepts (`PlanIs`), that keys and ciphertexts are canonical, whatever way
they came, and that the tensor and the plaintext are the rounded quotients.  That
folding keeps ciphertexts canonical (`RelinearizedIs`) rests on `EveryLaneIsFolded`: the chunks of the
prepared path give every lane to one thread.

**Noise of folding.**  The gadget key of lane `i` and digit `j` encrypts `Base^j` times the
square of the secret in lane `i` and 0 in the others, so that its reading is that number less an error.  Summed
with the digits as weights, the lanes give back the third component times the square,
because its digits are all of it and each is met by one thread once
(`FoldingAddsOnlyNoise` holds for ciphertexts that were imported, too; `FoldInv` adds the shape of the keys).

**Noise of fresh ciphertexts and products.**  `NoiseInv` adds that every operand is an encryption
under the given key of what it says, with errors from its tape (`OperandsAreFresh`), which is why the
reading of each is `t * reading = Q * message + error` with the error below
`FreshBound`; the centered error is the only one in its range, so `ScaledError` finds it.
A product then goes the way of the evaluator's (above), but with residues: the tensor's phase is the sum of three
rounded quotients, which are the product of the two readings times `t` over `Q`, off by
a half each, times 1, the secret and its square; wraps of a lift are at most
`N / 2 + 1`, and what folding adds is at most `N * (Base - 1) * Eta` for each digit.
Their sum is the product bound of `CertifiedBound`, so the abstract evaluator's formula and the
residues' arithmetic meet in `NoiseStaysCertified`; an admitted error is below `Q / 2`, and
decryption rounds it away.

**Refresh.**  The inductive invariant `ClockInv` says that the clock is one that the constructors
accepted and built (`IsClock`, from `Accepts` and `Builds` by `NewClockIs`), and that the
item, wherever it is, says its message under the secret of whoever owns it: `t * phase` is `q`
times the message and something within the item's bound, up to multiples of `t * q` (`Drifts`,
`Says`, `SaysOuter`).  It is stronger than the property in what it says of raw and of returned
ciphertexts: a source that nobody vouches for is covered by what is promised of it, if its
error is within the plan's allowance (`PromiseIs`).  A round trip keeps it in these steps.

1. The two components of a source are rounded apart.  With at most `w` terms in the secret the
   rotation of a coefficient is off its carry's center by at most `w + 1` halves and the part
   of the source's error (`TurnIsNear`, `LightProduct`), which is the window the plan
   tests: the chart has the carry there and no other value (`CarryIsRead`, `NearIsOne`).
2. The table holds the chart's values divided by the degree, and half a turn later their
   opposites, as `X ^ BootN` is -1 (`LookupOfHalfTurn`, `TableTurned`).
3. Each encrypted trit turns the table by what the secret says, and adds the errors of its
   switches (`StepFollows`, by induction over the steps `TurnedTableFollows`).
4. A doubling of the trace keeps every second coefficient, twice; after all of them the
   constant term is left, as often as the degree says, which the table's division takes back
   (`DoublingFollows`, `TraceFollows`, `EvaluatedFollows`).
5. The public part adds the rounded components (`TermsFollow`), and what the remainder of
   the boot modulus by `t` makes of them is within their norm (`ScaledValue`, `NormCovers`).
6. Assembled, coefficient `j` lies at `j * Ratio` (`MovedFollows`, `AssembledFollows`).
7. The product in the boot ring, where a coefficient of the work ring lies, is the sum of the
   products of classes that meet (`ClassIsProduct`, `ProductByClasses`); the return switches
   these and no others, and leaves out what does not lie there (`ReturnFollows`, `ReturnSays`).

Domains and families enter where a bundle's secret is to be the one that the item says its
message under: `OuterKeeps` and `ReturnedKeeps` would fail without the tests of the code.

**Induction.**  The prover cannot instantiate the library's induction theorems, which take an
operator.  `IntegerLemmas` has their forms for sets (`Induction`, `RangeInduction`,
`SubsetInduction`), from which follow what `Total` over a finite set does, and that
recursive functions (`Iteration`, `Descent`) exist and are unique.  The models define them as
`f[x \in S]`, which is a choice; the proofs exhibit a function that satisfies its equation.

**Only model-checked.**  Liveness (`EveryRequestAnswered`, `DueIsReaped`,
`SlotsComeBack`, `CallEnds`): fairness is out of the prover's reach.  `DualTracksStayExact` holds
for the depths that the run explores, not for all: that the integers stay inside what
the anchors tell is tested by the code for products only, and sums of enough ciphertexts
leave it.  The refinements and invariants of all other runs are proved.

---

## 6. Where code and documentation disagree

Each of these is a run that TLC ends with a violation of the quoted sentence.

| run | documented | the code |
|---|---|---|
| `rate_limit_exact` | fhe-service/README.md: requests are limited in exact one-minute windows | the minute is read before the mutex; a late thread reopens the earlier window, the next request the current one.  The excess is bounded (`OvershootIsBounded`) |
| `vote_mismatch` | integrity.rs 105 and 112: a vote agrees when "all three copies agree and CRC matches", and fails on "CRC mismatch" | three equal copies are believed whatever the checksum (164); the comment there takes the checksum to be what was damaged.  `DamageIsCured` leaves this case out |
| `fuse_allowance` | fuse.rs 74: "exactly `max_ops` operations can be performed before the fuse triggers"; unit.rs 8: a bullet has one use | the last of them triggers and its result is dropped (unit.rs 188): `max_ops - 1` results, and none from a bullet.  That there are no more than `max_ops` is part of `IsSpendableToken` |
| `crt_at_capacity` | basis.rs: decoding inverts encoding for every value of the capacity; shift-and-add is used where products might overflow | for a capacity above 2^127, which `RnsBasis::new` accepts, the doubling inside that shift-and-add and the sum in `decode` lose their top bit.  `StackIsExact` and `ReadingsAgree` hold below |
| `exhaustion_reported` | rns_fhe.rs 3268: checked decryption reports an exhausted noise budget "instead of silently returning garbage" | the margin is measured from the plaintext that was decoded, not from the one encrypted: once the noise has passed `Delta/2` the phase is close to another plaintext and the margin is not negative, so that a public square of a sum decrypts to a wrong value without a report.  The comment at 3404 knows that only the floor of `Delta` can make the margin negative |

Met while modelling, without a run of their own:

- `mul_dual_public`'s audit compares sums of bit lengths.  It takes operands to be
  canonical, and leaves out signs and the factor 2 of the middle part, so between 80 and
  100 percent it passes products whose windings the anchors cannot tell; without anchors
  beyond those that are read nothing notices.  `PublicIsExact` claims reach below 80
  percent only.
- `mod_switch_down_dual` is documented (rns_fhe.rs 5033, 5087) as rounding to the
  nearest; a remainder of (d - 1)/2 is rounded up as well (`DropIsClose`).
- `add_plain_dual` encodes with the Delta of the full modulus whatever the ciphertext's
  level, and a product at a lower level is relinearised with a key whose power was
  divided by the dropped prime (docs/RETIRED_MECHANISMS.md retires the route).  The integers
  stay equal on both tracks; the plaintext is lost.

- API_REFERENCE.md 261 and 282 speak of a noise budget of the session that operations
  consume; `publish_batch` stores the minimum over the last batch only (session.rs 169).
  API_REFERENCE.md 311 lets a batch use its own earlier results; inputs must be
  registered, and results are registered at the end (handlers.rs 621).
- API_REFERENCE.md 336 and main.rs 170: a panicking handler becomes a 500; the release
  profile aborts on panic.
- The metrics page reads its two counters and the session count one after the other, and
  requests refused at the ingress are in neither counter.
- A `Fuse` unit whose lifetime has passed can still be loaded, but not used.
- destruction.rs refuses to execute after a caller's own permanent fold of the limbs.
- `repair` of integrity.rs restores copies, never the checksum.
- key_lifecycle.rs 80 adds shares in `u64`: a modulus above 2^63 wraps in a release
  build (`KeyWordAssumption` excludes it; the run has moduli up to half of `KeyWord`).
- fold.rs 195 computes an inverse whose existence only a `debug_assert` tests, and a mask
  is drawn from 1 to q - 1: for a modulus that is not prime a fold may not come off
  (`MaskAssumption`).
- gearstack.rs adds lanes in `u64` in the same way; `capacity_bits` is documented as
  the floor of the logarithm and is the bit length.  basis.rs 249 says that ties go
  negative; the code gives the positive one.
- gro.rs documents an odd difference of increments that `new` does not test;
  `CoincidencePeriod` is right without it.
- pool.rs says that a buffer is zeroed on acquire; it is zeroed on release, and the pool
  stays clean either way (`BuffersAreClean`).
- `try_decrypt_exact` has an error `ScaledPlaintextNotSmall` that no canonical ciphertext
  reaches (`RoundingsStayExact`), for parameters with `t` below every prime.
  `FHEConfig::custom` refuses others (params/mod.rs 453); the fields are public, and nothing
  that builds a plan looks at it again (`PlaintextAssumption`).
- k_elimination.rs `scale_and_round` does not compare its numerator with the capacity,
  and `exact_divide` truncates when the division is not exact; its `mul_mod` is exact for
  every modulus, unlike that of basis.rs.
- Multiplication by zero gives the same bytes in every session, so a wire may be known
  to two registries; `PlaintextsStayHome` is stated for that.
- A boot family's number may repeat across clients; domains keep them apart, which a
  test of the repository also shows.

---

## 7. What is not modelled

- *Pure parsing and formatting*: `http.rs`, `wire.rs`, base64, headers.  No state
  survives a request; the models keep that it can fail.
- *Numeric kernels* (NTT, Montgomery, Barrett, ring multiplication, the number
  libraries, transcendentals, constant-time comparison): stateless functions on machine
  words or big integers with known-answer and property tests in the repository; TLC
  cannot reach sizes at which they differ from their definitions.
- *Bootstrapping pipelines and the rest of `rns_fhe.rs`* (`ops/bootstrap.rs`, the gadget
  and manufactured multiplications, rotations, noise reports, the single-track evaluator):
  algebra on polynomials of thousands of coefficients over moduli that only make sense at that
  size.  What the exact route shares with them is in `ExactMultiplication`, what the
  dual-track route does is in `DualTrack`.
- *Public refresh circuits* other than the phase clock, and their key graph: the graph is
  built and consumed within one call.
- *Parts of the phase clock*: the parity chart, storage limits and prepared Galois keys;
  one evaluator stands for all, so that the comparisons of a key's domain with its plan's
  hold by construction.
- *Estimators* of `exact_noise.rs` and `boundary.rs`: nothing acts on what they report.
- *The winding by residue-wise division* and the wider residue types of `rns.rs`.
- *MANA and UNHAL*: containers of lanes and dispatch; the executor below them is
  modelled.  *Private feedback*: lane-wise sums of
  bounded slots, or of ciphertexts; these crates never read a total back.
- *Parameters and security estimates*: constant tables; the limits that constructors
  enforce on them are assumptions of the modules.
- *Randomness and hardness*: sampled errors are any element of a set; statistical
  and computational security are no safety properties.
- *Memory hygiene* below the level of the kiosk's masks and the pool's buffers.
- *Bindings, SDKs, apps, benchmarks, archives, other formal developments* (Lean,
  Coq): wrappers, clients, records.
- *A clock that steps back*: `unix_now_seconds` is wall-clock time.  In the store it
  would only prolong sessions (`saturating_sub`); in the rate limiter it reopens
  windows as a late thread does.

---

## 8. Plan

Built: the service from the accept loop to the registry (2.1 to 2.5), the executor
under the arithmetic (2.6), the evaluator's bounds and the residues they are
about (2.2, 2.9), refreshing by ledger and by phase clock (2.7, 2.9), the
dual-track evaluator (2.9), and the libraries with protocols of their own (2.8, 2.9).  What would come next, in this order:

1. A proof of the part of `DualTracksStayExact` that holds at every depth: the two tracks of a
   ciphertext tell one integer.
2. The gadget and the manufactured multiplication of `rns_fhe.rs` beside `DualTrack`, on
   the same residues.
3. The parity chart of the phase clock and the key graph of the public refresh.
4. A composition of `FheServer` with `ServiceRequest` under fairness: every accepted
   request is answered, through all limits.
