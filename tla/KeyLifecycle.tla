---------------------------- MODULE KeyLifecycle ----------------------------
(***************************************************************************)
(* KeySharePair and KeyLifecycle (crates/clockwork-core/src/               *)
(* key_lifecycle.rs), behind KeyManager (crates/nine65/src/security/       *)
(* key_manager.rs): a secret that is kept as two shares modulo q.          *)
(***************************************************************************)
EXTENDS Integers

CONSTANTS
  KeyModuli,        \* values of q
  KeyDraws,         \* secrets and randomness for each q
  KeyWord,          \* where u64 wraps, 2^64
  Intervals,        \* reshare intervals
  MaxReshares, MaxKeyOperations

ASSUME KeyLifecycleAssumption ==
  /\ KeyModuli \subseteq Nat \ {0, 1}
  /\ KeyDraws \in [KeyModuli -> SUBSET Nat]
  /\ \A m \in KeyModuli : \A r \in KeyDraws[m] : r < m
  /\ KeyWord \in Nat
  /\ Intervals \subseteq Nat /\ MaxReshares \in Nat /\ MaxKeyOperations \in Nat

\* A modulus above half of the word, which the code does not refuse, wraps the
\* sum in Split.
ASSUME KeyWordAssumption == \A m \in KeyModuli : 2 * m <= KeyWord

VARIABLES
  q,
  keyState,
  shares,           \* NoShares or both shares
  interval,
  opsSinceReshare, reshareCount,
  reshareDue,       \* what record_operation answered last
  secret            \* what was split, which the code forgets

keyVars == <<q, keyState, shares, interval, opsSinceReshare, reshareCount,
             reshareDue, secret>>

NoShares == [a |-> -1, b |-> -1]

\* Computed in u64, unlike the rest
Split(s, r) == [a |-> r, b |-> ((s + q - r) % KeyWord) % q]

Reconstructed(pair) == (pair.a + pair.b) % q

\* Variant: the second share keeps its value.
Reshared_OneSided(pair, r) == [a |-> (pair.a + r) % q, b |-> pair.b]

Reshared(pair, r) == [a |-> (pair.a + r) % q, b |-> (pair.b + q - r) % q]

KeyInit ==
  /\ q \in KeyModuli /\ interval \in Intervals
  /\ keyState = "keygen" /\ shares = NoShares /\ secret = -1
  /\ opsSinceReshare = 0 /\ reshareCount = 0 /\ reshareDue = FALSE

Initialize ==
  /\ keyState = "keygen"
  /\ \E s, r \in KeyDraws[q] : secret' = s /\ shares' = Split(s, r)
  /\ keyState' = "active"
  /\ opsSinceReshare' = 0 /\ reshareCount' = 0
  /\ UNCHANGED <<q, interval, reshareDue>>

\* In any state
RecordKeyOperation ==
  /\ opsSinceReshare < MaxKeyOperations
  /\ opsSinceReshare' = opsSinceReshare + 1
  /\ reshareDue' = (opsSinceReshare + 1 >= interval)
  /\ UNCHANGED <<q, keyState, shares, interval, reshareCount, secret>>

Reshare ==
  /\ keyState = "active" /\ reshareCount < MaxReshares
  /\ \E r \in KeyDraws[q] : shares' = Reshared(shares, r)
  /\ reshareCount' = reshareCount + 1
  /\ opsSinceReshare' = 0
  /\ UNCHANGED <<q, keyState, interval, reshareDue, secret>>

\* In any state, also before there is a key
DestroyKey ==
  /\ shares' = NoShares /\ keyState' = "zeroed"
  /\ UNCHANGED <<q, interval, opsSinceReshare, reshareCount, reshareDue, secret>>

KeyNext == Initialize \/ RecordKeyOperation \/ Reshare \/ DestroyKey

KeySpec == KeyInit /\ [][KeyNext]_keyVars

-----------------------------------------------------------------------------
(* Properties.                                                              *)

\* Through any number of reshares the shares make the secret that was split,
\* and a key that was destroyed, or never made, has none: nothing brings it
\* back (key_lifecycle.rs initialize, reshare, destroy).
SharesMakeTheSecret ==
  IF keyState = "active"
  THEN /\ shares.a \in 0 .. q - 1 /\ shares.b \in 0 .. q - 1
       /\ Reconstructed(shares) = secret
  ELSE shares = NoShares

=============================================================================
