---------------------------- MODULE ServiceRequest ----------------------------
(***************************************************************************)
(* A request of fhe-service from the ingress to its answer: tenant         *)
(* authentication and the replaced token (auth.rs, called in main.rs), the *)
(* policy of route and the session handlers (handlers.rs), composed with   *)
(* the rate limit of RateLimiter.  Sessions and their registries appear as *)
(* SessionStore and MainQSession justify: one handler at a time,           *)
(* and what was issued.  A refusal at the ingress, a public route and the  *)
(* operator's metrics page change nothing here; FheServer counts them.     *)
(***************************************************************************)
EXTENDS RateLimiter, Sequences

CONSTANTS
  Token,           \* secrets that callers can present
  NoToken,         \* a missing or empty variable or header
  Malformed,       \* an entry of the mapping without '=' or with a bad tenant
  Configurations,  \* environments the service is started in
  SessionId, Wire,
  MaxSessions

ASSUME ServiceRequestAssumption ==
  /\ NoToken \notin Token
  /\ Malformed \notin Tenant
  /\ None \notin Tenant \cup Token
  /\ None \notin [tenant : Tenant, token : Token, presented : Token]
  /\ \A c \in Configurations :
       /\ c.mapping \in Seq([tenant : Tenant \cup {Malformed}, token : Token \cup {NoToken}])
       /\ {c.internal, c.decrypt} \subseteq Token \cup {NoToken}
       /\ c.enabled \in BOOLEAN
  /\ MaxSessions \in Nat

VARIABLES
  config,     \* FHE_TENANT_TOKENS, FHE_API_TOKEN, FHE_DECRYPT_TOKEN, FHE_ENABLE_DECRYPT
  request,    \* the request each thread works on, its token replaced
  owner,      \* the store's sessions: tenant of each, or None
  issued,     \* the wires each session's registry knows
  creator,    \* the secret with which each session was created
  answered,   \* wires given out: by secret presented, session and wire
  disclosed   \* decrypted wires: as in answered, with the decrypt token

sessions == <<owner, issued>>
history  == <<creator, answered, disclosed>>
serviceVars == <<vars, config, request, sessions, history>>

ServiceInit ==
  /\ Init
  /\ config \in Configurations
  /\ request = [w \in Worker |-> None]
  /\ owner = [i \in SessionId |-> None]
  /\ issued = [i \in SessionId |-> {}]
  /\ creator = [i \in SessionId |-> None]
  /\ answered = {}
  /\ disclosed = {}

-----------------------------------------------------------------------------
(* auth.rs                                                                  *)

\* Equal digests are taken to mean equal tokens; an empty one matches nothing.
Matches(expected, provided) == expected # NoToken /\ provided = expected

WellFormed(entry) == entry.tenant # Malformed /\ entry.token # NoToken

Entries(mapping, t) == {i \in DOMAIN mapping : mapping[i].tenant = t}

\* token_for_tenant: one bad entry closes the service for everybody, a second
\* entry for a tenant closes it for that tenant.
TokenFor(mapping, t) ==
  IF /\ \A i \in DOMAIN mapping : WellFormed(mapping[i])
     /\ \E i \in DOMAIN mapping : Entries(mapping, t) = {i}
  THEN mapping[CHOOSE i \in DOMAIN mapping : Entries(mapping, t) = {i}].token
  ELSE NoToken

\* Variant: any configured secret opens any tenant, as with one shared token.
Authorized_AnySecret(t, token) ==
  /\ \E other \in Tenant : Matches(TokenFor(config.mapping, other), token)
  /\ config.internal # NoToken

\* authorize_and_normalize lets the request pass
Authorized(t, token) ==
  /\ Matches(TokenFor(config.mapping, t), token)
  /\ config.internal # NoToken

Normalized(t, token) == [tenant |-> t, token |-> config.internal, presented |-> token]

\* protected_access, which sees the replaced token
ProtectedAccess(r) == Matches(config.internal, r.token)

\* Ingress and the start of route: the tenant that is rated, and for whom the
\* handlers look sessions up, is the one whose secret was presented.
Arrive(w, t, token) ==
  /\ request[w] = None
  /\ Authorized(t, token)
  /\ ProtectedAccess(Normalized(t, token))
  /\ ReadClock(w, t)
  /\ request' = [request EXCEPT ![w] = Normalized(t, token)]
  /\ UNCHANGED <<config, sessions, history>>

\* Over the limit the answer is 429.
Rate(w) ==
  /\ Decide(w)
  /\ request' = IF admitted' = admitted THEN [request EXCEPT ![w] = None] ELSE request
  /\ UNCHANGED <<config, sessions, history>>

-----------------------------------------------------------------------------
(* The handlers.  What a request asks for is chosen when it is looked at.   *)

InHandler(w) == request[w] # None /\ arrival[w] = None

Answer(w) ==
  /\ InHandler(w)
  /\ request' = [request EXCEPT ![w] = None]
  /\ UNCHANGED <<vars, config>>

Open == {i \in SessionId : owner[i] # None}

\* Variant: sessions are found by their identifier alone.
Finds_AnyTenant(w, i) == i \in Open

\* with_session(_mut)_for_tenant: another tenant's session does not exist.
Finds(w, i) == owner[i] = request[w].tenant

\* A parse error, a refused limit or bound, or nothing under that identifier
HandlerRefuses(w) == Answer(w) /\ UNCHANGED <<sessions, history>>

\* handle_create_session: identifiers are random and never repeat.
CreateSession(w, i) ==
  /\ Answer(w)
  /\ creator[i] = None
  /\ Cardinality(Open) < MaxSessions
  /\ owner' = [owner EXCEPT ![i] = request[w].tenant]
  /\ creator' = [creator EXCEPT ![i] = request[w].presented]
  /\ UNCHANGED <<issued, answered, disclosed>>

\* handle_delete_session
DeleteSession(w, i) ==
  /\ Answer(w)
  /\ Finds(w, i)
  /\ owner' = [owner EXCEPT ![i] = None]
  /\ issued' = [issued EXCEPT ![i] = {}]
  /\ UNCHANGED history

Receipt(w, i, c) == [secret |-> request[w].presented, session |-> i, wire |-> c]

\* The answer of handle_encrypt and handle_evaluate, with publish_batch
Issue(w, i, c) ==
  /\ Answer(w)
  /\ Finds(w, i)
  /\ issued' = [issued EXCEPT ![i] = @ \cup {c}]
  /\ answered' = answered \cup {Receipt(w, i, c)}
  /\ UNCHANGED <<owner, creator, disclosed>>

\* handle_encrypt: the bytes of an encryption are new.
Encrypt(w, i, c) == (\A j \in SessionId : c \notin issued[j]) /\ Issue(w, i, c)

\* Variant: a wire is imported when any session issued it.
Importable_Anywhere(i, c) == \E j \in SessionId : c \in issued[j]

\* ct_from_b64: the session's own registry must know the wire, although bytes
\* valid for one session are well-formed for every other.
Importable(i, c) == c \in issued[i]

\* handle_evaluate: the result may have bytes that another session issued too,
\* as multiplication by zero gives the same ciphertext everywhere.
Evaluate(w, i, input, c) == Importable(i, input) /\ Issue(w, i, c)

\* Variant: the route is enabled by its own token alone.
DecryptAuthorized_NotEnabled(token) == Matches(config.decrypt, token)

\* decrypt_authorized_with
DecryptAuthorized(token) == config.enabled /\ Matches(config.decrypt, token)

\* The decrypt route with its token, then handle_decrypt
Decrypt(w, i, c, token) ==
  /\ DecryptAuthorized(token)
  /\ Answer(w)
  /\ Finds(w, i)
  /\ Importable(i, c)
  /\ disclosed' = disclosed \cup {[receipt |-> Receipt(w, i, c), gate |-> token]}
  /\ UNCHANGED <<sessions, creator, answered>>

Handle(w) ==
  \/ HandlerRefuses(w)
  \/ \E i \in SessionId :
       \/ CreateSession(w, i) \/ DeleteSession(w, i)
       \/ \E c \in Wire :
            \/ Encrypt(w, i, c)
            \/ \E input \in Wire : Evaluate(w, i, input, c)
            \/ \E token \in Token : Decrypt(w, i, c, token)

\* The reaper drops a session, whatever requests are on their way to it.
Expire(i) ==
  /\ owner[i] # None
  /\ owner' = [owner EXCEPT ![i] = None]
  /\ issued' = [issued EXCEPT ![i] = {}]
  /\ UNCHANGED <<vars, config, request, history>>

ServiceNext ==
  \/ NextMinute /\ UNCHANGED <<config, request, sessions, history>>
  \/ \E w \in Worker :
       \/ \E t \in Tenant, token \in Token : Arrive(w, t, token)
       \/ Rate(w)
       \/ Handle(w)
  \/ \E i \in SessionId : Expire(i)

ServiceSpec == ServiceInit /\ [][ServiceNext]_serviceVars

-----------------------------------------------------------------------------
(* Properties.                                                              *)

\* A plaintext is only given to a caller that presents the secret with which
\* the session was created, for a wire that this secret was given out of that
\* session, on a route that is enabled and with the route's own token; in
\* between, sessions may have been deleted or reaped, other tenants may have
\* presented the same identifiers and bytes, and each thread works on its own
\* copy of the tenant (main.rs serve_connection: authentication binds the
\* claimed tenant "to a tenant-specific credential").
PlaintextsStayHome ==
  \A d \in disclosed :
    /\ d.receipt \in answered
    /\ d.receipt.secret = creator[d.receipt.session]
    /\ config.enabled /\ d.gate = config.decrypt /\ d.gate # NoToken

=============================================================================
