-------------------------- MODULE MCServiceRequest --------------------------
(* Instances of ServiceRequest, and of RateLimiter within it, for TLC. *)
EXTENDS ServiceRequest, TLC

CONSTANTS w1, w2, w3, a, b, x, y, i, d, s1, s2, c1, c2

Symmetry == Permutations(Worker) \cup Permutations(SessionId) \cup Permutations(Wire)

Entry(t, token) == [tenant |-> t, token |-> token]

TwoTenants == <<Entry(a, x), Entry(b, y)>>

\* As intended; decryption off; a tenant listed twice; a spoiled mapping
Environments ==
  {[mapping |-> TwoTenants, internal |-> i, decrypt |-> d, enabled |-> e] : e \in BOOLEAN}
    \cup {[mapping |-> m, internal |-> i, decrypt |-> d, enabled |-> TRUE] :
            m \in {<<Entry(a, x), Entry(a, y), Entry(b, y)>>,
                   <<Entry(a, x), Entry(Malformed, y)>>,
                   <<Entry(a, x), Entry(b, NoToken)>>}}
    \cup {[mapping |-> TwoTenants, internal |-> NoToken, decrypt |-> NoToken, enabled |-> TRUE]}
=============================================================================
