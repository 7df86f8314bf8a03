--------------------------- MODULE MCSessionStore ---------------------------
(* Small instances of SessionStore for TLC. *)
EXTENDS SessionStore, TLC

CONSTANTS w1, w2, s1, s2, a, b, reaper

TwoWorkers  == {w1, w2}
TwoSessions  == {s1, s2}
TwoTenants  == {a, b}
OneSession  == {s1}
OneTenant   == {a}

\* Workers, identifiers and tenants are interchangeable.
Symmetry == Permutations(TwoWorkers) \cup Permutations(TwoSessions)
              \cup Permutations(TwoTenants)
=============================================================================
