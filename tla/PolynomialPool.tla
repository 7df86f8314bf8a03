--------------------------- MODULE PolynomialPool ---------------------------
(***************************************************************************)
(* PolynomialPool (crates/nine65/src/ring/pool.rs): the cache of buffers   *)
(* of one thread.  A buffer is a record of its length and whether anything *)
(* was written to it; its coefficients are public, so its holder may clear *)
(* it, and with that its length, before it is given back.                  *)
(***************************************************************************)
EXTENDS Integers, SequencesExt

CONSTANTS
  Sizes,       \* degrees asked for
  MaxPerSize,
  MaxHeld,     \* bound on the buffers in use
  MaxAcquires  \* bound on the calls

ASSUME PoolAssumption ==
  /\ Sizes \subseteq Nat
  /\ MaxPerSize \in Nat /\ MaxHeld \in Nat /\ MaxAcquires \in Nat

VARIABLES
  cache,           \* for each length, a stack of buffers
  held,            \* the buffers in use
  acquires, hits,  \* the statistics
  handedOut        \* the last buffer acquired, and the size asked for

poolVars == <<cache, held, acquires, hits, handedOut>>

Lengths == Sizes \cup {0}

Buffer(n, dirty) == [length |-> n, dirty |-> dirty]
Zeroed(b)        == [b EXCEPT !.dirty = FALSE]

PoolInit ==
  /\ cache = [n \in Lengths |-> <<>>]
  /\ held = <<>>
  /\ acquires = 0 /\ hits = 0
  /\ handedOut = [asked |-> 0, buffer |-> Buffer(0, FALSE)]

Acquire ==
  \E n \in Sizes :
    LET found  == cache[n] # <<>>
        buffer == IF found THEN Last(cache[n]) ELSE Buffer(n, FALSE)
    IN  /\ Len(held) < MaxHeld /\ acquires < MaxAcquires
        /\ cache' = IF found THEN [cache EXCEPT ![n] = Front(@)] ELSE cache
        /\ held' = Append(held, buffer)
        /\ acquires' = acquires + 1
        /\ hits' = IF found THEN hits + 1 ELSE hits
        /\ handedOut' = [asked |-> n, buffer |-> buffer]

\* What a holder does to its buffer: write, zeroize (which empties it), or
\* convert it to a ring polynomial, which takes it out of the pool's reach.
Write ==
  /\ \E k \in DOMAIN held : held[k].length > 0 /\ held' = [held EXCEPT ![k].dirty = TRUE]
  /\ UNCHANGED <<cache, acquires, hits, handedOut>>

ZeroizeBuffer ==
  /\ \E k \in DOMAIN held : held' = [held EXCEPT ![k] = Buffer(0, FALSE)]
  /\ UNCHANGED <<cache, acquires, hits, handedOut>>

\* A buffer the pool has never seen, which may be released to it all the same
FromCoeffs ==
  /\ Len(held) < MaxHeld
  /\ \E n \in Sizes : held' = Append(held, Buffer(n, TRUE))
  /\ UNCHANGED <<cache, acquires, hits, handedOut>>

IntoRingPolynomial ==
  /\ \E k \in DOMAIN held : held' = RemoveAt(held, k)
  /\ UNCHANGED <<cache, acquires, hits, handedOut>>

HasPlaceFor(n) == Len(cache[n]) < MaxPerSize

\* Variant: a buffer is left as it is.
Cached_AsItIs(b) == b

Cached(b) == Zeroed(b)

\* Also the drop of a PoolGuard.  Without a place the buffer is dropped.
Release ==
  /\ \E k \in DOMAIN held :
       LET n == held[k].length
       IN  /\ held' = RemoveAt(held, k)
           /\ cache' = IF HasPlaceFor(n)
                       THEN [cache EXCEPT ![n] = Append(@, Cached(held[k]))] ELSE cache
  /\ UNCHANGED <<acquires, hits, handedOut>>

Prewarm ==
  /\ \E sizes \in SUBSET Sizes, count \in 0 .. MaxPerSize + 1 :
       LET wanted == IF count <= MaxPerSize THEN count ELSE MaxPerSize
       IN  cache' = [n \in Lengths |->
             IF n \in sizes
             THEN cache[n] \o [k \in 1 .. wanted - Len(cache[n]) |-> Buffer(n, FALSE)]
             ELSE cache[n]]
  /\ UNCHANGED <<held, acquires, hits, handedOut>>

Clear ==
  /\ cache' = [n \in Lengths |-> <<>>]
  /\ UNCHANGED <<held, acquires, hits, handedOut>>

PoolNext ==
  \/ Acquire \/ FromCoeffs \/ Write \/ ZeroizeBuffer \/ IntoRingPolynomial
  \/ Release \/ Prewarm \/ Clear

PoolSpec == PoolInit /\ [][PoolNext]_poolVars

-----------------------------------------------------------------------------
(* Properties.                                                              *)

\* What one polynomial left in a buffer never reaches the next: a buffer is
\* handed out zeroed and of the length asked for, whatever its last holder
\* did to it; acquire itself does not zero it (pool.rs acquire, release).
BuffersAreClean ==
  /\ handedOut.buffer = Buffer(handedOut.asked, FALSE)
  /\ \A n \in Lengths :
       /\ Len(cache[n]) <= MaxPerSize
       /\ \A k \in DOMAIN cache[n] : cache[n][k] = Buffer(n, FALSE)

=============================================================================
