------------------------------ MODULE MCMachines ------------------------------
(* For TLC: the small state machines, one at a time: a kiosk unit, a          *)
(* destruction sequence that is called directly, the ciphertexts of an        *)
(* automatic bootstrap, shares of a key, a vote, a phase gate and a pool.     *)
EXTENDS KioskUnit, DestructionSequence, AutoBootstrap, KeyLifecycle,
        TripleRedundant, GroGate, PolynomialPool

VARIABLE part

TwoModuli == <<3, 5>>
PowersOfTwo == [k \in 0 .. 24 |-> 2 ^ k]
FiveEighths == <<8, 13>>
EdgeDraws == [m \in {3, 128} |-> {0, 1, m - 1}]

Some(S) == CHOOSE x \in S : TRUE

\* Every machine is in one of its initial states; those that are not run are
\* all in the same one.
MCInit ==
  /\ part \in {"unit", "sequence", "bootstrap", "keys", "vote", "gate", "pool"}
  /\ UnitInit /\ (part # "unit" => kind = "bullet")
  /\ SequenceInit /\ op.masks = key
  /\ part # "sequence" => original = Erased /\ key = Some(Masks)
  /\ Init /\ (part # "bootstrap" => gate = "open")
  /\ KeyInit /\ (part # "keys" => q = Some(KeyModuli) /\ interval = Some(Intervals))
  /\ VoteInit /\ (part # "vote" => written = Some(Values))
  /\ part # "gate" =>
       /\ golden = FALSE /\ accBits = MinAccBits /\ width = Some(Widths)
       /\ stepA = Some(Steps) /\ stepB = Some(Steps)
  /\ GateInit /\ PoolInit

MCNext ==
  /\ \/ part = "unit" /\ UnitNext
     \/ part # "unit" /\ UNCHANGED unitVars
  /\ \/ part = "sequence" /\ SequenceNext
     \/ part # "sequence" /\ UNCHANGED sequenceVars
  /\ \/ part = "bootstrap" /\ Next
     \/ part # "bootstrap" /\ UNCHANGED vars
  /\ \/ part = "keys" /\ KeyNext
     \/ part # "keys" /\ UNCHANGED keyVars
  /\ \/ part = "vote" /\ VoteNext
     \/ part # "vote" /\ UNCHANGED voteVars
  /\ \/ part = "gate" /\ Advance
     \/ part # "gate" /\ UNCHANGED gateVars
  /\ \/ part = "pool" /\ PoolNext
     \/ part # "pool" /\ UNCHANGED poolVars
  /\ UNCHANGED part

MCSpec ==
  MCInit /\ [][MCNext]_<<part, unitVars, sequenceVars, vars, keyVars, voteVars,
                          gateVars, poolVars>>
=============================================================================
