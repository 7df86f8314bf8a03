--------------------------- MODULE TripleRedundant ---------------------------
(***************************************************************************)
(* TripleRedundant (crates/clockwork-core/src/integrity.rs): three copies  *)
(* of a value and a checksum, read by majority.  Memory is what fails:     *)
(* Corrupt changes one copy, or the checksum, at any time.                 *)
(***************************************************************************)
EXTENDS Integers

CONSTANT Values

ASSUME ValuesAssumption == Values \subseteq Nat

VARIABLES
  copies, checksum,
  written    \* the value last written

voteVars == <<copies, checksum, written>>

Copy == {"A", "B", "C"}

\* Values with the same CRC32 are left out.
Crc(v) == <<"crc", v>>

VoteInit ==
  /\ written \in Values
  /\ copies = [c \in Copy |-> written] /\ checksum = Crc(written)

AllAgree(v)     == [kind |-> "all agree", value |-> v, corrupted |-> {}]
Recovered(v, c) == [kind |-> "recovered", value |-> v, corrupted |-> {c}]
Failed          == [kind |-> "failed", value |-> -1, corrupted |-> {}]

\* Variant: a pair that agrees is believed without the checksum.
Vouched_Always(c) == TRUE

Vouched(c) == Crc(copies[c]) = checksum

\* A checksum that does not fit three equal copies is passed over.
MajorityVote ==
  IF \A c, d \in Copy : copies[c] = copies[d] THEN AllAgree(copies["A"])
  ELSE CASE copies["A"] = copies["B"] /\ Vouched("A") -> Recovered(copies["A"], "C")
         [] copies["A"] = copies["C"] /\ Vouched("A") -> Recovered(copies["A"], "B")
         [] copies["B"] = copies["C"] /\ Vouched("B") -> Recovered(copies["B"], "A")
         [] OTHER -> Failed

Store(v) == copies' = [c \in Copy |-> v] /\ checksum' = Crc(v)

WriteValue == \E v \in Values : Store(v) /\ written' = v

Repair ==
  /\ IF MajorityVote.kind = "recovered" THEN Store(MajorityVote.value)
     ELSE UNCHANGED <<copies, checksum>>
  /\ UNCHANGED written

Corrupt ==
  /\ \/ \E c \in Copy, v \in Values :
          copies' = [copies EXCEPT ![c] = v] /\ UNCHANGED checksum
     \/ \E v \in Values : checksum' = Crc(v) /\ UNCHANGED copies
  /\ UNCHANGED written

VoteNext == WriteValue \/ Repair \/ Corrupt

VoteSpec == VoteInit /\ [][VoteNext]_voteVars

-----------------------------------------------------------------------------
(* Properties.                                                              *)

\* The places that do not hold what was written
Damaged ==
  {c \in Copy : copies[c] # written}
    \cup (IF checksum = Crc(written) THEN {} ELSE {"checksum"})

\* One damaged copy is always cured and two damaged places are never mistaken
\* for health: whatever was corrupted, written and repaired before, a read
\* returns the value written, names the copy that differs, or fails
\* (integrity.rs read, repair).  A damaged checksum beside three whole copies
\* is the subject of MismatchFails.
DamageIsCured ==
  /\ Damaged = {} => MajorityVote = AllAgree(written)
  /\ \A c \in Copy : Damaged = {c} => MajorityVote = Recovered(written, c)
  /\ \A c, d \in Damaged : c # d /\ Damaged = {c, d} => MajorityVote = Failed

\* A checksum that fits no copy makes the vote fail, as integrity.rs 105 and 112
\* have it: all copies agree "and CRC matches", Failed on "CRC mismatch".  read
\* believes three equal copies whatever the checksum.
MismatchFails ==
  (\A c \in Copy : ~ Vouched(c)) => MajorityVote = Failed

=============================================================================
