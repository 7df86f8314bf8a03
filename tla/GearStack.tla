----------------------------- MODULE GearStack -----------------------------
(***************************************************************************)
(* GearStack and Bound (crates/clockwork-core/src/gearstack.rs,            *)
(* bound_tracker.rs): integers in residues, each with a bound on its bits. *)
(* The integers are exact as long as nothing outgrows the basis, and       *)
(* nothing but the bound tells.  A stack is never changed; a register      *)
(* holds the one a caller keeps.  Calls that fail change nothing.          *)
(***************************************************************************)
EXTENDS RnsBasis

CONSTANTS
  Bases,      \* sequences of moduli
  Registers,
  Inputs,     \* integers a caller encodes
  GuardBits,  \* DEFAULT_GUARD_BITS, 8 in the code
  Projections,\* moduli q of cryptosystems
  NewModuli   \* moduli a basis is extended with

ASSUME GearStackAssumption ==
  /\ \A moduli \in Bases : moduli \in Seq(Nat) /\ IsBasis(moduli)
  /\ Inputs \subseteq Int /\ GuardBits \in Nat /\ GuardBits >= 2
  /\ Projections \subseteq Nat \ {0, 1} /\ NewModuli \subseteq Nat

VARIABLES
  basis,
  stack,   \* residues and bound of each register
  value    \* the integer it stands for, which the code does not have

stackVars == <<basis, stack, value>>

Absolute(x) == IF x < 0 THEN -x ELSE x

\* Variant: the sum may carry, the bound does not.
AddBound_NoCarry(a, b) == IF a >= b THEN a ELSE b

AddBound(a, b) == 1 + (IF a >= b THEN a ELSE b)
MulBound(a, b) == a + b

CapacityBits == BitLength(basis.capacity)

HasCapacity(bound) == CapacityBits >= bound + GuardBits

NeedsPromotion(s, more) == ~ HasCapacity(s.bound + more)

\* What verify_bound finds
WithinBound(s) == BitLength(Absolute(DecodeCentered(basis, s.residues))) <= s.bound

-----------------------------------------------------------------------------

Stacked(x, bound) == [residues |-> Encode(basis, x), bound |-> bound]

Lanes(Op(_, _, _), a, b) ==
  [i \in Gears(basis) |-> Op(a.residues[i], b.residues[i], basis.moduli[i])]

AddLane(a, b, p) == ((a + b) % Word) % p
SubLane(a, b, p) == ((a + p - b) % Word) % p
MulLane(a, b, p) == (a * b) % p

Sum(a, b) ==
  [residues |-> Lanes(AddLane, a, b), bound |-> AddBound(a.bound, b.bound)]
Difference(a, b) ==
  [residues |-> Lanes(SubLane, a, b), bound |-> AddBound(a.bound, b.bound)]
ProductOf(a, b) ==
  [residues |-> Lanes(MulLane, a, b), bound |-> MulBound(a.bound, b.bound)]

Keep(r, s, x) ==
  /\ HasCapacity(s.bound)
  /\ stack' = [stack EXCEPT ![r] = s]
  /\ value' = [value EXCEPT ![r] = x]
  /\ UNCHANGED basis

\* Each register holds a zero that from_value accepted.
StackInit ==
  /\ \E moduli \in Bases : basis = NewBasis(moduli)
  /\ HasCapacity(0)
  /\ stack = [r \in Registers |-> Stacked(0, 0)]
  /\ value = [r \in Registers |-> 0]

\* from_value and from_signed: the caller vouches for the bound.
From ==
  \E r \in Registers, x \in Inputs :
    \E bound \in BitLength(Absolute(x)) .. CapacityBits :
      Keep(r, Stacked(x, bound), x)

Add ==
  \E r, a, b \in Registers : Keep(r, Sum(stack[a], stack[b]), value[a] + value[b])

Sub ==
  \E r, a, b \in Registers :
    Keep(r, Difference(stack[a], stack[b]), value[a] - value[b])

Mul ==
  \E r, a, b \in Registers :
    Keep(r, ProductOf(stack[a], stack[b]), value[a] * value[b])

\* dot_product of two pairs: every product and every sum must have capacity.
DotProduct ==
  \E r, a, b, c, d \in Registers :
    LET first  == ProductOf(stack[a], stack[b])
        second == ProductOf(stack[c], stack[d])
    IN  /\ HasCapacity(first.bound) /\ HasCapacity(second.bound)
        /\ Keep(r, Sum(first, second), value[a] * value[b] + value[c] * value[d])

StackNext == From \/ Add \/ Sub \/ Mul \/ DotProduct

StackSpec == StackInit /\ [][StackNext]_stackVars

-----------------------------------------------------------------------------
(* Properties.                                                              *)

\* However values are combined, the residues decode to the very integer they
\* stand for, and that integer keeps to the tracked bound: no chain of
\* accepted operations wraps around the basis (gearstack.rs add, sub, mul,
\* dot_product, verify_bound).
StackIsExact ==
  \A r \in Registers :
    /\ DecodeCentered(basis, stack[r].residues) = value[r]
    /\ WithinBound(stack[r]) /\ ~ NeedsPromotion(stack[r], 0)

\* The other ways to read residues agree with the Chinese remainder theorem:
\* both Garner decompositions, the two-gear elimination, the projections to q
\* in both conventions, and a value that was promoted and demoted again.
ReadingsAgree ==
  \A r \in Registers :
    LET p == basis.moduli
        s == stack[r].residues
        x == Decode(basis, s)
        d == GarnerDecompose(p, s)
    IN  /\ \A i \in DOMAIN p : d[i] \in 0 .. p[i] - 1
        /\ Reconstruct(p, d) = x
        /\ GarnerDecomposeCt(p, s) = d
        /\ Len(p) = 2 =>
             x = s[1] + p[1] * KEliminate(s[1], s[2], p[1], p[2])
        /\ \A q \in Projections :
             basis.capacity >= q =>
               /\ ToQ(basis, s, q, TRUE) = value[r] % q
               /\ ToQ(basis, s, q, FALSE) = x % q
               /\ \A c \in 0 .. q - 1, centered \in BOOLEAN :
                    ToQ(basis, FromQ(basis, c, q, centered), q, centered) = c
        /\ \A m \in NewModuli :
             IsBasis(Append(p, m)) =>
               \E claimed \in 0 .. m - 1 :
                 /\ \A other \in 0 .. m - 1 :
                      Promotes(basis, s, m, other) <=> other = claimed
                 /\ Decode(Extend(basis, m), Promoted(s, claimed)) = x
                 /\ Demoted(Promoted(s, claimed), Len(p)) = s

\* basis.rs: "Dec_p(Enc_p(X)) = X for all X in [0, M_k)", for every basis
\* that RnsBasis::new accepts.  The code's arithmetic overflows when the
\* capacity is above half of what u128 holds.
DecodeInvertsEncode ==
  \A x \in 0 .. basis.capacity - 1 : Decode(basis, Encode(basis, x)) = x

=============================================================================
