------------------------------- MODULE Numbers -------------------------------
(***************************************************************************)
(* Powers of two, of which machine words and phase circles are made, and   *)
(* the length of a number in bits: 128 - leading_zeros() in the code.      *)
(***************************************************************************)
EXTENDS Integers

TwoTo[n \in Nat] == IF n = 0 THEN 1 ELSE 2 * TwoTo[n - 1]

BitsOf[n \in Nat] == IF n = 0 THEN 0 ELSE 1 + BitsOf[n \div 2]

BitLength(n) == BitsOf[n]

=============================================================================
