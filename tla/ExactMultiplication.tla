------------------------ MODULE ExactMultiplication ------------------------
(***************************************************************************)
(* Scalar encryption and the exact multiplication of ciphertexts in the    *)
(* residues of the main moduli alone (crates/nine65/src/ops/rns_fhe.rs,    *)
(* ops/exact_mul.rs, arithmetic/exact_scale_round.rs): the operands'       *)
(* centered lifts are extended to a transient auxiliary basis, the tensor  *)
(* is formed in both bases, rounded back, and its third component folded   *)
(* in with a gadget key.                                                   *)
(*                                                                         *)
(* A polynomial is a function on 0 .. N - 1, a ring element in residues a  *)
(* sequence of polynomials, one per modulus.  The Montgomery form and the  *)
(* transforms of the code are one-to-one and left out; so are calls with   *)
(* ill-shaped or non-canonical ring elements, which are refused before     *)
(* anything is computed.                                                   *)
(***************************************************************************)
EXTENDS BaseExtension

CONSTANTS
  N,             \* ring degree
  Eta,           \* bound on a sampled error coefficient
  BaseBits,      \* of the gadget's digits: HYBRID_BASE_BITS, 10
  NarrowPool,    \* auxiliary moduli: the canonical anchor primes,
  WidePool,      \* and WIDE_AUXILIARY_PRIMES
  Systems,       \* main moduli and plaintext modulus, as pairs
  Secrets,       \* ternary polynomials
  Tapes,         \* masks and errors that key generation may draw, in order
  Draws,         \* what one encryption may draw
  Imports,       \* ciphertexts that come from elsewhere
  Threads        \* of the prepared relinearization

Powers == 0 .. N - 1

Polynomials == [Powers -> Int]
Ternary == [Powers -> -1 .. 1]
Errors == [Powers -> -Eta .. Eta]

ASSUME ExactMultiplicationAssumption ==
  /\ N \in {TwoTo[e] : e \in 1 .. 15}
  /\ Eta \in Nat
  /\ BaseBits \in 1 .. 30
  /\ NarrowPool \in Seq(Nat) /\ WidePool \in Seq(Nat)
  /\ \A system \in Systems : system[1] \in Seq(Nat) /\ system[2] \in Nat
  /\ Threads \subseteq 1 .. 4

\* Parameter sets with a plaintext modulus that some lane cannot hold are
\* refused (params/mod.rs custom), and decryption relies on it.
ASSUME PlaintextAssumption ==
  \A system \in Systems : \A i \in DOMAIN system[1] : system[2] < system[1][i]

ASSUME SamplesAssumption ==
  /\ Secrets \subseteq Ternary
  /\ \A samples \in Tapes : samples \in Seq([mask : Polynomials, error : Errors])
  /\ Draws \subseteq [u : Ternary, e1 : Errors, e2 : Errors]
  /\ Imports \subseteq Polynomials \X Polynomials

VARIABLES
  plan,      \* ExactMulPlan
  sk,
  tape,      \* what the keys were made from
  keys,      \* public key and gadget key, or <<>>
  operands,  \* the ciphertexts of a multiplication, each with its message
  tensor,    \* ExactTensor3, or <<>>
  folded,    \* its relinearization, or <<>>
  plaintext  \* what that decrypts to, or <<>>

multiplyVars == <<plan, sk, tape, keys, operands, tensor, folded, plaintext>>

-----------------------------------------------------------------------------
(* The ring: integer polynomials modulo X ^ N + 1, and their residues.      *)

\* A function; the comparison has TLC compute each of its values once.
Computed(f) == IF f = f THEN f ELSE <<>>

Negacyclic(a, b) ==
  Computed([k \in Powers |->
     LET term(i) == IF i <= k THEN a[i] * b[k - i] ELSE -(a[i] * b[N + k - i])
     IN  SumOver(Powers, term)])

Mod(poly, m) == Computed([k \in Powers |-> poly[k] % m])
Plus(a, b) == Computed([k \in Powers |-> a[k] + b[k]])
Minus(a) == Computed([k \in Powers |-> -a[k]])

InRing(moduli, poly) == Computed([i \in DOMAIN moduli |-> Mod(poly, moduli[i])])

\* Variant: encoded in the first lane, and that representative reduced in the
\* others.
Signed_OnceForAll(moduli, poly) ==
  [i \in DOMAIN moduli |-> Mod(Mod(poly, moduli[1]), moduli[i])]

\* signed_to_mod: a small signed polynomial, encoded in every lane
Signed(moduli, poly) == [i \in DOMAIN moduli |-> Mod(poly, moduli[i])]

RingMul(moduli, a, b) ==
  Computed([i \in DOMAIN moduli |-> Mod(Negacyclic(a[i], b[i]), moduli[i])])
RingAdd(moduli, a, b) ==
  Computed([i \in DOMAIN moduli |-> Mod(Plus(a[i], b[i]), moduli[i])])
RingNeg(moduli, a) == Computed([i \in DOMAIN moduli |-> Mod(Minus(a[i]), moduli[i])])

\* The residues of one coefficient
At(element, k) == [i \in DOMAIN element |-> element[i][k]]

-----------------------------------------------------------------------------
(* The plan.                                                                *)

ShiftMultiplier(t) == (N \div 2) * t + 1

Capacity(main, t) == 2 * ShiftMultiplier(t) * Product(main)

Pool(main, t) ==
  IF Product(NarrowPool) > Capacity(main, t) THEN NarrowPool ELSE WidePool

\* The first auxiliary moduli whose product passes the capacity, if any
LongEnough(main, t) ==
  {k \in DOMAIN Pool(main, t) : Product(SubSeq(Pool(main, t), 1, k)) > Capacity(main, t)}

GadgetDigits(m) == (BitLength(m) + BaseBits - 1) \div BaseBits

\* What ExactMulPlan::new and ExactScaleRound::new accept
Plans(main, t) ==
  /\ t >= 2
  /\ LongEnough(main, t) # {}
  /\ \A pool \in {NarrowPool, Pool(main, t)} : \A j \in DOMAIN pool :
       /\ (pool[j] - 1) % (2 * N) = 0
       /\ \A i \in DOMAIN main : Coprime(main[i], pool[j])
  /\ LET aux == SubSeq(Pool(main, t), 1, Min(LongEnough(main, t)))
     IN  /\ Extends(main, aux) /\ Extends(aux, main)
         /\ \A i \in DOMAIN main : main[i] % 2 = 1

NewPlan(main, t) ==
  [main   |-> main,
   t      |-> t,
   aux    |-> SubSeq(Pool(main, t), 1, Min(LongEnough(main, t))),
   digits |-> [i \in DOMAIN main |-> GadgetDigits(main[i])]]

LanesOf(p) == DOMAIN p.main
Modulus(p) == Product(p.main)

-----------------------------------------------------------------------------
(* ExactScaleRound: t * X / Q rounded, for X in residues of both bases.     *)

HalfModAux(p, a) == (((Modulus(p) % a) + a - 1) * ModInverse(2, a)) % a

ShiftModAux(p, a) == (ShiftMultiplier(p.t) % a) * (Modulus(p) % a)

ScaleRound(p, xMain, xAux) ==
  LET zMain == [i \in LanesOf(p) |->
                  (xMain[i] * (p.t % p.main[i]) + (p.main[i] - 1) \div 2) % p.main[i]]
      zAux == [j \in DOMAIN p.aux |->
                 (xAux[j] * (p.t % p.aux[j]) + HalfModAux(p, p.aux[j])) % p.aux[j]]
      wAux == Project(p.main, p.aux, zMain, FALSE).residues
      quotient(j) ==
        (((zAux[j] + p.aux[j] - wAux[j]) % p.aux[j]) * ModInverse(Modulus(p), p.aux[j]))
          % p.aux[j]
      shifted == [j \in DOMAIN p.aux |->
                    (quotient(j) + ShiftModAux(p, p.aux[j])) % p.aux[j]]
  IN  Project(p.aux, p.main, shifted, FALSE).residues

-----------------------------------------------------------------------------
(* Keys and encryption.                                                     *)

\* Draws for the public key come first, then one per lane and digit.
DrawOf(p, i, j) ==
  LET before(l) == p.digits[l] IN 2 + SumOver(1 .. i - 1, before) + j

\* A tape holds all that key generation draws.
ASSUME TapesAssumption ==
  \A system \in Systems, samples \in Tapes :
    LET p == NewPlan(system[1], system[2])
    IN  Plans(system[1], system[2]) =>
          /\ 1 \in DOMAIN samples
          /\ \A i \in LanesOf(p) : \A j \in 0 .. p.digits[i] - 1 :
               DrawOf(p, i, j) \in DOMAIN samples

\* (mask, - (mask * s + error) + message)
Masked(p, s, draw, message) ==
  LET mask == InRing(p.main, draw.mask)
      noisy == RingAdd(p.main, RingMul(p.main, mask, s), Signed(p.main, draw.error))
  IN  <<RingAdd(p.main, RingNeg(p.main, noisy), message), mask>>

\* base ^ digit times the target in one lane, nothing in the others
GadgetMessage(p, target, i, j) ==
  [l \in LanesOf(p) |->
     [k \in Powers |->
        IF l = i THEN (target[l][k] * (TwoTo[BaseBits * j] % p.main[l])) % p.main[l] ELSE 0]]

GadgetKey(p, s, draws) ==
  LET target == RingMul(p.main, s, s)
  IN  [i \in LanesOf(p) |->
         [j \in 0 .. p.digits[i] - 1 |->
            Masked(p, s, draws[DrawOf(p, i, j)], GadgetMessage(p, target, i, j))]]

KeySet(p, s, draws) ==
  [public |-> Masked(p, s, draws[1], InRing(p.main, [k \in Powers |-> 0])),
   gadget |-> GadgetKey(p, s, draws)]

Ciphertext(p, public, m, draw) ==
  LET u == Signed(p.main, draw.u)
      scaled == InRing(p.main, [k \in Powers |-> IF k = 0 THEN m * (Modulus(p) \div p.t) ELSE 0])
  IN  <<RingAdd(p.main,
          RingAdd(p.main, RingMul(p.main, public[1], u), Signed(p.main, draw.e1)), scaled),
        RingAdd(p.main, RingMul(p.main, public[2], u), Signed(p.main, draw.e2))>>

-----------------------------------------------------------------------------
(* The multiplication.                                                      *)

\* Variant: the lift is not centered.
AuxLimbs_Canonical(p, element) ==
  LET lifted == Computed([k \in Powers |-> Project(p.main, p.aux, At(element, k), FALSE).residues])
  IN  Computed([j \in DOMAIN p.aux |-> Computed([k \in Powers |-> lifted[k][j]])])

\* Of the centered lift of every coefficient
AuxLimbs(p, element) ==
  LET lifted == Computed([k \in Powers |-> Project(p.main, p.aux, At(element, k), TRUE).residues])
  IN  Computed([j \in DOMAIN p.aux |-> Computed([k \in Powers |-> lifted[k][j]])])

Rounded(p, inMain, inAux) ==
  LET at == Computed([k \in Powers |-> ScaleRound(p, At(inMain, k), At(inAux, k))])
  IN  [i \in LanesOf(p) |-> [k \in Powers |-> at[k][i]]]

\* The degree-2 product of a and b in one basis
Components(moduli, a, b) ==
  <<RingMul(moduli, a[1], b[1]),
    RingAdd(moduli, RingMul(moduli, a[1], b[2]), RingMul(moduli, a[2], b[1])),
    RingMul(moduli, a[2], b[2])>>

ExactTensor(p, a, b) ==
  LET inMain == Components(p.main, a, b)
      inAux == Components(p.aux, <<AuxLimbs(p, a[1]), AuxLimbs(p, a[2])>>,
                                 <<AuxLimbs(p, b[1]), AuxLimbs(p, b[2])>>)
  IN  [e \in 1 .. 3 |-> Rounded(p, inMain[e], inAux[e])]

\* Bits of a residue
Digit(c, j) == (c \div TwoTo[BaseBits * j]) % TwoTo[BaseBits]

\* What lane l accumulates of one of the two key components: the digits of
\* every lane, reduced in this one, times the key.
LaneFold(p, element, gadget, component, l) ==
  LET product(i, j) ==
        Mod(Negacyclic([k \in Powers |-> Digit(element[i][k], j) % p.main[l]],
                       gadget[i][j][component][l]), p.main[l])
      used == UNION {{<<i, j>> : j \in 0 .. p.digits[i] - 1} : i \in LanesOf(p)}
      at(k) == LET term(ij) == product(ij[1], ij[2])[k] IN SumOver(used, term) % p.main[l]
  IN  [k \in Powers |-> at(k)]

\* The lane that a thread of the prepared path works on: the lanes are cut
\* in chunks of equal size.
ChunkSize(p, threads) ==
  LET w == Min({threads, Len(p.main)}) IN (Len(p.main) + w - 1) \div w
LaneOfThread(p, threads, l) ==
  LET chunk == (l - 1) \div ChunkSize(p, threads)
      offset == (l - 1) % ChunkSize(p, threads)
  IN  chunk * ChunkSize(p, threads) + offset + 1

Relinearized(p, e, gadget, threads) ==
  LET fold(component) ==
        [l \in LanesOf(p) |->
           LaneFold(p, e[3], gadget, component, LaneOfThread(p, threads, l))]
  IN  <<RingAdd(p.main, e[1], fold(1)), RingAdd(p.main, e[2], fold(2))>>

\* c1 + c2 * s
Phase(p, c, s) == RingAdd(p.main, c[1], RingMul(p.main, c[2], Signed(p.main, s)))

\* The answer is read from the first lane and compared with the others.
Agreed(p, out) ==
  IF /\ \A i \in LanesOf(p) : out[i] = out[1] % p.main[i]
     /\ out[1] <= p.t
  THEN [ok |-> TRUE, value |-> out[1] % p.t]
  ELSE [ok |-> FALSE]

\* try_decrypt_exact
Decrypted(p, c, s) ==
  LET inner == At(Phase(p, c, s), 0)
  IN  Agreed(p, ScaleRound(p, inner, Project(p.main, p.aux, inner, FALSE).residues))

-----------------------------------------------------------------------------

MultiplyInit ==
  /\ \E system \in Systems :
       Plans(system[1], system[2]) /\ plan = NewPlan(system[1], system[2])
  /\ sk \in Secrets
  /\ tape \in Tapes
  /\ keys = <<>> /\ operands = <<>> /\ tensor = <<>> /\ folded = <<>> /\ plaintext = <<>>

GenerateKeys ==
  /\ keys = <<>>
  /\ keys' = KeySet(plan, Signed(plan.main, sk), tape)
  /\ UNCHANGED <<plan, sk, tape, operands, tensor, folded, plaintext>>

\* encrypt_with_rng
EncryptOperand(m, draw) ==
  /\ keys # <<>> /\ Len(operands) < 2
  /\ operands' = Append(operands, [ct |-> Ciphertext(plan, keys.public, m, draw), plain |-> {m}])
  /\ UNCHANGED <<plan, sk, tape, keys, tensor, folded, plaintext>>

\* Any canonical ciphertext is accepted.
ImportOperand(c) ==
  /\ keys # <<>> /\ Len(operands) < 2
  /\ operands' = Append(operands,
       [ct |-> <<InRing(plan.main, c[1]), InRing(plan.main, c[2])>>, plain |-> {}])
  /\ UNCHANGED <<plan, sk, tape, keys, tensor, folded, plaintext>>

\* try_mul_no_relin_exact
MultiplyExact ==
  /\ Len(operands) = 2 /\ tensor = <<>>
  /\ tensor' = ExactTensor(plan, operands[1].ct, operands[2].ct)
  /\ UNCHANGED <<plan, sk, tape, keys, operands, folded, plaintext>>

\* relinearize_tensor and, on several threads, relinearize_tensor_prepared
Relinearize(threads) ==
  /\ tensor # <<>> /\ folded = <<>>
  /\ folded' = Relinearized(plan, tensor, keys.gadget, threads)
  /\ UNCHANGED <<plan, sk, tape, keys, operands, tensor, plaintext>>

DecryptExact ==
  /\ folded # <<>> /\ plaintext = <<>>
  /\ plaintext' = Decrypted(plan, folded, sk)
  /\ UNCHANGED <<plan, sk, tape, keys, operands, tensor, folded>>

MultiplyNext ==
  \/ GenerateKeys
  \/ \E m \in 0 .. plan.t - 1, draw \in Draws : EncryptOperand(m, draw)
  \/ \E c \in Imports : ImportOperand(c)
  \/ MultiplyExact
  \/ \E threads \in Threads : Relinearize(threads)
  \/ DecryptExact

MultiplySpec == MultiplyInit /\ [][MultiplyNext]_multiplyVars

-----------------------------------------------------------------------------
(* What it is to mean, in the integers.                                     *)

\* The integer in [0, Q), or the one nearest to zero, with these residues
Whole(p, r) ==
  CHOOSE x \in {r[1] + k * p.main[1] : k \in 0 .. Modulus(p) \div p.main[1] - 1} :
    \A i \in LanesOf(p) : x % p.main[i] = r[i]
Nearest0(x, modulus) == LET v == x % modulus IN IF 2 * v > modulus THEN v - modulus ELSE v

Lift(p, element) == [k \in Powers |-> Nearest0(Whole(p, At(element, k)), Modulus(p))]

\* n / d to the nearest integer
Quotient(n, d) == (2 * n + d) \div (2 * d)

\* Scale-and-round is exact wherever it is used.  Every component of a tensor
\* is the rounded quotient of the integer tensor of the centered operands,
\* for operands at the ends of their range too, although that tensor is far
\* wider than Q and is never formed; and decryption gives the rounded phase
\* of any ciphertext, its lanes never disagreeing (exact_scale_round.rs
\* scale_round; exact_mul.rs try_mul_no_relin_exact, try_decrypt_exact).
RoundingsAreExact ==
  /\ tensor # <<>> /\ folded = <<>> =>
       LET lift(o) == <<Lift(plan, operands[o].ct[1]), Lift(plan, operands[o].ct[2])>>
           a == lift(1)
           b == lift(2)
           whole == <<Negacyclic(a[1], b[1]),
                      Plus(Negacyclic(a[1], b[2]), Negacyclic(a[2], b[1])),
                      Negacyclic(a[2], b[2])>>
       IN  \A e \in 1 .. 3 :
             tensor[e] = InRing(plan.main,
               [k \in Powers |-> Quotient(plan.t * whole[e][k], Modulus(plan))])
  /\ plaintext # <<>> =>
       LET phase == Whole(plan, At(Phase(plan, folded, sk), 0))
       IN  plaintext =
             [ok |-> TRUE, value |-> Quotient(plan.t * phase, Modulus(plan)) % plan.t]

\* The folded product, read with the secret, is the tensor read with it, less
\* the digits of the third component times the errors in the gadget key: no
\* digit is lost, met twice or put in the wrong lane, whatever the number of
\* threads (exact_mul.rs hybrid_relinearize, hybrid_relinearize_prepared).
FoldingAddsOnlyNoise ==
  folded # <<>> /\ plaintext = <<>> =>
    LET s == Signed(plan.main, sk)
        s2 == RingMul(plan.main, s, s)
        intended == RingAdd(plan.main, Phase(plan, <<tensor[1], tensor[2]>>, sk),
                                       RingMul(plan.main, tensor[3], s2))
        noise(i, j) == Negacyclic([k \in Powers |-> Digit(tensor[3][i][k], j)],
                                  tape[DrawOf(plan, i, j)].error)
        all == UNION {{<<i, j>> : j \in 0 .. plan.digits[i] - 1} : i \in LanesOf(plan)}
        total == [k \in Powers |->
                    LET term(ij) == noise(ij[1], ij[2])[k] IN SumOver(all, term)]
    IN  /\ Phase(plan, folded, sk) =
             RingAdd(plan.main, intended, RingNeg(plan.main, InRing(plan.main, total)))
        /\ \A i \in LanesOf(plan) : TwoTo[BaseBits * plan.digits[i]] >= plan.main[i]

-----------------------------------------------------------------------------
(* The bounds of the certified evaluator, for the noise that the arithmetic *)
(* really makes (noise/certified.rs).                                       *)

GadgetDigitsOf(p) == LET d(i) == p.digits[i] IN SumOver(LanesOf(p), d)

Certified(p) == INSTANCE CertifiedBound WITH
  T <- p.t, Q <- Modulus(p), Base <- TwoTo[BaseBits], Digits <- GadgetDigitsOf(p)

\* t * phase - Q * m, reduced modulo t * Q: the error in the units of the
\* bound
ScaledError(p, c, m) ==
  LET phase == [k \in Powers |-> Whole(p, At(Phase(p, c, sk), k))]
  IN  [k \in Powers |->
         Nearest0(p.t * phase[k] - (IF k = 0 THEN Modulus(p) * m ELSE 0), p.t * Modulus(p))]

Within(error, bound) == \A k \in Powers : error[k] \in -bound .. bound

\* Fresh ciphertexts and their product are as exact as the certified bounds
\* say, a product whose bound was admitted decrypts to the product of the
\* messages, and folding adds its noise and nothing else, also where no bound
\* was admitted (noise/certified.rs fresh, multiply, admit; exact_mul.rs).
CertificateCoversNoise ==
  FoldingAddsOnlyNoise /\
  LET fresh == Certified(plan)!FreshBound
      product == Certified(plan)!MultiplyBound(fresh, fresh)
      plains == UNION {operands[o].plain : o \in DOMAIN operands}
      encrypted == \A o \in DOMAIN operands : operands[o].plain # {}
      message(o) == CHOOSE m \in operands[o].plain : TRUE
  IN  plan.t > 2 /\ plan.t % 2 = 1 /\ Certified(plan)!Admitted(fresh) =>
        /\ \A o \in DOMAIN operands :
             operands[o].plain # {} /\ tensor = <<>> =>
               Within(ScaledError(plan, operands[o].ct, message(o)), fresh)
        /\ encrypted /\ folded # <<>> =>
             LET m == (message(1) * message(2)) % plan.t
             IN  /\ Within(ScaledError(plan, folded, m), product)
                 /\ Certified(plan)!Admitted(product) /\ plaintext # <<>> =>
                      plaintext = [ok |-> TRUE, value |-> m]
=============================================================================
