------------------------------ MODULE DualTrack ------------------------------
(***************************************************************************)
(* The dual-track evaluator (crates/nine65/src/ops/rns_fhe.rs): every ring *)
(* element is kept in residues modulo the main primes and, beside them,    *)
(* modulo the anchors, so that an integer larger than the main modulus can *)
(* be told by its winding.  Multiplication divides by Delta through that   *)
(* winding; the main primes can be dropped one by one.                     *)
(*                                                                         *)
(* The transforms, the parallel loops and the Montgomery form are          *)
(* one-to-one and left out.  An element has as many main residues as its   *)
(* level.  Beside its residues a ciphertext carries the integers that they *)
(* are residues of and the plaintext it is meant for.                      *)
(***************************************************************************)
EXTENDS ExactMultiplication, DualRescale

CONSTANTS
  DualSystems,   \* main and anchor moduli, plaintext modulus, and whether
                 \* the evaluator's diagnostics are on
  DualTapes,     \* what key generation draws: public key, then one per digit
  AnchorsRead,   \* K_RECONSTRUCTION_MAX_ANCHORS, 8
  Proximity,     \* safety_margin, 1000000
  DigitBits,     \* of the evaluation key's digits: 16, or 10
  MaxDualSteps   \* bound on the operations after encryption

ASSUME DualTrackAssumption ==
  /\ \A d \in DualSystems : Len(d.main) >= 2 /\ Len(d.anchors) >= 5
  /\ AnchorsRead >= 3 /\ Proximity \in Nat /\ DigitBits \in 1 .. 16
  /\ MaxDualSteps \in Nat

VARIABLES
  dual,        \* the system
  dualSk, dualTape,
  dualKeys,    \* public key and evaluation key, or <<>>
  work,        \* the ciphertexts
  last,        \* the last operation, with the integers it worked on
  dualSteps

dualVars == <<dual, dualSk, dualTape, dualKeys, work, last, dualSteps>>

-----------------------------------------------------------------------------
(* Ring elements on both tracks.                                            *)

MainsAt(level) == SubSeq(dual.main, 1, level)
ModulusAt(level) == Product(MainsAt(level))
FullLevel == Len(dual.main)

InLanes(level, poly) ==
  LET p == Computed(poly)
  IN  [main |-> InRing(MainsAt(level), p), anchor |-> InRing(dual.anchors, p)]

LevelOf(element) == Len(element.main)

\* Of two elements the main residues that both have
Shared(a, b) == MainsAt(Min({LevelOf(a), LevelOf(b)}))

DualAdd(a, b) ==
  [main |-> RingAdd(Shared(a, b), a.main, b.main),
   anchor |-> RingAdd(dual.anchors, a.anchor, b.anchor)]
DualMul(a, b) ==
  [main |-> RingMul(Shared(a, b), a.main, b.main),
   anchor |-> RingMul(dual.anchors, a.anchor, b.anchor)]
DualNeg(a) ==
  [main |-> RingNeg(Shared(a, a), a.main), anchor |-> RingNeg(dual.anchors, a.anchor)]

DualSum(count, Term(_)) ==
  LET first[k \in 1 .. count] == IF k = 1 THEN Term(1) ELSE DualAdd(first[k - 1], Term(k))
  IN  first[count]

-----------------------------------------------------------------------------
(* Reading an integer off its residues.                                     *)

FromResidues(moduli, r) == Reconstruct(moduli, GarnerDecompose(moduli, r))

\* The integer that the main residues alone stand for
Canonical(element, k) == FromResidues(MainsAt(LevelOf(element)), At(element.main, k))

ReadAnchors == SubSeq(dual.anchors, 1, Min({AnchorsRead, Len(dual.anchors)}))

\* extract_k_rns_level_cached: how often the main modulus goes into the
\* integer, if that is not too close to what the anchors can tell and agrees
\* with the anchors beyond those that are read
Windings(element, k) ==
  LET v == Canonical(element, k)
      m == ModulusAt(LevelOf(element))
      residues == [i \in DOMAIN dual.anchors |->
                     (((element.anchor[i][k] - v) % dual.anchors[i])
                        * ModInverse(m, dual.anchors[i])) % dual.anchors[i]]
      capacity == Product(ReadAnchors)
      read == FromResidues(ReadAnchors, residues)
      winding == SignedWinding(read, capacity)
      tooClose == read - capacity \div 2 \in -Proximity .. Proximity
      dissent == \E i \in DOMAIN dual.anchors :
                   i > Len(ReadAnchors) /\ residues[i] # winding % dual.anchors[i]
  IN  IF tooClose \/ dissent THEN {} ELSE {winding}

\* What may fail is the set of its results: one, or none.  Here all of the
\* windings of an element.
AllWindings(element) ==
  {Computed([k \in Powers |-> CHOOSE w \in read[k] : TRUE]) :
     read \in {r \in {Computed([k \in Powers |-> Windings(element, k)])} :
                \A k \in Powers : r[k] # {}}}

\* Divided by Delta, if all windings can be read
RescaledDual(element) ==
  {InLanes(LevelOf(element),
     [k \in Powers |-> Rescaled(Canonical(element, k), windings[k], dual.t,
                                ModulusAt(LevelOf(element)))]) :
     windings \in AllWindings(element)}

CanonicalizedAnchor(element) ==
  InLanes(LevelOf(element), [k \in Powers |-> Canonical(element, k)])

-----------------------------------------------------------------------------
(* Dropping main primes.                                                    *)

\* Of an element: the integer nearest to zero is divided by the last prime.
DroppedValue(level, poly) ==
  [k \in Powers |->
     DropRound(Centered(poly[k] % ModulusAt(level), ModulusAt(level)), dual.main[level])]

Dropped(element) ==
  LET level == LevelOf(element)
  IN  InLanes(level - 1, DroppedValue(level, [k \in Powers |-> Canonical(element, k)]))

DownTo(level, element) ==
  LET at[l \in level .. LevelOf(element)] ==
        IF l = LevelOf(element) THEN element ELSE Dropped(at[l + 1])
  IN  at[level]

ValueDownTo(level, from, poly) ==
  LET at[l \in level .. from] == IF l = from THEN poly ELSE DroppedValue(l + 1, at[l + 1])
  IN  at[level]

-----------------------------------------------------------------------------
(* Keys and encryption.                                                     *)

Secret == InLanes(FullLevel, dualSk)

Digits == (BitLength(ModulusAt(FullLevel)) + DigitBits - 1) \div DigitBits

\* A mask is one integer below the modulus, on both tracks.
MaskOf(draw) == Mod(draw.mask, ModulusAt(FullLevel))

Hiding(draw) ==
  DualNeg(DualAdd(DualMul(InLanes(FullLevel, MaskOf(draw)), Secret),
                  InLanes(FullLevel, draw.error)))

PowerOf(digit) == [k \in Powers |-> IF k = 0 THEN 2 ^ (DigitBits * digit) ELSE 0]

EvalKey ==
  [j \in 1 .. Digits |->
     <<DualAdd(Hiding(dualTape[j + 1]),
               DualMul(DualMul(Secret, Secret), InLanes(FullLevel, PowerOf(j - 1)))),
       InLanes(FullLevel, MaskOf(dualTape[j + 1]))>>]

DualKeySet ==
  [public |-> <<Hiding(dualTape[1]), InLanes(FullLevel, MaskOf(dualTape[1]))>>,
   eval |-> EvalKey]

\* With Delta of the full modulus, at any level
Encoded(m) ==
  [k \in Powers |-> IF k = 0 THEN m * (ModulusAt(FullLevel) \div dual.t) ELSE 0]

DualEncryption(m, draw) ==
  LET u == InLanes(FullLevel, draw.u)
      public == dualKeys.public
  IN  <<DualAdd(DualAdd(DualMul(public[1], u), InLanes(FullLevel, draw.e1)),
                InLanes(FullLevel, Encoded(m))),
        DualAdd(DualMul(public[2], u), InLanes(FullLevel, draw.e2))>>

\* The integers of a fresh ciphertext
EncryptionValue(m, draw) ==
  LET mask == MaskOf(dualTape[1])
      hidden == Minus(Plus(Negacyclic(mask, dualSk), dualTape[1].error))
  IN  <<Plus(Plus(Negacyclic(hidden, draw.u), draw.e1), Encoded(m)),
        Plus(Negacyclic(mask, draw.u), draw.e2)>>

-----------------------------------------------------------------------------
(* Multiplication.                                                          *)

Log2N == BitLength(N) - 1

SumOfBits(moduli) == LET bits(i) == BitLength(moduli[i]) IN SumOver(DOMAIN moduli, bits)

\* The bits of the product of all moduli, which is kept in limbs.
ProductBits ==
  LET factors == dual.main \o dual.anchors
      limbs[k \in 0 .. Len(factors)] ==
        IF k = 0 THEN <<0, 1>>
        ELSE LET low == limbs[k - 1][2] * factors[k]
             IN  <<limbs[k - 1][1] * factors[k] + low \div 2 ^ 15, low % 2 ^ 15>>
      product == limbs[Len(factors)]
  IN  IF product[1] = 0 THEN BitLength(product[2]) ELSE 15 + BitLength(product[1])

Utilization(level) == ((Log2N + 2 * SumOfBits(MainsAt(level))) * 100) \div ProductBits

\* audit_capacity; with the diagnostics on, a warning refuses as well.
AuditPasses(level) ==
  /\ Utilization(level) < 100
  /\ dual.strict => Utilization(level) < 80

\* extract_digit_dual: the digits of the exact integers, with their signs, if
\* those of the key suffice for them
ExactIntegers(element) ==
  {Computed([k \in Powers |->
     Canonical(element, k) + windings[k] * ModulusAt(LevelOf(element))]) :
     windings \in AllWindings(element)}

DigitsOf(element) ==
  LET digit(x, j) == (AbsValue(x) \div 2 ^ (DigitBits * (j - 1))) % 2 ^ DigitBits
      signed(x, j) == IF x < 0 THEN -digit(x, j) ELSE digit(x, j)
  IN  {[j \in 1 .. Digits |->
          InLanes(LevelOf(element), [k \in Powers |-> signed(exact[k], j)])] :
         exact \in {x \in ExactIntegers(element) :
                     \A k \in Powers : AbsValue(x[k]) < 2 ^ (DigitBits * Digits)}}

\* The two components that the digits of an element make with the key, which
\* is brought down to its level
RelinearizedDual(element) ==
  LET term(digits, j, component) ==
        DualMul(digits[j], DownTo(LevelOf(element), dualKeys.eval[j][component]))
      sum(digits, component) ==
        LET at(j) == term(digits, j, component) IN DualSum(Digits, at)
  IN  {Computed([component \in 1 .. 2 |-> sum(digits, component)]) :
         digits \in DigitsOf(element)}

\* k_elim_rescale_dual of the tensor, relinearize_dual and
\* canonicalize_dual_anchor: the components of the product, if there is one
RescaledTensor(a, b) ==
  RescaledDual(DualMul(a[1], b[1]))
    \X RescaledDual(DualAdd(DualMul(a[1], b[2]), DualMul(a[2], b[1])))
    \X RescaledDual(DualMul(a[2], b[2]))

FoldedIn(scaled) ==
  {[e \in 1 .. 2 |-> CanonicalizedAnchor(DualAdd(scaled[e], back[e]))] :
     back \in RelinearizedDual(scaled[3])}

PublicProduct(a, b) == UNION {FoldedIn(scaled) : scaled \in RescaledTensor(a, b)}

\* The tensor of the exact route, its third component folded in with the
\* square of the secret; only the main residues are used.
SymmetricProduct(a, b) ==
  LET square == DualMul(Secret, Secret).main
      mains(rounded, e) ==
        IF e = 1 THEN RingAdd(dual.main, rounded[1], RingMul(dual.main, rounded[3], square))
        ELSE rounded[2]
  IN  {[e \in 1 .. 2 |-> CanonicalizedAnchor([main |-> mains(rounded, e)])] :
         rounded \in {ExactTensor(NewPlan(dual.main, dual.t),
                        <<a[1].main, a[2].main>>, <<b[1].main, b[2].main>>)}}

-----------------------------------------------------------------------------
(* Decryption.                                                              *)

\* decrypt_dual_with_diagnostics, with the secret at the ciphertext's level
DecryptDual(c) ==
  LET inner == DualAdd(c[1], DualMul(c[2], Secret))
  IN  Decoded(Canonical(inner, 0), dual.t, ModulusAt(LevelOf(inner)))

-----------------------------------------------------------------------------
(* The evaluator.                                                           *)

DualInit ==
  /\ dual \in DualSystems
  /\ dualSk \in Secrets /\ dualTape \in DualTapes
  /\ dualKeys = <<>> /\ work = <<>> /\ last = [op |-> "none"] /\ dualSteps = 0

GenerateDualKeys ==
  /\ dualKeys = <<>>
  /\ dualKeys' = DualKeySet
  /\ UNCHANGED <<dual, dualSk, dualTape, work, last, dualSteps>>

\* encrypt_dual_with_rng
EncryptDual(m, draw) ==
  /\ dualKeys # <<>> /\ Len(work) < 2 /\ dualSteps = 0
  /\ work' = Append(work, [c |-> DualEncryption(m, draw), plain |-> m,
                           value |-> EncryptionValue(m, draw)])
  /\ last' = [op |-> "encrypt", plain |-> m]
  /\ UNCHANGED <<dual, dualSk, dualTape, dualKeys, dualSteps>>

\* The result of an operation takes the place of its first operand.
Step(done) ==
  /\ work # <<>> /\ dualSteps < MaxDualSteps
  /\ dualSteps' = dualSteps + 1
  /\ last' = done
  /\ UNCHANGED <<dual, dualSk, dualTape, dualKeys>>

CtLevel(w) == LevelOf(w.c[1])

Result(c, integers, plain) ==
  work' = [work EXCEPT ![1] = [c |-> c, value |-> integers, plain |-> plain % dual.t]]

\* add_dual, and sub_dual with the sign -1; the operand at the higher level is
\* brought down.  (sub_dual asserts equal levels in a debug build only.)
AddDual(o, sign) ==
  /\ o \in DOMAIN work /\ Step([op |-> "linear"])
  /\ LET a == work[1]
         b == work[o]
         level == Min({CtLevel(a), CtLevel(b)})
         signed == IF sign = 1 THEN b.c ELSE <<DualNeg(b.c[1]), DualNeg(b.c[2])>>
         signedValue == IF sign = 1 THEN b.value ELSE <<Minus(b.value[1]), Minus(b.value[2])>>
         component(e) == DualAdd(DownTo(level, a.c[e]), DownTo(level, signed[e]))
         integers(e) == Plus(ValueDownTo(level, CtLevel(a), a.value[e]),
                             ValueDownTo(level, CtLevel(b), signedValue[e]))
     IN  Result(<<component(1), component(2)>>, <<integers(1), integers(2)>>,
                a.plain + sign * b.plain)

NegateDual ==
  /\ Step([op |-> "linear"])
  /\ Result(<<DualNeg(work[1].c[1]), DualNeg(work[1].c[2])>>,
            <<Minus(work[1].value[1]), Minus(work[1].value[2])>>, -work[1].plain)

AddPlainDual(scalar) ==
  /\ Step([op |-> "linear"])
  /\ Result(<<DualAdd(work[1].c[1], InLanes(FullLevel, Encoded(scalar))), work[1].c[2]>>,
            <<Plus(work[1].value[1], Encoded(scalar)), work[1].value[2]>>,
            work[1].plain + scalar)

MulPlainDual(scalar) ==
  /\ Step([op |-> "linear"])
  /\ LET constant == [k \in Powers |-> IF k = 0 THEN scalar ELSE 0]
         times(element) == DualMul(element, InLanes(FullLevel, constant))
     IN  Result(<<times(work[1].c[1]), times(work[1].c[2])>>,
                <<Negacyclic(work[1].value[1], constant),
                  Negacyclic(work[1].value[2], constant)>>,
                work[1].plain * scalar)

\* mod_switch_ct_down, which needs three lanes
ModSwitchDown ==
  /\ work # <<>> /\ CtLevel(work[1]) >= 3
  /\ Step([op |-> "drop", value |-> work[1].value, level |-> CtLevel(work[1])])
  /\ LET level == CtLevel(work[1])
     IN  Result(<<Dropped(work[1].c[1]), Dropped(work[1].c[2])>>,
                <<DroppedValue(level, work[1].value[1]), DroppedValue(level, work[1].value[2])>>,
                work[1].plain)

\* The integers that a product at the full level is made from
TensorOf(a, b) ==
  <<Negacyclic(a[1], b[1]), Plus(Negacyclic(a[1], b[2]), Negacyclic(a[2], b[1])),
    Negacyclic(a[2], b[2])>>

CanonicalValues(c) ==
  [e \in 1 .. 2 |-> Computed([k \in Powers |-> Canonical(c[e], k)])]

\* mul_dual_public, which asserts that there are five anchors
MulDualPublic(o) ==
  /\ o \in DOMAIN work /\ dualSteps < MaxDualSteps
  /\ \E products \in {IF AuditPasses(CtLevel(work[1]))
                       THEN PublicProduct(work[1].c, work[o].c) ELSE {}} :
       /\ Step([op |-> "public", refused |-> products = {},
                full |-> CtLevel(work[1]) = FullLevel /\ CtLevel(work[o]) = FullLevel,
                values |-> <<work[1].value, work[o].value>>])
       /\ \/ products = {} /\ UNCHANGED work
          \/ \E c \in products :
               Result(c, CanonicalValues(c), work[1].plain * work[o].plain)

\* try_mul_dual_symmetric, which refuses operands below the full level
MulDualSymmetric(o) ==
  /\ o \in DOMAIN work
  /\ CtLevel(work[1]) = FullLevel /\ CtLevel(work[o]) = FullLevel
  /\ Plans(dual.main, dual.t)
  /\ Step([op |-> "symmetric", values |-> <<work[1].value, work[o].value>>])
  /\ \E c \in SymmetricProduct(work[1].c, work[o].c) :
       Result(c, CanonicalValues(c), work[1].plain * work[o].plain)

DualNext ==
  \/ GenerateDualKeys
  \/ \E m \in {1, dual.t - 1}, draw \in Draws : EncryptDual(m, draw)
  \/ \E o \in 1 .. 2, sign \in {1, -1} : AddDual(o, sign)
  \/ NegateDual
  \/ AddPlainDual(dual.t - 1)
  \/ MulPlainDual(dual.t - 1)
  \/ ModSwitchDown
  \/ \E o \in 1 .. 2 : MulDualPublic(o)
  \/ \E o \in 1 .. 2 : MulDualSymmetric(o)

DualSpec == DualInit /\ [][DualNext]_dualVars

-----------------------------------------------------------------------------
(* What it is to mean, in the integers.                                     *)

PhaseOf(integers) == Plus(integers[1], Negacyclic(integers[2], dualSk))

\* Whether two polynomials are the same modulo the modulus of a level
SameAt(level, a, b) == Mod(a, ModulusAt(level)) = Mod(b, ModulusAt(level))

\* The tensor of the last product, every coefficient divided to the nearest
RoundedTensor(values, numerator, denominator) ==
  LET whole == TensorOf(values[1], values[2])
  IN  [e \in 1 .. 3 |-> [k \in Powers |-> Quotient(numerator * whole[e][k], denominator)]]

\* ... and read with the secret
ReadWithSecret(parts) ==
  Plus(Plus(parts[1], Negacyclic(parts[2], dualSk)),
       Negacyclic(parts[3], Negacyclic(dualSk, dualSk)))

\* The error that the key adds, digit by digit
KeyError(poly) ==
  LET canonical == Mod(poly, ModulusAt(FullLevel))
      digits(j) == [k \in Powers |-> (canonical[k] \div 2 ^ (DigitBits * (j - 1))) % 2 ^ DigitBits]
      at(k) == LET term(j) == Negacyclic(digits(j), dualTape[j + 1].error)[k]
               IN  SumOver(1 .. Digits, term)
  IN  [k \in Powers |-> at(k)]

LiftOf(integers) ==
  [e \in 1 .. 2 |-> [k \in Powers |-> Nearest0(integers[e][k], ModulusAt(FullLevel))]]

\* The anchors that are read tell this integer with room to spare.
InReach(x) ==
  AbsValue(x \div ModulusAt(FullLevel)) < Product(ReadAnchors) \div 2 - Proximity

\* A public product is made from the tensor of the very integers behind the
\* residues, divided by Delta to the nearest.
PublicIsExact ==
  last.op = "public" /\ last.full =>
    LET whole == TensorOf(last.values[1], last.values[2])
        inReach == \A e \in 1 .. 3, k \in Powers : InReach(whole[e][k])
        parts == RoundedTensor(last.values, 1, ModulusAt(FullLevel) \div dual.t)
    IN  /\ last.refused => ~ inReach \/ ~ AuditPasses(FullLevel)
        /\ Utilization(FullLevel) < 80 => inReach
        /\ ~ last.refused /\ (inReach \/ Len(dual.anchors) > AnchorsRead) =>
             SameAt(FullLevel, PhaseOf(work[1].value),
                    Plus(ReadWithSecret(parts), Minus(KeyError(parts[3]))))

SymmetricIsExact ==
  last.op = "symmetric" =>
    SameAt(FullLevel, PhaseOf(work[1].value),
           ReadWithSecret(RoundedTensor(<<LiftOf(last.values[1]), LiftOf(last.values[2])>>,
                                        dual.t, ModulusAt(FullLevel))))

DropIsExact ==
  last.op = "drop" =>
    LET d == dual.main[last.level]
        scaled == [k \in Powers |-> d * PhaseOf(work[1].value)[k] - PhaseOf(last.value)[k]]
    IN  \A k \in Powers :
          2 * Nearest0(scaled[k], ModulusAt(last.level)) \in -((d + 1) * (N + 1)) .. (d + 1) * (N + 1)

\* The error of a ciphertext at its own level
ErrorOf(w) ==
  Nearest0(PhaseOf(w.value)[0] - w.plain * (ModulusAt(CtLevel(w)) \div dual.t),
           ModulusAt(CtLevel(w)))

FreshIsSmall ==
  last.op = "encrypt" => ErrorOf(work[Len(work)]) \in -((2 * N + 1) * Eta) .. (2 * N + 1) * Eta

\* Within the radius the plaintext comes out, with a margin that is true up to
\* the remainder of the modulus.
DecodesWithinRadius(w) ==
  LET q == ModulusAt(CtLevel(w))
      error == AbsValue(ErrorOf(w))
      answer == DecryptDual(w.c)
  IN  2 * dual.t * (error + (q % dual.t)) < q =>
        /\ answer.value = w.plain
        /\ AbsValue(answer.margin - ((q \div dual.t) \div 2 - error)) <= (q % dual.t)

\* The two tracks tell the same integers after every operation, at every
\* level; and what is computed through them is exact: a product is the tensor
\* of those integers, far wider than the modulus, divided by Delta to the
\* nearest, less the error of the evaluation key, or it is refused, and
\* refused only where the anchors cannot tell its windings or the capacity
\* audit fails; dropping a prime costs its rounding; and a ciphertext within
\* the radius decrypts (rns_fhe.rs mul_dual_public, try_mul_dual_symmetric,
\* mod_switch_down_dual, decrypt_dual_with_diagnostics).
DualTracksStayExact ==
  /\ \A o \in DOMAIN work :
       /\ \A e \in 1 .. 2 : work[o].c[e] = InLanes(CtLevel(work[o]), work[o].value[e])
       /\ DecodesWithinRadius(work[o])
  /\ PublicIsExact /\ SymmetricIsExact /\ DropIsExact /\ FreshIsSmall

\* Checked decryption of a ciphertext at the full level answers with the
\* plaintext or reports that the noise budget is exhausted; it does not answer
\* with another one (rns_fhe.rs try_decrypt_dual).
ExhaustionIsReported ==
  \A o \in DOMAIN work :
    CtLevel(work[o]) = FullLevel =>
      \/ DecryptDual(work[o].c).margin < 0
      \/ DecryptDual(work[o].c).value = work[o].plain

=============================================================================
