----------------------------- MODULE PhaseClock -----------------------------
(***************************************************************************)
(* Refresh of a ciphertext without a secret: the phase clock               *)
(* (crates/nine65/src/arithmetic/phase_clock_plan.rs, ops/                 *)
(* public_phase_clock.rs, ops/phase_clock_return.rs, ops/rns_galois.rs)    *)
(* and its admission into the certified evaluator (ops/                    *)
(* cram_main_phase_clock.rs).                                              *)
(*                                                                         *)
(* A source coefficient with t * phase = Q * (A + K) + g is read as the    *)
(* sum A of its rounded components, computed under encryption, and the     *)
(* carry K, looked up by turning a table by encrypted trits.  Where only   *)
(* the phase of a boot ciphertext counts, it stands for the ciphertext; a  *)
(* key switch then adds an error as large as its bound.  Rounding of       *)
(* public residues is what ConversionsAreExact shows it to be, switching   *)
(* what FoldingAddsOnlyNoise, in ExactMultiplication, says of folding.     *)
(***************************************************************************)
EXTENDS ExactMultiplication

CONSTANTS
  BootN,         \* degree of the boot ring
  SetUps,        \* clocks with their keys, and the ciphertexts to refresh
  BootSecrets,   \* of the boot families, ternary
  Switches,      \* signs of the errors that key switches add
  Masks,         \* second components of ciphertexts that come out
  MaxRefreshes

ASSUME PhaseClockAssumption ==
  /\ BootN \in {TwoTo[e] : e \in 1 .. 20} /\ BootN >= N
  /\ MaxRefreshes \in Nat
  /\ \A family \in DOMAIN BootSecrets : BootSecrets[family] \in [0 .. BootN - 1 -> -1 .. 1]
  /\ Switches \subseteq [plus  : [0 .. BootN - 1 -> -1 .. 1], minus : [0 .. BootN - 1 -> -1 .. 1],
                         trace : [0 .. BootN - 1 -> -1 .. 1], back  : [Powers -> -1 .. 1]]
  /\ Masks \subseteq [0 .. BootN - 1 -> Int]

VARIABLES
  clock,    \* PhaseClockPlan with its contexts and the clients' secrets
  errors,
  item      \* the ciphertext on its way round

clockVars == <<clock, errors, item>>

BootPowers == 0 .. BootN - 1
Ratio == BootN \div N
Turn == 2 * BootN

Magnitude(v) == IF v < 0 THEN -v ELSE v

-----------------------------------------------------------------------------
(* The plan: windows around the chart's centers, and the signed lookup.     *)

TwiceWindow(c) ==
  (2 * Turn * c.error + Product(c.main) - 1) \div Product(c.main)
    + c.coordinate * (c.weight + 1)

CenteredMod(v, t) == LET r == v % t IN IF r > t \div 2 THEN r - t ELSE r

\* What the chart's nearest center says at a rotation, if it is near enough
Near(c, rotation) ==
  LET location == c.coordinate * rotation
      nearest  == (location + BootN) \div Turn
      distance == location - nearest * Turn
      window   == TwiceWindow(c)
  IN  IF 2 * distance \in -window .. window THEN {CenteredMod(nearest, c.coordinate)} ELSE {}

\* Each rotation is also set by its antipode.
Readings(c, rotation) ==
  Near(c, rotation) \cup {-v : v \in Near(c, (rotation + BootN) % Turn)}

Lookup(c, rotation) ==
  IF Readings(c, rotation) = {} THEN 0 ELSE CHOOSE v \in Readings(c, rotation) : TRUE

\* Variant: windows may touch.
Accepts_AnyWindow(c) ==
  /\ c.t >= 3 /\ c.t % 2 = 1
  /\ c.weight <= N
  /\ c.coordinate >= 3 /\ c.coordinate % 2 = 1

\* PhaseClockPlan::new, for an odd coordinate
Accepts(c) ==
  /\ c.t >= 3 /\ c.t % 2 = 1
  /\ c.weight <= N
  /\ c.coordinate >= 3 /\ c.coordinate % 2 = 1
  /\ \A i \in DOMAIN c.main :
       /\ c.main[i] > c.t /\ (c.main[i] - 1) % (2 * N) = 0
       /\ \A j \in 1 .. i - 1 : c.main[i] # c.main[j]
  /\ c.error <= Product(c.main) \div 2
  /\ TwiceWindow(c) < BootN
  /\ \A r \in 0 .. Turn - 1 : Cardinality(Readings(c, r)) <= 1

-----------------------------------------------------------------------------
(* The evaluator, with its bounds in units of |t * phase - Q * message|.    *)

SwitchNoise(n, moduli) ==
  LET digits(i) == GadgetDigits(moduli[i])
  IN  n * Eta * (TwoTo[BaseBits] - 1) * SumOver(DOMAIN moduli, digits)

\* The table as a polynomial, divided by the degree for the trace
TableMessage(c) ==
  LET share(v) == CenteredMod(v * ModInverse(BootN % c.t, c.t), c.t)
  IN  [k \in BootPowers |->
         IF k = 0 THEN share(Lookup(c, 0)) ELSE share(-Lookup(c, BootN - k))]

ControlsBound(c) == SwitchNoise(BootN, c.boot) * c.t * 4 * N

\* Variant: the trace is taken to leave the error of the lookup as it is.
LookupBound_OneTerm(c) ==
  LET largest == Max({Magnitude(TableMessage(c)[k]) : k \in BootPowers})
  IN  (Product(c.boot) % c.t) * largest + ControlsBound(c)
        + SwitchNoise(BootN, c.boot) * c.t * (BootN - 1)

\* Every one of its doublings doubles the error, and adds that of a switch.
LookupBound(c) ==
  LET largest == Max({Magnitude(TableMessage(c)[k]) : k \in BootPowers})
  IN  ((Product(c.boot) % c.t) * largest + ControlsBound(c)) * BootN
        + SwitchNoise(BootN, c.boot) * c.t * (BootN - 1)

\* PublicPhaseClockEvaluator::new, and the chart that transduction asks for
Builds(c) ==
  /\ Coprime(BootN, c.t)
  /\ 2 * LookupBound(c) < Product(c.boot)
  /\ c.coordinate > c.weight + 1

\* sigma, X becomes X ^ g: which coefficient goes where
Image(g) ==
  [k \in BootPowers |->
     LET j == CHOOSE i \in BootPowers : (i * g) % BootN = k
     IN  [from |-> j, sign |-> IF (j * g) % Turn < BootN THEN 1 ELSE -1]]

\* The Galois keys, one for every doubling of the trace
GaloisKeys ==
  [k \in 1 .. BitLength(BootN) - 1 |-> Image(1 + BootN \div TwoTo[k - 1])]

\* What plan and evaluator keep: q and bootQ are the moduli.
NewClock(c) ==
  [main    |-> c.main, boot |-> c.boot, t |-> c.t, error |-> c.error,
   weight  |-> c.weight, coordinate |-> c.coordinate,
   secrets |-> c.secrets, bundles |-> c.bundles,
   q       |-> Product(c.main), bootQ |-> Product(c.boot),
   message |-> TableMessage(c),
   lookup  |-> LookupBound(c), controls |-> ControlsBound(c),
   switch  |-> SwitchNoise(BootN, c.boot), trace |-> GaloisKeys,
   back    |-> SwitchNoise(N, c.main)]

-----------------------------------------------------------------------------
(* The boot ring: phases of ciphertexts.                                    *)

\* shift: multiplication by X ^ e in a ring of degree n
ShiftBy(n, poly, e) ==
  [k \in 0 .. n - 1 |->
     LET from == (k - e) % (2 * n) IN IF from < n THEN poly[from] ELSE -poly[from - n]]

\* external_product, for one coefficient: an encrypted bit times a ciphertext
\* takes two switches.
ExternalProduct(c, v, selected, sign) == (IF selected THEN v ELSE 0) + 2 * c.switch * sign

Cmux(c, acc, amount, selected, sign) ==
  LET turned == ShiftBy(BootN, acc, amount)
  IN  Computed([k \in BootPowers |->
         (acc[k] + ExternalProduct(c, turned[k] - acc[k], selected, sign[k])) % c.bootQ])

\* Variant: the other sign turns the same way.
StepByTrit_SameWay(c, acc, amount, trit, e) ==
  Cmux(c, Cmux(c, acc, amount, trit = 1, e.plus), amount, trit = -1, e.minus)

\* Both turns are made, whatever the encrypted trit.
StepByTrit(c, acc, amount, trit, e) ==
  Cmux(c, Cmux(c, acc, amount, trit = 1, e.plus), -amount, trit = -1, e.minus)

\* The sum over all automorphisms
Trace(c, poly, e) ==
  LET double(acc, image) ==
        Computed([k \in BootPowers |->
           (acc[k] + image[k].sign * acc[image[k].from] + c.switch * e.trace[k]) % c.bootQ])
      after[i \in 0 .. Len(c.trace)] ==
        IF i = 0 THEN poly ELSE double(after[i - 1], c.trace[i])
  IN  after[Len(c.trace)]

\* evaluate: LUT(initial + sum of rotations * secret), in the constant term
Evaluated(c, initial, rotations, secret, e) ==
  LET delta == c.bootQ \div c.t
      table == [k \in BootPowers |-> (c.message[k] * delta) % c.bootQ]
      after[l \in 0 .. N] ==
        IF l = 0 THEN ShiftBy(BootN, table, initial)
        ELSE StepByTrit(c, after[l - 1], rotations[l - 1], secret[l - 1], e)
  IN  Trace(c, after[N], e)

-----------------------------------------------------------------------------
(* Transduction of a source ciphertext.                                     *)

RoundTo(target, q, x) == (target * x + q \div 2) \div q

\* Variant: the coarse part is reduced before it is taken off.
Projected_Reduced(c, x) ==
  LET q == c.q
      delta == RoundTo(c.t * Turn, q, x) - Turn * (RoundTo(c.t, q, x) % c.t)
  IN  (delta + c.coordinate \div 2) \div c.coordinate

\* project: the rotation that a public residual stands for
Projected(c, x) ==
  LET q == c.q
      delta == RoundTo(c.t * Turn, q, x) - Turn * RoundTo(c.t, q, x)
  IN  (delta + c.coordinate \div 2) \div c.coordinate

Coarse(c, x) == CenteredMod(RoundTo(c.t, c.q, x), c.t)

\* The coefficient of c1 that meets coefficient l of the secret, signed
Meeting(j, l, f) == IF l > j THEN -f[(j + N - l) % N] ELSE f[(j + N - l) % N]

\* transduce_coefficient: the phase and its bound
Transduced(c, ct, j, secret, e) ==
  LET turns == [k \in Powers |-> Projected(c, ct[2][k])]
      coarse == [k \in Powers |-> Coarse(c, ct[2][k])]
      rotations == [l \in Powers |-> Meeting(j, l, turns)]
      parts == [l \in Powers |-> Meeting(j, l, coarse)]
      carry == Evaluated(c, Projected(c, ct[1][j]), rotations, secret, e)
      delta == c.bootQ \div c.t
      constant(v, k) == IF k = 0 THEN v * delta ELSE 0
      term(l, k) == ExternalProduct(c, constant(parts[l], k), secret[l] = 1, e.plus[k])
                      - ExternalProduct(c, constant(parts[l], k), secret[l] = -1, e.minus[k])
      first == Coarse(c, ct[1][j])
      size(l) == Magnitude(parts[l])
      norm == Magnitude(first) + SumOver(Powers, size)
  IN  [phase |-> [k \in BootPowers |->
                    LET at(l) == term(l, k)
                    IN  (carry[k] + constant(first, k) + SumOver(Powers, at)) % c.bootQ],
       bound |-> c.lookup + (c.bootQ % c.t) * norm + c.controls]

\* transduce_polynomial: the coefficients side by side, their errors added
Assembled(part) ==
  LET moved == [j \in Powers |-> ShiftBy(BootN, part[j].phase, j * Ratio)]
      bound(j) == part[j].bound
  IN  [phase |-> [k \in BootPowers |->
                    LET at(j) == moved[j][k] IN SumOver(Powers, at)],
       bound |-> SumOver(Powers, bound)]

-----------------------------------------------------------------------------
(* Return to the work ring.                                                 *)

Times(n, a, b) ==
  [k \in 0 .. n - 1 |->
     LET term(i) == IF i <= k THEN a[i] * b[k - i] ELSE (-(a[i] * b[n + k - i]))
     IN  SumOver(0 .. n - 1, term)]

PhaseIn(n, q, ct, s) ==
  LET product == Times(n, ct[2], s) IN [k \in 0 .. n - 1 |-> (ct[1][k] + product[k]) % q]

\* A ciphertext with this phase
WithPhase(n, q, phase, mask, s) ==
  LET a == [k \in 0 .. n - 1 |-> mask[k] % q]
      product == Times(n, a, s)
  IN  <<[k \in 0 .. n - 1 |-> (phase[k] - product[k]) % q], a>>

Block(poly, offset) == [k \in Powers |-> poly[k * Ratio + offset]]

\* Variant: residue classes meet without the X that they make together.
Component_NoShift(poly, r) == Block(poly, r)

Component(poly, r) == IF r = 0 THEN Block(poly, 0) ELSE ShiftBy(N, Block(poly, r), 1)

\* Block zero of the phase: class r of c1 meets class Ratio - r of the secret.
ReturnedPhase(c, ct, bootSecret, e) ==
  LET target(r) == Block(bootSecret, IF r = 0 THEN 0 ELSE Ratio - r)
      met == [r \in 0 .. Ratio - 1 |-> Times(N, Component(ct[2], r), target(r))]
  IN  [k \in Powers |->
         LET at(r) == met[r][k] + c.back * e.back[k]
         IN  (Block(ct[1], 0)[k] + SumOver(0 .. Ratio - 1, at)) % c.q]

ReturnBound(c) == c.back * c.t * Ratio

\* output_error_bound
HasReturn(c, bound) ==
  /\ c.boot = c.main
  /\ bound <= c.bootQ \div 2
  /\ bound + ReturnBound(c) <= c.bootQ \div 2

-----------------------------------------------------------------------------
(* The machine.                                                             *)

None == 0

\* What the phase says, and how far it is from saying it
ReadFrom(c, phase) ==
  LET q == c.q IN [k \in Powers |-> RoundTo(c.t, q, phase[k]) % c.t]
Off(q, t, phase, message) == Nearest0(t * phase - q * message, t * q)

WorkPhase(c, client, ct) == PhaseIn(N, c.q, ct, c.secrets[client])

Weight(s) == Cardinality({k \in Powers : s[k] # 0})

\* Of a source, what a clock for its key has to bring out
Promise(c, client, ct) ==
  LET phase == WorkPhase(c, client, ct)
      message == ReadFrom(c, phase)
  IN  IF \A k \in Powers :
           Off(c.q, c.t, phase[k], message[k]) \in -c.error .. c.error
      THEN {message} ELSE {}

Item(kind, owner, family, ct, bound, message, refreshes) ==
  [kind |-> kind, owner |-> owner, family |-> family, ct |-> ct, bound |-> bound,
   message |-> message, refreshes |-> refreshes]

\* What constructors and key generation may be given
Proposals ==
  [main : Seq(Nat \ {0}), boot : Seq(Nat \ {0}), t : Nat, error : Nat, weight : Nat,
   coordinate : Nat, secrets : Seq(Ternary),
   bundles : SUBSET [client : Nat, family : DOMAIN BootSecrets, registered : BOOLEAN]]

Sources == [kind : {"raw", "main"}, owner : Nat, phase : [Powers -> Nat],
            mask : Polynomials, bound : Nat]

\* Ciphertexts of the certified evaluator are within their bound, which is
\* what CertificateCoversNoise says of it; others are anything.
ASSUME SetUpsAssumption ==
  \A p \in SetUps :
    /\ p[1] \in Proposals
    /\ \A b \in p[1].bundles : b.client \in DOMAIN p[1].secrets
    /\ p[2] \subseteq Sources
    /\ \A s \in p[2] :
         LET q == Product(p[1].main)
             t == p[1].t
         IN  /\ s.owner \in DOMAIN p[1].secrets
             /\ \A k \in Powers : s.phase[k] < q
             /\ s.kind = "main" =>
                  \A k \in Powers :
                    Off(q, t, s.phase[k], RoundTo(t, q, s.phase[k]) % t) \in -s.bound .. s.bound

ClockInit ==
  /\ \E p \in SetUps :
       /\ Accepts(p[1]) /\ Builds(p[1])
       /\ clock = NewClock(p[1])
       /\ \E s \in p[2] : LET phase == s.phase
                              ct == WithPhase(N, clock.q, phase, s.mask,
                                              clock.secrets[s.owner])
                          IN  item = Item(s.kind, s.owner, None, ct, s.bound,
                                          {ReadFrom(clock, phase)}, 0)
  /\ errors \in Switches

\* The key of a secret heavier than the plan allows is not made.
HasKeys(b) == Weight(clock.secrets[b.client]) <= clock.weight

Domain(b) == IF b.registered THEN b.client ELSE None

\* add in the certified evaluator, of a ciphertext to itself: the error grows
Doubled ==
  /\ item.kind = "main"
  /\ 4 * item.bound < clock.q
  /\ item' = [item EXCEPT
       !.ct = <<Mod([k \in Powers |-> 2 * item.ct[1][k]], clock.q),
                Mod([k \in Powers |-> 2 * item.ct[2][k]], clock.q)>>,
       !.bound = 2 * item.bound,
       !.message = {[k \in Powers |-> (2 * m[k]) % clock.t] : m \in item.message}]
  /\ UNCHANGED <<clock, errors>>

\* Variant: the plan's allowance is not compared with the bound.
Ingress_AnyBound ==
  /\ item.kind = "main"
  /\ item' = [item EXCEPT !.kind = "input"]
  /\ UNCHANGED <<clock, errors>>

\* phase_clock_input, whose check of the allowance check_clock repeats
Ingress ==
  /\ item.kind = "main"
  /\ item.bound <= clock.error
  /\ item' = [item EXCEPT !.kind = "input"]
  /\ UNCHANGED <<clock, errors>>

\* The assembled output under a bundle's boot key
Outer(b, source, message, mask) ==
  LET secret == clock.secrets[b.client]
      part == Computed([j \in Powers |-> Transduced(clock, item.ct, j, secret, errors)])
      sealed(out) == Item("outer", source, b.family,
        WithPhase(BootN, clock.bootQ, out.phase, mask, BootSecrets[b.family]),
        out.bound, message, item.refreshes + 1)
  IN  sealed(Assembled(part))

\* The sum of all bounds is the largest that is compared.
Fits(outer) == 2 * outer.bound < clock.bootQ

\* Variant: any bundle serves.
MatchesDomain_Any(b) == TRUE

\* check_clock, for an input
MatchesDomain(b) == Domain(b) = item.owner

\* CramMainPhaseClockInput::transduce_polynomial: the output is marked with
\* the source's domain.
TransduceInput(b, mask) ==
  /\ item.kind = "input" /\ HasKeys(b)
  /\ MatchesDomain(b)
  /\ item.refreshes < MaxRefreshes
  /\ LET outer == Outer(b, item.owner, item.message, mask)
     IN  Fits(outer) /\ item' = outer
  /\ UNCHANGED <<clock, errors>>

\* transduce_polynomial on a ciphertext that somebody brings: no receipt, and
\* nothing is promised of what does not meet the plan's condition.
TransduceRaw(b, mask) ==
  /\ item.kind \in {"raw", "main", "returned"} /\ HasKeys(b)
  /\ item.refreshes < MaxRefreshes
  /\ LET outer == Outer(b, None, Promise(clock, b.client, item.ct), mask)
     IN  Fits(outer) /\ item' = outer
  /\ UNCHANGED <<clock, errors>>

\* PhaseClockReturnEvaluator::apply, and what comes out of it
ReturnsTo(b, outer) ==
  /\ b.family = outer.family
  /\ outer.owner # None => outer.owner = Domain(b)
  /\ HasReturn(clock, outer.bound)

Returned(b, outer, mask) ==
  LET phase == ReturnedPhase(clock, outer.ct, BootSecrets[b.family], errors)
  IN  [outer EXCEPT
         !.kind = "returned",
         !.ct = WithPhase(N, clock.q, phase, mask, clock.secrets[b.client]),
         !.bound = @ + ReturnBound(clock)]

Return(b, mask) ==
  /\ item.kind = "outer" /\ HasKeys(b)
  /\ ReturnsTo(b, item)
  /\ item' = Returned(b, item, mask)
  /\ UNCHANGED <<clock, errors>>

\* refresh_returned: there and back with the same bundle
RefreshReturned(b, mask) ==
  /\ item.kind = "returned" /\ HasKeys(b)
  /\ item.family = b.family
  /\ item.bound <= clock.error
  /\ item.owner # None => item.owner = Domain(b)
  /\ item.refreshes < MaxRefreshes
  /\ LET promised == IF item.owner = None THEN Promise(clock, b.client, item.ct)
                     ELSE item.message
         outer == Outer(b, item.owner, promised, mask)
     IN  /\ Fits(outer) /\ ReturnsTo(b, outer)
         /\ item' = Returned(b, outer, mask)
  /\ UNCHANGED <<clock, errors>>

\* Variant: no receipt is asked for.
HasReceipt_None(client) == TRUE

HasReceipt(client) == item.owner = client

\* admit_phase_clock_return
Admit(client) ==
  /\ item.kind = "returned"
  /\ HasReceipt(client)
  /\ 2 * item.bound < clock.q
  /\ item' = [item EXCEPT !.kind = "main", !.owner = client, !.family = None]
  /\ UNCHANGED <<clock, errors>>

ClockNext ==
  \/ Doubled
  \/ Ingress
  \/ \E b \in clock.bundles, mask \in Masks :
       \/ TransduceInput(b, mask) \/ TransduceRaw(b, mask)
       \/ Return(b, mask) \/ RefreshReturned(b, mask)
  \/ \E client \in DOMAIN clock.secrets : Admit(client)

ClockSpec == ClockInit /\ [][ClockNext]_clockVars

-----------------------------------------------------------------------------
(* Properties.                                                              *)

\* A refresh changes the noise of a ciphertext and never its message: what
\* comes out of the clock carries, in the coefficients it was embedded in,
\* the message of a source within the plan's allowance, and what is back in
\* the work ring or admitted by an evaluator decrypts to it under that
\* evaluator's own secret; the error is at most the bound that is carried
\* along, for every secret of the weight allowed, for components at the ends
\* of their range, and whichever bundles a ciphertext meets on its way
\* (phase_clock_plan.rs 1-8; cram_main_phase_clock.rs "cannot reset an error
\* bound").
RefreshKeepsMessage ==
  /\ item.kind \in {"main", "input"} =>
       /\ item.message # {}
       /\ LET phase == WorkPhase(clock, item.owner, item.ct)
              m == CHOOSE m \in item.message : TRUE
          IN  \A k \in Powers :
                Off(clock.q, clock.t, phase[k], m[k]) \in -item.bound .. item.bound
  /\ item.kind = "outer" /\ item.message # {} =>
       LET phase == PhaseIn(BootN, clock.bootQ, item.ct, BootSecrets[item.family])
           m == CHOOSE m \in item.message : TRUE
           embedded(k) == IF k % Ratio = 0 THEN m[k \div Ratio] ELSE 0
       IN  \A k \in BootPowers :
             Off(clock.bootQ, clock.t, phase[k], embedded(k)) \in -item.bound .. item.bound
  /\ item.kind = "returned" /\ item.owner # None =>
       LET phase == WorkPhase(clock, item.owner, item.ct)
           m == CHOOSE m \in item.message : TRUE
       IN  \A k \in Powers :
             Off(clock.q, clock.t, phase[k], m[k]) \in -item.bound .. item.bound
=============================================================================
