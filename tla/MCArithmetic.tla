---------------------------- MODULE MCArithmetic ----------------------------
(* For TLC: the arithmetic that the rest stands on, one part of it at a time. *)
EXTENDS GearStack, PhaseClock, Winding, DualTrack

VARIABLE part

allVars ==
  <<stackVars, extensionVars, multiplyVars, windVars, successorVars, clockVars, dualVars>>

ThreeGears == {<<3, 4, 5>>, <<13, 5>>}
AtCapacity == {<<13, 15>>}
SmallInputs == {-3, 0, 1, 2, 5}

\* Plain and centered extension, with a rounding where the main moduli are odd
SmallConversions ==
  {<<<<3, 5, 7>>, <<4, 11>>>>, <<<<9, 5>>, <<7>>>>, <<<<13, 15, 7>>, <<64>>>>,
   <<<<4, 9>>, <<5, 6>>>>}

\* A small pair of families, an adjacent one, one whose modulus nearly fills the width 
\* and whose capacity exceeds it, and one that is refused
SmallFamilies ==
  {<<<<3, 5>>, <<8>>>>, <<<<3, 4>>, <<13>>>>, <<<<7>>, <<59, 61>>>>, <<<<3, 5>>, <<6>>>>}

\* All of the small capacities, and the integers around the width and around
\* the largest capacity
Samples == 0 .. 155 \cup 4080 .. 4110 \cup 10785 .. 10800 \cup 25185 .. 25192
SmallPayloads == {<<3>>, <<2, 3>>}
ScalePairs == {<<3, 5>>, <<2, 7>>}

\* The first leaves room for a certified product, the second has three lanes,
\* the third needs the wide pool.
SmallSystems == {<<<<37, 61>>, 3>>, <<<<5, 13, 17>>, 2>>, <<<<37, 61>>, 5>>}
AnchorPrimes == <<373, 53>>
WidePrimes == <<41, 53, 29>>

Poly(a, b) == [k \in Powers |-> IF k = 0 THEN a ELSE b]
TernarySecrets == {Poly(1, 1), Poly(1, -1)}

\* Mixed errors, and the largest ones
KeyTapes ==
  {[d \in 1 .. 9 |-> [mask  |-> Poly(97 * d * d + 5, 31 * d + 11),
                      error |-> Poly(((d + 1) % 3) - 1, (d % 3) - 1)]],
   [d \in 1 .. 9 |-> [mask |-> Poly(1009 * d, 77 - d), error |-> Poly(1, 1)]]}
EncryptionDraws ==
  {[u |-> Poly(1, 1), e1 |-> Poly(1, 1), e2 |-> Poly(1, 1)],
   [u |-> Poly(1, -1), e1 |-> Poly(-1, 0), e2 |-> Poly(0, -1)]}

\* Both ends of the centered range of 37 * 61
ExtremeImports ==
  {<<Poly(1128, 1128), Poly(1128, 1128)>>, <<Poly(1129, 1129), Poly(1128, 1128)>>,
   <<Poly(1128, 0), Poly(1129, 1)>>}

\* Phase clocks.  The first reads every source whose error is at most 1 with
\* one trit, the second exact sources with two, both in a boot ring over
\* another modulus; the last goes round with two clients and four bundles.  The
\* third, whose windows overlap, is refused.
BootPair == <<4129, 4513>>
PairProduct == 4129 * 4513
Bundle(client, family, registered) ==
  [client |-> client, family |-> family, registered |-> registered]
OneBundle == {Bundle(1, 1, TRUE)}
FourBundles ==
  {Bundle(1, 1, TRUE), Bundle(2, 1, TRUE), Bundle(1, 2, TRUE), Bundle(1, 1, FALSE)}

Clock(main, error, weight, coordinate, secrets, bundles) ==
  [main |-> main, boot |-> BootPair, t |-> 3, error |-> error, weight |-> weight,
   coordinate |-> coordinate, secrets |-> secrets, bundles |-> bundles]
Source(kind, phase, mask, bound) ==
  [kind |-> kind, owner |-> 1, phase |-> phase, mask |-> mask, bound |-> bound]

SmallClocks ==
  {<<Clock(<<13>>, 1, 1, 3, <<s>>, OneBundle),
     {Source("raw", Poly(p, r), Poly(a, a), 1) : p, r \in {0, 4, 9}, a \in 0 .. 12}>> :
   s \in {Poly(0, 0), Poly(1, 0), Poly(-1, 0), Poly(0, 1), Poly(0, -1)}}
  \cup
  {<<Clock(<<13>>, 0, 2, 5, <<s>>, OneBundle),
     {Source("raw", Poly(0, 0), Poly(a, b), 0) : a, b \in 0 .. 12}>> : s \in TernarySecrets}
  \cup
  {<<Clock(<<13>>, 6, 1, 3, <<Poly(1, 0)>>, OneBundle),
     {Source("raw", Poly(p, p), Poly(a, a), 6) : p, a \in 0 .. 12}>>}
  \cup
  {<<Clock(BootPair, 2500000, 1, 3, <<Poly(0, 1), Poly(-1, 0)>>, FourBundles),
     {Source("main", Poly(p, 0), Poly(a, 12345), 700000) :
        p \in {233000, 6011000, 12422669},
        a \in {PairProduct \div 2, PairProduct \div 2 + 1, PairProduct - 1}}>>}

FamilySecrets ==
  <<[k \in 0 .. 15 |-> ((k * k) % 3) - 1], [k \in 0 .. 15 |-> ((7 * k) % 3) - 1]>>
OneMask == {[k \in 0 .. 15 |-> 99991 * k * k + 1234567]}

\* As large as they may be: all of one sign, and mixed
Steady(n, v) == [k \in 0 .. n - 1 |-> v]
Mixed(n) == [k \in 0 .. n - 1 |-> IF k % 2 = 0 THEN 1 ELSE -1]
LargestSwitches ==
  {[plus |-> Steady(16, 1), minus |-> Steady(16, -1), trace |-> Steady(16, 1),
    back |-> Steady(2, 1)],
   [plus |-> Mixed(16), minus |-> Steady(16, 1), trace |-> Mixed(16), back |-> Mixed(2)]}

\* Dual-track systems: one inside 80 percent of its capacity, one whose sixth
\* anchor is not read but compared, one near its capacity without such an
\* anchor, and one beyond it
DualSystem(anchors, t, strict) ==
  [main |-> <<5, 17, 29>>, anchors |-> anchors, t |-> t, strict |-> strict]
SmallDuals ==
  {DualSystem(<<13, 37, 41, 53, 61>>, 3, TRUE),
   DualSystem(<<7, 11, 13, 3, 19, 23>>, 5, FALSE),
   DualSystem(<<7, 11, 13, 3, 19>>, 3, FALSE),
   DualSystem(<<7, 11, 13, 3, 2>>, 3, FALSE)}
MixedDraws ==
  {[d \in 1 .. 5 |-> [mask  |-> Poly(700 + 3 * d, 31 * d),
                      error |-> Poly(((d + 1) % 3) - 1, (d % 3) - 1)]]}

Some(S) == CHOOSE x \in S : TRUE

\* Every part is in one of its initial states; those that are not run are all
\* in the same one, and a clock that is not run is not set up.
Still ==
  /\ part # "stack" => basis = NewBasis(Some(Bases))
  /\ part # "extension" => conversion = Some(Conversions) /\ integer = 0
  /\ part # "winding" => families = Some(Families) /\ number = 0
  /\ part # "successor" => payload = Some(Payloads) /\ source = 0 /\ successor = 0
  /\ part # "product" =>
       /\ plan = NewPlan(Some(Systems)[1], Some(Systems)[2])
       /\ sk = Some(Secrets) /\ tape = Some(Tapes)
  /\ part # "dual" => dual = Some(DualSystems) /\ dualTape = Some(DualTapes)
  /\ dualSk = Poly(1, -1)

MCInit ==
  /\ part \in {"stack", "extension", "product", "winding", "successor", "clock", "dual"}
  /\ Still
  /\ StackInit /\ ExtensionInit /\ MultiplyInit /\ WindInit /\ SuccessorInit /\ DualInit
  /\ IF part = "clock" THEN ClockInit
     ELSE clock = <<>> /\ errors = <<>> /\ item = [kind |-> "none"]

MCNext ==
  /\ \/ part = "stack" /\ StackNext
     \/ part # "stack" /\ UNCHANGED stackVars
  /\ \/ part = "extension" /\ Convert
     \/ part # "extension" /\ UNCHANGED extensionVars
  /\ \/ part = "product" /\ MultiplyNext
     \/ part # "product" /\ UNCHANGED multiplyVars
  /\ \/ part = "winding" /\ Wind
     \/ part # "winding" /\ UNCHANGED windVars
  /\ \/ part = "successor" /\ Verify
     \/ part # "successor" /\ UNCHANGED successorVars
  /\ \/ part = "clock" /\ ClockNext
     \/ part # "clock" /\ UNCHANGED clockVars
  /\ \/ part = "dual" /\ DualNext
     \/ part # "dual" /\ UNCHANGED dualVars
  /\ UNCHANGED part

MCSpec == MCInit /\ [][MCNext]_<<part, allVars>>
=============================================================================
