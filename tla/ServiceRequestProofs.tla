------------------------ MODULE ServiceRequestProofs ------------------------
(***************************************************************************)
(* Proofs about RateLimiter, for any number of threads, tenants and        *)
(* minutes and any limit, and about ServiceRequest, for any environment,   *)
(* any number of threads, tenants, secrets, sessions and wires.            *)
(***************************************************************************)
EXTENDS ServiceRequest, FheServer, FiniteSetTheorems, TLAPS

\* What a window counts has been admitted in the window's minute.
CountsAreAdmitted ==
  \A t \in Tenant :
    windows[t] # None => windows[t].requests <= admitted[t][windows[t].minute]

IInv == TypeOK /\ CountsAreAdmitted

WindowRecord == [minute : 0 .. minute, requests : 0 .. Limit]
ArrivalRecord == [tenant : Tenant, minute : 0 .. minute]

USE RateLimiterAssumption

\* The window a request is decided in is one of the request's own minute, and
\* what it counts has been admitted.
LEMMA WindowOfRequest ==
  ASSUME IInv, NEW t \in Tenant, NEW m \in 0 .. minute
  PROVE  /\ Window(t, m) \in WindowRecord
         /\ Window(t, m).minute = m
         /\ Window(t, m).requests <= admitted[t][m]
<1>1. /\ windows[t] \in WindowRecord \cup {None}
      /\ admitted[t][m] \in Nat
      /\ minute \in Nat
  BY DEF IInv, TypeOK, WindowRecord, Minute
<1>2. CASE windows[t] # None /\ windows[t].minute = m
  <2>1. Window(t, m) = windows[t]
    BY <1>2 DEF Window
  <2>2. windows[t].requests <= admitted[t][windows[t].minute]
    BY <1>2 DEF IInv, CountsAreAdmitted
  <2> QED BY <1>1, <1>2, <2>1, <2>2
<1>3. CASE ~ (windows[t] # None /\ windows[t].minute = m)
  <2>1. Window(t, m) = [minute |-> m, requests |-> 0]
    BY <1>3 DEF Window
  <2> QED BY <1>1, <2>1 DEF WindowRecord
<1> QED BY <1>2, <1>3

LEMMA Initially == Init => IInv
  BY DEF Init, IInv, TypeOK, CountsAreAdmitted, Minute

LEMMA NextMinuteKeeps == IInv /\ NextMinute => IInv'
<1> SUFFICES ASSUME IInv, NextMinute PROVE IInv'
  OBVIOUS
<1>1. minute \in Nat /\ minute' \in Minute /\ 0 .. minute \subseteq 0 .. minute'
  BY DEF IInv, TypeOK, NextMinute, Minute
<1>2. TypeOK'
  BY <1>1 DEF IInv, TypeOK, NextMinute
<1>3. CountsAreAdmitted'
  BY DEF IInv, CountsAreAdmitted, NextMinute
<1> QED BY <1>2, <1>3 DEF IInv

LEMMA ReadClockKeeps ==
  ASSUME IInv, NEW w \in Worker, NEW t \in Tenant, ReadClock(w, t)
  PROVE  IInv'
<1>1. TypeOK'
  BY DEF IInv, TypeOK, ReadClock, Minute
<1>2. CountsAreAdmitted'
  BY DEF IInv, CountsAreAdmitted, ReadClock
<1> QED BY <1>1, <1>2 DEF IInv

\* What a thread decides about a request of tenant t in minute m, spelled out.
Admits(t, m) ==
  /\ Window(t, m).requests < Limit
  /\ windows' = [windows EXCEPT ![t] =
                   [minute |-> m, requests |-> Window(t, m).requests + 1]]
  /\ admitted' = [admitted EXCEPT ![t] =
                    [admitted[t] EXCEPT ![m] = admitted[t][m] + 1]]

Refuses(t, m) ==
  /\ Window(t, m).requests = Limit
  /\ windows' = [windows EXCEPT ![t] = [minute |-> m, requests |-> Limit]]
  /\ admitted' = admitted

Decided(w, t, m) ==
  /\ arrival[w] = [tenant |-> t, minute |-> m]
  /\ arrival' = [arrival EXCEPT ![w] = None]
  /\ UNCHANGED <<minute, requests>>
  /\ Admits(t, m) \/ Refuses(t, m)

LEMMA Decision ==
  ASSUME IInv, NEW w \in Worker, Decide(w)
  PROVE  \E t \in Tenant, m \in 0 .. minute : Decided(w, t, m)
<1>1. arrival[w] \in ArrivalRecord
  BY DEF IInv, TypeOK, ArrivalRecord, Decide
<1>2. PICK t \in Tenant, m \in 0 .. minute : arrival[w] = [tenant |-> t, minute |-> m]
  BY <1>1 DEF ArrivalRecord
<1> DEFINE window == Window(t, m)
<1>3. window \in WindowRecord /\ window.minute = m
  BY WindowOfRequest
<1>4. /\ window = [minute |-> m, requests |-> window.requests]
      /\ window.requests \in 0 .. Limit
  BY <1>3 DEF WindowRecord
<1>5. CASE HasAllowance(window)
  <2>1. /\ windows' = [windows EXCEPT ![t] = [window EXCEPT !.requests = @ + 1]]
        /\ admitted' = [admitted EXCEPT ![t][m] = @ + 1]
    BY <1>2, <1>5 DEF Decide
  <2>2. [window EXCEPT !.requests = @ + 1] = [minute |-> m, requests |-> window.requests + 1]
    BY <1>4
  <2>3. Admits(t, m)
    BY <1>5, <2>1, <2>2 DEF Admits, HasAllowance
  <2> QED BY <1>2, <2>3 DEF Decide, Decided
<1>6. CASE ~ HasAllowance(window)
  <2>1. windows' = [windows EXCEPT ![t] = window] /\ admitted' = admitted
    BY <1>2, <1>6 DEF Decide
  <2>2. window.requests = Limit
    BY <1>4, <1>6 DEF HasAllowance
  <2>3. Refuses(t, m)
    BY <1>4, <2>1, <2>2 DEF Refuses
  <2> QED BY <1>2, <2>3 DEF Decide, Decided
<1> QED BY <1>5, <1>6

LEMMA DecideKeeps == ASSUME IInv, NEW w \in Worker, Decide(w) PROVE IInv'
<1>1. PICK t \in Tenant, m \in 0 .. minute : Decided(w, t, m)
  BY Decision
<1>2. /\ Window(t, m).requests \in 0 .. Limit
      /\ Window(t, m).requests <= admitted[t][m]
  BY WindowOfRequest DEF WindowRecord
<1>3. PICK k \in 0 .. Limit : windows' = [windows EXCEPT ![t] = [minute |-> m, requests |-> k]]
  BY <1>1, <1>2 DEF Decided, Admits, Refuses
<1>4. /\ TypeOK
      /\ m \in Minute
      /\ [minute |-> m, requests |-> k] \in WindowRecord
  BY DEF IInv, TypeOK, Minute, WindowRecord
<1>5. admitted' \in [Tenant -> [Minute -> Nat]]
  <2>1. admitted \in [Tenant -> [Minute -> Nat]]
    BY <1>4 DEF TypeOK
  <2> DEFINE one == [admitted[t] EXCEPT ![m] = admitted[t][m] + 1]
  <2>2. one \in [Minute -> Nat]
    BY <1>4, <2>1
  <2>3. admitted' = admitted \/ admitted' = [admitted EXCEPT ![t] = one]
    BY <1>1 DEF Decided, Admits, Refuses
  <2> HIDE DEF one
  <2> QED BY <2>1, <2>2, <2>3
<1>6. TypeOK'
  BY <1>1, <1>3, <1>4, <1>5 DEF TypeOK, WindowRecord, Decided
<1>7. CountsAreAdmitted'
  <2> SUFFICES ASSUME NEW u \in Tenant, windows'[u] # None
               PROVE  windows'[u].requests <= admitted'[u][windows'[u].minute]
    BY DEF CountsAreAdmitted
  <2>1. CASE u = t
    BY <1>1, <1>2, <1>4, <2>1 DEF TypeOK, Decided, Admits, Refuses
  <2>2. CASE u # t
    BY <1>1, <1>3, <1>4, <2>2 DEF IInv, CountsAreAdmitted, TypeOK, Decided, Admits, Refuses
  <2> QED BY <2>1, <2>2
<1> QED BY <1>6, <1>7 DEF IInv

LEMMA StepKeeps == IInv /\ [Next]_vars => IInv'
<1> SUFFICES ASSUME IInv, [Next]_vars PROVE IInv'
  OBVIOUS
<1>1. CASE Next
  BY <1>1, NextMinuteKeeps, ReadClockKeeps, DecideKeeps DEF Next
<1>2. CASE UNCHANGED vars
  BY <1>2 DEF vars, IInv, TypeOK, CountsAreAdmitted
<1> QED BY <1>1, <1>2

THEOREM Invariance == Spec => []IInv
  BY Initially, StepKeeps, PTL DEF Spec

\* The types of the limiter's state, for every value of the constants.
THEOREM TypeCorrect == Spec => []TypeOK
  BY Invariance, PTL DEF IInv

\* No tenant is ever refused before it has used up its own limit in the minute
\* of the request, with any number of threads and whatever their order.
THEOREM RefusalIsJustified == Spec => RefusedOnlyAtLimit
<1> DEFINE OnlyAtLimit ==
      \A w \in Worker :
        arrival[w] # None /\ arrival'[w] = None /\ admitted' = admitted =>
          admitted[arrival[w].tenant][arrival[w].minute] >= Limit
<1>1. IInv /\ [Next]_vars => [OnlyAtLimit]_vars
  <2> SUFFICES ASSUME IInv, Next, NEW w \in Worker,
                      arrival[w] # None, arrival'[w] = None, admitted' = admitted
               PROVE  admitted[arrival[w].tenant][arrival[w].minute] >= Limit
    OBVIOUS
  <2>1. Decide(w)
    <3>1. CASE NextMinute
      BY <3>1 DEF NextMinute
    <3>2. ASSUME NEW v \in Worker, NEW t \in Tenant, ReadClock(v, t) PROVE FALSE
      BY <3>2 DEF ReadClock, IInv, TypeOK
    <3>3. ASSUME NEW v \in Worker, Decide(v), v # w PROVE FALSE
      BY <3>3 DEF Decide, IInv, TypeOK
    <3> QED BY <3>1, <3>2, <3>3 DEF Next
  <2>2. PICK t \in Tenant, m \in 0 .. minute : Decided(w, t, m)
    BY <2>1, Decision
  <2>3. admitted \in [Tenant -> [Minute -> Nat]] /\ m \in Minute
    BY DEF IInv, TypeOK, Minute
  <2>4. Window(t, m).requests = Limit
    BY <2>2, <2>3 DEF Decided, Admits, Refuses
  <2>5. Limit <= admitted[t][m]
    BY <2>4, WindowOfRequest
  <2> QED BY <2>2, <2>3, <2>5 DEF Decided
<1> QED BY <1>1, Invariance, PTL DEF Spec, RefusedOnlyAtLimit

-----------------------------------------------------------------------------
(* The overshoot.  Threads that read the clock before minute m and have not *)
(* decided yet can each reopen an earlier window once; threads that read it *)
(* in minute m and decide after it are each admitted at most once more.     *)

W == Cardinality(Worker)

Early(t, m) == {w \in Worker : arrival[w] # None /\ arrival[w].tenant = t
                                                /\ arrival[w].minute < m}
Late(t, m)  == {w \in Worker : arrival[w] # None /\ arrival[w].tenant = t
                                                /\ arrival[w].minute = m}

Counted(t, m) == IF windows[t] # None /\ windows[t].minute = m
                 THEN windows[t].requests ELSE 0

Unopened(t, m) == admitted[t][m] = 0

Opening(t, m) ==
  admitted[t][m] <= Limit * (W - Cardinality(Early(t, m)) - 1) + Counted(t, m)

Closing(t, m) ==
  minute > m /\ admitted[t][m] + Cardinality(Late(t, m)) <= Limit * W + W - 1

ExcessInv ==
  \A t \in Tenant, m \in Minute :
    /\ minute < m => admitted[t][m] = 0
    /\ Unopened(t, m) \/ Opening(t, m) \/ Closing(t, m)

LEMMA Product ==
  ASSUME NEW x \in Int
  PROVE  /\ Limit * x \in Int
         /\ Limit * (x + 1) = Limit * x + Limit
  OBVIOUS

LEMMA ProductGrows ==
  ASSUME NEW x \in Int, NEW y \in Int, x <= y
  PROVE  Limit * x <= Limit * y
  OBVIOUS

LEMMA Sizes ==
  ASSUME NEW t, NEW m
  PROVE  /\ W \in Nat \ {0}
         /\ IsFiniteSet(Early(t, m)) /\ Cardinality(Early(t, m)) \in 0 .. W
         /\ IsFiniteSet(Late(t, m))  /\ Cardinality(Late(t, m)) \in 0 .. W
<1>1. W \in Nat /\ W # 0
  BY FS_CardinalityType, FS_EmptySet DEF W
<1>2. Early(t, m) \subseteq Worker /\ Late(t, m) \subseteq Worker
  BY DEF Early, Late
<1> QED BY <1>1, <1>2, FS_Subset, FS_CardinalityType DEF W

\* A thread outside a set of threads leaves it smaller than the whole.
LEMMA SmallerWithout ==
  ASSUME NEW S \in SUBSET Worker, NEW w \in Worker, w \notin S
  PROVE  Cardinality(S) <= W - 1
<1>1. S \subseteq Worker \ {w}
  OBVIOUS
<1>2. IsFiniteSet(Worker \ {w}) /\ Cardinality(Worker \ {w}) = W - 1
  BY FS_RemoveElement DEF W
<1> QED BY <1>1, <1>2, FS_Subset

\* Deciding takes one thread out of the sets it was in.
LEMMA SetsAfterDecision ==
  ASSUME IInv, NEW w \in Worker, NEW t \in Tenant, NEW m \in 0 .. minute,
         Decided(w, t, m), NEW u \in Tenant, NEW k \in Minute
  PROVE  /\ Early(u, k)' = Early(u, k) \ {w}
         /\ Late(u, k)' = Late(u, k) \ {w}
         /\ w \in Early(u, k) <=> u = t /\ m < k
         /\ w \in Late(u, k) <=> u = t /\ m = k
<1>1. /\ arrival \in [Worker -> ArrivalRecord \cup {None}]
      /\ arrival' = [arrival EXCEPT ![w] = None]
      /\ arrival[w] = [tenant |-> t, minute |-> m]
  BY DEF IInv, TypeOK, Decided, ArrivalRecord
<1>2. [tenant |-> t, minute |-> m] # None
  <2>1. [tenant |-> t, minute |-> m] \in [tenant : Tenant, minute : Nat]
    BY DEF IInv, TypeOK, Minute
  <2> QED BY <2>1
<1>3. Early(u, k)' = Early(u, k) \ {w} /\ Late(u, k)' = Late(u, k) \ {w}
  BY <1>1 DEF Early, Late
<1> QED BY <1>1, <1>2, <1>3 DEF Early, Late

LEMMA SizeAfterRemoval ==
  ASSUME NEW S \in SUBSET Worker, NEW w
  PROVE  Cardinality(S \ {w}) = IF w \in S THEN Cardinality(S) - 1 ELSE Cardinality(S)
<1>1. IsFiniteSet(S)
  BY FS_Subset
<1>2. CASE w \in S
  BY <1>1, <1>2, FS_RemoveElement
<1>3. CASE w \notin S
  <2>1. S \ {w} = S
    BY <1>3
  <2> QED BY <2>1, <1>3
<1> QED BY <1>2, <1>3

LEMMA CountedType ==
  ASSUME IInv, NEW t \in Tenant, NEW m \in Minute
  PROVE  /\ Counted(t, m) \in 0 .. Limit
         /\ m > minute => Counted(t, m) = 0
         /\ admitted[t][m] \in Nat
<1>1. windows[t] \in [minute : 0 .. minute, requests : 0 .. Limit] \cup {None}
  BY DEF IInv, TypeOK
<1> QED BY <1>1 DEF Counted, IInv, TypeOK, Minute

\* The case of the decided request's own tenant and a minute k.
LEMMA DecisionKeepsExcess ==
  ASSUME IInv, ExcessInv, NEW w \in Worker, NEW t \in Tenant, NEW m \in 0 .. minute,
         Decided(w, t, m), NEW k \in Minute
  PROVE  /\ minute' < k => admitted'[t][k] = 0
         /\ Unopened(t, k)' \/ Opening(t, k)' \/ Closing(t, k)'
<1> DEFINE A == admitted[t][k]
           E == Cardinality(Early(t, k))
           L == Cardinality(Late(t, k))
           C == Counted(t, k)
<1>1. /\ A \in Nat /\ C \in 0 .. Limit /\ (k > minute => C = 0)
      /\ W \in Nat \ {0} /\ E \in 0 .. W /\ L \in 0 .. W
      /\ minute \in Nat /\ k \in Nat /\ m \in Nat /\ m <= minute
      /\ minute' = minute /\ Limit \in Nat \ {0}
  <2>1. A \in Nat /\ C \in 0 .. Limit /\ (k > minute => C = 0)
    BY CountedType
  <2>2. W \in Nat \ {0} /\ E \in 0 .. W /\ L \in 0 .. W
    BY Sizes
  <2>3. /\ minute \in Nat /\ k \in Nat /\ m \in Nat /\ m <= minute
        /\ minute' = minute /\ Limit \in Nat \ {0}
    BY DEF IInv, TypeOK, Minute, Decided
  <2> QED BY <2>1, <2>2, <2>3
<1> DEFINE P == Limit * (W - E - 1)
<1>p. P \in Int
  BY <1>1
<1>2. /\ Cardinality(Early(t, k))' = IF m < k THEN E - 1 ELSE E
      /\ Cardinality(Late(t, k))' = IF m = k THEN L - 1 ELSE L
      /\ m # k => L <= W - 1
      /\ ~ (m < k) => E <= W - 1
  <2>1. Early(t, k) \in SUBSET Worker /\ Late(t, k) \in SUBSET Worker
    BY DEF Early, Late
  <2> QED BY <2>1, SetsAfterDecision, SizeAfterRemoval, SmallerWithout
<1>3. /\ windows \in [Tenant -> WindowRecord \cup {None}]
      /\ admitted \in [Tenant -> [Minute -> Nat]]
      /\ m \in Minute
  BY DEF IInv, TypeOK, Minute, WindowRecord
<1>4. [minute |-> m, requests |-> Window(t, m).requests + 1] # None
      /\ [minute |-> m, requests |-> Limit] # None
  <2>1. Window(t, m).requests \in Nat
    BY WindowOfRequest DEF WindowRecord
  <2>2. /\ [minute |-> m, requests |-> Window(t, m).requests + 1] \in [minute : Nat, requests : Nat]
        /\ [minute |-> m, requests |-> Limit] \in [minute : Nat, requests : Nat]
    BY <1>1, <2>1
  <2> QED BY <2>2
<1>5. CASE m = k
  <2>1. Window(t, m).requests = C
    BY <1>5 DEF Window, Counted
  <2>2. CASE Admits(t, m)
    <3>1. Counted(t, k)' = C + 1 /\ admitted'[t][k] = A + 1
      BY <1>3, <1>4, <1>5, <2>1, <2>2 DEF Admits, Counted
    <3>2. CASE Unopened(t, k)
      <4>1. Limit * (W - E - 1) >= 0
        BY <1>1, <1>2, <1>5
      <4>2. A + 1 <= P + (C + 1)
        BY <1>1, <1>p, <3>2, <4>1 DEF Unopened
      <4>3. Opening(t, k)'
        BY <1>2, <1>5, <3>1, <4>2 DEF Opening
      <4> QED BY <1>1, <1>5, <4>3
    <3>3. CASE Opening(t, k)
      <4>1. A <= P + C
        BY <3>3 DEF Opening
      <4>2. A + 1 <= P + (C + 1)
        BY <1>1, <1>p, <4>1
      <4>3. Opening(t, k)'
        BY <1>2, <1>5, <3>1, <4>2 DEF Opening
      <4> QED BY <1>1, <1>5, <4>3
    <3>4. CASE Closing(t, k)
      BY <1>1, <1>2, <1>5, <3>1, <3>4, Product DEF Closing
    <3> QED BY <1>1, <1>5, <3>2, <3>3, <3>4 DEF ExcessInv
  <2>3. CASE Refuses(t, m)
    <3>1. Counted(t, k)' >= C /\ Counted(t, k)' \in Nat /\ admitted'[t][k] = A
      BY <1>1, <1>3, <1>4, <1>5, <2>1, <2>3 DEF Refuses, Counted
    <3>2. CASE Unopened(t, k)
      BY <3>1, <3>2 DEF Unopened
    <3>3. CASE Opening(t, k)
      <4>1. A <= P + C
        BY <3>3 DEF Opening
      <4>2. A <= P + Counted(t, k)'
        BY <1>1, <1>p, <3>1, <4>1
      <4>3. Opening(t, k)'
        BY <1>2, <1>5, <3>1, <4>2 DEF Opening
      <4> QED BY <1>1, <1>5, <4>3
    <3>4. CASE Closing(t, k)
      BY <1>1, <1>2, <1>5, <3>1, <3>4, Product DEF Closing
    <3> QED BY <1>1, <1>5, <3>2, <3>3, <3>4 DEF ExcessInv
  <2> QED BY <2>2, <2>3 DEF Decided
<1>6. CASE m # k
  <2>1. Counted(t, k)' = 0 /\ admitted'[t][k] = A
    BY <1>3, <1>4, <1>6 DEF Decided, Admits, Refuses, Counted
  <2>2. minute' < k => admitted'[t][k] = 0
    BY <1>1, <2>1 DEF ExcessInv
  <2>3. CASE Unopened(t, k)
    BY <2>1, <2>2, <2>3 DEF Unopened
  <2>4. CASE Closing(t, k)
    BY <1>1, <1>2, <1>6, <2>1, <2>2, <2>4, Product DEF Closing
  <2>5. CASE Opening(t, k) /\ m < k
    <3>1. A <= Limit * (W - (E - 1) - 1)
      <4>1. A <= P + C
        BY <2>5 DEF Opening
      <4>2. W - E - 1 \in Int /\ W - (E - 1) - 1 = (W - E - 1) + 1
        BY <1>1
      <4>3. Limit * ((W - E - 1) + 1) = P + Limit
        BY <4>2, Product
      <4>4. A <= P + Limit
        BY <1>1, <1>p, <4>1
      <4> QED BY <4>2, <4>3, <4>4
    <3> QED BY <1>1, <1>2, <2>1, <2>2, <2>5, <3>1 DEF Opening
  <2>6. CASE Opening(t, k) /\ m > k
    <3>1. A <= Limit * W
      <4>1. A <= Limit * (W - E - 1) + Limit
        BY <1>1, <2>6, Product DEF Opening
      <4>2. A <= Limit * (W - E)
        BY <1>1, <4>1, Product
      <4>3. Limit * (W - E) <= Limit * W /\ Limit * (W - E) \in Int /\ Limit * W \in Int
        BY <1>1, ProductGrows
      <4> HIDE DEF E
      <4> QED BY <1>1, <4>2, <4>3
    <3>2. minute' > k
      BY <1>1, <2>6
    <3>3. Cardinality(Late(t, k))' = L /\ L \in Int /\ L <= W - 1
      BY <1>1, <1>2, <2>6
    <3>4. Limit * W \in Int /\ A \in Int /\ W \in Int
      BY <1>1
    <3>5. A + L <= Limit * W + W - 1
      <4> HIDE DEF A, L
      <4> QED BY <3>1, <3>3, <3>4
    <3>6. Closing(t, k)'
      BY <2>1, <3>2, <3>3, <3>5 DEF Closing
    <3> QED BY <2>2, <3>6
  <2>7. m < k \/ m > k
    BY <1>1, <1>6
  <2> QED BY <2>3, <2>4, <2>5, <2>6, <2>7 DEF ExcessInv
<1> QED BY <1>5, <1>6

LEMMA DecideKeepsExcess ==
  ASSUME IInv, ExcessInv, NEW w \in Worker, Decide(w)
  PROVE  ExcessInv'
<1>1. PICK t \in Tenant, m \in 0 .. minute : Decided(w, t, m)
  BY Decision
<1> SUFFICES ASSUME NEW u \in Tenant, NEW k \in Minute
             PROVE  /\ minute' < k => admitted'[u][k] = 0
                    /\ Unopened(u, k)' \/ Opening(u, k)' \/ Closing(u, k)'
  BY DEF ExcessInv
<1>2. CASE u = t
  BY <1>1, <1>2, DecisionKeepsExcess
<1>3. CASE u # t
  <2>1. Early(u, k) \in SUBSET Worker /\ Late(u, k) \in SUBSET Worker
    BY DEF Early, Late
  <2>2. /\ Cardinality(Early(u, k))' = Cardinality(Early(u, k))
        /\ Cardinality(Late(u, k))' = Cardinality(Late(u, k))
    BY <1>1, <1>3, <2>1, SetsAfterDecision, SizeAfterRemoval
  <2>3. windows'[u] = windows[u] /\ admitted'[u] = admitted[u] /\ minute' = minute
    BY <1>1, <1>3 DEF Decided, Admits, Refuses, IInv, TypeOK
  <2>4. Counted(u, k)' = Counted(u, k)
    BY <2>3 DEF Counted
  <2> QED BY <2>2, <2>3, <2>4 DEF ExcessInv, Unopened, Opening, Closing
<1> QED BY <1>2, <1>3

LEMMA ReadClockKeepsExcess ==
  ASSUME IInv, ExcessInv, NEW w \in Worker, NEW t \in Tenant, ReadClock(w, t)
  PROVE  ExcessInv'
<1> SUFFICES ASSUME NEW u \in Tenant, NEW k \in Minute
             PROVE  /\ minute' < k => admitted'[u][k] = 0
                    /\ Unopened(u, k)' \/ Opening(u, k)' \/ Closing(u, k)'
  BY DEF ExcessInv
<1>1. UNCHANGED <<minute, windows, admitted>>
  BY DEF ReadClock
<1>2. CASE minute < k
  BY <1>1, <1>2 DEF ExcessInv, Unopened
<1>3. CASE ~ (minute < k)
  <2>1. Early(u, k)' = Early(u, k)
    BY <1>3 DEF ReadClock, Early, IInv, TypeOK, Minute
  <2>2. Counted(u, k)' = Counted(u, k)
    BY <1>1 DEF Counted
  <2>3. minute > k => Late(u, k)' = Late(u, k)
    BY <1>3 DEF ReadClock, Late, IInv, TypeOK, Minute
  <2> QED BY <1>1, <1>3, <2>1, <2>2, <2>3 DEF ExcessInv, Unopened, Opening, Closing
<1> QED BY <1>2, <1>3

LEMMA NextMinuteKeepsExcess ==
  ASSUME IInv, ExcessInv, NextMinute
  PROVE  ExcessInv'
<1> SUFFICES ASSUME NEW u \in Tenant, NEW k \in Minute
             PROVE  /\ minute' < k => admitted'[u][k] = 0
                    /\ Unopened(u, k)' \/ Opening(u, k)' \/ Closing(u, k)'
  BY DEF ExcessInv
<1>1. UNCHANGED <<windows, arrival, admitted>> /\ minute' = minute + 1 /\ minute \in Nat
  BY DEF NextMinute, IInv, TypeOK, Minute
<1>2. /\ Early(u, k)' = Early(u, k)
      /\ Late(u, k)' = Late(u, k)
      /\ Counted(u, k)' = Counted(u, k)
  BY <1>1 DEF Early, Late, Counted
<1> QED BY <1>1, <1>2 DEF ExcessInv, Unopened, Opening, Closing, Minute

LEMMA ExcessStep == IInv /\ ExcessInv /\ [Next]_vars => ExcessInv'
<1> SUFFICES ASSUME IInv, ExcessInv, [Next]_vars PROVE ExcessInv'
  OBVIOUS
<1>1. CASE Next
  BY <1>1, NextMinuteKeepsExcess, ReadClockKeepsExcess, DecideKeepsExcess DEF Next
<1>2. CASE UNCHANGED vars
  BY <1>2 DEF vars, ExcessInv, Unopened, Opening, Closing, Early, Late, Counted
<1> QED BY <1>1, <1>2

LEMMA ExcessIsBounded == IInv /\ ExcessInv => OvershootIsBounded
<1> SUFFICES ASSUME IInv, ExcessInv, NEW t \in Tenant, NEW m \in Minute
             PROVE  admitted[t][m] <= Limit * W + W - 1
  BY DEF OvershootIsBounded, W
<1> DEFINE E == Cardinality(Early(t, m))
<1>1. /\ W \in Nat \ {0} /\ E \in 0 .. W /\ Cardinality(Late(t, m)) \in 0 .. W
      /\ Counted(t, m) \in 0 .. Limit /\ admitted[t][m] \in Nat /\ Limit \in Nat \ {0}
  BY Sizes, CountedType
<1>2. Limit * W \in Nat
  BY <1>1
<1>3. CASE Unopened(t, m)
  BY <1>1, <1>2, <1>3 DEF Unopened
<1>4. CASE Opening(t, m)
  <2>1. admitted[t][m] <= Limit * (W - E - 1) + Limit
    BY <1>1, <1>4, Product DEF Opening
  <2>2. admitted[t][m] <= Limit * (W - E)
    BY <1>1, <2>1, Product
  <2>3. Limit * (W - E) <= Limit * W
    BY <1>1, ProductGrows
  <2> QED BY <1>1, <1>2, <2>2, <2>3, Product
<1>5. CASE Closing(t, m)
  BY <1>1, <1>2, <1>5 DEF Closing
<1> QED BY <1>3, <1>4, <1>5 DEF ExcessInv

\* With any number of threads, the requests a tenant gets through in one minute
\* exceed neither Limit per thread nor, by more than one per further thread,
\* that; with one thread the limit is exact.
THEOREM OvershootBounded == Spec => []OvershootIsBounded
<1>1. Init => ExcessInv
  BY DEF Init, ExcessInv, Unopened
<1> QED BY <1>1, Invariance, ExcessStep, ExcessIsBounded, PTL DEF Spec

-----------------------------------------------------------------------------
(* The service.  Each of its steps is one of the limiter or leaves the      *)
(* limiter alone.                                                           *)

LEMMA ServiceStepRates == [ServiceNext]_serviceVars => [Next]_vars
<1> SUFFICES ASSUME ServiceNext PROVE Next \/ UNCHANGED vars
  BY DEF serviceVars, vars
<1>1. ASSUME NEW w \in Worker, Handle(w) PROVE UNCHANGED vars
  BY <1>1 DEF Handle, HandlerRefuses, CreateSession, DeleteSession, Encrypt,
              Evaluate, Issue, Decrypt, Answer
<1>2. ASSUME NEW i \in SessionId, Expire(i) PROVE UNCHANGED vars
  BY <1>2 DEF Expire
<1>3. ASSUME NEW w \in Worker, NEW t \in Tenant, NEW token \in Token, Arrive(w, t, token)
      PROVE  ReadClock(w, t)
  BY <1>3 DEF Arrive
<1>4. ASSUME NEW w \in Worker, Rate(w) PROVE Decide(w)
  BY <1>4 DEF Rate
<1> QED BY <1>1, <1>2, <1>3, <1>4 DEF ServiceNext, Next

\* The service uses the limiter as it is meant to be used, so that what is
\* proved of the limiter holds within the service.
THEOREM ServiceRates == ServiceSpec => Spec
<1>1. ServiceInit => Init
  BY DEF ServiceInit
<1> QED BY <1>1, ServiceStepRates, PTL DEF ServiceSpec, Spec

-----------------------------------------------------------------------------
(* Isolation of tenants.                                                    *)

Requests == [tenant : Tenant, token : Token, presented : Token]

Receipts == [secret : Token, session : SessionId, wire : Wire]

ServiceType ==
  /\ request \in [Worker -> Requests \cup {None}]
  /\ owner \in [SessionId -> Tenant \cup {None}]
  /\ issued \in [SessionId -> SUBSET Wire]
  /\ creator \in [SessionId -> Token \cup {None}]
  /\ disclosed \subseteq [receipt : Receipts, gate : Token]

\* A request in a thread carries the secret of the tenant it speaks for.
Authentic ==
  \A w \in Worker :
    request[w] # None => request[w].presented = TokenFor(config.mapping, request[w].tenant)

\* A session was created with the secret of its owner.
Founded ==
  \A i \in SessionId :
    owner[i] # None => creator[i] = TokenFor(config.mapping, owner[i]) /\ creator[i] # None

\* What a registry knows was given out to the session's creator.
Known ==
  \A i \in SessionId : \A c \in issued[i] :
    [secret |-> creator[i], session |-> i, wire |-> c] \in answered

\* A session that does not exist yet, or no longer, has issued nothing.
Blank == \A i \in SessionId : owner[i] = None => issued[i] = {}

ServiceInv == ServiceType /\ Authentic /\ Founded /\ Known /\ Blank /\ PlaintextsStayHome

USE ServiceRequestAssumption

LEMMA ServiceStarts == ServiceInit => ServiceInv
  BY DEF ServiceInit, ServiceInv, ServiceType, Authentic, Founded, Known, Blank,
         PlaintextsStayHome

\* A request that a handler works on may use its own tenant's sessions only,
\* and those were created with the secret it presents.
LEMMA FoundIsOwn ==
  ASSUME ServiceInv, NEW w \in Worker, NEW i \in SessionId, InHandler(w), Finds(w, i)
  PROVE  /\ request[w] \in Requests
         /\ owner[i] # None
         /\ creator[i] = request[w].presented
<1>1. request[w] \in Requests /\ request[w] # None
  BY DEF ServiceInv, ServiceType, InHandler
<1>2. owner[i] = request[w].tenant /\ request[w].tenant \in Tenant
  BY <1>1 DEF Finds, Requests
<1>3. owner[i] # None
  BY <1>2
<1>4. creator[i] = TokenFor(config.mapping, owner[i])
  BY <1>3 DEF ServiceInv, Founded
<1>5. request[w].presented = TokenFor(config.mapping, request[w].tenant)
  BY <1>1 DEF ServiceInv, Authentic
<1> QED BY <1>1, <1>2, <1>3, <1>4, <1>5

LEMMA ArriveKeepsHome ==
  ASSUME ServiceInv, NEW w \in Worker, NEW t \in Tenant, NEW token \in Token,
         config \in Configurations, Arrive(w, t, token)
  PROVE  ServiceInv'
<1>1. /\ config.internal \in Token
      /\ token = TokenFor(config.mapping, t)
      /\ request' = [request EXCEPT ![w] = Normalized(t, token)]
      /\ UNCHANGED <<config, owner, issued, creator, answered, disclosed>>
  BY DEF Arrive, Authorized, Matches, sessions, history
<1>2. Normalized(t, token) \in Requests
  BY <1>1 DEF Normalized, Requests
<1>3. ServiceType'
  BY <1>1, <1>2 DEF ServiceInv, ServiceType
<1>4. Authentic'
  BY <1>1 DEF ServiceInv, ServiceType, Authentic, Normalized
<1>5. (Founded /\ Known /\ Blank /\ PlaintextsStayHome)'
  BY <1>1 DEF ServiceInv, Founded, Known, Blank, PlaintextsStayHome
<1> QED BY <1>3, <1>4, <1>5 DEF ServiceInv

\* Ending a request, whether over the limit or answered, keeps the two facts
\* about requests.
LEMMA EndKeepsRequests ==
  ASSUME ServiceInv, NEW w \in Worker, config' = config,
         request' = [request EXCEPT ![w] = None] \/ request' = request
  PROVE  request' \in [Worker -> Requests \cup {None}] /\ Authentic'
  BY DEF ServiceInv, ServiceType, Authentic

LEMMA CreateKeepsHome ==
  ASSUME ServiceInv, NEW w \in Worker, NEW i \in SessionId, CreateSession(w, i)
  PROVE  ServiceInv'
<1>1. /\ request[w] # None /\ config' = config
      /\ request' = [request EXCEPT ![w] = None]
      /\ creator[i] = None
      /\ owner' = [owner EXCEPT ![i] = request[w].tenant]
      /\ creator' = [creator EXCEPT ![i] = request[w].presented]
      /\ UNCHANGED <<issued, answered, disclosed>>
  BY DEF CreateSession, Answer, InHandler
<1>2. /\ request[w] \in Requests
      /\ request[w].tenant \in Tenant /\ request[w].presented \in Token
      /\ request[w].presented = TokenFor(config.mapping, request[w].tenant)
  BY <1>1 DEF ServiceInv, ServiceType, Authentic, Requests
<1>3. owner[i] = None /\ issued[i] = {}
  BY <1>1 DEF ServiceInv, Founded, Blank
<1>4. ServiceType' /\ Authentic'
  BY <1>1, <1>2, EndKeepsRequests DEF ServiceInv, ServiceType
<1>5. Founded'
  BY <1>1, <1>2 DEF ServiceInv, ServiceType, Founded
<1>6. Known' /\ Blank'
  BY <1>1, <1>2, <1>3 DEF ServiceInv, ServiceType, Known, Blank
<1>7. PlaintextsStayHome'
  <2> SUFFICES ASSUME NEW d \in disclosed
               PROVE  d.receipt.secret = creator'[d.receipt.session]
    BY <1>1 DEF ServiceInv, PlaintextsStayHome
  <2>1. /\ d.receipt.secret = creator[d.receipt.session]
        /\ d.receipt.secret \in Token /\ d.receipt.session \in SessionId
    BY DEF ServiceInv, ServiceType, PlaintextsStayHome, Receipts
  <2>2. d.receipt.session # i
    BY <1>1, <2>1
  <2> QED BY <1>1, <2>1, <2>2 DEF ServiceInv, ServiceType
<1> QED BY <1>4, <1>5, <1>6, <1>7 DEF ServiceInv

\* Deleting or reaping a session forgets its owner and its registry together.
LEMMA ForgettingKeepsHome ==
  ASSUME ServiceInv, NEW i \in SessionId,
         owner' = [owner EXCEPT ![i] = None], issued' = [issued EXCEPT ![i] = {}],
         request' \in [Worker -> Requests \cup {None}], Authentic',
         UNCHANGED <<config, creator, answered, disclosed>>
  PROVE  ServiceInv'
<1>1. ServiceType'
  BY DEF ServiceInv, ServiceType
<1>2. (Founded /\ Known /\ Blank)'
  BY DEF ServiceInv, ServiceType, Founded, Known, Blank
<1>3. PlaintextsStayHome'
  BY DEF ServiceInv, PlaintextsStayHome
<1> QED BY <1>1, <1>2, <1>3 DEF ServiceInv

LEMMA IssueKeepsHome ==
  ASSUME ServiceInv, NEW w \in Worker, NEW i \in SessionId, NEW c \in Wire, Issue(w, i, c)
  PROVE  ServiceInv'
<1>1. /\ InHandler(w) /\ Finds(w, i) /\ config' = config
      /\ request' = [request EXCEPT ![w] = None]
      /\ issued' = [issued EXCEPT ![i] = issued[i] \cup {c}]
      /\ answered' = answered \cup {Receipt(w, i, c)}
      /\ UNCHANGED <<owner, creator, disclosed>>
  BY DEF Issue, Answer
<1>2. owner[i] # None /\ creator[i] = request[w].presented
  BY <1>1, FoundIsOwn
<1>3. ServiceType' /\ Authentic'
  BY <1>1, EndKeepsRequests DEF ServiceInv, ServiceType
<1>4. Founded' /\ Blank' /\ PlaintextsStayHome'
  BY <1>1, <1>2 DEF ServiceInv, ServiceType, Founded, Blank, PlaintextsStayHome
<1>5. Known'
  BY <1>1, <1>2 DEF ServiceInv, ServiceType, Known, Receipt
<1> QED BY <1>3, <1>4, <1>5 DEF ServiceInv

LEMMA DecryptKeepsHome ==
  ASSUME ServiceInv, NEW w \in Worker, NEW i \in SessionId, NEW c \in Wire,
         NEW token \in Token, Decrypt(w, i, c, token)
  PROVE  ServiceInv'
<1>1. /\ InHandler(w) /\ Finds(w, i) /\ c \in issued[i] /\ config' = config
      /\ request' = [request EXCEPT ![w] = None]
      /\ disclosed' = disclosed \cup {[receipt |-> Receipt(w, i, c), gate |-> token]}
      /\ UNCHANGED <<owner, issued, creator, answered>>
  BY DEF Decrypt, Answer, Importable, sessions
<1>2. config.enabled /\ token = config.decrypt /\ token # NoToken
  BY DEF Decrypt, DecryptAuthorized, Matches
<1>3. request[w] \in Requests /\ creator[i] = request[w].presented
  BY <1>1, FoundIsOwn
<1>4. Receipt(w, i, c) \in Receipts
  BY <1>3 DEF Receipt, Receipts, Requests
<1>5. Receipt(w, i, c) \in answered /\ Receipt(w, i, c).secret = creator[i]
      /\ Receipt(w, i, c).session = i
  BY <1>1, <1>3 DEF ServiceInv, Known, Receipt
<1>6. ServiceType' /\ Authentic'
  <2>1. request' \in [Worker -> Requests \cup {None}] /\ Authentic'
    BY <1>1, EndKeepsRequests
  <2>2. [receipt |-> Receipt(w, i, c), gate |-> token] \in [receipt : Receipts, gate : Token]
    BY <1>4
  <2> QED BY <1>1, <2>1, <2>2 DEF ServiceInv, ServiceType
<1>7. (Founded /\ Known /\ Blank)'
  BY <1>1 DEF ServiceInv, Founded, Known, Blank
<1>8. PlaintextsStayHome'
  BY <1>1, <1>2, <1>5 DEF ServiceInv, PlaintextsStayHome
<1> QED BY <1>6, <1>7, <1>8 DEF ServiceInv

LEMMA HandleKeepsHome ==
  ASSUME ServiceInv, NEW w \in Worker, Handle(w)
  PROVE  ServiceInv'
<1>1. CASE HandlerRefuses(w)
  <2>1. /\ config' = config /\ request' = [request EXCEPT ![w] = None]
        /\ UNCHANGED <<owner, issued, creator, answered, disclosed>>
    BY <1>1 DEF HandlerRefuses, Answer, sessions, history
  <2> QED BY <2>1, EndKeepsRequests DEF ServiceInv, ServiceType, Founded, Known, Blank,
                                        PlaintextsStayHome
<1>2. ASSUME NEW i \in SessionId, DeleteSession(w, i) PROVE ServiceInv'
  <2>1. /\ config' = config /\ request' = [request EXCEPT ![w] = None]
        /\ owner' = [owner EXCEPT ![i] = None] /\ issued' = [issued EXCEPT ![i] = {}]
        /\ UNCHANGED <<creator, answered, disclosed>>
    BY <1>2 DEF DeleteSession, Answer, history
  <2> QED BY <2>1, EndKeepsRequests, ForgettingKeepsHome
<1>3. ASSUME NEW i \in SessionId, NEW c \in Wire,
             Encrypt(w, i, c) \/ \E input \in Wire : Evaluate(w, i, input, c)
      PROVE  Issue(w, i, c)
  BY <1>3 DEF Encrypt, Evaluate
<1> QED BY <1>1, <1>2, <1>3, CreateKeepsHome, IssueKeepsHome, DecryptKeepsHome DEF Handle

LEMMA ServiceStepKeeps ==
  ServiceInv /\ config \in Configurations /\ [ServiceNext]_serviceVars
    => ServiceInv' /\ (config \in Configurations)'
<1> SUFFICES ASSUME ServiceInv, config \in Configurations, [ServiceNext]_serviceVars
             PROVE  ServiceInv' /\ config' = config
  OBVIOUS
<1>1. ASSUME \/ NextMinute /\ UNCHANGED <<config, request, sessions, history>>
             \/ UNCHANGED serviceVars
      PROVE  ServiceInv' /\ config' = config
  BY <1>1 DEF serviceVars, sessions, history, ServiceInv, ServiceType, Authentic, Founded,
              Known, Blank, PlaintextsStayHome
<1>2. ASSUME NEW w \in Worker, NEW t \in Tenant, NEW token \in Token, Arrive(w, t, token)
      PROVE  ServiceInv' /\ config' = config
  BY <1>2, ArriveKeepsHome DEF Arrive
<1>3. ASSUME NEW w \in Worker, Rate(w)
      PROVE  ServiceInv' /\ config' = config
  <2>1. /\ config' = config
        /\ request' = [request EXCEPT ![w] = None] \/ request' = request
        /\ UNCHANGED <<owner, issued, creator, answered, disclosed>>
    BY <1>3 DEF Rate, sessions, history
  <2> QED BY <2>1, EndKeepsRequests DEF ServiceInv, ServiceType, Founded, Known, Blank,
                                        PlaintextsStayHome
<1>4. ASSUME NEW w \in Worker, Handle(w)
      PROVE  ServiceInv' /\ config' = config
  <2>1. config' = config
    BY <1>4 DEF Handle, HandlerRefuses, CreateSession, DeleteSession, Encrypt,
                Evaluate, Issue, Decrypt, Answer
  <2> QED BY <1>4, <2>1, HandleKeepsHome
<1>5. ASSUME NEW i \in SessionId, Expire(i)
      PROVE  ServiceInv' /\ config' = config
  <2>1. /\ config' = config /\ request' = request
        /\ owner' = [owner EXCEPT ![i] = None] /\ issued' = [issued EXCEPT ![i] = {}]
        /\ UNCHANGED <<creator, answered, disclosed>>
    BY <1>5 DEF Expire, history
  <2>2. request' \in [Worker -> Requests \cup {None}] /\ Authentic'
    BY <2>1 DEF ServiceInv, ServiceType, Authentic
  <2> QED BY <2>1, <2>2, ForgettingKeepsHome
<1> QED BY <1>1, <1>2, <1>3, <1>4, <1>5 DEF ServiceNext

\* Whatever environment the service is started in and however many tenants,
\* threads and sessions there are: a plaintext only leaves through the enabled
\* route and only to the secret that created the session and received the wire.
THEOREM Isolation == ServiceSpec => []PlaintextsStayHome
<1>1. ServiceInit => ServiceInv /\ config \in Configurations
  BY ServiceStarts DEF ServiceInit
<1>2. ServiceInv => PlaintextsStayHome
  BY DEF ServiceInv
<1> QED BY <1>1, <1>2, ServiceStepKeeps, PTL DEF ServiceSpec

-----------------------------------------------------------------------------
(* The server process.                                                      *)

USE FheServerAssumption

Holding == Served \cup Accepted

\* The accept loop has one connection in hand at most; the count is that of
\* the connections that hold a slot; what it read when it counted the one in
\* hand is at least the number of threads, which can only have ended since.
SlotInv ==
  /\ stage \in [Connection -> Stages]
  /\ current \in Nat
  /\ \A c, d \in Accepted : c = d
  /\ Alive => active = Cardinality(Holding)
  /\ Accepted # {} => Cardinality(Served) <= current
  /\ ServedWithinLimit

LEMMA HolderSizes ==
  /\ IsFiniteSet(Served) /\ Cardinality(Served) \in Nat
  /\ IsFiniteSet(Accepted)
  /\ IsFiniteSet(Holding) /\ Cardinality(Holding) \in Nat
<1>1. Served \subseteq Connection /\ Accepted \subseteq Connection /\ Holding \subseteq Connection
  BY DEF Served, Accepted, Holding
<1> QED BY <1>1, FS_Subset, FS_CardinalityType

LEMMA ServerInitially == ServerInit => SlotInv
<1> SUFFICES ASSUME ServerInit PROVE SlotInv
  OBVIOUS
<1>1. Served = {} /\ Accepted = {} /\ Holding = {}
  BY DEF ServerInit, Served, Accepted, Holding
<1>2. stage \in [Connection -> Stages]
  BY DEF ServerInit, Stages
<1> QED BY <1>1, <1>2, FS_EmptySet DEF ServerInit, SlotInv, ServedWithinLimit

\* Steps after which the same connections are served and accepted.
LEMMA SameHolders ==
  ASSUME SlotInv, stage' \in [Connection -> Stages], Served' = Served, Accepted' = Accepted,
         UNCHANGED <<process, current, active>>
  PROVE  SlotInv'
<1>1. Holding' = Holding
  BY DEF Holding
<1> QED BY <1>1 DEF SlotInv, Alive, ServedWithinLimit

LEMMA ConnectKeeps == ASSUME SlotInv, NEW c \in Connection, Connect(c) PROVE SlotInv'
<1>1. stage' \in [Connection -> Stages] /\ Served' = Served /\ Accepted' = Accepted
  BY DEF SlotInv, Connect, Go, Stages, Served, Accepted
<1> QED BY <1>1, SameHolders DEF Connect

LEMMA AcceptKeeps == ASSUME SlotInv, NEW c \in Connection, Accept(c) PROVE SlotInv'
<1>1. /\ stage' = [stage EXCEPT ![c] = "accepted"] /\ stage[c] = "waiting"
      /\ stage \in [Connection -> Stages] /\ Alive /\ Accepted = {}
      /\ current' = active /\ active' = active + 1 /\ process' = process
  BY DEF Accept, Go, SlotInv
<1>2. stage' \in [Connection -> Stages]
  BY <1>1 DEF Stages
<1>3. Served' = Served /\ Accepted' = {c} /\ c \notin Served
  BY <1>1 DEF Served, Accepted
<1>4. Holding = Served /\ Holding' = Holding \cup {c} /\ c \notin Holding
  BY <1>1, <1>3 DEF Holding
<1>5. active = Cardinality(Served)
  BY <1>1, <1>4 DEF SlotInv
<1>6. Cardinality(Holding') = active + 1
  BY <1>4, <1>5, HolderSizes, FS_AddElement
<1> QED BY <1>1, <1>2, <1>3, <1>5, <1>6, HolderSizes DEF SlotInv, Alive, ServedWithinLimit

LEMMA RefuseKeeps == ASSUME SlotInv, NEW c \in Connection, Refuse(c) PROVE SlotInv'
<1>1. /\ stage' = [stage EXCEPT ![c] = "closed"] /\ stage[c] = "accepted"
      /\ stage \in [Connection -> Stages] /\ Alive
      /\ active' = active - 1 /\ UNCHANGED <<process, current>>
  BY DEF Refuse, Go, SlotInv
<1>2. stage' \in [Connection -> Stages]
  BY <1>1 DEF Stages
<1>3. c \in Accepted /\ c \notin Served
  BY <1>1 DEF Served, Accepted
<1>4. Served' = Served /\ Accepted' = {}
  BY <1>1, <1>3 DEF Served, Accepted, SlotInv
<1>5. Accepted = {c}
  BY <1>3 DEF SlotInv
<1>6. Holding' = Holding \ {c} /\ c \in Holding
  BY <1>3, <1>4, <1>5 DEF Holding
<1>7. Cardinality(Holding') = active'
  BY <1>1, <1>6, HolderSizes, FS_RemoveElement DEF SlotInv
<1> QED BY <1>1, <1>2, <1>4, <1>7 DEF SlotInv, Alive, ServedWithinLimit

LEMMA SpawnKeeps == ASSUME SlotInv, NEW c \in Connection, SpawnThread(c) PROVE SlotInv'
<1>0. current < MaxConnections
  <2>1. ~ (current >= MaxConnections)
    BY DEF SpawnThread, IsFull
  <2>2. current \in Nat /\ MaxConnections \in Nat
    BY FheServerAssumption DEF SlotInv
  <2> QED BY <2>1, <2>2
<1>1. /\ stage[c] = "accepted" /\ stage \in [Connection -> Stages] /\ Alive
      /\ current < MaxConnections /\ current \in Nat
      /\ UNCHANGED <<current, active>>
  BY <1>0 DEF SpawnThread, SlotInv
<1>2. c \in Accepted /\ c \notin Served
  BY <1>1 DEF Served, Accepted
<1>3. Accepted = {c} /\ Cardinality(Served) <= current
  BY <1>2 DEF SlotInv
<1>4. CASE Go(c, "reading") /\ UNCHANGED process
  <2>1. stage' \in [Connection -> Stages]
    BY <1>1, <1>4 DEF Go, Stages
  <2>2. Served' = Served \cup {c} /\ Accepted' = {}
    BY <1>1, <1>3, <1>4 DEF Go, Served, Accepted
  <2>3. Holding' = Holding
    BY <1>3, <2>2 DEF Holding
  <2>4. Cardinality(Served') <= MaxConnections
    <3>1. Cardinality(Served') = Cardinality(Served) + 1
      BY <1>2, <2>2, HolderSizes, FS_AddElement
    <3> QED BY <1>0, <1>1, <1>3, <3>1, HolderSizes, FheServerAssumption
  <2> QED BY <1>1, <1>4, <2>1, <2>2, <2>3, <2>4 DEF SlotInv, Alive, ServedWithinLimit
<1>5. CASE Go(c, "closed") /\ process' = "out of threads"
  <2>1. stage' \in [Connection -> Stages]
    BY <1>1, <1>5 DEF Go, Stages
  <2>2. stage' = [stage EXCEPT ![c] = "closed"]
    BY <1>5 DEF Go
  <2>3. Served' = Served
    BY <1>1, <2>2 DEF Served
  <2>4. Accepted' = {}
    BY <1>1, <1>3, <2>2 DEF Accepted
  <2> QED BY <1>1, <1>5, <2>1, <2>3, <2>4 DEF SlotInv, Alive, ServedWithinLimit
<1> QED BY <1>4, <1>5 DEF SpawnThread

LEMMA ReleaseKeeps == ASSUME SlotInv, NEW c \in Connection, Release(c) PROVE SlotInv'
<1>1. /\ stage' = [stage EXCEPT ![c] = "closed"] /\ stage[c] = "closing"
      /\ stage \in [Connection -> Stages] /\ Alive
      /\ active' = active - 1 /\ UNCHANGED <<process, current>>
  BY DEF Release, Go, SlotInv
<1>2. stage' \in [Connection -> Stages]
  BY <1>1 DEF Stages
<1>3. Served' = Served \ {c} /\ Accepted' = Accepted /\ c \in Served /\ c \notin Accepted
  BY <1>1 DEF Served, Accepted
<1>4. Holding' = Holding \ {c} /\ c \in Holding
  BY <1>3 DEF Holding
<1>5. /\ Cardinality(Holding') = active'
      /\ Cardinality(Served') = Cardinality(Served) - 1
  BY <1>1, <1>3, <1>4, HolderSizes, FS_RemoveElement DEF SlotInv
<1> QED BY <1>1, <1>2, <1>3, <1>5, HolderSizes DEF SlotInv, Alive, ServedWithinLimit

LEMMA HandlerPanicsKeeps == ASSUME SlotInv, NEW c \in Connection, HandlerPanics(c) PROVE SlotInv'
<1>1. CASE PanicUnwinds
  <2>1. stage' \in [Connection -> Stages] /\ Served' = Served /\ Accepted' = Accepted
    BY <1>1 DEF SlotInv, HandlerPanics, Go, Stages, Served, Accepted
  <2> QED BY <1>1, <2>1, SameHolders DEF HandlerPanics
<1>2. CASE ~ PanicUnwinds
  <2>1. /\ stage' \in [Connection -> Stages] /\ Accepted' = Accepted
        /\ Served' = Served \ {c} /\ c \in Served
    BY <1>2 DEF SlotInv, HandlerPanics, Go, Stages, Served, Accepted
  <2>2. Cardinality(Served') = Cardinality(Served) - 1
    BY <2>1, HolderSizes, FS_RemoveElement
  <2> QED BY <1>2, <2>1, <2>2, HolderSizes DEF SlotInv, HandlerPanics, Alive, ServedWithinLimit
<1> QED BY <1>1, <1>2

\* The steps of a connection's thread that keep its slot.
LEMMA OtherStepsKeep ==
  ASSUME SlotInv, NEW c \in Connection,
         Read(c) \/ ReadFails(c) \/ Unauthorized(c) \/ Route(c) \/ HandlerReturns(c) \/ Write(c)
  PROVE  SlotInv'
<1>1. stage' \in [Connection -> Stages] /\ Served' = Served /\ Accepted' = Accepted
  BY DEF SlotInv, Read, ReadFails, Unauthorized, Route, HandlerReturns, Write, Go, Stages, Served, Accepted
<1>2. UNCHANGED <<process, current, active>>
  BY DEF Read, ReadFails, Unauthorized, Route, HandlerReturns, Write
<1> QED BY <1>1, <1>2, SameHolders

LEMMA ServerStepKeeps == SlotInv /\ [ServerNext]_serverVars => SlotInv'
<1> SUFFICES ASSUME SlotInv, [ServerNext]_serverVars PROVE SlotInv'
  OBVIOUS
<1>1. CASE UNCHANGED serverVars
  <2>1. stage' \in [Connection -> Stages] /\ Served' = Served /\ Accepted' = Accepted
    BY <1>1 DEF serverVars, SlotInv, Served, Accepted
  <2> QED BY <1>1, <2>1, SameHolders DEF serverVars
<1>2. CASE ServerNext
  BY <1>1, <1>2, ConnectKeeps, AcceptKeeps, RefuseKeeps, SpawnKeeps, ReleaseKeeps,
     HandlerPanicsKeeps, OtherStepsKeep DEF ServerNext, AcceptLoop, Serve, Others, Proceed, Finished
<1> QED BY <1>1, <1>2

THEOREM SlotInvariance == ServerSpec => []SlotInv
  BY ServerInitially, ServerStepKeeps, PTL DEF ServerSpec

\* The connection limit holds for any limit and any number of connections,
\* although the count is incremented before it is compared.
THEOREM LimitIsRespected == ServerSpec => []ServedWithinLimit
  BY SlotInvariance, PTL DEF SlotInv

\* The count is exact on every path: no slot leaks while the process lives.
THEOREM SlotsAreExact == ServerSpec => []NoSlotIsLost
<1>1. SlotInv => NoSlotIsLost
  BY DEF SlotInv, NoSlotIsLost, Holding
<1> QED BY <1>1, SlotInvariance, PTL

\* No connection is told "busy" while a slot was free when it was counted.
THEOREM BusyIsJustified == ServerSpec => RefusedOnlyWhenFull
<1> DEFINE OnlyWhenFull ==
      \A c \in Connection :
        stage[c] = "waiting" /\ stage'[c] = "accepted" /\ current' >= MaxConnections =>
          Cardinality(Served) >= MaxConnections
<1>1. SlotInv /\ [ServerNext]_serverVars => [OnlyWhenFull]_serverVars
  <2> SUFFICES ASSUME SlotInv, ServerNext, NEW c \in Connection,
                      stage[c] = "waiting", stage'[c] = "accepted",
                      current' >= MaxConnections
               PROVE  Cardinality(Served) >= MaxConnections
    OBVIOUS
  <2>1. Accept(c)
    BY DEF SlotInv, ServerNext, AcceptLoop, Serve, Others, Proceed, Connect, Accept, Refuse, SpawnThread, Read, ReadFails,
           Unauthorized, Route, HandlerReturns, HandlerPanics, Write, Release, Finished, Go, serverVars
  <2>2. Holding = Served /\ current' = active /\ Alive
    BY <2>1 DEF Accept, Holding
  <2> QED BY <2>2 DEF SlotInv
<1> QED BY <1>1, SlotInvariance, PTL DEF ServerSpec, RefusedOnlyWhenFull

=============================================================================
