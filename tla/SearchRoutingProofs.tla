------------------------- MODULE SearchRoutingProofs -------------------------
(***************************************************************************)
(* What the guards of the search backends promise for every number of      *)
(* backends and threads, every rate, window, threshold and timeout, and    *)
(* what the batches promise for every chain and every set of callers.      *)
(***************************************************************************)
EXTENDS SearchRouting, SequenceTheorems, TLAPS

-----------------------------------------------------------------------------
(* The inductive invariant: what has been admitted within the last a       *)
(* seconds and what is left in the bucket came from the full bucket and    *)
(* from a seconds' refill; a circuit that lets requests through has seen   *)
(* fewer failures than the threshold, and a closed one counts what its     *)
(* callers see.                                                            *)

BucketPaid ==
  \A b \in Backends : \A a \in 0 .. Window :
    Window * admitted[b][a] + tokens[b] <= Capacity + a * MaxRequests

BelowThreshold == \A b \in Backends : circuit[b] # "OPEN" => failures[b] < Threshold

CountsFailures == \A b \in Backends \ Swallows : circuit[b] = "CLOSED" => streak[b] = failures[b]

GuardInv == GuardTypeOK /\ BucketPaid /\ BelowThreshold /\ CountsFailures

\* The capacity is a positive number.
LEMMA CapacityNat == Capacity \in Nat /\ Capacity >= Window
  BY GuardAssumption, SMT DEF Capacity

\* What a product bounds, a factor bounds.
LEMMA Cancel ==
  ASSUME NEW w \in Nat \ {0}, NEW m \in Nat, NEW n \in Nat, w * m <= w * n
  PROVE  m <= n
<1>1. SUFFICES ASSUME n + 1 <= m PROVE FALSE
  BY SMT
<1>2. w * (n + 1) = w * n + w
  BY SMT
<1>3. PICK k \in Nat : m = (n + 1) + k
  <2>1. m - (n + 1) \in Nat /\ m = (n + 1) + (m - (n + 1))
    BY <1>1, SMT
  <2>2. QED
    BY <2>1
<1>4. w * m = w * (n + 1) + w * k /\ w * k \in Nat
  BY <1>3, SMT
<1>5. w * n \in Nat
  BY SMT
<1>6. QED
  BY <1>2, <1>4, <1>5, SMT

-----------------------------------------------------------------------------
(* Each operation of a guard preserves the invariant. *)

LEMMA GuardInitInv == ASSUME GuardInit PROVE GuardInv
<1>1. GuardTypeOK
  BY CapacityNat, GuardAssumption, SMT DEF GuardInit, GuardTypeOK
<1>2. BucketPaid
  <2>1. SUFFICES ASSUME NEW b \in Backends, NEW a \in 0 .. Window
                 PROVE  Window * 0 + Capacity <= Capacity + a * MaxRequests
    BY Zenon DEF GuardInit, BucketPaid
  <2>2. a * MaxRequests \in Nat
    BY GuardAssumption, SMT
  <2>3. QED
    BY <2>2, CapacityNat, GuardAssumption, SMT
<1>3. BelowThreshold /\ CountsFailures
  BY GuardAssumption, SMT DEF GuardInit, BelowThreshold, CountsFailures
<1>4. QED
  BY <1>1, <1>2, <1>3 DEF GuardInv

LEMMA TickInv == ASSUME GuardInv, Tick PROVE GuardInv'
<1>0. Capacity' = Capacity
  BY DEF Capacity
<1>1. GuardTypeOK'
  <2>1. tokens' \in [Backends -> 0 .. Capacity]
    BY CapacityNat, GuardAssumption, SMT DEF GuardInv, GuardTypeOK, Tick, Refill, Least
  <2>2. admitted' \in [Backends -> [0 .. Window -> Nat]]
    BY CapacityNat, GuardAssumption, SMT DEF GuardInv, GuardTypeOK, Tick, Refill, Least
  <2>3. circuit' \in [Backends -> {"CLOSED", "OPEN", "HALF_OPEN"}]
    BY SMT DEF GuardInv, GuardTypeOK, Tick, Refill, Least
  <2>4. failures' \in [Backends -> Nat]
    BY CapacityNat, GuardAssumption, SMT DEF GuardInv, GuardTypeOK, Tick, Refill, Least
  <2>5. since' \in [Backends -> 0 .. Timeout]
    BY CapacityNat, GuardAssumption, SMT DEF GuardInv, GuardTypeOK, Tick, Refill, Least
  <2>6. streak' \in [Backends -> 0 .. Threshold]
    BY CapacityNat, GuardAssumption, SMT DEF GuardInv, GuardTypeOK, Tick, Refill, Least
  <2>7. QED
    BY <1>0, <2>1, <2>2, <2>3, <2>4, <2>5, <2>6 DEF GuardTypeOK
<1>2. BucketPaid'
  <2>1. SUFFICES ASSUME NEW b \in Backends, NEW a \in 0 .. Window
                 PROVE  Window * admitted'[b][a] + tokens'[b] <= Capacity + a * MaxRequests
    BY DEF BucketPaid, Capacity
  <2>2. /\ tokens[b] \in Nat /\ tokens'[b] \in Nat
        /\ tokens'[b] <= Capacity /\ tokens'[b] <= tokens[b] + MaxRequests
    BY CapacityNat, GuardAssumption, SMT DEF GuardInv, GuardTypeOK, Tick, Refill, Least
  <2>3. CASE a = 0
    <3>1. admitted'[b][a] = 0
      BY <2>3, GuardAssumption DEF Tick
    <3>2. QED
      BY <2>2, <2>3, <3>1, CapacityNat, GuardAssumption, SMT
  <2>4. CASE a # 0
    <3>1. a - 1 \in 0 .. Window /\ a \in Nat
      BY <2>4, GuardAssumption, SMT
    <3>2. admitted'[b][a] = admitted[b][a - 1]
      BY <2>4, GuardAssumption DEF Tick
    <3>3. admitted[b][a - 1] \in Nat
      BY <3>1 DEF GuardInv, GuardTypeOK
    <3>4. Window * admitted[b][a - 1] + tokens[b] <= Capacity + (a - 1) * MaxRequests
      BY <3>1 DEF GuardInv, BucketPaid
    <3>5. (a - 1) * MaxRequests + MaxRequests = a * MaxRequests
      BY <3>1, GuardAssumption, SMT
    <3>6. Window * admitted[b][a - 1] \in Nat /\ (a - 1) * MaxRequests \in Nat /\ a * MaxRequests \in Nat
      BY <3>1, <3>3, <2>4, GuardAssumption, SMT
    <3>7. QED
      BY <2>2, <3>2, <3>4, <3>5, <3>6, CapacityNat, GuardAssumption, SMT
  <2>5. QED
    BY <2>3, <2>4
<1>3. BelowThreshold' /\ CountsFailures'
  BY Zenon DEF GuardInv, BelowThreshold, CountsFailures, Tick
<1>4. QED
  BY <1>1, <1>2, <1>3 DEF GuardInv

LEMMA AcquireInv ==
  ASSUME GuardInv, NEW b \in Backends, HasToken(b), Acquire(b)
  PROVE  GuardInv'
<1>0. Capacity' = Capacity
  BY DEF Capacity
<1>1. GuardTypeOK'
  <2>1. tokens' \in [Backends -> 0 .. Capacity]
    BY CapacityNat, GuardAssumption, SMT DEF GuardInv, GuardTypeOK, HasToken, Acquire, breakerVars
  <2>2. admitted' \in [Backends -> [0 .. Window -> Nat]]
    <3>1. \A a \in 0 .. Window : admitted[b][a] \in Nat
      BY DEF GuardInv, GuardTypeOK
    <3>2. [a \in 0 .. Window |-> admitted[b][a] + 1] \in [0 .. Window -> Nat]
      BY <3>1, SMT
    <3>3. QED
      BY <3>2 DEF GuardInv, GuardTypeOK, Acquire
  <2>3. circuit' \in [Backends -> {"CLOSED", "OPEN", "HALF_OPEN"}]
    BY SMT DEF GuardInv, GuardTypeOK, HasToken, Acquire, breakerVars
  <2>4. failures' \in [Backends -> Nat]
    BY CapacityNat, GuardAssumption, SMT DEF GuardInv, GuardTypeOK, HasToken, Acquire, breakerVars
  <2>5. since' \in [Backends -> 0 .. Timeout]
    BY CapacityNat, GuardAssumption, SMT DEF GuardInv, GuardTypeOK, HasToken, Acquire, breakerVars
  <2>6. streak' \in [Backends -> 0 .. Threshold]
    BY CapacityNat, GuardAssumption, SMT DEF GuardInv, GuardTypeOK, HasToken, Acquire, breakerVars
  <2>7. QED
    BY <1>0, <2>1, <2>2, <2>3, <2>4, <2>5, <2>6 DEF GuardTypeOK
<1>2. BucketPaid'
  <2>1. SUFFICES ASSUME NEW c \in Backends, NEW a \in 0 .. Window
                 PROVE  Window * admitted'[c][a] + tokens'[c] <= Capacity + a * MaxRequests
    BY DEF BucketPaid, Capacity
  <2>2. /\ tokens[c] \in Nat /\ admitted[c][a] \in Nat
        /\ Window * admitted[c][a] + tokens[c] <= Capacity + a * MaxRequests
    <3>1. tokens[c] \in 0 .. Capacity /\ admitted[c][a] \in Nat
      BY DEF GuardInv, GuardTypeOK
    <3>2. tokens[c] \in Nat
      BY <3>1, CapacityNat, SMT
    <3>3. QED
      BY <3>1, <3>2 DEF GuardInv, BucketPaid
  <2>3. CASE c = b
    <3>1. tokens'[c] = tokens[c] - Window /\ admitted'[c][a] = admitted[c][a] + 1
      BY <2>3 DEF GuardInv, GuardTypeOK, Acquire
    <3>2. Window * (admitted[c][a] + 1) = Window * admitted[c][a] + Window
      BY <2>2, GuardAssumption, SMT
    <3>3. Window * admitted[c][a] \in Nat /\ a * MaxRequests \in Nat
      BY <2>2, GuardAssumption, SMT
    <3>4. QED
      BY <2>2, <3>1, <3>2, <3>3, CapacityNat, GuardAssumption, SMT
  <2>4. CASE c # b
    BY <2>2, <2>4 DEF GuardInv, GuardTypeOK, Acquire
  <2>5. QED
    BY <2>3, <2>4
<1>3. BelowThreshold' /\ CountsFailures'
  BY Zenon DEF GuardInv, BelowThreshold, CountsFailures, Acquire, breakerVars
<1>4. QED
  BY <1>1, <1>2, <1>3 DEF GuardInv

LEMMA EnterInv ==
  ASSUME GuardInv, NEW b \in Backends, EnterBreaker(b)
  PROVE  GuardInv'
<1>0. Capacity' = Capacity
  BY DEF Capacity
<1>1. GuardTypeOK'
  <2>1. tokens' \in [Backends -> 0 .. Capacity]
    BY CapacityNat, GuardAssumption, SMT DEF GuardInv, GuardTypeOK, EnterBreaker, limiterVars
  <2>2. admitted' \in [Backends -> [0 .. Window -> Nat]]
    BY DEF GuardInv, GuardTypeOK, limiterVars, EnterBreaker
  <2>3. circuit' \in [Backends -> {"CLOSED", "OPEN", "HALF_OPEN"}]
    BY SMT DEF GuardInv, GuardTypeOK, EnterBreaker, limiterVars
  <2>4. failures' \in [Backends -> Nat]
    BY CapacityNat, GuardAssumption, SMT DEF GuardInv, GuardTypeOK, EnterBreaker, limiterVars
  <2>5. since' \in [Backends -> 0 .. Timeout]
    BY CapacityNat, GuardAssumption, SMT DEF GuardInv, GuardTypeOK, EnterBreaker, limiterVars
  <2>6. streak' \in [Backends -> 0 .. Threshold]
    BY CapacityNat, GuardAssumption, SMT DEF GuardInv, GuardTypeOK, EnterBreaker, limiterVars
  <2>7. QED
    BY <1>0, <2>1, <2>2, <2>3, <2>4, <2>5, <2>6 DEF GuardTypeOK
<1>2. BucketPaid'
  BY Zenon DEF GuardInv, BucketPaid, EnterBreaker, limiterVars, Capacity
<1>3. BelowThreshold' /\ CountsFailures'
  <2>1. SUFFICES ASSUME NEW c \in Backends
                 PROVE  /\ circuit'[c] # "OPEN" => failures'[c] < Threshold
                        /\ c \notin Swallows /\ circuit'[c] = "CLOSED" => streak'[c] = failures'[c]
    BY Zenon DEF BelowThreshold, CountsFailures
  <2>2. /\ circuit[c] \in {"CLOSED", "OPEN", "HALF_OPEN"}
        /\ failures[c] \in Nat /\ streak[c] \in 0 .. Threshold
        /\ circuit[c] # "OPEN" => failures[c] < Threshold
        /\ c \notin Swallows /\ circuit[c] = "CLOSED" => streak[c] = failures[c]
    BY DEF GuardInv, GuardTypeOK, BelowThreshold, CountsFailures
  <2>3. CASE c = b
    BY <2>2, <2>3, GuardAssumption, SMT DEF GuardInv, GuardTypeOK, EnterBreaker
  <2>4. CASE c # b
    BY <2>2, <2>4, SMT DEF GuardInv, GuardTypeOK, EnterBreaker
  <2>5. QED
    BY <2>3, <2>4
<1>4. QED
  BY <1>1, <1>2, <1>3 DEF GuardInv

\* A request that answers.
LEMMA SuccessInv ==
  ASSUME GuardInv, NEW b \in Backends, OnSuccess(b), Succeeded(b), UNCHANGED limiterVars
  PROVE  GuardInv'
<1>0. Capacity' = Capacity
  BY DEF Capacity
<1>1. GuardTypeOK'
  <2>1. tokens' \in [Backends -> 0 .. Capacity]
    BY CapacityNat, GuardAssumption, SMT DEF GuardInv, GuardTypeOK, OnSuccess, Succeeded, limiterVars
  <2>2. admitted' \in [Backends -> [0 .. Window -> Nat]]
    BY DEF GuardInv, GuardTypeOK, limiterVars
  <2>3. circuit' \in [Backends -> {"CLOSED", "OPEN", "HALF_OPEN"}]
    BY SMT DEF GuardInv, GuardTypeOK, OnSuccess, Succeeded, limiterVars
  <2>4. failures' \in [Backends -> Nat]
    BY CapacityNat, GuardAssumption, SMT DEF GuardInv, GuardTypeOK, OnSuccess, Succeeded, limiterVars
  <2>5. since' \in [Backends -> 0 .. Timeout]
    BY CapacityNat, GuardAssumption, SMT DEF GuardInv, GuardTypeOK, OnSuccess, Succeeded, limiterVars
  <2>6. streak' \in [Backends -> 0 .. Threshold]
    BY CapacityNat, GuardAssumption, SMT DEF GuardInv, GuardTypeOK, OnSuccess, Succeeded, limiterVars
  <2>7. QED
    BY <1>0, <2>1, <2>2, <2>3, <2>4, <2>5, <2>6 DEF GuardTypeOK
<1>2. BucketPaid'
  BY Zenon DEF GuardInv, BucketPaid, limiterVars, Capacity
<1>3. BelowThreshold' /\ CountsFailures'
  <2>1. SUFFICES ASSUME NEW c \in Backends
                 PROVE  /\ circuit'[c] # "OPEN" => failures'[c] < Threshold
                        /\ c \notin Swallows /\ circuit'[c] = "CLOSED" => streak'[c] = failures'[c]
    BY Zenon DEF BelowThreshold, CountsFailures
  <2>2. /\ circuit[c] \in {"CLOSED", "OPEN", "HALF_OPEN"}
        /\ failures[c] \in Nat /\ streak[c] \in 0 .. Threshold
        /\ circuit[c] # "OPEN" => failures[c] < Threshold
        /\ c \notin Swallows /\ circuit[c] = "CLOSED" => streak[c] = failures[c]
    BY DEF GuardInv, GuardTypeOK, BelowThreshold, CountsFailures
  <2>3. CASE c = b
    BY <2>2, <2>3, GuardAssumption, SMT DEF GuardInv, GuardTypeOK, OnSuccess, Succeeded
  <2>4. CASE c # b
    BY <2>2, <2>4, SMT DEF GuardInv, GuardTypeOK, OnSuccess, Succeeded
  <2>5. QED
    BY <2>3, <2>4
<1>4. QED
  BY <1>1, <1>2, <1>3 DEF GuardInv

\* A request that raises.
LEMMA FailureInv ==
  ASSUME GuardInv, NEW b \in Backends, OnFailure(b), FailedAgain(b), UNCHANGED limiterVars
  PROVE  GuardInv'
<1>0. Capacity' = Capacity
  BY DEF Capacity
<1>1. GuardTypeOK'
  <2>1. tokens' \in [Backends -> 0 .. Capacity]
    BY CapacityNat, GuardAssumption, SMT DEF GuardInv, GuardTypeOK, OnFailure, FailedAgain, Least, limiterVars
  <2>2. admitted' \in [Backends -> [0 .. Window -> Nat]]
    BY DEF GuardInv, GuardTypeOK, limiterVars
  <2>3. circuit' \in [Backends -> {"CLOSED", "OPEN", "HALF_OPEN"}]
    BY SMT DEF GuardInv, GuardTypeOK, OnFailure, FailedAgain, Least, limiterVars
  <2>4. failures' \in [Backends -> Nat]
    BY CapacityNat, GuardAssumption, SMT DEF GuardInv, GuardTypeOK, OnFailure, FailedAgain, Least, limiterVars
  <2>5. since' \in [Backends -> 0 .. Timeout]
    BY CapacityNat, GuardAssumption, SMT DEF GuardInv, GuardTypeOK, OnFailure, FailedAgain, Least, limiterVars
  <2>6. streak' \in [Backends -> 0 .. Threshold]
    BY CapacityNat, GuardAssumption, SMT DEF GuardInv, GuardTypeOK, OnFailure, FailedAgain, Least, limiterVars
  <2>7. QED
    BY <1>0, <2>1, <2>2, <2>3, <2>4, <2>5, <2>6 DEF GuardTypeOK
<1>2. BucketPaid'
  BY Zenon DEF GuardInv, BucketPaid, limiterVars, Capacity
<1>3. BelowThreshold' /\ CountsFailures'
  <2>1. SUFFICES ASSUME NEW c \in Backends
                 PROVE  /\ circuit'[c] # "OPEN" => failures'[c] < Threshold
                        /\ c \notin Swallows /\ circuit'[c] = "CLOSED" => streak'[c] = failures'[c]
    BY Zenon DEF BelowThreshold, CountsFailures
  <2>2. /\ circuit[c] \in {"CLOSED", "OPEN", "HALF_OPEN"}
        /\ failures[c] \in Nat /\ streak[c] \in 0 .. Threshold
        /\ circuit[c] # "OPEN" => failures[c] < Threshold
        /\ c \notin Swallows /\ circuit[c] = "CLOSED" => streak[c] = failures[c]
    BY DEF GuardInv, GuardTypeOK, BelowThreshold, CountsFailures
  <2>3. CASE c = b
    BY <2>2, <2>3, GuardAssumption, SMT DEF GuardInv, GuardTypeOK, OnFailure, FailedAgain, Least
  <2>4. CASE c # b
    BY <2>2, <2>4, SMT DEF GuardInv, GuardTypeOK, OnFailure, FailedAgain, Least
  <2>5. QED
    BY <2>3, <2>4
<1>4. QED
  BY <1>1, <1>2, <1>3 DEF GuardInv

\* A request that fails behind the breaker's back.
LEMMA SwallowedInv ==
  ASSUME GuardInv, NEW b \in Backends \cap Swallows, OnSuccess(b), FailedAgain(b), UNCHANGED limiterVars
  PROVE  GuardInv'
<1>0. Capacity' = Capacity
  BY DEF Capacity
<1>1. GuardTypeOK'
  <2>1. tokens' \in [Backends -> 0 .. Capacity]
    BY CapacityNat, GuardAssumption, SMT DEF GuardInv, GuardTypeOK, OnSuccess, FailedAgain, Least, limiterVars
  <2>2. admitted' \in [Backends -> [0 .. Window -> Nat]]
    BY DEF GuardInv, GuardTypeOK, limiterVars
  <2>3. circuit' \in [Backends -> {"CLOSED", "OPEN", "HALF_OPEN"}]
    BY SMT DEF GuardInv, GuardTypeOK, OnSuccess, FailedAgain, Least, limiterVars
  <2>4. failures' \in [Backends -> Nat]
    BY CapacityNat, GuardAssumption, SMT DEF GuardInv, GuardTypeOK, OnSuccess, FailedAgain, Least, limiterVars
  <2>5. since' \in [Backends -> 0 .. Timeout]
    BY CapacityNat, GuardAssumption, SMT DEF GuardInv, GuardTypeOK, OnSuccess, FailedAgain, Least, limiterVars
  <2>6. streak' \in [Backends -> 0 .. Threshold]
    BY CapacityNat, GuardAssumption, SMT DEF GuardInv, GuardTypeOK, OnSuccess, FailedAgain, Least, limiterVars
  <2>7. QED
    BY <1>0, <2>1, <2>2, <2>3, <2>4, <2>5, <2>6 DEF GuardTypeOK
<1>2. BucketPaid'
  BY Zenon DEF GuardInv, BucketPaid, limiterVars, Capacity
<1>3. BelowThreshold' /\ CountsFailures'
  <2>1. SUFFICES ASSUME NEW c \in Backends
                 PROVE  /\ circuit'[c] # "OPEN" => failures'[c] < Threshold
                        /\ c \notin Swallows /\ circuit'[c] = "CLOSED" => streak'[c] = failures'[c]
    BY Zenon DEF BelowThreshold, CountsFailures
  <2>2. /\ circuit[c] \in {"CLOSED", "OPEN", "HALF_OPEN"}
        /\ failures[c] \in Nat /\ streak[c] \in 0 .. Threshold
        /\ circuit[c] # "OPEN" => failures[c] < Threshold
        /\ c \notin Swallows /\ circuit[c] = "CLOSED" => streak[c] = failures[c]
    BY DEF GuardInv, GuardTypeOK, BelowThreshold, CountsFailures
  <2>3. CASE c = b
    BY <2>2, <2>3, GuardAssumption, SMT DEF GuardInv, GuardTypeOK, OnSuccess, FailedAgain, Least
  <2>4. CASE c # b
    BY <2>2, <2>4, SMT DEF GuardInv, GuardTypeOK, OnSuccess, FailedAgain, Least
  <2>5. QED
    BY <2>3, <2>4
<1>4. QED
  BY <1>1, <1>2, <1>3 DEF GuardInv

LEMMA StutterInv == ASSUME GuardInv, UNCHANGED guardVars PROVE GuardInv'
  BY Zenon DEF GuardInv, GuardTypeOK, BucketPaid, BelowThreshold, CountsFailures, guardVars, limiterVars, breakerVars, Capacity

-----------------------------------------------------------------------------
(* The threads: whoever is at a guard asks a registered backend. *)

PCs == {"idle", "walk", "admit", "enter", "calling", "close"}
AtGuard == {"admit", "enter", "calling"}

Asking ==
  /\ pc \in [Threads -> PCs]
  /\ target \in [Threads -> Backends \cup {None}]
  /\ \A t \in Threads : pc[t] \in AtGuard => target[t] \in Backends

RoutingInv == GuardInv /\ Asking

LEMMA GotoAsking ==
  ASSUME Asking, NEW t \in Threads, NEW p \in PCs, NEW b \in Backends \cup {None},
         p \in AtGuard => b \in Backends, Goto(t, p, b)
  PROVE  Asking'
  BY DEF Asking, Goto

\* A thread that is told to wait, to leave or to go on with the chain.
LEMMA OverAsking == ASSUME Asking, NEW c \in Callers, Over(c) PROVE Asking'
<1>1. c \in Threads /\ "idle" \in PCs /\ "idle" \notin AtGuard
  BY DEF Threads, PCs, AtGuard
<1>2. Goto(c, "idle", None)
  BY DEF Over
<1>3. QED
  BY <1>1, <1>2, GotoAsking

LEMMA RecordedAsking ==
  ASSUME Asking, NEW c \in Callers, NEW n, NEW h, NEW e, Recorded(c, n, h, e)
  PROVE  Asking'
<1>1. PICK p \in {"close", "walk"} : Goto(c, p, None)
  BY DEF Recorded
<1>2. c \in Threads /\ p \in PCs /\ p \notin AtGuard
  BY <1>1 DEF Threads, PCs, AtGuard
<1>3. QED
  BY <1>1, <1>2, GotoAsking

LEMMA FailsAsking ==
  ASSUME Asking, NEW t \in Threads, NEW e, Fails(t, e)
  PROVE  Asking'
<1>1. CASE t \in Callers /\ Recorded(t, target[t], "failed", e)
  BY <1>1, RecordedAsking
<1>2. CASE t \in Direct /\ DirectFails(t, e)
  <2>1. Goto(t, "admit", Cse) \/ Goto(t, "idle", None)
    BY <1>2 DEF DirectFails
  <2>2. Cse \in Backends /\ {"admit", "idle"} \subseteq PCs /\ "idle" \notin AtGuard
    BY RoutingAssumption DEF PCs, AtGuard
  <2>3. QED
    BY <2>1, <2>2, GotoAsking
<1>3. QED
  BY <1>1, <1>2 DEF Fails

LEMMA AnswersAsking ==
  ASSUME Asking, NEW t \in Threads, Answers(t)
  PROVE  Asking'
<1>1. Goto(t, "close", None) \/ Goto(t, "idle", None)
  BY DEF Answers
<1>2. {"close", "idle"} \subseteq PCs /\ "idle" \notin AtGuard /\ "close" \notin AtGuard
  BY DEF PCs, AtGuard
<1>3. QED
  BY <1>1, <1>2, GotoAsking

-----------------------------------------------------------------------------
LEMMA InitInv == Init => RoutingInv
<1>1. SUFFICES ASSUME Init PROVE RoutingInv
  OBVIOUS
<1>2. GuardInv
  BY <1>1, GuardInitInv DEF Init
<1>3. Asking
  BY <1>1 DEF Init, Asking, PCs, AtGuard
<1>4. QED
  BY <1>2, <1>3 DEF RoutingInv

\* A caller between its requests leaves the guards alone.
LEMMA BatchStepInv ==
  ASSUME RoutingInv, NEW c \in Callers, StartBatch(c) \/ BatchStep(c)
  PROVE  RoutingInv'
<1>1. c \in Threads /\ Asking /\ GuardInv
  BY DEF Threads, RoutingInv
<1>2. GuardInv'
  BY <1>1, StutterInv DEF StartBatch, BatchStep, PassBy, Choose, Reject, Close
<1>3. CASE StartBatch(c)
  <2>1. Goto(c, "walk", None) /\ "walk" \in PCs /\ "walk" \notin AtGuard
    BY <1>3 DEF StartBatch, PCs, AtGuard
  <2>2. QED
    BY <1>1, <1>2, <2>1, GotoAsking DEF RoutingInv
<1>4. CASE PassBy(c)
  <2>1. \/ Over(c)
        \/ \E n, h, e : Recorded(c, n, h, e)
        \/ Goto(c, "close", None)
    BY <1>4 DEF PassBy
  <2>2. "close" \in PCs /\ "close" \notin AtGuard
    BY DEF PCs, AtGuard
  <2>3. QED
    BY <1>1, <1>2, <2>1, <2>2, OverAsking, RecordedAsking, GotoAsking DEF RoutingInv
<1>5. CASE Choose(c)
  <2>1. PICK n : Goto(c, "admit", n) /\ n \in Configured
    BY <1>5 DEF Choose, Askable
  <2>2. n \in Backends /\ "admit" \in PCs
    BY <2>1, RoutingAssumption DEF PCs
  <2>3. QED
    BY <1>1, <1>2, <2>1, <2>2, GotoAsking DEF RoutingInv
<1>6. CASE Reject(c)
  BY <1>1, <1>2, <1>6, OverAsking DEF Reject, RoutingInv
<1>7. CASE Close(c)
  <2>1. Over(c) \/ Goto(c, "walk", None)
    BY <1>7 DEF Close
  <2>2. "walk" \in PCs /\ "walk" \notin AtGuard
    BY DEF PCs, AtGuard
  <2>3. QED
    BY <1>1, <1>2, <2>1, <2>2, OverAsking, GotoAsking DEF RoutingInv
<1>8. QED
  BY <1>3, <1>4, <1>5, <1>6, <1>7 DEF BatchStep

LEMMA RequestStepInv ==
  ASSUME RoutingInv, NEW t \in Threads, RequestStep(t)
  PROVE  RoutingInv'
<1>1. Asking /\ GuardInv
  BY DEF RoutingInv
<1>2. {"enter", "calling"} \subseteq PCs
  BY DEF PCs
<1>3. target[t] \in Backends
  BY <1>1 DEF RequestStep, Admit, Enter, Respond, Asking, AtGuard
<1>4. CASE Admit(t)
  <2>1. CASE HasToken(target[t]) /\ Acquire(target[t]) /\ Goto(t, "enter", target[t])
    BY <1>1, <1>2, <1>3, <2>1, AcquireInv, GotoAsking DEF RoutingInv
  <2>2. CASE Fails(t, "rate_limit_exceeded") /\ UNCHANGED guardVars
    BY <1>1, <2>2, StutterInv, FailsAsking DEF RoutingInv
  <2>3. QED
    BY <1>4, <2>1, <2>2 DEF Admit
<1>5. CASE Enter(t)
  <2>1. CASE EnterBreaker(target[t]) /\ Goto(t, "calling", target[t])
    BY <1>1, <1>2, <1>3, <2>1, EnterInv, GotoAsking DEF RoutingInv
  <2>2. CASE Fails(t, "circuit_open") /\ UNCHANGED guardVars
    BY <1>1, <2>2, StutterInv, FailsAsking DEF RoutingInv
  <2>3. QED
    BY <1>5, <2>1, <2>2 DEF Enter
<1>6. CASE Respond(t)
  <2>1. UNCHANGED limiterVars
    BY <1>6 DEF Respond
  <2>2. CASE OnSuccess(target[t]) /\ Succeeded(target[t]) /\ Answers(t)
    BY <1>1, <1>3, <2>1, <2>2, SuccessInv, AnswersAsking DEF RoutingInv
  <2>3. CASE OnFailure(target[t]) /\ FailedAgain(target[t]) /\ Fails(t, "failed")
    BY <1>1, <1>3, <2>1, <2>3, FailureInv, FailsAsking DEF RoutingInv
  <2>4. CASE target[t] \in Swallows /\ OnSuccess(target[t]) /\ FailedAgain(target[t]) /\ Fails(t, "failed")
    <3>1. target[t] \in Backends \cap Swallows
      BY <1>3, <2>4
    <3>2. QED
      BY <1>1, <2>1, <2>4, <3>1, SwallowedInv, FailsAsking DEF RoutingInv
  <2>5. QED
    BY <1>6, <2>2, <2>3, <2>4 DEF Respond
<1>7. QED
  BY <1>4, <1>5, <1>6 DEF RequestStep

LEMMA NextInv == RoutingInv /\ [Next]_vars => RoutingInv'
<1>1. SUFFICES ASSUME RoutingInv, [Next]_vars PROVE RoutingInv'
  OBVIOUS
<1>2. CASE Time
  <2>1. GuardInv'
    BY <1>1, <1>2, TickInv DEF RoutingInv, Time
  <2>2. QED
    BY <1>1, <1>2, <2>1 DEF RoutingInv, Asking, Time
<1>3. CASE \E c \in Callers : StartBatch(c) \/ BatchStep(c)
  BY <1>1, <1>3, BatchStepInv
<1>4. CASE \E d \in Direct : StartDirect(d)
  <2>1. PICK d \in Direct : StartDirect(d)
    BY <1>4
  <2>2. GuardInv'
    BY <1>1, <2>1, StutterInv DEF RoutingInv, StartDirect
  <2>3. d \in Threads /\ Cse \in Backends /\ "admit" \in PCs
    BY RoutingAssumption DEF Threads, PCs
  <2>4. QED
    BY <1>1, <2>1, <2>2, <2>3, GotoAsking DEF RoutingInv, StartDirect
<1>5. CASE \E t \in Threads : RequestStep(t)
  BY <1>1, <1>5, RequestStepInv
<1>6. CASE UNCHANGED vars
  <2>1. GuardInv'
    BY <1>1, <1>6, StutterInv DEF RoutingInv, vars
  <2>2. QED
    BY <1>1, <1>6, <2>1 DEF RoutingInv, Asking, vars
<1>7. QED
  BY <1>1, <1>2, <1>3, <1>4, <1>5, <1>6 DEF Next

\* The invariant of the guards holds in every reachable state.
THEOREM RoutingInvariant == Spec => []RoutingInv
<1>1. Init => RoutingInv
  BY InitInv
<1>2. RoutingInv /\ [Next]_vars => RoutingInv'
  BY NextInv
<1>3. QED
  BY <1>1, <1>2, PTL DEF Spec

\* The variables of the guards keep their types: no bucket goes negative or
\* over its capacity.
THEOREM GuardTypeCorrect == Spec => []GuardTypeOK
<1>1. RoutingInv => GuardTypeOK
  BY DEF RoutingInv, GuardInv
<1>2. QED
  BY <1>1, RoutingInvariant, PTL

\* No window sees more than twice max_requests, for any rate and window and
\* any number of threads.
THEOREM RateSafe == Spec => []RateBound
<1>1. RoutingInv => RateBound
  <2>1. SUFFICES ASSUME RoutingInv, NEW b \in Backends PROVE admitted[b][Window] <= 2 * MaxRequests
    BY DEF RateBound
  <2>2. Window \in 0 .. Window
    BY GuardAssumption, SMT
  <2>3. /\ tokens[b] \in 0 .. Capacity /\ admitted[b][Window] \in Nat
        /\ Window * admitted[b][Window] + tokens[b] <= Capacity + Window * MaxRequests
    BY <2>1, <2>2 DEF RoutingInv, GuardInv, GuardTypeOK, BucketPaid
  <2>4. Window * (2 * MaxRequests) = Capacity + Window * MaxRequests
    BY GuardAssumption, SMT DEF Capacity
  <2>5. Window * admitted[b][Window] \in Nat
    BY <2>3, GuardAssumption, SMT
  <2>6. Window * admitted[b][Window] <= Window * (2 * MaxRequests)
    <3>1. tokens[b] \in Nat /\ Capacity + Window * MaxRequests \in Nat
      BY <2>3, CapacityNat, GuardAssumption, SMT
    <3>2. ASSUME NEW x \in Nat, NEW y \in Nat, NEW z \in Nat, x + y <= z PROVE x <= z
      BY <3>2, SMT
    <3>3. QED
      BY <2>3, <2>4, <2>5, <3>1, <3>2
  <2>7. 2 * MaxRequests \in Nat
    BY GuardAssumption, SMT
  <2>8. QED
    BY <2>3, <2>6, <2>7, Cancel, GuardAssumption
<1>2. QED
  BY <1>1, RoutingInvariant, PTL

\* Threshold failures in a row open the circuit of every backend whose
\* failures reach the breaker, under every interleaving of its requests.
THEOREM BreakerSafe == Spec => []RaisedFailuresOpen
<1>1. RoutingInv => RaisedFailuresOpen
  BY DEF RoutingInv, GuardInv, BelowThreshold, CountsFailures, RaisedFailuresOpen, FailuresOpenAt
<1>2. QED
  BY <1>1, RoutingInvariant, PTL

\* An open circuit stays open for its timeout.
THEOREM OpenSafe == Spec => OpenLasts
<1>1. RoutingInv /\ [Next]_vars =>
        [\A b \in Backends : circuit[b] = "OPEN" /\ since[b] < Timeout => circuit'[b] = "OPEN"]_vars
  <2>1. SUFFICES ASSUME RoutingInv, Next, NEW b \in Backends, circuit[b] = "OPEN", since[b] < Timeout
                 PROVE  circuit'[b] = "OPEN"
    BY DEF vars
  <2>2. circuit \in [Backends -> {"CLOSED", "OPEN", "HALF_OPEN"}] /\ since[b] \in 0 .. Timeout
    BY <2>1 DEF RoutingInv, GuardInv, GuardTypeOK
  <2>3. CASE UNCHANGED circuit
    BY <2>1, <2>3
  <2>4. CASE \E t \in Threads : Enter(t) \/ Respond(t)
    <3>1. PICK t \in Threads : Enter(t) \/ Respond(t)
      BY <2>4
    <3>2. CASE Admits(target[t]) /\ EnterBreaker(target[t])
      <4>1. target[t] # b
        BY <2>1, <2>2, <3>2, GuardAssumption, SMT DEF Admits
      <4>2. QED
        BY <2>1, <2>2, <3>2, <4>1 DEF EnterBreaker
    <3>3. CASE OnSuccess(target[t])
      BY <2>1, <2>2, <3>3 DEF OnSuccess
    <3>4. CASE OnFailure(target[t])
      BY <2>1, <2>2, <3>4 DEF OnFailure
    <3>5. CASE UNCHANGED guardVars
      BY <2>1, <3>5 DEF guardVars, breakerVars
    <3>6. QED
      BY <3>1, <3>2, <3>3, <3>4, <3>5 DEF Enter, Respond
  <2>5. UNCHANGED circuit \/ \E t \in Threads : Enter(t) \/ Respond(t)
    BY <2>1 DEF Next, Time, Tick, StartBatch, BatchStep, PassBy, Choose, Reject, Close, StartDirect, RequestStep,
                Admit, Acquire, guardVars, breakerVars
  <2>6. QED
    BY <2>3, <2>4, <2>5
<1>2. QED
  BY <1>1, RoutingInvariant, PTL DEF Spec, OpenLasts

-----------------------------------------------------------------------------
(* The batches.  A query works its route off from the front: what it met   *)
(* is the beginning of the route and what it has left is the rest.  The    *)
(* route is the chain, or the forced provider, until the first answer, and *)
(* the pin with the tail of the chain behind it from then on.              *)

UnderWay == {"walk"} \cup AtGuard

\* What a query has met is the beginning of its route.
OnRoute(q) == \A i \in DOMAIN q.trail : i \in DOMAIN q.route /\ q.trail[i].name = q.route[i]

\* Nothing follows an answer.
OnlyLast(q) == \A i \in DOMAIN q.trail : q.trail[i].how = "answered" => i = Len(q.trail)

Unanswered(q) == \A i \in DOMAIN q.trail : q.trail[i].how # "answered"

\* What is left to ask is the rest of the route; at the pin, the tail of the
\* chain is not in it yet.
Ahead(q) ==
  /\ q.todo # <<>>
  /\ IF q.place = "pinned"
     THEN q.trail = <<>> /\ q.todo = <<q.pinned>>
     ELSE /\ Len(q.trail) + Len(q.todo) = Len(q.route)
          /\ \A i \in DOMAIN q.todo : q.todo[i] = q.route[Len(q.trail) + i]

\* No name of the tail stands before the pin in the chain.
Behind(q) ==
  \A i, j \in DOMAIN Chain :
    Chain[i] = q.pinned /\ j < i => \A k \in DOMAIN q.tail : q.tail[k] # Chain[j]

\* The context of a batch between its queries.
Ready(q) ==
  IF q.pinned = None
  THEN q.mode = "pin_on_first_success" => q.first = None
  ELSE q.mode = "pin_on_first_success" /\ q.pinned = q.first /\ Behind(q)

\* The route is the chain or the forced provider until there is a pin, and
\* then the pin and the tail behind it.
Routed(q) ==
  IF q.pinned = None
  THEN /\ q.route = (IF q.provider = "auto" THEN Chain ELSE <<q.provider>>)
       /\ q.place = (IF q.provider = "auto" THEN "chain" ELSE "forced")
  ELSE /\ q.mode = "pin_on_first_success" /\ q.pinned = q.first /\ Behind(q)
       /\ q.route = <<q.pinned>> \o q.tail
       /\ q.place \in {"pinned", "chain"}

\* A batch without a pin has seen no answer but the one its query just got.
NoneSeen(q) == q.mode = "pin_on_first_success" /\ q.pinned = None => q.first = None
FirstSeen(q) ==
  q.mode = "pin_on_first_success" /\ q.pinned = None =>
    q.first = IF Answered(q) THEN q.trail[Len(q.trail)].name ELSE None

\* A caller at p with target b.
WalkInv(q, p, b) ==
  /\ p # "idle" => OnRoute(q) /\ OnlyLast(q) /\ Routed(q)
  /\ p \in UnderWay => Unanswered(q) /\ Ahead(q) /\ NoneSeen(q)
  /\ p \in AtGuard => b = Head(q.todo)
  /\ p = "close" => FirstSeen(q) /\ (~Answered(q) => Len(q.trail) = Len(q.route))

-----------------------------------------------------------------------------
Hows == {"skipped", "failed", "answered"}
Lasts == {"none", "not_configured", "circuit_open", "rate_limit_exceeded", "failed"}
Pins == Names \cup {None}
Trails == Seq([name : Names, how : Hows])

LEMMA ChainTyped ==
  /\ Chain \in Seq(Names) /\ Chain # <<>> /\ Backends \subseteq Names /\ None \notin Names /\ "auto" \notin Names
  /\ \A i, j \in DOMAIN Chain : Chain[i] = Chain[j] => i = j
  BY RoutingAssumption DEF Names

\* s is the batch q at the beginning of a query.
Anew(s, q, place, todo, route) ==
  /\ s.mode = q.mode /\ s.provider = q.provider /\ s.pinned = q.pinned /\ s.tail = q.tail /\ s.first = q.first
  /\ s.trail = <<>> /\ s.todo = todo /\ s.route = route /\ s.place = place

\* What Ask leaves.
AtPin(q) == q.mode = "pin_on_first_success" /\ q.pinned # None
Asked(s, q) ==
  \/ AtPin(q) /\ Anew(s, q, "pinned", <<q.pinned>>, <<q.pinned>> \o q.tail)
  \/ ~AtPin(q) /\ q.provider # "auto" /\ Anew(s, q, "forced", <<q.provider>>, <<q.provider>>)
  \/ ~AtPin(q) /\ q.provider = "auto" /\ Anew(s, q, "chain", Chain, Chain)

\* A batch with one field changed.
LEMMA Updates ==
  ASSUME NEW q \in BatchType
  PROVE  /\ \A v \in Places : [q EXCEPT !.place = v] \in BatchType
         /\ \A v \in Seq(Names) : [q EXCEPT !.todo = v] \in BatchType
         /\ \A v \in Seq(Names) : [q EXCEPT !.route = v] \in BatchType
         /\ \A v \in Seq(Names) : [q EXCEPT !.tail = v] \in BatchType
         /\ \A v \in Trails : [q EXCEPT !.trail = v] \in BatchType
         /\ \A v \in Lasts : [q EXCEPT !.last = v] \in BatchType
         /\ \A v \in 1 .. Queries : [q EXCEPT !.query = v] \in BatchType
         /\ \A v \in Pins : [q EXCEPT !.pinned = v] \in BatchType
         /\ \A v \in Pins : [q EXCEPT !.first = v] \in BatchType
<1>1. \A v \in Places : [q EXCEPT !.place = v] \in BatchType
  BY Zenon DEF BatchType
<1>2. \A v \in Seq(Names) : [q EXCEPT !.todo = v] \in BatchType
  BY Zenon DEF BatchType
<1>3. \A v \in Seq(Names) : [q EXCEPT !.route = v] \in BatchType
  BY Zenon DEF BatchType
<1>4. \A v \in Seq(Names) : [q EXCEPT !.tail = v] \in BatchType
  BY Zenon DEF BatchType
<1>5. \A v \in Trails : [q EXCEPT !.trail = v] \in BatchType
  BY Zenon DEF BatchType, Trails, Hows
<1>6. \A v \in Lasts : [q EXCEPT !.last = v] \in BatchType
  BY Zenon DEF BatchType, Lasts
<1>7. \A v \in 1 .. Queries : [q EXCEPT !.query = v] \in BatchType
  BY Zenon DEF BatchType
<1>8. \A v \in Pins : [q EXCEPT !.pinned = v] \in BatchType
  BY Zenon DEF BatchType, Pins
<1>9. \A v \in Pins : [q EXCEPT !.first = v] \in BatchType
  BY Zenon DEF BatchType, Pins
<1>10. QED
  BY <1>1, <1>2, <1>3, <1>4, <1>5, <1>6, <1>7, <1>8, <1>9

\* The batch as its next query begins.
Fresh(q, place, todo, route) ==
  [q EXCEPT !.place = place, !.todo = todo, !.route = route, !.trail = <<>>, !.last = "none"]

\* A query that begins has the type of a batch.
LEMMA Renewed ==
  ASSUME NEW q \in BatchType, NEW place \in Places, NEW todo \in Seq(Names), NEW route \in Seq(Names), NEW n \in 1 .. Queries,
         NEW r, r = Fresh(q, place, todo, route)
  PROVE  /\ r \in BatchType /\ [r EXCEPT !.query = n] \in BatchType
         /\ Anew(r, q, place, todo, route) /\ Anew([r EXCEPT !.query = n], q, place, todo, route)
<1>2. r \in BatchType
  <2>1. [q EXCEPT !.place = place, !.todo = todo] \in BatchType
    BY Updates
  <2>2. [q EXCEPT !.place = place, !.todo = todo, !.route = route] \in BatchType
    BY <2>1, Updates
  <2>3. [q EXCEPT !.place = place, !.todo = todo, !.route = route, !.trail = <<>>] \in BatchType
    <3>1. <<>> \in Trails
      BY DEF Trails
    <3>2. QED
      BY <2>2, <3>1, Updates
  <2>4. "none" \in Lasts
    BY DEF Lasts
  <2>5. QED
    BY <2>3, <2>4, Updates DEF Fresh
<1>3. [r EXCEPT !.query = n] \in BatchType
  BY <1>2, Updates
<1>4. Anew(r, q, place, todo, route)
  BY SMT DEF BatchType, Fresh, Anew
<1>5. ASSUME NEW s, s = [r EXCEPT !.query = n]
      PROVE  /\ s.mode = r.mode /\ s.provider = r.provider /\ s.pinned = r.pinned /\ s.tail = r.tail /\ s.first = r.first
             /\ s.trail = r.trail /\ s.todo = r.todo /\ s.route = r.route /\ s.place = r.place
  BY <1>2, <1>5, SMT DEF BatchType
<1>6. QED
  BY <1>2, <1>3, <1>4, <1>5 DEF Anew

\* Ask begins the next query.
LEMMA AskAsks ==
  ASSUME NEW q \in BatchType, NEW n \in 1 .. Queries
  PROVE  /\ Ask(q) \in BatchType /\ Asked(Ask(q), q)
         /\ [Ask(q) EXCEPT !.query = n] \in BatchType /\ Asked([Ask(q) EXCEPT !.query = n], q)
<1>1. /\ q.pinned \in Names \cup {None} /\ q.tail \in Seq(Names) /\ q.provider \in {"auto"} \cup Backends
      /\ "pinned" \in Places /\ "forced" \in Places /\ "chain" \in Places
  BY DEF BatchType, Places
<1>2. CASE AtPin(q)
  <2>1. <<q.pinned>> \in Seq(Names) /\ <<q.pinned>> \o q.tail \in Seq(Names)
    BY <1>1, <1>2, ConcatProperties DEF AtPin
  <2>2. PICK r, todo, route : r = Ask(q) /\ todo = <<q.pinned>> /\ route = <<q.pinned>> \o q.tail
    OBVIOUS
  <2>3. r = Fresh(q, "pinned", todo, route)
    BY <1>2, <2>2 DEF Ask, Fresh, AtPin
  <2>4. todo \in Seq(Names) /\ route \in Seq(Names)
    BY <2>1, <2>2, Zenon
  <2>5. /\ r \in BatchType /\ [r EXCEPT !.query = n] \in BatchType
        /\ Anew(r, q, "pinned", todo, route) /\ Anew([r EXCEPT !.query = n], q, "pinned", todo, route)
    BY <1>1, <2>3, <2>4, Renewed
  <2>6. QED
    BY <1>2, <2>2, <2>5, Zenon DEF Asked
<1>3. CASE ~AtPin(q) /\ q.provider # "auto"
  <2>1. <<q.provider>> \in Seq(Names)
    BY <1>1, <1>3, ChainTyped
  <2>2. PICK r, todo, route : r = Ask(q) /\ todo = <<q.provider>> /\ route = <<q.provider>>
    OBVIOUS
  <2>3. r = Fresh(q, "forced", todo, route)
    BY <1>3, <2>2 DEF Ask, Fresh, AtPin
  <2>4. todo \in Seq(Names) /\ route \in Seq(Names)
    BY <2>1, <2>2, Zenon
  <2>5. /\ r \in BatchType /\ [r EXCEPT !.query = n] \in BatchType
        /\ Anew(r, q, "forced", todo, route) /\ Anew([r EXCEPT !.query = n], q, "forced", todo, route)
    BY <1>1, <2>3, <2>4, Renewed
  <2>6. QED
    BY <1>3, <2>2, <2>5, Zenon DEF Asked
<1>4. CASE ~AtPin(q) /\ q.provider = "auto"
  <2>1. Chain \in Seq(Names)
    BY ChainTyped
  <2>2. PICK r, todo, route : r = Ask(q) /\ todo = Chain /\ route = Chain
    OBVIOUS
  <2>3. r = Fresh(q, "chain", todo, route)
    BY <1>4, <2>2 DEF Ask, Fresh, AtPin
  <2>4. todo \in Seq(Names) /\ route \in Seq(Names)
    BY <2>1, <2>2, Zenon
  <2>5. /\ r \in BatchType /\ [r EXCEPT !.query = n] \in BatchType
        /\ Anew(r, q, "chain", todo, route) /\ Anew([r EXCEPT !.query = n], q, "chain", todo, route)
    BY <1>1, <2>3, <2>4, Renewed
  <2>6. QED
    BY <1>4, <2>2, <2>5, Zenon DEF Asked
<1>5. QED
  BY <1>2, <1>3, <1>4

\* A query that begins has its route before it.
LEMMA AskedWalks ==
  ASSUME NEW q \in BatchType, Ready(q), NEW r \in BatchType, Asked(r, q)
  PROVE  WalkInv(r, "walk", None)
<1>1. /\ r.mode = q.mode /\ r.provider = q.provider /\ r.pinned = q.pinned /\ r.tail = q.tail /\ r.first = q.first
      /\ r.trail = <<>>
      /\ \/ AtPin(q) /\ r.place = "pinned" /\ r.todo = <<q.pinned>> /\ r.route = <<q.pinned>> \o q.tail
         \/ ~AtPin(q) /\ q.provider # "auto" /\ r.place = "forced" /\ r.todo = <<q.provider>> /\ r.route = <<q.provider>>
         \/ ~AtPin(q) /\ q.provider = "auto" /\ r.place = "chain" /\ r.todo = Chain /\ r.route = Chain
  BY Zenon DEF Asked, Anew
<1>2. OnRoute(r) /\ OnlyLast(r) /\ Unanswered(r)
  <2>1. DOMAIN r.trail = {}
    BY <1>1
  <2>2. QED
    BY <2>1, Zenon DEF OnRoute, OnlyLast, Unanswered
<1>3. Routed(r)
  <2>1. CASE q.pinned = None
    BY <1>1, <2>1, Zenon DEF Routed, AtPin
  <2>2. CASE q.pinned # None
    <3>1. q.mode = "pin_on_first_success" /\ q.pinned = q.first /\ Behind(q)
      BY <2>2 DEF Ready
    <3>2. Behind(r)
      BY <1>1, <3>1, Zenon DEF Behind
    <3>3. QED
      BY <1>1, <2>2, <3>1, <3>2, Zenon DEF Routed, AtPin
  <2>3. QED
    BY <2>1, <2>2
<1>4. NoneSeen(r)
  BY <1>1, Zenon DEF Ready, NoneSeen
<1>5. Ahead(r)
  <2>1. CASE r.place = "pinned"
    <3>1. r.todo = <<q.pinned>> /\ <<q.pinned>> # <<>>
      BY <1>1, <2>1
    <3>2. QED
      BY <1>1, <2>1, <3>1, Zenon DEF Ahead
  <2>2. CASE r.place # "pinned"
    <3>1. r.todo = r.route /\ r.todo \in Seq(Names)
      BY <1>1, <2>2, Zenon DEF BatchType
    <3>2. r.todo # <<>>
      <4>1. <<q.provider>> # <<>>
        OBVIOUS
      <4>2. QED
        BY <1>1, <2>2, <4>1, ChainTyped, Zenon
    <3>3. DOMAIN r.todo = 1 .. Len(r.todo) /\ Len(r.todo) \in Nat /\ Len(r.trail) = 0
      BY <1>1, <3>1, LenProperties
    <3>4. QED
      BY <2>2, <3>1, <3>2, <3>3, SMT DEF Ahead
  <2>3. QED
    BY <2>1, <2>2
<1>6. QED
  BY <1>2, <1>3, <1>4, <1>5, Zenon DEF WalkInv, AtGuard

-----------------------------------------------------------------------------
(* A backend is done with. *)

Rest(q) == IF q.place = "pinned" THEN q.tail ELSE Tail(q.todo)

\* The batch that Recorded leaves.
Passed(q, name, how, err) ==
  [q EXCEPT !.trail = Append(@, Entry(name, how)), !.todo = Rest(q),
            !.last = IF q.place = "pinned" /\ Rest(q) # <<>> THEN "none" ELSE IF how = "skipped" THEN q.last ELSE err,
            !.place = IF @ = "pinned" THEN "chain" ELSE @]

\* The types of a batch's sequences, and an entry at the end of its trail.
LEMMA Sequences ==
  ASSUME NEW q \in BatchType
  PROVE  /\ q.trail \in Trails /\ Len(q.trail) \in Nat /\ DOMAIN q.trail = 1 .. Len(q.trail)
         /\ q.todo \in Seq(Names) /\ Len(q.todo) \in Nat /\ DOMAIN q.todo = 1 .. Len(q.todo)
         /\ q.route \in Seq(Names) /\ Len(q.route) \in Nat /\ DOMAIN q.route = 1 .. Len(q.route)
         /\ q.tail \in Seq(Names) /\ Len(q.tail) \in Nat /\ DOMAIN q.tail = 1 .. Len(q.tail)
<1>1. q.trail \in Trails /\ q.todo \in Seq(Names) /\ q.route \in Seq(Names) /\ q.tail \in Seq(Names)
  BY Zenon DEF BatchType, Trails, Hows
<1>2. QED
  BY <1>1, LenProperties DEF Trails

LEMMA Appended ==
  ASSUME NEW trail \in Trails, NEW name \in Names, NEW how \in Hows, NEW t, t = Append(trail, Entry(name, how))
  PROVE  /\ t \in Trails /\ Len(t) = Len(trail) + 1 /\ DOMAIN t = 1 .. Len(t) /\ t # <<>>
         /\ t[Len(t)].name = name /\ t[Len(t)].how = how
         /\ \A i \in 1 .. Len(trail) : t[i] = trail[i]
<1>1. Entry(name, how) \in [name : Names, how : Hows] /\ Entry(name, how).name = name /\ Entry(name, how).how = how
  BY DEF Entry
<1>2. /\ t \in Trails /\ Len(t) = Len(trail) + 1
      /\ \A i \in 1 .. Len(trail) : t[i] = trail[i]
      /\ t[Len(trail) + 1] = Entry(name, how)
  BY <1>1, AppendProperties DEF Trails
<1>3. DOMAIN t = 1 .. Len(t) /\ Len(trail) \in Nat
  BY <1>2, LenProperties DEF Trails
<1>4. t # <<>>
  BY <1>2, <1>3, EmptySeq, SMT
<1>5. QED
  BY <1>1, <1>2, <1>3, <1>4

LEMMA PassedFields ==
  ASSUME NEW q \in BatchType, NEW name \in Names, NEW how \in Hows, NEW err \in Lasts, q.todo # <<>>,
         NEW r, r = Passed(q, name, how, err)
  PROVE  /\ r \in BatchType
         /\ r.mode = q.mode /\ r.provider = q.provider /\ r.pinned = q.pinned /\ r.tail = q.tail /\ r.first = q.first
         /\ r.route = q.route /\ r.trail = Append(q.trail, Entry(name, how)) /\ r.todo = Rest(q)
         /\ r.place = IF q.place = "pinned" THEN "chain" ELSE q.place
<1>1. q.trail \in Trails /\ q.place \in Places /\ "chain" \in Places /\ q.last \in Lasts /\ "none" \in Lasts
  BY Zenon DEF BatchType, Trails, Hows, Places, Lasts
<1>2. Rest(q) \in Seq(Names)
  BY Sequences, HeadTailProperties DEF Rest
<1>3. PICK t, last, place :
        /\ t = Append(q.trail, Entry(name, how))
        /\ last = (IF q.place = "pinned" /\ Rest(q) # <<>> THEN "none" ELSE IF how = "skipped" THEN q.last ELSE err)
        /\ place = (IF q.place = "pinned" THEN "chain" ELSE q.place)
  OBVIOUS
<1>4. t \in Trails /\ last \in Lasts /\ place \in Places
  BY <1>1, <1>3, Appended
<1>5. r = [q EXCEPT !.trail = t, !.todo = Rest(q), !.last = last, !.place = place]
  BY <1>3 DEF Passed
<1>6. r \in BatchType
  <2>1. [q EXCEPT !.trail = t] \in BatchType
    BY <1>4, Updates
  <2>2. [q EXCEPT !.trail = t, !.todo = Rest(q)] \in BatchType
    BY <1>2, <2>1, Updates
  <2>3. [q EXCEPT !.trail = t, !.todo = Rest(q), !.last = last] \in BatchType
    BY <1>4, <2>2, Updates
  <2>4. QED
    BY <1>4, <1>5, <2>3, Updates
<1>7. /\ r.mode = q.mode /\ r.provider = q.provider /\ r.pinned = q.pinned /\ r.tail = q.tail /\ r.first = q.first
      /\ r.route = q.route /\ r.trail = t /\ r.todo = Rest(q) /\ r.place = place
  BY <1>5, SMT DEF BatchType
<1>8. QED
  BY <1>3, <1>6, <1>7

\* What is asked next is the next name of the route, and what is left after it
\* the rest of the route.
LEMMA NextOnRoute ==
  ASSUME NEW q \in BatchType, Ahead(q), Routed(q)
  PROVE  /\ Head(q.todo) \in Names
         /\ Len(q.trail) + 1 \in DOMAIN q.route /\ q.route[Len(q.trail) + 1] = Head(q.todo)
         /\ Rest(q) \in Seq(Names) /\ Len(q.trail) + 1 + Len(Rest(q)) = Len(q.route)
         /\ \A i \in DOMAIN Rest(q) : Rest(q)[i] = q.route[Len(q.trail) + 1 + i]
<1>1. q.todo \in Seq(Names) /\ q.todo # <<>>
  BY Sequences DEF Ahead
<1>2. Head(q.todo) \in Names /\ Head(q.todo) = q.todo[1] /\ Len(q.todo) \in Nat \ {0} /\ Len(q.trail) \in Nat
  BY <1>1, HeadTailProperties, EmptySeq, Sequences
<1>3. Rest(q) \in Seq(Names)
  BY <1>1, Sequences, HeadTailProperties DEF Rest
<1>4. DOMAIN Rest(q) = 1 .. Len(Rest(q)) /\ Len(Rest(q)) \in Nat
  BY <1>3, LenProperties
<1>5. CASE q.place = "pinned"
  <2>1. q.pinned # None
    BY <1>5 DEF Routed
  <2>2. q.pinned \in Names /\ q.tail \in Seq(Names) /\ q.route = <<q.pinned>> \o q.tail
    BY <2>1, Sequences, Zenon DEF Routed, BatchType
  <2>3. q.trail = <<>> /\ q.todo = <<q.pinned>>
    BY <1>5, Zenon DEF Ahead
  <2>4. Len(q.trail) = 0 /\ Rest(q) = q.tail /\ Head(q.todo) = q.pinned
    BY <1>5, <2>3 DEF Rest
  <2>5. PICK s : s = <<q.pinned>>
    OBVIOUS
  <2>6. s \in Seq(Names) /\ Len(s) = 1 /\ s[1] = q.pinned
    BY <2>2, <2>5
  <2>7. q.route = s \o q.tail
    BY <2>2, <2>5, Zenon
  <2>8. /\ Len(q.route) = 1 + Len(q.tail)
        /\ \A i \in 1 .. 1 + Len(q.tail) : q.route[i] = IF i <= 1 THEN s[i] ELSE q.tail[i - 1]
    BY <2>2, <2>6, <2>7, ConcatProperties
  <2>9. Len(q.tail) \in Nat /\ DOMAIN q.tail = 1 .. Len(q.tail) /\ DOMAIN q.route = 1 .. Len(q.route)
    BY Sequences
  <2>10. 1 \in DOMAIN q.route /\ q.route[1] = q.pinned
    BY <2>6, <2>8, <2>9, SMT
  <2>11. \A i \in DOMAIN q.tail : q.tail[i] = q.route[1 + i]
    <3>1. SUFFICES ASSUME NEW i \in 1 .. Len(q.tail) PROVE q.tail[i] = q.route[1 + i]
      BY <2>9
    <3>2. 1 + i \in 1 .. 1 + Len(q.tail) /\ ~ (1 + i <= 1) /\ (1 + i) - 1 = i
      BY <2>9, <3>1, SMT
    <3>3. QED
      BY <2>8, <3>2
  <2>12. QED
    BY <1>2, <1>3, <2>4, <2>8, <2>10, <2>11, SMT
<1>6. CASE q.place # "pinned"
  <2>1. PICK m, n, k, l : m = Len(q.trail) /\ n = Len(q.todo) /\ k = Len(q.route) /\ l = Len(Rest(q))
    OBVIOUS
  <2>2. m \in Nat /\ n \in Nat \ {0} /\ k \in Nat /\ l \in Nat /\ DOMAIN q.route = 1 .. k /\ DOMAIN Rest(q) = 1 .. l
    BY <1>2, <1>4, <2>1, Sequences
  <2>3. m + n = k /\ \A i \in 1 .. n : q.todo[i] = q.route[m + i]
    BY <1>6, <2>1, Sequences DEF Ahead
  <2>4. l = n - 1 /\ \A i \in 1 .. l : Rest(q)[i] = q.todo[i + 1]
    BY <1>1, <1>6, <2>1, HeadTailProperties DEF Rest
  <2>5. 1 \in 1 .. n /\ m + 1 \in 1 .. k /\ m + 1 + l = k
    BY <2>2, <2>3, <2>4, SMT
  <2>6. \A i \in 1 .. l : Rest(q)[i] = q.route[m + 1 + i]
    <3>1. SUFFICES ASSUME NEW i \in 1 .. l PROVE Rest(q)[i] = q.route[m + 1 + i]
      OBVIOUS
    <3>2. i + 1 \in 1 .. n /\ m + (i + 1) = m + 1 + i
      BY <2>2, <2>4, <3>1, SMT
    <3>3. QED
      BY <2>3, <2>4, <3>2
  <2>7. q.route[m + 1] = Head(q.todo)
    BY <1>2, <2>3, <2>5
  <2>8. QED
    BY <1>2, <1>3, <2>1, <2>2, <2>5, <2>6, <2>7
<1>7. QED
  BY <1>5, <1>6

\* An entry for the next name keeps the trail on its route.
LEMMA StaysOnRoute ==
  ASSUME NEW q \in BatchType, OnRoute(q), Unanswered(q), Ahead(q), Routed(q), NEW how \in Hows,
         NEW r, r.route = q.route, r.trail = Append(q.trail, Entry(Head(q.todo), how))
  PROVE  OnRoute(r) /\ OnlyLast(r) /\ (how # "answered" => Unanswered(r))
<1>1. PICK t, n, name : t = r.trail /\ n = Len(q.trail) /\ name = Head(q.todo)
  OBVIOUS
<1>2. name \in Names /\ q.trail \in Trails /\ n \in Nat /\ DOMAIN q.trail = 1 .. n /\ t = Append(q.trail, Entry(name, how))
  BY <1>1, NextOnRoute, Sequences
<1>3. /\ Len(t) = n + 1 /\ DOMAIN t = 1 .. Len(t)
      /\ t[Len(t)].name = Head(q.todo) /\ t[Len(t)].how = how
      /\ \A i \in 1 .. n : t[i] = q.trail[i]
  BY <1>1, <1>2, Appended
<1>4. \A i \in DOMAIN t : i = Len(t) \/ (i \in DOMAIN q.trail /\ t[i] = q.trail[i])
  <2>1. ASSUME NEW i \in 1 .. n + 1 PROVE i = n + 1 \/ i \in 1 .. n
    BY <1>2, <2>1, SMT
  <2>2. DOMAIN t = 1 .. n + 1 /\ Len(t) = n + 1
    BY <1>3
  <2>3. DOMAIN q.trail = 1 .. n /\ \A i \in 1 .. n : t[i] = q.trail[i]
    BY <1>2, <1>3
  <2>4. QED
    BY <2>1, <2>2, <2>3, Zenon
<1>5. Len(t) \in DOMAIN q.route /\ q.route[Len(t)] = Head(q.todo)
  BY <1>1, <1>3, NextOnRoute
<1>6. OnRoute(r)
  <2>1. SUFFICES ASSUME NEW i \in DOMAIN t PROVE i \in DOMAIN q.route /\ t[i].name = q.route[i]
    BY <1>1, Zenon DEF OnRoute
  <2>2. CASE i = Len(t)
    BY <1>3, <1>5, <2>2
  <2>3. CASE i \in DOMAIN q.trail /\ t[i] = q.trail[i]
    BY <2>3 DEF OnRoute
  <2>4. QED
    BY <1>4, <2>2, <2>3
<1>7. \A i \in DOMAIN t : t[i].how = "answered" => i = Len(t)
  BY <1>4, Zenon DEF Unanswered
<1>8. how # "answered" => \A i \in DOMAIN t : t[i].how # "answered"
  BY <1>3, <1>4 DEF Unanswered
<1>9. QED
  BY <1>1, <1>6, <1>7, <1>8, Zenon DEF OnlyLast, Unanswered

\* After a backend that gave no answer.
LEMMA PassedWalks ==
  ASSUME NEW q \in BatchType, NEW p \in UnderWay, NEW b, WalkInv(q, p, b),
         NEW how \in {"skipped", "failed"}, NEW err \in Lasts, NEW r, r = Passed(q, Head(q.todo), how, err)
  PROVE  r \in BatchType /\ WalkInv(r, IF Rest(q) = <<>> THEN "close" ELSE "walk", None)
<1>1. OnRoute(q) /\ Unanswered(q) /\ Ahead(q) /\ Routed(q) /\ NoneSeen(q)
  BY DEF WalkInv, UnderWay, AtGuard
<1>2. /\ Head(q.todo) \in Names /\ Rest(q) \in Seq(Names)
      /\ Len(q.trail) + 1 + Len(Rest(q)) = Len(q.route)
      /\ \A i \in DOMAIN Rest(q) : Rest(q)[i] = q.route[Len(q.trail) + 1 + i]
  BY <1>1, NextOnRoute
<1>3. how \in Hows /\ how # "answered" /\ q.todo # <<>>
  BY <1>1 DEF Hows, Ahead
<1>4. /\ r \in BatchType
      /\ r.mode = q.mode /\ r.provider = q.provider /\ r.pinned = q.pinned /\ r.tail = q.tail /\ r.first = q.first
      /\ r.route = q.route /\ r.trail = Append(q.trail, Entry(Head(q.todo), how)) /\ r.todo = Rest(q)
      /\ r.place = IF q.place = "pinned" THEN "chain" ELSE q.place
  BY <1>2, <1>3, PassedFields
<1>5. OnRoute(r) /\ OnlyLast(r) /\ Unanswered(r)
  BY <1>1, <1>3, <1>4, StaysOnRoute
<1>6. Len(r.trail) = Len(q.trail) + 1 /\ Len(r.trail) \in Nat /\ DOMAIN r.trail = 1 .. Len(r.trail) /\ r.trail # <<>>
  BY <1>2, <1>3, <1>4, Appended, Sequences
<1>7. Routed(r)
  <2>1. r.pinned = None => q.place # "pinned"
    BY <1>1, <1>4 DEF Routed
  <2>2. Behind(q) => Behind(r)
    BY <1>4, Zenon DEF Behind
  <2>3. CASE q.pinned = None
    BY <1>1, <1>4, <2>1, <2>3, Zenon DEF Routed
  <2>4. CASE q.pinned # None
    BY <1>1, <1>4, <2>2, <2>4, Zenon DEF Routed
  <2>5. QED
    BY <2>3, <2>4
<1>8. NoneSeen(r)
  BY <1>1, <1>4, Zenon DEF NoneSeen
<1>9. ~Answered(r)
  <2>1. Len(r.trail) \in DOMAIN r.trail
    BY <1>2, <1>3, <1>4, <1>6, Sequences, SMT
  <2>2. QED
    BY <1>5, <2>1, Zenon DEF Unanswered, Answered
<1>10. FirstSeen(r)
  BY <1>8, <1>9, Zenon DEF NoneSeen, FirstSeen
<1>11. CASE Rest(q) = <<>>
  <2>1. Len(r.trail) = Len(r.route)
    BY <1>2, <1>4, <1>6, <1>11, Sequences, SMT
  <2>2. QED
    BY <1>4, <1>5, <1>7, <1>10, <1>11, <2>1, Zenon DEF WalkInv, UnderWay, AtGuard
<1>12. CASE Rest(q) # <<>>
  <2>1. r.place # "pinned"
    BY <1>4
  <2>2. Len(r.trail) + Len(r.todo) = Len(r.route) /\ \A i \in DOMAIN r.todo : r.todo[i] = r.route[Len(r.trail) + i]
    BY <1>2, <1>4, <1>6
  <2>3. Ahead(r)
    BY <1>4, <1>12, <2>1, <2>2, Zenon DEF Ahead
  <2>4. QED
    BY <1>4, <1>5, <1>7, <1>8, <1>12, <2>3, Zenon DEF WalkInv, UnderWay, AtGuard
<1>13. QED
  BY <1>11, <1>12

\* The batch that Answers leaves.
Told(q, b) == [q EXCEPT !.trail = Append(@, Entry(b, "answered")), !.first = IF @ = None THEN b ELSE @]

\* After an answer.
LEMMA AnsweredWalks ==
  ASSUME NEW q \in BatchType, NEW p \in AtGuard, NEW b, WalkInv(q, p, b), NEW r, r = Told(q, b)
  PROVE  r \in BatchType /\ WalkInv(r, "close", None)
<1>1. OnRoute(q) /\ Unanswered(q) /\ Ahead(q) /\ Routed(q) /\ NoneSeen(q) /\ b = Head(q.todo)
  BY DEF WalkInv, UnderWay, AtGuard
<1>2. b \in Names /\ b # None /\ "answered" \in Hows /\ q.trail \in Trails /\ q.first \in Pins
  BY <1>1, NextOnRoute, Sequences, ChainTyped DEF Hows, BatchType, Pins
<1>3. PICK t, first, how : t = Append(q.trail, Entry(b, how)) /\ how = "answered" /\ first = IF q.first = None THEN b ELSE q.first
  OBVIOUS
<1>4. t \in Trails /\ t # <<>> /\ t[Len(t)].name = b /\ t[Len(t)].how = "answered" /\ first \in Pins
  <2>1. t \in Trails /\ t # <<>> /\ t[Len(t)].name = b /\ t[Len(t)].how = how
    <3>1. t = Append(q.trail, Entry(b, how)) /\ q.trail \in Trails /\ b \in Names /\ how \in Hows
      BY <1>2, <1>3
    <3>2. t \in Trails
      BY <3>1, Appended
    <3>3. t # <<>>
      BY <3>1, Appended
    <3>4. t[Len(t)].name = b /\ t[Len(t)].how = how
      BY <3>1, Appended
    <3>5. QED
      BY <3>2, <3>3, <3>4
  <2>2. first \in Pins
    BY <1>2, <1>3, Zenon DEF Pins
  <2>3. QED
    BY <1>3, <2>1, <2>2
<1>5. r = [q EXCEPT !.trail = t, !.first = first]
  BY <1>3 DEF Told
<1>6. r \in BatchType
  <2>1. [q EXCEPT !.trail = t] \in BatchType
    BY <1>4, Updates
  <2>2. QED
    BY <1>4, <1>5, <2>1, Updates
<1>7. /\ r.mode = q.mode /\ r.provider = q.provider /\ r.pinned = q.pinned /\ r.tail = q.tail /\ r.first = first
      /\ r.route = q.route /\ r.trail = t /\ r.place = q.place
  BY <1>5, SMT DEF BatchType
<1>8. OnRoute(r) /\ OnlyLast(r)
  BY <1>1, <1>2, <1>3, <1>7, StaysOnRoute
<1>9. Routed(r)
  <2>1. CASE q.pinned = None
    BY <1>1, <1>7, <2>1, Zenon DEF Routed
  <2>2. CASE q.pinned # None
    <3>1. first = q.first
      BY <1>1, <1>3, <2>2 DEF Routed
    <3>2. Behind(q) => Behind(r)
      BY <1>7, Zenon DEF Behind
    <3>3. QED
      BY <1>1, <1>7, <2>2, <3>1, <3>2, Zenon DEF Routed
  <2>3. QED
    BY <2>1, <2>2
<1>10. Answered(r)
  BY <1>4, <1>7, Zenon DEF Answered
<1>11. FirstSeen(r)
  BY <1>1, <1>3, <1>4, <1>7, <1>10 DEF FirstSeen, NoneSeen
<1>12. QED
  BY <1>6, <1>8, <1>9, <1>10, <1>11, Zenon DEF WalkInv, UnderWay, AtGuard

\* The batch that PassBy leaves at the open circuit of a forced provider.
Refused(q, name) == [q EXCEPT !.trail = <<Entry(name, "skipped")>>, !.last = "circuit_open"]

LEMMA ForcedWalks ==
  ASSUME NEW q \in BatchType, NEW b, WalkInv(q, "walk", b), q.place = "forced", NEW r, r = Refused(q, Head(q.todo))
  PROVE  r \in BatchType /\ WalkInv(r, "close", None)
<1>1. OnRoute(q) /\ Unanswered(q) /\ Ahead(q) /\ Routed(q) /\ NoneSeen(q)
  BY DEF WalkInv, UnderWay
<1>2. PICK name, last : name = Head(q.todo) /\ last = "circuit_open"
  OBVIOUS
<1>3. name \in Names /\ "skipped" \in Hows /\ last \in Lasts
  BY <1>1, <1>2, NextOnRoute DEF Hows, Lasts
<1>4. PICK t : t = <<Entry(name, "skipped")>>
  OBVIOUS
<1>5. /\ t \in Trails /\ t # <<>> /\ Len(t) = 1 /\ DOMAIN t = {1} /\ t[1].name = name /\ t[1].how = "skipped"
  <2>1. /\ Entry(name, "skipped") \in [name : Names, how : Hows]
        /\ Entry(name, "skipped").name = name /\ Entry(name, "skipped").how = "skipped"
    BY <1>3 DEF Entry
  <2>2. PICK e : e = Entry(name, "skipped")
    OBVIOUS
  <2>3. t = <<e>> /\ e \in [name : Names, how : Hows] /\ e.name = name /\ e.how = "skipped"
    BY <1>4, <2>1, <2>2
  <2>4. QED
    BY <2>3 DEF Trails
<1>6. r = [q EXCEPT !.trail = t, !.last = last]
  BY <1>2, <1>4 DEF Refused
<1>7. r \in BatchType
  <2>1. [q EXCEPT !.trail = t] \in BatchType
    BY <1>5, Updates
  <2>2. QED
    BY <1>3, <1>6, <2>1, Updates
<1>8. /\ r.mode = q.mode /\ r.provider = q.provider /\ r.pinned = q.pinned /\ r.tail = q.tail /\ r.first = q.first
      /\ r.route = q.route /\ r.trail = t /\ r.place = q.place
  BY <1>6, Zenon DEF BatchType
<1>9. q.pinned = None /\ q.provider # "auto" /\ q.route = <<q.provider>>
  BY <1>1, Zenon DEF Routed
<1>10. Len(q.route) = 1 /\ DOMAIN q.route = {1}
  BY <1>9
<1>11. q.route[1] = name
  <2>1. /\ Len(q.trail) + 1 \in DOMAIN q.route /\ q.route[Len(q.trail) + 1] = name
    BY <1>1, <1>2, NextOnRoute
  <2>2. PICK n : n = Len(q.trail) + 1
    OBVIOUS
  <2>3. n = 1
    BY <1>10, <2>1, <2>2
  <2>4. QED
    BY <2>1, <2>2, <2>3
<1>12. OnRoute(r) /\ OnlyLast(r)
  BY <1>5, <1>8, <1>10, <1>11 DEF OnRoute, OnlyLast
<1>13. Routed(r)
  BY <1>1, <1>8, <1>9, Zenon DEF Routed
<1>14. ~Answered(r)
  BY <1>5, <1>8 DEF Answered
<1>15. FirstSeen(r)
  BY <1>1, <1>8, <1>14, Zenon DEF FirstSeen, NoneSeen
<1>16. QED
  BY <1>5, <1>7, <1>8, <1>10, <1>12, <1>13, <1>15, Zenon DEF WalkInv, UnderWay, AtGuard

-----------------------------------------------------------------------------
(* Between queries. *)

\* What chain_tail_after returns stands behind the name in the route.
LEMMA TailBehind ==
  ASSUME NEW route \in Seq(Names), NEW n \in DOMAIN route, NEW name, route[n] = name, NEW t, t = TailAfter(route, name)
  PROVE  /\ t \in Seq(Names)
         /\ \E i \in DOMAIN route : route[i] = name /\ \A k \in DOMAIN t : i + k \in DOMAIN route /\ t[k] = route[i + k]
<1>1. PICK i : i = (CHOOSE j \in DOMAIN route : route[j] = name)
  OBVIOUS
<1>2. i \in DOMAIN route /\ route[i] = name
  BY <1>1, Zenon
<1>3. PICK l : l = Len(route)
  OBVIOUS
<1>4. l \in Nat /\ DOMAIN route = 1 .. l /\ \A j \in 1 .. l : route[j] \in Names
  BY <1>3, LenProperties
<1>5. t = SubSeq(route, i + 1, l)
  BY <1>1, <1>3, Zenon DEF TailAfter
<1>6. i + 1 \in Int /\ l \in Int /\ \A j \in (i + 1) .. l : route[j] \in Names
  BY <1>2, <1>4, SMT
<1>7. /\ t \in Seq(Names) /\ Len(t) = IF i + 1 <= l THEN l - (i + 1) + 1 ELSE 0
      /\ \A k \in 1 .. l - (i + 1) + 1 : t[k] = route[(i + 1) + k - 1]
  BY <1>5, <1>6, SubSeqProperties
<1>8. DOMAIN t = 1 .. Len(t)
  BY <1>7, LenProperties
<1>9. ASSUME NEW k \in DOMAIN t PROVE i + k \in DOMAIN route /\ t[k] = route[i + k]
  <2>1. k \in 1 .. l - (i + 1) + 1 /\ (i + 1) + k - 1 = i + k /\ i + k \in 1 .. l
    BY <1>2, <1>4, <1>7, <1>8, <1>9, SMT
  <2>2. QED
    BY <1>4, <1>7, <2>1
<1>10. QED
  BY <1>2, <1>7, <1>9

\* A query that was answered leaves a pin its batch keeps to.
LEMMA PinReady ==
  ASSUME NEW q \in BatchType, OnRoute(q), Routed(q), FirstSeen(q), Answered(q), NEW r, r = Pin(q)
  PROVE  r \in BatchType /\ Ready(r)
<1>1. CASE ~ (q.mode = "pin_on_first_success" /\ q.pinned = None)
  <2>1. r = q
    BY <1>1, Zenon DEF Pin
  <2>2. QED
    BY <1>1, <2>1, Zenon DEF Routed, Ready
<1>2. CASE q.mode = "pin_on_first_success" /\ q.pinned = None
  <2>1. PICK n, used, t : n = Len(q.trail) /\ used = q.trail[n].name /\ t = TailAfter(q.route, used)
    OBVIOUS
  <2>2. n \in DOMAIN q.trail
    <3>1. q.trail \in Trails /\ q.trail # <<>> /\ DOMAIN q.trail = 1 .. n
      BY <2>1, Sequences DEF Answered
    <3>2. n \in Nat \ {0}
      BY <2>1, <3>1, EmptySeq DEF Trails
    <3>3. QED
      BY <3>1, <3>2, SMT
  <2>3. n \in DOMAIN q.route /\ q.route[n] = used
    BY <2>1, <2>2, Zenon DEF OnRoute
  <2>4. q.route \in Seq(Names)
    BY Sequences
  <2>5. used \in Names
    BY <2>3, <2>4, LenProperties
  <2>6. t \in Seq(Names)
    BY <2>1, <2>3, <2>4, TailBehind
  <2>7. PICK i \in DOMAIN q.route : q.route[i] = used /\ \A k \in DOMAIN t : i + k \in DOMAIN q.route /\ t[k] = q.route[i + k]
    BY <2>1, <2>3, <2>4, TailBehind
  <2>8. r = [q EXCEPT !.pinned = used, !.tail = t]
    BY <1>2, <2>1, Zenon DEF Pin
  <2>9. r \in BatchType
    <3>1. used \in Pins
      BY <2>5 DEF Pins
    <3>2. [q EXCEPT !.pinned = used] \in BatchType
      BY <3>1, Updates
    <3>3. QED
      BY <2>6, <2>8, <3>2, Updates
  <2>10. r.mode = q.mode /\ r.first = q.first /\ r.pinned = used /\ r.tail = t
    BY <2>8, Zenon DEF BatchType
  <2>11. used = q.first /\ used # None
    BY <1>2, <2>1, <2>5, ChainTyped, Zenon DEF FirstSeen
  <2>12. Behind(r)
    <3>1. SUFFICES ASSUME NEW a \in DOMAIN Chain, NEW j \in DOMAIN Chain, Chain[a] = used, j < a, NEW k \in DOMAIN t
                   PROVE  t[k] # Chain[j]
      BY <2>10, Zenon DEF Behind
    <3>2. k \in Nat \ {0} /\ i \in Nat \ {0} /\ j \in Nat
      <4>1. DOMAIN t = 1 .. Len(t) /\ DOMAIN q.route = 1 .. Len(q.route) /\ DOMAIN Chain = 1 .. Len(Chain)
        BY <2>6, ChainTyped, Sequences, LenProperties
      <4>2. QED
        BY <3>1, <4>1, SMT
    <3>3. i + k \in DOMAIN q.route /\ t[k] = q.route[i + k]
      BY <2>7, <3>1
    <3>4. CASE q.provider = "auto"
      <4>1. q.route = Chain
        BY <1>2, <3>4, Zenon DEF Routed
      <4>2. i = a
        BY <2>7, <3>1, <4>1, ChainTyped
      <4>3. i + k # j
        BY <3>1, <3>2, <4>2, SMT
      <4>4. QED
        BY <3>1, <3>3, <4>1, <4>3, ChainTyped
    <3>5. CASE q.provider # "auto"
      <4>1. q.route = <<q.provider>>
        BY <1>2, <3>5, Zenon DEF Routed
      <4>2. DOMAIN q.route = {1}
        BY <4>1
      <4>3. i = 1 /\ i + k = 1
        BY <3>3, <4>2
      <4>4. QED
        BY <3>2, <4>3, SMT
    <3>6. QED
      BY <3>4, <3>5
  <2>13. QED
    BY <1>2, <2>9, <2>10, <2>11, <2>12, Zenon DEF Ready
<1>3. QED
  BY <1>1, <1>2

\* A query that got none leaves none.
LEMMA NoneReady ==
  ASSUME NEW q \in BatchType, Routed(q), FirstSeen(q), ~Answered(q)
  PROVE  Ready(q)
  BY Zenon DEF Routed, FirstSeen, Ready

\* A batch that begins.
LEMMA NewBatchWalks ==
  ASSUME NEW mode \in {"pin_on_first_success", "per_query"}, NEW provider \in {"auto"} \cup Backends,
         NEW r, r = NewBatch(mode, provider)
  PROVE  r \in BatchType /\ WalkInv(r, "walk", None)
<1>1. PICK q : q = [mode |-> mode, provider |-> provider, query |-> 1, pinned |-> None, tail |-> <<>>,
                    place |-> "chain", todo |-> <<>>, route |-> <<>>, trail |-> <<>>, last |-> "none",
                    first |-> None]
  OBVIOUS
<1>2. q \in BatchType
  <2>1. 1 \in 1 .. Queries
    BY RoutingAssumption, SMT
  <2>2. QED
    BY <1>1, <2>1, SMT DEF BatchType, Places
<1>3. Ready(q)
  BY <1>1, Zenon DEF Ready
<1>4. r = Ask(q) /\ 1 \in 1 .. Queries
  BY <1>1, RoutingAssumption, SMT DEF NewBatch
<1>5. r \in BatchType /\ Asked(r, q)
  BY <1>2, <1>4, AskAsks
<1>6. QED
  BY <1>2, <1>3, <1>5, AskedWalks

-----------------------------------------------------------------------------
(* The callers and their batches. *)

Batches ==
  /\ batch \in [Callers -> BatchType]
  /\ tries \in [Direct -> 0 .. Attempts]
  /\ \A c \in Callers : WalkInv(batch[c], pc[c], target[c])

\* A step of one caller leaves the batches of the others alone.
LEMMA CallerMoves ==
  ASSUME Batches, Asking, NEW c \in Callers, NEW r \in BatchType, NEW p, NEW b, WalkInv(r, p, b),
         batch' = [batch EXCEPT ![c] = r], Goto(c, p, b), UNCHANGED tries
  PROVE  Batches'
<1>1. batch' \in [Callers -> BatchType] /\ batch'[c] = r
  BY DEF Batches
<1>2. c \in Threads /\ Callers \subseteq Threads /\ pc'[c] = p /\ target'[c] = b
  BY Zenon DEF Asking, Goto, Threads
<1>3. ASSUME NEW a \in Callers PROVE WalkInv(batch'[a], pc'[a], target'[a])
  <2>1. CASE a = c
    BY <1>1, <1>2, <2>1, Zenon
  <2>2. CASE a # c
    <3>1. batch'[a] = batch[a] /\ pc'[a] = pc[a] /\ target'[a] = target[a]
      BY <1>2, <2>2, Zenon DEF Batches, Asking, Goto
    <3>2. QED
      BY <3>1, Zenon DEF Batches
  <2>3. QED
    BY <2>1, <2>2
<1>4. QED
  BY <1>1, <1>3, Zenon DEF Batches

\* Nor does a step of a direct search touch one.
LEMMA DirectMoves ==
  ASSUME Batches, Asking, NEW d \in Direct, NEW p, NEW b, Goto(d, p, b), UNCHANGED batch, tries' \in [Direct -> 0 .. Attempts]
  PROVE  Batches'
<1>1. ASSUME NEW a \in Callers PROVE pc'[a] = pc[a] /\ target'[a] = target[a]
  <2>1. a # d /\ a \in Threads
    BY RoutingAssumption DEF Threads
  <2>2. QED
    BY <2>1, Zenon DEF Asking, Goto
<1>2. QED
  BY <1>1, Zenon DEF Batches

LEMMA OverBatches ==
  ASSUME Batches, Asking, NEW c \in Callers, Over(c), UNCHANGED tries
  PROVE  Batches'
<1>1. PICK r : r = NewBatch("per_query", "auto")
  OBVIOUS
<1>2. r \in BatchType
  BY <1>1, NewBatchWalks
<1>3. WalkInv(r, "idle", None)
  BY Zenon DEF WalkInv, UnderWay, AtGuard
<1>4. batch' = [batch EXCEPT ![c] = r] /\ Goto(c, "idle", None)
  BY <1>1, Zenon DEF Over
<1>5. QED
  BY <1>2, <1>3, <1>4, CallerMoves

LEMMA RecordedBatches ==
  ASSUME Batches, Asking, NEW c \in Callers, pc[c] \in UnderWay, NEW how \in {"skipped", "failed"}, NEW err \in Lasts,
         Recorded(c, Head(batch[c].todo), how, err), UNCHANGED tries
  PROVE  Batches'
<1>1. PICK q, r : q = batch[c] /\ r = Passed(q, Head(q.todo), how, err)
  OBVIOUS
<1>2. q \in BatchType /\ WalkInv(q, pc[c], target[c])
  BY <1>1, Zenon DEF Batches
<1>3. r \in BatchType /\ WalkInv(r, IF Rest(q) = <<>> THEN "close" ELSE "walk", None)
  BY <1>1, <1>2, PassedWalks
<1>4. batch' = [batch EXCEPT ![c] = r] /\ Goto(c, IF Rest(q) = <<>> THEN "close" ELSE "walk", None)
  BY <1>1, Zenon DEF Recorded, Passed, Rest
<1>5. QED
  BY <1>3, <1>4, CallerMoves

-----------------------------------------------------------------------------
LEMMA StartBatchBatches ==
  ASSUME Batches, Asking, NEW c \in Callers, StartBatch(c)
  PROVE  Batches'
<1>1. PICK mode \in {"pin_on_first_success", "per_query"}, provider \in {"auto"} \cup Backends :
        batch' = [batch EXCEPT ![c] = NewBatch(mode, provider)]
  BY DEF StartBatch
<1>2. PICK r : r = NewBatch(mode, provider)
  OBVIOUS
<1>3. r \in BatchType /\ WalkInv(r, "walk", None)
  BY <1>2, NewBatchWalks
<1>4. batch' = [batch EXCEPT ![c] = r] /\ Goto(c, "walk", None) /\ UNCHANGED tries
  BY <1>1, <1>2, Zenon DEF StartBatch
<1>5. QED
  BY <1>3, <1>4, CallerMoves

LEMMA PassByBatches ==
  ASSUME Batches, Asking, NEW c \in Callers, PassBy(c)
  PROVE  Batches'
<1>1. PICK q, name : q = batch[c] /\ name = Head(q.todo)
  OBVIOUS
<1>2. q \in BatchType /\ WalkInv(q, "walk", target[c]) /\ pc[c] = "walk" /\ UNCHANGED tries
  BY <1>1, Zenon DEF Batches, PassBy
<1>3. pc[c] \in UnderWay /\ {"none", "circuit_open", "not_configured"} \subseteq Lasts
  BY <1>2 DEF UnderWay, Lasts
<1>4. CASE Recorded(c, name, "skipped", "none")
  BY <1>1, <1>2, <1>3, <1>4, RecordedBatches
<1>5. CASE Recorded(c, name, "failed", IF name \in Configured THEN "circuit_open" ELSE "not_configured")
  BY <1>1, <1>2, <1>3, <1>5, RecordedBatches
<1>6. CASE Over(c)
  BY <1>2, <1>6, OverBatches
<1>7. CASE /\ q.place = "forced" /\ Goto(c, "close", None)
           /\ batch' = [batch EXCEPT ![c].trail = <<Entry(name, "skipped")>>, ![c].last = "circuit_open"]
  <2>1. PICK r : r = Refused(q, name)
    OBVIOUS
  <2>2. r \in BatchType /\ WalkInv(r, "close", None)
    BY <1>1, <1>2, <1>7, <2>1, ForcedWalks
  <2>3. batch' = [batch EXCEPT ![c] = r]
    <3>1. batch = [a \in Callers |-> batch[a]]
      BY DEF Batches
    <3>2. QED
      BY <1>1, <1>7, <2>1, <3>1, Zenon DEF Refused
  <2>4. QED
    BY <1>2, <1>7, <2>2, <2>3, CallerMoves
<1>8. QED
  BY <1>1, <1>4, <1>5, <1>6, <1>7, Zenon DEF PassBy

LEMMA ChooseBatches ==
  ASSUME Batches, Asking, NEW c \in Callers, Choose(c)
  PROVE  Batches'
<1>1. PICK q : q = batch[c]
  OBVIOUS
<1>2. q \in BatchType /\ WalkInv(q, "walk", target[c]) /\ UNCHANGED tries /\ Goto(c, "admit", Head(q.todo)) /\ UNCHANGED batch
  BY <1>1, Zenon DEF Batches, Choose
<1>3. WalkInv(q, "admit", Head(q.todo))
  BY <1>2 DEF WalkInv, UnderWay, AtGuard
<1>4. batch' = [batch EXCEPT ![c] = q]
  BY <1>1, <1>2 DEF Batches
<1>5. QED
  BY <1>2, <1>3, <1>4, CallerMoves

LEMMA CloseBatches ==
  ASSUME Batches, Asking, NEW c \in Callers, Close(c)
  PROVE  Batches'
<1>1. PICK q, s, r :
        q = batch[c] /\ s = (IF Answered(q) THEN Pin(q) ELSE q) /\ r = [Ask(s) EXCEPT !.query = q.query + 1]
  OBVIOUS
<1>2. q \in BatchType /\ WalkInv(q, "close", target[c]) /\ UNCHANGED tries
  BY <1>1, Zenon DEF Batches, Close
<1>3. OnRoute(q) /\ Routed(q) /\ FirstSeen(q)
  BY <1>2 DEF WalkInv
<1>4. CASE Over(c)
  BY <1>2, <1>4, OverBatches
<1>5. CASE q.query # Queries /\ Goto(c, "walk", None) /\ batch' = [batch EXCEPT ![c] = r]
  <2>1. s \in BatchType /\ Ready(s)
    BY <1>1, <1>2, <1>3, PinReady, NoneReady
  <2>2. q.query + 1 \in 1 .. Queries
    <3>1. q.query \in 1 .. Queries
      BY <1>2, Zenon DEF BatchType
    <3>2. QED
      BY <1>5, <3>1, RoutingAssumption, SMT
  <2>3. r \in BatchType /\ Asked(r, s)
    BY <1>1, <2>1, <2>2, AskAsks, Zenon
  <2>4. WalkInv(r, "walk", None)
    BY <2>1, <2>3, AskedWalks
  <2>5. QED
    BY <1>2, <1>5, <2>3, <2>4, CallerMoves
<1>6. QED
  BY <1>1, <1>4, <1>5, Zenon DEF Close

\* A request that gets no answer, and one that gets one.
LEMMA FailsBatches ==
  ASSUME Batches, Asking, NEW t \in Threads, pc[t] \in AtGuard,
         NEW err \in {"rate_limit_exceeded", "circuit_open", "failed"}, Fails(t, err)
  PROVE  Batches'
<1>1. CASE t \in Callers /\ Recorded(t, target[t], "failed", err) /\ UNCHANGED tries
  <2>1. target[t] = Head(batch[t].todo) /\ pc[t] \in UnderWay
    BY <1>1 DEF Batches, WalkInv, UnderWay
  <2>2. err \in Lasts
    BY DEF Lasts
  <2>3. QED
    BY <1>1, <2>1, <2>2, RecordedBatches
<1>2. CASE t \in Direct /\ DirectFails(t, err) /\ UNCHANGED batch
  <2>1. tries' \in [Direct -> 0 .. Attempts]
    BY <1>2, RoutingAssumption, SMT DEF DirectFails, Batches
  <2>2. Goto(t, "admit", Cse) \/ Goto(t, "idle", None)
    BY <1>2 DEF DirectFails
  <2>3. QED
    BY <1>2, <2>1, <2>2, DirectMoves
<1>3. QED
  BY <1>1, <1>2 DEF Fails

LEMMA AnswersBatches ==
  ASSUME Batches, Asking, NEW t \in Threads, pc[t] \in AtGuard, Answers(t)
  PROVE  Batches'
<1>1. CASE /\ t \in Callers /\ Goto(t, "close", None) /\ UNCHANGED tries
           /\ batch' = [batch EXCEPT ![t].trail = Append(@, Entry(target[t], "answered")),
                                     ![t].first = IF @ = None THEN target[t] ELSE @]
  <2>1. PICK q, r : q = batch[t] /\ r = Told(q, target[t])
    OBVIOUS
  <2>2. q \in BatchType /\ WalkInv(q, pc[t], target[t])
    BY <1>1, <2>1, Zenon DEF Batches
  <2>3. r \in BatchType /\ WalkInv(r, "close", None)
    BY <2>1, <2>2, AnsweredWalks
  <2>4. batch' = [batch EXCEPT ![t] = r]
    <3>1. batch = [a \in Callers |-> batch[a]]
      BY DEF Batches
    <3>2. QED
      BY <1>1, <2>1, <3>1, Zenon DEF Told
  <2>5. QED
    BY <1>1, <2>3, <2>4, CallerMoves
<1>2. CASE t \in Direct /\ Goto(t, "idle", None) /\ tries' = [tries EXCEPT ![t] = 0] /\ UNCHANGED batch
  <2>1. tries' \in [Direct -> 0 .. Attempts]
    BY <1>2, RoutingAssumption, SMT DEF Batches
  <2>2. QED
    BY <1>2, <2>1, DirectMoves
<1>3. QED
  BY <1>1, <1>2 DEF Answers

\* A request that moves on to the next guard.
LEMMA GuardBatches ==
  ASSUME Batches, Asking, NEW t \in Threads, pc[t] \in AtGuard, NEW p \in AtGuard, Goto(t, p, target[t]), UNCHANGED <<batch, tries>>
  PROVE  Batches'
<1>1. CASE t \in Callers
  <2>1. PICK q, b : q = batch[t] /\ b = target[t]
    OBVIOUS
  <2>2. q \in BatchType /\ WalkInv(q, pc[t], b) /\ batch' = [batch EXCEPT ![t] = q]
    BY <1>1, <2>1 DEF Batches
  <2>3. p \in UnderWay /\ pc[t] \in UnderWay /\ p # "close" /\ p # "idle" /\ pc[t] # "idle"
    BY DEF UnderWay, AtGuard
  <2>4. WalkInv(q, p, b)
    BY <2>2, <2>3, Zenon DEF WalkInv
  <2>5. QED
    BY <1>1, <2>1, <2>2, <2>4, CallerMoves
<1>2. CASE t \in Direct
  BY <1>2, DirectMoves DEF Batches
<1>3. QED
  BY <1>1, <1>2 DEF Threads

LEMMA RequestStepBatches ==
  ASSUME Batches, Asking, NEW t \in Threads, RequestStep(t)
  PROVE  Batches'
<1>1. pc[t] \in AtGuard /\ "enter" \in AtGuard /\ "calling" \in AtGuard
  BY DEF RequestStep, Admit, Enter, Respond, AtGuard
<1>2. \/ \E p \in {"enter", "calling"} : Goto(t, p, target[t]) /\ UNCHANGED <<batch, tries>>
      \/ \E err \in {"rate_limit_exceeded", "circuit_open", "failed"} : Fails(t, err)
      \/ Answers(t)
  BY Zenon DEF RequestStep, Admit, Enter, Respond
<1>3. QED
  BY <1>1, <1>2, GuardBatches, FailsBatches, AnswersBatches

LEMMA NextBatches == Asking /\ Batches /\ [Next]_vars => Batches'
<1>1. SUFFICES ASSUME Asking, Batches, [Next]_vars PROVE Batches'
  OBVIOUS
<1>2. CASE \E c \in Callers : StartBatch(c) \/ BatchStep(c)
  <2>1. PICK c \in Callers : StartBatch(c) \/ BatchStep(c)
    BY <1>2
  <2>2. CASE Reject(c)
    BY <1>1, <2>2, OverBatches DEF Reject
  <2>3. QED
    BY <1>1, <2>1, <2>2, StartBatchBatches, PassByBatches, ChooseBatches, CloseBatches DEF BatchStep
<1>3. CASE \E d \in Direct : StartDirect(d)
  <2>1. PICK d \in Direct : StartDirect(d)
    BY <1>3
  <2>2. tries' \in [Direct -> 0 .. Attempts]
    BY <1>1, <2>1, RoutingAssumption, SMT DEF StartDirect, Batches
  <2>3. QED
    BY <1>1, <2>1, <2>2, DirectMoves DEF StartDirect
<1>4. CASE \E t \in Threads : RequestStep(t)
  BY <1>1, <1>4, RequestStepBatches
<1>5. CASE UNCHANGED <<pc, target, batch, tries>>
  BY <1>1, <1>5, Zenon DEF Batches
<1>6. QED
  BY <1>1, <1>2, <1>3, <1>4, <1>5, Zenon DEF Next, Time, vars

LEMMA InitBatches == Init => Batches
<1>1. SUFFICES ASSUME Init PROVE Batches
  OBVIOUS
<1>2. PICK r : r = NewBatch("per_query", "auto")
  OBVIOUS
<1>3. r \in BatchType
  BY <1>2, NewBatchWalks
<1>4. batch = [c \in Callers |-> r] /\ pc = [t \in Threads |-> "idle"]
  BY <1>1, <1>2, Zenon DEF Init
<1>5. WalkInv(r, "idle", None)
  BY Zenon DEF WalkInv, UnderWay, AtGuard
<1>6. ASSUME NEW c \in Callers PROVE WalkInv(batch[c], pc[c], target[c])
  <2>1. batch[c] = r /\ pc[c] = "idle"
    BY <1>4 DEF Threads
  <2>2. WalkInv(r, "idle", target[c])
    BY Zenon DEF WalkInv, UnderWay, AtGuard
  <2>3. QED
    BY <2>1, <2>2, Zenon
<1>7. tries \in [Direct -> 0 .. Attempts]
  BY <1>1, RoutingAssumption, SMT DEF Init
<1>8. QED
  BY <1>3, <1>4, <1>6, <1>7 DEF Batches

\* Every query of every batch works off the route its pin gives it.
THEOREM BatchInvariant == Spec => []Batches
<1>1. Init => Batches
  BY InitBatches
<1>2. RoutingInv /\ Batches /\ [Next]_vars => Batches'
  BY NextBatches DEF RoutingInv
<1>3. QED
  BY <1>1, <1>2, RoutingInvariant, PTL DEF Spec

\* The variables keep their types, the batches included: a backend that is
\* asked is registered, and no query is counted past the last.
THEOREM TypeCorrect == Spec => []TypeOK
<1>1. RoutingInv /\ Batches => TypeOK
  BY DEF RoutingInv, GuardInv, Asking, PCs, Batches, TypeOK
<1>2. QED
  BY <1>1, RoutingInvariant, BatchInvariant, PTL

LEMMA PinOfBatch ==
  ASSUME Batches, Asking, NEW c \in Callers, pc[c] # "idle", NEW q, q = batch[c], q.mode = "pin_on_first_success"
  PROVE  /\ q.pinned \in {None, q.first}
         /\ q.pinned = None /\ q.first # None => pc[c] = "close"
         /\ q.pinned # None => \A i, j \in DOMAIN Chain :
              Chain[i] = q.pinned /\ j < i => ~ \E k \in DOMAIN q.trail : q.trail[k].name = Chain[j]
<1>1. q \in BatchType /\ WalkInv(q, pc[c], target[c])
  BY Zenon DEF Batches
<1>2. OnRoute(q) /\ Routed(q)
  BY <1>1, Zenon DEF WalkInv
<1>3. pc[c] \in UnderWay \/ pc[c] = "close"
  <2>1. c \in Threads
    BY DEF Threads
  <2>2. QED
    BY <2>1 DEF Asking, PCs, UnderWay, AtGuard
<1>4. q.pinned = None /\ q.first # None => pc[c] = "close"
  BY <1>1, <1>3, Zenon DEF WalkInv, NoneSeen
<1>5. ASSUME q.pinned # None, NEW i \in DOMAIN Chain, NEW j \in DOMAIN Chain, Chain[i] = q.pinned, j < i,
             NEW k \in DOMAIN q.trail
      PROVE  q.trail[k].name # Chain[j]
  <2>1. q.trail[k].name = q.route[k] /\ k \in DOMAIN q.route
    BY <1>2, Zenon DEF OnRoute
  <2>2. Behind(q) /\ q.route = <<q.pinned>> \o q.tail
    BY <1>2, <1>5, Zenon DEF Routed
  <2>3. PICK s, t, r : s = <<q.pinned>> /\ t = q.tail /\ r = q.route
    OBVIOUS
  <2>4. q.pinned \in Names
    BY <1>1, <1>5, Zenon DEF BatchType
  <2>5. s \in Seq(Names) /\ t \in Seq(Names) /\ Len(s) = 1 /\ s[1] = q.pinned /\ Len(t) \in Nat /\ DOMAIN t = 1 .. Len(t)
    BY <1>1, <2>3, <2>4, Sequences
  <2>6. r = s \o t
    BY <2>2, <2>3, Zenon
  <2>7. /\ r \in Seq(Names) /\ Len(r) = 1 + Len(t)
        /\ \A n \in 1 .. 1 + Len(t) : r[n] = IF n <= 1 THEN s[n] ELSE t[n - 1]
    BY <2>5, <2>6, ConcatProperties
  <2>8. k \in 1 .. 1 + Len(t)
    BY <2>1, <2>3, <2>7, LenProperties
  <2>9. CASE k = 1
    <3>1. r[k] = q.pinned
      BY <2>5, <2>7, <2>8, <2>9, SMT
    <3>2. i # j
      <4>1. i \in Int /\ j \in Int
        BY ChainTyped, LenProperties, SMT
      <4>2. QED
        BY <1>5, <4>1, SMT
    <3>3. Chain[i] # Chain[j]
      BY <3>2, ChainTyped
    <3>4. QED
      BY <1>5, <2>1, <2>3, <3>1, <3>3
  <2>10. CASE k # 1
    <3>1. k - 1 \in DOMAIN t /\ ~ (k <= 1)
      BY <2>5, <2>8, <2>10, SMT
    <3>2. r[k] = t[k - 1]
      BY <2>7, <2>8, <3>1
    <3>3. t[k - 1] # Chain[j]
      BY <1>5, <2>2, <2>3, <3>1, Zenon DEF Behind
    <3>4. QED
      BY <2>1, <2>3, <3>2, <3>3
  <2>11. QED
    BY <2>9, <2>10
<1>6. QED
  BY <1>2, <1>4, <1>5 DEF Routed

\* A batch keeps to its pin, and a query without an answer has been everywhere
\* its route goes, for any chain, any number of callers and any failures.
THEOREM ChainSafe == Spec => []ChainKept
<1>1. RoutingInv /\ Batches => PinKept
  <2>1. SUFFICES ASSUME RoutingInv, Batches, NEW c \in Callers, pc[c] # "idle", batch[c].mode = "pin_on_first_success"
                 PROVE  LET q == batch[c] IN
                          /\ q.pinned \in {None, q.first}
                          /\ q.pinned = None /\ q.first # None => pc[c] = "close"
                          /\ q.pinned # None => \A i, j \in DOMAIN Chain :
                               Chain[i] = q.pinned /\ j < i => ~ \E k \in DOMAIN q.trail : q.trail[k].name = Chain[j]
    BY Zenon DEF PinKept
  <2>2. QED
    BY <2>1, PinOfBatch DEF RoutingInv
<1>2. Batches => FailsOnlyExhausted
  <2>1. SUFFICES ASSUME Batches, NEW c \in Callers, pc[c] = "close"
                 PROVE  LET q == batch[c] IN
                          /\ \A i \in DOMAIN q.trail :
                               q.trail[i].name = q.route[i] /\ (q.trail[i].how = "answered" => i = Len(q.trail))
                          /\ ~Answered(q) => Len(q.trail) = Len(q.route)
    BY Zenon DEF FailsOnlyExhausted
  <2>2. PICK q : q = batch[c]
    OBVIOUS
  <2>3. OnRoute(q) /\ OnlyLast(q) /\ (~Answered(q) => Len(q.trail) = Len(q.route))
    BY <2>1, <2>2, Zenon DEF Batches, WalkInv
  <2>4. QED
    BY <2>2, <2>3, Zenon DEF OnRoute, OnlyLast
<1>3. RoutingInv /\ Batches => ChainKept
  BY <1>1, <1>2 DEF ChainKept
<1>4. QED
  BY <1>3, RoutingInvariant, BatchInvariant, PTL
=============================================================================
