----------------------------- MODULE Resilience -----------------------------
(***************************************************************************)
(* The guard in front of each search backend: a token bucket and a circuit *)
(* breaker with three states (rate_limiter.py, resilience.py).  Each of    *)
(* their methods runs under its lock; a request runs between the breaker's *)
(* check and its verdict, with no lock held.                               *)
(*                                                                         *)
(* Time passes in whole seconds.  A token is counted in Window parts, so   *)
(* that a second refills MaxRequests of them and a request costs Window;   *)
(* refilling by the second is refilling lazily, as the code does, because  *)
(* the bucket only ever fills between two requests.                        *)
(***************************************************************************)
EXTENDS Naturals

CONSTANTS
  Backends,     \* the registered backends
  MaxRequests,  \* rate_limit_requests
  Window,       \* rate_limit_window, in seconds
  Threshold,    \* circuit_breaker_threshold
  Timeout       \* circuit_breaker_timeout, in seconds

ASSUME GuardAssumption ==
  /\ MaxRequests \in Nat \ {0} /\ Window \in Nat \ {0}
  /\ Threshold \in Nat \ {0} /\ Timeout \in Nat

VARIABLES
  tokens,    \* RateLimiter.tokens of each backend, in parts
  admitted,  \* request_history: how many requests the limiter admitted in the last a seconds
  circuit,   \* CircuitBreaker.state
  failures,  \* failure_count
  since,     \* seconds since last_failure_time, up to Timeout
  streak     \* failed requests in a row, as the callers see them, up to Threshold (history)

limiterVars == <<tokens, admitted>>
breakerVars == <<circuit, failures, since, streak>>
guardVars == <<limiterVars, breakerVars>>

Least(m, n) == IF m <= n THEN m ELSE n

Capacity == MaxRequests * Window

GuardInit ==
  /\ tokens = [b \in Backends |-> Capacity]
  /\ admitted = [b \in Backends |-> [a \in 0 .. Window |-> 0]]
  /\ circuit = [b \in Backends |-> "CLOSED"]
  /\ failures = [b \in Backends |-> 0]
  /\ since = [b \in Backends |-> 0]
  /\ streak = [b \in Backends |-> 0]

\* mutant: the refill forgets the size of the bucket.
Refill_NoCap == [b \in Backends |-> tokens[b] + MaxRequests]

\* _refill_tokens, for one second.
Refill == [b \in Backends |-> Least(Capacity, tokens[b] + MaxRequests)]

\* A second passes: the buckets fill, what is remembered gets older.
Tick ==
  /\ tokens' = Refill
  /\ admitted' = [b \in Backends |-> [a \in 0 .. Window |-> IF a = 0 THEN 0 ELSE admitted[b][a - 1]]]
  /\ since' = [b \in Backends |-> Least(Timeout, since[b] + 1)]
  /\ UNCHANGED <<circuit, failures, streak>>

\* mutant: a part of a token is enough.
HasToken_AnyPart(b) == tokens[b] > 0

\* RateLimiter.acquire takes a token, or raises RateLimitError.
HasToken(b) == tokens[b] >= Window

Acquire(b) ==
  /\ tokens' = [tokens EXCEPT ![b] = @ - Window]
  /\ admitted' = [admitted EXCEPT ![b] = [a \in 0 .. Window |-> admitted[b][a] + 1]]
  /\ UNCHANGED breakerVars

\* CircuitBreaker.call lets a request through unless the circuit is open and
\* the timeout has not passed; the first one after it half-opens the circuit,
\* and from then on everyone is let through.
Admits(b) == circuit[b] = "OPEN" => since[b] >= Timeout

EnterBreaker(b) ==
  /\ circuit' = [circuit EXCEPT ![b] = IF @ = "OPEN" THEN "HALF_OPEN" ELSE @]
  /\ failures' = [failures EXCEPT ![b] = IF circuit[b] = "OPEN" THEN 0 ELSE @]
  /\ UNCHANGED <<since, streak, limiterVars>>

\* mutant: any success closes the circuit.
OnSuccess_ClosesAny(b) ==
  /\ circuit' = [circuit EXCEPT ![b] = "CLOSED"]
  /\ failures' = [failures EXCEPT ![b] = 0]
  /\ UNCHANGED since

\* _on_success
OnSuccess(b) ==
  /\ circuit' = [circuit EXCEPT ![b] = IF @ = "HALF_OPEN" THEN "CLOSED" ELSE @]
  /\ failures' = [failures EXCEPT ![b] = 0]
  /\ UNCHANGED since

\* mutant: the circuit opens one failure late.
OnFailure_OffByOne(b) ==
  /\ failures' = [failures EXCEPT ![b] = @ + 1]
  /\ since' = [since EXCEPT ![b] = 0]
  /\ circuit' = [circuit EXCEPT ![b] = IF failures[b] + 1 > Threshold THEN "OPEN" ELSE @]

\* _on_failure
OnFailure(b) ==
  /\ failures' = [failures EXCEPT ![b] = @ + 1]
  /\ since' = [since EXCEPT ![b] = 0]
  /\ circuit' = [circuit EXCEPT ![b] = IF failures[b] + 1 >= Threshold THEN "OPEN" ELSE @]

Succeeded(b) == streak' = [streak EXCEPT ![b] = 0]
FailedAgain(b) == streak' = [streak EXCEPT ![b] = Least(Threshold, @ + 1)]

\* The values the variables of the guards range over.
GuardTypeOK ==
  /\ tokens \in [Backends -> 0 .. Capacity]
  /\ admitted \in [Backends -> [0 .. Window -> Nat]]
  /\ circuit \in [Backends -> {"CLOSED", "OPEN", "HALF_OPEN"}]
  /\ failures \in [Backends -> Nat]
  /\ since \in [Backends -> 0 .. Timeout]
  /\ streak \in [Backends -> 0 .. Threshold]

\* However requests and pauses alternate, no window sees more than twice
\* max_requests: a full bucket and what flows in during the window.
RateBound == \A b \in Backends : admitted[b][Window] <= 2 * MaxRequests
=============================================================================
