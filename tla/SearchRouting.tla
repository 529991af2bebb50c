---------------------------- MODULE SearchRouting ----------------------------
(***************************************************************************)
(* The search tool's way to a backend: threads that run search_batch       *)
(* through the GroundingRouter (router.py, core.py), and threads that call *)
(* the CSE backend directly, as image, news and video searches do.  All    *)
(* share the guards of the backends (Resilience).  A batch that has ended  *)
(* is followed by another of its thread.                                   *)
(***************************************************************************)
EXTENDS Resilience, Sequences

CONSTANTS
  Callers,     \* threads that run search_batch
  Direct,      \* threads that run image, news or video searches
  Chain,       \* grounding_provider_chain, without duplicates
  Configured,  \* the backends with credentials
  Swallows,    \* backends whose request turns its exceptions into a result (gemini, grok)
  Strict,      \* backends that reject parameters by raising (grok)
  Cse,         \* google_cse
  Queries,     \* queries of a batch
  ErrorMode,   \* search_error_mode
  Attempts,    \* retry_attempts of a direct search
  None         \* no backend

Threads == Callers \cup Direct
Names == {Chain[i] : i \in DOMAIN Chain} \cup Backends

ASSUME RoutingAssumption ==
  /\ Callers \cap Direct = {}
  /\ Chain \in Seq(Names) /\ Chain # <<>>
  /\ \A i, j \in DOMAIN Chain : Chain[i] = Chain[j] => i = j
  /\ Configured \subseteq Backends /\ Cse \in Configured
  /\ Queries \in Nat \ {0} /\ Attempts \in Nat \ {0}
  /\ ErrorMode \in {"auto", "return_dict", "raise"}
  /\ None \notin Names /\ "auto" \notin Names

VARIABLES
  pc,      \* where each thread is
  target,  \* the backend it is asking, or None
  batch,   \* the batch of each caller: BatchRoutingContext and RoutingMetadata
  tries    \* attempts of each direct search

vars == <<guardVars, pc, target, batch, tries>>

\* Where a query looks: along a chain, at the pinned backend, or only at the
\* provider the call forces.
Places == {"chain", "pinned", "forced"}

\* What a query met, in the order provider_chain_attempted lists it.
Entry(name, how) == [name |-> name, how |-> how]
Answered(q) == q.trail # <<>> /\ q.trail[Len(q.trail)].how = "answered"

\* chain_tail_after
TailAfter(route, name) ==
  LET i == CHOOSE j \in DOMAIN route : route[j] = name IN SubSeq(route, i + 1, Len(route))

\* search_for_batch: where the next query of the batch looks.
Ask(q) ==
  LET fresh(place, route) ==
        [q EXCEPT !.place = place, !.todo = IF place = "pinned" THEN <<q.pinned>> ELSE route,
                  !.route = route, !.trail = <<>>, !.last = "none"]
  IN IF q.mode = "pin_on_first_success" /\ q.pinned # None
     THEN fresh("pinned", <<q.pinned>> \o q.tail)
     ELSE IF q.provider # "auto" THEN fresh("forced", <<q.provider>>)
     ELSE fresh("chain", Chain)

NewBatch(mode, provider) ==
  Ask([mode |-> mode, provider |-> provider, query |-> 1, pinned |-> None, tail |-> <<>>,
       place |-> "chain", todo |-> <<>>, route |-> <<>>, trail |-> <<>>, last |-> "none",
       first |-> None])

Init ==
  /\ GuardInit
  /\ pc = [t \in Threads |-> "idle"]
  /\ target = [t \in Threads |-> None]
  /\ batch = [c \in Callers |-> NewBatch("per_query", "auto")]
  /\ tries = [d \in Direct |-> 0]

Goto(t, where, b) == pc' = [pc EXCEPT ![t] = where] /\ target' = [target EXCEPT ![t] = b]

-----------------------------------------------------------------------------
(* A batch *)

\* _search_batch_impl begins; the mode and the provider are its arguments.
StartBatch(c) ==
  /\ pc[c] = "idle"
  /\ \E mode \in {"pin_on_first_success", "per_query"}, provider \in {"auto"} \cup Backends :
       batch' = [batch EXCEPT ![c] = NewBatch(mode, provider)]
  /\ Goto(c, "walk", None)
  /\ UNCHANGED <<guardVars, tries>>

\* The batch returns, or an exception ends it; its context goes with it.
Over(c) == Goto(c, "idle", None) /\ batch' = [batch EXCEPT ![c] = NewBatch("per_query", "auto")]

\* Recorded(c, name, how, err): a backend of the query is done with, without
\* an answer.  The query goes on with what is left, after the pinned backend
\* with the tail of the chain, whose walk starts with no result.
Recorded(c, name, how, err) ==
  LET q == batch[c]
      rest == IF q.place = "pinned" THEN q.tail ELSE Tail(q.todo)
      last == IF how = "skipped" THEN q.last ELSE err
  IN /\ batch' = [batch EXCEPT ![c] =
          [q EXCEPT !.trail = Append(@, Entry(name, how)), !.todo = rest,
                    !.last = IF q.place = "pinned" /\ rest # <<>> THEN "none" ELSE last,
                    !.place = IF @ = "pinned" THEN "chain" ELSE @]]
     /\ Goto(c, IF rest = <<>> THEN "close" ELSE "walk", None)

\* What the router asks of a backend before it calls it.
Askable(name) == name \in Configured /\ circuit[name] # "OPEN"

\* mutant: a pinned backend whose circuit is open ends the query.
PassBy_PinGivesUp(c) ==
  LET name == Head(batch[c].todo) IN
  /\ pc[c] = "walk"
  /\ ~Askable(name)
  /\ IF batch[c].place = "pinned"
     THEN /\ batch' = [batch EXCEPT ![c].trail = <<Entry(name, "failed")>>, ![c].last = "failed"]
          /\ Goto(c, "close", None)
     ELSE IF batch[c].place = "forced" /\ name \notin Configured THEN Over(c)
     ELSE IF batch[c].place = "forced"
     THEN /\ batch' = [batch EXCEPT ![c].trail = <<Entry(name, "skipped")>>, ![c].last = "circuit_open"]
          /\ Goto(c, "close", None)
     ELSE Recorded(c, name, "skipped", "none")
  /\ UNCHANGED <<guardVars, tries>>

\* A name of the chain that is unknown, has no credentials or whose circuit is
\* open is passed by.  At the pin this is a failure; a forced backend without
\* credentials raises, and its open circuit is the result.
PassBy(c) ==
  LET name == Head(batch[c].todo) IN
  /\ pc[c] = "walk"
  /\ ~Askable(name)
  /\ \/ /\ batch[c].place = "chain"
        /\ Recorded(c, name, "skipped", "none")
     \/ /\ batch[c].place = "pinned"
        /\ Recorded(c, name, "failed", IF name \in Configured THEN "circuit_open" ELSE "not_configured")
     \/ /\ batch[c].place = "forced" /\ name \notin Configured
        /\ Over(c)
     \/ /\ batch[c].place = "forced" /\ name \in Configured
        /\ batch' = [batch EXCEPT ![c].trail = <<Entry(name, "skipped")>>, ![c].last = "circuit_open"]
        /\ Goto(c, "close", None)
  /\ UNCHANGED <<guardVars, tries>>

\* The router calls the backend's search; its look at the circuit may be out
\* of date by the time the request gets to the breaker.
Choose(c) ==
  LET name == Head(batch[c].todo) IN
  /\ pc[c] = "walk"
  /\ Askable(name)
  /\ Goto(c, "admit", name)
  /\ UNCHANGED <<guardVars, batch, tries>>

\* The backend raises ValidationError over the parameters, which nobody catches.
Reject(c) ==
  /\ pc[c] = "admit" /\ target[c] \in Strict
  /\ Over(c)
  /\ UNCHANGED <<guardVars, tries>>

\* Only if no backend other than CSE is configured, and none failed.
CseOnly(q) ==
  Configured \subseteq {Cse} /\ ~ \E i \in DOMAIN q.trail : q.trail[i].how = "failed" /\ q.trail[i].name # Cse

\* _finalize_router_failure: a rate limit or an open circuit as the last result
\* raises, and so does any failure in mode raise or with CSE alone; else the
\* query gets a failure envelope.
Raises(q) ==
  \/ q.last \in {"rate_limit_exceeded", "circuit_open"}
  \/ ErrorMode = "raise"
  \/ ErrorMode = "auto" /\ CseOnly(q)

\* mutant: every query that is answered moves the pin.
Pin_Moves(q) ==
  IF q.mode = "pin_on_first_success"
  THEN LET used == q.trail[Len(q.trail)].name
       IN [q EXCEPT !.pinned = used, !.tail = TailAfter(q.route, used)]
  ELSE q

\* The first query that is answered pins its backend and the chain behind it.
Pin(q) ==
  IF q.mode = "pin_on_first_success" /\ q.pinned = None
  THEN LET used == q.trail[Len(q.trail)].name
       IN [q EXCEPT !.pinned = used, !.tail = TailAfter(q.route, used)]
  ELSE q

\* The query is over: on to the next, or the batch returns or raises.
Close(c) ==
  LET q == batch[c] IN
  /\ pc[c] = "close"
  /\ \/ /\ ~Answered(q) /\ Raises(q)
        /\ Over(c)
     \/ /\ Answered(q) \/ ~Raises(q)
        /\ IF q.query = Queries
           THEN Over(c)
           ELSE /\ Goto(c, "walk", None)
                /\ batch' = [batch EXCEPT ![c] =
                     [Ask(IF Answered(q) THEN Pin(q) ELSE q) EXCEPT !.query = q.query + 1]]
  /\ UNCHANGED <<guardVars, tries>>

-----------------------------------------------------------------------------
(* A direct search, and the request itself *)

StartDirect(d) ==
  /\ pc[d] = "idle"
  /\ Goto(d, "admit", Cse)
  /\ tries' = [tries EXCEPT ![d] = 1]
  /\ UNCHANGED <<guardVars, batch>>

\* _retry_with_backoff: all but a rate limit and an open circuit is retried.
DirectFails(d, err) ==
  IF err = "failed" /\ tries[d] < Attempts
  THEN /\ tries' = [tries EXCEPT ![d] = @ + 1]
       /\ Goto(d, "admit", Cse)
  ELSE /\ Goto(d, "idle", None)
       /\ tries' = [tries EXCEPT ![d] = 0]

\* The backend returns a failed result to whoever asked.
Fails(t, err) ==
  \/ t \in Callers /\ Recorded(t, target[t], "failed", err) /\ UNCHANGED tries
  \/ t \in Direct /\ DirectFails(t, err) /\ UNCHANGED batch

Answers(t) ==
  \/ /\ t \in Callers
     /\ batch' = [batch EXCEPT ![t].trail = Append(@, Entry(target[t], "answered")),
                               ![t].first = IF @ = None THEN target[t] ELSE @]
     /\ Goto(t, "close", None)
     /\ UNCHANGED tries
  \/ /\ t \in Direct
     /\ Goto(t, "idle", None)
     /\ tries' = [tries EXCEPT ![t] = 0]
     /\ UNCHANGED batch

\* BackendResilienceGuard.execute: the limiter first,
Admit(t) ==
  /\ pc[t] = "admit"
  /\ \/ HasToken(target[t]) /\ Acquire(target[t]) /\ Goto(t, "enter", target[t]) /\ UNCHANGED <<batch, tries>>
     \/ ~HasToken(target[t]) /\ Fails(t, "rate_limit_exceeded") /\ UNCHANGED guardVars

\* then the breaker,
Enter(t) ==
  /\ pc[t] = "enter"
  /\ \/ Admits(target[t]) /\ EnterBreaker(target[t]) /\ Goto(t, "calling", target[t]) /\ UNCHANGED <<batch, tries>>
     \/ ~Admits(target[t]) /\ Fails(t, "circuit_open") /\ UNCHANGED guardVars

\* then the request: it answers, raises into the breaker, or, in a backend that
\* turns exceptions into results itself, fails without the breaker noticing.
Respond(t) ==
  LET b == target[t] IN
  /\ pc[t] = "calling"
  /\ \/ OnSuccess(b) /\ Succeeded(b) /\ Answers(t)
     \/ OnFailure(b) /\ FailedAgain(b) /\ Fails(t, "failed")
     \/ b \in Swallows /\ OnSuccess(b) /\ FailedAgain(b) /\ Fails(t, "failed")
  /\ UNCHANGED limiterVars

Time == Tick /\ UNCHANGED <<pc, target, batch, tries>>

BatchStep(c) == PassBy(c) \/ Choose(c) \/ Reject(c) \/ Close(c)
RequestStep(t) == Admit(t) \/ Enter(t) \/ Respond(t)

Next ==
  \/ Time
  \/ \E c \in Callers : StartBatch(c) \/ BatchStep(c)
  \/ \E d \in Direct : StartDirect(d)
  \/ \E t \in Threads : RequestStep(t)

Spec == Init /\ [][Next]_vars

-----------------------------------------------------------------------------
BatchType ==
  [mode : {"pin_on_first_success", "per_query"}, provider : {"auto"} \cup Backends, query : 1 .. Queries,
   pinned : Names \cup {None}, tail : Seq(Names), place : Places, todo : Seq(Names), route : Seq(Names),
   trail : Seq([name : Names, how : {"skipped", "failed", "answered"}]),
   last : {"none", "not_configured", "circuit_open", "rate_limit_exceeded", "failed"},
   first : Names \cup {None}]

\* The values the variables range over.
TypeOK ==
  /\ GuardTypeOK
  /\ pc \in [Threads -> {"idle", "walk", "admit", "enter", "calling", "close"}]
  /\ target \in [Threads -> Backends \cup {None}]
  /\ batch \in [Callers -> BatchType]
  /\ tries \in [Direct -> 0 .. Attempts]

FailuresOpenAt(S) == \A b \in S : circuit[b] = "CLOSED" => streak[b] < Threshold

\* Threshold failures in a row leave no circuit closed, whatever the threads'
\* requests and their late results do: for the backends whose failures reach
\* the breaker as exceptions,
RaisedFailuresOpen == FailuresOpenAt(Backends \ Swallows)

\* and for all of them.
FailuresOpen == FailuresOpenAt(Backends)

\* An open circuit stays open for its timeout: a request that began before it
\* opened and answers late does not close it.
OpenLasts == [][\A b \in Backends : circuit[b] = "OPEN" /\ since[b] < Timeout => circuit'[b] = "OPEN"]_vars

\* A batch pins the backend that answered it first, and from then on asks
\* nothing that stands before it in the chain.
PinKept ==
  \A c \in Callers : LET q == batch[c] IN
    pc[c] # "idle" /\ q.mode = "pin_on_first_success" =>
      /\ q.pinned \in {None, q.first}
      /\ q.pinned = None /\ q.first # None => pc[c] = "close"
      /\ q.pinned # None => \A i, j \in DOMAIN Chain :
           Chain[i] = q.pinned /\ j < i => ~ \E k \in DOMAIN q.trail : q.trail[k].name = Chain[j]

\* A query goes without an answer only when every backend it could go to was
\* passed by or failed, in the order of the chain, and never past an answer.
FailsOnlyExhausted ==
  \A c \in Callers : LET q == batch[c] IN
    pc[c] = "close" =>
      /\ \A i \in DOMAIN q.trail : q.trail[i].name = q.route[i] /\ (q.trail[i].how = "answered" => i = Len(q.trail))
      /\ ~Answered(q) => Len(q.trail) = Len(q.route)

\* A batch keeps to its pin and to its chain, whatever circuits, limits and
\* other callers do between its look at a backend and its request.
ChainKept == PinKept /\ FailsOnlyExhausted

=============================================================================
