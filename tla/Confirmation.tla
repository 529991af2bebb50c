---------------------------- MODULE Confirmation ----------------------------
(***************************************************************************)
(* The WebSocket manager: a call of notify_user tells all clients of a     *)
(* step and waits for the first that confirms it, while clients come and   *)
(* go, callers give up, and the server is started and stopped.             *)
(***************************************************************************)
EXTENDS FiniteSets

CONSTANTS
    Calls,          \* calls of notify_user, each with a callback_id of its own
    Clients         \* connections

Answers == {"yes", "no"}
Futures == {"pending", "cancelled"} \cup Answers

VARIABLES
    waitFor,    \* whose wait_for is called: that of Python 3.12 cancels the future when
                \* its timer fires, that of 3.11 looks at the future again
    server,     \* self.server: none, open, or closed
    admin,      \* start_server or stop_server under way
    conns,      \* active_connections
    registry,   \* callback_registry
    future,     \* confirmation_future of each call
    pc, todo,   \* of each call: where it is, the sends that have not ended
    ret,        \* what it has returned
    knows,      \* the calls a client has been told of
    accepted,   \* history: the answer that reached the future
    beaten,     \* history: calls whose timer fired when they had an answer to take
    up          \* history: start_server has returned, and no stop has begun since

serverVars == <<waitFor, server, admin, up>>
callVars == <<registry, future, pc, todo, ret>>
vars == <<waitFor, server, admin, conns, registry, future, pc, todo, ret, knows, accepted, beaten, up>>

Init ==
    /\ waitFor \in {"3.11", "3.12"}
    /\ server = "none" /\ admin = "idle" /\ up = FALSE
    /\ conns = {} /\ registry = {}
    /\ future = [c \in Calls |-> "pending"]
    /\ pc = [c \in Calls |-> "begin"]
    /\ todo = [c \in Calls |-> {}]
    /\ ret = [c \in Calls |-> "none"]
    /\ knows = [u \in Clients |-> {}]
    /\ accepted = [c \in Calls |-> "none"] /\ beaten = {}

-----------------------------------------------------------------------------
(* notify_user *)

(* Registers the callback and broadcasts to whoever is connected by now.     *)
Notify(c) ==
    /\ pc[c] = "begin"
    /\ registry' = registry \cup {c}
    /\ todo' = [todo EXCEPT ![c] = conns]
    /\ pc' = [pc EXCEPT ![c] = IF conns = {} THEN "waiting" ELSE "sending"]
    /\ UNCHANGED <<serverVars, conns, future, ret, knows, accepted, beaten>>

(* One of the broadcast's sends ends; _send_to_client swallows a failure.    *)
SendEnds(c, u) ==
    /\ pc[c] = "sending" /\ u \in todo[c]
    /\ todo' = [todo EXCEPT ![c] = @ \ {u}]
    /\ \/ u \in conns /\ knows' = [knows EXCEPT ![u] = @ \cup {c}]
       \/ UNCHANGED knows
    /\ UNCHANGED <<serverVars, conns, registry, future, pc, ret, accepted, beaten>>

Wait(c) ==
    /\ pc[c] = "sending" /\ todo[c] = {}
    /\ pc' = [pc EXCEPT ![c] = "waiting"]
    /\ UNCHANGED <<serverVars, conns, registry, future, todo, ret, knows, accepted, beaten>>

Return(c, what) ==
    /\ ret' = [ret EXCEPT ![c] = what]
    /\ pc' = [pc EXCEPT ![c] = "done"]

Answered(c) ==
    /\ pc[c] = "waiting" /\ future[c] \in Answers
    /\ Return(c, future[c])
    /\ UNCHANGED <<serverVars, conns, registry, future, todo, knows, accepted, beaten>>

\* mutant: a call that nobody was told of waits for somebody
DeadlineIfTold(c) ==
    /\ pc[c] = "waiting" /\ \E u \in Clients : c \in knows[u]
    /\ pc' = [pc EXCEPT ![c] = "expired"]
    /\ UNCHANGED <<serverVars, conns, registry, future, todo, ret, knows, accepted, beaten>>

(* The timer of wait_for fires; the call runs on some steps later.  Until it *)
(* does, it may have an answer that it has not taken.                        *)
Deadline(c) ==
    /\ pc[c] = "waiting"
    /\ pc' = [pc EXCEPT ![c] = "expired"]
    /\ future' = [future EXCEPT ![c] = IF waitFor = "3.12" /\ @ = "pending" THEN "cancelled" ELSE @]
    /\ beaten' = IF future[c] \in Answers THEN beaten \cup {c} ELSE beaten
    /\ UNCHANGED <<serverVars, conns, registry, todo, ret, knows, accepted>>

\* mutant: the result of the future is not looked at again
ExpireBlindly(c) ==
    /\ pc[c] = "expired"
    /\ Return(c, "default")
    /\ registry' = registry \ {c}
    /\ future' = [future EXCEPT ![c] = IF @ = "pending" THEN "cancelled" ELSE @]
    /\ UNCHANGED <<serverVars, conns, todo, knows, accepted, beaten>>

\* mutant: the callback is left to the confirmation that comes too late
ExpireKeeps(c) ==
    /\ pc[c] = "expired"
    /\ IF future[c] \in Answers /\ waitFor = "3.11"
       THEN Return(c, future[c]) /\ UNCHANGED future
       ELSE Return(c, "default") /\ future' = [future EXCEPT ![c] = "cancelled"]
    /\ UNCHANGED <<serverVars, conns, registry, todo, knows, accepted, beaten>>

Expire(c) ==
    /\ pc[c] = "expired"
    /\ IF future[c] \in Answers /\ waitFor = "3.11"
       THEN Return(c, future[c]) /\ UNCHANGED <<registry, future>>
       ELSE /\ Return(c, "default")
            /\ registry' = registry \ {c}
            /\ future' = [future EXCEPT ![c] = IF @ = "pending" THEN "cancelled" ELSE @]
    /\ UNCHANGED <<serverVars, conns, todo, knows, accepted, beaten>>

(* The caller is cancelled.  CancelledError is not an Exception: nothing is  *)
(* cleaned up.  wait_for of 3.11 returns an answer that is there all the     *)
(* same; both cancel the future they wait for.                               *)
GiveUp(c) ==
    /\ pc[c] \in {"sending", "waiting", "expired"}
    /\ IF pc[c] # "sending" /\ future[c] \in Answers /\ waitFor = "3.11"
       THEN Return(c, future[c]) /\ UNCHANGED future
       ELSE /\ pc' = [pc EXCEPT ![c] = "abandoned"]
            /\ future' = [future EXCEPT ![c] = IF pc[c] # "sending" /\ @ = "pending" THEN "cancelled" ELSE @]
            /\ UNCHANGED ret
    /\ todo' = [todo EXCEPT ![c] = {}]
    /\ UNCHANGED <<serverVars, conns, registry, knows, accepted, beaten>>

-----------------------------------------------------------------------------
(* Clients *)

(* _handle_confirmation: set_result raises on a future that is done, and the *)
(* callback then stays.  A client may confirm what it knows, at any time and *)
(* more than once, also after it has come back.                              *)
Confirm(u, c, answer) ==
    /\ u \in conns /\ c \in knows[u] \cap registry
    /\ future[c] = "pending"
    /\ future' = [future EXCEPT ![c] = answer]
    /\ accepted' = [accepted EXCEPT ![c] = answer]
    /\ registry' = registry \ {c}
    /\ UNCHANGED <<serverVars, conns, pc, todo, ret, knows, beaten>>

Connect(u) ==
    /\ server = "open" /\ u \notin conns
    /\ conns' = conns \cup {u}
    /\ UNCHANGED <<serverVars, callVars, knows, accepted, beaten>>

Disconnect(u) ==
    /\ u \in conns
    /\ conns' = conns \ {u}
    /\ UNCHANGED <<serverVars, callVars, knows, accepted, beaten>>

-----------------------------------------------------------------------------
(* start_server and stop_server, which the host calls one at a time *)

(* A server that is there is returned as it is.                              *)
Start ==
    /\ admin = "idle"
    /\ IF server = "none"
       THEN admin' = "starting" /\ UNCHANGED up
       ELSE up' = TRUE /\ UNCHANGED admin
    /\ UNCHANGED <<waitFor, server, conns, callVars, knows, accepted, beaten>>

StartEnds ==
    /\ admin = "starting"
    /\ admin' = "idle"
    /\ \/ server' = "open" /\ up' = TRUE
       \/ UNCHANGED <<server, up>>
    /\ UNCHANGED <<waitFor, conns, callVars, knows, accepted, beaten>>

(* The server closes its connections, and is not forgotten.                  *)
Stop ==
    /\ admin = "idle" /\ server # "none"
    /\ admin' = "stopping" /\ up' = FALSE
    /\ server' = "closed"
    /\ UNCHANGED <<waitFor, conns, callVars, knows, accepted, beaten>>

StopEnds ==
    /\ admin = "stopping" /\ conns = {}
    /\ admin' = "idle"
    /\ UNCHANGED <<waitFor, server, up, conns, callVars, knows, accepted, beaten>>

Progress(c) ==
    \/ \E u \in Clients : SendEnds(c, u)
    \/ Wait(c) \/ Answered(c) \/ Deadline(c) \/ Expire(c)

Next ==
    \/ \E c \in Calls : Notify(c) \/ Progress(c) \/ GiveUp(c)
    \/ \E u \in Clients : Connect(u) \/ Disconnect(u)
    \/ \E u \in Clients, c \in Calls, answer \in Answers : Confirm(u, c, answer)
    \/ Start \/ StartEnds \/ Stop \/ StopEnds

(* The event loop runs what can go on: a send to a client ends, for the      *)
(* library closes a connection that does not answer its pings, and a timer   *)
(* fires.  Nobody has to confirm, connect, or start a server.                *)
Spec == Init /\ [][Next]_vars /\ \A c \in Calls : WF_vars(Progress(c))

-----------------------------------------------------------------------------
(* Properties *)

TypeOK ==
    /\ waitFor \in {"3.11", "3.12"} /\ beaten \subseteq Calls
    /\ server \in {"none", "open", "closed"} /\ admin \in {"idle", "starting", "stopping"}
    /\ conns \subseteq Clients /\ registry \subseteq Calls
    /\ future \in [Calls -> Futures]
    /\ pc \in [Calls -> {"begin", "sending", "waiting", "expired", "done", "abandoned"}]
    /\ todo \in [Calls -> SUBSET Clients]
    /\ ret \in [Calls -> Answers \cup {"none", "default"}]
    /\ knows \in [Clients -> SUBSET Calls]
    /\ accepted \in [Calls -> Answers \cup {"none"}]
    /\ up \in BOOLEAN

(* A call returns the answer that was accepted for it, the first of those    *)
(* that its clients gave, and the default, which is to proceed, if none was. *)
(* With the wait_for of 3.11 that is so however close to the deadline.  With *)
(* that of 3.12 an accepted answer is lost, and taken for consent, just when *)
(* the timer fires before the call has taken it.                             *)
AnswerKept ==
    \A c \in Calls : pc[c] = "done" =>
        ret[c] = IF accepted[c] = "none" \/ (waitFor = "3.12" /\ c \in beaten)
                 THEN "default" ELSE accepted[c]

(* While a call waits, its callback is registered just as long as it has no  *)
(* answer; one that has returned has left nothing behind.                    *)
Registered ==
    \A c \in Calls :
        /\ pc[c] \in {"sending", "waiting"} => (c \in registry <=> future[c] = "pending")
        /\ pc[c] = "done" => c \notin registry

(* A caller gets its answer, whoever goes away: a step that is announced to  *)
(* nobody, for no client is connected, or to clients that vanish, does not   *)
(* hold up the task.                                                         *)
NotifyEnds ==
    \A c \in Calls : pc[c] \in {"sending", "waiting"} ~> pc[c] \in {"done", "abandoned"}

(* When start_server has returned a server, it serves.                       *)
StartedServes == up => server = "open"
=============================================================================
