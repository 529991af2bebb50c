----------------------------- MODULE CallOrder -----------------------------
(***************************************************************************)
(* What running tool calls by their dependencies promises: every call runs *)
(* at most once, after all the calls it refers to have answered and with   *)
(* the answers they gave, and an answer is never changed afterwards.  Some *)
(* calls it only waits for.                                                *)
(***************************************************************************)
CONSTANTS
    Calls,      \* the calls of the batch
    Literal,    \* pairs of a call and one that it waits for and is not given
    Answers     \* what a call may answer

VARIABLES
    needs,      \* the calls each call refers to
    status,     \* "pending", "running" or "answered"
    answer,     \* the answer of each call that has one
    given       \* the answers each call was started with

vars == <<needs, status, answer, given>>

Unanswered == <<>>
NotStarted == <<>>

OrderInit ==
    /\ status = [i \in Calls |-> "pending"]
    /\ answer = [i \in Calls |-> Unanswered]
    /\ given = [i \in Calls |-> NotStarted]

Begin(i) ==
    /\ status[i] = "pending"
    /\ \A d \in needs[i] : d \in Calls /\ status[d] = "answered"
    /\ status' = [status EXCEPT ![i] = "running"]
    /\ given' = [given EXCEPT ![i] = [d \in {n \in needs[i] : <<i, n>> \notin Literal} |-> answer[d]]]
    /\ UNCHANGED <<needs, answer>>

Answer(i, a) ==
    /\ status[i] = "running"
    /\ status' = [status EXCEPT ![i] = "answered"]
    /\ answer' = [answer EXCEPT ![i] = a]
    /\ UNCHANGED <<needs, given>>

OrderNext == \E i \in Calls : Begin(i) \/ \E a \in Answers : Answer(i, a)
OrderSpec == OrderInit /\ [][OrderNext]_vars
=============================================================================
