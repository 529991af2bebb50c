---------------------------- MODULE ToolSchedule ----------------------------
(***************************************************************************)
(* execute_tools_with_dependencies: rounds of calls whose references are   *)
(* all resolved, each round run in parallel under a semaphore, its results *)
(* put in their places and substituted into the calls still to come, which *)
(* may raise.                                                              *)
(***************************************************************************)
EXTENDS Naturals, Sequences, FiniteSets

CONSTANTS
    N,          \* number of calls
    Slots,      \* max_concurrency of execute_tools_parallel
    Nameless,   \* calls without a tool_name
    Literal     \* pairs of a call and one it names only in references like
                \* ${0.a.b}: it waits for that one, but they are never replaced

ASSUME ScheduleAssumption ==
    /\ N \in Nat /\ Slots \in Nat \ {0}
    /\ Nameless \subseteq 1..N

VARIABLES
    deps,       \* indices each call refers to
    pc,         \* "choose", "batch", "done" or "raised"
    executed,   \* indices taken as executed
    batch,      \* the round's calls, by index
    phase,      \* where each call of the round is
    outcome,    \* what each call of the round answered
    results,    \* results, None as <<>>
    filled      \* what the references of each call were replaced by

vars == <<deps, pc, executed, batch, phase, outcome, results, filled>>

Calls == 1..N

(* No call has the index N + 1: a reference out of range.                    *)
Indices == 1..(N + 1)

(* A result is that of the call it came from, whether the tool returned or   *)
(* raised.  One that is quoted has a field whose JSON has quotation marks of *)
(* its own (a string, a dictionary, the error of a call that failed), or     *)
(* that has no JSON; a field that is missing reads as null.                  *)
Results == [of : Calls, quoted : BOOLEAN]
None == <<>>

(* The calls whose results replace references of this one.                   *)
Replaced(i) == {d \in deps[i] : <<i, d>> \notin Literal}

Init ==
    /\ deps \in [Calls -> SUBSET Indices]
    /\ pc = "choose" /\ executed = {} /\ batch = {}
    /\ phase = [i \in Calls |-> "pending"]
    /\ outcome = [i \in Calls |-> None]
    /\ results = [i \in Calls |-> None]
    /\ filled = [i \in Calls |-> [d \in {} |-> None]]

\* mutant: one resolved reference is enough
HalfReady(i) == i \notin executed /\ (deps[i] = {} \/ deps[i] \cap executed # {})

Ready(i) == i \notin executed /\ deps[i] \subseteq executed

\* mutant: no break when nothing is ready
ChooseAgain ==
    /\ pc = "choose"
    /\ batch' = {i \in Calls : Ready(i)}
    /\ pc' = IF executed = Calls THEN "done" ELSE IF batch' = {} THEN "choose" ELSE "batch"
    /\ UNCHANGED <<deps, executed, phase, outcome, results, filled>>

(* A round: the calls that are ready, or the end when all are executed or    *)
(* none is ready (a circular reference, or one out of range).                *)
Choose ==
    /\ pc = "choose"
    /\ batch' = {i \in Calls : Ready(i)}
    /\ pc' = IF batch' = {} THEN "done" ELSE "batch"
    /\ UNCHANGED <<deps, executed, phase, outcome, results, filled>>

(* The semaphore lets the calls of a round in by their order; a call with no *)
(* tool name raises as soon as it is in.                                     *)
Start(i) ==
    /\ pc = "batch" /\ i \in batch /\ phase[i] = "pending"
    /\ \A j \in batch : j < i => phase[j] # "pending"
    /\ Cardinality({j \in batch : phase[j] = "running"}) < Slots
    /\ phase' = [phase EXCEPT ![i] = IF i \in Nameless THEN "raised" ELSE "running"]
    /\ UNCHANGED <<deps, pc, executed, batch, outcome, results, filled>>

(* The tool returns, or raises: a result either way.                         *)
Finish(i) ==
    /\ pc = "batch" /\ phase[i] = "running"
    /\ phase' = [phase EXCEPT ![i] = "answered"]
    /\ \E quoted \in BOOLEAN : outcome' = [outcome EXCEPT ![i] = [of |-> i, quoted |-> quoted]]
    /\ UNCHANGED <<deps, pc, executed, batch, results, filled>>

Rank(i, set) == Cardinality({j \in set : j < i})

\* mutant: the results are paired with the round from its end
PairedBackwards(i) ==
    {outcome[j] : j \in {k \in batch : Rank(k, batch) + Rank(i, batch) + 1 = Cardinality(batch)}}

(* gather leaves out what raised, and zip pairs what is left with the round  *)
(* from its start: the k-th result goes to the k-th call of the round.       *)
Paired(i) ==
    LET valid == {j \in batch : phase[j] = "answered"}
    IN  {outcome[j] : j \in {k \in valid : Rank(k, valid) = Rank(i, batch)}}

Taken == {i \in batch : Paired(i) # {}}
ResultOf(i) == CHOOSE r \in Paired(i) : TRUE

RoundEnds == pc = "batch" /\ \A i \in batch : phase[i] \in {"answered", "raised"}

Collect ==
    /\ RoundEnds
    /\ executed' = executed \cup Taken
    /\ results' = [i \in Calls |-> IF i \in Taken THEN ResultOf(i) ELSE results[i]]
    /\ filled' = [j \in Calls |->
         IF j \in executed' THEN filled[j]
         ELSE [d \in DOMAIN filled[j] \cup (Replaced(j) \cap Taken) |->
                 IF d \in Taken /\ d \notin DOMAIN filled[j] THEN ResultOf(d) ELSE filled[j][d]]]
    /\ phase' = [i \in Calls |-> IF i \in executed' THEN phase[i] ELSE "pending"]
    /\ pc' = "choose"
    /\ UNCHANGED <<deps, batch, outcome>>

(* A call still to come, one of a circle too, refers to a quoted result.     *)
Breaks ==
    \E i \in Taken, j \in Calls \ (executed \cup Taken) : i \in Replaced(j) /\ ResultOf(i).quoted

(* _substitute_tool_result puts the JSON of the field between the quotation  *)
(* marks of a string in the JSON of the parameters, and loads the whole: if  *)
(* the field is the quoted one, this raises out of the rounds, and all       *)
(* results are lost to the caller.                                           *)
CollectRaises ==
    /\ RoundEnds /\ Breaks
    /\ pc' = "raised"
    /\ UNCHANGED <<deps, executed, batch, phase, outcome, results, filled>>

Finished == pc \in {"done", "raised"} /\ UNCHANGED vars

Next ==
    \/ Choose \/ Collect \/ CollectRaises \/ Finished
    \/ \E i \in Calls : Start(i) \/ Finish(i)

(* The loop and the tasks of a round are driven by the event loop, and every *)
(* tool that is called returns or raises.                                    *)
Fairness == WF_vars(Choose) /\ WF_vars(Collect \/ CollectRaises)
            /\ \A i \in Calls : WF_vars(Start(i)) /\ WF_vars(Finish(i))

Spec == Init /\ [][Next]_vars /\ Fairness

-----------------------------------------------------------------------------
(* Properties *)

(* The rounds implement CallOrder when every call has a name: what a call    *)
(* has answered, while its round runs, is what stands in its place for good, *)
(* and the references of a call are replaced by the answers of just the      *)
(* calls they name before it starts, except those that are never replaced.   *)
(* A substitution that raises ends the rounds, and no call starts after it.  *)
Begun(i) == i \in executed \/ phase[i] \in {"running", "answered"}
Status(i) == IF i \in executed THEN "answered" ELSE phase[i]

Order == INSTANCE CallOrder WITH
    Answers <- Results,
    needs <- deps,
    status <- [i \in Calls |-> Status(i)],
    answer <- [i \in Calls |-> IF i \in executed THEN results[i] ELSE outcome[i]],
    given <- [i \in Calls |-> IF Begun(i) THEN filled[i] ELSE None]

ImplementsOrder == Order!OrderSpec

(* The calls that can run at all: the least set that holds every call whose  *)
(* references it holds.                                                      *)
Closed(S) == \A i \in Calls : deps[i] \subseteq S => i \in S
Runnable == {i \in Calls : \A S \in SUBSET Calls : Closed(S) => i \in S}

(* At the end just the calls that can run have run, unless a substitution    *)
(* has raised, for which some call must refer to a quoted result.            *)
EndsRight ==
    /\ pc = "done" => executed = Runnable
    /\ pc = "raised" => Breaks

(* The rounds come to an end whatever the references, circular ones and ones *)
(* out of range included, and by then just the calls that can run have run,  *)
(* or else a reference to a quoted result has stopped them.                  *)
Finishes == <>(pc \in {"done", "raised"} /\ EndsRight)
=============================================================================
