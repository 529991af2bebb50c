------------------------------- MODULE DslRun -------------------------------
(***************************************************************************)
(* execute_dsl_step on one program of steps, whose tasks run at Celery     *)
(* workers.  The recursion of the interpreter is a stack of the steps that *)
(* are under way, and a task is waited for no longer than its timeout.     *)
(***************************************************************************)
EXTENDS Naturals, Sequences

CONSTANTS
    Programs,   \* functions from names to steps, with the first step at Root
    Root,
    Outcomes,   \* what the callback that runs a task may do
    MaxOverdue  \* bound: tasks that go on after their timeout

(* A step has a kind, the steps it runs (then, sequence or loop), those of   *)
(* its else, stop_on_failure, max_iterations and a condition.  A condition   *)
(* is on what the run was given, which does not change, or on result[at].    *)
Kinds == {"task", "parallel", "sequence", "if", "loop", "unknown"}
Always == [on |-> "nothing"]

ASSUME ProgramAssumption ==
    /\ \A p \in Programs : Root \in DOMAIN p
        /\ \A n \in DOMAIN p :
            /\ p[n].kind \in Kinds /\ p[n].max \in Nat
            /\ p[n].steps \in Seq(DOMAIN p) /\ p[n].other \in Seq(DOMAIN p)
    /\ Outcomes \subseteq {"dict", "failedDict", "failedObject", "value", "raise"}
    /\ MaxOverdue \in Nat

VARIABLES
    program,
    given,      \* the value of each step's condition on context, input, intent
    stack,      \* steps under way, the outermost first
    phase,      \* what the interpreter is about to do
    at,         \* the step called
    value,      \* the TaskStepResult handed back
    results,    \* the results that conditions may refer to
    overdue,    \* tasks reported as timed out that still run
    failed,     \* history: where something has failed, under a loop or not
    covers      \* history: the kinds of step around the last exception

dslVars == <<program, given, stack, phase, at, value, results, overdue, failed, covers>>

DslInit ==
    /\ program \in Programs
    /\ given \in [DOMAIN program -> BOOLEAN]
    /\ stack = <<>> /\ phase = "call" /\ at = Root
    /\ value = [completed |-> TRUE, holds |-> "nothing"]
    /\ results = <<>> /\ overdue = 0 /\ failed = {} /\ covers = {}

Step == program[at]
Top == stack[Len(stack)]
Owner == program[Top.step]
Below == SubSeq(stack, 1, Len(stack) - 1)

(* What result[at].field == x reads: nothing of a step without a result, no  *)
(* field of a list, and the field of what a task has answered.               *)
Result(completed, holds) == [completed |-> completed, holds |-> holds]

\* mutant: the result of a step with sub-steps is their number
CountedOnly(completed, n) == Result(completed, "count")

Listed(completed, n) == Result(completed, IF n = 0 THEN "nothing" ELSE "list")

(* evaluate_condition: a condition on a result that is not there, or that is *)
(* empty, falls through to the ValueError.                                   *)
Condition(n) ==
    LET c == program[n].cond
    IN  CASE c.on = "nothing" -> "true"
          [] c.on = "given"   -> IF given[n] THEN "true" ELSE "false"
          [] c.on = "result"  ->
               IF c.at > Len(results) \/ results[c.at].holds = "nothing" THEN "raises"
               ELSE IF results[c.at].holds = "yes" THEN "true" ELSE "false"

Goto(next) == phase' = next /\ UNCHANGED <<program, given>>

(* A frame: the step, its sub-steps still to run, what those that ran have   *)
(* reported, the iterations done; hurt tells, for the properties, that a     *)
(* task below it has failed.                                                 *)
Push(rest) ==
    stack' = Append(stack, [step |-> at, rest |-> rest, told |-> <<>>, round |-> 0, hurt |-> FALSE])

(* Something fails below these frames.                                       *)
Fail(frames) ==
    /\ stack' = [i \in DOMAIN frames |-> [frames[i] EXCEPT !.hurt = TRUE]]
    /\ failed' = failed \cup
         {IF "loop" \in {program[frames[i].step].kind : i \in DOMAIN frames} THEN "inLoop" ELSE "plain"}

(* A step without sub-steps hands its result back.                           *)
Leaf(result, fails) ==
    /\ value' = result
    /\ IF fails THEN Fail(stack) ELSE UNCHANGED <<stack, failed>>
    /\ Goto("return")
    /\ UNCHANGED <<at, results, covers>>

Raise ==
    /\ covers' = {program[stack[i].step].kind : i \in DOMAIN stack}
    /\ Goto("raise")
    /\ UNCHANGED <<stack, at, value, results, failed>>

-----------------------------------------------------------------------------
(* Calls: the branches of execute_dsl_step.                                  *)

CallTask ==
    /\ phase = "call" /\ Step.kind = "task"
    /\ Goto("await")
    /\ UNCHANGED <<stack, at, value, results, overdue, failed, covers>>

(* _handle_task_step.  A dict with a step is taken for what it says, an      *)
(* exception for a failure, and anything else for the result of a task that  *)
(* is completed: a TaskStepResult that tells of a failure, too.              *)
TaskAnswers ==
    /\ phase = "await"
    /\ \E a \in Outcomes :
        \/ /\ a \in {"failedDict", "raise"}
           /\ Leaf(Result(FALSE, "nothing"), TRUE)
        \/ /\ a \in {"dict", "value"}
           /\ \E holds \in {"yes", "no", "nothing"} : Leaf(Result(TRUE, holds), FALSE)
        \/ /\ a = "failedObject"
           /\ Leaf(Result(TRUE, "list"), TRUE)
    /\ UNCHANGED overdue

(* execute_dsl_task_step gives up after task_timeout_seconds.  The step is   *)
(* reported as timed out and the task is not revoked.                        *)
TaskTimesOut ==
    /\ phase = "await" /\ overdue < MaxOverdue
    /\ overdue' = overdue + 1
    /\ Leaf(Result(FALSE, "nothing"), TRUE)

OverdueEnds ==
    /\ overdue > 0
    /\ overdue' = overdue - 1
    /\ UNCHANGED <<program, given, stack, phase, at, value, results, failed, covers>>

(* _handle_parallel_step: the batch callback answers for all tasks, or its   *)
(* exception goes on.                                                        *)
CallParallel ==
    /\ phase = "call" /\ Step.kind = "parallel"
    /\ \/ \E ok \in BOOLEAN : Leaf(Result(ok, "list"), ~ok)
       \/ Raise
    /\ UNCHANGED overdue

CallUnknown ==
    /\ phase = "call" /\ Step.kind = "unknown"
    /\ Leaf(Result(FALSE, "nothing"), TRUE)
    /\ UNCHANGED overdue

CallSequence ==
    /\ phase = "call" /\ Step.kind = "sequence"
    /\ Push(Step.steps)
    /\ Goto("next")
    /\ UNCHANGED <<at, value, results, overdue, failed, covers>>

(* _handle_if_step: a condition that cannot be evaluated is a failed step,   *)
(* a false one without an else a completed one.                              *)
CallIf ==
    /\ phase = "call" /\ Step.kind = "if"
    /\ LET verdict == Condition(at)
           branch == IF verdict = "true" THEN Step.steps ELSE Step.other
       IN  \/ /\ verdict = "raises"
              /\ Leaf(Result(FALSE, "nothing"), TRUE)
           \/ /\ verdict = "false" /\ Step.other = <<>>
              /\ Leaf(Result(TRUE, "nothing"), FALSE)
           \/ /\ verdict = "true" \/ (verdict = "false" /\ Step.other # <<>>)
              /\ Push(branch)
              /\ Goto("next")
              /\ UNCHANGED <<at, value, results, failed, covers>>
    /\ UNCHANGED overdue

CallLoop ==
    /\ phase = "call" /\ Step.kind = "loop"
    /\ Push(<<>>)
    /\ Goto("test")
    /\ UNCHANGED <<at, value, results, overdue, failed, covers>>

-----------------------------------------------------------------------------
(* The bodies of the steps that have sub-steps.                              *)

NextStep ==
    /\ phase = "next" /\ Top.rest # <<>>
    /\ at' = Head(Top.rest)
    /\ stack' = Append(Below, [Top EXCEPT !.rest = Tail(@)])
    /\ Goto("call")
    /\ UNCHANGED <<value, results, overdue, failed, covers>>

All(told) == \A i \in DOMAIN told : told[i]

\* mutant: only the last sub-step counts
LastCounts ==
    /\ phase = "next" /\ Top.rest = <<>> /\ Owner.kind \in {"sequence", "if"}
    /\ value' = Listed(Top.told = <<>> \/ Top.told[Len(Top.told)], Len(Top.told))
    /\ stack' = Below
    /\ Goto("return")
    /\ UNCHANGED <<at, results, overdue, failed, covers>>

EndBlock ==
    /\ phase = "next" /\ Top.rest = <<>> /\ Owner.kind \in {"sequence", "if"}
    /\ value' = Listed(All(Top.told), Len(Top.told))
    /\ stack' = Below
    /\ Goto("return")
    /\ UNCHANGED <<at, results, overdue, failed, covers>>

(* A loop is completed whatever its body has reported.                       *)
EndLoop(rounds) ==
    /\ value' = Listed(TRUE, rounds)
    /\ stack' = Below
    /\ Goto("return")
    /\ UNCHANGED <<at, results, overdue, failed, covers>>

EndRound ==
    /\ phase = "next" /\ Top.rest = <<>> /\ Owner.kind = "loop"
    /\ \/ /\ Owner.cond = Always
          /\ EndLoop(Top.round + 1)
       \/ /\ Owner.cond # Always
          /\ stack' = Append(Below, [Top EXCEPT !.round = @ + 1, !.told = <<>>])
          /\ Goto("test")
          /\ UNCHANGED <<at, value, results, overdue, failed, covers>>

\* mutant: a condition that cannot be evaluated is tried again
LoopRetries ==
    /\ phase = "test"
    /\ LET verdict == IF Top.round < Owner.max THEN Condition(Top.step) ELSE "false"
       IN  \/ /\ verdict = "false"
              /\ EndLoop(Top.round)
           \/ /\ verdict = "true"
              /\ stack' = Append(Below, [Top EXCEPT !.rest = Owner.steps])
              /\ Goto("next")
              /\ UNCHANGED <<at, value, results, overdue, failed, covers>>
           \/ verdict = "raises" /\ UNCHANGED dslVars

(* The head of the while: an exception in the condition leaves the loop.     *)
LoopTest ==
    /\ phase = "test"
    /\ LET verdict == IF Top.round < Owner.max THEN Condition(Top.step) ELSE "false"
       IN  \/ /\ verdict = "false"
              /\ EndLoop(Top.round)
           \/ /\ verdict = "true"
              /\ stack' = Append(Below, [Top EXCEPT !.rest = Owner.steps])
              /\ Goto("next")
              /\ UNCHANGED <<at, value, results, overdue, failed, covers>>
           \/ /\ verdict = "raises"
              /\ Raise /\ UNCHANGED overdue

(* A sub-step has returned: its result is recorded, and a sequence with      *)
(* stop_on_failure is left if it is not completed.                           *)
Record ==
    /\ phase = "return" /\ stack # <<>>
    /\ results' = Append(results, value)
    /\ LET stops == Owner.kind = "sequence" /\ Owner.stop /\ ~value.completed
       IN  stack' = Append(Below, [Top EXCEPT !.told = Append(@, value.completed),
                                              !.rest = IF stops THEN <<>> ELSE @])
    /\ Goto("next")
    /\ UNCHANGED <<at, value, overdue, failed, covers>>

\* mutant: the try is around the condition only
UnwindAll ==
    /\ phase = "raise" /\ stack # <<>>
    /\ stack' = Below
    /\ UNCHANGED <<program, given, phase, at, value, results, overdue, failed, covers>>

(* An exception goes up to the next if, which reports it as a failure of its *)
(* own, or out of the run.                                                   *)
Unwind ==
    /\ phase = "raise" /\ stack # <<>>
    /\ IF Owner.kind = "if"
       THEN /\ value' = Result(FALSE, "nothing")
            /\ Fail(Below)
            /\ Goto("return")
       ELSE /\ stack' = Below
            /\ Goto("raise")
            /\ UNCHANGED <<value, failed>>
    /\ UNCHANGED <<at, results, overdue, covers>>

End ==
    /\ phase \in {"return", "raise"} /\ stack = <<>>
    /\ Goto(IF phase = "return" THEN "returned" ELSE "raised")
    /\ UNCHANGED <<stack, at, value, results, overdue, failed, covers>>

Over == phase \in {"returned", "raised"}
Finished == Over /\ overdue = 0 /\ UNCHANGED dslVars

Interpret ==
    \/ CallTask \/ TaskAnswers \/ TaskTimesOut \/ CallParallel \/ CallUnknown
    \/ CallSequence \/ CallIf \/ CallLoop
    \/ NextStep \/ EndBlock \/ EndRound \/ LoopTest \/ Record \/ Unwind \/ End

DslNext == Interpret \/ OverdueEnds \/ Finished

(* The interpreter runs on, and a task is answered or times out.  Nothing is *)
(* assumed of a task that is overdue.                                        *)
DslSpec == DslInit /\ [][DslNext]_dslVars /\ WF_dslVars(Interpret)

-----------------------------------------------------------------------------
(* Properties *)

DslTypeOK ==
    /\ program \in Programs /\ given \in [DOMAIN program -> BOOLEAN]
    /\ stack \in Seq([step : DOMAIN program, rest : Seq(DOMAIN program), told : Seq(BOOLEAN),
                       round : Nat, hurt : BOOLEAN])
    /\ phase \in {"call", "await", "next", "test", "return", "raise", "returned", "raised"}
    /\ at \in DOMAIN program
    /\ LET Values == [completed : BOOLEAN, holds : {"nothing", "list", "yes", "no"}]
       IN  value \in Values /\ results \in Seq(Values)
    /\ overdue \in 0..MaxOverdue
    /\ failed \subseteq {"plain", "inLoop"}
    /\ covers \subseteq Kinds

(* The completed of a whole run is that of all it did: it is false just when *)
(* a task, a parallel block, a condition or an unknown step has failed, at   *)
(* any depth and in either branch, that was not in a loop.                   *)
TopTellsAll == phase = "returned" => (value.completed <=> "plain" \notin failed)

(* An exception of a parallel block or of a loop's condition never leaves    *)
(* the run when an if is around it, however deep.                            *)
IfsContain == phase = "raised" => "if" \notin covers

(* After a failure anywhere below a sequence with stop_on_failure, no other  *)
(* step of that sequence is run.                                             *)
StopsOnFailure ==
    phase = "call" /\ stack # <<>> => ~(Owner.kind = "sequence" /\ Owner.stop /\ Top.hurt)

(* The tasks of a program are run one after the other: none is sent while    *)
(* one that was sent before still runs.                                      *)
OneAtATime == phase = "await" => overdue = 0

(* Every run ends, whatever its tasks, its conditions and its loops do.      *)
Ends == <>Over
=============================================================================
