----------------------------- MODULE HybridLoop -----------------------------
(***************************************************************************)
(* One task of the HybridAgent: the plugin tool loop, the DAWP runs it     *)
(* drains (DawpRuns), the checks before it returns an answer (GvrPolicy)   *)
(* and the retries of _execute_with_retry around the whole loop.  A task   *)
(* is a single coroutine, so a step is the code between two choices of its *)
(* environment: the model's response, a tool, a verifier, a hook or a      *)
(* plugin that raises.  plugin_state outlives an attempt; the iteration    *)
(* counter and the message list start afresh.                              *)
(***************************************************************************)
EXTENDS DawpRuns, GvrPolicy

CONSTANTS
  MaxRetries,    \* retry_policy.max_retries
  HostQueues,    \* runs a host has put in the queue before the task starts
  TriggerOnce,   \* trigger_once of the on_response_trigger activation
  HostCallback   \* a dawp_result_callback is installed, and may raise

ASSUME LoopAssumption ==
  /\ MaxRetries \in Nat
  /\ HostQueues \subseteq Seq(PendingRuns)
  /\ \A q \in HostQueues : Len(q) <= MaxRuns
  /\ TriggerOnce \in BOOLEAN /\ HostCallback \in BOOLEAN

VARIABLES
  pc,          \* where the task is
  attempt,     \* attempt of execute_with_retry
  iteration,   \* iteration counter of the attempt
  outcome,     \* kind of the last ToolLoopIterationOutcome, "none" before any
  token,       \* the last thought carries the response trigger token
  drained,     \* _dawp_drained_any
  result,      \* how the task ended
  reported,    \* the last "result" event of the stream
  answeredAt,  \* runCount when the current answer was produced (history)
  abortFailed  \* a run with abort_main has ended without success (history)

loopVars == <<pc, attempt, iteration, outcome, token, drained,
              result, reported, answeredAt, abortFailed>>
vars == <<dawpVars, gvrVars, loopVars>>

Control == {"pre", "start", "drainInline", "drainEnd", "chain", "endRun",
            "loop", "iterEnd", "decide", "stop", "raised", "done"}
Outcomes == {"none", "continue", "final", "stop_match"}
Results == {"none", "answered", "max_iterations", "verification_exhausted",
            "dawp_abort_main", "short_circuit", "error"}

Goto(p) == pc' = p /\ UNCHANGED <<attempt, iteration, outcome, token, drained,
              result, reported, answeredAt, abortFailed>>

Finish(how) == pc' = "done" /\ result' = how

Init ==
  /\ consumed = 0 /\ runCount = 0 /\ triggered = FALSE
  /\ pending \in HostQueues /\ run = NoRun /\ handoff = FALSE
  /\ policy \in Policies /\ checked = {} /\ gatesRun = {}
  /\ refines = 0 /\ evidence = {}
  /\ pc = "pre" /\ attempt = 0 /\ iteration = 0 /\ outcome = "none"
  /\ token = FALSE /\ drained = FALSE
  /\ result = "none" /\ reported = "none"
  /\ answeredAt = 0 /\ abortFailed = FALSE

-----------------------------------------------------------------------------
(* Before the loop, and the start of an attempt *)

\* PRE_MAIN_LOOP: the pre_main_loop activation, if the document has one, is
\* put in the queue; a plugin may also answer the task by itself.
PreMainLoop ==
  /\ pc = "pre"
  /\ \/ Schedule(ConfigRun) /\ Goto("start")
     \/ UNCHANGED pending /\ Goto("start")
     \/ /\ Finish("short_circuit") /\ reported' = "short_circuit"
        /\ UNCHANGED <<pending, attempt, iteration, outcome, token, drained,
                 answeredAt, abortFailed>>
  /\ UNCHANGED <<consumed, runCount, triggered, run, handoff, gvrVars>>

\* _tool_loop_with_plugins: fresh messages and counter, the budget kept.
StartAttempt ==
  /\ pc = "start"
  /\ pc' = "drainEnd" /\ iteration' = 0 /\ outcome' = "none" /\ token' = FALSE
  /\ drained' = FALSE
  /\ UNCHANGED <<dawpVars, gvrVars, attempt, result, reported, answeredAt, abortFailed>>

-----------------------------------------------------------------------------
(* Draining the queue: _drain_pending_dawp_runs in its two modes *)

DrainMode == IF pc = "drainInline" THEN "inline" ELSE "on_iteration_end"
DrainPc(mode) == IF mode = "inline" THEN "drainInline" ELSE "drainEnd"

DrainNext ==
  /\ pc \in {"drainInline", "drainEnd"}
  /\ Remaining > 0 /\ Drainable(DrainMode) # {}
  /\ TakeRun(DrainMode)
  /\ pc' = "chain" /\ drained' = TRUE
  /\ UNCHANGED <<gvrVars, attempt, iteration, outcome, token,
                 result, reported, answeredAt, abortFailed>>

\* The queue holds no run to start, or the budget is spent: the drain before
\* the first round leads to the loop, the others back into the iteration.
DrainDone ==
  /\ pc \in {"drainInline", "drainEnd"}
  /\ Remaining = 0 \/ Drainable(DrainMode) = {}
  /\ Goto(IF pc = "drainInline" THEN "iterEnd"
          ELSE IF outcome = "none" THEN "loop" ELSE "decide")
  /\ UNCHANGED <<dawpVars, gvrVars>>

\* A nested round of the run: text evaluated for completion, or tool calls,
\* which never complete a step here; append shares the main message list.
ChainRound ==
  /\ pc = "chain"
  /\ \E completion \in Completions :
       /\ ChainStep(completion)
       /\ pc' = IF ChainGoesOn(completion) THEN "chain" ELSE "endRun"
  /\ reported' = "nested"
  /\ UNCHANGED <<gvrVars, attempt, iteration, outcome, token, drained,
                 result, answeredAt, abortFailed>>

\* The model or a hook raises inside the run: the finally block counts it,
\* nothing else after the chain is executed.
ChainRaises ==
  /\ pc = "chain"
  /\ CountRun
  /\ pc' = "raised" /\ abortFailed' = (abortFailed \/ run.of.abort)
  /\ UNCHANGED <<consumed, pending, triggered, handoff, gvrVars, attempt,
                 iteration, outcome, token, drained, result,
                 reported, answeredAt>>

\* The code after the chain: count the run, take the handoff message, and
\* end the task when an abort_main run has failed.
EndRun ==
  /\ pc = "endRun"
  /\ CountRun
  /\ handoff' = FALSE
  /\ abortFailed' = (abortFailed \/ (run.of.abort /\ ~run.success))
  /\ IF Aborts
     THEN Finish("dawp_abort_main") /\ reported' = "dawp_abort_main"
     ELSE pc' = DrainPc(run.of.mode) /\ UNCHANGED <<result, reported>>
  /\ UNCHANGED <<consumed, pending, triggered, gvrVars, attempt, iteration,
                 outcome, token, drained, answeredAt>>

\* A host's dawp_result_callback raises before the handoff message is taken.
CallbackRaises ==
  /\ pc = "endRun" /\ HostCallback
  /\ CountRun
  /\ pc' = "raised"
  /\ abortFailed' = (abortFailed \/ (run.of.abort /\ ~run.success))
  /\ UNCHANGED <<consumed, pending, triggered, handoff, gvrVars, attempt,
                 iteration, outcome, token, drained, result,
                 reported, answeredAt>>

-----------------------------------------------------------------------------
(* A round of the main loop *)

\* dawp_start as the sole tool call: queued if the guard allows it; with
\* other calls beside it (D13), or refused, it is an ordinary tool round.
ToolEnqueue == pending' = Append(pending, ToolRun) /\ EnqueueAllowed

\* The core iteration completes: an answer without tool calls, a batch of
\* tools, or a batch cut short by a tool_result_stop_condition.
MainRound ==
  /\ pc = "loop" /\ Remaining > 0
  /\ Consume
  /\ \E kind \in Outcomes \ {"none"} :
       /\ outcome' = kind
       /\ \/ UNCHANGED pending
          \/ kind = "continue" /\ ToolEnqueue
       /\ reported' = IF kind = "stop_match" THEN "answered" ELSE reported
  /\ token' \in BOOLEAN
  /\ drained' = FALSE /\ evidence' = {} /\ answeredAt' = runCount
  /\ pc' = "drainInline"
  /\ UNCHANGED <<runCount, triggered, run, handoff, policy, checked, gatesRun,
                 refines, attempt, iteration, result, abortFailed>>

\* The model raises, or a plugin at ON_TOOL_BATCH_END, by when dawp_start may
\* have put its run in the queue; the round is not consumed.
MainRaises ==
  /\ pc = "loop" /\ Remaining > 0
  /\ UNCHANGED pending \/ ToolEnqueue
  /\ Goto("raised")
  /\ UNCHANGED <<consumed, runCount, triggered, run, handoff, gvrVars>>

\* ON_ITERATION_END: DawpPlugin looks for the trigger token in the thought.
IterationEnd ==
  /\ pc = "iterEnd"
  /\ IF TriggerMatches(token, TriggerOnce)
     THEN triggered' = TRUE /\ Schedule(ConfigRun)
     ELSE UNCHANGED <<triggered, pending>>
  /\ Goto("drainEnd")
  /\ UNCHANGED <<consumed, runCount, run, handoff, gvrVars>>

\* Another plugin raises at ON_ITERATION_END, before DawpPlugin looked.
HookRaises ==
  /\ pc = "iterEnd"
  /\ Goto("raised")
  /\ UNCHANGED <<dawpVars, gvrVars>>

\* Tools ran, or a DAWP run followed the answer: the loop goes on.
Continue ==
  /\ pc = "decide"
  /\ outcome = "continue" \/ drained
  /\ pc' = "loop" /\ iteration' = iteration + 1
  /\ UNCHANGED <<dawpVars, gvrVars, attempt, outcome, token, drained,
                 result, reported, answeredAt, abortFailed>>

\* What a verdict does to the loop; the answer is let past to accept.
Obey(verdict, accept) ==
  /\ \/ verdict = "exit" /\ accept /\ UNCHANGED iteration
     \/ /\ verdict = "refine" /\ pc' = "loop" /\ iteration' = iteration + 1
        /\ UNCHANGED <<result, reported>>
     \/ /\ verdict = "exhausted" /\ Finish("verification_exhausted")
        /\ reported' = "verification_exhausted" /\ UNCHANGED iteration
     \/ /\ verdict = "raised" /\ pc' = "raised"
        /\ UNCHANGED <<iteration, result, reported>>
  /\ UNCHANGED <<attempt, outcome, token, drained, answeredAt, abortFailed>>

\* _handle_pre_exit_gvr on the answer.
DecideAnyway ==                        \* mutant: a run may have followed the answer
  /\ pc = "decide" /\ outcome \in {"final", "stop_match"}
  /\ \E verdict \in Verdicts :
       /\ PreExit("on_task_completed", iteration, verdict)
       /\ Obey(verdict, pc' = "stop" /\ UNCHANGED <<result, reported>>)
  /\ UNCHANGED dawpVars
Decide ==
  /\ pc = "decide" /\ outcome \in {"final", "stop_match"} /\ ~drained
  /\ \E verdict \in Verdicts :
       /\ PreExit("on_task_completed", iteration, verdict)
       /\ Obey(verdict, pc' = "stop" /\ UNCHANGED <<result, reported>>)
  /\ UNCHANGED dawpVars

\* dispatch_stop_hook_for_outcome, then the answer is returned.  A stop_match
\* has put its result event in the stream before it was checked.
StopHook ==
  /\ pc = "stop"
  /\ \E verdict \in Verdicts :
       /\ StopCheck(iteration, verdict)
       /\ Obey(verdict, /\ Finish("answered")
                        /\ reported' = IF outcome = "stop_match" THEN reported ELSE "answered")
  /\ UNCHANGED dawpVars

\* The budget is spent: the max-iterations result.
MaxIterations ==
  /\ pc = "loop" /\ Remaining = 0
  /\ Finish("max_iterations") /\ reported' = "max_iterations"
  /\ UNCHANGED <<dawpVars, gvrVars, attempt, iteration, outcome, token, drained,
                 answeredAt, abortFailed>>

\* execute_with_retry: again after a retryable error while attempts last ...
RetryForever ==                        \* mutant: the attempt is not counted
  /\ pc = "raised" /\ attempt < MaxRetries
  /\ pc' = "start"
  /\ UNCHANGED <<dawpVars, gvrVars, attempt, iteration, outcome, token, drained,
                 result, reported, answeredAt, abortFailed>>
Retry ==
  /\ pc = "raised" /\ attempt < MaxRetries
  /\ pc' = "start" /\ attempt' = attempt + 1
  /\ UNCHANGED <<dawpVars, gvrVars, iteration, outcome, token, drained,
                 result, reported, answeredAt, abortFailed>>

\* ... and otherwise the error is the task's.
GiveUp ==
  /\ pc = "raised"
  /\ Finish("error")
  /\ UNCHANGED <<dawpVars, gvrVars, attempt, iteration, outcome, token, drained,
                 reported, answeredAt, abortFailed>>

\* A finished task stays as it is.
Terminated == pc = "done" /\ UNCHANGED vars

Step ==
  \/ PreMainLoop \/ StartAttempt
  \/ DrainNext \/ DrainDone \/ ChainRound \/ ChainRaises \/ EndRun \/ CallbackRaises
  \/ MainRound \/ MainRaises \/ IterationEnd \/ HookRaises \/ Continue \/ Decide \/ StopHook
  \/ MaxIterations \/ Retry \/ GiveUp

Next == Step \/ Terminated

Spec == Init /\ [][Next]_vars

\* A coroutine that is not finished is resumed: the awaited call answers or raises.
FairSpec == Spec /\ WF_vars(Step)

-----------------------------------------------------------------------------
(* Properties *)

LoopTypeOK ==
  /\ pc \in Control /\ attempt \in 0 .. MaxRetries /\ iteration \in Nat
  /\ outcome \in Outcomes /\ token \in BOOLEAN /\ drained \in BOOLEAN
  /\ result \in Results
  /\ reported \in Results \cup {"nested"}
  /\ answeredAt \in Nat /\ abortFailed \in BOOLEAN

\* The values the state variables of the task range over.
TypeOK == DawpTypeOK /\ GvrTypeOK /\ LoopTypeOK

\* The rounds of the main loop and of all DAWP steps, over every attempt of
\* the task, come out of one budget of _max_iterations ...
BudgetShared == consumed <= Limit

\* ... which is never refilled: a retry continues with what is left.
BudgetNeverRefilled == [][consumed' >= consumed]_vars

\* A step of a DAWP run is only ever running with budget left for its next
\* round: run_prompt_chain's exit "exhausted before this step" is not reached.
StepHasBudget == pc = "chain" => Remaining > 0

\* enqueue_guard: the runs executed, waiting and in progress never exceed
\* max_runs_per_task, whatever checkpoints, tool calls and retries enqueue.
RunQuota == AdmittedRuns <= MaxRuns

\* The answer of a task comes after every DAWP run the task executed: an
\* answer given before a run is not returned after it.
AnswerAfterRuns == result = "answered" => answeredAt = runCount

\* What the stream reported last is how the task ended, although nested
\* runs and a stop_match report results of their own before.
StreamReportsResult == result \notin {"none", "error"} => reported = result

\* At most max_refines_per_goal failed verdicts send an answer back; the next
\* one ends the task with verification_exhausted.
RefinesBounded ==
  /\ refines <= MaxRefines + 1
  /\ refines = MaxRefines + 1 => result = "verification_exhausted"

\* An answer returned under a blocking verification_policy that has verifiers
\* was let past by them.
VerifiedExit ==
  result = "answered" /\ policy.when # "never" /\ policy.blocking
    /\ (policy.verifiers \/ policy.gates)
    => "policy" \in evidence

\* The gates of an iteration are evaluated once, by the registry that comes
\* to them first: the policy's, or the agent's, which a policy on stop finds
\* already run.
PolicyGatesFirst ==
  /\ policy.when \in Triggers /\ policy.gates
  /\ policy.when = "on_stop" => ~policy.agentGates
AgentGatesFirst == policy.agentGates /\ (policy.when = "on_task_completed" => ~policy.gates)

\* It holds of a task that has not been retried, unless the agent's gates
\* stand in for a policy of gates alone: checkpoints and queued runs that an
\* attempt leaves behind are what breaks it, and the three below.
VerifiedFirst ==
  attempt = 0 /\ (policy.verifiers \/ PolicyGatesFirst) => VerifiedExit

\* An answer was seen by the deterministic gates that come first: those of a
\* blocking policy, or those of the agent.
GatesSeen ==
  attempt = 0 /\ result = "answered" =>
    /\ PolicyGatesFirst /\ policy.blocking => "policyGates" \in evidence
    /\ AgentGatesFirst => "agentGates" \in evidence

\* Whatever combination of policy, gates, hooks and triggers is configured,
\* an answer of the first attempt has passed every check that is in force.
ChecksPassed == VerifiedFirst /\ GatesSeen

\* A task whose abort_main run ended without success does not succeed.
AbortFailsTask == attempt = 0 /\ abortFailed => result # "answered"

\* A handoff message tells of the run that has just failed, never of another.
HandoffOfThisRun == attempt = 0 /\ pc = "endRun" => (handoff <=> ~run.success)

\* What makes the invariants above inductive.  A run is in progress exactly
\* while its chain is executed, within its caps and with budget left; from a
\* round to its decision the drained flag separates an answer nothing has
\* happened since from one a DAWP run followed; a goal refined too often and
\* a result belong to a finished task.
RunInProgress ==
  /\ pc = "chain" => run \in ActiveRuns /\ run.used < StepCap /\ Remaining > 0
  /\ pc = "endRun" => run \in ActiveRuns
  /\ pc \notin {"chain", "endRun"} => run = NoRun
  /\ pc \in {"chain", "endRun"} => drained /\ (run.of.mode = "inline" => outcome # "none")

AnswerPending ==
  /\ pc \in {"drainInline", "iterEnd", "decide", "stop"} => outcome # "none"
  /\ pc = "stop" => ~drained
  /\ (outcome # "none" /\ ~drained
       /\ pc \in {"drainInline", "iterEnd", "drainEnd", "decide", "stop"})
       => /\ answeredAt = runCount
          /\ outcome = "stop_match" => reported = "answered"

Outcome ==
  /\ result # "none" => pc = "done"
  /\ refines <= MaxRefines \/ result = "verification_exhausted"

IInv == TypeOK /\ BudgetShared /\ RunQuota /\ RunInProgress /\ AnswerPending
        /\ Outcome /\ AnswerAfterRuns /\ StreamReportsResult /\ RefinesBounded

\* The loop, its checks and its retries keep the contract of a task: each of
\* their steps is a step of TaskContract or leaves its view unchanged.
Contract == INSTANCE TaskContract WITH
  Budget <- Limit, Quota <- MaxRuns, Results <- Results \ {"none"},
  spent <- consumed, runs <- runCount, asOf <- answeredAt, ended <- result,
  told <- IF result = "none" THEN "none" ELSE reported

ImplementsContract == Contract!Spec

\* Every task ends: in an answer, out of budget or with an error.
Termination == <>(pc = "done")
=============================================================================
