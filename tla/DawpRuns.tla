------------------------------ MODULE DawpRuns ------------------------------
(***************************************************************************)
(* The DAWP runs of one task: the queue plugin_state["dawp.pending"], the  *)
(* enqueue guard, the shared iteration budget and the prompt chain of the  *)
(* run being drained.  HybridLoop composes these operators with the main   *)
(* tool loop; a run's labels (trigger, workflow source, ids) and its       *)
(* messages are left out, except for the facts the properties tell apart.  *)
(***************************************************************************)
EXTENDS Integers, Sequences, FiniteSets

CONSTANTS
  Limit,          \* TaskIterationBudget.limit, the agent's _max_iterations
  MaxRuns,        \* enqueue_guard.max_runs_per_task
  RequireBudget,  \* enqueue_guard.require_remaining_budget
  NSteps,         \* prompts of a workflow
  StepCap         \* DAWPStep.max_iterations

ASSUME DawpAssumption ==
  /\ Limit \in Nat /\ MaxRuns \in Nat /\ RequireBudget \in Nat
  /\ NSteps \in Nat \ {0} /\ StepCap \in Nat \ {0}

VARIABLES
  consumed,   \* TaskIterationBudget.consumed
  pending,    \* plugin_state["dawp.pending"]
  runCount,   \* plugin_state["dawp._run_count"]
  triggered,  \* plugin_state["dawp.triggered.<token>"] of a trigger_once token
  run,        \* the run being drained, or NoRun
  handoff     \* plugin_state holds a "dawp._handoff_message"

dawpVars == <<consumed, pending, runCount, triggered, run, handoff>>

Modes == {"inline", "on_iteration_end"}

\* DawpPendingRun; known says whether its workflow is in the registry.
PendingRuns == [mode  : Modes,
                abort : BOOLEAN,
                known : BOOLEAN]

\* A run in progress: its step, the rounds spent on the step, and _run_success.
ActiveRuns == [of      : PendingRuns,
               step    : 1 .. NSteps,
               used    : 0 .. StepCap,
               success : BOOLEAN]

NoRun == [step |-> 0]

\* TaskIterationBudget.consume, once a round has completed.
Consume == consumed' = consumed + 1

Remaining == IF consumed < Limit THEN Limit - consumed ELSE 0

ConfigRun == [mode |-> "on_iteration_end", abort |-> FALSE, known |-> TRUE]
ToolRun   == [mode |-> "inline", abort |-> FALSE, known |-> TRUE]

\* build_enqueue_guard: the run fits the quota of the task and the budget.
EnqueueAllowed ==
  /\ runCount + Len(pending) < MaxRuns
  /\ Remaining >= RequireBudget

\* schedule_at_checkpoint for one matching activation: a run the guard
\* blocks is dropped, not deferred.
Schedule(r) == pending' = IF EnqueueAllowed THEN Append(pending, r) ELSE pending

\* matches_response_trigger: the once flag is set before the guard is asked.
TriggerMatches(token, once) == token /\ ~(once /\ triggered)

\* The runs the drain of a mode may start: unresolvable ones are skipped and
\* stay in the queue.
Drainable(mode) == {i \in 1 .. Len(pending) : pending[i].mode = mode /\ pending[i].known}

DropAt(s, i) == SubSeq(s, 1, i - 1) \o SubSeq(s, i + 1, Len(s))

\* _drain_pending_dawp_runs takes the first run of its mode off the queue.
TakeRun(mode) ==
  /\ \E i \in Drainable(mode) :
       /\ \A j \in Drainable(mode) : i <= j
       /\ pending' = DropAt(pending, i)
       /\ run' = [of |-> pending[i], step |-> 1, used |-> 0,
                  success |-> FALSE]
  /\ UNCHANGED <<consumed, runCount, triggered, handoff>>

\* prompt_step_complete and the no_tool_calls handler: what an answer of the
\* current step may amount to.
Completions == IF run.step = NSteps THEN {"dawp_done", "continue"}
                                    ELSE {"prompt_done", "dawp_done", "continue"}

\* The step fails when the shared budget is spent, whatever the answer said,
\* or when it reached its own cap without a marker.
StepFails(completion) ==
  \/ consumed + 1 >= Limit
  \/ completion = "continue" /\ run.used + 1 >= StepCap

\* The chain goes on with the next round of this step or the first of the next.
ChainGoesOn(completion) == ~StepFails(completion) /\ completion # "dawp_done"

\* _record_handoff: a failed step leaves a message for the main model.
RecordHandoffAtCap(completion) ==      \* mutant: not when the budget is spent
  handoff' = (handoff \/ (StepFails(completion) /\ consumed + 1 < Limit))
RecordHandoff(completion) == handoff' = (handoff \/ StepFails(completion))

\* One nested LLM+tool round of run_prompt_chain and the evaluation after it.
ChainStep(completion) ==
  /\ Consume
  /\ run' = [run EXCEPT
       !.used    = IF completion = "prompt_done" /\ ~StepFails(completion) THEN 0 ELSE @ + 1,
       !.step    = IF completion = "prompt_done" /\ ~StepFails(completion) THEN @ + 1 ELSE @,
       !.success = (completion = "dawp_done" /\ ~StepFails(completion))]
  /\ RecordHandoff(completion)
  /\ UNCHANGED <<pending, runCount, triggered>>

\* A failed run with abort_main ends the task.
AbortsExhausted ==                     \* mutant: only when the budget is spent
  run.of.abort /\ ~run.success /\ Remaining = 0
Aborts == run.of.abort /\ ~run.success

\* The finally block of the drain: the run is counted however it ended.
CountRun == runCount' = runCount + 1 /\ run' = NoRun

\* Every run in the queue and the one in progress has been admitted once.
AdmittedRuns == runCount + Len(pending) + (IF run = NoRun THEN 0 ELSE 1)

DawpTypeOK ==
  /\ consumed \in Nat
  /\ pending \in Seq(PendingRuns)
  /\ runCount \in Nat
  /\ triggered \in BOOLEAN
  /\ run \in ActiveRuns \cup {NoRun}
  /\ handoff \in BOOLEAN
=============================================================================
