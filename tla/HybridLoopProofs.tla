--------------------------- MODULE HybridLoopProofs ---------------------------
(***************************************************************************)
(* Proofs about HybridLoop for every value of its constants: IInv is       *)
(* inductive, one lemma per action of the loop, and the budget, the run    *)
(* quota, the returned answer and the refine limit follow from it; so does *)
(* the contract of TaskContract, and with FirstInv what a first attempt    *)
(* promises of its checks, its runs and their handoff messages.            *)
(***************************************************************************)
EXTENDS HybridLoop, TLAPS

-----------------------------------------------------------------------------
(* The queue of DAWP runs *)

\* A run in progress is told from no run (the drain's run variable).
LEMMA ActiveIsNotNoRun == \A r \in ActiveRuns : r # NoRun
BY DawpAssumption, SMT DEF ActiveRuns, NoRun

\* An enqueue the guard allows stays within max_runs_per_task.
LEMMA AppendQueue ==
  ASSUME NEW r \in PendingRuns, pending \in Seq(PendingRuns), runCount \in Nat, EnqueueAllowed
  PROVE  /\ Append(pending, r) \in Seq(PendingRuns)
         /\ runCount + Len(Append(pending, r)) <= MaxRuns
BY DawpAssumption, SMT DEF EnqueueAllowed

\* So does a checkpoint, whether its run is queued or dropped.
LEMMA ScheduleQueue ==
  ASSUME NEW r \in PendingRuns, pending \in Seq(PendingRuns), runCount \in Nat, Schedule(r),
         runCount + Len(pending) <= MaxRuns
  PROVE  pending' \in Seq(PendingRuns) /\ runCount + Len(pending') <= MaxRuns
BY AppendQueue, SMT DEF Schedule

\* pending.remove leaves a queue that is one run shorter.
LEMMA DropAtQueue ==
  ASSUME NEW s \in Seq(PendingRuns), NEW i \in 1 .. Len(s)
  PROVE  DropAt(s, i) \in Seq(PendingRuns) /\ Len(DropAt(s, i)) = Len(s) - 1
<1> DEFINE front == SubSeq(s, 1, i - 1)
           back == SubSeq(s, i + 1, Len(s))
<1>1. front \in Seq(PendingRuns) /\ Len(front) = i - 1
  BY SMT
<1>2. back \in Seq(PendingRuns) /\ Len(back) = Len(s) - i
  BY SMT
<1> HIDE DEF front, back
<1>3. front \o back \in Seq(PendingRuns) /\ Len(front \o back) = Len(s) - 1
  BY <1>1, <1>2, SMT
<1> QED BY <1>3 DEF DropAt, front, back

\* The runs the checkpoints and dawp_start put in the queue.
LEMMA ConfigRunType == ConfigRun \in PendingRuns /\ ToolRun \in PendingRuns
BY DEF ConfigRun, ToolRun, PendingRuns, Modes

-----------------------------------------------------------------------------
(* The checks of an answer *)

\* A policy run keeps the types, and a refinement beyond the limit is
\* announced as exhaustion (run_verification_policy).
LEMMA PolicyRunFacts ==
  ASSUME NEW trigger \in Triggers, NEW it \in Nat, NEW verdict,
         GvrTypeOK, PolicyRun(trigger, it, verdict)
  PROVE  /\ GvrTypeOK'
         /\ refines' = refines \/ (refines' = refines + 1
                                   /\ (refines' <= MaxRefines \/ verdict = "exhausted"))
<1>1. CASE <<it, trigger>> \in checked /\ verdict = "exit" /\ UNCHANGED gvrVars
  BY <1>1 DEF GvrTypeOK, gvrVars
<1>2. CASE /\ <<it, trigger>> \notin checked
           /\ checked' = checked \cup {<<it, trigger>>}
           /\ \E gate \in GateOutcomes(policy.gates, it) :
              \E verifier \in VerifierOutcomes(gate) :
                /\ MarkGates(gate, it)
                /\ \/ /\ verifier = "raise"
                      /\ verdict = "raised"
                      /\ UNCHANGED <<refines, evidence>>
                   \/ /\ "fail" \in {gate, verifier} /\ verifier # "raise"
                      /\ FailedVerdict(verdict)
                      /\ evidence' = IF policy.blocking THEN evidence ELSE evidence \cup {"waived"}
                   \/ /\ {"fail", "raise"} \cap {gate, verifier} = {}
                      /\ verdict = "exit"
                      /\ evidence' = evidence \cup PolicyEvidence(gate, verifier)
                      /\ UNCHANGED refines
           /\ UNCHANGED policy
  <2>1. PICK gate, verifier :
          /\ MarkGates(gate, it)
          /\ \/ UNCHANGED <<refines, evidence>>
             \/ /\ FailedVerdict(verdict)
                /\ evidence' = IF policy.blocking THEN evidence ELSE evidence \cup {"waived"}
             \/ /\ evidence' = evidence \cup PolicyEvidence(gate, verifier)
                /\ UNCHANGED refines
    BY <1>2, Zenon
  <2>2. gatesRun' \subseteq Nat
    BY <2>1 DEF MarkGates, GvrTypeOK
  <2>3. checked' \subseteq Nat \X Triggers
    BY <1>2 DEF GvrTypeOK
  <2>4. evidence' \subseteq Evidence
    BY <2>1 DEF GvrTypeOK, Evidence, PolicyEvidence
  <2>5. refines' = refines \/ (refines' = refines + 1
                               /\ (refines' <= MaxRefines \/ verdict = "exhausted"))
    BY <2>1, GvrAssumption, SMT DEF GvrTypeOK, FailedVerdict
  <2> QED BY <1>2, <2>2, <2>3, <2>4, <2>5 DEF GvrTypeOK
<1> QED BY <1>1, <1>2 DEF PolicyRun, Key

\* The two checks of an answer, whichever of policy and fallback they take.
LEMMA CheckFacts ==
  ASSUME NEW it \in Nat, NEW verdict, GvrTypeOK,
         PreExit("on_task_completed", it, verdict) \/ StopCheck(it, verdict)
  PROVE  /\ GvrTypeOK'
         /\ refines' = refines \/ (refines' = refines + 1
                                   /\ (refines' <= MaxRefines \/ verdict = "exhausted"))
<1>1. CASE \E trigger \in Triggers : PolicyRun(trigger, it, verdict)
  BY <1>1, PolicyRunFacts
<1>2. CASE Fallback("on_task_completed", it, verdict)
  BY <1>2 DEF Fallback, MarkGates, GvrTypeOK, Evidence
<1>3. CASE StopCheck(it, verdict) /\ policy.when # "on_stop"
  BY <1>3 DEF StopCheck, MarkGates, GvrTypeOK, Evidence
<1> QED BY <1>1, <1>2, <1>3 DEF PreExit, StopCheck, Triggers

-----------------------------------------------------------------------------
(* The actions of the loop *)

\* A nested round keeps the run within its caps, and the run goes on only
\* with budget left (run_prompt_chain).
LEMMA ChainRoundRun == ASSUME IInv, ChainRound PROVE DawpTypeOK' /\ RunInProgress'
<1>1. PICK completion \in Completions :
        /\ ChainStep(completion)
        /\ pc' = IF ChainGoesOn(completion) THEN "chain" ELSE "endRun"
  BY Zenon DEF ChainRound
<1>2. run \in ActiveRuns /\ run.used < StepCap /\ Remaining > 0 /\ drained /\ consumed \in Nat /\ handoff \in BOOLEAN
  BY Zenon DEF IInv, TypeOK, DawpTypeOK, RunInProgress, ChainRound
<1>3. /\ run.of \in PendingRuns /\ run.step \in 1 .. NSteps /\ run.used \in 0 .. StepCap
  BY <1>2 DEF ActiveRuns
<1>4. StepFails(completion) \in BOOLEAN
  BY DEF StepFails
<1>5. completion = "prompt_done" => run.step < NSteps
  BY <1>1, <1>3, DawpAssumption, SMT DEF Completions
<1>6. run' \in ActiveRuns /\ run'.of = run.of
  <2> DEFINE advance == completion = "prompt_done" /\ ~StepFails(completion)
             used == IF advance THEN 0 ELSE run.used + 1
             step == IF advance THEN run.step + 1 ELSE run.step
             done == completion = "dawp_done" /\ ~StepFails(completion)
  <2>1. run' = [run EXCEPT !.used = used, !.step = step, !.success = done]
    BY <1>1, Zenon DEF ChainStep, Consume, RecordHandoff
  <2>2. used \in 0 .. StepCap /\ step \in 1 .. NSteps
    BY <1>2, <1>3, <1>5, DawpAssumption, SMT
  <2>3. done \in BOOLEAN
    OBVIOUS
  <2> HIDE DEF used, step, done
  <2> QED BY <1>2, <2>1, <2>2, <2>3 DEF ActiveRuns
<1>7. consumed' = consumed + 1 /\ handoff' \in BOOLEAN /\ UNCHANGED <<pending, runCount, triggered>>
  BY <1>1, <1>2, <1>4 DEF ChainStep, Consume, RecordHandoff
<1>8. DawpTypeOK'
  BY <1>2, <1>6, <1>7, SMT DEF IInv, TypeOK, DawpTypeOK
<1>9. ChainGoesOn(completion) => run'.used < StepCap /\ Remaining' > 0
  <2> SUFFICES ASSUME ChainGoesOn(completion) PROVE run'.used < StepCap /\ Remaining' > 0
    OBVIOUS
  <2>1. Remaining' > 0
    BY <1>2, <1>7, DawpAssumption, SMT DEF ChainGoesOn, StepFails, Remaining
  <2>2. run'.used < StepCap
    BY <1>1, <1>2, <1>3, DawpAssumption, SMT DEF ChainGoesOn, StepFails, ChainStep, Consume, RecordHandoff, ActiveRuns, Completions
  <2> QED BY <2>1, <2>2
<1>10. drained' = drained /\ outcome' = outcome
  BY DEF ChainRound
<1> QED
  BY <1>1, <1>2, <1>6, <1>8, <1>9, <1>10, SMT DEF IInv, RunInProgress, ChainRound

\* The end of a run leaves queue and counters well typed.
LEMMA EndRunQueue == ASSUME IInv, EndRun PROVE DawpTypeOK'
<1>1. consumed' \in Nat /\ pending' \in Seq(PendingRuns) /\ runCount' \in Nat
  BY SMT DEF IInv, TypeOK, DawpTypeOK, EndRun, Aborts, CountRun
<1>2. triggered' \in BOOLEAN /\ handoff' \in BOOLEAN /\ run' = NoRun
  BY Zenon DEF IInv, TypeOK, DawpTypeOK, EndRun, Aborts, CountRun
<1> QED BY <1>1, <1>2 DEF DawpTypeOK

\* ON_ITERATION_END queues a run the guard allows, or none.
LEMMA IterationEndQueue == ASSUME IInv, IterationEnd PROVE DawpTypeOK'
<1>1. pending' \in Seq(PendingRuns)
  BY ScheduleQueue, ConfigRunType, SMT DEF IInv, TypeOK, DawpTypeOK, RunQuota, RunInProgress, AdmittedRuns, IterationEnd
<1>2. triggered' \in BOOLEAN /\ UNCHANGED <<consumed, runCount, run, handoff>>
  BY Zenon DEF IInv, TypeOK, DawpTypeOK, IterationEnd
<1> QED BY <1>1, <1>2 DEF IInv, TypeOK, DawpTypeOK

\* The run taken off the queue is the one in progress.
LEMMA DrainNextRun == ASSUME IInv, DrainNext PROVE DawpTypeOK' /\ BudgetShared' /\ RunQuota' /\ RunInProgress'
<1>1. /\ pc \in {"drainInline", "drainEnd"} /\ pc' = "chain" /\ drained' = TRUE /\ Remaining > 0
      /\ outcome' = outcome /\ UNCHANGED <<consumed, runCount, triggered, handoff>>
  BY Zenon DEF DrainNext, TakeRun
<1>2. PICK i \in Drainable(DrainMode) :
        /\ pending' = DropAt(pending, i)
        /\ run' = [of |-> pending[i], step |-> 1, used |-> 0,
                   success |-> FALSE]
  BY Zenon DEF DrainNext, TakeRun
<1>3. i \in 1 .. Len(pending) /\ pending[i].mode = DrainMode
  BY <1>2 DEF Drainable
<1>4. pending \in Seq(PendingRuns) /\ runCount \in Nat
  BY DEF IInv, TypeOK, DawpTypeOK, LoopTypeOK
<1>5. pending' \in Seq(PendingRuns) /\ Len(pending') = Len(pending) - 1 /\ pending[i] \in PendingRuns
  <2>1. DropAt(pending, i) \in Seq(PendingRuns) /\ Len(DropAt(pending, i)) = Len(pending) - 1
    BY <1>3, <1>4, DropAtQueue
  <2>2. pending[i] \in PendingRuns
    BY <1>3, <1>4, SMT
  <2> QED BY <1>2, <2>1, <2>2, Zenon
<1>6. run' \in ActiveRuns /\ run'.used < StepCap /\ (run'.of.mode = "inline" => outcome # "none")
  <2>1. run' \in ActiveRuns /\ run'.used = 0 /\ run'.of.mode = DrainMode
    BY <1>2, <1>3, <1>4, <1>5, DawpAssumption, SMT DEF ActiveRuns
  <2>2. DrainMode = "inline" => outcome # "none"
    BY <1>1 DEF DrainMode, IInv, AnswerPending
  <2> QED BY <2>1, <2>2, DawpAssumption, SMT
<1>7. DawpTypeOK'
  BY <1>1, <1>5, <1>6, Zenon DEF IInv, TypeOK, DawpTypeOK
<1>8. RunQuota'
  <2>1. AdmittedRuns <= MaxRuns /\ run = NoRun
    BY <1>1 DEF IInv, RunQuota, RunInProgress
  <2>2. runCount' = runCount /\ Len(pending') = Len(pending) - 1 /\ run' # NoRun /\ Len(pending) \in Nat
    BY <1>1, <1>4, <1>5, <1>6, ActiveIsNotNoRun
  <2> QED BY <2>1, <2>2, <1>4, DawpAssumption, SMT DEF RunQuota, AdmittedRuns
<1>9. BudgetShared' /\ Remaining' > 0
  BY <1>1, Zenon DEF IInv, BudgetShared, Remaining
<1> QED BY <1>1, <1>6, <1>7, <1>8, <1>9 DEF RunInProgress

\* A check lets the answer past, sends it back or ends the task.
LEMMA ChecksKeep == ASSUME IInv, Decide \/ StopHook PROVE GvrTypeOK' /\ Outcome' /\ AnswerAfterRuns' /\ StreamReportsResult' /\ RefinesBounded'
<1>1. pc # "done" /\ result = "none" /\ refines <= MaxRefines /\ iteration \in Nat /\ refines \in Nat
      /\ GvrTypeOK /\ UNCHANGED <<runCount, answeredAt>>
  BY Zenon DEF IInv, TypeOK, LoopTypeOK, GvrTypeOK, Outcome, Decide, StopHook, Obey, dawpVars
<1>2. PICK verdict \in Verdicts :
        /\ PreExit("on_task_completed", iteration, verdict) \/ StopCheck(iteration, verdict)
        /\ \/ Obey(verdict, pc' = "stop" /\ UNCHANGED <<result, reported>>)
           \/ Obey(verdict, /\ Finish("answered")
                            /\ reported' = IF outcome = "stop_match" THEN reported ELSE "answered")
              /\ pc = "stop"
  BY Zenon DEF Decide, StopHook
<1>3. /\ GvrTypeOK'
      /\ refines' = refines \/ (refines' = refines + 1
                                   /\ (refines' <= MaxRefines \/ verdict = "exhausted"))
  BY <1>1, <1>2, CheckFacts
<1>4. verdict # "exhausted" => refines' <= MaxRefines
  BY <1>1, <1>3, GvrAssumption, SMT
<1>5. verdict = "exhausted" =>
        result' = "verification_exhausted" /\ reported' = "verification_exhausted" /\ pc' = "done"
  BY <1>2, Zenon DEF Obey, Finish
<1>6. verdict # "exhausted" =>
        \/ result' = "none"
        \/ result' = "answered" /\ pc' = "done" /\ answeredAt = runCount /\ reported' = "answered"
  <2>1. pc = "stop" => ~drained /\ outcome # "none" /\ answeredAt = runCount /\ (outcome = "stop_match" => reported = "answered")
    BY Zenon DEF IInv, AnswerPending
  <2> QED BY <1>1, <1>2, <2>1, SMT DEF Obey, Finish
<1>7. Outcome' /\ RefinesBounded'
  BY <1>1, <1>3, <1>4, <1>5, <1>6, GvrAssumption, SMT DEF Outcome, RefinesBounded
<1>8. AnswerAfterRuns' /\ StreamReportsResult'
  BY <1>1, <1>5, <1>6, SMT DEF AnswerAfterRuns, StreamReportsResult
<1> QED BY <1>3, <1>7, <1>8

\* PRE_MAIN_LOOP keeps the invariant.
LEMMA PreMainLoopKeeps == ASSUME IInv, PreMainLoop PROVE IInv'
<1>1. DawpTypeOK'
  BY ScheduleQueue, AppendQueue, ConfigRunType, SMT
     DEF IInv, TypeOK, DawpTypeOK, RunInProgress, RunQuota, AdmittedRuns, ToolEnqueue, PreMainLoop, dawpVars, gvrVars, Goto, Finish
<1>2. BudgetShared' /\ RunQuota'
  BY ScheduleQueue, AppendQueue, ConfigRunType, ActiveIsNotNoRun, DawpAssumption, SMT
     DEF IInv, TypeOK, DawpTypeOK, BudgetShared, RunQuota, RunInProgress, AdmittedRuns,
         ToolEnqueue, Remaining, PreMainLoop, dawpVars, gvrVars, Goto, Finish
<1>3. RunInProgress'
  BY ActiveIsNotNoRun, DawpAssumption, SMT
     DEF IInv, TypeOK, LoopTypeOK, RunInProgress, AnswerPending, PreMainLoop, dawpVars, gvrVars, Goto, Finish
<1>4. /\ pc' \in Control /\ attempt' \in 0 .. MaxRetries /\ iteration' \in Nat
      /\ outcome' \in Outcomes /\ answeredAt' \in Nat
  BY LoopAssumption, SMT DEF IInv, TypeOK, DawpTypeOK, LoopTypeOK, Control, Outcomes, PreMainLoop, dawpVars, gvrVars, Goto, Finish
<1>5. /\ token' \in BOOLEAN /\ drained' \in BOOLEAN
      /\ abortFailed' \in BOOLEAN
  BY Zenon DEF IInv, TypeOK, LoopTypeOK, PreMainLoop, dawpVars, gvrVars, Goto, Finish
<1>6. result' \in Results /\ reported' \in Results \cup {"nested"}
  BY SMT DEF IInv, TypeOK, LoopTypeOK, Results, PreMainLoop, dawpVars, gvrVars, Goto, Finish
<1>7. GvrTypeOK'
  BY SMT DEF IInv, TypeOK, GvrTypeOK, Evidence, PreMainLoop, dawpVars, gvrVars, Goto, Finish
<1>8. AnswerPending'
  BY SMT DEF IInv, TypeOK, LoopTypeOK, RunInProgress, AnswerPending, PreMainLoop, dawpVars, gvrVars, Goto, Finish
<1>9. Outcome' /\ AnswerAfterRuns' /\ StreamReportsResult' /\ RefinesBounded'
  BY GvrAssumption, SMT
     DEF IInv, TypeOK, GvrTypeOK, AnswerPending, Outcome, AnswerAfterRuns,
         StreamReportsResult, RefinesBounded, PreMainLoop, dawpVars, gvrVars, Goto, Finish
<1>10. QED
  BY <1>1, <1>2, <1>3, <1>4, <1>5, <1>6, <1>7, <1>8, <1>9 DEF IInv, TypeOK, LoopTypeOK

\* An attempt starts with budget and queue as they are.
LEMMA StartAttemptKeeps == ASSUME IInv, StartAttempt PROVE IInv'
<1>1. DawpTypeOK'
  BY ScheduleQueue, AppendQueue, ConfigRunType, SMT
     DEF IInv, TypeOK, DawpTypeOK, RunInProgress, RunQuota, AdmittedRuns, ToolEnqueue, StartAttempt, dawpVars, gvrVars
<1>2. BudgetShared' /\ RunQuota'
  BY ScheduleQueue, AppendQueue, ConfigRunType, ActiveIsNotNoRun, DawpAssumption, SMT
     DEF IInv, TypeOK, DawpTypeOK, BudgetShared, RunQuota, RunInProgress, AdmittedRuns,
         ToolEnqueue, Remaining, StartAttempt, dawpVars, gvrVars
<1>3. RunInProgress'
  BY ActiveIsNotNoRun, DawpAssumption, SMT
     DEF IInv, TypeOK, LoopTypeOK, RunInProgress, AnswerPending, StartAttempt, dawpVars, gvrVars
<1>4. /\ pc' \in Control /\ attempt' \in 0 .. MaxRetries /\ iteration' \in Nat
      /\ outcome' \in Outcomes /\ answeredAt' \in Nat
  BY LoopAssumption, SMT DEF IInv, TypeOK, DawpTypeOK, LoopTypeOK, Control, Outcomes, StartAttempt, dawpVars, gvrVars
<1>5. /\ token' \in BOOLEAN /\ drained' \in BOOLEAN
      /\ abortFailed' \in BOOLEAN
  BY Zenon DEF IInv, TypeOK, LoopTypeOK, StartAttempt, dawpVars, gvrVars
<1>6. result' \in Results /\ reported' \in Results \cup {"nested"}
  BY SMT DEF IInv, TypeOK, LoopTypeOK, Results, StartAttempt, dawpVars, gvrVars
<1>7. GvrTypeOK'
  BY SMT DEF IInv, TypeOK, GvrTypeOK, Evidence, StartAttempt, dawpVars, gvrVars
<1>8. AnswerPending'
  BY SMT DEF IInv, TypeOK, LoopTypeOK, RunInProgress, AnswerPending, StartAttempt, dawpVars, gvrVars
<1>9. Outcome' /\ AnswerAfterRuns' /\ StreamReportsResult' /\ RefinesBounded'
  BY GvrAssumption, SMT
     DEF IInv, TypeOK, GvrTypeOK, AnswerPending, Outcome, AnswerAfterRuns,
         StreamReportsResult, RefinesBounded, StartAttempt, dawpVars, gvrVars
<1>10. QED
  BY <1>1, <1>2, <1>3, <1>4, <1>5, <1>6, <1>7, <1>8, <1>9 DEF IInv, TypeOK, LoopTypeOK

\* The drain takes a run.
LEMMA DrainNextKeeps == ASSUME IInv, DrainNext PROVE IInv'
<1>1. DawpTypeOK'
  BY DrainNextRun
<1>2. BudgetShared' /\ RunQuota'
  BY DrainNextRun
<1>3. RunInProgress'
  BY DrainNextRun
<1>4. /\ pc' \in Control /\ attempt' \in 0 .. MaxRetries /\ iteration' \in Nat
      /\ outcome' \in Outcomes /\ answeredAt' \in Nat
  BY LoopAssumption, SMT DEF IInv, TypeOK, DawpTypeOK, LoopTypeOK, Control, Outcomes, DrainNext, dawpVars, gvrVars, TakeRun, DrainMode
<1>5. /\ token' \in BOOLEAN /\ drained' \in BOOLEAN
      /\ abortFailed' \in BOOLEAN
  BY Zenon DEF IInv, TypeOK, LoopTypeOK, DrainNext, dawpVars, gvrVars, TakeRun, DrainMode
<1>6. result' \in Results /\ reported' \in Results \cup {"nested"}
  BY SMT DEF IInv, TypeOK, LoopTypeOK, Results, DrainNext, dawpVars, gvrVars, TakeRun, DrainMode
<1>7. GvrTypeOK'
  BY SMT DEF IInv, TypeOK, GvrTypeOK, Evidence, DrainNext, dawpVars, gvrVars, TakeRun, DrainMode
<1>8. AnswerPending'
  BY SMT DEF IInv, TypeOK, LoopTypeOK, RunInProgress, AnswerPending, DrainNext, dawpVars, gvrVars, TakeRun, DrainMode
<1>9. Outcome' /\ AnswerAfterRuns' /\ StreamReportsResult' /\ RefinesBounded'
  BY GvrAssumption, SMT
     DEF IInv, TypeOK, GvrTypeOK, AnswerPending, Outcome, AnswerAfterRuns,
         StreamReportsResult, RefinesBounded, DrainNext, dawpVars, gvrVars, TakeRun, DrainMode
<1>10. QED
  BY <1>1, <1>2, <1>3, <1>4, <1>5, <1>6, <1>7, <1>8, <1>9 DEF IInv, TypeOK, LoopTypeOK

\* The drain is over.
LEMMA DrainDoneKeeps == ASSUME IInv, DrainDone PROVE IInv'
<1>1. DawpTypeOK'
  BY ScheduleQueue, AppendQueue, ConfigRunType, SMT
     DEF IInv, TypeOK, DawpTypeOK, RunInProgress, RunQuota, AdmittedRuns, ToolEnqueue, DrainDone, dawpVars, gvrVars, Goto
<1>2. BudgetShared' /\ RunQuota'
  BY ScheduleQueue, AppendQueue, ConfigRunType, ActiveIsNotNoRun, DawpAssumption, SMT
     DEF IInv, TypeOK, DawpTypeOK, BudgetShared, RunQuota, RunInProgress, AdmittedRuns,
         ToolEnqueue, Remaining, DrainDone, dawpVars, gvrVars, Goto
<1>3. RunInProgress'
  BY ActiveIsNotNoRun, DawpAssumption, SMT
     DEF IInv, TypeOK, LoopTypeOK, RunInProgress, AnswerPending, DrainDone, dawpVars, gvrVars, Goto
<1>4. /\ pc' \in Control /\ attempt' \in 0 .. MaxRetries /\ iteration' \in Nat
      /\ outcome' \in Outcomes /\ answeredAt' \in Nat
  BY LoopAssumption, SMT DEF IInv, TypeOK, DawpTypeOK, LoopTypeOK, Control, Outcomes, DrainDone, dawpVars, gvrVars, Goto
<1>5. /\ token' \in BOOLEAN /\ drained' \in BOOLEAN
      /\ abortFailed' \in BOOLEAN
  BY Zenon DEF IInv, TypeOK, LoopTypeOK, DrainDone, dawpVars, gvrVars, Goto
<1>6. result' \in Results /\ reported' \in Results \cup {"nested"}
  BY SMT DEF IInv, TypeOK, LoopTypeOK, Results, DrainDone, dawpVars, gvrVars, Goto
<1>7. GvrTypeOK'
  BY SMT DEF IInv, TypeOK, GvrTypeOK, Evidence, DrainDone, dawpVars, gvrVars, Goto
<1>8. AnswerPending'
  BY SMT DEF IInv, TypeOK, LoopTypeOK, RunInProgress, AnswerPending, DrainDone, dawpVars, gvrVars, Goto
<1>9. Outcome' /\ AnswerAfterRuns' /\ StreamReportsResult' /\ RefinesBounded'
  BY GvrAssumption, SMT
     DEF IInv, TypeOK, GvrTypeOK, AnswerPending, Outcome, AnswerAfterRuns,
         StreamReportsResult, RefinesBounded, DrainDone, dawpVars, gvrVars, Goto
<1>10. QED
  BY <1>1, <1>2, <1>3, <1>4, <1>5, <1>6, <1>7, <1>8, <1>9 DEF IInv, TypeOK, LoopTypeOK

\* A round of the run.
LEMMA ChainRoundKeeps == ASSUME IInv, ChainRound PROVE IInv'
<1>1. DawpTypeOK'
  BY ChainRoundRun
<1>2. BudgetShared' /\ RunQuota'
  <2>1. consumed < Limit /\ run \in ActiveRuns
    BY SMT DEF IInv, RunInProgress, Remaining, ChainRound
  <2>2. /\ consumed' = consumed + 1 /\ UNCHANGED <<pending, runCount>>
        /\ run' # NoRun
    <3>1. consumed' = consumed + 1 /\ UNCHANGED <<pending, runCount>>
      BY Zenon DEF ChainRound, ChainStep, Consume, RecordHandoff
    <3>2. run' \in ActiveRuns
      BY ChainRoundRun, <2>1 DEF RunInProgress, ChainRound
    <3> QED BY <3>1, <3>2, ActiveIsNotNoRun
  <2> QED
    BY <2>1, <2>2, ActiveIsNotNoRun, DawpAssumption, SMT
       DEF IInv, TypeOK, DawpTypeOK, BudgetShared, RunQuota, AdmittedRuns
<1>3. RunInProgress'
  BY ChainRoundRun
<1>4. /\ pc' \in Control /\ attempt' \in 0 .. MaxRetries /\ iteration' \in Nat
      /\ outcome' \in Outcomes /\ answeredAt' \in Nat
  BY LoopAssumption, SMT DEF IInv, TypeOK, DawpTypeOK, LoopTypeOK, Control, Outcomes, ChainRound, dawpVars, gvrVars, ChainStep, Consume, RecordHandoff, ChainGoesOn
<1>5. /\ token' \in BOOLEAN /\ drained' \in BOOLEAN
      /\ abortFailed' \in BOOLEAN
  BY Zenon DEF IInv, TypeOK, LoopTypeOK, ChainRound, dawpVars, gvrVars, ChainStep, Consume, RecordHandoff, ChainGoesOn
<1>6. result' \in Results /\ reported' \in Results \cup {"nested"}
  BY SMT DEF IInv, TypeOK, LoopTypeOK, Results, ChainRound, dawpVars, gvrVars, ChainStep, Consume, RecordHandoff, ChainGoesOn
<1>7. GvrTypeOK'
  BY SMT DEF IInv, TypeOK, GvrTypeOK, Evidence, ChainRound, dawpVars, gvrVars, ChainStep, Consume, RecordHandoff, ChainGoesOn
<1>8. AnswerPending'
  BY SMT DEF IInv, TypeOK, LoopTypeOK, RunInProgress, AnswerPending, ChainRound, dawpVars, gvrVars, ChainStep, Consume, RecordHandoff, ChainGoesOn
<1>9. Outcome' /\ AnswerAfterRuns' /\ StreamReportsResult' /\ RefinesBounded'
  BY GvrAssumption, SMT
     DEF IInv, TypeOK, GvrTypeOK, AnswerPending, Outcome, AnswerAfterRuns,
         StreamReportsResult, RefinesBounded, ChainRound, dawpVars, gvrVars, ChainStep, Consume, RecordHandoff, ChainGoesOn
<1>10. QED
  BY <1>1, <1>2, <1>3, <1>4, <1>5, <1>6, <1>7, <1>8, <1>9 DEF IInv, TypeOK, LoopTypeOK

\* The run raises.
LEMMA ChainRaisesKeeps == ASSUME IInv, ChainRaises PROVE IInv'
<1>1. DawpTypeOK'
  BY ScheduleQueue, AppendQueue, ConfigRunType, SMT
     DEF IInv, TypeOK, DawpTypeOK, RunInProgress, RunQuota, AdmittedRuns, ToolEnqueue, ChainRaises, dawpVars, gvrVars, CountRun
<1>2. BudgetShared' /\ RunQuota'
  BY ScheduleQueue, AppendQueue, ConfigRunType, ActiveIsNotNoRun, DawpAssumption, SMT
     DEF IInv, TypeOK, DawpTypeOK, BudgetShared, RunQuota, RunInProgress, AdmittedRuns,
         ToolEnqueue, Remaining, ChainRaises, dawpVars, gvrVars, CountRun
<1>3. RunInProgress'
  BY ActiveIsNotNoRun, DawpAssumption, SMT
     DEF IInv, TypeOK, LoopTypeOK, RunInProgress, AnswerPending, ChainRaises, dawpVars, gvrVars, CountRun
<1>4. /\ pc' \in Control /\ attempt' \in 0 .. MaxRetries /\ iteration' \in Nat
      /\ outcome' \in Outcomes /\ answeredAt' \in Nat
  BY LoopAssumption, SMT DEF IInv, TypeOK, DawpTypeOK, LoopTypeOK, Control, Outcomes, ChainRaises, dawpVars, gvrVars, CountRun
<1>5. /\ token' \in BOOLEAN /\ drained' \in BOOLEAN
      /\ abortFailed' \in BOOLEAN
  BY Zenon DEF IInv, TypeOK, LoopTypeOK, ChainRaises, dawpVars, gvrVars, CountRun
<1>6. result' \in Results /\ reported' \in Results \cup {"nested"}
  BY SMT DEF IInv, TypeOK, LoopTypeOK, Results, ChainRaises, dawpVars, gvrVars, CountRun
<1>7. GvrTypeOK'
  BY SMT DEF IInv, TypeOK, GvrTypeOK, Evidence, ChainRaises, dawpVars, gvrVars, CountRun
<1>8. AnswerPending'
  BY SMT DEF IInv, TypeOK, LoopTypeOK, RunInProgress, AnswerPending, ChainRaises, dawpVars, gvrVars, CountRun
<1>9. Outcome' /\ AnswerAfterRuns' /\ StreamReportsResult' /\ RefinesBounded'
  BY GvrAssumption, SMT
     DEF IInv, TypeOK, GvrTypeOK, AnswerPending, Outcome, AnswerAfterRuns,
         StreamReportsResult, RefinesBounded, ChainRaises, dawpVars, gvrVars, CountRun
<1>10. QED
  BY <1>1, <1>2, <1>3, <1>4, <1>5, <1>6, <1>7, <1>8, <1>9 DEF IInv, TypeOK, LoopTypeOK

\* The run has ended.
LEMMA EndRunKeeps == ASSUME IInv, EndRun PROVE IInv'
<1>1. DawpTypeOK'
  BY EndRunQueue
<1>2. BudgetShared' /\ RunQuota'
  BY ScheduleQueue, AppendQueue, ConfigRunType, ActiveIsNotNoRun, DawpAssumption, SMT
     DEF IInv, TypeOK, DawpTypeOK, BudgetShared, RunQuota, RunInProgress, AdmittedRuns,
         ToolEnqueue, Remaining, EndRun, Aborts, dawpVars, gvrVars, CountRun, Finish, DrainPc
<1>3. RunInProgress'
  BY ActiveIsNotNoRun, DawpAssumption, SMT
     DEF IInv, TypeOK, LoopTypeOK, RunInProgress, AnswerPending, EndRun, Aborts, dawpVars, gvrVars, CountRun, Finish, DrainPc
<1>4. /\ pc' \in Control /\ attempt' \in 0 .. MaxRetries /\ iteration' \in Nat
      /\ outcome' \in Outcomes /\ answeredAt' \in Nat
  BY LoopAssumption, SMT DEF IInv, TypeOK, DawpTypeOK, LoopTypeOK, Control, Outcomes, EndRun, Aborts, dawpVars, gvrVars, CountRun, Finish, DrainPc
<1>5. /\ token' \in BOOLEAN /\ drained' \in BOOLEAN
      /\ abortFailed' \in BOOLEAN
  BY Zenon DEF IInv, TypeOK, LoopTypeOK, EndRun, Aborts, dawpVars, gvrVars, CountRun, Finish, DrainPc
<1>6. result' \in Results /\ reported' \in Results \cup {"nested"}
  BY SMT DEF IInv, TypeOK, LoopTypeOK, Results, EndRun, Aborts, dawpVars, gvrVars, CountRun, Finish, DrainPc
<1>7. GvrTypeOK'
  BY SMT DEF IInv, TypeOK, GvrTypeOK, Evidence, EndRun, Aborts, dawpVars, gvrVars, CountRun, Finish, DrainPc
<1>8. AnswerPending'
  BY SMT DEF IInv, TypeOK, LoopTypeOK, RunInProgress, AnswerPending, EndRun, Aborts, dawpVars, gvrVars, CountRun, Finish, DrainPc
<1>9. Outcome' /\ AnswerAfterRuns' /\ StreamReportsResult' /\ RefinesBounded'
  BY GvrAssumption, SMT
     DEF IInv, TypeOK, GvrTypeOK, AnswerPending, Outcome, AnswerAfterRuns,
         StreamReportsResult, RefinesBounded, EndRun, Aborts, dawpVars, gvrVars, CountRun, Finish, DrainPc
<1>10. QED
  BY <1>1, <1>2, <1>3, <1>4, <1>5, <1>6, <1>7, <1>8, <1>9 DEF IInv, TypeOK, LoopTypeOK

\* The host's callback raises.
LEMMA CallbackRaisesKeeps == ASSUME IInv, CallbackRaises PROVE IInv'
<1>1. DawpTypeOK'
  BY ScheduleQueue, AppendQueue, ConfigRunType, SMT
     DEF IInv, TypeOK, DawpTypeOK, RunInProgress, RunQuota, AdmittedRuns, ToolEnqueue, CallbackRaises, dawpVars, gvrVars, CountRun
<1>2. BudgetShared' /\ RunQuota'
  BY ScheduleQueue, AppendQueue, ConfigRunType, ActiveIsNotNoRun, DawpAssumption, SMT
     DEF IInv, TypeOK, DawpTypeOK, BudgetShared, RunQuota, RunInProgress, AdmittedRuns,
         ToolEnqueue, Remaining, CallbackRaises, dawpVars, gvrVars, CountRun
<1>3. RunInProgress'
  BY ActiveIsNotNoRun, DawpAssumption, SMT
     DEF IInv, TypeOK, LoopTypeOK, RunInProgress, AnswerPending, CallbackRaises, dawpVars, gvrVars, CountRun
<1>4. /\ pc' \in Control /\ attempt' \in 0 .. MaxRetries /\ iteration' \in Nat
      /\ outcome' \in Outcomes /\ answeredAt' \in Nat
  BY LoopAssumption, SMT DEF IInv, TypeOK, DawpTypeOK, LoopTypeOK, Control, Outcomes, CallbackRaises, dawpVars, gvrVars, CountRun
<1>5. /\ token' \in BOOLEAN /\ drained' \in BOOLEAN
      /\ abortFailed' \in BOOLEAN
  BY Zenon DEF IInv, TypeOK, LoopTypeOK, CallbackRaises, dawpVars, gvrVars, CountRun
<1>6. result' \in Results /\ reported' \in Results \cup {"nested"}
  BY SMT DEF IInv, TypeOK, LoopTypeOK, Results, CallbackRaises, dawpVars, gvrVars, CountRun
<1>7. GvrTypeOK'
  BY SMT DEF IInv, TypeOK, GvrTypeOK, Evidence, CallbackRaises, dawpVars, gvrVars, CountRun
<1>8. AnswerPending'
  BY SMT DEF IInv, TypeOK, LoopTypeOK, RunInProgress, AnswerPending, CallbackRaises, dawpVars, gvrVars, CountRun
<1>9. Outcome' /\ AnswerAfterRuns' /\ StreamReportsResult' /\ RefinesBounded'
  BY GvrAssumption, SMT
     DEF IInv, TypeOK, GvrTypeOK, AnswerPending, Outcome, AnswerAfterRuns,
         StreamReportsResult, RefinesBounded, CallbackRaises, dawpVars, gvrVars, CountRun
<1>10. QED
  BY <1>1, <1>2, <1>3, <1>4, <1>5, <1>6, <1>7, <1>8, <1>9 DEF IInv, TypeOK, LoopTypeOK

\* A round of the main loop.
LEMMA MainRoundKeeps == ASSUME IInv, MainRound PROVE IInv'
<1>1. DawpTypeOK'
  <2>1. pending \in Seq(PendingRuns) /\ consumed \in Nat /\ runCount \in Nat
    BY DEF IInv, TypeOK, DawpTypeOK
  <2>2. pending' = pending \/ (EnqueueAllowed /\ pending' = Append(pending, ToolRun))
    BY Zenon DEF MainRound, ToolEnqueue
  <2>3. pending' \in Seq(PendingRuns)
    BY <2>1, <2>2, AppendQueue, ConfigRunType, Zenon
  <2>4. consumed' \in Nat /\ runCount' \in Nat
    BY <2>1, SMT DEF MainRound, Consume
  <2>5. UNCHANGED <<triggered, run, handoff>>
    BY Zenon DEF MainRound
  <2> QED BY <2>3, <2>4, <2>5 DEF IInv, TypeOK, DawpTypeOK
<1>2. BudgetShared' /\ RunQuota'
  BY ScheduleQueue, AppendQueue, ConfigRunType, ActiveIsNotNoRun, DawpAssumption, SMT
     DEF IInv, TypeOK, DawpTypeOK, BudgetShared, RunQuota, RunInProgress, AdmittedRuns,
         ToolEnqueue, Remaining, MainRound, Consume, dawpVars, gvrVars
<1>3. RunInProgress'
  BY ActiveIsNotNoRun, DawpAssumption, SMT
     DEF IInv, TypeOK, LoopTypeOK, RunInProgress, AnswerPending, MainRound, Consume, dawpVars, gvrVars
<1>4. /\ pc' \in Control /\ attempt' \in 0 .. MaxRetries /\ iteration' \in Nat
      /\ outcome' \in Outcomes /\ answeredAt' \in Nat
  BY LoopAssumption, SMT DEF IInv, TypeOK, DawpTypeOK, LoopTypeOK, Control, Outcomes, MainRound, Consume, dawpVars, gvrVars
<1>5. /\ token' \in BOOLEAN /\ drained' \in BOOLEAN
      /\ abortFailed' \in BOOLEAN
  BY Zenon DEF IInv, TypeOK, LoopTypeOK, MainRound, Consume, dawpVars, gvrVars
<1>6. result' \in Results /\ reported' \in Results \cup {"nested"}
  BY SMT DEF IInv, TypeOK, LoopTypeOK, Results, MainRound, Consume, dawpVars, gvrVars
<1>7. GvrTypeOK'
  BY SMT DEF IInv, TypeOK, GvrTypeOK, Evidence, MainRound, Consume, dawpVars, gvrVars
<1>8. AnswerPending'
  BY SMT DEF IInv, TypeOK, LoopTypeOK, RunInProgress, AnswerPending, MainRound, Consume, dawpVars, gvrVars
<1>9. Outcome' /\ AnswerAfterRuns' /\ StreamReportsResult' /\ RefinesBounded'
  BY GvrAssumption, SMT
     DEF IInv, TypeOK, GvrTypeOK, AnswerPending, Outcome, AnswerAfterRuns,
         StreamReportsResult, RefinesBounded, MainRound, Consume, dawpVars, gvrVars
<1>10. QED
  BY <1>1, <1>2, <1>3, <1>4, <1>5, <1>6, <1>7, <1>8, <1>9 DEF IInv, TypeOK, LoopTypeOK

\* The round raises.
LEMMA MainRaisesKeeps == ASSUME IInv, MainRaises PROVE IInv'
<1>1. DawpTypeOK'
  <2>1. pending \in Seq(PendingRuns) /\ consumed \in Nat /\ runCount \in Nat
    BY DEF IInv, TypeOK, DawpTypeOK
  <2>2. pending' = pending \/ (EnqueueAllowed /\ pending' = Append(pending, ToolRun))
    BY Zenon DEF MainRaises, ToolEnqueue
  <2>3. pending' \in Seq(PendingRuns)
    BY <2>1, <2>2, AppendQueue, ConfigRunType, Zenon
  <2>4. consumed' \in Nat /\ runCount' \in Nat
    BY <2>1, SMT DEF MainRaises, Goto
  <2>5. UNCHANGED <<triggered, run, handoff>>
    BY Zenon DEF MainRaises
  <2> QED BY <2>3, <2>4, <2>5 DEF IInv, TypeOK, DawpTypeOK
<1>2. BudgetShared' /\ RunQuota'
  BY ScheduleQueue, AppendQueue, ConfigRunType, ActiveIsNotNoRun, DawpAssumption, SMT
     DEF IInv, TypeOK, DawpTypeOK, BudgetShared, RunQuota, RunInProgress, AdmittedRuns,
         ToolEnqueue, Remaining, MainRaises, dawpVars, gvrVars, Goto
<1>3. RunInProgress'
  BY ActiveIsNotNoRun, DawpAssumption, SMT
     DEF IInv, TypeOK, LoopTypeOK, RunInProgress, AnswerPending, MainRaises, dawpVars, gvrVars, Goto
<1>4. /\ pc' \in Control /\ attempt' \in 0 .. MaxRetries /\ iteration' \in Nat
      /\ outcome' \in Outcomes /\ answeredAt' \in Nat
  BY LoopAssumption, SMT DEF IInv, TypeOK, DawpTypeOK, LoopTypeOK, Control, Outcomes, MainRaises, dawpVars, gvrVars, Goto
<1>5. /\ token' \in BOOLEAN /\ drained' \in BOOLEAN
      /\ abortFailed' \in BOOLEAN
  BY Zenon DEF IInv, TypeOK, LoopTypeOK, MainRaises, dawpVars, gvrVars, Goto
<1>6. result' \in Results /\ reported' \in Results \cup {"nested"}
  BY SMT DEF IInv, TypeOK, LoopTypeOK, Results, MainRaises, dawpVars, gvrVars, Goto
<1>7. GvrTypeOK'
  BY SMT DEF IInv, TypeOK, GvrTypeOK, Evidence, MainRaises, dawpVars, gvrVars, Goto
<1>8. AnswerPending'
  BY SMT DEF IInv, TypeOK, LoopTypeOK, RunInProgress, AnswerPending, MainRaises, dawpVars, gvrVars, Goto
<1>9. Outcome' /\ AnswerAfterRuns' /\ StreamReportsResult' /\ RefinesBounded'
  BY GvrAssumption, SMT
     DEF IInv, TypeOK, GvrTypeOK, AnswerPending, Outcome, AnswerAfterRuns,
         StreamReportsResult, RefinesBounded, MainRaises, dawpVars, gvrVars, Goto
<1>10. QED
  BY <1>1, <1>2, <1>3, <1>4, <1>5, <1>6, <1>7, <1>8, <1>9 DEF IInv, TypeOK, LoopTypeOK

\* ON_ITERATION_END.
LEMMA IterationEndKeeps == ASSUME IInv, IterationEnd PROVE IInv'
<1>1. DawpTypeOK'
  BY IterationEndQueue
<1>2. BudgetShared' /\ RunQuota'
  BY ScheduleQueue, AppendQueue, ConfigRunType, ActiveIsNotNoRun, DawpAssumption, SMT
     DEF IInv, TypeOK, DawpTypeOK, BudgetShared, RunQuota, RunInProgress, AdmittedRuns,
         ToolEnqueue, Remaining, IterationEnd, dawpVars, gvrVars, Goto
<1>3. RunInProgress'
  BY ActiveIsNotNoRun, DawpAssumption, SMT
     DEF IInv, TypeOK, LoopTypeOK, RunInProgress, AnswerPending, IterationEnd, dawpVars, gvrVars, Goto
<1>4. /\ pc' \in Control /\ attempt' \in 0 .. MaxRetries /\ iteration' \in Nat
      /\ outcome' \in Outcomes /\ answeredAt' \in Nat
  BY LoopAssumption, SMT DEF IInv, TypeOK, DawpTypeOK, LoopTypeOK, Control, Outcomes, IterationEnd, dawpVars, gvrVars, Goto
<1>5. /\ token' \in BOOLEAN /\ drained' \in BOOLEAN
      /\ abortFailed' \in BOOLEAN
  BY Zenon DEF IInv, TypeOK, LoopTypeOK, IterationEnd, dawpVars, gvrVars, Goto
<1>6. result' \in Results /\ reported' \in Results \cup {"nested"}
  BY SMT DEF IInv, TypeOK, LoopTypeOK, Results, IterationEnd, dawpVars, gvrVars, Goto
<1>7. GvrTypeOK'
  BY SMT DEF IInv, TypeOK, GvrTypeOK, Evidence, IterationEnd, dawpVars, gvrVars, Goto
<1>8. AnswerPending'
  BY SMT DEF IInv, TypeOK, LoopTypeOK, RunInProgress, AnswerPending, IterationEnd, dawpVars, gvrVars, Goto
<1>9. Outcome' /\ AnswerAfterRuns' /\ StreamReportsResult' /\ RefinesBounded'
  BY GvrAssumption, SMT
     DEF IInv, TypeOK, GvrTypeOK, AnswerPending, Outcome, AnswerAfterRuns,
         StreamReportsResult, RefinesBounded, IterationEnd, dawpVars, gvrVars, Goto
<1>10. QED
  BY <1>1, <1>2, <1>3, <1>4, <1>5, <1>6, <1>7, <1>8, <1>9 DEF IInv, TypeOK, LoopTypeOK

\* ON_ITERATION_END raises.
LEMMA HookRaisesKeeps == ASSUME IInv, HookRaises PROVE IInv'
<1>1. DawpTypeOK'
  BY ScheduleQueue, AppendQueue, ConfigRunType, SMT
     DEF IInv, TypeOK, DawpTypeOK, RunInProgress, RunQuota, AdmittedRuns, ToolEnqueue, HookRaises, dawpVars, gvrVars, Goto
<1>2. BudgetShared' /\ RunQuota'
  BY ScheduleQueue, AppendQueue, ConfigRunType, ActiveIsNotNoRun, DawpAssumption, SMT
     DEF IInv, TypeOK, DawpTypeOK, BudgetShared, RunQuota, RunInProgress, AdmittedRuns,
         ToolEnqueue, Remaining, HookRaises, dawpVars, gvrVars, Goto
<1>3. RunInProgress'
  BY ActiveIsNotNoRun, DawpAssumption, SMT
     DEF IInv, TypeOK, LoopTypeOK, RunInProgress, AnswerPending, HookRaises, dawpVars, gvrVars, Goto
<1>4. /\ pc' \in Control /\ attempt' \in 0 .. MaxRetries /\ iteration' \in Nat
      /\ outcome' \in Outcomes /\ answeredAt' \in Nat
  BY LoopAssumption, SMT DEF IInv, TypeOK, DawpTypeOK, LoopTypeOK, Control, Outcomes, HookRaises, dawpVars, gvrVars, Goto
<1>5. /\ token' \in BOOLEAN /\ drained' \in BOOLEAN
      /\ abortFailed' \in BOOLEAN
  BY Zenon DEF IInv, TypeOK, LoopTypeOK, HookRaises, dawpVars, gvrVars, Goto
<1>6. result' \in Results /\ reported' \in Results \cup {"nested"}
  BY SMT DEF IInv, TypeOK, LoopTypeOK, Results, HookRaises, dawpVars, gvrVars, Goto
<1>7. GvrTypeOK'
  BY SMT DEF IInv, TypeOK, GvrTypeOK, Evidence, HookRaises, dawpVars, gvrVars, Goto
<1>8. AnswerPending'
  BY SMT DEF IInv, TypeOK, LoopTypeOK, RunInProgress, AnswerPending, HookRaises, dawpVars, gvrVars, Goto
<1>9. Outcome' /\ AnswerAfterRuns' /\ StreamReportsResult' /\ RefinesBounded'
  BY GvrAssumption, SMT
     DEF IInv, TypeOK, GvrTypeOK, AnswerPending, Outcome, AnswerAfterRuns,
         StreamReportsResult, RefinesBounded, HookRaises, dawpVars, gvrVars, Goto
<1>10. QED
  BY <1>1, <1>2, <1>3, <1>4, <1>5, <1>6, <1>7, <1>8, <1>9 DEF IInv, TypeOK, LoopTypeOK

\* The loop goes on.
LEMMA ContinueKeeps == ASSUME IInv, Continue PROVE IInv'
<1>1. DawpTypeOK'
  BY ScheduleQueue, AppendQueue, ConfigRunType, SMT
     DEF IInv, TypeOK, DawpTypeOK, RunInProgress, RunQuota, AdmittedRuns, ToolEnqueue, Continue, dawpVars, gvrVars
<1>2. BudgetShared' /\ RunQuota'
  BY ScheduleQueue, AppendQueue, ConfigRunType, ActiveIsNotNoRun, DawpAssumption, SMT
     DEF IInv, TypeOK, DawpTypeOK, BudgetShared, RunQuota, RunInProgress, AdmittedRuns,
         ToolEnqueue, Remaining, Continue, dawpVars, gvrVars
<1>3. RunInProgress'
  BY ActiveIsNotNoRun, DawpAssumption, SMT
     DEF IInv, TypeOK, LoopTypeOK, RunInProgress, AnswerPending, Continue, dawpVars, gvrVars
<1>4. /\ pc' \in Control /\ attempt' \in 0 .. MaxRetries /\ iteration' \in Nat
      /\ outcome' \in Outcomes /\ answeredAt' \in Nat
  BY LoopAssumption, SMT DEF IInv, TypeOK, DawpTypeOK, LoopTypeOK, Control, Outcomes, Continue, dawpVars, gvrVars
<1>5. /\ token' \in BOOLEAN /\ drained' \in BOOLEAN
      /\ abortFailed' \in BOOLEAN
  BY Zenon DEF IInv, TypeOK, LoopTypeOK, Continue, dawpVars, gvrVars
<1>6. result' \in Results /\ reported' \in Results \cup {"nested"}
  BY SMT DEF IInv, TypeOK, LoopTypeOK, Results, Continue, dawpVars, gvrVars
<1>7. GvrTypeOK'
  BY SMT DEF IInv, TypeOK, GvrTypeOK, Evidence, Continue, dawpVars, gvrVars
<1>8. AnswerPending'
  BY SMT DEF IInv, TypeOK, LoopTypeOK, RunInProgress, AnswerPending, Continue, dawpVars, gvrVars
<1>9. Outcome' /\ AnswerAfterRuns' /\ StreamReportsResult' /\ RefinesBounded'
  BY GvrAssumption, SMT
     DEF IInv, TypeOK, GvrTypeOK, AnswerPending, Outcome, AnswerAfterRuns,
         StreamReportsResult, RefinesBounded, Continue, dawpVars, gvrVars
<1>10. QED
  BY <1>1, <1>2, <1>3, <1>4, <1>5, <1>6, <1>7, <1>8, <1>9 DEF IInv, TypeOK, LoopTypeOK

\* The pre-exit check.
LEMMA DecideKeeps == ASSUME IInv, Decide PROVE IInv'
<1>1. DawpTypeOK'
  BY ScheduleQueue, AppendQueue, ConfigRunType, SMT
     DEF IInv, TypeOK, DawpTypeOK, RunInProgress, RunQuota, AdmittedRuns, ToolEnqueue, Decide, dawpVars, gvrVars, Obey, Finish, Verdicts
<1>2. BudgetShared' /\ RunQuota'
  BY ScheduleQueue, AppendQueue, ConfigRunType, ActiveIsNotNoRun, DawpAssumption, SMT
     DEF IInv, TypeOK, DawpTypeOK, BudgetShared, RunQuota, RunInProgress, AdmittedRuns,
         ToolEnqueue, Remaining, Decide, dawpVars, gvrVars, Obey, Finish, Verdicts
<1>3. RunInProgress'
  BY ActiveIsNotNoRun, DawpAssumption, SMT
     DEF IInv, TypeOK, LoopTypeOK, RunInProgress, AnswerPending, Decide, dawpVars, gvrVars, Obey, Finish, Verdicts
<1>4. /\ pc' \in Control /\ attempt' \in 0 .. MaxRetries /\ iteration' \in Nat
      /\ outcome' \in Outcomes /\ answeredAt' \in Nat
  BY LoopAssumption, SMT DEF IInv, TypeOK, DawpTypeOK, LoopTypeOK, Control, Outcomes, Decide, dawpVars, gvrVars, Obey, Finish, Verdicts
<1>5. /\ token' \in BOOLEAN /\ drained' \in BOOLEAN
      /\ abortFailed' \in BOOLEAN
  BY Zenon DEF IInv, TypeOK, LoopTypeOK, Decide, dawpVars, gvrVars, Obey, Finish, Verdicts
<1>6. result' \in Results /\ reported' \in Results \cup {"nested"}
  BY SMT DEF IInv, TypeOK, LoopTypeOK, Results, Decide, dawpVars, gvrVars, Obey, Finish, Verdicts
<1>7. GvrTypeOK'
  BY ChecksKeep
<1>8. AnswerPending'
  BY SMT DEF IInv, TypeOK, LoopTypeOK, RunInProgress, AnswerPending, Decide, dawpVars, gvrVars, Obey, Finish, Verdicts
<1>9. Outcome' /\ AnswerAfterRuns' /\ StreamReportsResult' /\ RefinesBounded'
  BY ChecksKeep
<1>10. QED
  BY <1>1, <1>2, <1>3, <1>4, <1>5, <1>6, <1>7, <1>8, <1>9 DEF IInv, TypeOK, LoopTypeOK

\* The stop check.
LEMMA StopHookKeeps == ASSUME IInv, StopHook PROVE IInv'
<1>1. DawpTypeOK'
  BY ScheduleQueue, AppendQueue, ConfigRunType, SMT
     DEF IInv, TypeOK, DawpTypeOK, RunInProgress, RunQuota, AdmittedRuns, ToolEnqueue, StopHook, dawpVars, gvrVars, Obey, Finish, Verdicts
<1>2. BudgetShared' /\ RunQuota'
  BY ScheduleQueue, AppendQueue, ConfigRunType, ActiveIsNotNoRun, DawpAssumption, SMT
     DEF IInv, TypeOK, DawpTypeOK, BudgetShared, RunQuota, RunInProgress, AdmittedRuns,
         ToolEnqueue, Remaining, StopHook, dawpVars, gvrVars, Obey, Finish, Verdicts
<1>3. RunInProgress'
  BY ActiveIsNotNoRun, DawpAssumption, SMT
     DEF IInv, TypeOK, LoopTypeOK, RunInProgress, AnswerPending, StopHook, dawpVars, gvrVars, Obey, Finish, Verdicts
<1>4. /\ pc' \in Control /\ attempt' \in 0 .. MaxRetries /\ iteration' \in Nat
      /\ outcome' \in Outcomes /\ answeredAt' \in Nat
  BY LoopAssumption, SMT DEF IInv, TypeOK, DawpTypeOK, LoopTypeOK, Control, Outcomes, StopHook, dawpVars, gvrVars, Obey, Finish, Verdicts
<1>5. /\ token' \in BOOLEAN /\ drained' \in BOOLEAN
      /\ abortFailed' \in BOOLEAN
  BY Zenon DEF IInv, TypeOK, LoopTypeOK, StopHook, dawpVars, gvrVars, Obey, Finish, Verdicts
<1>6. result' \in Results /\ reported' \in Results \cup {"nested"}
  BY SMT DEF IInv, TypeOK, LoopTypeOK, Results, StopHook, dawpVars, gvrVars, Obey, Finish, Verdicts
<1>7. GvrTypeOK'
  BY ChecksKeep
<1>8. AnswerPending'
  BY SMT DEF IInv, TypeOK, LoopTypeOK, RunInProgress, AnswerPending, StopHook, dawpVars, gvrVars, Obey, Finish, Verdicts
<1>9. Outcome' /\ AnswerAfterRuns' /\ StreamReportsResult' /\ RefinesBounded'
  BY ChecksKeep
<1>10. QED
  BY <1>1, <1>2, <1>3, <1>4, <1>5, <1>6, <1>7, <1>8, <1>9 DEF IInv, TypeOK, LoopTypeOK

\* The budget is spent.
LEMMA MaxIterationsKeeps == ASSUME IInv, MaxIterations PROVE IInv'
<1>1. DawpTypeOK'
  BY ScheduleQueue, AppendQueue, ConfigRunType, SMT
     DEF IInv, TypeOK, DawpTypeOK, RunInProgress, RunQuota, AdmittedRuns, ToolEnqueue, MaxIterations, dawpVars, gvrVars, Finish
<1>2. BudgetShared' /\ RunQuota'
  BY ScheduleQueue, AppendQueue, ConfigRunType, ActiveIsNotNoRun, DawpAssumption, SMT
     DEF IInv, TypeOK, DawpTypeOK, BudgetShared, RunQuota, RunInProgress, AdmittedRuns,
         ToolEnqueue, Remaining, MaxIterations, dawpVars, gvrVars, Finish
<1>3. RunInProgress'
  BY ActiveIsNotNoRun, DawpAssumption, SMT
     DEF IInv, TypeOK, LoopTypeOK, RunInProgress, AnswerPending, MaxIterations, dawpVars, gvrVars, Finish
<1>4. /\ pc' \in Control /\ attempt' \in 0 .. MaxRetries /\ iteration' \in Nat
      /\ outcome' \in Outcomes /\ answeredAt' \in Nat
  BY LoopAssumption, SMT DEF IInv, TypeOK, DawpTypeOK, LoopTypeOK, Control, Outcomes, MaxIterations, dawpVars, gvrVars, Finish
<1>5. /\ token' \in BOOLEAN /\ drained' \in BOOLEAN
      /\ abortFailed' \in BOOLEAN
  BY Zenon DEF IInv, TypeOK, LoopTypeOK, MaxIterations, dawpVars, gvrVars, Finish
<1>6. result' \in Results /\ reported' \in Results \cup {"nested"}
  BY SMT DEF IInv, TypeOK, LoopTypeOK, Results, MaxIterations, dawpVars, gvrVars, Finish
<1>7. GvrTypeOK'
  BY SMT DEF IInv, TypeOK, GvrTypeOK, Evidence, MaxIterations, dawpVars, gvrVars, Finish
<1>8. AnswerPending'
  BY SMT DEF IInv, TypeOK, LoopTypeOK, RunInProgress, AnswerPending, MaxIterations, dawpVars, gvrVars, Finish
<1>9. Outcome' /\ AnswerAfterRuns' /\ StreamReportsResult' /\ RefinesBounded'
  BY GvrAssumption, SMT
     DEF IInv, TypeOK, GvrTypeOK, AnswerPending, Outcome, AnswerAfterRuns,
         StreamReportsResult, RefinesBounded, MaxIterations, dawpVars, gvrVars, Finish
<1>10. QED
  BY <1>1, <1>2, <1>3, <1>4, <1>5, <1>6, <1>7, <1>8, <1>9 DEF IInv, TypeOK, LoopTypeOK

\* Another attempt.
LEMMA RetryKeeps == ASSUME IInv, Retry PROVE IInv'
<1>1. DawpTypeOK'
  BY ScheduleQueue, AppendQueue, ConfigRunType, SMT
     DEF IInv, TypeOK, DawpTypeOK, RunInProgress, RunQuota, AdmittedRuns, ToolEnqueue, Retry, dawpVars, gvrVars
<1>2. BudgetShared' /\ RunQuota'
  BY ScheduleQueue, AppendQueue, ConfigRunType, ActiveIsNotNoRun, DawpAssumption, SMT
     DEF IInv, TypeOK, DawpTypeOK, BudgetShared, RunQuota, RunInProgress, AdmittedRuns,
         ToolEnqueue, Remaining, Retry, dawpVars, gvrVars
<1>3. RunInProgress'
  BY ActiveIsNotNoRun, DawpAssumption, SMT
     DEF IInv, TypeOK, LoopTypeOK, RunInProgress, AnswerPending, Retry, dawpVars, gvrVars
<1>4. /\ pc' \in Control /\ attempt' \in 0 .. MaxRetries /\ iteration' \in Nat
      /\ outcome' \in Outcomes /\ answeredAt' \in Nat
  BY LoopAssumption, SMT DEF IInv, TypeOK, DawpTypeOK, LoopTypeOK, Control, Outcomes, Retry, dawpVars, gvrVars
<1>5. /\ token' \in BOOLEAN /\ drained' \in BOOLEAN
      /\ abortFailed' \in BOOLEAN
  BY Zenon DEF IInv, TypeOK, LoopTypeOK, Retry, dawpVars, gvrVars
<1>6. result' \in Results /\ reported' \in Results \cup {"nested"}
  BY SMT DEF IInv, TypeOK, LoopTypeOK, Results, Retry, dawpVars, gvrVars
<1>7. GvrTypeOK'
  BY SMT DEF IInv, TypeOK, GvrTypeOK, Evidence, Retry, dawpVars, gvrVars
<1>8. AnswerPending'
  BY SMT DEF IInv, TypeOK, LoopTypeOK, RunInProgress, AnswerPending, Retry, dawpVars, gvrVars
<1>9. Outcome' /\ AnswerAfterRuns' /\ StreamReportsResult' /\ RefinesBounded'
  BY GvrAssumption, SMT
     DEF IInv, TypeOK, GvrTypeOK, AnswerPending, Outcome, AnswerAfterRuns,
         StreamReportsResult, RefinesBounded, Retry, dawpVars, gvrVars
<1>10. QED
  BY <1>1, <1>2, <1>3, <1>4, <1>5, <1>6, <1>7, <1>8, <1>9 DEF IInv, TypeOK, LoopTypeOK

\* The error is the task's.
LEMMA GiveUpKeeps == ASSUME IInv, GiveUp PROVE IInv'
<1>1. DawpTypeOK'
  BY ScheduleQueue, AppendQueue, ConfigRunType, SMT
     DEF IInv, TypeOK, DawpTypeOK, RunInProgress, RunQuota, AdmittedRuns, ToolEnqueue, GiveUp, dawpVars, gvrVars, Finish
<1>2. BudgetShared' /\ RunQuota'
  BY ScheduleQueue, AppendQueue, ConfigRunType, ActiveIsNotNoRun, DawpAssumption, SMT
     DEF IInv, TypeOK, DawpTypeOK, BudgetShared, RunQuota, RunInProgress, AdmittedRuns,
         ToolEnqueue, Remaining, GiveUp, dawpVars, gvrVars, Finish
<1>3. RunInProgress'
  BY ActiveIsNotNoRun, DawpAssumption, SMT
     DEF IInv, TypeOK, LoopTypeOK, RunInProgress, AnswerPending, GiveUp, dawpVars, gvrVars, Finish
<1>4. /\ pc' \in Control /\ attempt' \in 0 .. MaxRetries /\ iteration' \in Nat
      /\ outcome' \in Outcomes /\ answeredAt' \in Nat
  BY LoopAssumption, SMT DEF IInv, TypeOK, DawpTypeOK, LoopTypeOK, Control, Outcomes, GiveUp, dawpVars, gvrVars, Finish
<1>5. /\ token' \in BOOLEAN /\ drained' \in BOOLEAN
      /\ abortFailed' \in BOOLEAN
  BY Zenon DEF IInv, TypeOK, LoopTypeOK, GiveUp, dawpVars, gvrVars, Finish
<1>6. result' \in Results /\ reported' \in Results \cup {"nested"}
  BY SMT DEF IInv, TypeOK, LoopTypeOK, Results, GiveUp, dawpVars, gvrVars, Finish
<1>7. GvrTypeOK'
  BY SMT DEF IInv, TypeOK, GvrTypeOK, Evidence, GiveUp, dawpVars, gvrVars, Finish
<1>8. AnswerPending'
  BY SMT DEF IInv, TypeOK, LoopTypeOK, RunInProgress, AnswerPending, GiveUp, dawpVars, gvrVars, Finish
<1>9. Outcome' /\ AnswerAfterRuns' /\ StreamReportsResult' /\ RefinesBounded'
  BY GvrAssumption, SMT
     DEF IInv, TypeOK, GvrTypeOK, AnswerPending, Outcome, AnswerAfterRuns,
         StreamReportsResult, RefinesBounded, GiveUp, dawpVars, gvrVars, Finish
<1>10. QED
  BY <1>1, <1>2, <1>3, <1>4, <1>5, <1>6, <1>7, <1>8, <1>9 DEF IInv, TypeOK, LoopTypeOK

-----------------------------------------------------------------------------
(* The theorems *)

\* The invariant holds when the task starts.
LEMMA InitInv == Init => IInv
<1> SUFFICES ASSUME Init PROVE IInv
  OBVIOUS
<1>1. pending \in Seq(PendingRuns) /\ Len(pending) <= MaxRuns
  BY LoopAssumption DEF Init
<1>2. DawpTypeOK
  BY <1>1 DEF Init, DawpTypeOK
<1>3. GvrTypeOK
  BY DEF Init, GvrTypeOK
<1>4. LoopTypeOK
  <2>1. pc \in Control /\ attempt \in 0 .. MaxRetries /\ iteration \in Nat /\ answeredAt \in Nat
    BY LoopAssumption, SMT DEF Init, Control
  <2>2. outcome \in Outcomes /\ result \in Results /\ reported \in Results
    BY Zenon DEF Init, Outcomes, Results
  <2>3. token \in BOOLEAN /\ drained \in BOOLEAN /\ abortFailed \in BOOLEAN
    BY Zenon DEF Init
  <2> QED BY <2>1, <2>2, <2>3 DEF LoopTypeOK
<1>5. BudgetShared /\ RunQuota
  BY <1>1, DawpAssumption, SMT DEF Init, BudgetShared, RunQuota, AdmittedRuns
<1>6. RunInProgress /\ AnswerPending /\ Outcome /\ AnswerAfterRuns /\ StreamReportsResult
  BY GvrAssumption, SMT
     DEF Init, RunInProgress, AnswerPending, Outcome, AnswerAfterRuns, StreamReportsResult
<1>7. RefinesBounded
  BY GvrAssumption, SMT DEF Init, RefinesBounded
<1> QED BY <1>2, <1>3, <1>4, <1>5, <1>6, <1>7 DEF IInv, TypeOK

\* Every step of the task, and every stutter, preserves it.
LEMMA NextKeeps == ASSUME IInv, [Next]_vars PROVE IInv'
<1>1. CASE Step
  BY <1>1, PreMainLoopKeeps, StartAttemptKeeps, DrainNextKeeps, DrainDoneKeeps, ChainRoundKeeps, ChainRaisesKeeps, EndRunKeeps, CallbackRaisesKeeps, MainRoundKeeps, MainRaisesKeeps, IterationEndKeeps, HookRaisesKeeps, ContinueKeeps, DecideKeeps, StopHookKeeps, MaxIterationsKeeps, RetryKeeps, GiveUpKeeps DEF Step
<1>2. CASE UNCHANGED vars
  BY <1>2
     DEF vars, dawpVars, gvrVars, loopVars, IInv, TypeOK, DawpTypeOK, GvrTypeOK, LoopTypeOK,
         BudgetShared, RunQuota, AdmittedRuns, RunInProgress, Remaining, AnswerPending, Outcome,
         AnswerAfterRuns, StreamReportsResult, RefinesBounded
<1> QED BY <1>1, <1>2 DEF Next, Terminated

\* The inductive invariant of the tool loop.
THEOREM LoopInvariant == Spec => []IInv
<1>1. Init => IInv
  BY InitInv
<1>2. IInv /\ [Next]_vars => IInv'
  BY NextKeeps
<1> QED BY <1>1, <1>2, PTL DEF Spec

\* Type correctness of the task's state.
THEOREM TypeCorrect == Spec => []TypeOK
<1>1. IInv => TypeOK
  BY DEF IInv
<1> QED BY <1>1, LoopInvariant, PTL

\* The rounds of main loop and DAWP steps, over every attempt, stay within
\* the one budget, and no step of a run is entered without budget.
THEOREM BudgetSafe == Spec => [](BudgetShared /\ StepHasBudget)
<1>1. IInv => BudgetShared /\ StepHasBudget
  BY DEF IInv, RunInProgress, StepHasBudget
<1> QED BY <1>1, LoopInvariant, PTL

\* No step of a task, a retry included, gives budget back.
THEOREM BudgetMonotone == Spec => BudgetNeverRefilled
<1>1. IInv /\ [Next]_vars => [consumed' >= consumed]_vars
  <2> SUFFICES ASSUME IInv, [Next]_vars PROVE consumed' >= consumed \/ UNCHANGED vars
    OBVIOUS
  <2>1. consumed \in Nat
    BY DEF IInv, TypeOK, DawpTypeOK
  <2>2. consumed' = consumed \/ consumed' = consumed + 1
    BY Zenon
       DEF Next, Terminated, Step, vars, dawpVars, PreMainLoop, StartAttempt, DrainNext, DrainDone, ChainRound, ChainRaises, EndRun, Aborts, CallbackRaises, MainRound, Consume, MainRaises, IterationEnd, HookRaises, Continue, Decide, StopHook, MaxIterations, Retry, GiveUp, TakeRun, ChainStep, RecordHandoff
  <2> QED BY <2>1, <2>2, SMT
<1> QED BY <1>1, LoopInvariant, PTL DEF Spec, BudgetNeverRefilled

\* max_runs_per_task bounds the runs executed, queued and in progress.
THEOREM QuotaSafe == Spec => []RunQuota
<1>1. IInv => RunQuota
  BY DEF IInv
<1> QED BY <1>1, LoopInvariant, PTL

\* An answer is returned only if no DAWP run came after it, and the stream's
\* last result event tells how the task ended.
THEOREM AnswerSafe == Spec => [](AnswerAfterRuns /\ StreamReportsResult)
<1>1. IInv => AnswerAfterRuns /\ StreamReportsResult
  BY DEF IInv
<1> QED BY <1>1, LoopInvariant, PTL

\* A goal is refined at most max_refines_per_goal times, and exhausted at the
\* next failed verdict.
THEOREM RefinesSafe == Spec => []RefinesBounded
<1>1. IInv => RefinesBounded
  BY DEF IInv
<1> QED BY <1>1, LoopInvariant, PTL

-----------------------------------------------------------------------------
(* The loop implements TaskContract: initial states are initial states of    *)
(* the contract, and every step is one of the contract or leaves its view.   *)

\* The part of the state the contract sees.
SameView == UNCHANGED <<consumed, runCount, answeredAt, result>>

\* A task that has not begun has used nothing, and one whose model has
\* answered has used a round.
Started ==
  /\ pc = "pre" => consumed = 0 /\ runCount = 0
  /\ outcome # "none" => consumed > 0

LEMMA InitStarted == Init => Started
BY DEF Init, Started

\* No step brings a task back before its beginning, and none takes a round back.
LEMMA StepStarted == ASSUME IInv, Started, [Next]_vars PROVE Started'
<1>1. consumed \in Nat
  BY DEF IInv, TypeOK, DawpTypeOK
<1>2. CASE UNCHANGED vars
  BY <1>2 DEF vars, dawpVars, loopVars, Started
<1>3. ASSUME Step PROVE Started'
  <2>1. pc' # "pre"
    <3>1. CASE PreMainLoop BY <3>1, Zenon DEF PreMainLoop, Goto, Finish
    <3>2. CASE StartAttempt BY <3>2 DEF StartAttempt
    <3>3. CASE DrainNext BY <3>3 DEF DrainNext
    <3>4. CASE DrainDone BY <3>4 DEF DrainDone, Goto
    <3>5. CASE ChainRound BY <3>5 DEF ChainRound
    <3>6. CASE ChainRaises BY <3>6 DEF ChainRaises
    <3>7. CASE EndRun BY <3>7 DEF EndRun, Finish, DrainPc
    <3>8. CASE CallbackRaises BY <3>8 DEF CallbackRaises
    <3>9. CASE MainRound BY <3>9 DEF MainRound
    <3>10. CASE MainRaises BY <3>10 DEF MainRaises, Goto
    <3>11. CASE IterationEnd BY <3>11 DEF IterationEnd, Goto
    <3>12. CASE HookRaises BY <3>12 DEF HookRaises, Goto
    <3>13. CASE Continue BY <3>13 DEF Continue
    <3>14. CASE Decide BY <3>14 DEF Decide, Obey, Finish
    <3>15. CASE StopHook BY <3>15 DEF StopHook, Obey, Finish
    <3>16. CASE MaxIterations BY <3>16 DEF MaxIterations, Finish
    <3>17. CASE Retry BY <3>17 DEF Retry
    <3>18. CASE GiveUp BY <3>18 DEF GiveUp, Finish
    <3> QED BY <1>3, <3>1, <3>2, <3>3, <3>4, <3>5, <3>6, <3>7, <3>8, <3>9, <3>10, <3>11,
               <3>12, <3>13, <3>14, <3>15, <3>16, <3>17, <3>18 DEF Step
  <2>2. /\ consumed' = consumed \/ consumed' = consumed + 1
        /\ outcome' = outcome \/ outcome' = "none" \/ consumed' = consumed + 1
    BY <1>3, Zenon
       DEF Step, dawpVars, PreMainLoop, Goto, Finish, StartAttempt, DrainNext, DrainDone, ChainRound, ChainRaises, EndRun, CallbackRaises, MainRound, Consume, MainRaises, IterationEnd, HookRaises, Continue, Decide, StopHook, Obey, MaxIterations, Retry, GiveUp, TakeRun, ChainStep
  <2> QED BY <1>1, <2>1, <2>2, SMT DEF Started
<1> QED BY <1>2, <1>3 DEF Next, Terminated

-----------------------------------------------------------------------------
(* The steps of the loop as steps of the contract *)

\* A step that shows nothing of itself.
LEMMA Silent == ASSUME SameView, result = "none" PROVE UNCHANGED Contract!vars
BY DEF SameView, Contract!vars

\* Before the loop the task goes on, or a plugin has answered it.
LEMMA PreMainLoopRefines ==
  ASSUME IInv, Started, PreMainLoop PROVE [Contract!Next]_(Contract!vars)
<1>1. result = "none" /\ consumed = 0 /\ runCount = 0
  BY DEF PreMainLoop, IInv, Outcome, Started
<1>2. CASE UNCHANGED result
  BY <1>1, <1>2, Silent, Zenon DEF PreMainLoop, Goto, Finish, SameView
<1>3. CASE Finish("short_circuit") /\ reported' = "short_circuit"
           /\ UNCHANGED <<consumed, runCount, answeredAt>>
  <2>1. Contract!End("short_circuit") /\ Contract!Justified("short_circuit")
    BY <1>1, <1>3 DEF Finish, Contract!End, Contract!Justified
  <2> QED BY <2>1, <1>3 DEF Results, Contract!Return, Contract!Next
<1> QED BY <1>2, <1>3, Zenon DEF PreMainLoop, Goto

\* A round of a DAWP run.
LEMMA ChainRoundRefines == ASSUME IInv, ChainRound PROVE Contract!Nested
<1>1. result = "none" /\ consumed < Limit
  BY SMT DEF ChainRound, IInv, TypeOK, DawpTypeOK, Outcome, RunInProgress, Remaining
<1> QED BY <1>1, Zenon DEF ChainRound, ChainStep, Consume, Contract!Nested

\* A round of the main loop.
LEMMA MainRoundRefines == ASSUME IInv, MainRound PROVE Contract!Answer
<1>1. result = "none" /\ consumed < Limit
  BY SMT DEF MainRound, IInv, TypeOK, DawpTypeOK, Outcome, Remaining
<1> QED BY <1>1, Zenon DEF MainRound, Consume, Contract!Answer

\* A run is counted while the quota has room for it, however it ended.
LEMMA CountRunRefines ==
  ASSUME IInv, CountRun, pc \in {"chain", "endRun"}, UNCHANGED <<consumed, answeredAt>>,
         \/ UNCHANGED result
         \/ Finish("dawp_abort_main") /\ reported' = "dawp_abort_main"
  PROVE  Contract!RunEnds
<1>1. result = "none"
  BY DEF IInv, Outcome
<1>2. runCount < MaxRuns /\ runCount' = runCount + 1
  BY ActiveIsNotNoRun, DawpAssumption, SMT
     DEF IInv, TypeOK, DawpTypeOK, RunInProgress, RunQuota, AdmittedRuns, CountRun
<1> QED BY <1>1, <1>2, Zenon DEF Finish, Contract!RunEnds, Contract!End

LEMMA RunEndRefines ==
  ASSUME IInv, ChainRaises \/ EndRun \/ CallbackRaises PROVE Contract!RunEnds
BY CountRunRefines, Zenon DEF ChainRaises, EndRun, CallbackRaises

\* The loop gives up: out of budget, or with an error.
LEMMA EndRefines ==
  ASSUME IInv, MaxIterations \/ GiveUp PROVE Contract!Return
<1>1. result = "none"
  BY DEF MaxIterations, GiveUp, IInv, Outcome
<1>2. CASE MaxIterations
  <2>1. consumed = Limit
    BY <1>2, DawpAssumption, SMT DEF MaxIterations, Remaining, IInv, TypeOK, DawpTypeOK, BudgetShared
  <2>2. Contract!End("max_iterations") /\ Contract!Justified("max_iterations")
    BY <1>1, <1>2, <2>1 DEF MaxIterations, Finish, dawpVars, Contract!End, Contract!Justified
  <2> QED BY <1>2, <2>2 DEF MaxIterations, dawpVars, Results, Contract!Return
<1>3. CASE GiveUp
  <2>1. Contract!End("error") /\ Contract!Justified("error")
    BY <1>1, <1>3 DEF GiveUp, Finish, dawpVars, Contract!End, Contract!Justified
  <2> QED BY <1>3, <2>1 DEF GiveUp, dawpVars, Results, Contract!Return
<1> QED BY <1>2, <1>3

\* The checks of an answer send the loop on, exhaust the goal, or let an
\* answer past that nothing has followed and that the stream has reported.
LEMMA ChecksRefine ==
  ASSUME IInv, Started, Decide \/ StopHook PROVE [Contract!Next]_(Contract!vars)
<1>1. result = "none" /\ UNCHANGED <<consumed, runCount, answeredAt>>
  BY Zenon DEF Decide, StopHook, Obey, dawpVars, IInv, Outcome
<1>2. \/ UNCHANGED result
      \/ result' = "verification_exhausted" /\ reported' = "verification_exhausted"
      \/ StopHook /\ result' = "answered"
  BY Zenon DEF Decide, StopHook, Obey, Finish
<1>3. CASE UNCHANGED result
  BY <1>1, <1>3, Silent DEF SameView
<1>4. CASE result' = "verification_exhausted" /\ reported' = "verification_exhausted"
  <2>1. Contract!End("verification_exhausted") /\ Contract!Justified("verification_exhausted")
    BY <1>1, <1>4 DEF Contract!End, Contract!Justified
  <2> QED BY <1>1, <2>1 DEF Results, Contract!Return, Contract!Next
<1>5. CASE StopHook /\ result' = "answered"
  <2>1. consumed > 0 /\ answeredAt = runCount
    BY <1>5 DEF StopHook, IInv, AnswerPending, Started
  <2>2. reported' = "answered"
    BY <1>5, ChecksKeep DEF StreamReportsResult
  <2>3. Contract!End("answered") /\ Contract!Justified("answered")
    BY <1>1, <1>5, <2>1, <2>2 DEF Contract!End, Contract!Justified
  <2> QED BY <1>1, <2>3 DEF Results, Contract!Return, Contract!Next
<1> QED BY <1>2, <1>3, <1>4, <1>5

\* Every step.
LEMMA StepRefines ==
  ASSUME IInv, Started, [Next]_vars PROVE [Contract!Next]_(Contract!vars)
<1>1. CASE UNCHANGED vars
  BY <1>1 DEF vars, dawpVars, loopVars, Contract!vars
<1>2. CASE PreMainLoop
  BY <1>2, PreMainLoopRefines
<1>3. CASE ChainRound \/ MainRound
  BY <1>3, ChainRoundRefines, MainRoundRefines DEF Contract!Next
<1>4. CASE ChainRaises \/ EndRun \/ CallbackRaises \/ MaxIterations \/ GiveUp
  BY <1>4, RunEndRefines, EndRefines DEF Contract!Next
<1>5. CASE Decide \/ StopHook
  BY <1>5, ChecksRefine
<1>6. CASE StartAttempt \/ DrainNext \/ DrainDone \/ MainRaises \/ IterationEnd
           \/ HookRaises \/ Continue \/ Retry
  <2>1. SameView
    BY <1>6, Zenon
       DEF StartAttempt, DrainNext, TakeRun, DrainDone, MainRaises, IterationEnd, HookRaises,
           Continue, Retry, Goto, dawpVars, SameView
  <2>2. pc # "done"
    BY <1>6 DEF StartAttempt, DrainNext, DrainDone, MainRaises, IterationEnd, HookRaises,
                Continue, Retry
  <2> QED BY <2>1, <2>2, Silent DEF IInv, Outcome
<1> QED BY <1>1, <1>2, <1>3, <1>4, <1>5, <1>6 DEF Next, Terminated, Step

\* The loop keeps the contract of a task: one end, an answer that came after
\* the last run, rounds within the budget, runs within the quota, and a
\* stream that ends with the result (execute_task, execute_task_streaming).
THEOREM LoopKeepsContract == Spec => ImplementsContract
<1>1. Init => Contract!Init
  BY DEF Init, Contract!Init
<1>2. Init => Started
  BY InitStarted
<1>3. IInv /\ Started /\ [Next]_vars => Started'
  BY StepStarted
<1>4. IInv /\ Started /\ [Next]_vars => [Contract!Next]_(Contract!vars)
  BY StepRefines
<1> QED BY <1>1, <1>2, <1>3, <1>4, LoopInvariant, PTL DEF Spec, ImplementsContract, Contract!Spec
-----------------------------------------------------------------------------
(* The first attempt of a task.  Nothing is left of another attempt then: no *)
(* handoff message, no checkpoint that has been taken, no aborting run.      *)

\* A handoff message is there at the end of a run that has failed, and a run
\* that should have ended the task has ended it.
FirstRuns == attempt = 0 =>
  /\ pc = "chain" => ~handoff /\ ~run.success
  /\ pc = "endRun" => (handoff <=> ~run.success)
  /\ pc \notin {"chain", "endRun", "raised", "done"} => ~handoff
  /\ abortFailed => pc \in {"raised", "done"} /\ result # "answered"

\* The checkpoints taken are all of iterations before this one.
AllBefore(keys, its, it) == (\A k \in keys : k[1] < it) /\ \A i \in its : i < it
TakenBefore(it) == AllBefore(checked, gatesRun, it)

\* An iteration finds its checkpoints free; at the STOP hook the answer has
\* passed what looks at it on task completion.
FirstChecks == attempt = 0 =>
  /\ pc \in {"pre", "start"} => checked = {} /\ gatesRun = {}
  /\ pc \notin {"pre", "start", "stop", "raised", "done"} => TakenBefore(iteration)
  /\ pc = "stop" =>
       /\ TakenBefore(iteration + 1) /\ <<iteration, "on_stop">> \notin checked
       /\ policy.when = "on_task_completed" /\ policy.blocking =>
            /\ policy.verifiers \/ policy.gates => "policy" \in evidence
            /\ policy.gates => "policyGates" \in evidence
       /\ policy.when # "on_task_completed" /\ policy.agentGates => "agentGates" \in evidence
       /\ iteration \in gatesRun =>
            IF policy.when = "on_task_completed" THEN policy.gates ELSE policy.agentGates

FirstInv == FirstRuns /\ FirstChecks /\ ChecksPassed

\* A policy run at a checkpoint not taken before: the answer goes on only
\* past every gate and verifier that is asked.
LEMMA PolicyRunChecks ==
  ASSUME NEW trigger \in Triggers, NEW it, NEW verdict, GvrTypeOK,
         <<it, trigger>> \notin checked, PolicyRun(trigger, it, verdict)
  PROVE  /\ checked' = checked \cup {<<it, trigger>>} /\ policy' = policy /\ evidence \subseteq evidence'
         /\ gatesRun' = gatesRun \/ (policy.gates /\ gatesRun' = gatesRun \cup {it})
         /\ verdict = "exit" /\ policy.blocking =>
              /\ policy.verifiers \/ (policy.gates /\ it \notin gatesRun) => "policy" \in evidence'
              /\ policy.gates /\ it \notin gatesRun => "policyGates" \in evidence'
<1>1. PICK gate, verifier :
        /\ gate \in GateOutcomes(policy.gates, it) /\ verifier \in VerifierOutcomes(gate)
        /\ checked' = checked \cup {<<it, trigger>>} /\ policy' = policy
        /\ MarkGates(gate, it)
        /\ \/ verifier = "raise" /\ verdict = "raised" /\ UNCHANGED evidence
           \/ /\ FailedVerdict(verdict)
              /\ evidence' = IF policy.blocking THEN evidence ELSE evidence \cup {"waived"}
           \/ /\ {"fail", "raise"} \cap {gate, verifier} = {}
              /\ evidence' = evidence \cup PolicyEvidence(gate, verifier)
  <2>1. ~(<<it, trigger>> \in checked /\ verdict = "exit" /\ UNCHANGED gvrVars)
    OBVIOUS
  <2> QED BY <2>1, Zenon DEF PolicyRun, Key
<1>2. gate # "none" => policy.gates
  BY <1>1 DEF GateOutcomes
<1>3. policy.gates /\ it \notin gatesRun => gate # "none"
  BY <1>1 DEF GateOutcomes
<1>4. policy.verifiers => gate # "none" \/ verifier # "none"
  BY <1>1 DEF VerifierOutcomes
<1>5. evidence \subseteq evidence'
  BY <1>1
<1>6. gatesRun' = gatesRun \/ (policy.gates /\ gatesRun' = gatesRun \cup {it})
  BY <1>1, <1>2 DEF MarkGates
<1>7. ASSUME verdict = "exit", policy.blocking
      PROVE  evidence' = evidence \cup PolicyEvidence(gate, verifier)
  BY <1>1, <1>7 DEF FailedVerdict
<1>8. /\ gate # "none" \/ verifier # "none" => "policy" \in PolicyEvidence(gate, verifier)
      /\ gate # "none" => "policyGates" \in PolicyEvidence(gate, verifier)
  BY DEF PolicyEvidence
<1> QED BY <1>1, <1>3, <1>4, <1>5, <1>6, <1>7, <1>8

\* The agent's own gates, on either path, if no other gates came first.
LEMMA FallbackChecks ==
  ASSUME NEW trigger, NEW it, NEW verdict,
         Fallback(trigger, it, verdict) \/ (StopCheck(it, verdict) /\ policy.when # "on_stop")
  PROVE  /\ UNCHANGED <<policy, checked>> /\ evidence \subseteq evidence'
         /\ gatesRun' = gatesRun \/ (policy.agentGates /\ gatesRun' = gatesRun \cup {it})
         /\ verdict = "exit" /\ policy.agentGates /\ it \notin gatesRun => "agentGates" \in evidence'
<1>1. PICK gate \in GateOutcomes(policy.agentGates, it) :
        /\ MarkGates(gate, it) /\ UNCHANGED <<policy, checked>>
        /\ gate = "fail" => verdict = "refine"
        /\ evidence \subseteq evidence'
        /\ verdict = "exit" /\ gate # "none" => "agentGates" \in evidence'
  <2>1. CASE Fallback(trigger, it, verdict)
    BY <2>1 DEF Fallback
  <2>2. CASE StopCheck(it, verdict) /\ policy.when # "on_stop"
    BY <2>2 DEF StopCheck, GateOutcomes
  <2> QED BY <2>1, <2>2
<1>2. gate # "none" => policy.agentGates
  BY DEF GateOutcomes
<1>3. policy.agentGates /\ it \notin gatesRun => gate # "none"
  BY DEF GateOutcomes
<1> QED BY <1>1, <1>2, <1>3 DEF MarkGates

\* The checks on task completion.
LEMMA DecideFirst ==
  ASSUME IInv, FirstInv, Decide PROVE FirstChecks' /\ ChecksPassed'
<1> SUFFICES ASSUME attempt = 0 PROVE FirstChecks' /\ ChecksPassed'
  BY Zenon DEF Decide, Obey, FirstChecks, ChecksPassed, VerifiedFirst, GatesSeen
<1>1. PICK verdict \in Verdicts :
        /\ PreExit("on_task_completed", iteration, verdict)
        /\ Obey(verdict, pc' = "stop" /\ UNCHANGED <<result, reported>>)
  BY Zenon DEF Decide
<1>2. TakenBefore(iteration) /\ iteration \in Nat /\ GvrTypeOK /\ result = "none"
  BY DEF Decide, FirstInv, FirstChecks, IInv, TypeOK, LoopTypeOK, Outcome
<1>3. iteration \notin gatesRun /\ \A trigger \in Triggers : <<iteration, trigger>> \notin checked
  BY <1>2, SMT DEF TakenBefore, AllBefore
<1>4. /\ checked' = checked \/ checked' = checked \cup {<<iteration, "on_task_completed">>}
      /\ gatesRun' = gatesRun \/ gatesRun' = gatesRun \cup {iteration}
      /\ policy' = policy
      /\ iteration \in gatesRun' =>
           IF policy.when = "on_task_completed" THEN policy.gates ELSE policy.agentGates
      /\ verdict = "exit" =>
           /\ policy.when = "on_task_completed" /\ policy.blocking =>
                /\ policy.verifiers \/ policy.gates => "policy" \in evidence'
                /\ policy.gates => "policyGates" \in evidence'
           /\ policy.when # "on_task_completed" /\ policy.agentGates => "agentGates" \in evidence'
  <2>1. CASE policy.when = "on_task_completed"
    <3>1. PolicyRun("on_task_completed", iteration, verdict)
      BY <1>1, <2>1 DEF PreExit
    <3> QED BY <1>2, <1>3, <2>1, <3>1, PolicyRunChecks DEF Triggers
  <2>2. CASE policy.when # "on_task_completed"
    <3>1. Fallback("on_task_completed", iteration, verdict)
      BY <1>1, <2>2 DEF PreExit
    <3> QED BY <1>3, <2>2, <3>1, FallbackChecks
  <2> QED BY <2>1, <2>2
<1>5. AllBefore(checked', gatesRun', iteration + 1) /\ <<iteration, "on_stop">> \notin checked'
  <2>1. \A k \in checked : k[1] \in Nat /\ k[1] < iteration
    BY <1>2 DEF GvrTypeOK, TakenBefore, AllBefore
  <2>2. \A i \in gatesRun : i \in Nat /\ i < iteration
    BY <1>2 DEF GvrTypeOK, TakenBefore, AllBefore
  <2>3. \A k \in checked' : k[1] < iteration + 1
    BY <1>2, <1>4, <2>1
  <2>4. \A i \in gatesRun' : i < iteration + 1
    BY <1>2, <1>4, <2>2
  <2>5. <<iteration, "on_stop">> \notin checked'
    BY <1>3, <1>4 DEF Triggers
  <2> QED BY <2>3, <2>4, <2>5 DEF AllBefore
<1>6. \/ verdict = "exit" /\ pc' = "stop" /\ iteration' = iteration
      \/ pc' = "loop" /\ iteration' = iteration + 1
      \/ pc' \in {"raised", "done"}
  BY <1>1, Zenon DEF Obey, Finish
<1>7. result' # "answered"
  BY <1>1, <1>2 DEF Obey, Finish
<1>8. FirstChecks'
  <2>1. CASE verdict = "exit" /\ pc' = "stop" /\ iteration' = iteration
    <3>1. TakenBefore(iteration + 1)' /\ <<iteration', "on_stop">> \notin checked'
      BY <1>5, <2>1 DEF TakenBefore
    <3> QED BY <1>4, <2>1, <3>1 DEF FirstChecks
  <2>2. CASE pc' = "loop" /\ iteration' = iteration + 1
    <3>1. TakenBefore(iteration)'
      BY <1>5, <2>2 DEF TakenBefore
    <3> QED BY <2>2, <3>1 DEF FirstChecks
  <2>3. CASE pc' \in {"raised", "done"}
    BY <2>3 DEF FirstChecks
  <2> QED BY <1>6, <2>1, <2>2, <2>3
<1>9. ChecksPassed'
  BY <1>7 DEF ChecksPassed, VerifiedFirst, VerifiedExit, GatesSeen
<1> QED BY <1>8, <1>9

\* The checks of the STOP hook.
LEMMA StopHookFirst ==
  ASSUME IInv, FirstInv, StopHook PROVE FirstChecks' /\ ChecksPassed'
<1> SUFFICES ASSUME attempt = 0 PROVE FirstChecks' /\ ChecksPassed'
  BY Zenon DEF StopHook, Obey, FirstChecks, ChecksPassed, VerifiedFirst, GatesSeen
<1>1. PICK verdict \in Verdicts :
        /\ StopCheck(iteration, verdict)
        /\ Obey(verdict, /\ Finish("answered")
                         /\ reported' = IF outcome = "stop_match" THEN reported ELSE "answered")
  BY Zenon DEF StopHook
<1>2. /\ pc = "stop" /\ iteration \in Nat /\ GvrTypeOK /\ result = "none"
      /\ TakenBefore(iteration + 1) /\ <<iteration, "on_stop">> \notin checked
      /\ policy.when = "on_task_completed" /\ policy.blocking =>
            /\ policy.verifiers \/ policy.gates => "policy" \in evidence
            /\ policy.gates => "policyGates" \in evidence
      /\ policy.when # "on_task_completed" /\ policy.agentGates => "agentGates" \in evidence
      /\ iteration \in gatesRun =>
            IF policy.when = "on_task_completed" THEN policy.gates ELSE policy.agentGates
  BY DEF StopHook, FirstInv, FirstChecks, IInv, TypeOK, LoopTypeOK, Outcome
<1>3. /\ checked' = checked \/ checked' = checked \cup {<<iteration, "on_stop">>}
      /\ gatesRun' = gatesRun \/ gatesRun' = gatesRun \cup {iteration}
      /\ policy' = policy /\ evidence \subseteq evidence'
      /\ verdict = "exit" =>
           /\ policy.when = "on_stop" /\ policy.blocking =>
                /\ policy.verifiers \/ PolicyGatesFirst => "policy" \in evidence'
                /\ PolicyGatesFirst => "policyGates" \in evidence'
           /\ policy.when = "on_task_completed" /\ AgentGatesFirst => "agentGates" \in evidence'
  <2>1. CASE policy.when = "on_stop"
    <3>1. PolicyRun("on_stop", iteration, verdict)
      BY <1>1, <2>1 DEF StopCheck
    <3>2. PolicyGatesFirst => policy.gates /\ iteration \notin gatesRun
      BY <1>2, <2>1 DEF PolicyGatesFirst
    <3> QED BY <1>2, <2>1, <3>1, <3>2, PolicyRunChecks DEF Triggers
  <2>2. CASE policy.when # "on_stop"
    <3>1. policy.when = "on_task_completed" /\ AgentGatesFirst => policy.agentGates /\ iteration \notin gatesRun
      BY <1>2 DEF AgentGatesFirst
    <3> QED BY <1>1, <2>2, <3>1, FallbackChecks
  <2> QED BY <2>1, <2>2
<1>4. CASE pc' = "loop" /\ iteration' = iteration + 1 /\ result' = result
  <2>1. TakenBefore(iteration)'
    <3>1. \A k \in checked' : k[1] < iteration + 1
      BY <1>2, <1>3 DEF TakenBefore, AllBefore
    <3>2. \A i \in gatesRun' : i < iteration + 1
      BY <1>2, <1>3 DEF TakenBefore, AllBefore
    <3> QED BY <1>4, <3>1, <3>2 DEF TakenBefore, AllBefore
  <2> QED BY <1>2, <1>4, <2>1 DEF FirstChecks, ChecksPassed, VerifiedFirst, VerifiedExit, GatesSeen
<1>5. CASE pc' \in {"raised", "done"} /\ result' # "answered"
  BY <1>5 DEF FirstChecks, ChecksPassed, VerifiedFirst, VerifiedExit, GatesSeen
<1>6. CASE verdict = "exit" /\ pc' = "done"
  <2>1. policy \in PolicyConfigs
    BY <1>2, GvrAssumption DEF GvrTypeOK
  <2>2. /\ policy.when # "never" /\ policy.blocking /\ (policy.verifiers \/ PolicyGatesFirst)
             => "policy" \in evidence'
        /\ PolicyGatesFirst /\ policy.blocking => "policyGates" \in evidence'
        /\ AgentGatesFirst => "agentGates" \in evidence'
    BY <1>2, <1>3, <1>6, <2>1 DEF PolicyConfigs, Triggers, PolicyGatesFirst, AgentGatesFirst
  <2>3. (PolicyGatesFirst <=> PolicyGatesFirst') /\ (AgentGatesFirst <=> AgentGatesFirst')
    BY <1>3 DEF PolicyGatesFirst, AgentGatesFirst
  <2>4. ChecksPassed'
    BY <1>3, <2>2, <2>3 DEF ChecksPassed, VerifiedFirst, VerifiedExit, GatesSeen
  <2> QED BY <1>6, <2>4 DEF FirstChecks
<1> QED BY <1>1, <1>2, <1>4, <1>5, <1>6, Zenon DEF Obey, Finish

\* What was taken before an iteration was taken before the next one.
LEMMA TakenStays ==
  ASSUME NEW it \in Nat, GvrTypeOK, TakenBefore(it), UNCHANGED <<checked, gatesRun>>
  PROVE  AllBefore(checked', gatesRun', it + 1)
<1>1. \A k \in checked : k[1] \in Nat
  BY DEF GvrTypeOK
<1>2. gatesRun \subseteq Nat
  BY DEF GvrTypeOK
<1> QED BY <1>1, <1>2, SMT DEF TakenBefore, AllBefore

\* The other steps leave the checks alone.
LEMMA FirstChecksStep ==
  ASSUME IInv, FirstInv, [Next]_vars PROVE FirstChecks' /\ ChecksPassed'
<1>1. CASE Decide
  BY <1>1, DecideFirst
<1>2. CASE StopHook
  BY <1>2, StopHookFirst
<1>3. CASE UNCHANGED vars
  BY <1>3 DEF vars, loopVars, gvrVars, FirstInv, FirstChecks, TakenBefore, ChecksPassed,
              VerifiedFirst, VerifiedExit, GatesSeen, PolicyGatesFirst, AgentGatesFirst
<1>4. ASSUME Step, ~Decide, ~StopHook PROVE FirstChecks' /\ ChecksPassed'
  <2>1. UNCHANGED <<policy, checked, gatesRun>> /\ (evidence' = evidence \/ MainRound)
    BY <1>4, Zenon
       DEF Step, gvrVars, PreMainLoop, StartAttempt, DrainNext, DrainDone, ChainRound, ChainRaises, EndRun,
           CallbackRaises, MainRound, MainRaises, IterationEnd, HookRaises, Continue, MaxIterations,
           Retry, GiveUp
  <2>2. ChecksPassed'
    <3>1. result' # "answered"
      BY <1>4, Zenon
         DEF Step, PreMainLoop, StartAttempt, DrainNext, DrainDone, ChainRound, ChainRaises, EndRun,
             CallbackRaises, MainRound, MainRaises, IterationEnd, HookRaises, Continue, MaxIterations,
             Retry, GiveUp, Goto, Finish, IInv, Outcome
    <3> QED BY <3>1 DEF ChecksPassed, VerifiedFirst, VerifiedExit, GatesSeen
  <2>3. FirstChecks'
    <3> SUFFICES ASSUME attempt' = 0 PROVE FirstChecks'
      BY DEF FirstChecks
    <3>1. ~Retry /\ attempt = 0 /\ iteration \in Nat
      <4>1. attempt \in Nat /\ iteration \in Nat
        BY LoopAssumption DEF IInv, TypeOK, LoopTypeOK
      <4>2. ~Retry
        BY <4>1, SMT DEF Retry
      <4> QED
        BY <1>4, <4>1, <4>2, Zenon
           DEF Step, PreMainLoop, StartAttempt, DrainNext, DrainDone, ChainRound, ChainRaises, EndRun,
               CallbackRaises, MainRound, MainRaises, IterationEnd, HookRaises, Continue, MaxIterations,
               GiveUp, Goto
    <3>2. CASE PreMainLoop
      BY <2>1, <3>1, <3>2, Zenon DEF PreMainLoop, Goto, Finish, FirstInv, FirstChecks
    <3>3. CASE StartAttempt
      BY <2>1, <3>1, <3>3 DEF StartAttempt, FirstInv, FirstChecks, TakenBefore, AllBefore
    <3>4. CASE Continue
      <4>1. TakenBefore(iteration)'
        <5>1. TakenBefore(iteration) /\ GvrTypeOK /\ iteration' = iteration + 1
          BY <3>1, <3>4 DEF Continue, FirstInv, FirstChecks, IInv, TypeOK
        <5>2. AllBefore(checked', gatesRun', iteration + 1)
          BY <2>1, <3>1, <5>1, TakenStays
        <5> QED BY <5>1, <5>2 DEF TakenBefore
      <4> QED BY <3>4, <4>1 DEF Continue, FirstChecks
    <3>5. CASE ~(PreMainLoop \/ StartAttempt \/ Continue)
      <4>1. /\ iteration' = iteration /\ pc' \notin {"pre", "start", "stop"}
            /\ pc \notin {"pre", "start", "stop", "raised", "done"} \/ pc' \in {"raised", "done"}
        BY <1>4, <3>1, <3>5, Zenon
           DEF Step, DrainNext, DrainDone, ChainRound, ChainRaises, EndRun, DrainPc,
               CallbackRaises, MainRound, MainRaises, IterationEnd, HookRaises, MaxIterations,
               GiveUp, Goto, Finish
      <4>2. pc' \notin {"raised", "done"} => TakenBefore(iteration)'
        BY <2>1, <3>1, <4>1 DEF FirstInv, FirstChecks, TakenBefore
      <4> QED BY <4>1, <4>2 DEF FirstChecks
    <3> QED BY <3>2, <3>3, <3>4, <3>5
  <2> QED BY <2>2, <2>3
<1> QED BY <1>1, <1>2, <1>3, <1>4 DEF Next, Terminated

\* A failed step leaves its message, a good run none, and a failed run that
\* is to end the task ends it, by itself or with the attempt.
LEMMA FirstRunsStep ==
  ASSUME IInv, FirstInv, [Next]_vars PROVE FirstRuns'
<1>1. CASE UNCHANGED vars
  BY <1>1 DEF vars, dawpVars, loopVars, FirstInv, FirstRuns
<1>2. ASSUME Step, attempt' = 0 PROVE FirstRuns'
  <2>1. ~Retry /\ attempt = 0
    <3>1. attempt \in Nat
      BY LoopAssumption DEF IInv, TypeOK, LoopTypeOK
    <3>2. ~Retry
      BY <1>2, <3>1, SMT DEF Retry
    <3> QED
      BY <1>2, <3>2, Zenon
         DEF Step, PreMainLoop, StartAttempt, DrainNext, DrainDone, ChainRound, ChainRaises, EndRun,
             CallbackRaises, MainRound, MainRaises, IterationEnd, HookRaises, Continue, MaxIterations,
             Decide, StopHook, Obey, GiveUp, Goto
  <2>2. CASE DrainNext
    <3>1. run'.success = FALSE /\ pc' = "chain" /\ UNCHANGED <<handoff, abortFailed>> /\ ~handoff /\ ~abortFailed
      BY <2>1, <2>2 DEF DrainNext, TakeRun, FirstInv, FirstRuns
    <3> QED BY <3>1 DEF FirstRuns
  <2>3. CASE ChainRound
    <3>1. PICK completion \in Completions :
            /\ ChainStep(completion)
            /\ pc' = IF ChainGoesOn(completion) THEN "chain" ELSE "endRun"
      BY <2>3, Zenon DEF ChainRound
    <3>2. ~handoff /\ ~abortFailed /\ abortFailed' = abortFailed /\ run \in ActiveRuns
      BY <2>1, <2>3 DEF ChainRound, FirstInv, FirstRuns, IInv, RunInProgress
    <3>3. /\ run'.success = (completion = "dawp_done" /\ ~StepFails(completion))
          /\ handoff' = (handoff \/ StepFails(completion))
      BY <3>1, <3>2 DEF ChainStep, Consume, RecordHandoff, ActiveRuns
    <3> QED BY <3>1, <3>2, <3>3 DEF FirstRuns, ChainGoesOn
  <2>4. CASE EndRun
    BY <2>1, <2>4, Zenon DEF EndRun, Aborts, Finish, DrainPc, FirstInv, FirstRuns
  <2>5. CASE ChainRaises \/ CallbackRaises
    BY <2>5 DEF ChainRaises, CallbackRaises, FirstRuns, IInv, Outcome
  <2>6. CASE ~(DrainNext \/ ChainRound \/ EndRun \/ ChainRaises \/ CallbackRaises)
    <3>1. /\ UNCHANGED <<handoff, abortFailed>>
          /\ pc \notin {"chain", "endRun", "done"} /\ pc' \notin {"chain", "endRun"}
          /\ pc = "raised" => pc' = "done" /\ result' = "error"
      BY <1>2, <2>1, <2>6, Zenon
         DEF Step, dawpVars, PreMainLoop, StartAttempt, DrainDone, MainRound, MainRaises, IterationEnd,
             HookRaises, Continue, MaxIterations, Decide, StopHook, Obey, GiveUp, Goto, Finish
    <3> QED BY <2>1, <3>1 DEF FirstInv, FirstRuns
  <2> QED BY <2>2, <2>3, <2>4, <2>5, <2>6
<1>3. attempt' # 0 => FirstRuns'
  BY DEF FirstRuns
<1> QED BY <1>1, <1>2, <1>3 DEF Next, Terminated

LEMMA FirstInvariant == Spec => []FirstInv
<1>1. Init => FirstInv
  BY DEF Init, FirstInv, FirstRuns, FirstChecks, ChecksPassed, VerifiedFirst, VerifiedExit, GatesSeen
<1>2. IInv /\ FirstInv /\ [Next]_vars => FirstInv'
  BY FirstRunsStep, FirstChecksStep DEF FirstInv
<1> QED BY <1>1, <1>2, LoopInvariant, PTL DEF Spec

\* Under any configuration of policy, gates, hooks and triggers, an answer of
\* the first attempt has passed every check that is in force.
THEOREM ChecksSafe == Spec => []ChecksPassed
<1>1. FirstInv => ChecksPassed
  BY DEF FirstInv
<1> QED BY <1>1, FirstInvariant, PTL

\* A task whose abort_main run has failed does not succeed.
THEOREM AbortSafe == Spec => []AbortFailsTask
<1>1. FirstInv => AbortFailsTask
  BY DEF FirstInv, FirstRuns, AbortFailsTask
<1> QED BY <1>1, FirstInvariant, PTL

\* The handoff message that the main model gets after a run tells of that
\* run: there is one exactly when it has failed.
THEOREM HandoffSafe == Spec => []HandoffOfThisRun
<1>1. FirstInv => HandoffOfThisRun
  BY DEF FirstInv, FirstRuns, HandoffOfThisRun
<1> QED BY <1>1, FirstInvariant, PTL
=============================================================================
