------------------------------ MODULE GvrPolicy ------------------------------
(***************************************************************************)
(* The checks an answer passes before the tool loop returns it:            *)
(* verification_policy (A-2) with its gates and verifiers, the gates and   *)
(* TASK_COMPLETED hook of the A-8 fallback, and the STOP hook.  State is   *)
(* what plugin_state keeps for the task: the checkpoints already verified, *)
(* the iterations whose gates already ran and the refine counter of the    *)
(* goal.  A verdict is an environment choice; feedback text is left out.   *)
(***************************************************************************)
EXTENDS Integers

CONSTANTS
  Policies,    \* the configurations of the agent to consider
  MaxRefines   \* verification_policy.max_refines_per_goal

Triggers == {"on_task_completed", "on_stop"}

PolicyConfigs == [when       : Triggers \cup {"never"},
                  gates      : BOOLEAN,   \* registered_verifiers names gates
                  verifiers  : BOOLEAN,   \* registered_verifiers names verifiers
                  blocking   : BOOLEAN,
                  agentGates : BOOLEAN,   \* deterministic_gates of the agent
                  taskHook   : BOOLEAN,   \* a TASK_COMPLETED hook may block
                  stopHook   : BOOLEAN]   \* a STOP hook is registered

ASSUME GvrAssumption == Policies \subseteq PolicyConfigs /\ MaxRefines \in Nat

VARIABLES
  policy,    \* the agent's configuration
  checked,   \* plugin_state["gvr.verified_checkpoints"]
  gatesRun,  \* plugin_state["gvr.gate_checkpoints"]
  refines,   \* plugin_state["<goal>:gvr.refine_count"]
  evidence   \* the checks that looked at the current answer and let it pass

gvrVars == <<policy, checked, gatesRun, refines, evidence>>

Verdicts == {"exit", "refine", "exhausted", "raised"}

\* _dedupe_key: a checkpoint is verified once.
KeyOfTrigger(trigger, it) == <<0, trigger>>   \* mutant: whatever the iteration
Key(trigger, it) == <<it, trigger>>

\* gates_already_run: one evaluation per iteration, whichever registry ran it.
GateOutcomesOnce(registered, it) ==    \* mutant: one evaluation per task
  IF registered /\ gatesRun = {} THEN {"fail", "pass", "high"} ELSE {"none"}
GateOutcomes(registered, it) ==
  IF registered /\ it \notin gatesRun THEN {"fail", "pass", "high"} ELSE {"none"}

\* A gate score at the skip threshold makes the verifiers superfluous.
VerifierOutcomes(gate) ==
  IF policy.verifiers /\ gate # "high" THEN {"fail", "pass", "raise"} ELSE {"none"}

MarkGates(gate, it) == gatesRun' = IF gate = "none" THEN gatesRun ELSE gatesRun \cup {it}

\* What a policy run with these outcomes records as evidence for the answer.
PolicyEvidence(gate, verifier) ==
  IF gate = "none" /\ verifier = "none" THEN {}
  ELSE {"policy"} \cup (IF gate = "none" THEN {} ELSE {"policyGates"})

\* A failed verdict counts a refinement; the goal may be exhausted, the
\* policy may only advise, or the answer goes back to the model.
FailedVerdictLate(verdict) ==          \* mutant: the limit is compared too early
  /\ refines' = refines + 1
  /\ verdict = IF refines > MaxRefines THEN "exhausted"
               ELSE IF policy.blocking THEN "refine" ELSE "exit"
FailedVerdict(verdict) ==
  /\ refines' = refines + 1
  /\ verdict = IF refines + 1 > MaxRefines THEN "exhausted"
               ELSE IF policy.blocking THEN "refine" ELSE "exit"

\* run_verification_policy: a checkpoint seen before passes unchecked; a new
\* one is marked before it is verified.
PolicyRun(trigger, it, verdict) ==
  \/ /\ Key(trigger, it) \in checked
     /\ verdict = "exit"
     /\ UNCHANGED gvrVars
  \/ /\ Key(trigger, it) \notin checked
     /\ checked' = checked \cup {Key(trigger, it)}
     /\ \E gate \in GateOutcomes(policy.gates, it) :
        \E verifier \in VerifierOutcomes(gate) :
          /\ MarkGates(gate, it)
          /\ \/ /\ verifier = "raise"
                /\ verdict = "raised"
                /\ UNCHANGED <<refines, evidence>>
             \/ /\ "fail" \in {gate, verifier} /\ verifier # "raise"
                /\ FailedVerdict(verdict)
                /\ evidence' = IF policy.blocking THEN evidence ELSE evidence \cup {"waived"}
             \/ /\ {"fail", "raise"} \cap {gate, verifier} = {}
                /\ verdict = "exit"
                /\ evidence' = evidence \cup PolicyEvidence(gate, verifier)
                /\ UNCHANGED refines
     /\ UNCHANGED policy

\* _run_a8_pre_exit_fallback: the agent's own gates, and on task completion
\* the TASK_COMPLETED hook; a block here has no refine limit.
Fallback(trigger, it, verdict) ==
  \E gate \in GateOutcomes(policy.agentGates, it) :
  \E block \in {FALSE, policy.taskHook /\ trigger = "on_task_completed"} :
    /\ MarkGates(gate, it)
    /\ verdict = IF gate = "fail" \/ block THEN "refine" ELSE "exit"
    /\ evidence' = IF verdict = "exit" /\ gate # "none"
                   THEN evidence \cup {"agentGates"} ELSE evidence
    /\ UNCHANGED <<policy, checked, refines>>

\* run_gvr_pre_exit: the policy when its trigger is this one, else the fallback.
PreExit(trigger, it, verdict) ==
  IF policy.when = trigger THEN PolicyRun(trigger, it, verdict)
                           ELSE Fallback(trigger, it, verdict)

\* run_stop_hook_with_policy_fallback: a policy on_stop replaces the hook;
\* otherwise the gates, then the STOP hook if they let the answer pass.
StopCheck(it, verdict) ==
  IF policy.when = "on_stop" THEN PolicyRun("on_stop", it, verdict)
  ELSE \E gate \in GateOutcomes(policy.agentGates, it) :
       \E prevent \in {FALSE, policy.stopHook} :
         /\ gate = "fail" => ~prevent
         /\ MarkGates(gate, it)
         /\ verdict = IF gate = "fail" \/ prevent THEN "refine" ELSE "exit"
         /\ evidence' = evidence
              \cup (IF gate \in {"pass", "high"} THEN {"agentGates"} ELSE {})
              \cup (IF gate # "fail" /\ policy.stopHook THEN {"stopHook"} ELSE {})
         /\ UNCHANGED <<policy, checked, refines>>

Evidence == {"policy", "policyGates", "agentGates", "stopHook", "waived"}

GvrTypeOK ==
  /\ policy \in Policies
  /\ checked \subseteq Nat \X Triggers
  /\ gatesRun \subseteq Nat
  /\ refines \in Nat
  /\ evidence \subseteq Evidence
=============================================================================
