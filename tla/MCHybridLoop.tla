---------------------------- MODULE MCHybridLoop ----------------------------
(***************************************************************************)
(* Instances of HybridLoop: the agent configurations and host queues TLC   *)
(* considers.                                                              *)
(***************************************************************************)
EXTENDS HybridLoop

HostRun(abort, known) == [mode |-> "on_iteration_end", abort |-> abort, known |-> known]

\* No host run; an aborting one; an unresolvable one in front of another.
MCQueues == {<<>>,
             <<HostRun(TRUE, TRUE)>>,
             <<HostRun(FALSE, FALSE), HostRun(FALSE, TRUE)>>}
MCNoQueue == {<<>>}

PolicyOf(when, gates, verifiers, blocking) ==
  [when |-> when, gates |-> gates, verifiers |-> verifiers, blocking |-> blocking,
   agentGates |-> FALSE, taskHook |-> FALSE, stopHook |-> FALSE]

\* Nothing configured.
MCPlain == {PolicyOf("never", FALSE, FALSE, TRUE)}
\* Every blocking or advising policy on its own.
MCPolicies == {PolicyOf(w, g, v, b) : w \in Triggers, g \in BOOLEAN, v \in BOOLEAN, b \in BOOLEAN}
\* Gates and hooks of the agent without a policy.
MCFallbacks == {[PolicyOf("never", FALSE, FALSE, TRUE) EXCEPT
                   !.agentGates = g, !.taskHook = t, !.stopHook = s] :
                     g \in BOOLEAN, t \in BOOLEAN, s \in BOOLEAN}
\* Policies next to hooks and gates of the agent.
MCMixed == {[PolicyOf(w, g, v, TRUE) EXCEPT !.agentGates = a, !.stopHook = TRUE] :
              w \in Triggers, g \in BOOLEAN, v \in BOOLEAN, a \in BOOLEAN}
MCAll == MCPlain \cup MCPolicies \cup MCFallbacks \cup MCMixed
=============================================================================
