-------------------------- MODULE MCAgentLifecycle --------------------------
(***************************************************************************)
(* Instances of AgentLifecycle.                                            *)
(***************************************************************************)
EXTENDS AgentLifecycle

MCJobs == 1 .. 2
MCOneJob == {1}
=============================================================================
