---------------------------- MODULE TaskContract ----------------------------
(***************************************************************************)
(* What execute_task of a hybrid agent promises its caller, stated without *)
(* the loop, its checkpoints and its retries: the task works within a      *)
(* budget of rounds and a quota of DAWP runs, and ends once; an answer is  *)
(* the last thing that happened, a spent budget is spent, and the stream   *)
(* ends with the result.  HybridLoop implements it.                        *)
(***************************************************************************)
EXTENDS Naturals

CONSTANTS Budget,   \* rounds, of the main loop and of DAWP runs together, a natural
          Quota,    \* DAWP runs, a natural
          Results   \* ways a task may end, without "none"

VARIABLES spent,    \* rounds used
          runs,     \* DAWP runs executed
          asOf,     \* runs executed when the current answer was given
          ended,    \* how the task ended, "none" before
          told      \* the result the stream ended with, "none" before

vars == <<spent, runs, asOf, ended, told>>

Init == spent = 0 /\ runs = 0 /\ asOf = 0 /\ ended = "none" /\ told = "none"

\* The main model answers.
Answer ==
  /\ ended = "none" /\ spent < Budget
  /\ spent' = spent + 1 /\ asOf' = runs
  /\ UNCHANGED <<runs, ended, told>>

\* A nested round of a DAWP run.
Nested ==
  /\ ended = "none" /\ spent < Budget
  /\ spent' = spent + 1
  /\ UNCHANGED <<runs, asOf, ended, told>>

\* A result is due to what was spent and to what happened last.
Justified(how) ==
  /\ how = "answered" => spent > 0 /\ asOf = runs
  /\ how = "max_iterations" => spent = Budget
  /\ how = "short_circuit" => spent = 0 /\ runs = 0

\* The task ends; only an exception leaves the stream without its result.
End(how) ==
  /\ ended = "none" /\ ended' = how
  /\ how # "error" => told' = how
  /\ UNCHANGED <<spent, asOf>>

\* A DAWP run ends, and may end the task.
RunEnds ==
  /\ runs < Quota /\ runs' = runs + 1
  /\ \/ End("dawp_abort_main")
     \/ ended = "none" /\ UNCHANGED <<spent, asOf, ended, told>>

Return ==
  /\ \E how \in Results \ {"dawp_abort_main"} : Justified(how) /\ End(how)
  /\ UNCHANGED runs

Next == Answer \/ Nested \/ RunEnds \/ Return

Spec == Init /\ [][Next]_vars
=============================================================================
