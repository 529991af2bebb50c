------------------------------ MODULE MCDslRun ------------------------------
(***************************************************************************)
(* Instances of DslRun: three programs that nest each kind of step in the  *)
(* kinds where its failures are treated differently.                       *)
(***************************************************************************)
EXTENDS DslRun

Leafy(kind) == [kind |-> kind, steps |-> <<>>, other |-> <<>>, stop |-> FALSE, max |-> 0, cond |-> Always]
If(cond, then, else) == [Leafy("if") EXCEPT !.steps = then, !.other = else, !.cond = cond]
Sequence(steps, stop) == [Leafy("sequence") EXCEPT !.steps = steps, !.stop = stop]
Loop(cond, steps, max) == [Leafy("loop") EXCEPT !.steps = steps, !.max = max, !.cond = cond]

Given == [on |-> "given"]
ResultOf(i) == [on |-> "result", at |-> i]

(* A sequence that stops on failure, with an if whose else has a loop.       *)
Staged == [main |-> Sequence(<<"first", "choice", "last">>, TRUE),
           first |-> Leafy("task"),
           choice |-> If(Given, <<"first", "batch">>, <<"again">>),
           again |-> Loop(ResultOf(1), <<"first", "first">>, 2),
           batch |-> Leafy("parallel"),
           last |-> Leafy("task")]

(* An if around loops in loops, whose conditions may not be evaluable.       *)
Guarded == [main |-> If(Given, <<"work", "outer">>, <<"odd", "work">>),
            outer |-> Loop(ResultOf(1), <<"steps">>, 2),
            steps |-> Sequence(<<"work", "inner">>, FALSE),
            inner |-> Loop(ResultOf(3), <<"work">>, 2),
            odd |-> Leafy("unknown"),
            work |-> Leafy("task")]

(* A loop at the top, with an if in it and a block without a condition.      *)
Looping == [main |-> Loop(Given, <<"check", "once">>, 2),
            check |-> If(ResultOf(2), <<"work">>, <<>>),
            once |-> Loop(Always, <<"work", "batch">>, 3),
            batch |-> Leafy("parallel"),
            work |-> Leafy("task")]

MCPrograms == {Staged, Guarded, Looping}
=============================================================================
