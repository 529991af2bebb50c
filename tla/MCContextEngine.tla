-------------------------- MODULE MCContextEngine --------------------------
(* Callers are interchangeable: no rule of the engine looks at who calls.    *)
EXTENDS ContextEngine, TLC

CallersOnly == Permutations(Callers)
=============================================================================
