---------------------------- MODULE MCToolCache ----------------------------
(***************************************************************************)
(* Instances of ToolCache.                                                 *)
(***************************************************************************)
EXTENDS ToolCache, TLC

CONSTANTS t1, t2

MCThreads == {t1, t2}
MCOneThread == {t1}
MCSymmetry == Permutations(MCThreads)
=============================================================================
