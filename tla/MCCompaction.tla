---------------------------- MODULE MCCompaction ----------------------------
(* The default chain, whose stages may each be skipped, so that it behaves   *)
(* as those of "hybrid" and "summarize" too, and that of "truncate".         *)
EXTENDS Compaction

SomeChains == {<<"microcompact", "collapse", "session_memory", "llm">>, <<"microcompact">>}
=============================================================================
