--------------------------- MODULE MCSearchRouting ---------------------------
(***************************************************************************)
(* Instances of SearchRouting: the chains of backends TLC considers.       *)
(***************************************************************************)
EXTENDS SearchRouting

CONSTANTS gemini, grok, cse

MCChain == <<gemini, cse, grok>>
=============================================================================
