--------------------------- MODULE MCToolSchedule ---------------------------
(***************************************************************************)
(* An instance of ToolSchedule: the last of three calls names the first    *)
(* only in references that are never replaced, all other references are.   *)
(***************************************************************************)
EXTENDS ToolSchedule

OneLiteral == {<<3, 1>>}
=============================================================================
