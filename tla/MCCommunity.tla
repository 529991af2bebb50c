---------------------------- MODULE MCCommunity ----------------------------
(***************************************************************************)
(* Instances of Community.  Agents and callers differ in name only.        *)
(***************************************************************************)
EXTENDS Community, TLC

NamesOnly == Permutations(Agents) \cup Permutations(Callers)

=============================================================================
