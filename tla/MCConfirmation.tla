--------------------------- MODULE MCConfirmation ---------------------------
(***************************************************************************)
(* Instances of Confirmation.                                              *)
(***************************************************************************)
EXTENDS Confirmation, TLC

CONSTANTS c1, c2, u1, u2

MCCalls == {c1, c2}
MCClients == {u1, u2}
=============================================================================
