------------------------------- MODULE MCFelt -------------------------------
(***************************************************************************)
(* Felt on small game boxes.                                               *)
(***************************************************************************)
EXTENDS Felt, MCBoxes
=============================================================================
