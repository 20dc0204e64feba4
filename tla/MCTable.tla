------------------------------ MODULE MCTable -------------------------------
(***************************************************************************)
(* Table on small game boxes.                                              *)
(***************************************************************************)
EXTENDS Table, MCBoxes
=============================================================================
