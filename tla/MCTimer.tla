------------------------------- MODULE MCTimer -------------------------------
(***************************************************************************)
(* Instance of Timer for TLC.                                              *)
(***************************************************************************)
EXTENDS Timer
=============================================================================
