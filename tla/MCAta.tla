------------------------------- MODULE MCAta -------------------------------
(***************************************************************************)
(* A disk of two sectors, asked for a third one too, and waits of two      *)
(* polls: enough for a wait to see nothing, then an answer or its end.     *)
(***************************************************************************)
EXTENDS Ata
=============================================================================
