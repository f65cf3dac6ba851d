------------------------------ MODULE MCNetRing ------------------------------
(***************************************************************************)
(* A ring of three slots that wraps, fills up and is set up twice.         *)
(***************************************************************************)
EXTENDS NetRing
=============================================================================
