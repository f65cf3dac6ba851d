------------------------------- MODULE MCHeap -------------------------------
(***************************************************************************)
(* Instance of Heap for TLC: two callers, requests on each side of the     *)
(* 8-byte rounding, and a heap of four to six blocks.                      *)
(***************************************************************************)
EXTENDS Heap

MCRequests == {0, 1, 8, 17}
=============================================================================
