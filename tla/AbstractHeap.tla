---------------------------- MODULE AbstractHeap ----------------------------
(***************************************************************************)
(* What the callers of malloc and free rely on, with no block list: each   *)
(* caller owns a set of live extents <<first, end>> of the heap, and live  *)
(* extents never overlap.                                                  *)
(***************************************************************************)
EXTENDS Integers

CONSTANTS Clients, Requests, HeapStart, HeapSize

VARIABLES
  live,   \* client -> the extents it may use
  asked   \* the size the last request was for

InHeap(x) == HeapStart <= x[1] /\ x[1] <= x[2] /\ x[2] <= HeapStart + HeapSize

(***************************************************************************)
(* The inequalities are strict because a header fits between two live      *)
(* extents: even an empty payload is not shared.                           *)
(***************************************************************************)
Apart(x, y) == x[2] < y[1] \/ y[2] < x[1]

AInit == live = [c \in Clients |-> {}] /\ asked = 0

(***************************************************************************)
(* The caller's new extent x is aligned, large enough and apart from every *)
(* live one.                                                               *)
(***************************************************************************)
Allocate(c, n) ==
  \E x \in live'[c] :
    /\ InHeap(x) /\ x[2] - x[1] >= n /\ x[1] % 8 = 0
    /\ \A d \in Clients : \A y \in live[d] : Apart(x, y)
    /\ live' = [live EXCEPT ![c] = @ \cup {x}]
    /\ asked' = n

(***************************************************************************)
(* A request may be refused, and then nothing changes hands.               *)
(***************************************************************************)
RefuseRequest(n) == asked' = n /\ UNCHANGED live

GiveBack(c) ==
  /\ \E x \in live[c] : live' = [live EXCEPT ![c] = @ \ {x}]
  /\ UNCHANGED asked

ANext ==
  \E c \in Clients :
    \/ \E n \in Requests : Allocate(c, n) \/ RefuseRequest(n)
    \/ GiveBack(c)

Spec == AInit /\ [][ANext]_<<live, asked>>
=============================================================================
