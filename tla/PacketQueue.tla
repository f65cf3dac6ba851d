----------------------------- MODULE PacketQueue -----------------------------
(***************************************************************************)
(* What the network driver promises: frames reach its caller in the order  *)
(* in which they came, each once, out of a queue of bounded length that is *)
(* emptied when the driver is loaded again, and never otherwise.           *)
(***************************************************************************)
EXTENDS Integers, Sequences

CONSTANTS Packets, Capacity

VARIABLES
  queue,   \* frames the card has taken and the caller has not
  out,     \* frames the caller has been given
  loads    \* how often the driver was loaded

Init == queue = <<>> /\ out = <<>> /\ loads = 0

Put(p) ==
  /\ Len(queue) < Capacity
  /\ queue' = Append(queue, p)
  /\ UNCHANGED <<out, loads>>

Get ==
  /\ queue # <<>>
  /\ out' = Append(out, Head(queue))
  /\ queue' = Tail(queue)
  /\ UNCHANGED loads

Load == queue' = <<>> /\ loads' = loads + 1 /\ UNCHANGED out

Next == (\E p \in Packets : Put(p)) \/ Get \/ Load

Spec == Init /\ [][Next]_<<queue, out, loads>>
=============================================================================
