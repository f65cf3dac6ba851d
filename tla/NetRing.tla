------------------------------- MODULE NetRing -------------------------------
(***************************************************************************)
(* The Ethernet driver (shell/drv/netwire.cpp) and its card, an 82540EM:   *)
(* a ring of descriptors in memory that both read and write, and the head  *)
(* and tail registers of the card.  The card owns the slots from the head  *)
(* up to the tail; the driver reads the slot after the tail.               *)
(*                                                                         *)
(* Every access of receive_packet to the shared memory is a step, and the  *)
(* card stores a frame before it marks its descriptor.  The card is        *)
(* external: it is modelled as the driver relies on it.  Its transmitter   *)
(* is switched on by a register the driver never writes, so that the card  *)
(* sends nothing.                                                          *)
(***************************************************************************)
EXTENDS Integers, Sequences

CONSTANTS
  Slots,     \* RX_RING_SIZE and TX_RING_SIZE, 8 in the code
  Packets,
  MaxFrames, MaxSends, MaxLoads   \* bounds on what happens in a behaviour

ASSUME NetAssumption == Slots \in Nat /\ Slots >= 2

NoPacket == "none"
ASSUME NoPacketAssumption == NoPacket \notin Packets

VARIABLES
  rdh, rdt, tdt,    \* registers: receive head and tail, transmit tail
  rx_on,            \* the receiver is enabled
  rx_ring,          \* slot -> the status and the data of its buffer
  tx_ring,          \* slot -> the frame in its buffer
  rx_bufs, tx_bufs, \* buffers allocated by this load
  pc,               \* where the driver is
  card,             \* "idle", or "stored": a frame is in its buffer, unmarked
  out,              \* frames given to the callers of receive_packet
  frames, sends, loads

registers == <<rdh, rdt, tdt, rx_on>>
rings     == <<rx_ring, tx_ring, rx_bufs, tx_bufs>>
counts    == <<frames, sends, loads>>
vars      == <<registers, rings, pc, card, out, counts>>

Slot   == 0 .. Slots - 1
Succ(i) == IF i = Slots - 1 THEN 0 ELSE i + 1

EmptySlot == [full |-> FALSE, data |-> NoPacket]

Init ==
  /\ rdh = 0 /\ rdt = 0 /\ tdt = 0 /\ rx_on = FALSE
  /\ rx_ring = [i \in Slot |-> EmptySlot]
  /\ tx_ring = [i \in Slot |-> NoPacket]
  /\ rx_bufs = 0 /\ tx_bufs = 0
  /\ pc = "unloaded" /\ card = "idle" /\ out = <<>>
  /\ frames = 0 /\ sends = 0 /\ loads = 0

-----------------------------------------------------------------------------
(***************************************************************************)
(* Loading the driver, for the first time or again.                        *)
(***************************************************************************)
Reset    == rdh' = 0 /\ rdt' = 0 /\ tdt' = 0 /\ rx_on' = FALSE /\ card' = "idle"

Load ==
  /\ pc \in {"unloaded", "idle"} /\ loads < MaxLoads
  /\ Reset
  /\ pc' = "rx" /\ rx_bufs' = 0 /\ tx_bufs' = 0
  /\ loads' = loads + 1
  /\ UNCHANGED <<rx_ring, tx_ring, out, frames, sends>>

\* Mutant of RxBuffer: the status of the descriptor is what the memory held.
RxBufferDirty ==
  /\ pc = "rx" /\ rx_bufs < Slots
  /\ rx_bufs' = rx_bufs + 1
  /\ UNCHANGED <<registers, rx_ring, tx_ring, tx_bufs, pc, card, out, counts>>

RxBuffer ==
  /\ pc = "rx" /\ rx_bufs < Slots
  /\ rx_ring' = [rx_ring EXCEPT ![rx_bufs] = EmptySlot]
  /\ rx_bufs' = rx_bufs + 1
  /\ UNCHANGED <<registers, tx_ring, tx_bufs, pc, card, out, counts>>

LastSlot        == Slots - 1

RxReady ==
  /\ pc = "rx" /\ rx_bufs = Slots
  /\ rdh' = 0 /\ rdt' = LastSlot
  /\ pc' = "tx"
  /\ UNCHANGED <<tdt, rx_on, rings, card, out, counts>>

TxBuffer ==
  /\ pc = "tx" /\ tx_bufs < Slots
  /\ tx_ring' = [tx_ring EXCEPT ![tx_bufs] = NoPacket]
  /\ tx_bufs' = tx_bufs + 1
  /\ UNCHANGED <<registers, rx_ring, rx_bufs, pc, card, out, counts>>

TxReady ==
  /\ pc = "tx" /\ tx_bufs = Slots
  /\ tdt' = 0
  /\ pc' = "enable"
  /\ UNCHANGED <<rdh, rdt, rx_on, rings, card, out, counts>>

\* malloc fails for a ring or a buffer: init returns false.
MallocFails ==
  /\ \/ pc = "rx" /\ rx_bufs < Slots
     \/ pc = "tx" /\ tx_bufs < Slots
  /\ pc' = "unloaded"
  /\ UNCHANGED <<registers, rings, card, out, counts>>

Enable ==
  /\ pc = "enable"
  /\ rx_on' = TRUE
  /\ pc' = "idle"
  /\ UNCHANGED <<rdh, rdt, tdt, rings, card, out, counts>>

-----------------------------------------------------------------------------
(***************************************************************************)
(* The card: a frame that finds the head at the tail is dropped.           *)
(***************************************************************************)
HasRoom == rdh # rdt

FrameStored(p) ==
  /\ rx_on /\ card = "idle" /\ HasRoom /\ frames < MaxFrames
  /\ rx_ring' = [rx_ring EXCEPT ![rdh].data = p]
  /\ card' = "stored"
  /\ frames' = frames + 1
  /\ UNCHANGED <<registers, tx_ring, rx_bufs, tx_bufs, pc, out, sends, loads>>

FrameMarked ==
  /\ card = "stored"
  /\ rx_ring' = [rx_ring EXCEPT ![rdh].full = TRUE]
  /\ rdh' = Succ(rdh)
  /\ card' = "idle"
  /\ UNCHANGED <<rdt, tdt, rx_on, tx_ring, rx_bufs, tx_bufs, pc, out, counts>>

-----------------------------------------------------------------------------
(***************************************************************************)
(* receive_packet and send_packet.                                         *)
(***************************************************************************)
Polled == Succ(rdt)

Poll ==
  /\ pc = "idle" /\ rx_ring[Polled].full
  /\ pc' = "copy"
  /\ UNCHANGED <<registers, rings, card, out, counts>>

Copy ==
  /\ pc = "copy"
  /\ out' = Append(out, rx_ring[Polled].data)
  /\ pc' = "reset"
  /\ UNCHANGED <<registers, rings, card, counts>>

\* Mutant of Cleared: the status is left set.
ClearedNot(ring, i) == ring
Cleared(ring, i)    == [ring EXCEPT ![i].full = FALSE]

ResetDescriptor ==
  /\ pc = "reset"
  /\ rx_ring' = Cleared(rx_ring, Polled)
  /\ pc' = "tail"
  /\ UNCHANGED <<registers, tx_ring, rx_bufs, tx_bufs, card, out, counts>>

WriteTail ==
  /\ pc = "tail"
  /\ rdt' = Polled
  /\ pc' = "idle"
  /\ UNCHANGED <<rdh, tdt, rx_on, rings, card, out, counts>>

\* The descriptor at the tail is taken without a look at its status.
Send(p) ==
  /\ pc = "idle" /\ sends < MaxSends
  /\ tx_ring' = [tx_ring EXCEPT ![tdt] = p]
  /\ tdt' = Succ(tdt)
  /\ sends' = sends + 1
  /\ UNCHANGED <<rdh, rdt, rx_on, rx_ring, rx_bufs, tx_bufs, pc, card, out, frames, loads>>

-----------------------------------------------------------------------------
CardStep   == (\E p \in Packets : FrameStored(p)) \/ FrameMarked
DriverStep == \/ RxBuffer \/ RxReady \/ TxBuffer \/ TxReady \/ Enable
              \/ Copy \/ ResetDescriptor \/ WriteTail

Next ==
  \/ Load \/ MallocFails \/ DriverStep \/ Poll
  \/ \E p \in Packets : Send(p)
  \/ CardStep

Spec     == Init /\ [][Next]_vars

-----------------------------------------------------------------------------
TypeOK ==
  /\ rdh \in Slot /\ rdt \in Slot /\ tdt \in Slot
  /\ rx_on \in BOOLEAN
  /\ rx_ring \in [Slot -> [full : BOOLEAN, data : Packets \cup {NoPacket}]]
  /\ tx_ring \in [Slot -> Packets \cup {NoPacket}]
  /\ rx_bufs \in 0 .. Slots /\ tx_bufs \in 0 .. Slots
  /\ pc \in {"unloaded", "rx", "tx", "enable", "idle", "copy", "reset", "tail"}
  /\ card \in {"idle", "stored"}
  /\ out \in Seq(Packets)
  /\ frames \in Nat /\ sends \in Nat /\ loads \in Nat

\* Position of a slot after the tail, 1 for the slot polled next.
Ahead(i) == IF i > rdt THEN i - rdt ELSE i - rdt + Slots

\* The receiver never runs on a ring that is not complete, whatever allocation failed in
\* a load, this one or an earlier one (netwire.cpp:91).
RingReady == rx_on => rx_bufs = Slots /\ tx_bufs = Slots

\* The card fills only slots the driver has given back, and the driver reads only slots
\* the card has filled: a slot is marked exactly when it lies between the tail and the
\* head, but for the one whose mark receive_packet has just cleared (netwire.cpp:227).
MarkedAreUnread ==
  rx_on => \A i \in Slot :
    rx_ring[i].full <=> Ahead(i) < Ahead(rdh) /\ (pc = "tail" => i # Succ(rdt))

\* The ring is sound between any two accesses of the card and the driver to it.
RingSound == TypeOK /\ RingReady /\ MarkedAreUnread

\* The slot k places after the tail, and whether the first of them has been copied.
After(k) == IF rdt + k < Slots THEN rdt + k ELSE rdt + k - Slots
Taken    == IF pc \in {"reset", "tail"} THEN 1 ELSE 0

\* The frames marked and not yet copied, in the order of the slots.
Unread ==
  IF ~rx_on THEN <<>>
  ELSE [k \in 1 .. Ahead(rdh) - 1 - Taken |-> rx_ring[After(k + Taken)].data]

Queue == INSTANCE PacketQueue WITH queue <- Unread, Capacity <- Slots - 1

\* Frames reach the callers of receive_packet in order, each once, none that was not
\* received, out of a queue of Slots - 1, whatever the card does between two accesses of
\* the driver (netwire.cpp:227-246).
ImplementsQueue == Queue!Spec
=============================================================================
