---------------------------- MODULE NetRingProofs ----------------------------
(***************************************************************************)
(* Proofs about the receive ring, for any number of slots, frames and      *)
(* loads: the card and the driver never have a slot at the same time, and  *)
(* the ring implements a first-in first-out queue.                         *)
(***************************************************************************)
EXTENDS NetRing, SequenceTheorems, TLAPS

Running == {"idle", "copy", "reset", "tail"}

\* How the driver's place and the registers go together.
Control ==
  /\ rx_on <=> pc \in Running
  /\ rx_on => rx_bufs = Slots /\ tx_bufs = Slots
  /\ pc \in {"tx", "enable"} => rx_bufs = Slots /\ rdh = 0 /\ rdt = Slots - 1
  /\ pc = "enable" => tx_bufs = Slots
  /\ card = "stored" => rx_on /\ rdh # rdt

\* While the ring is built its finished slots are unmarked.
Built ==
  /\ pc = "rx" => \A i \in Slot : i < rx_bufs => ~rx_ring[i].full
  /\ pc \in {"tx", "enable"} => \A i \in Slot : ~rx_ring[i].full

\* A marked slot, one being read and one the card is about to mark hold frames.
Filled ==
  /\ rx_on => \A i \in Slot : Ahead(i) < Ahead(rdh) => rx_ring[i].data \in Packets
  /\ card = "stored" => rx_ring[rdh].data \in Packets
  /\ pc \in {"copy", "reset", "tail"} => Ahead(rdh) > 1

Inv == TypeOK /\ Control /\ Built /\ Filled /\ MarkedAreUnread

-----------------------------------------------------------------------------
LEMMA NetInit == Init => Inv
<1> SUFFICES ASSUME Init PROVE Inv
  OBVIOUS
<1> USE NetAssumption DEF Init
<1>1. TypeOK
  <2>1. rx_ring \in [Slot -> [full : BOOLEAN, data : Packets \cup {NoPacket}]]
    BY DEF EmptySlot
  <2>2. tx_ring \in [Slot -> Packets \cup {NoPacket}]
    OBVIOUS
  <2>3. rdh \in Slot /\ rdt \in Slot /\ tdt \in Slot
    BY DEF Slot
  <2>4. out \in Seq(Packets)
    OBVIOUS
  <2>5. QED
    BY <2>1, <2>2, <2>3, <2>4 DEF TypeOK
<1>2. Control /\ Built /\ Filled /\ MarkedAreUnread
  BY DEF Control, Built, Filled, MarkedAreUnread, Running
<1>3. QED
  BY <1>1, <1>2 DEF Inv

\* Going round the ring.
LEMMA SuccType == \A i \in Slot : Succ(i) \in Slot
  BY NetAssumption DEF Slot, Succ

LEMMA AheadType == ASSUME rdt \in Slot PROVE \A i \in Slot : Ahead(i) \in 1 .. Slots
  BY NetAssumption DEF Slot, Ahead

LEMMA AheadNext ==
  ASSUME rdt \in Slot
  PROVE  /\ Ahead(rdt) = Slots
         /\ Ahead(Succ(rdt)) = 1
         /\ \A i \in Slot : i # rdt => Ahead(Succ(i)) = Ahead(i) + 1
         /\ \A i, j \in Slot : Ahead(i) = Ahead(j) => i = j
  BY NetAssumption DEF Slot, Ahead, Succ

LEMMA NetTypeStep == ASSUME Inv, [Next]_vars PROVE TypeOK'
<1> USE NetAssumption, SuccType DEF Inv, TypeOK, Polled
<1>1. CASE Load
  <2>1. 0 \in Slot
    BY DEF Slot
  <2>2. loads' \in Nat /\ UNCHANGED <<rx_ring, tx_ring, out, frames, sends>>
    BY <1>1 DEF Load
  <2>3. rdh' = 0 /\ rdt' = 0 /\ tdt' = 0 /\ rx_on' = FALSE /\ card' = "idle"
    BY <1>1 DEF Load, Reset
  <2>4. pc' = "rx" /\ rx_bufs' = 0 /\ tx_bufs' = 0
    BY <1>1 DEF Load
  <2>5. rx_on' \in BOOLEAN
    BY <2>3
  <2>6. rdh' \in Slot /\ rdt' \in Slot /\ tdt' \in Slot
    BY <2>1, <2>3
  <2>7. rx_bufs' \in 0 .. Slots /\ tx_bufs' \in 0 .. Slots
    BY <2>4
  <2>8. card' \in {"idle", "stored"}
    BY <2>3
  <2>9. QED
    BY <2>2, <2>4, <2>5, <2>6, <2>7, <2>8
<1>2. CASE MallocFails
  BY <1>2 DEF MallocFails, registers, rings, counts
<1>3. CASE RxBuffer
  BY <1>3 DEF RxBuffer, registers, counts, EmptySlot, Slot
<1>4. CASE RxReady
  BY <1>4 DEF RxReady, rings, counts, LastSlot, Slot
<1>5. CASE TxBuffer
  BY <1>5 DEF TxBuffer, registers, counts, Slot
<1>6. CASE TxReady
  BY <1>6 DEF TxReady, rings, counts, Slot
<1>7. CASE Enable
  BY <1>7 DEF Enable, rings, counts
<1>8. CASE Poll
  BY <1>8 DEF Poll, registers, rings, counts
<1>9. CASE Copy
  <2>1. rx_on
    BY <1>9 DEF Copy, Control, Running
  <2>2. rx_ring[Succ(rdt)].data \in Packets
    BY <2>1, <1>9, AheadNext DEF Copy, Filled
  <2>3. QED
    BY <1>9, <2>2 DEF Copy, registers, rings, counts
<1>10. CASE ResetDescriptor
  BY <1>10 DEF ResetDescriptor, Cleared, registers, counts
<1>11. CASE WriteTail
  BY <1>11 DEF WriteTail, rings, counts
<1>12. ASSUME NEW p \in Packets, Send(p) PROVE TypeOK'
  BY <1>12 DEF Send
<1>13. ASSUME NEW p \in Packets, FrameStored(p) PROVE TypeOK'
  BY <1>13 DEF FrameStored, registers
<1>14. CASE FrameMarked
  BY <1>14 DEF FrameMarked, counts
<1>15. CASE UNCHANGED vars
  BY <1>15 DEF vars, registers, rings, counts
<1>16. QED
  BY <1>1, <1>2, <1>3, <1>4, <1>5, <1>6, <1>7, <1>8, <1>9, <1>10, <1>11, <1>12, <1>13,
     <1>14, <1>15 DEF Next, DriverStep, CardStep

Rest == Control /\ Built /\ Filled /\ MarkedAreUnread

LEMMA NetRestStep == ASSUME Inv, [Next]_vars PROVE Rest'
<1> USE NetAssumption, SuccType
    DEF Inv, TypeOK, Control, Running
<1>0. rdt' = rdt => \A i : Ahead(i)' = Ahead(i)
  BY DEF Ahead
<1>1. CASE Load
  <2>1. rx_on' = FALSE /\ card' = "idle" /\ pc' = "rx" /\ rx_bufs' = 0
    BY <1>1 DEF Load, Reset
  <2>2. \A i \in Slot : ~(i < rx_bufs')
    BY <2>1 DEF Slot
  <2>3. QED
    BY <2>1, <2>2 DEF Rest, Built, Filled, MarkedAreUnread
<1>2. CASE MallocFails
  BY <1>2 DEF MallocFails, registers, rings, counts, Rest, Built, Filled, MarkedAreUnread
<1>3. CASE RxBuffer
  <2>1. Control' /\ Filled' /\ MarkedAreUnread'
    BY <1>3 DEF RxBuffer, registers, Filled, MarkedAreUnread
  <2>2. ASSUME NEW i \in Slot, i < rx_bufs + 1 PROVE ~rx_ring'[i].full
    BY <1>3, <2>2 DEF RxBuffer, EmptySlot, Built, Slot
  <2>3. QED
    BY <1>3, <2>1, <2>2 DEF RxBuffer, Rest, Built
<1>4. CASE RxReady
  <2>1. \A i \in Slot : ~rx_ring[i].full
    BY <1>4 DEF RxReady, Built, Slot
  <2>2. QED
    BY <1>4, <2>1
    DEF RxReady, rings, LastSlot, Rest, Built, Filled, MarkedAreUnread
<1>5. CASE TxBuffer
  BY <1>5 DEF TxBuffer, registers, Rest, Built, Filled, MarkedAreUnread
<1>6. CASE TxReady
  BY <1>6 DEF TxReady, rings, Rest, Built, Filled, MarkedAreUnread
<1>7. CASE Enable
  <2>1. Ahead(rdh) = 1 /\ \A i \in Slot : ~(Ahead(i) < Ahead(rdh))
    BY <1>7, AheadType DEF Enable, Ahead, Slot
  <2>2. QED
    BY <1>7, <2>1, <1>0 DEF Enable, rings, Rest, Built, Filled, MarkedAreUnread
<1>8. CASE Poll
  <2>1. Ahead(rdh) > 1
    BY <1>8, AheadNext DEF Poll, Polled, MarkedAreUnread
  <2>2. QED
    BY <1>8, <2>1, <1>0 DEF Poll, registers, rings, Rest, Built, Filled, MarkedAreUnread
<1>9. CASE Copy
  BY <1>9, <1>0 DEF Copy, registers, rings, Rest, Built, Filled, MarkedAreUnread
<1>10. CASE ResetDescriptor
  <2>1. /\ UNCHANGED <<rdh, rdt, card, rx_on, rx_bufs, tx_bufs>> /\ pc = "reset" /\ pc' = "tail"
        /\ rx_ring' = [rx_ring EXCEPT ![Succ(rdt)].full = FALSE]
    BY <1>10 DEF ResetDescriptor, Cleared, Polled, registers
  <2>2. Control' /\ Built'
    BY <2>1 DEF Built
  <2>3. \A i \in Slot : rx_ring'[i].data = rx_ring[i].data
    BY <2>1
  <2>4. Filled'
    BY <2>1, <2>3, <1>0 DEF Filled
  <2>5. \A i \in Slot : rx_ring'[i].full <=> rx_ring[i].full /\ i # Succ(rdt)
    BY <2>1
  <2>6. MarkedAreUnread'
    BY <2>1, <2>5, <1>0 DEF MarkedAreUnread, Succ
  <2>7. QED
    BY <2>2, <2>4, <2>6 DEF Rest
<1>11. CASE WriteTail
  <2>1. /\ UNCHANGED <<rdh, card, rx_on, rx_bufs, tx_bufs, rx_ring>> /\ pc = "tail" /\ pc' = "idle"
        /\ rdt' = Succ(rdt) /\ Ahead(rdh) > 1 /\ rx_on
    BY <1>11 DEF WriteTail, Polled, rings, Filled
  <2>2. \A i \in Slot : i # Succ(rdt) => Ahead(i)' = Ahead(i) - 1
    BY <2>1 DEF Ahead, Succ, Slot
  <2>3. \A i \in Slot : i = Succ(rdt) => Ahead(i)' = Slots
    BY <2>1 DEF Ahead, Slot
  <2>4. rdh # Succ(rdt)
    BY <2>1, AheadNext
  <2>5. \A i \in Slot : Ahead(i)' < Ahead(rdh)' <=> Ahead(i) < Ahead(rdh) /\ i # Succ(rdt)
    BY <2>1, <2>2, <2>3, <2>4, AheadType
  <2>6. QED
    BY <2>1, <2>4, <2>5 DEF Rest, Built, Filled, MarkedAreUnread
<1>12. ASSUME NEW p \in Packets, Send(p) PROVE Rest'
  BY <1>12, <1>0 DEF Send, Rest, Built, Filled, MarkedAreUnread
<1>13. ASSUME NEW p \in Packets, FrameStored(p) PROVE Rest'
  <2>1. /\ UNCHANGED <<rdh, rdt, pc, rx_on, rx_bufs, tx_bufs>> /\ card' = "stored"
        /\ rx_on /\ rdh # rdt /\ rx_ring' = [rx_ring EXCEPT ![rdh].data = p]
    BY <1>13 DEF FrameStored, registers, HasRoom
  <2>2. \A i \in Slot : /\ rx_ring'[i].full = rx_ring[i].full
                        /\ rx_ring'[i].data = IF i = rdh THEN p ELSE rx_ring[i].data
    BY <2>1
  <2>3. Filled'
    BY <2>1, <2>2, <1>0 DEF Filled
  <2>4. QED
    BY <2>1, <2>2, <2>3, <1>0 DEF Rest, Built, MarkedAreUnread
<1>14. CASE FrameMarked
  <2>1. /\ UNCHANGED <<rdt, pc, rx_on, rx_bufs, tx_bufs>> /\ card' = "idle"
        /\ rdh' = Succ(rdh) /\ rx_on /\ rdh # rdt /\ rx_ring[rdh].data \in Packets
        /\ rx_ring' = [rx_ring EXCEPT ![rdh].full = TRUE]
    BY <1>14 DEF FrameMarked, Filled
  <2>2. \A i \in Slot : /\ rx_ring'[i].full = (IF i = rdh THEN TRUE ELSE rx_ring[i].full)
                        /\ rx_ring'[i].data = rx_ring[i].data
    BY <2>1
  <2>3. Ahead(rdh') = Ahead(rdh) + 1
    BY <2>1, AheadNext
  <2>4. \A i \in Slot : Ahead(i) < Ahead(rdh') <=> Ahead(i) < Ahead(rdh) \/ i = rdh
    BY <2>3, AheadNext, AheadType
  <2>5. Ahead(rdh)' = Ahead(rdh')
    BY <2>1 DEF Ahead
  <2>6. pc = "tail" => rdh # Succ(rdt)
    BY AheadNext DEF Filled
  <2>7. Filled'
    BY <2>1, <2>2, <2>3, <2>4, <2>5, <1>0, AheadType DEF Filled
  <2>8. MarkedAreUnread'
    BY <2>1, <2>2, <2>4, <2>5, <2>6, <1>0 DEF MarkedAreUnread, Succ
  <2>9. QED
    BY <2>1, <2>7, <2>8 DEF Rest, Built
<1>15. CASE UNCHANGED vars
  BY <1>15, <1>0 DEF vars, registers, rings, Rest, Built, Filled, MarkedAreUnread
<1>16. QED
  BY <1>1, <1>2, <1>3, <1>4, <1>5, <1>6, <1>7, <1>8, <1>9, <1>10, <1>11, <1>12, <1>13,
     <1>14, <1>15 DEF Next, DriverStep, CardStep

LEMMA NetStep == ASSUME Inv, [Next]_vars PROVE Inv'
  BY NetTypeStep, NetRestStep DEF Inv, Rest

THEOREM NetInv == Spec => []Inv
  BY NetInit, NetStep, PTL DEF Spec

\* The types (TypeOK), for any number of slots, frames, sends and loads.
THEOREM NetTypeOK == Spec => []TypeOK
  BY NetInv, PTL DEF Inv

\* The receiver never runs on a ring that is not complete (netwire.cpp:91).
THEOREM NetRingReady == Spec => []RingReady
<1>1. Inv => RingReady
  BY DEF Inv, Control, RingReady
<1>2. QED
  BY <1>1, NetInv, PTL

\* The card fills only slots given back, the driver reads only slots filled
\* (netwire.cpp:227).
THEOREM NetMarkedAreUnread == Spec => []MarkedAreUnread
  BY NetInv, PTL DEF Inv

-----------------------------------------------------------------------------
(***************************************************************************)
(* The ring implements the queue.                                          *)
(***************************************************************************)
LEMMA AfterAhead ==
  ASSUME TypeOK
  PROVE  \A k \in 1 .. Slots - 1 : After(k) \in Slot /\ Ahead(After(k)) = k
  BY NetAssumption DEF TypeOK, Slot, After, Ahead

LEMMA AheadAfter ==
  ASSUME rdt \in Slot, NEW i \in Slot, i # rdt
  PROVE  Ahead(i) \in 1 .. Slots - 1 /\ After(Ahead(i)) = i
<1>1. Ahead(i) = IF i > rdt THEN i - rdt ELSE i - rdt + Slots
  BY DEF Ahead
<1>2. QED
  BY <1>1, NetAssumption DEF Slot, After

LEMMA InUnread ==
  ASSUME Inv, rx_on, NEW k \in 1 .. Ahead(rdh) - 1 - Taken
  PROVE  After(k + Taken) \in Slot /\ After(k + Taken) # rdh
                                  /\ Ahead(After(k + Taken)) < Ahead(rdh)
<1>1. Ahead(rdh) \in 1 .. Slots /\ Taken \in {0, 1}
  BY AheadType DEF Inv, TypeOK, Taken
<1>2. k + Taken \in 1 .. Slots - 1 /\ k + Taken < Ahead(rdh)
  BY <1>1, NetAssumption
<1>3. QED
  BY <1>1, <1>2, AfterAhead DEF Inv

\* The queue holds frames, fewer than the ring has slots.
LEMMA UnreadType ==
  ASSUME Inv, rx_on
  PROVE  /\ Unread \in Seq(Packets)
         /\ Len(Unread) = Ahead(rdh) - 1 - Taken
         /\ \A k \in 1 .. Len(Unread) : Unread[k] = rx_ring[After(k + Taken)].data
<1> USE NetAssumption
<1>1. Ahead(rdh) \in 1 .. Slots
  BY AheadType DEF Inv, TypeOK
<1>2. Taken \in {0, 1} /\ Ahead(rdh) - 1 - Taken \in Nat
  BY <1>1 DEF Taken, Inv, Filled
<1>3. ASSUME NEW k \in 1 .. Ahead(rdh) - 1 - Taken
      PROVE  rx_ring[After(k + Taken)].data \in Packets
  BY InUnread DEF Inv, Filled
<1>4. QED
  BY <1>2, <1>3 DEF Unread

\* A step that leaves the registers and the data between tail and head alone leaves the
\* queue alone.
LEMMA SameUnread ==
  ASSUME UNCHANGED <<rdh, rdt, rx_on, Taken>>,
         \A k \in 1 .. Ahead(rdh) - 1 - Taken :
           rx_ring'[After(k + Taken)].data = rx_ring[After(k + Taken)].data
  PROVE  UNCHANGED Unread
<1>1. Unread = IF ~rx_on THEN <<>>
               ELSE [k \in 1 .. Ahead(rdh) - 1 - Taken |-> rx_ring[After(k + Taken)].data]
  BY DEF Unread
<1>2. Unread' = IF ~rx_on THEN <<>>
                ELSE [k \in 1 .. Ahead(rdh) - 1 - Taken |-> rx_ring'[After(k + Taken)].data]
  BY DEF Unread, Ahead, After
<1>3. QED
  BY <1>1, <1>2

LEMMA QueueInit == Init => Queue!Init
  BY DEF Init, Queue!Init, Unread

LEMMA QueueStep ==
  ASSUME Inv, Inv', [Next]_vars
  PROVE  [Queue!Next]_<<Unread, out, loads>>
<1> USE NetAssumption
<1>0. rdt' = rdt => (\A i : Ahead(i)' = Ahead(i)) /\ (\A k : After(k)' = After(k))
  BY DEF Ahead, After
<1>1. CASE Load
  <2>1. Unread' = <<>> /\ out' = out /\ loads' = loads + 1
    BY <1>1 DEF Load, Reset, Unread
  <2>2. QED
    BY <2>1 DEF Queue!Next, Queue!Load
<1>2. ASSUME MallocFails \/ RxBuffer \/ RxReady \/ TxBuffer \/ TxReady
      PROVE  UNCHANGED <<Unread, out, loads>>
  <2>1. ~rx_on /\ rx_on' = rx_on /\ out' = out /\ loads' = loads
    BY <1>2 DEF counts, MallocFails, RxBuffer, RxReady, TxBuffer, TxReady, registers, Inv, Control, Running
  <2>2. QED
    BY <2>1 DEF Unread
<1>3. CASE Enable
  <2>1. ~rx_on /\ rx_on' /\ out' = out /\ loads' = loads
    BY <1>3 DEF counts, Enable, Inv, Control, Running
  <2>2. Ahead(rdh)' = 1 /\ Taken' = 0
    BY <1>3 DEF Enable, Inv, Control, Ahead, Taken
  <2>3. Unread = <<>> /\ Unread' = <<>>
    BY <2>1, <2>2 DEF Unread
  <2>4. QED
    BY <2>1, <2>3
<1>4. ASSUME Poll \/ (\E p \in Packets : Send(p)) \/ UNCHANGED vars
      PROVE  UNCHANGED <<Unread, out, loads>>
  <2>1. UNCHANGED <<loads, rdh, rdt, rx_on, rx_ring, out, Taken>>
    BY <1>4 DEF counts, Poll, Send, vars, registers, rings, Taken
  <2>2. QED
    BY <2>1 DEF Unread, Ahead, After
<1>5. CASE Copy
  <2>1. /\ UNCHANGED <<loads, rdh, rdt, rx_on, rx_ring>> /\ rx_on /\ Taken = 0 /\ Taken' = 1
        /\ out' = Append(out, rx_ring[Succ(rdt)].data) /\ Ahead(rdh) > 1
    BY <1>5 DEF counts, Copy, Polled, registers, rings, Taken, Inv, Filled, Control, Running
  <2>2. Ahead(rdh)' = Ahead(rdh) /\ Ahead(rdh) \in 1 .. Slots
    BY <2>1, <1>0, AheadType DEF Inv, TypeOK
  <2>3. Len(Unread) = Ahead(rdh) - 1
    BY <2>1, <2>2, UnreadType
  <2>4. Unread # <<>> /\ Head(Unread) = rx_ring[Succ(rdt)].data
    <3>1. After(1) = Succ(rdt)
      BY DEF After, Succ, Inv, TypeOK, Slot
    <3>2. QED
      BY <2>1, <2>2, <2>3, <3>1, UnreadType
  <2>5. Unread' = Tail(Unread)
    <3>1. Unread' = [k \in 1 .. Len(Unread) - 1 |-> rx_ring[After(k + 1)].data]
      BY <2>1, <2>2, <2>3, <1>0 DEF Unread
    <3>2. \A k \in 1 .. Len(Unread) - 1 : Unread[k + 1] = rx_ring[After(k + 1)].data
      BY <2>1, <2>2, <2>3, UnreadType
    <3>3. Unread' = [k \in 1 .. Len(Unread) - 1 |-> Unread[k + 1]]
      BY <3>1, <3>2
    <3>4. Unread \in Seq(Packets) /\ Unread # <<>>
      BY <2>1, <2>4, UnreadType
    <3>5. Tail(Unread) = [k \in 1 .. Len(Unread) - 1 |-> Unread[k + 1]]
      <4>1. /\ Tail(Unread) \in Seq(Packets) /\ Len(Tail(Unread)) = Len(Unread) - 1
            /\ \A k \in 1 .. Len(Tail(Unread)) : Tail(Unread)[k] = Unread[k + 1]
        BY <3>4, HeadTailProperties
      <4>2. Tail(Unread) = [k \in 1 .. Len(Tail(Unread)) |-> Tail(Unread)[k]]
        BY <4>1, LenProperties
      <4>3. QED
        BY <4>1, <4>2
    <3>6. QED
      BY <3>3, <3>5
  <2>6. QED
    BY <2>1, <2>4, <2>5 DEF Queue!Next, Queue!Get
<1>6. CASE ResetDescriptor
  <2>1. UNCHANGED <<loads, rdh, rdt, rx_on, out, Taken>> /\ rx_on /\ rx_ring' = Cleared(rx_ring, Polled)
    BY <1>6 DEF counts, ResetDescriptor, registers, Taken, Inv, Control, Running
  <2>2. \A i \in Slot : rx_ring'[i].data = rx_ring[i].data
    BY <2>1 DEF Cleared, Inv, TypeOK
  <2>3. \A k \in 1 .. Ahead(rdh) - 1 - Taken :
          rx_ring'[After(k + Taken)].data = rx_ring[After(k + Taken)].data
    BY <2>1, <2>2, InUnread
  <2>4. QED
    BY <2>1, <2>3, SameUnread
<1>7. CASE WriteTail
  <2>1. /\ UNCHANGED <<loads, rdh, rx_on, rx_ring, out>> /\ rx_on /\ rdt' = Succ(rdt)
        /\ Taken = 1 /\ Taken' = 0 /\ Ahead(rdh) > 1
    BY <1>7 DEF counts, WriteTail, Polled, rings, Taken, Inv, Filled, Control, Running
  <2>2. Ahead(rdh)' = Ahead(rdh) - 1 /\ Ahead(rdh) \in 1 .. Slots
    <3>1. rdh # Succ(rdt)
      BY <2>1, AheadNext DEF Inv, TypeOK
    <3>2. QED
      BY <2>1, <3>1 DEF Ahead, Succ, Inv, TypeOK, Slot
  <2>3. \A k \in 1 .. Slots - 1 : After(k)' = After(k + 1)
    BY <2>1 DEF After, Succ, Inv, TypeOK, Slot
  <2>4. Unread = [k \in 1 .. Ahead(rdh) - 2 |-> rx_ring[After(k + 1)].data]
    BY <2>1, <2>2 DEF Unread
  <2>5. Unread' = [k \in 1 .. Ahead(rdh) - 2 |-> rx_ring[After(k)'].data]
    BY <2>1, <2>2 DEF Unread
  <2>6. Unread' = Unread
    BY <2>2, <2>3, <2>4, <2>5
  <2>7. QED
    BY <2>1, <2>6
<1>8. ASSUME NEW p \in Packets, FrameStored(p) PROVE UNCHANGED <<Unread, out, loads>>
  <2>1. /\ UNCHANGED <<loads, rdh, rdt, rx_on, out, Taken>> /\ rx_on
        /\ rx_ring' = [rx_ring EXCEPT ![rdh].data = p]
    BY <1>8 DEF counts, FrameStored, registers, Taken
  <2>2. \A k \in 1 .. Ahead(rdh) - 1 - Taken : rx_ring'[After(k + Taken)] = rx_ring[After(k + Taken)]
    BY <2>1, InUnread DEF Inv, TypeOK
  <2>3. \A k \in 1 .. Ahead(rdh) - 1 - Taken :
          rx_ring'[After(k + Taken)].data = rx_ring[After(k + Taken)].data
    BY <2>2
  <2>4. QED
    BY <2>1, <2>3, SameUnread
<1>9. CASE FrameMarked
  <2>1. /\ UNCHANGED <<loads, rdt, rx_on, out, Taken>> /\ rx_on /\ rdh # rdt /\ rdh' = Succ(rdh)
        /\ rx_ring' = [rx_ring EXCEPT ![rdh].full = TRUE] /\ rx_ring[rdh].data \in Packets
    BY <1>9 DEF counts, FrameMarked, Taken, Inv, Control, Filled
  <2>2. /\ Ahead(rdh)' = Ahead(rdh) + 1
        /\ Ahead(rdh) \in 1 .. Slots - 1 /\ After(Ahead(rdh)) = rdh
    <3>1. Ahead(rdh') = Ahead(rdh) + 1
      BY <2>1, AheadNext DEF Inv, TypeOK
    <3>2. Ahead(rdh)' = Ahead(rdh')
      BY <2>1 DEF Ahead
    <3>3. Ahead(rdh) \in 1 .. Slots - 1 /\ After(Ahead(rdh)) = rdh
      BY <2>1, AheadAfter DEF Inv, TypeOK
    <3>4. QED
      BY <3>1, <3>2, <3>3
  <2>3. /\ Unread \in Seq(Packets) /\ Len(Unread) = Ahead(rdh) - 1 - Taken
        /\ \A k \in 1 .. Len(Unread) : Unread[k] = rx_ring[After(k + Taken)].data
    BY <2>1, UnreadType
  <2>4. Taken \in {0, 1} /\ Len(Unread) \in Nat /\ Len(Unread) < Slots - 1
    BY <2>2, <2>3 DEF Taken
  <2>5. \A i \in Slot : rx_ring'[i].data = rx_ring[i].data
    BY <2>1 DEF Inv, TypeOK
  <2>6. Unread' = [k \in 1 .. Len(Unread) + 1 |-> rx_ring'[After(k + Taken)].data]
    <3>1. Unread' = [k \in 1 .. Ahead(rdh)' - 1 - Taken |-> rx_ring'[After(k + Taken)].data]
      BY <2>1 DEF Unread, Ahead, After
    <3>2. Ahead(rdh)' - 1 - Taken = Len(Unread) + 1
      BY <2>2, <2>3, <2>4
    <3>3. QED
      BY <3>1, <3>2
  <2>7. \A k \in 1 .. Len(Unread) + 1 :
          rx_ring'[After(k + Taken)].data
            = IF k = Len(Unread) + 1 THEN rx_ring[rdh].data ELSE Unread[k]
    <3> TAKE k \in 1 .. Len(Unread) + 1
    <3>1. k + Taken \in 1 .. Slots - 1
      BY <2>2, <2>3, <2>4
    <3>2. After(k + Taken) \in Slot
      BY <3>1, AfterAhead DEF Inv
    <3>3. k = Len(Unread) + 1 => After(k + Taken) = rdh
      BY <2>2, <2>3, <2>4
    <3>4. QED
      BY <2>3, <2>4, <2>5, <3>2, <3>3
  <2>8. Unread' = Append(Unread, rx_ring[rdh].data)
    BY <2>3, <2>6, <2>7
  <2>9. Queue!Put(rx_ring[rdh].data)
    BY <2>1, <2>4, <2>8 DEF Queue!Put
  <2>10. QED
    BY <2>1, <2>9 DEF Queue!Next
<1>10. QED
  BY <1>1, <1>2, <1>3, <1>4, <1>5, <1>6, <1>7, <1>8, <1>9 DEF Next, DriverStep, CardStep

\* Frames reach the caller in order, each once, out of a queue of Slots - 1
\* (ImplementsQueue, netwire.cpp:227-246).
THEOREM NetImplementsQueue == Spec => ImplementsQueue
  BY NetInv, QueueInit, QueueStep, PTL DEF Spec, ImplementsQueue, Queue!Spec

\* The ring is sound between any two accesses of the card and the driver, for any ring size.
THEOREM NetRingSound == Spec => []RingSound
  BY NetTypeOK, NetRingReady, NetMarkedAreUnread, PTL DEF RingSound
=============================================================================
