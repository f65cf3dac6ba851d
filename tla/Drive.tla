------------------------------- MODULE Drive -------------------------------
(***************************************************************************)
(* What a file system relies on when it calls a disk (struct DiskDrive of  *)
(* kernel/fs/vdrive.h), one sector at a time: a call that returns true has *)
(* read or written the sector it was given and no other, one that returns  *)
(* false has written nothing.  It holds while the disk can be trusted;     *)
(* what ends the trust, and what restores it, is the driver's to say.      *)
(***************************************************************************)
EXTENDS Integers

CONSTANTS Sectors, Lbas, Data

VARIABLES
  content,   \* sector -> data
  trusted,
  request,   \* the call under way
  written,   \* the call has changed the disk
  answer     \* of the last call

NoRequest == [kind |-> "none", lba |-> 0, data |-> 0]
Answers == [ok : BOOLEAN, data : Data]

DInit ==
  /\ content \in [Sectors -> Data]
  /\ trusted = TRUE /\ written = FALSE
  /\ request = NoRequest /\ answer \in Answers

Ask ==
  /\ request = NoRequest
  /\ request' \in [kind : {"read", "write"}, lba : Lbas, data : Data]
  /\ UNCHANGED <<content, trusted, written, answer>>

Change ==
  /\ request.kind = "write" /\ request.lba \in Sectors /\ ~written
  /\ content' = [content EXCEPT ![request.lba] = request.data]
  /\ written' = TRUE
  /\ UNCHANGED <<trusted, request, answer>>

Succeed ==
  /\ IF request.kind = "read"
     THEN request.lba \in Sectors /\ answer'.data = content[request.lba]
     ELSE request.kind = "write" /\ written
  /\ answer' \in Answers /\ answer'.ok
  /\ request' = NoRequest /\ written' = FALSE
  /\ UNCHANGED <<content, trusted>>

Fail ==
  /\ ~written
  /\ answer' \in Answers /\ ~answer'.ok
  /\ request' = NoRequest
  /\ UNCHANGED <<content, trusted, written>>

\* Trust is lost: from here until it is restored anything may happen.
Betray == trusted' = FALSE
Restore == ~trusted /\ trusted' = TRUE /\ request' = NoRequest /\ ~written'

DNext == (trusted /\ trusted' /\ (Ask \/ Change \/ Succeed \/ Fail)) \/ Betray \/ Restore

Spec == DInit /\ [][DNext]_<<content, trusted, request, written, answer>>
=============================================================================
