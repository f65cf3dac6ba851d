-------------------------------- MODULE Ata --------------------------------
(***************************************************************************)
(* The ATA driver: class ATADriver of kernel/drivers/ata.h, and the disk   *)
(* it polls, one sector a call as kernel/fs/FAT32.h calls it (by           *)
(* ATADiskIF, drivers/ata_lf.h).                                           *)
(*                                                                         *)
(* The disk is external.  It takes its time, fails, and shows a status:    *)
(* busy, data requested, error.  A command given while it is busy or wants *)
(* data is one the standard forbids: it is ignored, or it ends the command *)
(* under way.  The error bit stays until the next command.                 *)
(***************************************************************************)
EXTENDS Integers

CONSTANTS
  Sectors,     \* the sectors of the disk
  Lbas,        \* the addresses asked for
  Data,        \* what a sector may hold
  ReadyPolls,  \* 100000: polls of wait_ready
  DrqPolls     \* 1000: polls of wait_drq

ASSUME AtaAssumption == ReadyPolls \in Nat \ {0} /\ DrqPolls \in Nat \ {0}

VARIABLES
  mode, at, latch, err, medium,        \* the disk
  present, pc, op, polls, answer,      \* the driver
  trusted      \* history: since init, every wait for data ended with data or an error,
               \* and the disk kept what it took

disk == <<mode, at, latch, err, medium>>
driver == <<present, pc, op, polls, answer>>
vars == <<disk, driver, trusted>>

NoOp == [kind |-> "none", lba |-> 0, data |-> 0]
Ops == [kind : {"read", "write"}, lba : Lbas, data : Data]

Busy == mode \in {"identify", "reading", "writing", "storing", "flushing"}
DataRequest == mode \in {"id", "data_in", "data_out"}

Init ==
  /\ mode = "idle" /\ at = 0 /\ err = FALSE
  /\ latch \in Data /\ medium \in [Sectors -> Data]
  /\ present = FALSE /\ pc = "idle" /\ op = NoOp /\ polls = 0
  /\ answer \in [ok : {FALSE}, data : Data]
  /\ trusted = TRUE

-----------------------------------------------------------------------------
(***************************************************************************)
(* The disk.                                                               *)
(***************************************************************************)
\* What the disk does with a command: it starts, or does not look at it.
Takes(m, l) == mode' = m /\ at' = l /\ err' = FALSE
Ignores == ~(mode = "idle") /\ UNCHANGED <<mode, at, err>>

Errs == mode' = "idle" /\ err' = TRUE

Seeks ==
  /\ \/ mode = "identify" /\ mode' = "id" /\ UNCHANGED err
     \/ mode = "reading" /\ at \in Sectors /\ mode' = "data_in" /\ UNCHANGED err
     \/ mode = "writing" /\ at \in Sectors /\ mode' = "data_out" /\ UNCHANGED err
     \/ mode = "flushing" /\ mode' = "idle" /\ UNCHANGED err
     \/ mode \in {"reading", "writing", "flushing"} /\ Errs
  /\ UNCHANGED <<at, latch, medium, driver, trusted>>

Stores ==
  /\ mode = "storing"
  /\ \/ /\ mode' = "idle" /\ medium' = [medium EXCEPT ![at] = latch]
        /\ UNCHANGED <<err, trusted>>
     \/ Errs /\ trusted' = FALSE /\ UNCHANGED medium
  /\ UNCHANGED <<at, latch, driver>>

-----------------------------------------------------------------------------
(***************************************************************************)
(* init: a reset of the disk, and IDENTIFY.  A sector being stored is      *)
(* stored first.                                                           *)
(***************************************************************************)
Reset ==
  /\ pc = "idle"
  /\ medium' = IF mode = "storing" THEN [medium EXCEPT ![at] = latch] ELSE medium
  /\ mode' = "identify" /\ err' = FALSE
  /\ present' = FALSE /\ pc' = "identify" /\ polls' = 0
  /\ UNCHANGED <<at, latch, op, answer, trusted>>

Identified ==
  /\ pc = "id" /\ mode = "id"
  /\ mode' = "idle"
  /\ present' = TRUE /\ pc' = "idle"
  /\ trusted' = TRUE
  /\ UNCHANGED <<at, latch, err, medium, op, polls, answer>>

(***************************************************************************)
(* read and write.                                                         *)
(***************************************************************************)
Return(ok, data) ==
  /\ answer' = [ok |-> ok, data |-> data]
  /\ op' = NoOp /\ pc' = "idle" /\ polls' = 0
  /\ UNCHANGED present

ReturnFalse == Return(FALSE, answer.data)

Call ==
  /\ pc = "idle" /\ present
  /\ op' \in Ops /\ pc' = "ready"
  /\ UNCHANGED <<disk, present, polls, answer, trusted>>

CallAbsent ==
  /\ pc = "idle" /\ ~present
  /\ ReturnFalse
  /\ UNCHANGED <<disk, trusted>>

\* Mutant of Poll: only answers are counted, not the polls of a busy disk.
PollUncounted(limit) == polls + 1 < limit /\ UNCHANGED <<present, pc, op, polls, answer>>

\* Mutant of Poll: a poll too many.
PollPast(limit) == polls < limit /\ polls' = polls + 1 /\ UNCHANGED <<present, pc, op, answer>>

Poll(limit) == polls + 1 < limit /\ polls' = polls + 1 /\ UNCHANGED <<present, pc, op, answer>>
LastPoll(limit) == polls + 1 = limit

\* Mutant of WaitReady: the error bit is not looked at.
WaitReadyBlind ==
  /\ pc = "ready"
  /\ \/ ~Busy /\ pc' = "command" /\ polls' = 0 /\ UNCHANGED <<present, op, answer>>
     \/ Busy /\ Poll(ReadyPolls)
     \/ Busy /\ LastPoll(ReadyPolls) /\ ReturnFalse
  /\ UNCHANGED <<disk, trusted>>

\* wait_ready before a command.  It does not look at the data request bit.
WaitReady ==
  /\ pc = "ready"
  /\ \/ err /\ ReturnFalse
     \/ /\ ~err /\ ~Busy
        /\ pc' = "command" /\ polls' = 0 /\ UNCHANGED <<present, op, answer>>
     \/ ~err /\ Busy /\ Poll(ReadyPolls)
     \/ ~err /\ Busy /\ LastPoll(ReadyPolls) /\ ReturnFalse
  /\ UNCHANGED <<disk, trusted>>

Command ==
  /\ pc = "command"
  /\ Takes(IF op.kind = "read" THEN "reading" ELSE "writing", op.lba) \/ Ignores
  /\ pc' = "drq"
  /\ UNCHANGED <<latch, medium, present, op, polls, answer, trusted>>

DataReady == ~err /\ DataRequest
NoDataYet == ~err /\ ~DataRequest

\* Mutant of WaitDrq: a wait that ends without data goes on as if there were.
WaitDrqForgiving ==
  /\ pc \in {"drq", "identify"}
  /\ \/ /\ DataReady \/ (NoDataYet /\ LastPoll(DrqPolls))
        /\ pc' = IF pc = "drq" THEN "transfer" ELSE "id"
        /\ polls' = 0 /\ UNCHANGED <<present, op, answer, trusted>>
     \/ err /\ ReturnFalse /\ UNCHANGED trusted
     \/ NoDataYet /\ Poll(DrqPolls) /\ UNCHANGED trusted
  /\ UNCHANGED disk

\* wait_drq after a command.  A wait that ends by its count leaves the disk in the command.
WaitDrq ==
  /\ pc \in {"drq", "identify"}
  /\ \/ /\ DataReady
        /\ pc' = IF pc = "drq" THEN "transfer" ELSE "id"
        /\ polls' = 0 /\ UNCHANGED <<present, op, answer, trusted>>
     \/ err /\ ReturnFalse /\ UNCHANGED trusted
     \/ NoDataYet /\ Poll(DrqPolls) /\ UNCHANGED trusted
     \/ NoDataYet /\ LastPoll(DrqPolls) /\ ReturnFalse /\ trusted' = FALSE
  /\ UNCHANGED disk

\* The 256 words of a sector, in the direction of the command the disk is in.
TransferIn ==
  /\ pc = "transfer" /\ op.kind = "read"
  /\ \/ mode = "data_in" /\ mode' = "idle" /\ Return(TRUE, medium[at])
     \/ mode # "data_in" /\ UNCHANGED mode /\ \E d \in Data : Return(TRUE, d)
  /\ UNCHANGED <<at, latch, err, medium, trusted>>

TransferOut ==
  /\ pc = "transfer" /\ op.kind = "write"
  /\ \/ mode = "data_out" /\ mode' = "storing" /\ latch' = op.data
     \/ mode # "data_out" /\ UNCHANGED <<mode, latch>>
  /\ pc' = "flush"
  /\ UNCHANGED <<at, err, medium, present, op, polls, answer, trusted>>

\* The command to empty the cache, given at once, whatever the disk is doing.
Flush ==
  /\ pc = "flush"
  /\ (mode # "storing" /\ Takes("flushing", at)) \/ Ignores
  /\ pc' = "flush_wait"
  /\ UNCHANGED <<latch, medium, present, op, polls, answer, trusted>>

\* wait_ready after it, whose result is not looked at: the write succeeds though the flush erred.
WaitFlush ==
  /\ pc = "flush_wait"
  /\ \/ err /\ Return(TRUE, answer.data)
     \/ ~err /\ ~Busy /\ Return(TRUE, answer.data)
     \/ ~err /\ Busy /\ Poll(ReadyPolls)
     \/ ~err /\ Busy /\ LastPoll(ReadyPolls) /\ Return(TRUE, answer.data)
  /\ UNCHANGED <<disk, trusted>>

Driver ==
  \/ WaitReady
  \/ Command
  \/ WaitDrq
  \/ Identified
  \/ TransferIn
  \/ TransferOut
  \/ Flush
  \/ WaitFlush

Next ==
  \/ Seeks
  \/ Stores
  \/ Reset
  \/ Call
  \/ CallAbsent
  \/ Driver

Spec == Init /\ [][Next]_vars /\ WF_vars(Driver)

-----------------------------------------------------------------------------
(***************************************************************************)
(* Properties.                                                             *)
(***************************************************************************)
Modes == {"idle", "identify", "id", "reading", "writing", "data_in", "data_out", "storing", "flushing"}

\* How often the driver may have polled where it is.
Limit == IF pc \in {"ready", "flush_wait"} THEN ReadyPolls
         ELSE IF pc \in {"drq", "identify"} THEN DrqPolls ELSE 1

DiskTypes ==
  /\ mode \in Modes /\ at \in Lbas \cup {0} /\ latch \in Data /\ err \in BOOLEAN
  /\ medium \in [Sectors -> Data]

DriverTypes ==
  /\ present \in BOOLEAN /\ op \in Ops \cup {NoOp}
  /\ pc \in {"idle", "identify", "id", "ready", "command", "drq", "transfer", "flush", "flush_wait"}
  /\ answer \in [ok : BOOLEAN, data : Data]
  /\ trusted \in BOOLEAN

Polled == polls \in 0..(Limit - 1)

\* Type invariant: no wait polls more often than its limit (ata.h 34-53).
TypeOK == DiskTypes /\ DriverTypes /\ Polled

\* While the disk is in time and keeps what it takes, a call that returns true has read or written
\* the sector it was given, the old content and the new being those of a disk that does one call
\* at a time, and one that returns false has written nothing.  (vdrive.h, ata.h 117-174.)
\* A sector on its way to the medium is content already.
D == INSTANCE Drive WITH
       content <- IF mode = "storing" THEN [medium EXCEPT ![at] = latch] ELSE medium,
       request <- op,
       written <- pc \in {"flush", "flush_wait"}
ImplementsDrive == D!Spec

\* While the disk shows an error and no command is out, every call that begins, or is waiting to
\* give its command, returns false, and nothing it was given reaches the disk, until init resets
\* it: wait_ready refuses to give the command that would clear the bit (ata.h 34-42).  The call
\* that met the error may have succeeded: a write does not look at the end of its flush
\* (ata.h 171-173).
Quiet == pc \in {"idle", "ready"}
RefusesAfterError ==
  [][err /\ Quiet /\ pc' # "identify" =>
       /\ UNCHANGED <<mode, err, medium>> /\ Quiet'
       /\ answer' # answer \/ (pc = "ready" /\ pc' = "idle") => ~answer'.ok]_vars

\* Every call returns, whatever the disk does or does not do: the waits are counted (ata.h 34-53).
Returns == (pc # "idle") ~> (pc = "idle")
=============================================================================
