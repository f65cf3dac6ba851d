----------------------------- MODULE DiskProofs -----------------------------
(***************************************************************************)
(* Theorems about the block devices.                                       *)
(*                                                                         *)
(* Ata, for every number of sectors and every length of the waits: its     *)
(* types, that calls are refused while the disk shows an error, and that   *)
(* the driver and the disk together implement Drive.                       *)
(*                                                                         *)
(* Volume, for disks of every size: what a format of which no write was    *)
(* refused leaves can be used.                                             *)
(***************************************************************************)
EXTENDS Ata, Volume, TLAPS

\* The disk has a sector of its own whenever one moves, and an error ends its command.
DiskInv ==
  /\ mode \in {"data_in", "data_out", "storing"} => at \in Sectors
  /\ err => mode = "idle"

\* A request is there while a call is, and the disk is being identified while init waits.
CallInv ==
  /\ pc \in {"idle", "identify", "id"} => op = NoOp
  /\ pc \notin {"idle", "identify", "id"} => op \in Ops
  /\ pc \in {"flush", "flush_wait"} => op.kind = "write"

\* The command the disk is in, if it errs not.
Under(kind, started, moving) ==
  op.kind = kind => at = op.lba /\ (mode \in {started, moving} \/ err)

\* Driver and disk are in step.
InStep ==
  /\ pc \in {"idle", "ready"} => mode \in {"idle", "storing", "flushing"}
  /\ pc = "command" => mode = "idle"
  /\ pc = "drq" => Under("read", "reading", "data_in") /\ Under("write", "writing", "data_out")
  /\ pc = "transfer" => /\ at = op.lba
                        /\ mode = IF op.kind = "read" THEN "data_in" ELSE "data_out"
  /\ pc = "flush" => mode \in {"idle", "storing"}
  /\ pc = "flush_wait" => mode \in {"idle", "storing", "flushing"}

\* While identifying, the disk is.
IdentifyInv ==
  /\ pc = "identify" => mode \in {"identify", "id"}
  /\ pc = "id" => mode = "id"

Inv == TypeOK /\ DiskInv /\ CallInv /\ IdentifyInv /\ (trusted => InStep)

LEMMA InitTypes == Init => TypeOK
  <1> SUFFICES ASSUME Init PROVE TypeOK
    OBVIOUS
  <1>1. DiskTypes
    BY DEF Init, DiskTypes, Modes
  <1>2. answer.ok = FALSE /\ answer.data \in Data /\ answer = [ok |-> answer.ok, data |-> answer.data]
    BY DEF Init
  <1>3. DriverTypes
    BY <1>2 DEF Init, DriverTypes
  <1>4. Limit = 1 /\ polls = 0
    BY DEF Init, Limit
  <1>5. Polled
    BY <1>4 DEF Polled
  <1> QED BY <1>1, <1>3, <1>5 DEF TypeOK

LEMMA LimitPositive == Limit \in Nat \ {0}
  BY AtaAssumption DEF AtaAssumption, Limit

\* A step that leaves a part alone keeps its types.
LEMMA DiskStill == ASSUME DiskTypes, UNCHANGED disk PROVE DiskTypes'
  BY DEF DiskTypes, disk

LEMMA DriverStill ==
  ASSUME DriverTypes, UNCHANGED <<present, pc, op, answer>>, trusted' \in BOOLEAN
  PROVE  DriverTypes'
  BY DEF DriverTypes

LEMMA PolledStill == ASSUME Polled, UNCHANGED <<pc, polls>> PROVE Polled'
  BY DEF Polled, Limit

LEMMA PolledReset == ASSUME polls' = 0 PROVE Polled'
  BY AtaAssumption DEF AtaAssumption, Polled, Limit

\* Outside a wait nothing was polled.
LEMMA NotWaiting ==
  ASSUME Polled, pc \notin {"ready", "flush_wait", "drq", "identify"}
  PROVE  polls = 0
  BY DEF Polled, Limit

\* A poll counts up to the limit of its wait.
LEMMA PolledPoll ==
  ASSUME Polled, Poll(Limit)
  PROVE  Polled'
  <1>1. polls + 1 < Limit /\ polls' = polls + 1 /\ pc' = pc
    BY DEF Poll
  <1>2. Limit' = Limit
    BY <1>1 DEF Limit
  <1> QED BY <1>1, <1>2, LimitPositive DEF Polled

\* What every return shares.
LEMMA ReturnType ==
  ASSUME DriverTypes, NEW ok \in BOOLEAN, NEW d \in Data, Return(ok, d),
         trusted' \in BOOLEAN
  PROVE  DriverTypes' /\ Polled'
  <1>1. Polled'
    BY PolledReset DEF Return
  <1>2. answer' \in [ok : BOOLEAN, data : Data]
    BY DEF Return
  <1> QED BY <1>1, <1>2 DEF DriverTypes, Return

LEMMA ReturnFalseType ==
  ASSUME DriverTypes, ReturnFalse, trusted' \in BOOLEAN
  PROVE  DriverTypes' /\ Polled'
  <1>1. answer.data \in Data
    BY DEF DriverTypes
  <1> QED BY <1>1, ReturnType DEF ReturnFalse

LEMMA PollType ==
  ASSUME DriverTypes, Polled, Poll(Limit), trusted' \in BOOLEAN
  PROVE  DriverTypes' /\ Polled'
  BY PolledPoll, DriverStill DEF Poll

LEMMA InitInv == Init => Inv
  <1> USE AtaAssumption DEF AtaAssumption
  <1>1. Init => TypeOK
    BY InitTypes
  <1>2. Init => DiskInv /\ CallInv /\ IdentifyInv /\ InStep
    BY DEF Init, DiskInv, CallInv, IdentifyInv, InStep
  <1> QED BY <1>1, <1>2 DEF Inv

-----------------------------------------------------------------------------
(***************************************************************************)
(* One lemma for the steps of the disk, one for each step of the driver.   *)
(***************************************************************************)
LEMMA SeeksInv == Inv /\ Seeks => Inv'
  <1> SUFFICES ASSUME Inv, Seeks PROVE Inv'
    OBVIOUS
  <1> USE DEF Inv, Seeks, disk, driver
  <1>1. TypeOK'
    <2>1. DiskTypes'
      BY DEF TypeOK, DiskTypes, Modes, Errs
    <2>2. DriverTypes' /\ Polled'
      BY DriverStill, PolledStill DEF TypeOK, DriverTypes
    <2> QED BY <2>1, <2>2 DEF TypeOK
  <1>2. DiskInv'
    BY DEF DiskInv, Errs
  <1>3. CallInv'
    BY DEF CallInv, DiskInv, Errs
  <1>4. IdentifyInv'
    BY DEF IdentifyInv, Errs
  <1>5. (trusted => InStep)'
    BY DEF InStep, Under, Errs
  <1> QED BY <1>1, <1>2, <1>3, <1>4, <1>5

LEMMA StoresInv == Inv /\ Stores => Inv'
  <1> SUFFICES ASSUME Inv, Stores PROVE Inv'
    OBVIOUS
  <1> USE DEF Inv, Stores, disk, driver
  <1>1. TypeOK'
    <2>1. CASE Errs
      <3>1. DiskTypes'
        BY <2>1 DEF TypeOK, DiskTypes, Modes, Errs
      <3>2. trusted' \in BOOLEAN
        BY DEF TypeOK, DriverTypes
      <3> QED BY <3>1, <3>2, DriverStill, PolledStill DEF TypeOK, DriverTypes
    <2>2. CASE ~Errs
      <3>1. DiskTypes'
        BY <2>2 DEF TypeOK, DiskTypes, Modes
      <3> QED BY <2>2, <3>1, DriverStill, PolledStill DEF TypeOK, DriverTypes
    <2> QED BY <2>1, <2>2
  <1>2. DiskInv' /\ CallInv' /\ IdentifyInv'
    BY DEF DiskInv, CallInv, IdentifyInv, Errs
  <1>3. (trusted => InStep)'
    BY DEF InStep, Under, Errs
  <1> QED BY <1>1, <1>2, <1>3

LEMMA ResetInv == Inv /\ Reset => Inv'
  <1> SUFFICES ASSUME Inv, Reset PROVE Inv'
    OBVIOUS
  <1> USE AtaAssumption DEF Inv, Reset, AtaAssumption
  <1>1. TypeOK'
    <2>1. DiskTypes'
      BY DEF TypeOK, DiskTypes, Modes
    <2>2. DriverTypes'
      BY DEF TypeOK, DriverTypes
    <2> QED BY <2>1, <2>2, PolledReset DEF TypeOK
  <1>2. DiskInv' /\ CallInv' /\ IdentifyInv' /\ InStep'
    BY DEF DiskInv, CallInv, IdentifyInv, InStep
  <1> QED BY <1>1, <1>2

LEMMA IdentifiedInv == Inv /\ Identified => Inv'
  <1> SUFFICES ASSUME Inv, Identified PROVE Inv'
    OBVIOUS
  <1> USE DEF Inv, Identified
  <1>1. TypeOK'
    <2>1. DiskTypes'
      BY DEF TypeOK, DiskTypes, Modes
    <2>2. DriverTypes'
      BY DEF TypeOK, DriverTypes
    <2> QED BY <2>1, <2>2, NotWaiting, PolledReset DEF TypeOK
  <1>2. DiskInv' /\ CallInv' /\ IdentifyInv' /\ InStep'
    BY DEF DiskInv, CallInv, IdentifyInv, InStep
  <1> QED BY <1>1, <1>2

LEMMA CallsInv == Inv /\ (Call \/ CallAbsent) => Inv'
  <1> SUFFICES ASSUME Inv, Call \/ CallAbsent PROVE Inv'
    OBVIOUS
  <1>1. CASE Call
    <2> USE <1>1 DEF Inv, Call, disk
    <2>1. TypeOK'
      <3>1. DriverTypes'
        BY DEF TypeOK, DriverTypes
      <3> QED BY <3>1, DiskStill, NotWaiting, PolledReset DEF TypeOK, disk
    <2>2. DiskInv' /\ CallInv' /\ IdentifyInv' /\ (trusted => InStep)'
      BY DEF DiskInv, CallInv, IdentifyInv, InStep
    <2> QED BY <2>1, <2>2
  <1>2. CASE CallAbsent
    <2> USE <1>2 DEF Inv, CallAbsent, ReturnFalse, disk
    <2>1. TypeOK'
      BY DiskStill, ReturnFalseType DEF TypeOK, DriverTypes, disk, ReturnFalse
    <2>2. DiskInv' /\ CallInv' /\ IdentifyInv' /\ (trusted => InStep)'
      BY DEF DiskInv, CallInv, IdentifyInv, InStep, Return
    <2> QED BY <2>1, <2>2
  <1> QED BY <1>1, <1>2

LEMMA WaitReadyInv == Inv /\ WaitReady => Inv'
  <1> SUFFICES ASSUME Inv, WaitReady PROVE Inv'
    OBVIOUS
  <1> USE AtaAssumption DEF Inv, WaitReady, disk, AtaAssumption
  <1>1. TypeOK'
    <2>1. DiskTypes' /\ Limit = ReadyPolls /\ trusted' \in BOOLEAN
      BY DiskStill DEF TypeOK, Limit, DriverTypes, disk
    <2>2. CASE ReturnFalse
      BY <2>1, <2>2, ReturnFalseType DEF TypeOK
    <2>3. CASE Poll(ReadyPolls)
      BY <2>1, <2>3, PollType DEF TypeOK
    <2>4. CASE pc' = "command" /\ polls' = 0 /\ UNCHANGED <<present, op, answer>>
      BY <2>1, <2>4, PolledReset DEF TypeOK, DriverTypes
    <2> QED BY <2>2, <2>3, <2>4
  <1>2. DiskInv' /\ CallInv' /\ IdentifyInv'
    BY DEF DiskInv, CallInv, IdentifyInv, Return, ReturnFalse, Poll
  <1>3. (trusted => InStep)'
    BY DEF InStep, Return, ReturnFalse, Poll, Busy
  <1> QED BY <1>1, <1>2, <1>3

LEMMA CommandInv == Inv /\ Command => Inv'
  <1> SUFFICES ASSUME Inv, Command PROVE Inv'
    OBVIOUS
  <1> USE DEF Inv, Command
  <1>1. TypeOK'
    <2>1. DiskTypes'
      <3>1. op \in Ops /\ op.lba \in Lbas
        BY DEF CallInv, Ops
      <3> QED BY <3>1 DEF TypeOK, DiskTypes, Takes, Ignores, Modes
    <2>2. DriverTypes'
      BY DEF TypeOK, DriverTypes
    <2> QED BY <2>1, <2>2, NotWaiting, PolledReset DEF TypeOK
  <1>2. DiskInv' /\ CallInv' /\ IdentifyInv'
    BY DEF DiskInv, CallInv, IdentifyInv, Takes, Ignores
  <1>3. (trusted => InStep)'
    BY DEF InStep, Under, Takes, Ignores
  <1> QED BY <1>1, <1>2, <1>3

LEMMA WaitDrqInv == Inv /\ WaitDrq => Inv'
  <1> SUFFICES ASSUME Inv, WaitDrq PROVE Inv'
    OBVIOUS
  <1> USE AtaAssumption DEF Inv, WaitDrq, disk, AtaAssumption
  <1>1. TypeOK'
    <2>1. DiskTypes' /\ Limit = DrqPolls /\ trusted' \in BOOLEAN
      BY DiskStill DEF TypeOK, Limit, DriverTypes, disk
    <2>2. CASE ReturnFalse
      BY <2>1, <2>2, ReturnFalseType DEF TypeOK
    <2>3. CASE Poll(DrqPolls)
      BY <2>1, <2>3, PollType DEF TypeOK
    <2>4. CASE pc' \in {"transfer", "id"} /\ polls' = 0 /\ UNCHANGED <<present, op, answer>>
      BY <2>1, <2>4, PolledReset DEF TypeOK, DriverTypes
    <2> QED BY <2>2, <2>3, <2>4
  <1>2. DiskInv' /\ CallInv' /\ IdentifyInv'
    BY DEF DiskInv, CallInv, IdentifyInv, Return, ReturnFalse, Poll, DataReady, DataRequest
  <1>3. (trusted => InStep)'
    <2>1. CASE pc = "identify"
      BY <2>1 DEF InStep, IdentifyInv, Return, ReturnFalse, Poll, DataReady, DiskInv
    <2>2. CASE pc = "drq"
      BY <2>2 DEF InStep, Under, CallInv, Ops, Return, ReturnFalse, Poll, DataReady, DataRequest, DiskInv
    <2> QED BY <2>1, <2>2
  <1> QED BY <1>1, <1>2, <1>3

LEMMA TransferInInv == Inv /\ TransferIn => Inv'
  <1> SUFFICES ASSUME Inv, TransferIn PROVE Inv'
    OBVIOUS
  <1> USE DEF Inv, TransferIn
  <1>1. TypeOK'
    <2>1. DiskTypes'
      BY DEF TypeOK, DiskTypes, Modes
    <2>2. PICK d \in Data : Return(TRUE, d)
      BY DEF TypeOK, DiskTypes, DiskInv
    <2> QED BY <2>1, <2>2, ReturnType DEF TypeOK, DriverTypes
  <1>2. DiskInv' /\ CallInv' /\ IdentifyInv'
    BY DEF DiskInv, CallInv, IdentifyInv, Return
  <1>3. (trusted => InStep)'
    BY DEF InStep, Return
  <1> QED BY <1>1, <1>2, <1>3

LEMMA TransferOutInv == Inv /\ TransferOut => Inv'
  <1> SUFFICES ASSUME Inv, TransferOut PROVE Inv'
    OBVIOUS
  <1> USE DEF Inv, TransferOut
  <1>1. TypeOK'
    <2>1. op.data \in Data
      BY DEF CallInv, Ops
    <2>2. DiskTypes'
      BY <2>1 DEF TypeOK, DiskTypes, Modes
    <2>3. DriverTypes'
      BY DEF TypeOK, DriverTypes
    <2> QED BY <2>2, <2>3, NotWaiting, PolledReset DEF TypeOK
  <1>2. DiskInv' /\ CallInv' /\ IdentifyInv'
    BY DEF DiskInv, CallInv, IdentifyInv
  <1>3. (trusted => InStep)'
    BY DEF InStep
  <1> QED BY <1>1, <1>2, <1>3

LEMMA FlushInv == Inv /\ Flush => Inv'
  <1> SUFFICES ASSUME Inv, Flush PROVE Inv'
    OBVIOUS
  <1> USE DEF Inv, Flush, Takes, Ignores
  <1>1. TypeOK'
    <2>1. DiskTypes'
      BY DEF TypeOK, DiskTypes, Modes
    <2>2. DriverTypes'
      BY DEF TypeOK, DriverTypes
    <2> QED BY <2>1, <2>2, NotWaiting, PolledReset DEF TypeOK
  <1>2. DiskInv' /\ CallInv' /\ IdentifyInv'
    BY DEF DiskInv, CallInv, IdentifyInv
  <1>3. (trusted => InStep)'
    BY DEF InStep
  <1> QED BY <1>1, <1>2, <1>3

LEMMA WaitFlushInv == Inv /\ WaitFlush => Inv'
  <1> SUFFICES ASSUME Inv, WaitFlush PROVE Inv'
    OBVIOUS
  <1> USE AtaAssumption DEF Inv, WaitFlush, disk, AtaAssumption
  <1>1. TypeOK'
    <2>1. DiskTypes' /\ Limit = ReadyPolls /\ trusted' \in BOOLEAN
      BY DiskStill DEF TypeOK, Limit, DriverTypes, disk
    <2>2. CASE Return(TRUE, answer.data)
      BY <2>1, <2>2, ReturnType DEF TypeOK, DriverTypes
    <2>3. CASE Poll(ReadyPolls)
      BY <2>1, <2>3, PollType DEF TypeOK
    <2> QED BY <2>2, <2>3
  <1>2. DiskInv' /\ CallInv' /\ IdentifyInv'
    BY DEF DiskInv, CallInv, IdentifyInv, Return, Poll
  <1>3. (trusted => InStep)'
    BY DEF InStep, Return, Poll
  <1> QED BY <1>1, <1>2, <1>3

LEMMA StutterInv == Inv /\ UNCHANGED vars => Inv'
  <1> SUFFICES ASSUME Inv, UNCHANGED vars PROVE Inv'
    OBVIOUS
  <1> USE DEF Inv, vars, disk, driver
  <1>1. TypeOK'
    BY DiskStill, DriverStill, PolledStill DEF TypeOK, DriverTypes
  <1>2. DiskInv' /\ CallInv' /\ IdentifyInv' /\ (trusted => InStep)'
    BY DEF DiskInv, CallInv, IdentifyInv, InStep, Under
  <1> QED BY <1>1, <1>2

LEMMA NextInv == Inv /\ [Next]_vars => Inv'
  <1> SUFFICES ASSUME Inv, [Next]_vars PROVE Inv'
    OBVIOUS
  <1>1. CASE Seeks \/ Stores \/ Reset \/ Call \/ CallAbsent
    BY <1>1, SeeksInv, StoresInv, ResetInv, CallsInv
  <1>2. CASE Driver
    BY <1>2, WaitReadyInv, CommandInv, WaitDrqInv, IdentifiedInv, TransferInInv, TransferOutInv,
       FlushInv, WaitFlushInv DEF Driver
  <1>3. CASE UNCHANGED vars
    BY <1>3, StutterInv
  <1> QED BY <1>1, <1>2, <1>3 DEF Next

LEMMA SpecInv == Spec => []Inv
  BY InitInv, NextInv, PTL DEF Spec

-----------------------------------------------------------------------------
\* Every reachable state of driver and disk is typed, and no wait polls more often than its
\* limit (ata.h 34-53).
THEOREM AtaTypeOK == Spec => []TypeOK
  <1>1. Inv => TypeOK
    BY DEF Inv
  <1> QED BY <1>1, SpecInv, PTL

-----------------------------------------------------------------------------
\* While the disk shows an error and no command is out, every call returns false and nothing
\* reaches the disk until it is reset (ata.h 34-42).
THEOREM AtaRefusesAfterError == Spec => RefusesAfterError
  <1> DEFINE Refuses == err /\ Quiet /\ pc' # "identify" =>
               /\ UNCHANGED <<mode, err, medium>> /\ Quiet'
               /\ answer' # answer \/ (pc = "ready" /\ pc' = "idle") => ~answer'.ok
  <1>1. Inv /\ [Next]_vars => [Refuses]_vars
    <2> SUFFICES ASSUME Inv, Next, err, Quiet, pc' # "identify" PROVE Refuses
      BY DEF vars, disk, driver
    <2>1. mode = "idle" /\ pc \in {"idle", "ready"}
      BY DEF Inv, Quiet, DiskInv
    <2>2. CASE Seeks \/ Stores
      BY <2>1, <2>2 DEF Seeks, Stores
    <2>3. CASE Reset
      BY <2>3 DEF Reset
    <2>4. CASE Call \/ CallAbsent
      <3>1. UNCHANGED <<mode, err, medium>> /\ pc = "idle" /\ pc' \in {"idle", "ready"}
        BY <2>4 DEF Call, CallAbsent, ReturnFalse, Return, disk
      <3>2. answer' = answer \/ ~answer'.ok
        BY <2>4 DEF Call, CallAbsent, ReturnFalse, Return
      <3> QED BY <3>1, <3>2 DEF Quiet
    <2>5. CASE Driver
      <3>1. WaitReady
        BY <2>1, <2>5 DEF Driver, Command, WaitDrq, Identified, TransferIn, TransferOut, Flush, WaitFlush
      <3> QED BY <2>1, <3>1 DEF WaitReady, ReturnFalse, Return, disk, Quiet
    <2> QED BY <2>2, <2>3, <2>4, <2>5 DEF Next
  <1> QED BY <1>1, SpecInv, PTL DEF Spec, RefusesAfterError

-----------------------------------------------------------------------------
(***************************************************************************)
(* The refinement.  A sector on its way to the medium counts as written.   *)
(***************************************************************************)
Content == IF mode = "storing" THEN [medium EXCEPT ![at] = latch] ELSE medium
Written == pc \in {"flush", "flush_wait"}
Drive == <<Content, trusted, op, Written, answer>>

LEMMA DriveInit == Init => D!DInit
  <1> SUFFICES ASSUME Init PROVE D!DInit
    OBVIOUS
  <1>1. (mode = "storing") = FALSE /\ (pc \in {"flush", "flush_wait"}) = FALSE
    BY DEF Init
  <1>2. answer \in D!Answers /\ op = D!NoRequest
    BY DEF Init, D!Answers, D!NoRequest, NoOp
  <1> QED BY <1>1, <1>2 DEF Init, D!DInit

\* When the disk cannot be trusted, and is not at the end of its identification, any step is allowed.
LEMMA Betrayed == trusted' = FALSE => D!DNext
  BY DEF D!DNext, D!Betray

LEMMA DiskSteps ==
  ASSUME Inv, Seeks \/ Stores \/ Reset
  PROVE  D!DNext \/ UNCHANGED Drive
  <1>1. CASE Seeks
    BY <1>1 DEF Seeks, Errs, driver, Drive, Content, Written
  <1>2. CASE Stores
    <2>1. CASE trusted' = FALSE
      BY <2>1, Betrayed
    <2>2. CASE trusted' # FALSE
      <3>1. mode' = "idle" /\ medium' = [medium EXCEPT ![at] = latch] /\ UNCHANGED trusted
        BY <1>2, <2>2 DEF Stores
      <3> QED BY <1>2, <3>1 DEF Stores, driver, Drive, Content, Written
    <2> QED BY <2>1, <2>2
  <1>3. CASE Reset
    BY <1>3 DEF Reset, Drive, Content, Written
  <1> QED BY <1>1, <1>2, <1>3

LEMMA EndOfInit ==
  ASSUME Inv, Identified
  PROVE  D!DNext \/ UNCHANGED Drive
  <1>1. mode = "id" /\ op = NoOp /\ trusted' /\ UNCHANGED <<op, answer, Content>>
    BY DEF Identified, Inv, CallInv, Content
  <1>2. ~Written /\ ~Written'
    BY DEF Identified, Written
  <1>3. CASE trusted
    <2>1. trusted' = trusted
      BY <1>3 DEF Inv, TypeOK, DiskTypes, DriverTypes, Identified
    <2>2. Written' = Written
      BY DEF Identified, Written
    <2> QED BY <1>1, <2>1, <2>2 DEF Drive
  <1>4. CASE ~trusted
    <2>1. D!Restore
      BY <1>1, <1>2, <1>4 DEF D!Restore, D!NoRequest, NoOp, Written, Identified
    <2> QED BY <2>1 DEF D!DNext
  <1> QED BY <1>3, <1>4

\* A call that returns false, while it has written nothing.
LEMMA Fails ==
  ASSUME Inv, trusted, trusted', ReturnFalse, UNCHANGED disk, ~Written
  PROVE  D!DNext
  <1>1. UNCHANGED Content /\ ~Written'
    BY DEF disk, Content, Written, ReturnFalse, Return
  <1>2. D!Fail
    BY <1>1 DEF D!Fail, D!Answers, D!NoRequest, NoOp, Content, Written, ReturnFalse, Return, Inv, TypeOK, DiskTypes, DriverTypes
  <1> QED BY <1>2 DEF D!DNext

LEMMA CallSteps ==
  ASSUME Inv, Call \/ CallAbsent
  PROVE  D!DNext \/ UNCHANGED Drive
  <1>1. CASE trusted' = FALSE
    BY <1>1, Betrayed
  <1>2. CASE trusted' # FALSE
    <2>1. trusted /\ trusted' /\ pc = "idle" /\ op = NoOp
      BY <1>2 DEF Call, CallAbsent, Inv, TypeOK, DiskTypes, DriverTypes, CallInv
    <2>2. CASE Call
      <3>1. UNCHANGED Content /\ Written = FALSE /\ Written' = FALSE
        BY <2>1, <2>2 DEF Call, disk, Content, Written
      <3>2. D!Ask
        BY <2>1, <2>2, <3>1 DEF Call, D!Ask, D!NoRequest, NoOp, Ops, Content, Written
      <3> QED BY <2>1, <3>2 DEF D!DNext
    <2>3. CASE CallAbsent
      BY <2>1, <2>3, Fails DEF CallAbsent, Written
    <2> QED BY <2>2, <2>3
  <1> QED BY <1>1, <1>2

LEMMA WaitSteps ==
  ASSUME Inv, WaitReady \/ WaitDrq
  PROVE  D!DNext \/ UNCHANGED Drive
  <1>1. CASE trusted' = FALSE
    BY <1>1, Betrayed
  <1>2. CASE trusted' # FALSE
    <2>1. trusted /\ trusted' /\ Written = FALSE /\ UNCHANGED disk /\ trusted' = trusted
      <3>1. trusted \in BOOLEAN /\ UNCHANGED <<disk, trusted>> /\ pc \in {"ready", "drq", "identify"}
        BY <1>2 DEF WaitReady, WaitDrq, Inv, TypeOK, DriverTypes
      <3>2. trusted /\ trusted'
        BY <1>2, <3>1
      <3> QED BY <3>1, <3>2 DEF Written
    <2>2. CASE ReturnFalse
      BY <2>1, <2>2, Fails
    <2>3. CASE ~ReturnFalse
      <3>1. pc' \notin {"flush", "flush_wait"} /\ UNCHANGED <<op, answer>>
        BY <2>3, <1>2 DEF WaitReady, WaitDrq, Poll
      <3> QED BY <2>1, <3>1 DEF Drive, Content, Written, disk
    <2> QED BY <2>2, <2>3
  <1> QED BY <1>1, <1>2

LEMMA CommandSteps ==
  ASSUME Inv, Command \/ Flush
  PROVE  D!DNext \/ UNCHANGED Drive
  <1>1. CASE trusted' = FALSE
    BY <1>1, Betrayed
  <1>2. CASE trusted' # FALSE
    <2>1. trusted /\ InStep /\ trusted' = trusted
      BY <1>2 DEF Command, Flush, Inv, TypeOK, DiskTypes, DriverTypes
    <2>2. UNCHANGED Content
      BY <2>1 DEF Command, Flush, InStep, Takes, Ignores, Content
    <2>3. Written' = Written
      BY DEF Command, Flush, Written
    <2> QED BY <2>1, <2>2, <2>3 DEF Command, Flush, Drive
  <1> QED BY <1>1, <1>2

LEMMA TransferSteps ==
  ASSUME Inv, TransferIn \/ TransferOut
  PROVE  D!DNext \/ UNCHANGED Drive
  <1>1. CASE trusted' = FALSE
    BY <1>1, Betrayed
  <1>2. CASE trusted' # FALSE
    <2>1. /\ trusted /\ trusted' /\ trusted' = trusted /\ pc = "transfer" /\ op \in Ops
          /\ at = op.lba /\ mode = IF op.kind = "read" THEN "data_in" ELSE "data_out"
      BY <1>2 DEF TransferIn, TransferOut, Inv, TypeOK, DiskTypes, DriverTypes, InStep, CallInv
    <2>2. at \in Sectors /\ Content = medium /\ Written = FALSE
      BY <2>1 DEF Inv, DiskInv, Content, Written
    <2>3. CASE TransferIn
      <3>1. mode' = "idle" /\ Return(TRUE, medium[at]) /\ medium[at] \in Data
        BY <2>1, <2>2, <2>3 DEF TransferIn, Inv, TypeOK, DiskTypes, DriverTypes
      <3>2. Content' = Content /\ Written' = FALSE
        BY <2>2, <2>3, <3>1 DEF TransferIn, Return, Content, Written
      <3>3. D!Succeed
        BY <2>1, <2>2, <2>3, <3>1, <3>2
           DEF D!Succeed, D!Answers, D!NoRequest, NoOp, Return, TransferIn, Content, Written
      <3> QED BY <2>1, <3>3 DEF D!DNext
    <2>4. CASE TransferOut
      <3>1. mode' = "storing" /\ latch' = op.data /\ op.kind = "write" /\ Written' = TRUE
        BY <2>1, <2>4 DEF TransferOut, Written
      <3>2. Content' = [Content EXCEPT ![op.lba] = op.data]
        BY <2>1, <2>2, <2>4, <3>1 DEF TransferOut, Content
      <3>3. D!Change
        BY <2>1, <2>2, <2>4, <3>1, <3>2 DEF D!Change, TransferOut, Content, Written
      <3> QED BY <2>1, <3>3 DEF D!DNext
    <2> QED BY <2>3, <2>4
  <1> QED BY <1>1, <1>2

LEMMA WaitFlushSteps ==
  ASSUME Inv, WaitFlush
  PROVE  D!DNext \/ UNCHANGED Drive
  <1>1. CASE trusted' = FALSE
    BY <1>1, Betrayed
  <1>2. CASE trusted' # FALSE
    <2>1. /\ trusted /\ trusted' /\ trusted' = trusted /\ op.kind = "write"
          /\ Written = TRUE /\ UNCHANGED Content
      BY <1>2 DEF WaitFlush, Inv, TypeOK, DiskTypes, DriverTypes, CallInv, Written, Content, disk
    <2>2. CASE pc' = "idle"
      <3>1. Return(TRUE, answer.data) /\ answer.data \in Data
        BY <2>2 DEF WaitFlush, Poll, Inv, TypeOK, DiskTypes, DriverTypes
      <3>2. Written' = FALSE
        BY <2>2 DEF Written
      <3>3. D!Succeed
        BY <2>1, <3>1, <3>2 DEF D!Succeed, D!Answers, D!NoRequest, NoOp, Return, Content, Written
      <3> QED BY <2>1, <3>3 DEF D!DNext
    <2>3. CASE pc' # "idle"
      <3>1. Poll(ReadyPolls)
        BY <2>3 DEF WaitFlush, Return
      <3>2. Written' = Written
        BY <3>1 DEF Poll, Written
      <3> QED BY <2>1, <3>1, <3>2 DEF Poll, Drive
    <2> QED BY <2>2, <2>3
  <1> QED BY <1>1, <1>2

\* Driver and disk implement Drive: as long as no wait for data ends by its count and the disk
\* keeps what it takes, a call that returns true has read or written the sector it was
\* given, and one that returns false has written nothing (vdrive.h, ata.h 117-174).
THEOREM AtaImplementsDrive == Spec => ImplementsDrive
  <1>1. Inv /\ [Next]_vars => [D!DNext]_Drive
    <2> SUFFICES ASSUME Inv, [Next]_vars PROVE D!DNext \/ UNCHANGED Drive
      OBVIOUS
    <2>1. CASE Seeks \/ Stores \/ Reset
      BY <2>1, DiskSteps
    <2>2. CASE Call \/ CallAbsent
      BY <2>2, CallSteps
    <2>3. CASE Driver
      BY <2>3, WaitSteps, CommandSteps, EndOfInit, TransferSteps, WaitFlushSteps DEF Driver
    <2>4. CASE UNCHANGED vars
      BY <2>4 DEF vars, disk, driver, Drive, Content, Written
    <2> QED BY <2>1, <2>2, <2>3, <2>4 DEF Next
  <1>2. [D!DNext]_Drive => [D!DNext]_<<Content, trusted, op, Written, answer>>
    BY DEF Drive
  <1> QED BY <1>1, <1>2, DriveInit, SpecInv, PTL
          DEF Spec, ImplementsDrive, D!Spec, Content, Written

-----------------------------------------------------------------------------
(***************************************************************************)
(* Volume.                                                                 *)
(***************************************************************************)

\* The size FAT32::format computes gives every cluster of the disk it assumes an entry.
FatfsFits ==
  /\ fatfs_fat_size \in Nat \ {0}
  /\ (FatfsTotal - data_start(FatfsBoot)) \div FatfsSpc + 2 <= fatfs_fat_size * EntriesPerSector

\* The kernel's numbers do, whatever the disks.
THEOREM KernelFits ==
  ASSUME EntriesPerSector = 128, FatfsTotal = 1048576, FatfsReserved = 32, FatfsSpc = 8
  PROVE  FatfsFits
<1>1. fatfs_fat_size = 1022
  BY DEF fatfs_fat_size, FatFor, CeilDiv
<1>2. data_start(FatfsBoot) = 2076
  BY <1>1 DEF data_start, FatfsBoot, Boot
<1>3. QED
  BY <1>1, <1>2 DEF FatfsFits

Typed ==
  /\ sector = [v \in Volumes |-> [a \in AddressesOf(v) |-> sector[v][a]]]
  /\ mounted = [v \in Volumes |-> mounted[v]]
  /\ routine \in {"ram", "fatfs"} /\ target \in Volumes
  /\ step \in 0 .. Len(Writes) + 1
  /\ routine = "ram" => target = Ram

\* What the writes of an unrefused format have left on the disk so far: each address holds
\* what was written to it last.
SoFar ==
  step # Done /\ target \notin refused =>
    \A k \in 1 .. step - 1 :
      /\ Writes[k][1] \subseteq AddressesOf(target)
      /\ \A a \in Writes[k][1] :
           (\A j \in k + 1 .. step - 1 : a \notin Writes[j][1]) => sector[target][a] = Writes[k][2]

WInv ==
  /\ Typed /\ SoFar /\ FormattedUsable
  /\ step # Done => target \notin fresh

LEMMA WritesAre ==
  /\ Len(RamWrites) = 7 /\ Len(FatfsWrites) = 8
  /\ RamWrites[1] = <<AddressesOf(Ram), Holds("zero")>>
  /\ RamWrites[2] = <<{0}, RamBoot>>
  /\ RamWrites[3] = <<{fat_start(RamBoot)}, Holds("zero")>>
  /\ RamWrites[4] = <<{fat2_start(RamBoot)}, Holds("zero")>>
  /\ RamWrites[5] = <<{fat_start(RamBoot)}, Holds("marks")>>
  /\ RamWrites[6] = <<{fat2_start(RamBoot)}, Holds("marks")>>
  /\ RamWrites[7] = <<{data_start(RamBoot)}, Holds("zero")>>
  /\ FatfsWrites[1] = <<{0}, FatfsBoot>>
  /\ FatfsWrites[2] = <<{Backup}, FatfsBoot>>
  /\ FatfsWrites[3] = <<{1}, Holds("info")>>
  /\ FatfsWrites[4] = <<Run(fat_start(FatfsBoot), FatfsBoot.fat_size), Holds("zero")>>
  /\ FatfsWrites[5] = <<Run(fat2_start(FatfsBoot), FatfsBoot.fat_size), Holds("zero")>>
  /\ FatfsWrites[6] = <<{fat_start(FatfsBoot)}, Holds("marks")>>
  /\ FatfsWrites[7] = <<{fat2_start(FatfsBoot)}, Holds("marks")>>
  /\ FatfsWrites[8] = <<Run(data_start(FatfsBoot), FatfsSpc), Holds("zero")>>
  BY DEF RamWrites, FatfsWrites, Fats

LEMMA WInit == FormatInit => WInv
<1> SUFFICES ASSUME FormatInit PROVE WInv
  OBVIOUS
<1>1. Typed
  BY VolumeAssumption, WritesAre DEF FormatInit, Typed, Volumes, Done, Writes
<1>2. QED
  BY <1>1 DEF FormatInit, WInv, SoFar, FormattedUsable

\* A write adds itself to what was written before.
LEMMA WriteStep == ASSUME WInv, Write PROVE WInv'
<1> DEFINE w     == Writes[step]
           there == w[1] \cap AddressesOf(target)
<1>1. Typed /\ step \in 1 .. Len(Writes) /\ Len(Writes) \in {7, 8} /\ target \in Volumes
  <2>1. Len(Writes) \in {7, 8} /\ DOMAIN Writes = 1 .. Len(Writes)
    <3>1. DOMAIN RamWrites = 1 .. 7 /\ DOMAIN FatfsWrites = 1 .. 8
      BY DEF RamWrites, FatfsWrites
    <3>2. QED
      BY <3>1, WritesAre DEF Writes
  <2>2. QED
    BY <2>1 DEF WInv, Write, Typed
<1>2. /\ UNCHANGED <<mounted, routine, target, fresh>> /\ step' = step + 1
      /\ target \notin fresh /\ Writes' = Writes
  BY <1>1 DEF Write, WInv, Writes, Done
<1>3. PICK fails :
        /\ sector' = [sector EXCEPT ![target] =
                        [a \in AddressesOf(target) |-> IF a \in there \ fails THEN w[2] ELSE @[a]]]
        /\ refused' = IF w[1] \subseteq there \ fails THEN refused ELSE refused \cup {target}
  BY DEF Write
<1>4. /\ sector'[target]
           = [a \in AddressesOf(target) |-> IF a \in there \ fails THEN w[2] ELSE sector[target][a]]
      /\ \A v \in Volumes \ {target} : sector'[v] = sector[v]
      /\ sector' = [v \in Volumes |-> sector'[v]]
  BY <1>1, <1>3 DEF Typed
<1> HIDE DEF w, there
<1>5. Typed'
  <2>1. \A v \in Volumes : sector'[v] = [a \in AddressesOf(v) |-> sector'[v][a]]
    BY <1>1, <1>4 DEF Typed
  <2>2. sector' = [v \in Volumes |-> [a \in AddressesOf(v) |-> sector'[v][a]]]
    BY <1>4, <2>1
  <2>3. QED
    BY <1>1, <1>2, <2>2 DEF Typed
<1>6. SoFar'
  <2>1. SUFFICES ASSUME target \notin refused',
                        NEW k \in 1 .. step
                 PROVE  /\ Writes[k][1] \subseteq AddressesOf(target)
                        /\ \A a \in Writes[k][1] :
                             (\A j \in k + 1 .. step : a \notin Writes[j][1])
                                => sector'[target][a] = Writes[k][2]
    BY <1>1, <1>2 DEF SoFar
  <2>2. w[1] \subseteq there \ fails /\ target \notin refused
    BY <1>3, <2>1
  <2>3. w[1] \subseteq AddressesOf(target)
    BY <2>2 DEF there
  <2>4. \A a \in AddressesOf(target) :
          sector'[target][a] = IF a \in w[1] THEN w[2] ELSE sector[target][a]
    BY <1>4, <2>2 DEF there
  <2>5. CASE k = step
    BY <2>3, <2>4, <2>5 DEF w
  <2>6. CASE k \in 1 .. step - 1
    <3>1. /\ Writes[k][1] \subseteq AddressesOf(target)
          /\ \A a \in Writes[k][1] :
               (\A j \in k + 1 .. step - 1 : a \notin Writes[j][1])
                  => sector[target][a] = Writes[k][2]
      BY <1>1, <2>2, <2>6 DEF WInv, SoFar, Done
    <3>2. SUFFICES ASSUME NEW a \in Writes[k][1], \A j \in k + 1 .. step : a \notin Writes[j][1]
                   PROVE  sector'[target][a] = Writes[k][2]
      BY <3>1
    <3>3. step \in k + 1 .. step /\ \A j \in k + 1 .. step - 1 : j \in k + 1 .. step
      BY <1>1, <2>6
    <3>4. a \notin w[1]
      BY <3>2, <3>3 DEF w
    <3>5. QED
      BY <2>4, <3>1, <3>2, <3>3, <3>4
  <2>7. QED
    BY <1>1, <2>5, <2>6
<1>7. FormattedUsable'
  <2>1. SUFFICES ASSUME NEW v \in (fresh \ refused)' PROVE Usable(v, mounted[v])'
    BY DEF FormattedUsable
  <2>2. v \in fresh \ refused /\ v # target
    BY <1>2, <1>3, <2>1
  <2>3. sector'[v] = sector[v]
    BY <1>4, <2>2, <1>1, <1>3
  <2>4. Usable(v, mounted[v])
    BY <2>2 DEF WInv, FormattedUsable
  <2>5. QED
    BY <1>2, <2>3, <2>4 DEF Usable
<1>8. QED
  BY <1>2, <1>5, <1>6, <1>7 DEF WInv

\* The layout the RAM disk's routine leaves.
LEMMA RamUsable ==
  ASSUME Typed, SoFar, routine = "ram", step = Len(Writes) + 1, target \notin refused
  PROVE  Usable(target, sector[target][0])
<1> DEFINE F == ram_fat_size
           Disk == DriveSectors[Ram]
           s == sector[Ram]
<1>1. target = Ram /\ Writes = RamWrites /\ step = 8
  <2>1. target = Ram /\ Writes = RamWrites
    BY DEF Typed, Writes
  <2>2. QED
    BY <2>1, WritesAre
<1>2. /\ \A k \in 1 .. 7 : RamWrites[k][1] \subseteq AddressesOf(Ram)
      /\ \A k \in 1 .. 7 : \A a \in RamWrites[k][1] :
           (\A j \in k + 1 .. 7 : a \notin RamWrites[j][1]) => s[a] = RamWrites[k][2]
  <2>1. step - 1 = 7 /\ step # Done
    <3>1. Len(Writes) = 7
      BY <1>1, WritesAre
    <3>2. QED
      BY <3>1 DEF Done
  <2>2. QED
    BY <1>1, <2>1 DEF SoFar
<1>3. Disk \in Nat \ {0} /\ RamReserved \in Nat \ {0} /\ EntriesPerSector \in Nat \ {0}
  BY VolumeAssumption DEF Volumes
<1>4. F \in Int
  BY <1>3 DEF ram_fat_size, CeilDiv
<1>5. /\ fat_start(RamBoot) = RamReserved /\ fat2_start(RamBoot) = RamReserved + F
      /\ data_start(RamBoot) = RamReserved + 2 * F
      /\ RamBoot.kind = "boot" /\ RamBoot.spc = 1 /\ RamBoot.total = Disk /\ RamBoot.fat_size = F
      /\ cluster_to_lba(RamBoot, 2) = RamReserved + 2 * F
  <2>1. /\ RamBoot.reserved = RamReserved /\ RamBoot.fat_size = F
        /\ RamBoot.kind = "boot" /\ RamBoot.spc = 1 /\ RamBoot.total = Disk
    BY DEF RamBoot, Boot
  <2> HIDE DEF F
  <2>2. QED
    BY <1>3, <1>4, <2>1 DEF fat_start, fat2_start, data_start, cluster_to_lba
<1> HIDE DEF F, Disk, s
<1>6. RamReserved \in 0 .. Disk - 1 /\ RamReserved + 2 * F \in 0 .. Disk - 1
  <2>1. RamWrites[3][1] \subseteq 0 .. Disk - 1 /\ RamWrites[7][1] \subseteq 0 .. Disk - 1
    BY <1>2 DEF AddressesOf, Disk
  <2>2. QED
    BY <1>5, <2>1, WritesAre
<1>7. F >= 1 /\ F * EntriesPerSector >= Disk - RamReserved
  <2> DEFINE n == Disk - RamReserved
             d == EntriesPerSector
  <2>1. n \in Nat \ {0} /\ d \in Nat \ {0} /\ F = (n + d - 1) \div d
    BY <1>3, <1>6 DEF F, Disk, ram_fat_size, CeilDiv
  <2> HIDE DEF n, d
  <2>2. F >= 1 /\ F * d >= n
    BY <2>1
  <2>3. QED
    BY <2>2 DEF n, d
<1>8. s[0] = RamBoot
  <2>1. 0 \in RamWrites[2][1] /\ \A j \in 3 .. 7 : 0 \notin RamWrites[j][1]
    BY <1>3, <1>5, <1>4, <1>7, WritesAre
  <2>2. QED
    BY <1>2, <2>1, WritesAre
<1>9. s[RamReserved + 2 * F] = Holds("zero")
  BY <1>2, <1>5, WritesAre
<1>10. s[RamReserved] = Holds("marks") /\ s[RamReserved + F] = Holds("marks")
  <2>1. RamReserved \notin RamWrites[6][1] /\ RamReserved \notin RamWrites[7][1]
        /\ RamReserved + F \notin RamWrites[7][1]
    BY <1>3, <1>5, <1>4, <1>7, WritesAre
  <2>2. QED
    BY <1>2, <1>5, <2>1, WritesAre
<1>11. ASSUME NEW i \in 1 .. F - 1
       PROVE  s[RamReserved + i] = Holds("zero") /\ s[RamReserved + F + i] = Holds("zero")
  <2>1. ASSUME NEW a \in {RamReserved + i, RamReserved + F + i} PROVE s[a] = Holds("zero")
    <3>1. a \in RamWrites[1][1]
      BY <1>3, <1>4, <1>6, <1>7, <1>11, WritesAre DEF AddressesOf, Disk
    <3>2. a \notin {0, RamReserved, RamReserved + F, RamReserved + 2 * F}
      BY <1>3, <1>4, <1>7, <1>11
    <3>3. \A j \in 2 .. 7 : a \notin RamWrites[j][1]
      BY <1>5, <3>2, WritesAre
    <3>4. QED
      BY <1>2, <3>1, <3>3, WritesAre
  <2>2. QED
    BY <2>1
<1>12. QED
  <2>1. Run(cluster_to_lba(RamBoot, 2), RamBoot.spc) = {RamReserved + 2 * F}
    BY <1>3, <1>5, <1>4 DEF Run
  <2>2. Smaller(RamBoot.total, DriveSectors[Ram]) = Disk
    BY <1>5 DEF Smaller, Disk
  <2>3. (Disk - (RamReserved + 2 * F)) \div 1 + 2 <= F * EntriesPerSector
    BY <1>3, <1>4, <1>7
  <2>4. \A i \in 0 .. F - 1 :
          /\ s[RamReserved + i] = Holds(IF i = 0 THEN "marks" ELSE "zero")
          /\ s[RamReserved + F + i] = s[RamReserved + i]
    <3>1. SUFFICES ASSUME NEW i \in 0 .. F - 1
                   PROVE  /\ s[RamReserved + i] = Holds(IF i = 0 THEN "marks" ELSE "zero")
                          /\ s[RamReserved + F + i] = s[RamReserved + i]
      OBVIOUS
    <3>2. CASE i = 0
      <4>1. RamReserved + 0 = RamReserved /\ RamReserved + F + 0 = RamReserved + F
        BY <1>3, <1>4
      <4>2. QED
        BY <1>10, <3>2, <4>1
    <3>3. CASE i # 0
      BY <1>4, <1>11, <3>3
    <3>4. QED
      BY <3>2, <3>3
  <2>5. RamReserved + 2 * F \in AddressesOf(Ram)
    BY <1>6 DEF AddressesOf, Disk
  <2>6. Usable(Ram, RamBoot)
    BY <1>5, <1>9, <2>1, <2>2, <2>3, <2>4, <2>5 DEF Usable, s
  <2>7. QED
    BY <1>1, <1>8, <2>6 DEF s

\* The layout FAT32::format leaves on a disk that took every write.
LEMMA FatfsUsable ==
  ASSUME FatfsFits, Typed, SoFar, routine = "fatfs", step = Len(Writes) + 1,
         target \notin refused
  PROVE  Usable(target, sector[target][0])
<1> DEFINE F == fatfs_fat_size
           R == FatfsReserved
           Disk == DriveSectors[target]
           s == sector[target]
<1>1. Writes = FatfsWrites /\ step = 9
  <2>1. Writes = FatfsWrites
    BY DEF Writes
  <2>2. QED
    BY <2>1, WritesAre
<1>2. /\ \A k \in 1 .. 8 : FatfsWrites[k][1] \subseteq AddressesOf(target)
      /\ \A k \in 1 .. 8 : \A a \in FatfsWrites[k][1] :
           (\A j \in k + 1 .. 8 : a \notin FatfsWrites[j][1]) => s[a] = FatfsWrites[k][2]
  <2>1. step - 1 = 8 /\ step # Done
    <3>1. Len(Writes) = 8
      BY <1>1, WritesAre
    <3>2. QED
      BY <3>1 DEF Done
  <2>2. QED
    BY <1>1, <2>1 DEF SoFar
<1>3. /\ Disk \in Nat \ {0} /\ R \in Nat \ {0} /\ EntriesPerSector \in Nat \ {0}
      /\ Backup \in Nat \ {0} /\ FatfsSpc \in Nat \ {0} /\ FatfsTotal \in Nat \ {0}
  BY VolumeAssumption DEF Volumes, Typed
<1>4. F \in Nat \ {0}
  BY DEF FatfsFits
<1>5. /\ fat_start(FatfsBoot) = R /\ fat2_start(FatfsBoot) = R + F
      /\ data_start(FatfsBoot) = R + 2 * F /\ cluster_to_lba(FatfsBoot, 2) = R + 2 * F
      /\ FatfsBoot.kind = "boot" /\ FatfsBoot.spc = FatfsSpc /\ FatfsBoot.total = FatfsTotal
      /\ FatfsBoot.fat_size = F
  <2>1. /\ FatfsBoot.reserved = R /\ FatfsBoot.fat_size = F /\ FatfsBoot.kind = "boot"
        /\ FatfsBoot.spc = FatfsSpc /\ FatfsBoot.total = FatfsTotal
    BY DEF FatfsBoot, Boot
  <2> HIDE DEF F
  <2>2. QED
    BY <1>3, <1>4, <2>1 DEF fat_start, fat2_start, data_start, cluster_to_lba
<1> HIDE DEF F, R, Disk, s
<1>6. /\ FatfsWrites[4][1] = R .. R + F - 1 /\ FatfsWrites[5][1] = R + F .. R + F + F - 1
      /\ FatfsWrites[8][1] = R + 2 * F .. R + 2 * F + FatfsSpc - 1
  BY <1>5, WritesAre DEF Run
<1>7. s[0] = FatfsBoot
  <2>1. 0 \in FatfsWrites[1][1]
    BY WritesAre
  <2>2. 0 \notin FatfsWrites[2][1] /\ 0 \notin FatfsWrites[3][1]
    BY <1>3, WritesAre
  <2>3. 0 \notin FatfsWrites[4][1] /\ 0 \notin FatfsWrites[5][1] /\ 0 \notin FatfsWrites[8][1]
    BY <1>3, <1>4, <1>6
  <2>4. 0 \notin FatfsWrites[6][1] /\ 0 \notin FatfsWrites[7][1]
    BY <1>3, <1>4, <1>5, WritesAre
  <2>5. \A j \in 2 .. 8 : 0 \notin FatfsWrites[j][1]
    BY <2>2, <2>3, <2>4
  <2>6. QED
    BY <1>2, <2>1, <2>5, WritesAre
<1>8. \A a \in R + 2 * F .. R + 2 * F + FatfsSpc - 1 : a \in AddressesOf(target) /\ s[a] = Holds("zero")
  <2>1. 8 + 1 .. 8 = {} /\ 8 \in 1 .. 8
    OBVIOUS
  <2>2. FatfsWrites[8][2] = Holds("zero")
    BY WritesAre
  <2>3. QED
    BY <1>2, <1>6, <2>1, <2>2
<1>9. s[R] = Holds("marks") /\ s[R + F] = Holds("marks")
  <2>1. R \in FatfsWrites[6][1] /\ R + F \in FatfsWrites[7][1]
    BY <1>5, WritesAre
  <2>2. R \notin FatfsWrites[7][1] /\ R \notin FatfsWrites[8][1] /\ R + F \notin FatfsWrites[8][1]
    BY <1>3, <1>4, <1>5, <1>6, WritesAre
  <2>3. /\ \A j \in 7 .. 8 : R \notin FatfsWrites[j][1]
        /\ \A j \in 8 .. 8 : R + F \notin FatfsWrites[j][1]
    BY <2>2
  <2>4. QED
    BY <1>2, <2>1, <2>3, WritesAre
<1>10. ASSUME NEW i \in 1 .. F - 1
       PROVE  s[R + i] = Holds("zero") /\ s[R + F + i] = Holds("zero")
  <2>1. R + i \in FatfsWrites[4][1] /\ R + F + i \in FatfsWrites[5][1]
    BY <1>3, <1>4, <1>6, <1>10
  <2>2. /\ R + i \notin FatfsWrites[5][1] /\ R + i \notin FatfsWrites[8][1]
        /\ R + F + i \notin FatfsWrites[8][1]
    BY <1>3, <1>4, <1>6, <1>10
  <2>3. /\ R + i \notin {R, R + F} /\ R + F + i \notin {R, R + F}
    BY <1>3, <1>4, <1>10
  <2>4. /\ \A j \in 5 .. 8 : R + i \notin FatfsWrites[j][1]
        /\ \A j \in 6 .. 8 : R + F + i \notin FatfsWrites[j][1]
    BY <1>5, <2>2, <2>3, WritesAre
  <2>5. QED
    BY <1>2, <2>1, <2>4, WritesAre
<1>11. QED
  <2>1. Run(cluster_to_lba(FatfsBoot, 2), FatfsBoot.spc) = R + 2 * F .. R + 2 * F + FatfsSpc - 1
    BY <1>5 DEF Run
  <2>2. \A i \in 0 .. F - 1 :
          /\ s[R + i] = Holds(IF i = 0 THEN "marks" ELSE "zero")
          /\ s[R + F + i] = s[R + i]
    <3>1. SUFFICES ASSUME NEW i \in 0 .. F - 1
                   PROVE  /\ s[R + i] = Holds(IF i = 0 THEN "marks" ELSE "zero")
                          /\ s[R + F + i] = s[R + i]
      OBVIOUS
    <3>2. CASE i = 0
      <4>1. R + 0 = R /\ R + F + 0 = R + F
        BY <1>3, <1>4
      <4>2. QED
        BY <1>9, <3>2, <4>1
    <3>3. CASE i # 0
      BY <1>4, <1>10, <3>3
    <3>4. QED
      BY <3>2, <3>3
  <2>3. (Smaller(FatfsBoot.total, Disk) - (R + 2 * F)) \div FatfsSpc + 2 <= F * EntriesPerSector
    <3> DEFINE a == Smaller(FatfsTotal, Disk) - (R + 2 * F)
               b == FatfsTotal - (R + 2 * F)
    <3>1. a \in Int /\ b \in Int /\ a <= b
      BY <1>3, <1>4 DEF Smaller
    <3>2. b \div FatfsSpc + 2 <= F * EntriesPerSector
      BY <1>5 DEF FatfsFits, F
    <3> HIDE DEF a, b
    <3>3. a \div FatfsSpc <= b \div FatfsSpc
      BY <1>3, <3>1
    <3>4. a \div FatfsSpc \in Int /\ b \div FatfsSpc \in Int /\ F * EntriesPerSector \in Int
      BY <1>3, <1>4, <3>1
    <3>5. QED
      BY <1>5, <3>2, <3>3, <3>4 DEF a
  <2>4. Usable(target, FatfsBoot)
    BY <1>5, <1>8, <2>1, <2>2, <2>3 DEF Usable, s, Disk
  <2>5. QED
    BY <1>7, <2>4 DEF s

LEMMA WStep == ASSUME FatfsFits, WInv, [FormatNext]_format_vars PROVE WInv'
<1>1. Typed
  BY DEF WInv
<1>2. ASSUME NEW v \in Volumes, NEW r, r \in {"ram", "fatfs"}, r = "ram" => v = Ram,
             Start(r, v), UNCHANGED <<sector, mounted>>
      PROVE  WInv'
  <2>1. Typed'
    <3>1. Len(Writes') \in {7, 8}
      BY WritesAre DEF Writes
    <3>2. QED
      BY <1>1, <1>2, <3>1 DEF Typed, Start
  <2>2. SoFar'
    BY <1>2 DEF SoFar, Start
  <2>3. FormattedUsable'
    BY <1>2 DEF WInv, FormattedUsable, Usable, Start
  <2>4. QED
    BY <1>2, <2>1, <2>2, <2>3 DEF WInv, Start
<1>3. CASE Mount
  <2>1. target \notin refused => Usable(target, sector[target][0])
    BY <1>1, <1>3, RamUsable, FatfsUsable DEF WInv, Mount, Typed
  <2>2. mounted' = [mounted EXCEPT ![target] = sector[target][0]] /\ target \in Volumes
    BY <1>1, <1>3 DEF Mount, Typed
  <2>3. mounted'[target] = sector[target][0] /\ \A v \in Volumes \ {target} : mounted'[v] = mounted[v]
    BY <1>1, <2>2 DEF Typed
  <2>4. FormattedUsable'
    <3>1. SUFFICES ASSUME NEW v \in fresh' \ refused' PROVE Usable(v, mounted[v])'
      BY DEF FormattedUsable
    <3>2. Usable(v, mounted'[v])
      BY <1>3, <2>1, <2>3, <3>1 DEF Mount, WInv, FormattedUsable
    <3>3. QED
      BY <1>3, <3>2 DEF Usable, Mount
  <2>5. Typed'
    <3>1. mounted' = [v \in Volumes |-> mounted'[v]]
      BY <1>1, <2>2 DEF Typed
    <3>2. Len(Writes') \in {7, 8} /\ step' = 0
      BY <1>3, WritesAre DEF Writes, Mount, Done
    <3>3. QED
      BY <1>1, <1>3, <3>1, <3>2 DEF Typed, Mount
  <2>6. QED
    BY <1>3, <2>4, <2>5 DEF WInv, SoFar, Mount
<1>4. CASE MountFails
  <2>1. mounted' = [mounted EXCEPT ![target] = NoBoot] /\ step' = Done /\ target \notin fresh
    <3>1. Len(Writes) \in {7, 8} /\ step = Len(Writes) + 1
      BY <1>4, WritesAre DEF Writes, MountFails
    <3>2. QED
      BY <1>4, <3>1 DEF MountFails, WInv, Done
  <2>2. Typed'
    <3>1. mounted' = [v \in Volumes |-> mounted'[v]]
      BY <1>1, <2>1 DEF Typed
    <3>2. Len(Writes') \in {7, 8} /\ step' = 0
      BY <2>1, WritesAre DEF Writes, Done
    <3>3. QED
      BY <1>1, <1>4, <3>1, <3>2 DEF Typed, MountFails
  <2>3. FormattedUsable'
    <3>1. SUFFICES ASSUME NEW v \in fresh' \ refused' PROVE Usable(v, mounted[v])'
      BY DEF FormattedUsable
    <3>2. v # target /\ v \in fresh \ refused
      BY <1>4, <2>1, <3>1 DEF MountFails
    <3>3. Usable(v, mounted[v]) /\ mounted'[v] = mounted[v] /\ sector' = sector
      BY <1>1, <1>4, <2>1, <3>2 DEF WInv, FormattedUsable, MountFails, Typed
    <3>4. QED
      BY <3>3 DEF Usable
  <2>4. QED
    BY <1>4, <2>1, <2>2, <2>3 DEF WInv, SoFar, MountFails
<1>5. ASSUME NEW v \in Volumes, Use(v) PROVE WInv'
  <2>1. Typed'
    <3>1. sector' = [sector EXCEPT ![v] = [a \in AddressesOf(v) |-> sector'[v][a]]]
      BY <1>1, <1>5 DEF Use, Typed
    <3>2. sector' = [u \in Volumes |-> [a \in AddressesOf(u) |-> sector'[u][a]]]
      BY <1>1, <3>1 DEF Typed
    <3>3. QED
      BY <1>1, <1>5, <3>2 DEF Typed, Use, Writes
  <2>2. FormattedUsable'
    <3>1. SUFFICES ASSUME NEW u \in fresh' \ refused' PROVE Usable(u, mounted[u])'
      BY DEF FormattedUsable
    <3>2. u # v /\ u \in fresh \ refused
      BY <1>5, <3>1 DEF Use
    <3>3. Usable(u, mounted[u]) /\ mounted' = mounted /\ sector'[u] = sector[u]
      BY <1>1, <1>5, <3>2 DEF WInv, FormattedUsable, Use, Typed
    <3>4. QED
      BY <3>3 DEF Usable
  <2>3. QED
    BY <1>5, <2>1, <2>2 DEF WInv, SoFar, Use
<1>6. CASE UNCHANGED format_vars
  <2>1. Typed' /\ SoFar'
    BY <1>6 DEF format_vars, WInv, Typed, SoFar, Writes
  <2>2. FormattedUsable'
    BY <1>6 DEF format_vars, WInv, FormattedUsable, Usable
  <2>3. QED
    BY <1>6, <2>1, <2>2 DEF format_vars, WInv
<1>7. QED
  <2>1. BootRam => WInv'
    BY <1>2, VolumeAssumption DEF BootRam, Volumes
  <2>2. ASSUME NEW v \in Volumes, cmd_fatfs(v) PROVE WInv'
    BY <1>2, <2>2 DEF cmd_fatfs
  <2>3. QED
    BY <1>3, <1>4, <1>5, <1>6, <2>1, <2>2, WriteStep DEF FormatNext

\* A format of which no write was refused leaves a volume that can be used (FormattedUsable,
\* ramdrv.h:54-144 and FAT32.h:466-601), on disks of any size.
THEOREM VolumeFormattedUsable == ASSUME FatfsFits PROVE FormatSpec => []FormattedUsable
<1>1. WInv => FormattedUsable
  BY DEF WInv
<1>2. QED
  BY <1>1, WInit, WStep, PTL DEF FormatSpec
=============================================================================
