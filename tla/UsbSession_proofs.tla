-------------------------- MODULE UsbSession_proofs --------------------------
(***************************************************************************)
(* Proofs about UsbSession, for every number of files, size and kind of    *)
(* dump, kind of host and late timeout.                                    *)
(***************************************************************************)
EXTENDS UsbSession, TLAPS

\* io is a record with these fields, whatever they hold.
IoShape == io = [cmd |-> io.cmd, step |-> io.step, urb |-> io.urb,
                 name |-> io.name, size |-> io.size, status |-> io.status]

\* Who transfers what: a transfer goes on exactly while somebody holds the
\* interface mutex; the detection thread only starts and ends sessions, and
\* does so where its program counter says; callers transfer within a session.
TransferOwned ==
    /\ IoShape
    /\ owner = "none" => io = NoIo
    /\ owner = "client" => session
    /\ owner = "detect" => io.cmd \in {"StartSession", "EndSession"}
    /\ io.cmd = "StartSession" => /\ owner = "detect" /\ detPc = "session"
                                  /\ ~session /\ ~speed /\ remaining = 0
    /\ io.cmd = "EndSession" => owner = "detect" /\ detPc = "ending"
    /\ io.cmd \notin {"none", "StartSession", "EndSession"} => owner = "client"
    /\ io.step \in {"data", "last"} => io.cmd = "data"

\* What a thread that ended left behind, and what an interface that was closed
\* did.
ThreadGone ==
    /\ detPc = "none" => /\ owner = "none" /\ ~session /\ ~speed /\ remaining = 0
                         /\ ~exitFlag
    /\ exitFlag => detPc \in {"leaving", "ending"}
    /\ mainPc = "closed" => detPc = "none"

IInv == TransferOwned /\ ThreadGone


LEMMA InitIInv == Init => IInv
  BY DEF Init, IInv, TransferOwned, ThreadGone, IoShape, NoIo

\* What the invariant is about.
Core == <<io, owner, session, speed, remaining, detPc, mainPc, exitFlag>>

LEMMA CoreUnchanged == IInv /\ UNCHANGED Core => IInv'
  BY DEF Core, IInv, TransferOwned, ThreadGone, IoShape, NoIo

\* The command of a caller, not of the detection thread, is being transferred.
Calling == io.cmd \notin {"none", "StartSession", "EndSession"}

\* The transfer in progress moves on, as the host serves it or the bus fails.
IoMoves == /\ io # NoIo /\ io'.cmd = io.cmd /\ IoShape'
           /\ io'.step \in {"data", "last"} => io.cmd = "data"

LEMMA TransferMoves ==
    ASSUME IInv, IoMoves,
           UNCHANGED <<owner, session, speed, detPc, mainPc, exitFlag>>,
           remaining' = remaining \/ Calling
    PROVE  IInv'
  <1>1. owner # "none"
    BY DEF IInv, TransferOwned, IoMoves
  <1>2. Calling => session
    BY DEF IInv, TransferOwned, Calling
  <1>. QED
    BY <1>1, <1>2 DEF IInv, TransferOwned, ThreadGone, IoMoves, Calling

LEMMA DoneMoves == IInv /\ io.urb = "posted" /\ Done => IoMoves
  <1>. SUFFICES ASSUME IInv, io.urb = "posted", Done PROVE IoMoves
    OBVIOUS
  <1>1. io # NoIo
    BY DEF NoIo
  <1>2. io'.cmd = io.cmd /\ io'.step = io.step /\ IoShape'
    BY Zenon DEF IInv, TransferOwned, IoShape, Done
  <1>. QED
    BY <1>1, <1>2 DEF IoMoves, IInv, TransferOwned

LEMMA StatusMoves ==
    ASSUME IInv, io.urb = "posted", NEW status,
           io' = [io EXCEPT !.urb = "done", !.status = status]
    PROVE  IoMoves
  <1>1. io # NoIo
    BY DEF NoIo
  <1>2. io'.cmd = io.cmd /\ io'.step = io.step /\ IoShape'
    BY Zenon DEF IInv, TransferOwned, IoShape
  <1>. QED
    BY <1>1, <1>2 DEF IoMoves, IInv, TransferOwned

LEMMA NextTransferMoves ==
    ASSUME IInv, io.urb = "done", NEW step, NEW urb,
           step \in {"data", "last"} => io.cmd = "data",
           io' = [io EXCEPT !.step = step, !.urb = urb]
    PROVE  IoMoves
  <1>1. io # NoIo
    BY DEF NoIo
  <1>2. io'.cmd = io.cmd /\ io'.step = step /\ IoShape'
    BY Zenon DEF IInv, TransferOwned, IoShape
  <1>. QED
    BY <1>1, <1>2 DEF IoMoves

LEMMA FailUrbMoves == IInv /\ FailUrb => io' = io \/ IoMoves
  <1>. SUFFICES ASSUME IInv, FailUrb, io.urb = "posted" PROVE IoMoves
    BY DEF FailUrb
  <1>1. io # NoIo
    BY DEF NoIo
  <1>2. io' = [io EXCEPT !.urb = "failed"]
    BY DEF FailUrb
  <1>3. io'.cmd = io.cmd /\ io'.step = io.step /\ IoShape'
    BY <1>2, Zenon DEF IInv, TransferOwned, IoShape
  <1>. QED
    BY <1>1, <1>3 DEF IoMoves, IInv, TransferOwned

\* A call takes the mutex and posts a transfer, within a session.
LEMMA CallerEnters ==
    ASSUME IInv, owner = "none", session, owner' = "client",
           IoShape', Calling', io'.step \notin {"data", "last"} \/ io'.cmd = "data",
           UNCHANGED <<session, speed, detPc, mainPc, exitFlag>>
    PROVE  IInv'
  BY DEF IInv, TransferOwned, ThreadGone, Calling

\* usbSendCommand posts a header; the arguments are records of the same shape.
LEMMA CommandShape ==
    ASSUME NEW cmd, NEW name, NEW size, Command(cmd, name, size)
    PROVE  IoShape' /\ io'.cmd = cmd /\ io'.step = "header"
  BY DEF Command, IoShape

\* A caller's transfer ends and its thread gives the mutex back.  The exit
\* event does not end it: that only happens outside a session.
LEMMA CallerFails == IInv /\ Calling /\ TransferFails => exitFlag' = exitFlag
  BY DEF IInv, TransferOwned, Calling, TransferFails, eventVars

LEMMA CallerReturns ==
    ASSUME IInv, Calling, owner' = "none", io' = NoIo,
           UNCHANGED <<session, speed, detPc, mainPc, exitFlag>>
    PROVE  IInv'
  BY DEF IInv, TransferOwned, ThreadGone, IoShape, NoIo, Calling

LEMMA CommandReturnsKeepsExit ==
    ASSUME IInv, Calling, NEW ok \in BOOLEAN, CommandReturns(ok)
    PROVE  exitFlag' = exitFlag
  BY CallerFails DEF CommandReturns, eventVars

LEMMA CallsKeepIInv == IInv /\ Calls => IInv'
  <1>. SUFFICES ASSUME IInv, Calls PROVE IInv'
    OBVIOUS
  <1>. DEFINE Entered == /\ Enter /\ session /\ owner = "none" /\ IoShape' /\ Calling'
                         /\ io'.step \notin {"data", "last"} \/ io'.cmd = "data"
                         /\ UNCHANGED <<session, speed, exitFlag>>
  <1>1. ASSUME Entered PROVE IInv'
    BY <1>1, CallerEnters DEF Enter
  <1>2. ASSUME UNCHANGED <<io, owner, session, speed, detPc, mainPc, exitFlag>>,
               remaining' = remaining \/ (remaining' = 0)
        PROVE  IInv'
    BY <1>2 DEF IInv, TransferOwned, ThreadGone, IoShape, NoIo
  <1>3. CASE CallSendNspProperties
    <2>1. CASE Refuse
      BY <1>2, <1>3, <2>1 DEF CallSendNspProperties, Refuse, usbVars, eventVars, threadVars
    <2>2. CASE Command("SendNspProperties", job.nsp, job.todo[Len(job.todo)]) /\ Enter /\ InSession
      BY <1>1, <1>3, <2>2, CommandShape
      DEF CallSendNspProperties, usbVars, eventVars, InSession, Calling
    <2>. QED  BY <1>3, <2>1, <2>2 DEF CallSendNspProperties
  <1>4. CASE CallSendFileProperties
    <2>1. CASE Refuse
      BY <1>2, <1>4, <2>1 DEF CallSendFileProperties, Refuse, usbVars, eventVars, threadVars
    <2>2. CASE Command("SendFileProperties", names', Head(job.todo) - job.at) /\ Enter /\ InSession
      BY <1>1, <1>4, <2>2, CommandShape
      DEF CallSendFileProperties, usbVars, eventVars, InSession, Calling
    <2>. QED  BY <1>4, <2>1, <2>2 DEF CallSendFileProperties
  <1>5. CASE CallSendFileData
    <2>1. CASE Refuse /\ ResetTransfer
      BY <1>2, <1>5, <2>1 DEF CallSendFileData, Refuse, ResetTransfer, eventVars, threadVars
    <2>2. CASE Enter /\ InSession /\ UNCHANGED remaining
               /\ io' = [NoIo EXCEPT !.cmd = "data", !.step = "data", !.urb = Urb,
                                     !.name = job.name]
      <3>1. IoShape' /\ Calling' /\ io'.cmd = "data"
        BY <2>2 DEF IoShape, Calling, NoIo
      <3>. QED  BY <1>1, <1>5, <2>2, <3>1 DEF CallSendFileData, eventVars, InSession
    <2>. QED  BY <1>5, <2>1, <2>2 DEF CallSendFileData
  <1>6. CASE CallSendNspHeader
    <2>1. CASE Refuse
      BY <1>2, <1>6, <2>1 DEF CallSendNspHeader, Refuse, eventVars, threadVars
    <2>2. CASE Command("SendNspHeader", 0, 0) /\ Enter /\ InSession
      BY <1>1, <1>6, <2>2, CommandShape DEF CallSendNspHeader, eventVars, InSession, Calling
    <2>. QED  BY <1>6, <2>1, <2>2 DEF CallSendNspHeader
  <1>7. CASE CallCancelFileTransfer
    <2>1. CASE UNCHANGED <<threadVars, io, remaining, nspMode>>
      BY <1>2, <1>7, <2>1 DEF CallCancelFileTransfer, eventVars, threadVars
    <2>2. CASE Command("CancelFileTransfer", 0, 0) /\ Enter /\ InSession
      BY <1>1, <1>7, <2>2, CommandShape
      DEF CallCancelFileTransfer, eventVars, InSession, Calling
    <2>. QED  BY <1>7, <2>1, <2>2 DEF CallCancelFileTransfer
  <1>8. ASSUME NEW stage, NEW cmd \in {"StartExtractedFsDump", "EndExtractedFsDump"},
               CallExtractedFsDump(stage, cmd)
        PROVE  IInv'
    <2>1. CASE Refuse
      BY <1>2, <1>8, <2>1 DEF CallExtractedFsDump, Refuse, usbVars, eventVars, threadVars
    <2>2. CASE Command(cmd, 0, 0) /\ Enter /\ InSession
      BY <1>1, <1>8, <2>2, CommandShape
      DEF CallExtractedFsDump, usbVars, eventVars, InSession, Calling
    <2>. QED  BY <1>8, <2>1, <2>2 DEF CallExtractedFsDump
  <1>. QED
    BY <1>3, <1>4, <1>5, <1>6, <1>7, <1>8 DEF Calls

LEMMA TransfersKeepIInv == IInv /\ Transfers => IInv'
  <1>. SUFFICES ASSUME IInv, Transfers PROVE IInv'
    OBVIOUS
  <1>1. CASE CommandStep
    <2>1. IoMoves
      BY <1>1, NextTransferMoves DEF CommandStep
    <2>. QED
      BY <1>1, <2>1, TransferMoves DEF CommandStep, usbVars, eventVars, threadVars
  <1>2. CASE ChunkSent
    <2>1. Calling
      BY <1>2 DEF ChunkSent, IInv, TransferOwned, Calling
    <2>. QED
      BY <1>2, <2>1, CallerReturns DEF ChunkSent, eventVars
  <1>3. CASE LastChunkSent
    <2>1. Calling /\ io.cmd = "data"
      BY <1>3 DEF LastChunkSent, IInv, TransferOwned, Calling
    <2>2. IoMoves
      BY <1>3, <2>1, NextTransferMoves DEF LastChunkSent
    <2>. QED
      BY <1>3, <2>1, <2>2, TransferMoves DEF LastChunkSent, eventVars, threadVars
  <1>4. CASE FileSent
    <2>1. Calling
      BY <1>4 DEF FileSent, IInv, TransferOwned, Calling
    <2>. QED
      BY <1>4, <2>1, CallerReturns DEF FileSent, usbVars, eventVars
  <1>5. CASE SendFileDataFails
    <2>1. Calling
      BY <1>5 DEF SendFileDataFails, Calling
    <2>2. exitFlag' = exitFlag
      BY <1>5, <2>1, CallerFails DEF SendFileDataFails, eventVars
    <2>. QED
      BY <1>5, <2>1, <2>2, CallerReturns DEF SendFileDataFails
  <1>6. CASE CancelFileTransferReturns
    <2>1. Calling
      BY <1>6 DEF CancelFileTransferReturns, Calling
    <2>2. exitFlag' = exitFlag
      BY <1>6, <2>1, CommandReturnsKeepsExit DEF CancelFileTransferReturns
    <2>. QED
      BY <1>6, <2>1, <2>2, CallerReturns DEF CancelFileTransferReturns, usbVars
  <1>7. CASE EndSessionReturns
    BY <1>7 DEF EndSessionReturns, DropSession, IInv, TransferOwned, ThreadGone,
                IoShape, NoIo
  <1>8. ASSUME NEW ok \in BOOLEAN, SendFilePropertiesReturns(ok) PROVE IInv'
    <2>1. Calling
      BY <1>8 DEF SendFilePropertiesReturns, Calling
    <2>2. exitFlag' = exitFlag
      BY <1>8, <2>1, CommandReturnsKeepsExit DEF SendFilePropertiesReturns
    <2>. QED
      BY <1>8, <2>1, <2>2, CallerReturns DEF SendFilePropertiesReturns
  <1>9. ASSUME NEW ok \in BOOLEAN, SendNspHeaderReturns(ok) PROVE IInv'
    <2>1. Calling
      BY <1>9 DEF SendNspHeaderReturns, Calling
    <2>2. exitFlag' = exitFlag
      BY <1>9, <2>1, CommandReturnsKeepsExit DEF SendNspHeaderReturns
    <2>. QED
      BY <1>9, <2>1, <2>2, CallerReturns DEF SendNspHeaderReturns, usbVars
  <1>10. ASSUME NEW ok \in BOOLEAN, ExtractedFsDumpReturns(ok) PROVE IInv'
    <2>1. Calling
      BY <1>10 DEF ExtractedFsDumpReturns, Calling
    <2>2. exitFlag' = exitFlag
      BY <1>10, <2>1, CommandReturnsKeepsExit DEF ExtractedFsDumpReturns
    <2>. QED
      BY <1>10, <2>1, <2>2, CallerReturns DEF ExtractedFsDumpReturns, usbVars
  <1>11. ASSUME NEW ok \in BOOLEAN, StartSessionReturns(ok) PROVE IInv'
    <2>1. detPc = "session" /\ ~exitFlag
      BY <1>11 DEF StartSessionReturns, IInv, TransferOwned, ThreadGone
    <2>2. mainPc # "closed"
      BY <2>1 DEF IInv, ThreadGone
    <2>3. exitFlag' => ~ok
      BY <1>11, <2>1 DEF StartSessionReturns, CommandReturns, TransferFails, eventVars
    <2>4. detPc' \in {"leaving", "wait"} /\ (exitFlag' => detPc' = "leaving")
      BY <1>11, <2>3 DEF StartSessionReturns, AfterSession
    <2>. QED
      BY <1>11, <2>2, <2>4
      DEF StartSessionReturns, IInv, TransferOwned, ThreadGone, IoShape, NoIo
  <1>. QED
    BY <1>1, <1>2, <1>3, <1>4, <1>5, <1>6, <1>7, <1>8, <1>9, <1>10, <1>11 DEF Transfers

LEMMA DetectionKeepsIInv == IInv /\ Detection => IInv'
  <1>. SUFFICES ASSUME IInv, Detection PROVE IInv'
    OBVIOUS
  <1>1. CASE DetectionWakes
    BY <1>1 DEF DetectionWakes, usbVars, IInv, TransferOwned, ThreadGone, IoShape
  <1>2. CASE DetectionHandles
    <2>1. CASE cable
      <3>1. IoShape' /\ io'.cmd = "StartSession" /\ io'.step = "header"
        BY <1>2, <2>1, CommandShape DEF DetectionHandles
      <3>. QED
        BY <1>2, <2>1, <3>1
        DEF DetectionHandles, DropSession, eventVars, IInv, TransferOwned, ThreadGone
    <2>2. CASE ~cable
      BY <1>2, <2>2
      DEF DetectionHandles, DropSession, eventVars, IInv, TransferOwned, ThreadGone,
          IoShape, NoIo
    <2>. QED  BY <2>1, <2>2
  <1>3. CASE DetectionLeaves
    <2>1. CASE hostAvailable /\ session /\ init
      <3>1. IoShape' /\ io'.cmd = "EndSession" /\ io'.step = "header"
        BY <1>3, <2>1, CommandShape DEF DetectionLeaves
      <3>. QED
        BY <1>3, <2>1, <3>1
        DEF DetectionLeaves, usbVars, IInv, TransferOwned, ThreadGone
    <2>2. CASE ~(hostAvailable /\ session /\ init)
      BY <1>3, <2>2
      DEF DetectionLeaves, DropSession, IInv, TransferOwned, ThreadGone, IoShape, NoIo
    <2>. QED  BY <2>1, <2>2
  <1>. QED
    BY <1>1, <1>2, <1>3 DEF Detection

LEMMA MainKeepsIInv == IInv /\ Main => IInv'
  BY DEF Main, Initialize, Exit, ExitLocks, usbVars, eventVars, IInv, TransferOwned,
         ThreadGone, IoShape

LEMMA HostKeepsIInv == IInv /\ (Host \/ Environment) => IInv'
  <1>. SUFFICES ASSUME IInv, Host \/ Environment PROVE IInv'
    OBVIOUS
  <1>. DEFINE Rest == UNCHANGED <<usbVars, exitFlag, threadVars>>
  <1>1. ASSUME Rest, IoMoves PROVE IInv'
    BY <1>1, TransferMoves DEF usbVars, threadVars
  <1>2. ASSUME Rest, io' = io PROVE IInv'
    BY <1>2, CoreUnchanged DEF Core, usbVars, threadVars
  <1>3. ASSUME Rest, io.urb = "posted", Done PROVE IInv'
    BY <1>1, <1>3, DoneMoves
  <1>4. ASSUME Rest, FailUrb PROVE IInv'
    BY <1>1, <1>2, <1>4, FailUrbMoves
  <1>5. CASE Environment
    <2>1. CASE Unplug
      BY <1>4, <2>1 DEF Unplug
    <2>2. CASE Plug
      BY <1>2, <2>2 DEF Plug
    <2>3. CASE HostStart
      BY <1>4, <2>3 DEF HostStart
    <2>4. CASE HostStop
      BY <1>2, <2>4 DEF HostStop, eventVars
    <2>. QED  BY <1>5, <2>1, <2>2, <2>3, <2>4 DEF Environment
  <1>6. CASE Handlers
    <2>1. Rest /\ io.urb = "posted" /\ Done
      BY <1>6
      DEF Handlers, HandleStartSession, HandleEndSession, HandleNspProperties,
          HandleFileProperties, HandleCancelFileTransfer, HandleSendNspHeader,
          HandleStartExtractedFsDump, HandleEndExtractedFsDump, Receives, Posted,
          eventVars
    <2>. QED  BY <1>3, <2>1
  <1>7. CASE HostReadsHeader \/ HostReadsChunk \/ HostReadsForeign \/ HostCancelsTransfer
    <2>1. Rest /\ io.urb = "posted" /\ Done
      BY <1>7
      DEF HostReadsHeader, HostReadsChunk, HostReadsForeign, HostCancelsTransfer,
          Posted, eventVars
    <2>. QED  BY <1>3, <2>1
  <1>8. CASE HostEntersData
    BY <1>1, <1>2, <1>8, StatusMoves DEF HostEntersData, Posted, eventVars
  <1>9. CASE HostReplies
    BY <1>1, <1>9, StatusMoves DEF HostReplies, Posted, eventVars
  <1>10. CASE HostTransferFails
    BY <1>2, <1>10 DEF HostTransferFails, eventVars
  <1>. QED
    BY <1>5, <1>6, <1>7, <1>8, <1>9, <1>10 DEF Host
-----------------------------------------------------------------------------
LEMMA NextKeepsIInv == IInv /\ [Next]_vars => IInv'
  <1>. SUFFICES ASSUME IInv, [Next]_vars PROVE IInv'
    OBVIOUS
  <1>1. CASE UNCHANGED vars
    BY <1>1, CoreUnchanged DEF Core, vars, usbVars, eventVars, threadVars
  <1>2. CASE Application
    BY <1>2, CoreUnchanged
    DEF Core, Application, StartJob, AbortJob, usbVars, eventVars, threadVars
  <1>. QED
    BY <1>1, <1>2, CallsKeepIInv, TransfersKeepIInv, DetectionKeepsIInv, MainKeepsIInv,
       HostKeepsIInv
    DEF Next

\* The transfers in progress always belong to the thread that holds
\* g_usbInterfaceMutex, and a detection thread that is gone left nothing behind.
THEOREM Ownership == Spec => []IInv
  BY InitIInv, NextKeepsIInv, PTL DEF Spec

\* Whatever happens to the cable, the host and the application, usbExit returns
\* with no session, no file, no transfer and no exit flag left over.
THEOREM ExitIsClean == Spec => []ExitLeavesNothing
  <1>1. IInv => ExitLeavesNothing
    BY DEF IInv, TransferOwned, ThreadGone, ExitLeavesNothing
  <1>. QED
    BY <1>1, Ownership, PTL

-----------------------------------------------------------------------------
(***************************************************************************)
(* What the console believes: its own program counters, life times and     *)
(* jobs.                                                                   *)
(***************************************************************************)
At(step, urb) == io.step = step /\ io.urb = urb

\* The steps of a transfer come in the order of its command.
IoOrder ==
    /\ io.cmd = "data" => io.step \in {"data", "last"}
    /\ io.cmd = "none" => io = NoIo
    /\ owner # "none" => io.cmd # "none"
    /\ io.cmd # "none" => io.step # "none" /\ io.urb # "none"
    /\ io.step = "block" => HasBlock(io.cmd)
    /\ detPc = "session" => io.cmd = "StartSession"
    /\ detPc = "ending" => io.cmd = "EndSession"

\* A session needs an interface, the host process a cable, a dump a program that
\* runs; a program that runs is not about to stop its thread.
Lives ==
    /\ session => init /\ hostAvailable
    /\ detPc = "session" => hostAvailable
    /\ mainPc # "closed" <=> init
    /\ remaining # 0 => session
    /\ link => cable
    /\ exitEvent \/ exitFlag \/ detPc \in {"leaving", "ending", "none"} => mainPc # "run"
    /\ mainPc = "closed" => ~link
    /\ mainPc # "run" => job = NoJob

\* The stages of a job: which kind has them, and what is left of its layout.
JobShape ==
    /\ job.kind \in JobKinds \cup {"none"}
    /\ job.kind = "none" => job = NoJob
    /\ job.stage = "none" => job = NoJob
    /\ job.stage \in {"nsp", "header"} => job.kind = "nsp"
    /\ job.stage \in {"start", "end"} => job.kind = "fs"
    /\ job.kind = "nsp" <=> job.nsp # 0
    /\ job.nsp <= names /\ job.name <= names
    /\ job.stage = "data" => job.name > job.nsp
    /\ job.stage \in {"nsp", "start"} => job.todo # <<>> /\ job.at = 0 /\ job.sent = <<>>
    /\ job.stage = "properties" /\ io.cmd # "SendFileProperties" => job.todo # <<>>
    /\ job.stage = "properties" /\ job.kind # "nsp" => job.sent = <<>>
    /\ job.stage = "header" => job.todo = <<>>

\* What is left of a layout is one, and there are names for it.
TodoShape ==
    /\ names + Len(job.todo) <= MaxNames
    /\ \A i \in 1..Len(job.todo) - 1 : job.todo[i] <= job.todo[i + 1]
    /\ job.todo # <<>> => job.at <= job.todo[1]

StageOf == [SendNspProperties |-> "nsp", SendFileProperties |-> "properties",
            data |-> "data", SendNspHeader |-> "header", CancelFileTransfer |-> "abort",
            StartExtractedFsDump |-> "start", EndExtractedFsDump |-> "end"]

\* A call is made at its stage of the job, with what g_usbTransferRemainingSize
\* and g_nspTransferMode allow.
CallShape ==
    owner = "client" =>
    /\ job.stage = StageOf[io.cmd]
    /\ io.cmd \in {"SendFileProperties", "data"} => io.name = job.name /\ job.name > job.nsp
    /\ io.cmd = "SendNspProperties" => io.name = job.nsp /\ ~nspMode /\ remaining = 0
    /\ io.cmd = "SendNspProperties" => io.size = job.todo[Len(job.todo)]
    /\ io.cmd = "SendFileProperties" => remaining = 0 \/ nspMode
    /\ io.cmd \in {"SendNspHeader", "CancelFileTransfer", "StartExtractedFsDump",
                   "EndExtractedFsDump"} => ~nspMode /\ remaining = 0
    /\ io.cmd = "data" => IF io.step = "last" THEN remaining = 0 ELSE remaining # 0

Console == IoOrder /\ Lives /\ JobShape /\ TodoShape /\ CallShape
SInv0 == IInv /\ TypeOK /\ Console

IoDomain == DOMAIN io = {"cmd", "step", "urb", "name", "size", "status"}
JobDomain == DOMAIN job = {"kind", "stage", "todo", "at", "name", "nsp", "sent"}
LEMMA IoType == TypeOK => /\ IoDomain
                          /\ io.cmd \in Commands \cup {"none", "data"}
                          /\ io.step \in TransferSteps \cup {"none"}
                          /\ io.urb \in {"none", "posted", "done", "failed"}
                          /\ io.name \in Nat /\ io.size \in Nat /\ io.status \in Statuses
  BY DEF TypeOK, IoDomain, IoRecords

LEMMA JobType == TypeOK => /\ JobDomain
                           /\ job.kind \in {"none", "file", "fs", "nsp"}
                           /\ job.todo \in Seq(Nat) /\ job.at \in Nat /\ job.name \in Nat
                           /\ job.nsp \in Nat /\ job.sent \in Seq(Nat)
  BY DEF TypeOK, JobDomain, JobRecords

LEMMA InitConsole == Init => Console /\ TypeOK
  <1>. SUFFICES ASSUME Init PROVE Console /\ TypeOK
    OBVIOUS
  <1>1. IoOrder /\ Lives /\ JobShape /\ CallShape
    BY DEF Init, IoOrder, Lives, JobShape, CallShape, NoIo, NoJob
  <1>2. TodoShape
    BY SessionAssumption DEF Init, TodoShape, NoJob
  <1>3. TypeOK
    <2>1. io \in IoRecords
      BY DEF Init, NoIo, IoRecords, Statuses
    <2>2. job \in JobRecords
      BY DEF Init, NoJob, JobRecords
    <2>3. disk \in [Names -> FileRecords]
      BY DEF Init, NoFile, FileRecords
    <2>4. hNsp \in [on : BOOLEAN, file : Nat, left : Int]
      BY DEF Init, NoNsp
    <2>5. names \in 0..MaxNames
      BY SessionAssumption DEF Init
    <2>6. /\ init \in BOOLEAN /\ owner \in {"none", "client", "detect"}
    /\ hostAvailable \in BOOLEAN /\ session \in BOOLEAN /\ remaining \in Nat
    /\ nspMode \in BOOLEAN /\ speed \in BOOLEAN /\ exitFlag \in BOOLEAN
    /\ stateEvent \in BOOLEAN /\ timeoutEvent \in BOOLEAN /\ exitEvent \in BOOLEAN
    /\ detPc \in {"none", "wait", "handle", "session", "leaving", "ending"}
      BY DEF Init
    <2>7. told \subseteq [name : Names, data : Seq(Nat)]
      BY DEF Init
    <2>. QED
      BY <2>1, <2>2, <2>3, <2>4, <2>5, <2>6, <2>7, SessionAssumption
      DEF Init, TypeOK, AllHostKinds, Statuses
  <1>. QED
    BY <1>1, <1>2, <1>3 DEF Console

\* The fields of the next transfer, and of the next job.
NewIo(cmd, step, urb, name, size, status) ==
    /\ io'.cmd = cmd /\ io'.step = step /\ io'.urb = urb
    /\ io'.name = name /\ io'.size = size /\ io'.status = status

LEMMA CommandIo ==
    ASSUME NEW cmd \in Commands, NEW name \in Nat, NEW size \in Nat,
           Command(cmd, name, size)
    PROVE  NewIo(cmd, "header", Urb, name, size, "none") /\ io' \in IoRecords
  BY DEF Command, NewIo, IoRecords, Urb, Statuses, TransferSteps

LEMMA NoIoIo ==
    ASSUME io' = NoIo
    PROVE  NewIo("none", "none", "none", 0, 0, "none") /\ io' \in IoRecords
  BY DEF NoIo, NewIo, IoRecords, Statuses

LEMMA DoneIo ==
    ASSUME TypeOK, Done
    PROVE  NewIo(io.cmd, io.step, "done", io.name, io.size, io.status) /\ io' \in IoRecords
  BY DEF TypeOK, Done, NewIo, IoRecords

LEMMA StatusIo ==
    ASSUME TypeOK, NEW status \in Statuses,
           io' = [io EXCEPT !.urb = "done", !.status = status]
    PROVE  NewIo(io.cmd, io.step, "done", io.name, io.size, status) /\ io' \in IoRecords
  BY DEF TypeOK, NewIo, IoRecords

LEMMA NextIo ==
    ASSUME TypeOK, NEW step \in TransferSteps,
           io' = [io EXCEPT !.step = step, !.urb = Urb]
    PROVE  NewIo(io.cmd, step, Urb, io.name, io.size, io.status) /\ io' \in IoRecords
  BY DEF TypeOK, NewIo, IoRecords, Urb

LEMMA FailIo ==
    ASSUME TypeOK, FailUrb
    PROVE  /\ io' \in IoRecords
           /\ NewIo(io.cmd, io.step, IF io.urb = "posted" THEN "failed" ELSE io.urb,
                    io.name, io.size, io.status)
  <1>1. CASE io.urb = "posted"
    BY <1>1 DEF TypeOK, FailUrb, NewIo, IoRecords
  <1>2. CASE io.urb # "posted"
    BY <1>2 DEF TypeOK, FailUrb, NewIo, IoRecords
  <1>. QED  BY <1>1, <1>2

-----------------------------------------------------------------------------

NewJob(kind, stage, todo, at, name, nsp, sent) ==
    /\ job'.kind = kind /\ job'.stage = stage /\ job'.todo = todo /\ job'.at = at
    /\ job'.name = name /\ job'.nsp = nsp /\ job'.sent = sent

LEMMA StageJob ==
    ASSUME TypeOK, NEW stage \in {"properties", "data", "end", "header", "abort"},
           job' = [job EXCEPT !.stage = stage]
    PROVE  /\ NewJob(job.kind, stage, job.todo, job.at, job.name, job.nsp, job.sent)
           /\ job' \in JobRecords
  BY DEF TypeOK, NewJob, JobRecords

\* What is left of the layout when a file of it is begun.
LEMMA TailShape ==
    ASSUME NEW todo \in Seq(Nat), todo # <<>>, NEW at \in Nat,
           \A i \in 1..Len(todo) - 1 : todo[i] <= todo[i + 1], at <= todo[1]
    PROVE  /\ Tail(todo) \in Seq(Nat) /\ Len(Tail(todo)) = Len(todo) - 1
           /\ Head(todo) \in Nat /\ Head(todo) - at \in Nat
           /\ \A i \in 1..Len(Tail(todo)) - 1 : Tail(todo)[i] <= Tail(todo)[i + 1]
           /\ Tail(todo) # <<>> => /\ Head(todo) <= Tail(todo)[1]
                                   /\ Tail(todo)[Len(Tail(todo))] = todo[Len(todo)]
           /\ Tail(todo) = <<>> => Head(todo) = todo[Len(todo)]
  <1>1. /\ Len(todo) \in Nat \ {0} /\ Head(todo) = todo[1] /\ todo[1] \in Nat
        /\ todo[Len(todo)] \in Nat
    OBVIOUS
  <1>2. Tail(todo) \in Seq(Nat) /\ Len(Tail(todo)) = Len(todo) - 1
    OBVIOUS
  <1>3. \A i \in 1..Len(todo) - 1 : Tail(todo)[i] = todo[i + 1]
    OBVIOUS
  <1>4. Tail(todo) # <<>> => Len(todo) > 1
    BY <1>1, <1>2
  <1>5. Tail(todo) = <<>> => Len(Tail(todo)) = 0
    <2>1. Len(<<>>) = 0
      OBVIOUS
    <2>. QED  BY <2>1, Zenon
  <1>6. \A i \in 1..Len(Tail(todo)) - 1 : Tail(todo)[i] <= Tail(todo)[i + 1]
    BY <1>1, <1>2, <1>3
  <1>7. /\ Tail(todo) # <<>> => /\ Head(todo) <= Tail(todo)[1]
                               /\ Tail(todo)[Len(Tail(todo))] = todo[Len(todo)]
        /\ Tail(todo) = <<>> => Head(todo) = todo[Len(todo)]
    BY <1>1, <1>2, <1>3, <1>4, <1>5, SMTT(30)
  <1>. QED
    BY <1>1, <1>2, <1>6, <1>7, SMTT(30)

-----------------------------------------------------------------------------
(***************************************************************************)
(* What the calls do, field by field: they enter with a command, or refuse *)
(* and let the application give up.                                        *)
(***************************************************************************)
CallRest == UNCHANGED <<hostAvailable, session, speed, eventVars, detPc, mainPc, init, told,
                        busVars, hostVars>>
CallCommands == {"SendNspProperties", "SendFileProperties", "data", "SendNspHeader",
                 "CancelFileTransfer", "StartExtractedFsDump", "EndExtractedFsDump"}
Resetting == {"SendNspHeader", "CancelFileTransfer"}

EntersWith(cmd) ==
    /\ cmd \in CallCommands /\ job.stage = StageOf[cmd] /\ InSession /\ owner = "none"
    /\ owner' = "client" /\ io' \in IoRecords
    /\ io'.cmd = cmd /\ io'.step = (IF cmd = "data" THEN "data" ELSE "header")
    /\ io'.urb = Urb /\ io'.status = "none"
    /\ IF cmd = "SendFileProperties"
       THEN /\ nspMode \/ remaining = 0
            /\ names' = names + 1 /\ job' \in JobRecords
            /\ NewJob(job.kind, job.stage, Tail(job.todo), Head(job.todo), names + 1, job.nsp,
                      job.sent)
            /\ io'.name = names + 1 /\ io'.size = Head(job.todo) - job.at
       ELSE UNCHANGED <<names, job>>
    /\ cmd = "data" => remaining # 0 /\ io'.name = job.name
    /\ cmd = "SendNspProperties" => io'.name = job.nsp /\ io'.size = job.todo[Len(job.todo)]
    /\ cmd = "SendNspHeader" => nspMode
    /\ cmd \in {"SendNspProperties", "StartExtractedFsDump", "EndExtractedFsDump"} => ~nspMode
    /\ cmd \notin {"SendFileProperties", "data", "CancelFileTransfer"} => remaining = 0
    /\ nspMode' = (nspMode /\ cmd \notin Resetting)
    /\ remaining' = IF cmd = "CancelFileTransfer" THEN 0 ELSE remaining
    /\ CallRest

GivesUp ==
    /\ job' \in JobRecords /\ job.stage \notin {"none", "abort"}
    /\ NewJob(job.kind, "abort", job.todo, job.at, job.name, job.nsp, job.sent)

Refuses ==
    /\ owner = "none" /\ UNCHANGED <<owner, io, names>> /\ CallRest
    /\ \/ GivesUp /\ UNCHANGED <<remaining, nspMode>>
       \/ /\ GivesUp /\ job.stage = "data" /\ ~(InSession /\ remaining # 0)
          /\ remaining' = 0 /\ nspMode' = FALSE
       \/ /\ job.stage = "abort" /\ job' = NoJob /\ UNCHANGED <<remaining, nspMode>>
          /\ ~(InSession /\ (remaining # 0 \/ nspMode))

LEMMA RefuseIs ==
    ASSUME TypeOK, Refuse, job.stage \notin {"none", "abort"}
    PROVE  GivesUp /\ UNCHANGED <<owner, io, detPc, mainPc, init>>
  <1>1. job' = [job EXCEPT !.stage = "abort"]
    BY DEF Refuse
  <1>. QED  BY <1>1, StageJob DEF Refuse, GivesUp, threadVars

LEMMA CallsAre ==
    ASSUME SInv0, Calls
    PROVE  Refuses \/ \E cmd \in CallCommands : EntersWith(cmd)
  <1>. TypeOK /\ Console
    BY DEF SInv0
  <1>. USE IoType, JobType
  <1>1. CASE CallSendNspProperties
    <2>. DEFINE Guard == InSession /\ ~(~nspMode /\ remaining # 0) /\ ~nspMode
    <2>1. CASE ~Guard
      BY <1>1, <2>1, RefuseIs
      DEF CallSendNspProperties, Refuses, CallRest, usbVars, eventVars, busVars, hostVars
    <2>2. CASE Guard
      <3>1. job.todo[Len(job.todo)] \in Nat
        BY <1>1 DEF CallSendNspProperties, Console, JobShape
      <3>2. /\ NewIo("SendNspProperties", "header", Urb, job.nsp, job.todo[Len(job.todo)], "none")
            /\ io' \in IoRecords
        BY <1>1, <2>2, <3>1, CommandIo DEF CallSendNspProperties, Commands
      <3>3. EntersWith("SendNspProperties")
        BY <1>1, <2>2, <3>2
        DEF CallSendNspProperties, EntersWith, CallCommands, StageOf, NewIo, Enter, CallRest,
            Resetting, usbVars, eventVars, busVars, hostVars, TypeOK
      <3>. QED  BY <3>3 DEF CallCommands
    <2>. QED  BY <2>1, <2>2
  <1>2. CASE CallSendFileProperties
    <2>. DEFINE Guard == InSession /\ ~(~nspMode /\ remaining # 0)
    <2>1. CASE ~Guard
      BY <1>2, <2>1, RefuseIs
      DEF CallSendFileProperties, Refuses, CallRest, usbVars, eventVars, busVars, hostVars
    <2>2. CASE Guard
      <3>1. job.todo # <<>>
        BY <1>2 DEF CallSendFileProperties, Console, JobShape, SInv0, IInv, TransferOwned, NoIo
      <3>2. Head(job.todo) \in Nat /\ Head(job.todo) - job.at \in Nat /\ Tail(job.todo) \in Seq(Nat)
        BY <3>1, TailShape DEF Console, TodoShape
      <3>3. names' = names + 1 /\ names' \in Nat
        <4>1. names' = names + 1  BY <1>2, <2>2, Zenon DEF CallSendFileProperties
        <4>2. names \in Nat  BY DEF TypeOK
        <4>.  HIDE DEF Guard
        <4>.  QED  BY ONLY <4>1, <4>2
      <3>4. Command("SendFileProperties", names', Head(job.todo) - job.at)
        BY <1>2, <2>2 DEF CallSendFileProperties
      <3>5. /\ NewIo("SendFileProperties", "header", Urb, names + 1, Head(job.todo) - job.at, "none")
            /\ io' \in IoRecords
        BY <3>2, <3>3, <3>4, CommandIo DEF Commands
      <3>6. job' = [job EXCEPT !.name = names', !.at = Head(job.todo), !.todo = Tail(job.todo)]
        BY <1>2, <2>2 DEF CallSendFileProperties
      <3>7. /\ NewJob(job.kind, job.stage, Tail(job.todo), Head(job.todo), names + 1, job.nsp,
                      job.sent)
            /\ job' \in JobRecords
        BY <3>2, <3>3, <3>6 DEF NewJob, TypeOK, JobRecords
      <3>8. EntersWith("SendFileProperties")
        BY <1>2, <2>2, <3>3, <3>5, <3>7
        DEF CallSendFileProperties, EntersWith, CallCommands, StageOf, NewIo, Enter, CallRest,
            Resetting, usbVars, eventVars, busVars, hostVars, TypeOK
      <3>. QED  BY <3>8 DEF CallCommands
    <2>. QED  BY <2>1, <2>2
  <1>3. CASE CallSendFileData
    <2>. DEFINE Guard == InSession /\ remaining # 0
    <2>1. CASE ~Guard
      BY <1>3, <2>1, RefuseIs
      DEF CallSendFileData, Refuses, CallRest, ResetTransfer, usbVars, eventVars, busVars, hostVars
    <2>2. CASE Guard
      <3>1. io' = [NoIo EXCEPT !.cmd = "data", !.step = "data", !.urb = Urb, !.name = job.name]
        BY <1>3, <2>2 DEF CallSendFileData
      <3>2. NewIo("data", "data", Urb, job.name, 0, "none") /\ io' \in IoRecords
        BY <3>1 DEF NoIo, NewIo, IoRecords, TransferSteps, Statuses, Urb
      <3>3. EntersWith("data")
        BY <1>3, <2>2, <3>2
        DEF CallSendFileData, EntersWith, CallCommands, StageOf, NewIo, Enter, CallRest,
            Resetting, usbVars, eventVars, busVars, hostVars, TypeOK
      <3>. QED  BY <3>3 DEF CallCommands
    <2>. QED  BY <2>1, <2>2
  <1>4. CASE CallSendNspHeader
    <2>. DEFINE Guard == InSession /\ remaining = 0 /\ nspMode
    <2>1. CASE ~Guard
      BY <1>4, <2>1, RefuseIs
      DEF CallSendNspHeader, Refuses, CallRest, usbVars, eventVars, busVars, hostVars
    <2>2. CASE Guard
      <3>1. NewIo("SendNspHeader", "header", Urb, 0, 0, "none") /\ io' \in IoRecords
        BY <1>4, <2>2, CommandIo DEF CallSendNspHeader, Commands
      <3>2. EntersWith("SendNspHeader")
        BY <1>4, <2>2, <3>1
        DEF CallSendNspHeader, EntersWith, CallCommands, StageOf, NewIo, Enter, CallRest,
            Resetting, usbVars, eventVars, busVars, hostVars, TypeOK
      <3>. QED  BY <3>2 DEF CallCommands
    <2>. QED  BY <2>1, <2>2
  <1>5. CASE CallCancelFileTransfer
    <2>. DEFINE Guard == InSession /\ (remaining # 0 \/ nspMode)
    <2>1. CASE ~Guard
      BY <1>5, <2>1
      DEF CallCancelFileTransfer, Refuses, CallRest, usbVars, eventVars, busVars, hostVars,
          threadVars
    <2>2. CASE Guard
      <3>1. NewIo("CancelFileTransfer", "header", Urb, 0, 0, "none") /\ io' \in IoRecords
        BY <1>5, <2>2, CommandIo DEF CallCancelFileTransfer, Commands
      <3>2. EntersWith("CancelFileTransfer")
        BY <1>5, <2>2, <3>1
        DEF CallCancelFileTransfer, EntersWith, CallCommands, StageOf, NewIo, Enter, CallRest,
            Resetting, ResetTransfer, usbVars, eventVars, busVars, hostVars, TypeOK
      <3>. QED  BY <3>2 DEF CallCommands
    <2>. QED  BY <2>1, <2>2
  <1>6. ASSUME NEW cmd \in {"StartExtractedFsDump", "EndExtractedFsDump"},
               CallExtractedFsDump(StageOf[cmd], cmd)
        PROVE  Refuses \/ EntersWith(cmd)
    <2>. DEFINE Guard == InSession /\ remaining = 0 /\ ~nspMode
    <2>1. CASE ~Guard
      BY <1>6, <2>1, RefuseIs
      DEF CallExtractedFsDump, Refuses, CallRest, usbVars, eventVars, busVars, hostVars, StageOf
    <2>2. CASE Guard
      <3>1. NewIo(cmd, "header", Urb, 0, 0, "none") /\ io' \in IoRecords
        BY <1>6, <2>2, CommandIo DEF CallExtractedFsDump, Commands
      <3>. QED
        BY <1>6, <2>2, <3>1
        DEF CallExtractedFsDump, EntersWith, CallCommands, StageOf, NewIo, Enter, CallRest,
            Resetting, usbVars, eventVars, busVars, hostVars, TypeOK
    <2>. QED  BY <2>1, <2>2
  <1>. QED
    <2>1. /\ StageOf["StartExtractedFsDump"] = "start"
          /\ StageOf["EndExtractedFsDump"] = "end"
      BY DEF StageOf
    <2>. QED
      BY <1>1, <1>2, <1>3, <1>4, <1>5, <1>6, <2>1 DEF Calls, CallCommands

-----------------------------------------------------------------------------
(***************************************************************************)
(* What the transfers of a call do, field by field: it goes on, or comes   *)
(* back to the application with a result.                                  *)
(***************************************************************************)
ReturnRest == UNCHANGED <<hostAvailable, session, speed, detPc, mainPc, init, names, busVars,
                          hostVars>>

\* A transfer within a session fails: the console is gone, or it took too long.
TimedOut == \/ io.urb = "posted" /\ ~HostServes
            \/ io.urb \in {"posted", "done"} /\ <<io.step, io.urb>> \in Stalls
Fails == \/ io.urb = "failed" /\ UNCHANGED eventVars
         \/ TimedOut /\ timeoutEvent' = TRUE /\ UNCHANGED <<stateEvent, exitEvent, exitFlag>>
Rejected == /\ At("status", "done") \/ At("last", "done")
            /\ io.status # "Success" /\ UNCHANGED eventVars

\* A file or entry is complete: the next one, or what comes after the last one.
Advances(sent) ==
    /\ job' \in JobRecords
    /\ \/ /\ job.todo # <<>>
          /\ NewJob(job.kind, "properties", job.todo, job.at, job.name, job.nsp, sent)
       \/ job.todo = <<>> /\ job.kind = "file" /\ job' = NoJob
       \/ /\ job.todo = <<>> /\ job.kind = "fs"
          /\ NewJob(job.kind, "end", job.todo, job.at, job.name, job.nsp, sent)
       \/ /\ job.todo = <<>> /\ job.kind = "nsp"
          /\ NewJob(job.kind, "header", job.todo, job.at, job.name, job.nsp, sent)

ReturnsFalse ==
    /\ owner = "client" /\ owner' = "none" /\ io' = NoIo /\ ReturnRest
    /\ Fails \/ Rejected
    /\ remaining' = 0 /\ nspMode' = FALSE /\ told' = told
    /\ IF io.cmd \in {"CancelFileTransfer", "EndExtractedFsDump"} THEN job' = NoJob ELSE GivesUp

ReturnsTrue ==
    /\ owner = "client" /\ owner' = "none" /\ io' = NoIo /\ ReturnRest
    /\ At("status", "done") /\ io.status = "Success" /\ UNCHANGED eventVars
    /\ nspMode' = (nspMode \/ io.cmd = "SendNspProperties")
    /\ remaining' = IF io.cmd = "SendNspProperties" THEN io.size + 1
                    ELSE IF io.cmd = "SendFileProperties" THEN io.size ELSE remaining
    /\ told' = IF io.cmd = "SendFileProperties" /\ io.size = 0 /\ job.kind # "nsp"
               THEN told \cup {[name |-> io.name, data |-> <<>>]}
               ELSE IF io.cmd = "SendNspHeader"
               THEN told \cup {[name |-> job.nsp, data |-> job.sent]} ELSE told
    /\ \/ io.cmd \in {"CancelFileTransfer", "EndExtractedFsDump", "SendNspHeader"} /\ job' = NoJob
       \/ io.cmd \in {"SendNspProperties", "StartExtractedFsDump"} /\ Advances(job.sent)
       \/ io.cmd = "SendFileProperties" /\ io.size = 0 /\ Advances(job.sent)
       \/ /\ io.cmd = "SendFileProperties" /\ io.size # 0 /\ job' \in JobRecords
          /\ NewJob(job.kind, "data", job.todo, job.at, job.name, job.nsp, job.sent)

Continues ==
    /\ io.step \in {"header", "block"} /\ io.urb = "done" /\ io' \in IoRecords
    /\ NewIo(io.cmd, IF io.step = "header" /\ HasBlock(io.cmd) THEN "block" ELSE "status", Urb,
             io.name, io.size, io.status)
    /\ UNCHANGED <<usbVars, eventVars, threadVars, appVars, busVars, hostVars>>

LastChunk ==
    /\ owner = "client" /\ io.cmd = "data" /\ At("data", "done") /\ io' \in IoRecords
    /\ remaining = 1 /\ remaining' = 0
    /\ NewIo(io.cmd, "last", Urb, io.name, io.size, io.status)
    /\ UNCHANGED <<hostAvailable, session, nspMode, speed, eventVars, threadVars, appVars,
                   busVars, hostVars>>

Chunk ==
    /\ owner = "client" /\ io.cmd = "data" /\ At("data", "done")
    /\ owner' = "none" /\ io' = NoIo /\ ReturnRest
    /\ remaining > 1 /\ remaining' = remaining - 1
    /\ job' \in JobRecords
    /\ NewJob(job.kind, job.stage, job.todo, job.at, job.name, job.nsp, Append(job.sent, io.name))
    /\ UNCHANGED <<nspMode, told, eventVars>>

File ==
    /\ owner = "client" /\ io.cmd = "data" /\ At("last", "done") /\ io.status = "Success"
    /\ owner' = "none" /\ io' = NoIo /\ ReturnRest
    /\ Advances(IF job.kind = "nsp" THEN Append(job.sent, io.name) ELSE <<>>)
    /\ told' = IF job.kind = "nsp" THEN told
               ELSE told \cup {[name |-> io.name, data |-> Append(job.sent, io.name)]}
    /\ UNCHANGED <<remaining, nspMode, eventVars>>

LEMMA AdvanceIs ==
    ASSUME TypeOK, NEW j, j \in JobRecords, NEW sent \in Seq(Nat), job' = AfterFile(j),
           j.kind = job.kind, j.kind # "none",
           j.todo = job.todo, j.at = job.at, j.name = job.name, j.nsp = job.nsp, j.sent = sent
    PROVE  Advances(sent)
  <1>1. CASE job.todo # <<>>
    <2>1. job' = [j EXCEPT !.stage = "properties"]
      BY <1>1 DEF AfterFile
    <2>. QED  BY <1>1, <2>1 DEF Advances, NewJob, JobRecords
  <1>2. CASE job.todo = <<>> /\ job.kind = "file"
    <2>1. job' = NoJob
      BY <1>2 DEF AfterFile
    <2>. QED  BY <1>2, <2>1 DEF Advances, NoJob, JobRecords
  <1>3. CASE job.todo = <<>> /\ job.kind = "fs"
    <2>1. job' = [j EXCEPT !.stage = "end"]
      BY <1>3 DEF AfterFile
    <2>. QED  BY <1>3, <2>1 DEF Advances, NewJob, JobRecords
  <1>4. CASE job.todo = <<>> /\ job.kind = "nsp"
    <2>1. job' = [j EXCEPT !.stage = "header"]
      BY <1>4 DEF AfterFile
    <2>. QED  BY <1>4, <2>1 DEF Advances, NewJob, JobRecords
  <1>. QED
    BY <1>1, <1>2, <1>3, <1>4 DEF JobRecords

LEMMA FailsIs == ASSUME session, TransferFails PROVE Fails
  BY DEF TransferFails, Fails, TimedOut

LEMMA ClientIs ==
    ASSUME SInv0, io.cmd \in CallCommands
    PROVE  /\ owner = "client" /\ session /\ job.stage = StageOf[io.cmd]
           /\ job.stage \notin {"none"} /\ job.kind # "none"
           /\ io.cmd # "CancelFileTransfer" => job.stage # "abort"
  <1>1. owner = "client" /\ session
    BY DEF SInv0, IInv, TransferOwned, CallCommands
  <1>2. job.stage = StageOf[io.cmd]
    BY <1>1 DEF SInv0, Console, CallShape
  <1>3. StageOf[io.cmd] # "none" /\ (io.cmd # "CancelFileTransfer" => StageOf[io.cmd] # "abort")
    BY DEF StageOf, CallCommands
  <1>4. job.kind # "none"
    BY <1>2, <1>3 DEF SInv0, Console, JobShape, NoJob
  <1>. QED  BY <1>1, <1>2, <1>3, <1>4

LEMMA CommandFalse ==
    ASSUME SInv0, io.cmd \in CallCommands, CommandReturns(FALSE) PROVE Fails \/ Rejected
  BY ClientIs, FailsIs DEF CommandReturns, Rejected, At

LEMMA CommandTrue ==
    ASSUME CommandReturns(TRUE)
    PROVE  At("status", "done") /\ io.status = "Success" /\ UNCHANGED eventVars
  BY DEF CommandReturns, At

LEMMA GivesUpIs ==
    ASSUME SInv0, io.cmd \in CallCommands, io.cmd # "CancelFileTransfer",
           job' = [job EXCEPT !.stage = "abort"]
    PROVE  GivesUp
  BY ClientIs, StageJob DEF SInv0, GivesUp

LEMMA TransfersAre ==
    ASSUME SInv0, Transfers
    PROVE  \/ Continues \/ LastChunk \/ Chunk \/ File \/ ReturnsFalse \/ ReturnsTrue
           \/ EndSessionReturns \/ \E ok \in BOOLEAN : StartSessionReturns(ok)
  <1>. TypeOK /\ Console
    BY DEF SInv0
  <1>. USE IoType, JobType
  <1>. job \in JobRecords
    BY DEF TypeOK
  <1>1. CASE CommandStep
    <2>. DEFINE step == IF io.step = "header" /\ HasBlock(io.cmd) THEN "block" ELSE "status"
    <2>1. step \in TransferSteps
      BY DEF TransferSteps
    <2>2. io' = [io EXCEPT !.step = step, !.urb = Urb]
      BY <1>1 DEF CommandStep
    <2>3. NewIo(io.cmd, step, Urb, io.name, io.size, io.status) /\ io' \in IoRecords
      BY <2>1, <2>2, NextIo
    <2>. QED  BY <1>1, <2>3 DEF CommandStep, Continues
  <1>2. CASE LastChunkSent
    <2>1. io.cmd = "data"
      BY <1>2 DEF LastChunkSent, SInv0, IInv, TransferOwned
    <2>2. NewIo(io.cmd, "last", Urb, io.name, io.size, io.status) /\ io' \in IoRecords
      BY <1>2, NextIo DEF LastChunkSent, TransferSteps
    <2>. QED
      BY <1>2, <2>1, <2>2, ClientIs DEF LastChunkSent, LastChunk, At, CountChunk, CallCommands
  <1>3. CASE ChunkSent
    <2>1. io.cmd = "data"
      BY <1>3 DEF ChunkSent, SInv0, IInv, TransferOwned
    <2>2. Append(job.sent, io.name) \in Seq(Nat)
      OBVIOUS
    <2>3. job' = [job EXCEPT !.sent = Append(job.sent, io.name)]
      BY <1>3 DEF ChunkSent, JobRecords
    <2>4. /\ job' \in JobRecords
          /\ NewJob(job.kind, job.stage, job.todo, job.at, job.name, job.nsp,
                    Append(job.sent, io.name))
      BY <2>2, <2>3 DEF JobRecords, NewJob
    <2>. QED
      BY <1>3, <2>1, <2>4, ClientIs
      DEF ChunkSent, Chunk, At, CountChunk, CallCommands, ReturnRest
  <1>4. CASE FileSent
    <2>1. io.cmd = "data"
      BY <1>4 DEF FileSent, SInv0, IInv, TransferOwned
    <2>2. Append(job.sent, io.name) \in Seq(Nat) /\ <<>> \in Seq(Nat)
      OBVIOUS
    <2>. DEFINE sent == Append(job.sent, io.name)
                rest == IF job.kind = "nsp" THEN sent ELSE <<>>
                j == [job EXCEPT !.sent = rest]
    <2>3. /\ job' = AfterFile(j)
          /\ told' = IF job.kind = "nsp" THEN told
                     ELSE told \cup {[name |-> io.name, data |-> sent]}
      BY <1>4 DEF FileSent
    <2>4. /\ j \in JobRecords /\ j.kind = job.kind /\ j.todo = job.todo /\ j.at = job.at
          /\ j.name = job.name /\ j.nsp = job.nsp /\ j.sent = rest /\ rest \in Seq(Nat)
      BY <2>2 DEF JobRecords
    <2>5. job.kind # "none"
      BY <2>1, ClientIs DEF CallCommands
    <2>6. Advances(rest)
      <3>. HIDE DEF j, rest
      <3>. QED  BY <2>3, <2>4, <2>5, AdvanceIs
    <2>. QED
      BY <1>4, <2>1, <2>3, <2>6, ClientIs
      DEF FileSent, File, At, CallCommands, ReturnRest, usbVars
  <1>5. CASE SendFileDataFails
    <2>1. io.cmd \in CallCommands /\ io.cmd = "data"
      BY <1>5 DEF SendFileDataFails, CallCommands
    <2>2. GivesUp
      BY <1>5, <2>1, GivesUpIs DEF SendFileDataFails
    <2>3. Fails \/ Rejected
      BY <1>5, <2>1, ClientIs, FailsIs DEF SendFileDataFails, Rejected, At
    <2>. QED
      BY <1>5, <2>1, <2>2, <2>3, ClientIs
      DEF SendFileDataFails, ReturnsFalse, ReturnRest, ResetTransfer
  <1>6. CASE CancelFileTransferReturns
    <2>1. io.cmd \in CallCommands /\ io.cmd = "CancelFileTransfer"
      BY <1>6 DEF CancelFileTransferReturns, CallCommands
    <2>2. remaining = 0 /\ nspMode = FALSE /\ remaining' = remaining /\ nspMode' = nspMode
      BY <1>6, <2>1, ClientIs DEF CancelFileTransferReturns, Console, CallShape, usbVars, TypeOK
    <2>3. PICK ok \in BOOLEAN : CommandReturns(ok)
      BY <1>6 DEF CancelFileTransferReturns
    <2>4. CASE ok
      <3>1. At("status", "done") /\ io.status = "Success" /\ UNCHANGED eventVars
        BY <2>3, <2>4, CommandTrue
      <3>. QED
        BY <1>6, <2>1, <2>2, <3>1, ClientIs
        DEF CancelFileTransferReturns, ReturnsTrue, ReturnRest, usbVars
    <2>5. CASE ~ok
      <3>1. Fails \/ Rejected
        BY <2>1, <2>3, <2>5, CommandFalse
      <3>. QED
        BY <1>6, <2>1, <2>2, <3>1, ClientIs
        DEF CancelFileTransferReturns, ReturnsFalse, ReturnRest, usbVars
    <2>. QED  BY <2>4, <2>5
  <1>7. ASSUME SendFilePropertiesReturns(TRUE) PROVE ReturnsTrue
    <2>1. io.cmd \in CallCommands /\ io.cmd \in {"SendFileProperties", "SendNspProperties"}
      BY <1>7 DEF SendFilePropertiesReturns, CallCommands
    <2>2. At("status", "done") /\ io.status = "Success" /\ UNCHANGED eventVars
      BY <1>7, CommandTrue DEF SendFilePropertiesReturns
    <2>3. CASE io.cmd = "SendNspProperties" \/ io.size = 0
      <3>1. job' = AfterFile(job)
        BY <1>7, <2>1, <2>3 DEF SendFilePropertiesReturns
      <3>2. Advances(job.sent)
        BY <2>1, <3>1, ClientIs, AdvanceIs
      <3>. QED
        BY <1>7, <2>1, <2>2, <2>3, <3>2, ClientIs
        DEF SendFilePropertiesReturns, ReturnsTrue, ReturnRest, TypeOK
    <2>4. CASE io.cmd = "SendFileProperties" /\ io.size # 0
      <3>1. job' = [job EXCEPT !.stage = "data"]
        BY <1>7, <2>1, <2>4 DEF SendFilePropertiesReturns
      <3>2. /\ job' \in JobRecords
            /\ NewJob(job.kind, "data", job.todo, job.at, job.name, job.nsp, job.sent)
        BY <3>1, StageJob
      <3>. QED
        BY <1>7, <2>1, <2>2, <2>4, <3>2, ClientIs
        DEF SendFilePropertiesReturns, ReturnsTrue, ReturnRest, TypeOK
    <2>. QED  BY <2>1, <2>3, <2>4
  <1>8. ASSUME SendFilePropertiesReturns(FALSE) PROVE ReturnsFalse
    <2>1. io.cmd \in CallCommands /\ io.cmd \in {"SendFileProperties", "SendNspProperties"}
      BY <1>8 DEF SendFilePropertiesReturns, CallCommands
    <2>2. Fails \/ Rejected
      BY <1>8, <2>1, CommandFalse DEF SendFilePropertiesReturns
    <2>3. GivesUp
      BY <1>8, <2>1, GivesUpIs DEF SendFilePropertiesReturns
    <2>. QED
      BY <1>8, <2>1, <2>2, <2>3, ClientIs DEF SendFilePropertiesReturns, ReturnsFalse, ReturnRest
  <1>9. ASSUME NEW ok \in BOOLEAN, SendNspHeaderReturns(ok) PROVE ReturnsTrue \/ ReturnsFalse
    <2>1. io.cmd \in CallCommands /\ io.cmd = "SendNspHeader"
      BY <1>9 DEF SendNspHeaderReturns, CallCommands
    <2>2. remaining = 0 /\ nspMode = FALSE /\ remaining' = remaining /\ nspMode' = nspMode
      BY <1>9, <2>1, ClientIs DEF SendNspHeaderReturns, Console, CallShape, usbVars, TypeOK
    <2>3. CASE ok
      <3>1. At("status", "done") /\ io.status = "Success" /\ UNCHANGED eventVars
        BY <1>9, <2>3, CommandTrue DEF SendNspHeaderReturns
      <3>. QED
        BY <1>9, <2>1, <2>2, <2>3, <3>1, ClientIs
        DEF SendNspHeaderReturns, ReturnsTrue, ReturnRest, usbVars
    <2>4. CASE ~ok
      <3>1. Fails \/ Rejected
        BY <1>9, <2>1, <2>4, CommandFalse DEF SendNspHeaderReturns
      <3>2. GivesUp
        BY <1>9, <2>1, <2>4, GivesUpIs DEF SendNspHeaderReturns
      <3>. QED
        BY <1>9, <2>1, <2>2, <2>4, <3>1, <3>2, ClientIs
        DEF SendNspHeaderReturns, ReturnsFalse, ReturnRest, usbVars
    <2>. QED  BY <2>3, <2>4
  <1>10. ASSUME NEW ok \in BOOLEAN, ExtractedFsDumpReturns(ok) PROVE ReturnsTrue \/ ReturnsFalse
    <2>1. io.cmd \in CallCommands /\ io.cmd \in {"StartExtractedFsDump", "EndExtractedFsDump"}
      BY <1>10 DEF ExtractedFsDumpReturns, CallCommands
    <2>2. remaining = 0 /\ nspMode = FALSE /\ remaining' = remaining /\ nspMode' = nspMode
      BY <1>10, <2>1, ClientIs DEF ExtractedFsDumpReturns, Console, CallShape, usbVars, TypeOK
    <2>3. CASE ok
      <3>1. At("status", "done") /\ io.status = "Success" /\ UNCHANGED eventVars
        BY <1>10, <2>3, CommandTrue DEF ExtractedFsDumpReturns
      <3>2. CASE io.cmd = "StartExtractedFsDump"
        <4>1. job' = AfterFile(job)
          BY <1>10, <2>3, <3>2 DEF ExtractedFsDumpReturns
        <4>2. Advances(job.sent)
          BY <2>1, <4>1, ClientIs, AdvanceIs
        <4>. QED
          BY <1>10, <2>1, <2>2, <2>3, <3>1, <3>2, <4>2, ClientIs
          DEF ExtractedFsDumpReturns, ReturnsTrue, ReturnRest, usbVars
      <3>3. CASE io.cmd = "EndExtractedFsDump"
        BY <1>10, <2>1, <2>2, <2>3, <3>1, <3>3, ClientIs
        DEF ExtractedFsDumpReturns, ReturnsTrue, ReturnRest, usbVars
      <3>. QED  BY <2>1, <3>2, <3>3
    <2>4. CASE ~ok
      <3>1. Fails \/ Rejected
        BY <1>10, <2>1, <2>4, CommandFalse DEF ExtractedFsDumpReturns
      <3>2. IF io.cmd = "EndExtractedFsDump" THEN job' = NoJob ELSE GivesUp
        BY <1>10, <2>1, <2>4, GivesUpIs DEF ExtractedFsDumpReturns
      <3>. QED
        BY <1>10, <2>1, <2>2, <2>4, <3>1, <3>2, ClientIs
        DEF ExtractedFsDumpReturns, ReturnsFalse, ReturnRest, usbVars
    <2>. QED  BY <2>3, <2>4
  <1>. QED
    BY <1>1, <1>2, <1>3, <1>4, <1>5, <1>6, <1>7, <1>8, <1>9, <1>10 DEF Transfers

-----------------------------------------------------------------------------
(***************************************************************************)
(* Every step keeps the types and what the console believes.               *)
(***************************************************************************)
ConsoleType ==
    /\ init \in BOOLEAN /\ owner \in {"none", "client", "detect"}
    /\ hostAvailable \in BOOLEAN /\ session \in BOOLEAN /\ remaining \in Nat
    /\ nspMode \in BOOLEAN /\ speed \in BOOLEAN /\ exitFlag \in BOOLEAN
    /\ stateEvent \in BOOLEAN /\ timeoutEvent \in BOOLEAN /\ exitEvent \in BOOLEAN
    /\ detPc \in {"none", "wait", "handle", "session", "leaving", "ending"}
    /\ io \in IoRecords /\ mainPc \in {"closed", "run", "joining"} /\ job \in JobRecords
    /\ names \in 0..MaxNames
ToldType == told \subseteq [name : Names, data : Seq(Nat)]
HostType ==
    /\ cable \in BOOLEAN /\ link \in BOOLEAN
    /\ hPc \in {"down", "header", "block", "data", "reply", "replyData", "lastReply"}
    /\ hKind \in AllHostKinds /\ hCmd \in Commands \cup Statuses
    /\ hNsp \in [on : BOOLEAN, file : Nat, left : Int]
    /\ hFile \in Nat /\ hLeft \in Nat /\ fsOpen \in BOOLEAN
    /\ disk \in [Names -> FileRecords]

LEMMA TypeParts == /\ TypeOK => ConsoleType /\ ToldType /\ HostType
                   /\ ConsoleType' /\ ToldType' /\ HostType' => TypeOK'
  BY DEF TypeOK, ConsoleType, ToldType, HostType

LEMMA HostTypeStays == HostType /\ UNCHANGED <<busVars, hostVars>> => HostType'
  BY DEF HostType, busVars, hostVars

LEMMA EnteringKeepsConsole ==
    ASSUME SInv0, NEW cmd \in CallCommands, EntersWith(cmd)
    PROVE  Console' /\ TypeOK'
  <1>. USE DEF SInv0
  <1>. /\ io.cmd \in Commands \cup {"none", "data"} /\ JobDomain
       /\ job.kind \in {"none", "file", "fs", "nsp"} /\ job.todo \in Seq(Nat)
       /\ job.at \in Nat /\ job.name \in Nat /\ job.nsp \in Nat /\ job.sent \in Seq(Nat)
       /\ names \in Nat /\ MaxNames \in Nat /\ names <= MaxNames
    BY IoType, JobType, SessionAssumption DEF TypeOK
  <1>. TypeOK /\ Console /\ io.cmd = "none"
    BY DEF EntersWith, IInv, TransferOwned, NoIo
  <1>1. cmd = "SendFileProperties" => job.todo # <<>> /\ job.stage = "properties"
    BY DEF EntersWith, Console, JobShape, StageOf
  <1>2. cmd = "SendFileProperties" =>
           /\ Tail(job.todo) \in Seq(Nat) /\ Len(Tail(job.todo)) = Len(job.todo) - 1
           /\ \A i \in 1..Len(Tail(job.todo)) - 1 : Tail(job.todo)[i] <= Tail(job.todo)[i + 1]
           /\ Tail(job.todo) # <<>> => Head(job.todo) <= Tail(job.todo)[1]
    BY <1>1, TailShape DEF Console, TodoShape
  <1>3. cmd = "SendFileProperties" => names + 1 <= MaxNames
    <2>1. job.todo # <<>> => Len(job.todo) >= 1
      OBVIOUS
    <2>. QED  BY <1>1, <2>1 DEF Console, TodoShape, TypeOK
  <1>4. io'.cmd = cmd /\ job'.kind = job.kind /\ job'.stage = job.stage /\ job'.nsp = job.nsp
    BY DEF EntersWith, NewJob
  <1>5. IoOrder'
    BY <1>4 DEF EntersWith, CallRest, IoOrder, Console, CallCommands, Urb
  <1>6. Lives'
    <2>1. mainPc = "run"
      BY DEF EntersWith, Console, Lives, StageOf, CallCommands, NoJob, TypeOK
    <2>. QED
      BY <2>1 DEF EntersWith, CallRest, Lives, Console, InSession, busVars, eventVars
  <1>7. JobShape'
    <2>1. CASE cmd = "SendFileProperties"
      BY <1>1, <1>2, <1>3, <1>4, <2>1, SMTT(30) DEF EntersWith, NewJob, JobShape, Console, NoJob, TypeOK
    <2>2. CASE cmd # "SendFileProperties"
      BY <2>2, <1>4 DEF EntersWith, JobShape, Console, NoJob, StageOf, CallCommands
    <2>. QED  BY <2>1, <2>2
  <1>8. TodoShape'
    <2>1. CASE cmd = "SendFileProperties"
      <3>1. job'.todo = Tail(job.todo) /\ job'.at = Head(job.todo) /\ names' = names + 1
        BY <2>1 DEF EntersWith, NewJob
      <3>2. names + Len(job.todo) <= MaxNames /\ Len(job.todo) \in Nat
        BY DEF TodoShape, Console
      <3>3. names' + Len(job'.todo) <= MaxNames
        <4>1. Len(job'.todo) = Len(job.todo) - 1
          BY <1>2, <2>1, <3>1
        <4>2. \A l \in Nat : names + 1 + (l - 1) = names + l
          OBVIOUS
        <4>3. names' + Len(job'.todo) = names + 1 + (Len(job.todo) - 1)
          BY <3>1, <4>1, Zenon
        <4>. QED  BY <3>2, <4>2, <4>3, Zenon
      <3>. QED  BY <1>2, <2>1, <3>1, <3>3 DEF TodoShape
    <2>2. CASE cmd # "SendFileProperties"
      BY <2>2 DEF EntersWith, TodoShape, Console
    <2>. QED  BY <2>1, <2>2
  <1>9. CallShape'
    <2>1. CASE cmd = "SendFileProperties"
      BY <1>1, <1>4, <2>1, SMTT(30) DEF EntersWith, NewJob, CallShape, StageOf, Console, JobShape, TypeOK,
                              Resetting
    <2>2. CASE cmd # "SendFileProperties"
      <3>1. job' = job /\ job.stage = StageOf[cmd] /\ io'.step = (IF cmd = "data" THEN "data" ELSE "header")
        BY <2>2 DEF EntersWith
      <3>2. cmd = "data" => io'.name = job.name /\ job.name > job.nsp /\ remaining' # 0
        BY <3>1 DEF EntersWith, StageOf, Console, JobShape
      <3>3. cmd = "SendNspProperties" =>
              io'.name = job.nsp /\ io'.size = job.todo[Len(job.todo)] /\ ~nspMode' /\ remaining' = 0
        BY DEF EntersWith
      <3>4. cmd \in {"SendNspHeader", "CancelFileTransfer", "StartExtractedFsDump",
                     "EndExtractedFsDump"} => ~nspMode' /\ remaining' = 0
        BY DEF EntersWith, Resetting
      <3>. QED  BY <1>4, <2>2, <3>1, <3>2, <3>3, <3>4 DEF CallShape
    <2>. QED  BY <2>1, <2>2
  <1>10. ConsoleType'
    <2>1. job' \in JobRecords /\ names' \in 0..MaxNames
      BY <1>3 DEF EntersWith, TypeOK
    <2>2. nspMode' \in BOOLEAN
      BY DEF EntersWith
    <2>3. remaining' \in Nat /\ io' \in IoRecords /\ owner' = "client"
      BY DEF EntersWith, TypeOK
    <2>. QED
      BY <2>1, <2>2, <2>3 DEF ConsoleType, TypeOK, EntersWith, CallRest, eventVars
  <1>11. ToldType' /\ HostType'
    BY TypeParts, HostTypeStays DEF EntersWith, CallRest, ToldType
  <1>. QED
    BY <1>5, <1>6, <1>7, <1>8, <1>9, <1>10, <1>11, TypeParts DEF Console

LEMMA RefusingKeepsConsole ==
    ASSUME SInv0, Refuses
    PROVE  Console' /\ TypeOK'
  <1>. USE DEF SInv0
  <1>. /\ io.cmd \in Commands \cup {"none", "data"} /\ JobDomain
       /\ job.kind \in {"none", "file", "fs", "nsp"} /\ job.todo \in Seq(Nat)
       /\ job.at \in Nat /\ job.name \in Nat /\ job.nsp \in Nat /\ job.sent \in Seq(Nat)
       /\ names \in Nat /\ MaxNames \in Nat /\ names <= MaxNames
    BY IoType, JobType, SessionAssumption DEF TypeOK
  <1>. TypeOK /\ Console /\ io.cmd = "none" /\ owner = "none"
    BY DEF Refuses, IInv, TransferOwned, NoIo
  <1>1. io' = io /\ owner' = owner /\ names' = names /\ CallRest
    BY DEF Refuses
  <1>2. \/ GivesUp
        \/ job' = NoJob
    BY DEF Refuses
  <1>3. job' \in JobRecords
    <2>1. NoJob \in JobRecords
      BY DEF NoJob, JobRecords
    <2>. QED  BY <1>2, <2>1 DEF GivesUp
  <1>4. IoOrder'
    BY <1>1 DEF CallRest, IoOrder, Console
  <1>5. remaining' = remaining \/ remaining' = 0
    BY DEF Refuses
  <1>6. Lives'
    <2>1. mainPc # "run" => job' = NoJob
      BY <1>2 DEF GivesUp, Console, Lives, NoJob
    <2>. QED
      BY <1>1, <1>5, <2>1 DEF CallRest, Lives, Console, InSession, busVars, eventVars
  <1>7. JobShape'
    <2>1. CASE GivesUp
      BY <1>1, <2>1 DEF GivesUp, NewJob, JobShape, Console, NoJob, TypeOK
    <2>2. CASE job' = NoJob
      BY <1>1, <2>2 DEF JobShape, Console, NoJob, TypeOK
    <2>. QED  BY <1>2, <2>1, <2>2
  <1>8. TodoShape'
    <2>1. CASE GivesUp
      BY <1>1, <2>1 DEF GivesUp, NewJob, TodoShape, Console
    <2>2. CASE job' = NoJob
      BY <1>1, <2>2 DEF TodoShape, Console, NoJob, TypeOK
    <2>. QED  BY <1>2, <2>1, <2>2
  <1>9. CallShape'
    BY <1>1 DEF CallShape
  <1>10. ConsoleType'
    <2>1. nspMode' \in BOOLEAN
      BY DEF Refuses, TypeOK
    <2>. QED
      BY <1>1, <1>3, <1>5, <2>1 DEF ConsoleType, TypeOK, CallRest, eventVars
  <1>11. ToldType' /\ HostType'
    BY <1>1, TypeParts, HostTypeStays DEF CallRest, ToldType
  <1>. QED
    BY <1>4, <1>6, <1>7, <1>8, <1>9, <1>10, <1>11, TypeParts DEF Console

LEMMA AdvancingKeepsJob ==
    ASSUME SInv0, NEW sent, Advances(sent), io' = NoIo, names' = names,
           job.kind # "none", job.kind # "nsp" => sent = <<>>
    PROVE  JobShape' /\ TodoShape'
  <1>. /\ job.kind \in {"none", "file", "fs", "nsp"} /\ JobDomain /\ names \in Nat
       /\ MaxNames \in Nat /\ names <= MaxNames
    BY JobType, SessionAssumption DEF SInv0, TypeOK
  <1>. io'.cmd = "none" /\ JobShape /\ TodoShape
    BY DEF NoIo, SInv0, Console
  <1>1. CASE job.todo # <<>> /\ NewJob(job.kind, "properties", job.todo, job.at, job.name,
                                       job.nsp, sent)
    BY <1>1 DEF NewJob, JobShape, TodoShape
  <1>2. CASE job' = NoJob
    BY <1>2 DEF JobShape, TodoShape, NoJob
  <1>3. CASE /\ job.todo = <<>> /\ job.kind = "fs"
             /\ NewJob(job.kind, "end", job.todo, job.at, job.name, job.nsp, sent)
    BY <1>3 DEF NewJob, JobShape, TodoShape
  <1>4. CASE /\ job.todo = <<>> /\ job.kind = "nsp"
             /\ NewJob(job.kind, "header", job.todo, job.at, job.name, job.nsp, sent)
    BY <1>4 DEF NewJob, JobShape, TodoShape
  <1>. QED
    BY <1>1, <1>2, <1>3, <1>4 DEF Advances

LEMMA GivingUpKeepsJob ==
    ASSUME SInv0, GivesUp \/ job' = NoJob, io' = NoIo, names' = names
    PROVE  JobShape' /\ TodoShape' /\ job' \in JobRecords
  <1>. /\ job.kind \in {"none", "file", "fs", "nsp"} /\ JobDomain /\ names \in Nat
       /\ MaxNames \in Nat /\ names <= MaxNames
    BY JobType, SessionAssumption DEF SInv0, TypeOK
  <1>. io'.cmd = "none" /\ JobShape /\ TodoShape
    BY DEF NoIo, SInv0, Console
  <1>1. CASE GivesUp
    <2>1. JobShape' /\ job' \in JobRecords
      BY <1>1 DEF GivesUp, NewJob, JobShape, NoJob
    <2>2. TodoShape'
      BY <1>1 DEF GivesUp, NewJob, TodoShape
    <2>. QED  BY <2>1, <2>2
  <1>2. CASE job' = NoJob
    <2>1. NoJob \in JobRecords
      BY DEF NoJob, JobRecords
    <2>2. JobShape'
      BY <1>2 DEF JobShape, NoJob
    <2>3. TodoShape'
      BY <1>2 DEF TodoShape, NoJob
    <2>. QED  BY <1>2, <2>1, <2>2, <2>3
  <1>. QED
    BY <1>1, <1>2

LEMMA ReturningKeepsConsole ==
    ASSUME SInv0, owner = "client", owner' = "none", io' = NoIo, ReturnRest,
           UNCHANGED <<stateEvent, exitEvent, exitFlag>>, timeoutEvent' \in BOOLEAN,
           JobShape', TodoShape', job' \in JobRecords,
           remaining' \in Nat, nspMode' \in BOOLEAN, ToldType'
    PROVE  Console' /\ TypeOK'
  <1>. TypeOK /\ Console
    BY DEF SInv0
  <1>1. io'.cmd = "none" /\ io'.step = "none" /\ io' \in IoRecords
    BY NoIoIo DEF NewIo
  <1>2. session /\ io.cmd \notin {"none", "StartSession", "EndSession"}
    BY DEF SInv0, IInv, TransferOwned, NoIo, IoOrder, Console, CallShape
  <1>3. detPc \notin {"session", "ending"}
    BY <1>2 DEF Console, IoOrder
  <1>4. IoOrder'
    BY <1>1, <1>3 DEF ReturnRest, IoOrder
  <1>5. mainPc = "run"
    <2>1. StageOf[io.cmd] # "none"
      BY <1>2, IoType DEF StageOf, Commands
    <2>. QED  BY <2>1 DEF Console, CallShape, Lives, NoJob
  <1>6. Lives'
    BY <1>2, <1>5 DEF ReturnRest, Lives, Console, busVars
  <1>7. CallShape'
    BY DEF CallShape
  <1>8. ConsoleType'
    BY <1>1 DEF ConsoleType, TypeOK, ReturnRest
  <1>9. HostType'
    BY TypeParts, HostTypeStays DEF ReturnRest
  <1>. QED
    BY <1>4, <1>6, <1>7, <1>8, <1>9, TypeParts DEF Console

\* The name of what a call stored.
LEMMA ToldName ==
    ASSUME SInv0, owner = "client"
    PROVE  /\ io.cmd \in CallCommands /\ job.kind # "none"
           /\ io.cmd \in {"SendFileProperties", "data"} => io.name \in Names
           /\ io.cmd = "SendNspHeader" => job.nsp \in Names
           /\ io.cmd \in {"SendNspProperties", "SendNspHeader"} => job.kind = "nsp"
           /\ io.cmd \in {"SendNspProperties", "StartExtractedFsDump", "SendFileProperties"} =>
                 (job.kind # "nsp" => job.sent = <<>>)
  <1>. TypeOK /\ Console /\ MaxNames \in Nat
    BY SessionAssumption DEF SInv0
  <1>1. io.cmd \in CallCommands
    BY IoType DEF SInv0, IInv, TransferOwned, NoIo, IoOrder, Console, CallCommands, Commands
  <1>2. job.kind # "none" /\ job.stage = StageOf[io.cmd]
    BY <1>1, ClientIs DEF Console, CallShape
  <1>3. io.cmd \in {"SendFileProperties", "data"} => io.name \in Names
    BY JobType DEF Console, CallShape, JobShape, Names, TypeOK
  <1>4. io.cmd = "SendNspHeader" => job.nsp \in Names
    BY <1>2, JobType DEF Console, JobShape, Names, TypeOK, StageOf
  <1>5. io.cmd \in {"SendNspProperties", "SendNspHeader"} => job.kind = "nsp"
    BY <1>2 DEF Console, JobShape, StageOf
  <1>6. io.cmd \in {"SendNspProperties", "StartExtractedFsDump", "SendFileProperties"} =>
                 (job.kind # "nsp" => job.sent = <<>>)
    BY <1>2 DEF Console, JobShape, StageOf
  <1>. QED  BY <1>1, <1>2, <1>3, <1>4, <1>5, <1>6

LEMMA ReturnsKeepConsole ==
    ASSUME SInv0, ReturnsTrue \/ ReturnsFalse \/ Chunk \/ File
    PROVE  Console' /\ TypeOK'
  <1>. TypeOK /\ Console /\ names \in Nat
    BY DEF SInv0, TypeOK
  <1>1. owner = "client" /\ owner' = "none" /\ io' = NoIo /\ ReturnRest /\ names' = names
    BY DEF ReturnsTrue, ReturnsFalse, Chunk, File, ReturnRest
  <1>2. UNCHANGED <<stateEvent, exitEvent, exitFlag>> /\ timeoutEvent' \in BOOLEAN
    BY DEF ReturnsTrue, ReturnsFalse, Chunk, File, Fails, Rejected, eventVars, TypeOK
  <1>3. JobShape' /\ TodoShape' /\ job' \in JobRecords
    <2>1. CASE ReturnsFalse
      BY <1>1, <2>1, GivingUpKeepsJob DEF ReturnsFalse
    <2>2. CASE ReturnsTrue
      <3>1. CASE job' = NoJob
        BY <1>1, <3>1, GivingUpKeepsJob
      <3>2. CASE /\ io.cmd \in {"SendNspProperties", "StartExtractedFsDump", "SendFileProperties"}
                 /\ Advances(job.sent)
        BY <1>1, <3>2, ToldName, AdvancingKeepsJob DEF Advances
      <3>3. CASE /\ io.cmd = "SendFileProperties" /\ job' \in JobRecords
                 /\ NewJob(job.kind, "data", job.todo, job.at, job.name, job.nsp, job.sent)
        <4>1. job.name > job.nsp
          BY <1>1, <3>3 DEF Console, CallShape
        <4>2. JobShape'
          BY <1>1, <3>3, <4>1, ToldName DEF NewJob, JobShape, Console
        <4>3. TodoShape'
          BY <1>1, <3>3 DEF NewJob, TodoShape, Console
        <4>. QED  BY <3>3, <4>2, <4>3
      <3>. QED  BY <2>2, <3>1, <3>2, <3>3 DEF ReturnsTrue
    <2>3. CASE Chunk
      <3>1. /\ job' \in JobRecords /\ job.stage = "data"
            /\ NewJob(job.kind, job.stage, job.todo, job.at, job.name, job.nsp,
                      Append(job.sent, io.name))
        BY <1>1, <2>3, ClientIs DEF Chunk, CallCommands, StageOf
      <3>2. JobShape'
        BY <1>1, <3>1, ToldName DEF NewJob, JobShape, Console
      <3>3. TodoShape'
        BY <1>1, <3>1 DEF NewJob, TodoShape, Console
      <3>. QED  BY <3>1, <3>2, <3>3
    <2>4. CASE File
      <3>. DEFINE sent == IF job.kind = "nsp" THEN Append(job.sent, io.name) ELSE <<>>
      <3>1. Advances(sent) /\ (job.kind # "nsp" => sent = <<>>)
        BY <2>4 DEF File
      <3>. HIDE DEF sent
      <3>. QED  BY <1>1, <3>1, ToldName, AdvancingKeepsJob DEF Advances
    <2>. QED  BY <2>1, <2>2, <2>3, <2>4
  <1>4. remaining' \in Nat
    BY IoType DEF ReturnsTrue, ReturnsFalse, Chunk, File, TypeOK
  <1>5. nspMode' \in BOOLEAN
    BY DEF ReturnsTrue, ReturnsFalse, Chunk, File, TypeOK
  <1>6. ToldType'
    <2>. ToldType /\ job.sent \in Seq(Nat) /\ io.name \in Nat
      BY TypeParts, JobType, IoType
    <2>1. Append(job.sent, io.name) \in Seq(Nat) /\ <<>> \in Seq(Nat)
      OBVIOUS
    <2>2. CASE ReturnsFalse \/ Chunk
      BY <2>2 DEF ReturnsFalse, Chunk, ToldType
    <2>3. CASE ReturnsTrue
      <3>1. io.cmd = "SendFileProperties" => [name |-> io.name, data |-> <<>>] \in [name : Names, data : Seq(Nat)]
        BY <1>1, <2>1, ToldName
      <3>2. io.cmd = "SendNspHeader" => [name |-> job.nsp, data |-> job.sent] \in [name : Names, data : Seq(Nat)]
        BY <1>1, <2>1, ToldName
      <3>3. \/ told' = told
            \/ io.cmd = "SendFileProperties" /\ told' = told \cup {[name |-> io.name, data |-> <<>>]}
            \/ io.cmd = "SendNspHeader" /\ told' = told \cup {[name |-> job.nsp, data |-> job.sent]}
        BY <2>3 DEF ReturnsTrue
      <3>. QED  BY <3>1, <3>2, <3>3 DEF ToldType
    <2>4. CASE File
      <3>. DEFINE stored == [name |-> io.name, data |-> Append(job.sent, io.name)]
      <3>1. stored \in [name : Names, data : Seq(Nat)]
        BY <1>1, <2>1, <2>4, ToldName DEF File
      <3>2. told' = told \/ told' = told \cup {stored}
        BY <2>4 DEF File
      <3>. HIDE DEF stored
      <3>. QED  BY <3>1, <3>2 DEF ToldType
    <2>. QED  BY <2>2, <2>3, <2>4
  <1>. QED
    BY <1>1, <1>2, <1>3, <1>4, <1>5, <1>6, ReturningKeepsConsole

LEMMA ContinuingKeepsConsole ==
    ASSUME SInv0, Continues \/ LastChunk
    PROVE  Console' /\ TypeOK'
  <1>. TypeOK /\ Console
    BY DEF SInv0
  <1>1. /\ io' \in IoRecords /\ io'.cmd = io.cmd /\ io'.step # "none" /\ io'.urb # "none"
        /\ io'.name = io.name /\ io'.size = io.size /\ io.cmd # "none"
    BY DEF Continues, LastChunk, NewIo, Urb, SInv0, IInv, TransferOwned, NoIo, Console, IoOrder
  <1>2. /\ UNCHANGED <<hostAvailable, session, nspMode, speed, eventVars, threadVars, appVars,
                       busVars, hostVars>>
        /\ remaining' = remaining \/ (LastChunk /\ remaining = 1 /\ remaining' = 0)
    BY DEF Continues, LastChunk, usbVars
  <1>3. IoOrder'
    BY <1>1, <1>2 DEF IoOrder, Console, Continues, LastChunk, NewIo, threadVars
  <1>4. Lives'
    BY <1>2 DEF Lives, Console, threadVars, appVars, busVars, eventVars
  <1>5. JobShape' /\ TodoShape'
    BY <1>1, <1>2 DEF JobShape, TodoShape, Console, appVars
  <1>6. CallShape'
    <2>1. CASE Continues
      <3>1. io.cmd # "data" /\ remaining' = remaining
        BY <2>1 DEF Continues, IoOrder, Console, usbVars
      <3>. QED  BY <1>1, <1>2, <3>1 DEF CallShape, Console, appVars, threadVars
    <2>2. CASE LastChunk
      <3>1. io.cmd = "data" /\ remaining' = 0 /\ io'.step = "last"
        BY <2>2 DEF LastChunk, NewIo
      <3>. QED  BY <1>1, <1>2, <3>1 DEF CallShape, Console, appVars, threadVars
    <2>. QED  BY <2>1, <2>2
  <1>7. ConsoleType'
    BY <1>1, <1>2 DEF ConsoleType, TypeOK, appVars, threadVars, eventVars
  <1>8. ToldType' /\ HostType'
    BY <1>2, TypeParts, HostTypeStays DEF ToldType, appVars
  <1>. QED
    BY <1>3, <1>4, <1>5, <1>6, <1>7, <1>8, TypeParts DEF Console

LEMMA EventSet ==
    \A old, new : old \in BOOLEAN /\ (new = old \/ new = TRUE \/ new = FALSE) => new \in BOOLEAN
  OBVIOUS

LEMMA SessionReturnsKeepsConsole ==
    ASSUME SInv0, EndSessionReturns \/ \E ok \in BOOLEAN : StartSessionReturns(ok)
    PROVE  Console' /\ TypeOK'
  <1>. TypeOK /\ Console
    BY DEF SInv0
  <1>1. /\ io' = NoIo /\ owner = "detect" /\ owner' = "none"
        /\ UNCHANGED <<mainPc, init, appVars, busVars, hostVars, nspMode, stateEvent>>
    BY DEF EndSessionReturns, StartSessionReturns, SInv0, IInv, TransferOwned, CommandReturns,
           TransferFails, eventVars
  <1>2. io'.cmd = "none" /\ io'.step = "none" /\ io' \in IoRecords
    BY <1>1, NoIoIo DEF NewIo
  <1>3. JobShape' /\ TodoShape'
    <2>1. io.cmd # "SendFileProperties"
      BY <1>1 DEF EndSessionReturns, StartSessionReturns
    <2>. QED  BY <1>1, <1>2, <2>1 DEF JobShape, TodoShape, Console, appVars
  <1>4. CallShape'
    BY <1>1 DEF CallShape
  <1>5. ToldType' /\ HostType'
    BY <1>1, TypeParts, HostTypeStays DEF ToldType, appVars
  <1>6. CASE EndSessionReturns
    <2>1. /\ detPc = "ending" /\ detPc' = "none" /\ ~session' /\ remaining' = 0 /\ ~exitFlag'
          /\ exitEvent' = exitEvent /\ hostAvailable' = FALSE /\ speed' = FALSE
          /\ timeoutEvent' \in BOOLEAN /\ session' = FALSE /\ exitFlag' = FALSE
      BY <1>6 DEF EndSessionReturns, DropSession, SInv0, IInv, TransferOwned, TypeOK
    <2>2. IoOrder'
      BY <1>1, <1>2, <2>1 DEF IoOrder
    <2>3. Lives'
      BY <1>1, <2>1 DEF Lives, Console, busVars, appVars
    <2>4. ConsoleType'
      BY <1>1, <1>2, <2>1 DEF ConsoleType, TypeOK, appVars
    <2>. QED  BY <1>3, <1>4, <1>5, <2>2, <2>3, <2>4, TypeParts DEF Console
  <1>7. ASSUME NEW ok \in BOOLEAN, StartSessionReturns(ok) PROVE Console' /\ TypeOK'
    <2>1. io.cmd = "StartSession" /\ detPc = "session" /\ ~session /\ remaining = 0
      BY <1>7 DEF StartSessionReturns, SInv0, IInv, TransferOwned
    <2>2. ~exitFlag
      BY <2>1 DEF SInv0, IInv, ThreadGone
    <2>3. init /\ hostAvailable
      BY <2>1 DEF Console, Lives, SInv0, IInv, ThreadGone
    <2>4. /\ exitEvent' \in BOOLEAN /\ exitFlag' \in BOOLEAN /\ timeoutEvent' \in BOOLEAN
          /\ exitEvent' \/ exitFlag' => exitEvent
          /\ exitFlag' => ~ok
      <3>0. CommandReturns(ok)
        BY <1>7 DEF StartSessionReturns
      <3>1. /\ exitEvent' = exitEvent \/ exitEvent' = FALSE
            /\ exitFlag' = exitFlag \/ (exitFlag' = TRUE /\ exitEvent /\ ~ok)
            /\ timeoutEvent' = timeoutEvent \/ timeoutEvent' = TRUE
        BY <3>0 DEF CommandReturns, TransferFails, eventVars
      <3>2. exitEvent \in BOOLEAN /\ exitFlag \in BOOLEAN /\ timeoutEvent \in BOOLEAN
        BY DEF TypeOK
      <3>3. exitEvent' \in BOOLEAN /\ exitFlag' \in BOOLEAN /\ timeoutEvent' \in BOOLEAN
        BY <3>1, <3>2, EventSet
      <3>4. (exitEvent' \/ exitFlag' => exitEvent) /\ (exitFlag' => ~ok)
        BY <2>2, <3>1
      <3>. QED  BY <3>3, <3>4
    <2>5. detPc' = "wait" \/ (detPc' = "leaving" /\ exitFlag')
      BY <1>7 DEF StartSessionReturns, AfterSession
    <2>6. /\ session' = ok /\ speed' = ok /\ UNCHANGED <<hostAvailable, remaining>>
      BY <1>7 DEF StartSessionReturns
    <2>7. IoOrder'
      BY <1>1, <1>2, <2>5 DEF IoOrder
    <2>8. Lives'
      BY <1>1, <2>1, <2>3, <2>4, <2>5, <2>6 DEF Lives, Console, busVars, appVars
    <2>9. ConsoleType'
      BY <1>1, <1>2, <2>4, <2>5, <2>6 DEF ConsoleType, TypeOK, appVars
    <2>. QED  BY <1>3, <1>4, <1>5, <2>7, <2>8, <2>9, TypeParts DEF Console
  <1>. QED
    BY <1>6, <1>7

LEMMA DetectionKeepsConsole ==
    ASSUME SInv0, Detection
    PROVE  Console' /\ TypeOK'
  <1>. TypeOK /\ Console
    BY DEF SInv0
  <1>1. UNCHANGED <<nspMode, mainPc, init, appVars, busVars, hostVars>>
    BY DEF Detection, DetectionWakes, DetectionHandles, DetectionLeaves, DropSession, usbVars
  <1>2. ToldType' /\ HostType'
    BY <1>1, TypeParts, HostTypeStays DEF ToldType, appVars
  <1>3. CASE DetectionWakes
    <2>0. /\ stateEvent' = stateEvent \/ stateEvent' = FALSE
          /\ timeoutEvent' = timeoutEvent \/ timeoutEvent' = FALSE
          /\ exitEvent' = exitEvent \/ exitEvent' = FALSE
      BY <1>3 DEF DetectionWakes
    <2>1. /\ UNCHANGED <<usbVars, exitFlag, owner, io>> /\ detPc = "wait"
          /\ detPc' \in {"handle", "leaving"} /\ (detPc' = "leaving" => exitEvent)
          /\ exitEvent' \in BOOLEAN /\ stateEvent' \in BOOLEAN /\ timeoutEvent' \in BOOLEAN
          /\ (exitEvent' => exitEvent)
      <3>1. /\ UNCHANGED <<usbVars, exitFlag, owner, io>> /\ detPc = "wait"
            /\ detPc' \in {"handle", "leaving"} /\ (detPc' = "leaving" => exitEvent)
        BY <1>3 DEF DetectionWakes
      <3>2. exitEvent \in BOOLEAN /\ stateEvent \in BOOLEAN /\ timeoutEvent \in BOOLEAN
        BY DEF TypeOK
      <3>3. exitEvent' \in BOOLEAN /\ stateEvent' \in BOOLEAN /\ timeoutEvent' \in BOOLEAN
        BY <2>0, <3>2, EventSet
      <3>4. exitEvent' => exitEvent
        BY <2>0
      <3>. QED  BY <3>1, <3>3, <3>4
    <2>2. IoOrder' /\ JobShape' /\ TodoShape' /\ CallShape'
      BY <1>1, <2>1 DEF IoOrder, JobShape, TodoShape, CallShape, Console, usbVars, appVars
    <2>3. Lives'
      BY <1>1, <2>1 DEF Lives, Console, usbVars, busVars, appVars
    <2>4. ConsoleType'
      BY <1>1, <2>1 DEF ConsoleType, TypeOK, usbVars, appVars
    <2>. QED  BY <1>2, <2>2, <2>3, <2>4, TypeParts DEF Console
  <1>4. ASSUME owner = "none", NEW cmd \in {"none", "StartSession", "EndSession"},
               io'.cmd = cmd, io' \in IoRecords,
               cmd = "none" => io' = NoIo /\ owner' = "none" /\ detPc' \notin {"session", "ending"},
               cmd = "StartSession" => io'.step = "header" /\ io'.urb = Urb /\ owner' = "detect"
                                       /\ detPc' = "session",
               cmd = "EndSession" => io'.step = "header" /\ io'.urb = Urb /\ owner' = "detect"
                                     /\ detPc' = "ending"
        PROVE  IoOrder' /\ JobShape' /\ TodoShape' /\ CallShape'
    <2>1. IoOrder'
      BY <1>4 DEF IoOrder, Urb, NoIo
    <2>2. io.cmd = "none"
      BY <1>4 DEF SInv0, IInv, TransferOwned, NoIo
    <2>3. JobShape' /\ TodoShape'
      BY <1>1, <1>4, <2>2 DEF JobShape, TodoShape, Console, appVars
    <2>4. CallShape'
      BY <1>4 DEF CallShape
    <2>. QED  BY <2>1, <2>3, <2>4
  <1>5. CASE DetectionHandles
    <2>1. /\ owner = "none" /\ session' = FALSE /\ remaining' = 0 /\ speed' = FALSE
          /\ hostAvailable' = cable /\ UNCHANGED eventVars /\ detPc = "handle"
      BY <1>5 DEF DetectionHandles, DropSession
    <2>2. IoOrder' /\ JobShape' /\ TodoShape' /\ CallShape' /\ io' \in IoRecords
          /\ owner' \in {"none", "detect"} /\ detPc' \in {"wait", "session"}
          /\ (detPc' = "session" => cable)
      <3>1. CASE cable
        <4>1. NewIo("StartSession", "header", Urb, 0, 0, "none") /\ io' \in IoRecords
          BY <1>5, <3>1, CommandIo DEF DetectionHandles, Commands
        <4>. QED  BY <1>4, <1>5, <3>1, <4>1 DEF DetectionHandles, NewIo
      <3>2. CASE ~cable
        <4>1. io' = io /\ owner' = "none" /\ detPc' = "wait" /\ io = NoIo
          BY <1>5, <2>1, <3>2 DEF DetectionHandles, SInv0, IInv, TransferOwned
        <4>2. io'.cmd = "none" /\ io' \in IoRecords /\ io' = NoIo
          BY <4>1 DEF NoIo, TypeOK
        <4>. QED  BY <1>4, <2>1, <4>1, <4>2
      <3>. QED  BY <3>1, <3>2
    <2>3. mainPc # "closed" /\ ~exitFlag
      BY <2>1 DEF SInv0, IInv, ThreadGone
    <2>4. Lives'
      BY <1>1, <2>1, <2>2, <2>3 DEF Lives, Console, eventVars, busVars, appVars
    <2>5. ConsoleType'
      BY <1>1, <2>1, <2>2 DEF ConsoleType, TypeOK, eventVars, appVars
    <2>. QED  BY <1>2, <2>2, <2>4, <2>5, TypeParts DEF Console
  <1>6. CASE DetectionLeaves
    <2>1. /\ owner = "none" /\ UNCHANGED <<stateEvent, timeoutEvent, exitEvent>>
          /\ detPc = "leaving"
      BY <1>6 DEF DetectionLeaves
    <2>2. mainPc # "run"
      BY <2>1 DEF Console, Lives
    <2>3. CASE hostAvailable /\ session /\ init
      <3>1. NewIo("EndSession", "header", Urb, 0, 0, "none") /\ io' \in IoRecords
        BY <1>6, <2>3, CommandIo DEF DetectionLeaves, Commands
      <3>2. owner' = "detect" /\ detPc' = "ending" /\ UNCHANGED <<usbVars, exitFlag>>
        BY <1>6, <2>3 DEF DetectionLeaves
      <3>3. IoOrder' /\ JobShape' /\ TodoShape' /\ CallShape'
        BY <1>4, <2>1, <3>1, <3>2 DEF NewIo
      <3>4. Lives'
        BY <1>1, <2>1, <2>2, <3>2 DEF Lives, Console, usbVars, busVars, appVars
      <3>5. ConsoleType'
        BY <1>1, <2>1, <3>1, <3>2 DEF ConsoleType, TypeOK, usbVars, appVars
      <3>. QED  BY <1>2, <3>3, <3>4, <3>5, TypeParts DEF Console
    <2>4. CASE ~(hostAvailable /\ session /\ init)
      <3>1. /\ owner' = "none" /\ detPc' = "none" /\ hostAvailable' = FALSE /\ exitFlag' = FALSE
            /\ session' = FALSE /\ remaining' = 0 /\ speed' = FALSE /\ io' = io
        BY <1>6, <2>1, <2>4 DEF DetectionLeaves, DropSession
      <3>2. io'.cmd = "none" /\ io' = NoIo /\ io' \in IoRecords
        BY <2>1, <3>1 DEF SInv0, IInv, TransferOwned, NoIo, TypeOK
      <3>3. IoOrder' /\ JobShape' /\ TodoShape' /\ CallShape'
        BY <1>4, <2>1, <3>1, <3>2
      <3>4. Lives'
        BY <1>1, <2>1, <2>2, <3>1 DEF Lives, Console, busVars, appVars
      <3>5. ConsoleType'
        BY <1>1, <2>1, <3>1, <3>2 DEF ConsoleType, TypeOK, appVars
      <3>. QED  BY <1>2, <3>3, <3>4, <3>5, TypeParts DEF Console
    <2>. QED  BY <2>3, <2>4
  <1>. QED
    BY <1>3, <1>5, <1>6 DEF Detection

LEMMA MainKeepsConsole ==
    ASSUME SInv0, Main
    PROVE  Console' /\ TypeOK'
  <1>. TypeOK /\ Console
    BY DEF SInv0
  <1>1. UNCHANGED <<usbVars, exitFlag, owner, io, appVars, cable, hostVars>>
        /\ \/ link' = link /\ mainPc' # "closed"
           \/ link' = FALSE /\ mainPc' = "closed"
    BY DEF Main, Initialize, Exit, ExitLocks, busVars, eventVars
  <1>2. ToldType' /\ HostType'
    BY <1>1 DEF ToldType, HostType, TypeOK, appVars, hostVars
  <1>3. detPc' \in {"wait", detPc}
    BY DEF Main, Initialize, Exit, ExitLocks
  <1>4. IoOrder'
    BY <1>1, <1>3 DEF IoOrder, Console
  <1>5. JobShape' /\ TodoShape'
    BY <1>1 DEF JobShape, TodoShape, Console, appVars
  <1>6. CallShape'
    BY <1>1 DEF CallShape, Console, usbVars, appVars
  <1>7. job = NoJob
    BY DEF Main, Initialize, Exit, ExitLocks, Console, Lives
  <1>8. Lives'
    BY <1>1, <1>7
    DEF Main, Initialize, Exit, ExitLocks, Lives, Console, usbVars, appVars, SInv0, IInv,
        ThreadGone, eventVars
  <1>9. ConsoleType'
    <2>1. /\ init' = init \/ init' = TRUE \/ init' = FALSE
          /\ exitEvent' = exitEvent \/ exitEvent' = TRUE \/ exitEvent' = FALSE
          /\ timeoutEvent' = timeoutEvent \/ timeoutEvent' = FALSE
          /\ stateEvent' = stateEvent \/ stateEvent' = cable
          /\ mainPc' \in {"closed", "run", "joining"}
      BY DEF Main, Initialize, Exit, ExitLocks, eventVars
    <2>2. /\ init \in BOOLEAN /\ exitEvent \in BOOLEAN /\ timeoutEvent \in BOOLEAN
          /\ stateEvent \in BOOLEAN /\ cable \in BOOLEAN
      BY DEF TypeOK
    <2>3. /\ init' \in BOOLEAN /\ exitEvent' \in BOOLEAN /\ timeoutEvent' \in BOOLEAN
          /\ stateEvent' \in BOOLEAN
      BY <2>1, <2>2, EventSet
    <2>. QED
      BY <1>1, <1>3, <2>1, <2>3 DEF ConsoleType, TypeOK, usbVars, appVars
  <1>. QED
    BY <1>2, <1>4, <1>5, <1>6, <1>8, <1>9, TypeParts DEF Console

LEMMA LayoutTypes ==
    ASSUME NEW kind, NEW ends \in LayoutsOf(kind)
    PROVE  /\ ends \in Seq(Nat) /\ ends # <<>> /\ Len(ends) \in Nat /\ ends[1] \in Nat
           /\ \A i \in 1..Len(ends) - 1 : ends[i] <= ends[i + 1]
  <1>1. IsLayout(ends)
    BY SessionAssumption DEF LayoutsOf
  <1>. QED  BY <1>1 DEF IsLayout

LEMMA ApplicationKeepsConsole ==
    ASSUME SInv0, Application
    PROVE  Console' /\ TypeOK'
  <1>. TypeOK /\ Console /\ names \in Nat /\ MaxNames \in Nat
    BY SessionAssumption DEF SInv0, TypeOK
  <1>1. UNCHANGED <<usbVars, eventVars, threadVars, io, told, busVars, hostVars>>
    BY DEF Application, StartJob, AbortJob
  <1>2. ToldType' /\ HostType'
    BY <1>1, TypeParts, HostTypeStays DEF ToldType
  <1>3. IoOrder'
    BY <1>1 DEF IoOrder, Console, threadVars
  <1>4. owner # "client"
    <2>1. CASE AbortJob
      BY <2>1 DEF AbortJob
    <2>2. CASE job = NoJob
      <3>1. SUFFICES ASSUME owner = "client" PROVE FALSE
        OBVIOUS
      <3>2. io.cmd \in CallCommands
        BY <3>1, ToldName
      <3>. QED  BY <2>2, <3>2, ClientIs DEF NoJob
    <2>. QED  BY <2>1, <2>2 DEF Application, StartJob
  <1>5. CallShape'
    BY <1>1, <1>4 DEF CallShape, threadVars
  <1>6. ASSUME NEW kind \in JobKinds, NEW ends \in LayoutsOf(kind), StartJob(kind, ends)
        PROVE  JobShape' /\ TodoShape' /\ job' \in JobRecords /\ names' \in 0..MaxNames
    <2>1. kind \in {"file", "fs", "nsp"}
      BY SessionAssumption
    <2>. DEFINE stage == CASE kind = "file" -> "properties" [] kind = "fs" -> "start"
                           [] kind = "nsp" -> "nsp"
                nsp == IF kind = "nsp" THEN names + 1 ELSE 0
    <2>2. /\ names + Len(ends) + (IF kind = "nsp" THEN 1 ELSE 0) <= MaxNames
          /\ names' = IF kind = "nsp" THEN names + 1 ELSE names
          /\ job' = [NoJob EXCEPT !.kind = kind, !.todo = ends, !.stage = stage, !.nsp = nsp]
          /\ mainPc = "run" /\ io' = io
      BY <1>6 DEF StartJob
    <2>3. /\ NewJob(kind, stage, ends, 0, 0, nsp, <<>>)
          /\ job' = [kind |-> kind, stage |-> stage, todo |-> ends, at |-> 0, name |-> 0,
                     nsp |-> nsp, sent |-> <<>>]
      BY <2>2 DEF NoJob, NewJob
    <2>4. stage \in {"properties", "start", "nsp"} /\ nsp \in Nat /\ <<>> \in Seq(Nat)
          /\ (kind = "file" <=> stage = "properties") /\ (kind = "nsp" <=> stage = "nsp")
          /\ (kind = "fs" <=> stage = "start")
          /\ (kind = "nsp" <=> nsp # 0) /\ nsp <= names'
      BY <2>1, <2>2
    <2>. HIDE DEF stage, nsp
    <2>5. job' \in JobRecords
      BY <2>1, <2>3, <2>4, LayoutTypes DEF JobRecords
    <2>6. names' \in 0..MaxNames /\ names' + Len(ends) <= MaxNames /\ names' \in Nat
      BY <2>2, LayoutTypes
    <2>7. JobShape'
      BY <2>1, <2>2, <2>3, <2>4, <2>6, LayoutTypes DEF JobShape, NewJob
    <2>8. TodoShape'
      BY <2>3, <2>6, LayoutTypes DEF TodoShape, NewJob
    <2>. QED  BY <2>5, <2>6, <2>7, <2>8
  <1>7. ASSUME AbortJob
        PROVE  JobShape' /\ TodoShape' /\ job' \in JobRecords /\ names' \in 0..MaxNames
    <2>1. job.stage \notin {"none", "abort"} /\ names' = names /\ io' = io
      BY <1>7 DEF AbortJob, Console, JobShape
    <2>2. GivesUp
      BY <1>7, <2>1, StageJob DEF AbortJob, GivesUp
    <2>3. JobShape' /\ job' \in JobRecords
      BY <2>1, <2>2, JobType DEF GivesUp, NewJob, JobShape, NoJob, Console, JobDomain
    <2>4. TodoShape'
      BY <2>1, <2>2 DEF GivesUp, NewJob, TodoShape, Console
    <2>. QED  BY <2>1, <2>3, <2>4 DEF TypeOK
  <1>8. JobShape' /\ TodoShape' /\ job' \in JobRecords /\ names' \in 0..MaxNames
    BY <1>6, <1>7 DEF Application
  <1>9. mainPc = "run"
    BY DEF Application, StartJob, AbortJob, Console, Lives
  <1>10. Lives'
    BY <1>1, <1>9 DEF Lives, Console, usbVars, eventVars, threadVars, busVars
  <1>11. ConsoleType'
    BY <1>1, <1>8 DEF ConsoleType, TypeOK, usbVars, eventVars, threadVars
  <1>. QED
    BY <1>2, <1>3, <1>5, <1>8, <1>10, <1>11, TypeParts DEF Console

-----------------------------------------------------------------------------
(***************************************************************************)
(* The bus and the host process.  The host's output file is open for as    *)
(* long as it waits for data, and an NSP's for as long as it is under way. *)
(***************************************************************************)
Output ==
    /\ hPc \in {"replyData", "data"} =>
         /\ hLeft > 0 /\ hFile \in Names /\ disk[hFile].state = "open"
         /\ hNsp.on => hFile = hNsp.file
    /\ hNsp.on => /\ hNsp.file \in Names /\ disk[hNsp.file].state = "open"
                  /\ "nsp" \in JobKinds
    /\ ~hNsp.on => hNsp.file = 0
    /\ hPc \in {"reply", "lastReply"} => hCmd \in Statuses

SInv1 == SInv0 /\ Output

HostFrame == UNCHANGED <<usbVars, timeoutEvent, exitEvent, exitFlag, threadVars, appVars>>
HostRest == HostFrame /\ UNCHANGED <<stateEvent, busVars>>

\* The transfer is served, or fails with the bus.
IoServed ==
    /\ io' \in IoRecords /\ io'.cmd = io.cmd /\ io'.step = io.step
    /\ io'.name = io.name /\ io'.size = io.size
    /\ io' = io \/ (io.urb = "posted" /\ io'.urb \in {"done", "failed"})

Served(status) ==
    /\ link /\ io.urb = "posted" /\ io' \in IoRecords
    /\ NewIo(io.cmd, io.step, "done", io.name, io.size, status)

LEMMA DoneServes == TypeOK /\ Done /\ link /\ io.urb = "posted" => Served(io.status)
  BY DoneIo DEF Served

LEMMA ServedIs == ASSUME NEW status, Served(status) PROVE IoServed
  BY DEF Served, IoServed, NewIo

LEMMA FailServes == TypeOK /\ FailUrb => IoServed
  <1>. SUFFICES ASSUME TypeOK, FailUrb PROVE IoServed
    OBVIOUS
  <1>1. io.urb # "posted" => io' = io
    BY DEF FailUrb
  <1>. QED  BY <1>1, FailIo DEF NewIo, IoServed

LEMMA BusKeepsConsole ==
    ASSUME SInv0, IoServed, HostFrame, stateEvent' \in BOOLEAN, link' => cable' /\ init, HostType'
    PROVE  Console' /\ TypeOK'
  <1>. TypeOK /\ Console
    BY DEF SInv0
  <1>1. io.cmd = "none" => io' = io
    BY DEF IoServed, Console, IoOrder, NoIo
  <1>2. IoOrder'
    BY <1>1 DEF IoOrder, Console, IoServed, HostFrame, threadVars
  <1>3. Lives'
    BY DEF Lives, Console, HostFrame, threadVars, usbVars, appVars
  <1>4. JobShape' /\ TodoShape'
    BY DEF JobShape, TodoShape, Console, IoServed, HostFrame, appVars
  <1>5. CallShape'
    BY DEF CallShape, Console, IoServed, HostFrame, appVars, threadVars, usbVars
  <1>6. ConsoleType'
    BY DEF ConsoleType, TypeOK, IoServed, HostFrame, appVars, threadVars, usbVars
  <1>7. ToldType'
    BY TypeParts DEF ToldType, HostFrame, appVars
  <1>. QED
    BY <1>2, <1>3, <1>4, <1>5, <1>6, <1>7, TypeParts DEF Console

LEMMA Units ==
    \A n \in Nat : /\ n * ChunkUnits \in Nat
                   /\ n # 0 => n * ChunkUnits > 0
  BY SessionAssumption

NspRecords == [on : BOOLEAN, file : Nat, left : Int]
LEMMA NspType == TypeOK => /\ hNsp \in NspRecords /\ hNsp.on \in BOOLEAN /\ hNsp.file \in Nat
                           /\ hNsp.left \in Int
  BY DEF TypeOK, NspRecords

\* A file of the output directory is replaced.
LEMMA DiskWrite ==
    ASSUME TypeOK, NEW name, NEW file \in FileRecords, disk' = [disk EXCEPT ![name] = file]
    PROVE  /\ disk' \in [Names -> FileRecords]
           /\ \A n \in Names : disk'[n] = IF n = name THEN file ELSE disk[n]
  BY DEF TypeOK

LEMMA NewFiles ==
    \A state \in {"absent", "open", "closed", "deleted"} :
       LET file == [NoFile EXCEPT !.state = state]
       IN  file \in FileRecords /\ file.state = state /\ file.data = <<>> /\ file.header = FALSE
  <1>1. <<>> \in Seq(Nat)
    OBVIOUS
  <1>. QED  BY <1>1 DEF NoFile, FileRecords

LEMMA NoNspType == NoNsp \in NspRecords /\ NoNsp.on = FALSE /\ NoNsp.file = 0
  BY DEF NoNsp, NspRecords

LEMMA FileType == TypeOK => \A n \in Names : /\ disk[n] \in FileRecords /\ disk[n].data \in Seq(Nat)
                                             /\ disk[n].header \in BOOLEAN
  BY DEF TypeOK, FileRecords

\* The output is given up.
LEMMA DeleteIs ==
    ASSUME TypeOK, DeleteOutput, hFile \in Names
    PROVE  /\ disk' \in [Names -> FileRecords] /\ hNsp' = NoNsp
           /\ disk'[hFile].state = "deleted"
           /\ \A n \in Names : n # hFile => disk'[n] = disk[n]
  BY DiskWrite, NewFiles DEF DeleteOutput, ResetNspInfo

\* A read of the data stage, field by field.
LEMMA StoresIs ==
    ASSUME TypeOK, Output, hPc = "data", NEW item \in Nat, NEW units \in Nat, units <= hLeft,
           Stores(item, units)
    PROVE  /\ hLeft' = hLeft - units /\ hLeft' \in Nat
           /\ hNsp' \in NspRecords /\ hNsp'.on = hNsp.on /\ hNsp'.file = hNsp.file
           /\ hNsp.on => hNsp'.left = hNsp.left - units
           /\ ~hNsp.on => hNsp' = hNsp
           /\ disk' \in [Names -> FileRecords]
           /\ disk'[hFile].data = Append(disk[hFile].data, item)
           /\ disk'[hFile].header = disk[hFile].header
           /\ disk'[hFile].state = IF hLeft' = 0 /\ ~hNsp.on THEN "closed" ELSE "open"
           /\ \A n \in Names : n # hFile => disk'[n] = disk[n]
           /\ IF hLeft' = 0 THEN hPc' = "reply" /\ hCmd' = "Success" ELSE UNCHANGED <<hPc, hCmd>>
  <1>1. hFile \in Names /\ disk[hFile].state = "open" /\ disk \in [Names -> FileRecords]
    BY DEF Output, TypeOK
  <1>2. hLeft' = hLeft - units /\ hLeft' \in Nat
    BY DEF Stores, TypeOK
  <1>3. /\ hNsp' \in NspRecords /\ hNsp'.on = hNsp.on /\ hNsp'.file = hNsp.file
        /\ hNsp.on => hNsp'.left = hNsp.left - units
        /\ ~hNsp.on => hNsp' = hNsp
    <2>1. CASE hNsp.on
      <3>1. hNsp' = [hNsp EXCEPT !.left = hNsp.left - units]
        BY <2>1, NspType DEF Stores, NspRecords
      <3>2. hNsp.left - units \in Int
        BY NspType
      <3>. DEFINE left == hNsp.left - units
      <3>3. hNsp' = [hNsp EXCEPT !.left = left] /\ left \in Int
        BY <3>1, <3>2
      <3>4. hNsp'.left = left /\ hNsp' \in NspRecords /\ hNsp'.on = hNsp.on /\ hNsp'.file = hNsp.file
        <4>. HIDE DEF left
        <4>. QED  BY <3>3, NspType DEF NspRecords
      <3>. QED  BY <2>1, <3>4
    <2>2. CASE ~hNsp.on
      BY <2>2, NspType DEF Stores
    <2>. QED  BY <2>1, <2>2
  <1>. DEFINE data == Append(disk[hFile].data, item)
              state == IF hLeft' = 0 /\ ~hNsp.on THEN "closed" ELSE "open"
              file == [disk[hFile] EXCEPT !.data = data, !.state = state]
  <1>4. data \in Seq(Nat)
    BY <1>1, FileType
  <1>5. /\ file \in FileRecords /\ file.data = data /\ file.state = state
        /\ file.header = disk[hFile].header
    <2>. HIDE DEF data, state
    <2>1. state \in {"open", "closed"}
      BY DEF state
    <2>. QED  BY <1>1, <1>4, <2>1 DEF FileRecords
  <1>6. disk' = [disk EXCEPT ![hFile].data = data, ![hFile].state = state]
    BY <1>1 DEF Stores, FileRecords
  <1>7. disk' = [disk EXCEPT ![hFile] = file]
    <2>. HIDE DEF data, state
    <2>. QED  BY <1>1, <1>6 DEF FileRecords
  <1>. HIDE DEF file
  <1>8. disk' \in [Names -> FileRecords] /\ \A n \in Names : disk'[n] = IF n = hFile THEN file ELSE disk[n]
    BY <1>5, <1>7, DiskWrite
  <1>9. IF hLeft' = 0 THEN hPc' = "reply" /\ hCmd' = "Success" ELSE UNCHANGED <<hPc, hCmd>>
    BY DEF Stores, Reply
  <1>. QED
    BY <1>1, <1>2, <1>3, <1>5, <1>8, <1>9

LEMMA HandlerServes ==
    ASSUME SInv1, Handlers \/ HostReadsHeader \/ HostReadsChunk \/ HostReadsForeign
                  \/ HostCancelsTransfer
    PROVE  HostRest /\ Served(io.status)
  <1>. TypeOK
    BY DEF SInv1, SInv0
  <1>1. link /\ io.urb = "posted" /\ Done /\ HostRest
    BY DEF Handlers, HandleStartSession, HandleEndSession, HandleNspProperties,
           HandleFileProperties, HandleCancelFileTransfer, HandleSendNspHeader,
           HandleStartExtractedFsDump, HandleEndExtractedFsDump, HostReadsHeader,
           HostReadsChunk, HostReadsForeign, HostCancelsTransfer, Receives, Posted,
           HostRest, HostFrame, eventVars
  <1>. QED
    BY <1>1, DoneServes

LEMMA HostServesIs ==
    ASSUME SInv1, Host
    PROVE  HostRest /\ IoServed
  <1>. TypeOK
    BY DEF SInv1, SInv0
  <1>1. CASE Handlers \/ HostReadsHeader \/ HostReadsChunk \/ HostReadsForeign
             \/ HostCancelsTransfer
    BY <1>1, HandlerServes, ServedIs
  <1>2. CASE HostEntersData
    <2>1. HostRest
      BY <1>2 DEF HostEntersData, HostRest, HostFrame, eventVars
    <2>2. CASE io' = io
      BY <2>1, <2>2 DEF IoServed, TypeOK
    <2>3. CASE Posted("status") /\ io' = [io EXCEPT !.urb = "done", !.status = "Success"]
      BY <2>1, <2>3, StatusIo DEF Posted, IoServed, NewIo, Statuses
    <2>. QED  BY <1>2, <2>2, <2>3 DEF HostEntersData
  <1>3. CASE HostReplies
    <2>1. hCmd \in Statuses /\ io.urb = "posted" /\ io' = [io EXCEPT !.urb = "done", !.status = hCmd]
      BY <1>3 DEF HostReplies, SInv1, Output, Posted
    <2>2. HostRest
      BY <1>3 DEF HostReplies, HostRest, HostFrame, eventVars
    <2>. QED  BY <2>1, <2>2, StatusIo DEF IoServed, NewIo
  <1>4. CASE HostTransferFails
    BY <1>4 DEF HostTransferFails, HostRest, HostFrame, eventVars, IoServed, TypeOK
  <1>. QED
    BY <1>1, <1>2, <1>3, <1>4 DEF Host

\* Which name a command that opens a file carries.
LEMMA OpensName ==
    ASSUME SInv0, io.cmd \in {"SendFileProperties", "SendNspProperties"}
    PROVE  io.name \in Names /\ (io.cmd = "SendNspProperties" => "nsp" \in JobKinds /\ io.name = job.nsp)
  <1>. TypeOK /\ Console /\ MaxNames \in Nat /\ job.kind # "none" /\ owner = "client"
    BY ToldName, ClientIs, SessionAssumption DEF SInv0, CallCommands
  <1>1. io.cmd = "SendNspProperties" => io.name = job.nsp /\ job.kind = "nsp"
    BY ToldName DEF Console, CallShape
  <1>2. io.cmd = "SendNspProperties" => job.nsp \in Names /\ "nsp" \in JobKinds
    BY <1>1, JobType DEF Console, JobShape, Names, TypeOK
  <1>. QED  BY <1>1, <1>2, ToldName

LEMMA HostKeepsType ==
    ASSUME SInv1, Host
    PROVE  HostType' /\ Output'
  <1>. TypeOK /\ Output /\ Console
    BY DEF SInv1, SInv0
  <1>. /\ HostType /\ hNsp \in NspRecords /\ hNsp.on \in BOOLEAN /\ hNsp.file \in Nat
       /\ hLeft \in Nat /\ hFile \in Nat /\ disk \in [Names -> FileRecords]
       /\ io.cmd \in Commands \cup {"none", "data"} /\ io.name \in Nat /\ io.size \in Nat
       /\ NoNsp \in NspRecords /\ NoNsp.on = FALSE /\ NoNsp.file = 0
    BY TypeParts, NspType, IoType, NoNspType DEF TypeOK
  <1>1. UNCHANGED busVars /\ IoServed /\ HostRest
    BY HostServesIs DEF HostRest
  <1>2. ASSUME hKind' = hKind, fsOpen' \in BOOLEAN, UNCHANGED <<hNsp, hFile, hLeft, disk>>,
               hPc' \in {"down", "header", "block", "reply", "lastReply"},
               hCmd' \in Commands \cup Statuses, hPc' \in {"reply", "lastReply"} => hCmd' \in Statuses
        PROVE  HostType' /\ Output'
    <2>1. HostType'
      BY <1>1, <1>2 DEF HostType, busVars
    <2>. QED  BY <1>2, <2>1 DEF Output
  <1>3. CASE HostReadsHeader
    <2>1. io.cmd \in Commands
      BY <1>3 DEF HostReadsHeader, Posted, Console, IoOrder, NoIo
    <2>2. /\ UNCHANGED <<hKind, hNsp, hFile, hLeft, fsOpen, disk>> /\ hPc' = "block"
          /\ hCmd' = io.cmd
      BY <1>3 DEF HostReadsHeader
    <2>. QED  BY <1>2, <2>1, <2>2 DEF HostType
  <1>4. CASE HandleStartSession
    BY <1>2, <1>4 DEF HandleStartSession, Reply, HostType, AllHostKinds, Statuses
  <1>5. CASE HandleEndSession
    BY <1>2, <1>5 DEF HandleEndSession, HostType, Statuses
  <1>6. CASE HandleStartExtractedFsDump
    BY <1>2, <1>6 DEF HandleStartExtractedFsDump, Reply, HostType, Statuses
  <1>7. CASE HandleEndExtractedFsDump
    BY <1>2, <1>7 DEF HandleEndExtractedFsDump, Reply, HostType, Statuses
  <1>8. CASE HostReplies
    BY <1>2, <1>8 DEF HostReplies, HostType
  <1>. DEFINE Opened(name, state) ==
                  /\ disk' \in [Names -> FileRecords] /\ disk'[name].state = state
                  /\ \A n \in Names : n # name => disk'[n] = disk[n]
  <1>9. ASSUME NEW name \in Names, NEW state \in {"open", "closed", "deleted"},
               disk' = [disk EXCEPT ![name] = [NoFile EXCEPT !.state = state]]
        PROVE  Opened(name, state)
    BY <1>9, DiskWrite, NewFiles
  <1>10. CASE HandleNspProperties
    <2>1. /\ io.name \in Names /\ "nsp" \in JobKinds
          /\ UNCHANGED <<hKind, hFile, hLeft, fsOpen>>
      BY <1>10, OpensName DEF HandleNspProperties, Receives, SInv1
    <2>2. CASE UNCHANGED <<hNsp, disk>>
      BY <1>2, <1>10, <2>1, <2>2 DEF HandleNspProperties, Reply, HostType, Statuses
    <2>3. CASE ~UNCHANGED <<hNsp, disk>>
      <3>1. /\ ~hNsp.on /\ hPc' = "reply" /\ hCmd' = "Success"
            /\ hNsp' = [on |-> TRUE, file |-> io.name, left |-> io.size * ChunkUnits]
            /\ disk' = [disk EXCEPT ![io.name] = [NoFile EXCEPT !.state = "open"]]
        BY <1>10, <2>3 DEF HandleNspProperties, Reply, OpenFile
      <3>2. hNsp' \in NspRecords /\ hNsp'.on = TRUE /\ hNsp'.file = io.name
        BY <3>1, Units DEF NspRecords
      <3>3. Opened(io.name, "open")
        BY <1>9, <2>1, <3>1
      <3>. HIDE DEF Opened
      <3>4. HostType'
        BY <1>1, <2>1, <3>1, <3>2, <3>3 DEF HostType, busVars, NspRecords, Statuses, Opened
      <3>. QED  BY <2>1, <3>1, <3>2, <3>3, <3>4 DEF Output, Opened, Statuses
    <2>. QED  BY <2>2, <2>3
  <1>11. CASE HandleFileProperties
    <2>1. /\ io.name \in Names /\ UNCHANGED <<hKind, hNsp, fsOpen>>
          /\ hLeft' = io.size * ChunkUnits
          /\ hPc' \in {"reply", "replyData"}
          /\ hCmd' \in Commands \cup Statuses /\ (hPc' = "reply" => hCmd' \in Statuses)
          /\ hPc' = "replyData" => io.size # 0
      BY <1>11, OpensName DEF HandleFileProperties, Receives, SInv1, Reply, HostType, Statuses
    <2>2. hLeft' \in Nat /\ (hPc' = "replyData" => hLeft' > 0)
      BY <2>1, Units
    <2>3. CASE hNsp.on
      <3>1. hFile' = hNsp.file /\ disk' = disk
        BY <1>11, <2>3 DEF HandleFileProperties
      <3>2. HostType'
        BY <1>1, <2>1, <2>2, <3>1 DEF HostType, busVars
      <3>. QED  BY <2>1, <2>2, <2>3, <3>1, <3>2 DEF Output
    <2>4. CASE ~hNsp.on
      <3>1. \/ hFile' = hFile /\ disk' = disk /\ hPc' = "reply"
            \/ /\ hFile' = io.name
               /\ \/ hPc' = "reply" /\ Opened(io.name, "closed")
                  \/ hPc' = "replyData" /\ Opened(io.name, "open")
        BY <1>9, <1>11, <2>1, <2>4 DEF HandleFileProperties, OpenFile, Reply
      <3>. HIDE DEF Opened
      <3>2. disk' \in [Names -> FileRecords] /\ hFile' \in Nat
        BY <2>1, <3>1 DEF Opened, HostType
      <3>3. HostType'
        BY <1>1, <2>1, <2>2, <3>2 DEF HostType, busVars
      <3>. QED  BY <2>1, <2>2, <2>4, <3>1, <3>3 DEF Output, Opened
    <2>. QED  BY <2>3, <2>4
  <1>12. CASE HandleCancelFileTransfer
    <2>1. /\ UNCHANGED <<hKind, hFile, hLeft>> /\ fsOpen' = FALSE
          /\ hPc' = "reply" /\ hCmd' \in {"Success", "Malformed"}
      BY <1>12 DEF HandleCancelFileTransfer, Reply
    <2>2. CASE ~hNsp.on
      BY <1>2, <1>12, <2>1, <2>2 DEF HandleCancelFileTransfer, Statuses
    <2>3. CASE hNsp.on
      <3>1. /\ hNsp' = NoNsp
            /\ disk' = [disk EXCEPT ![hNsp.file] = [NoFile EXCEPT !.state = "deleted"]]
        BY <1>12, <2>3 DEF HandleCancelFileTransfer, ResetNspInfo
      <3>2. Opened(hNsp.file, "deleted")
        BY <1>9, <2>3, <3>1 DEF Output
      <3>3. HostType'
        BY <1>1, <2>1, <3>1, <3>2 DEF HostType, busVars, NspRecords, Statuses
      <3>. QED  BY <2>1, <3>1, <3>3 DEF Output, Statuses
    <2>. QED  BY <2>2, <2>3
  <1>13. CASE HandleSendNspHeader
    <2>1. UNCHANGED <<hKind, hFile, hLeft, fsOpen>>
      BY <1>13 DEF HandleSendNspHeader
    <2>2. CASE UNCHANGED <<hNsp, disk>>
      BY <1>2, <1>13, <2>1, <2>2 DEF HandleSendNspHeader, Reply, HostType, Statuses
    <2>3. CASE ~UNCHANGED <<hNsp, disk>>
      <3>1. /\ hNsp.file # 0 /\ hPc' = "reply" /\ hCmd' = "Success" /\ hNsp' = NoNsp
            /\ disk' = [disk EXCEPT ![hNsp.file].header = TRUE, ![hNsp.file].state = "closed"]
        BY <1>13, <2>3 DEF HandleSendNspHeader, Reply, ResetNspInfo
      <3>2. disk' \in [Names -> FileRecords]
        BY <3>1 DEF FileRecords
      <3>3. HostType'
        BY <1>1, <2>1, <3>1, <3>2 DEF HostType, busVars, NspRecords, Statuses
      <3>. QED  BY <2>1, <3>1, <3>3 DEF Output, Statuses
    <2>. QED  BY <2>2, <2>3
  <1>14. CASE HostEntersData
    <2>1. hPc = "replyData" /\ hPc' = "data"
          /\ UNCHANGED <<hKind, hCmd, hNsp, hFile, hLeft, fsOpen, disk>>
      BY <1>14 DEF HostEntersData
    <2>2. HostType'
      BY <1>1, <2>1 DEF HostType, busVars
    <2>. QED  BY <2>1, <2>2 DEF Output
  <1>15. CASE HostReadsChunk \/ HostReadsForeign
    <2>1. PICK item \in Nat, units \in Nat :
             units <= hLeft /\ Stores(item, units) /\ UNCHANGED <<hKind, hFile, fsOpen>>
      <3>1. hPc = "data" /\ hLeft > 0
        BY <1>15 DEF HostReadsChunk, HostReadsForeign, Output
      <3>2. Junk \in Nat /\ 1 \in Nat /\ ChunkUnits \in Nat /\ 1 <= hLeft
        BY <3>1, SessionAssumption DEF Junk
      <3>. QED  BY <1>15, <3>2 DEF HostReadsChunk, HostReadsForeign
    <2>2. hPc = "data" /\ hFile \in Names
      BY <1>15 DEF HostReadsChunk, HostReadsForeign, Output
    <2>3. /\ hLeft' \in Nat /\ hNsp' \in NspRecords /\ hNsp'.on = hNsp.on /\ hNsp'.file = hNsp.file
          /\ disk' \in [Names -> FileRecords]
          /\ disk'[hFile].state = IF hLeft' = 0 /\ ~hNsp.on THEN "closed" ELSE "open"
          /\ \A n \in Names : n # hFile => disk'[n] = disk[n]
          /\ IF hLeft' = 0 THEN hPc' = "reply" /\ hCmd' = "Success" ELSE UNCHANGED <<hPc, hCmd>>
      BY <2>1, <2>2, StoresIs
    <2>4. HostType'
      BY <1>1, <2>1, <2>3 DEF HostType, busVars, NspRecords, Statuses
    <2>. QED  BY <2>1, <2>2, <2>3, <2>4 DEF Output, Statuses
  <1>16. CASE HostCancelsTransfer
    <2>1. /\ hPc = "data" /\ hPc' = "reply" /\ hCmd' = "Success" /\ fsOpen' = FALSE
          /\ UNCHANGED <<hKind, hFile, hLeft>> /\ DeleteOutput /\ hFile \in Names
      BY <1>16 DEF HostCancelsTransfer, Reply, Output
    <2>2. disk' \in [Names -> FileRecords] /\ hNsp' = NoNsp
      BY <2>1, DeleteIs
    <2>3. HostType'
      BY <1>1, <2>1, <2>2 DEF HostType, busVars, NspRecords, Statuses
    <2>. QED  BY <2>1, <2>2, <2>3 DEF Output, Statuses
  <1>17. CASE HostTransferFails
    <2>1. hPc' = "down" /\ UNCHANGED <<hKind, hCmd, hFile, hLeft, fsOpen>>
      BY <1>17 DEF HostTransferFails
    <2>2. CASE hPc # "data"
      BY <1>2, <1>17, <2>1, <2>2 DEF HostTransferFails, HostType
    <2>3. CASE hPc = "data"
      <3>1. disk' \in [Names -> FileRecords] /\ hNsp' = NoNsp
        BY <1>17, <2>3, DeleteIs DEF HostTransferFails, Output
      <3>2. HostType'
        BY <1>1, <2>1, <3>1 DEF HostType, busVars, NspRecords
      <3>. QED  BY <2>1, <3>1, <3>2 DEF Output
    <2>. QED  BY <2>2, <2>3
  <1>. QED
    BY <1>3, <1>4, <1>5, <1>6, <1>7, <1>8, <1>10, <1>11, <1>12, <1>13, <1>14, <1>15, <1>16,
       <1>17 DEF Host, Handlers

LEMMA EnvironmentKeepsType ==
    ASSUME SInv1, Environment
    PROVE  /\ HostType' /\ Output' /\ IoServed /\ HostFrame /\ stateEvent' \in BOOLEAN
           /\ link' => cable' /\ init
  <1>. TypeOK /\ Output /\ Console /\ SInv0
    BY DEF SInv1, SInv0
  <1>. /\ HostType /\ hNsp \in NspRecords /\ NoNsp \in NspRecords /\ NoNsp.on = FALSE
       /\ NoNsp.file = 0 /\ init \in BOOLEAN
    BY TypeParts, NspType, NoNspType DEF TypeOK
  <1>1. CASE Unplug
    <2>1. IoServed /\ HostFrame /\ stateEvent' \in BOOLEAN /\ link' = FALSE /\ cable' = FALSE
      BY <1>1, FailServes DEF Unplug, HostFrame
    <2>2. HostType' /\ Output'
      BY <1>1 DEF Unplug, HostType, Output, hostVars
    <2>. QED  BY <2>1, <2>2
  <1>2. CASE Plug
    <2>1. IoServed /\ HostFrame /\ stateEvent' \in BOOLEAN /\ link' = link /\ cable' = TRUE
      BY <1>2 DEF Plug, HostFrame, IoServed, TypeOK
    <2>2. HostType' /\ Output'
      BY <1>2 DEF Plug, HostType, Output, hostVars
    <2>3. link => init
      BY DEF Console, Lives
    <2>. QED  BY <2>1, <2>2, <2>3
  <1>3. CASE HostStart
    <2>1. IoServed /\ HostFrame /\ stateEvent' \in BOOLEAN /\ cable' /\ init
      BY <1>3, FailServes DEF HostStart, HostFrame
    <2>2. hKind' \in AllHostKinds
      BY <1>3, SessionAssumption DEF HostStart
    <2>3. HostType' /\ Output'
      BY <1>3, <2>2 DEF HostStart, HostType, Output, ResetNspInfo, NspRecords
    <2>. QED  BY <2>1, <2>3
  <1>4. CASE HostStop
    <2>1. /\ IoServed /\ HostFrame /\ stateEvent' \in BOOLEAN /\ link' = link /\ cable' = cable
      BY <1>4 DEF HostStop, HostFrame, IoServed, TypeOK, eventVars, busVars
    <2>2. HostType' /\ Output'
      BY <1>4 DEF HostStop, HostIsDown, HostType, Output, busVars
    <2>3. link => cable /\ init
      BY DEF Console, Lives
    <2>. QED  BY <2>1, <2>2, <2>3
  <1>. QED
    BY <1>1, <1>2, <1>3, <1>4 DEF Environment

LEMMA NextKeepsSInv1 ==
    ASSUME SInv1, [Next]_vars
    PROVE  SInv1'
  <1>. SInv0 /\ IInv /\ TypeOK /\ Console /\ Output
    BY DEF SInv1, SInv0
  <1>1. IInv'
    BY NextKeepsIInv
  <1>2. ASSUME Console', TypeOK', UNCHANGED hostVars PROVE SInv1'
    BY <1>1, <1>2 DEF SInv1, SInv0, Output, hostVars
  <1>3. CASE UNCHANGED vars
    <2>1. Console'
      BY <1>3 DEF Console, IoOrder, Lives, JobShape, TodoShape, CallShape, vars, usbVars,
                  eventVars, threadVars, appVars, busVars
    <2>2. TypeOK'
      BY <1>3 DEF TypeOK, vars, usbVars, eventVars, threadVars, appVars, busVars, hostVars
    <2>. QED  BY <1>2, <1>3, <2>1, <2>2 DEF vars
  <1>4. CASE Application
    BY <1>2, <1>4, ApplicationKeepsConsole DEF Application, StartJob, AbortJob
  <1>5. CASE Calls
    BY <1>2, <1>5, CallsAre, EnteringKeepsConsole, RefusingKeepsConsole
    DEF EntersWith, Refuses, CallRest
  <1>6. CASE Transfers
    <2>1. Console' /\ TypeOK'
      BY <1>6, TransfersAre, ContinuingKeepsConsole, ReturnsKeepConsole, SessionReturnsKeepsConsole
    <2>2. UNCHANGED hostVars
      BY <1>6, TransfersAre DEF Continues, LastChunk, Chunk, File, ReturnsFalse, ReturnsTrue,
                                ReturnRest, EndSessionReturns, StartSessionReturns
    <2>. QED  BY <1>2, <2>1, <2>2
  <1>7. CASE Detection
    BY <1>2, <1>7, DetectionKeepsConsole
    DEF Detection, DetectionWakes, DetectionHandles, DetectionLeaves
  <1>8. CASE Main
    BY <1>2, <1>8, MainKeepsConsole DEF Main, Initialize, Exit, ExitLocks
  <1>9. CASE Host
    <2>1. HostType' /\ Output' /\ IoServed /\ HostRest
      BY <1>9, HostKeepsType, HostServesIs
    <2>2. /\ HostFrame /\ stateEvent' \in BOOLEAN
          /\ link' = link /\ cable' = cable
      BY <2>1 DEF HostRest, TypeOK, busVars
    <2>3. link => cable /\ init
      BY DEF Console, Lives
    <2>4. Console' /\ TypeOK'
      BY <2>1, <2>2, <2>3, BusKeepsConsole
    <2>. QED  BY <1>1, <2>1, <2>4 DEF SInv1, SInv0
  <1>10. CASE Environment
    BY <1>1, <1>10, EnvironmentKeepsType, BusKeepsConsole DEF SInv1, SInv0
  <1>. QED
    BY <1>3, <1>4, <1>5, <1>6, <1>7, <1>8, <1>9, <1>10 DEF Next

LEMMA InitSInv1 == Init => SInv1
  BY InitConsole, InitIInv DEF SInv1, SInv0, Output, Init, NoNsp

THEOREM ConsoleAndHost == Spec => []SInv1
  BY InitSInv1, NextKeepsSInv1, PTL DEF Spec

\* Every variable keeps its type, whatever is called, plugged, killed or late.
THEOREM TypeCorrect == Spec => []TypeOK
  <1>1. SInv1 => TypeOK
    BY DEF SInv1, SInv0
  <1>. QED
    BY <1>1, ConsoleAndHost, PTL

-----------------------------------------------------------------------------
(***************************************************************************)
(* Where the host is while a transfer is where it is.                      *)
(***************************************************************************)

\* The command was read, and the status was not.
Answering == \/ HasBlock(io.cmd) /\ At("block", "done")
             \/ ~HasBlock(io.cmd) /\ At("header", "done")
             \/ At("status", "posted")
\* Between two chunks.
Waiting == io = NoIo /\ job.stage = "data" /\ remaining # 0

\* Whatever the host process missed: a host that is not the console's takes
\* part of a command for file data, dies, or waits for the next command.
Phases == link =>
    /\ io.urb = "failed" => hPc \in {"header", "down"}
    /\ At("header", "done") /\ HasBlock(io.cmd) =>
          hPc \in {"block", "data", "reply", "header", "down"}
    /\ At("block", "posted") => hPc \in {"block", "data", "reply", "header", "down"}
    /\ Answering => hPc \in {"reply", "replyData", "data", "lastReply", "header", "down"}
    /\ Answering /\ hPc = "replyData" => io.cmd = "SendFileProperties"
    /\ Answering /\ hPc = "data" =>
          io.cmd \in {"SendFileProperties", "StartSession", "EndSession"}
    /\ Answering /\ hPc = "lastReply" => io.cmd \in {"StartSession", "EndSession"}
    /\ At("status", "done") => \/ hPc \in {"header", "down"}
                               \/ /\ hPc = "data" /\ io.cmd = "SendFileProperties"
                                  /\ io.status = "Success"
    /\ At("data", "posted") => hPc \in {"data", "header", "down"}
    /\ At("data", "done") =>
          hPc \in {"header", "down", IF remaining = 1 THEN "reply" ELSE "data"}
    /\ At("last", "posted") => hPc \in {"reply", "header", "down"}
    /\ At("last", "done") => hPc \in {"header", "down"}
    /\ Waiting => hPc \in {"data", "header", "down"}
    /\ job.stage = "end" => hPc \notin {"data", "replyData"}

\* A size in chunks, in the host's units.
InUnits(size) == size * ChunkUnits

\* What the host still waits for is what usb.c still has to send.
LeftTrue == link =>
    /\ io.cmd = "SendFileProperties" =>
          (hPc \in {"replyData", "data"} /\ (Answering \/ At("status", "done")) =>
             io.size # 0 /\ hLeft = InUnits(io.size))
    /\ io.cmd = "SendFileProperties" /\ Answering /\ hPc = "reply" /\ hCmd = "Success" =>
          io.size = 0
    /\ Waiting /\ hPc = "data" => hLeft = InUnits(remaining)
    /\ At("data", "posted") /\ hPc = "data" => hLeft = InUnits(remaining)
    /\ At("data", "done") /\ hPc = "data" => hLeft = InUnits(remaining - 1)

InStep == /\ session /\ detPc = "wait" /\ ~stateEvent /\ ~timeoutEvent
          /\ link /\ hPc # "down"

\* A session that nothing disturbed: both ends are at the same transfer.
Agree == InStep =>
    /\ io.urb # "failed"
    /\ io = NoIo => IF hPc = "data" THEN /\ hLeft = InUnits(remaining)
                                         /\ job.stage \in {"data", "abort"}
                    ELSE hPc = "header" /\ (remaining = 0 \/ nspMode) /\ ~Waiting
    /\ At("header", "posted") =>
          hPc = "header" \/ (hPc = "data" /\ io.cmd = "CancelFileTransfer")
    /\ At("header", "done") => hPc = IF HasBlock(io.cmd) THEN "block" ELSE "reply"
    /\ At("block", "posted") => hPc = "block"
    /\ Answering =>
          hPc = "reply" \/ (hPc \in {"replyData", "data"} /\ io.cmd = "SendFileProperties")
    /\ At("status", "done") =>
          hPc = IF io.cmd = "SendFileProperties" /\ io.status = "Success" /\ io.size # 0
                THEN "data" ELSE "header"
    /\ At("data", "posted") => hPc = "data"
    /\ At("data", "done") => hPc = IF remaining = 1 THEN "reply" ELSE "data"
    /\ At("last", "posted") => hPc = "reply"
    /\ At("last", "done") => hPc = "header"

PhaseInv == Phases /\ LeftTrue /\ Agree
SInv2 == SInv1 /\ PhaseInv

LEMMA EnteringKeepsPhases ==
    ASSUME SInv2, NEW cmd \in CallCommands, EntersWith(cmd)
    PROVE  PhaseInv'
  <1>. USE DEF At
  <1>1. /\ io = NoIo /\ io.step = "none" /\ io'.cmd = cmd /\ owner = "none" /\ session
        /\ io'.step = (IF cmd = "data" THEN "data" ELSE "header")
        /\ io'.urb = IF cable THEN "posted" ELSE "failed"
        /\ job.stage = StageOf[cmd] /\ job'.stage = job.stage
        /\ UNCHANGED <<hPc, hLeft, link, session, detPc, stateEvent, timeoutEvent>>
    BY DEF EntersWith, NewJob, CallRest, eventVars, busVars, hostVars, SInv2, SInv1, SInv0,
           IInv, TransferOwned, NoIo, Urb, InSession
  <1>2. link => cable
    BY DEF SInv2, SInv1, SInv0, Console, Lives
  <1>3. cmd = "data" => Waiting /\ remaining' = remaining
    BY <1>1 DEF Waiting, EntersWith, StageOf
  <1>4. io'.cmd # "none" /\ ~Waiting' /\ ~Answering' /\ io' # NoIo
    BY <1>1 DEF Waiting, Answering, NoIo, CallCommands
  <1>5. cmd \notin {"data", "CancelFileTransfer"} => job.stage \notin {"data", "abort"}
    BY <1>1 DEF StageOf, CallCommands
  <1>6. Phases'
    BY <1>1, <1>2, <1>3, <1>4 DEF Phases, SInv2, PhaseInv
  <1>7. LeftTrue'
    <2>1. ~At("status", "done")' /\ ~At("data", "done")'
      BY <1>1
    <2>2. At("data", "posted")' => cmd = "data"
      BY <1>1
    <2>3. link /\ hPc = "data" /\ cmd = "data" => hLeft = InUnits(remaining)
      BY <1>3 DEF LeftTrue, SInv2, PhaseInv
    <2>4. At("data", "posted")' /\ hPc' = "data" /\ link' => hLeft' = InUnits(remaining')
      BY <1>1, <1>3, <2>2, <2>3
    <2>. QED  BY <1>4, <2>1, <2>4 DEF LeftTrue
  <1>8. Agree'
    BY <1>1, <1>2, <1>3, <1>4, <1>5 DEF Agree, InStep, SInv2, PhaseInv
  <1>. QED
    BY <1>6, <1>7, <1>8 DEF PhaseInv

LEMMA RefusingKeepsPhases ==
    ASSUME SInv2, Refuses
    PROVE  PhaseInv'
  <1>. USE DEF At
  <1>1. /\ io = NoIo /\ io' = io /\ io.step = "none" /\ io.urb = "none"
        /\ UNCHANGED <<hPc, hLeft, link, session, detPc, stateEvent, timeoutEvent>>
    BY DEF Refuses, CallRest, eventVars, busVars, hostVars, SInv2, SInv1, SInv0, IInv,
           TransferOwned, NoIo
  <1>2. job'.stage \in {"abort", "none"} /\ ~Waiting' /\ ~Answering'
    BY <1>1 DEF Refuses, GivesUp, NewJob, NoJob, Waiting, Answering
  <1>3. Phases' /\ LeftTrue'
    BY <1>1, <1>2 DEF Phases, LeftTrue, SInv2, PhaseInv
  <1>4. ASSUME InStep PROVE IF hPc = "data" THEN /\ hLeft = InUnits(remaining')
                                                 /\ job'.stage \in {"data", "abort"}
                            ELSE hPc = "header" /\ (remaining' = 0 \/ nspMode')
    <2>1. InSession
      BY <1>4 DEF InStep, InSession, SInv2, SInv1, SInv0, Console, Lives
    <2>2. IF hPc = "data" THEN hLeft = InUnits(remaining) /\ job.stage \in {"data", "abort"}
          ELSE hPc = "header" /\ (remaining = 0 \/ nspMode)
      BY <1>1, <1>4 DEF SInv2, PhaseInv, Agree
    <2>3. hPc = "data" => remaining # 0
      BY <2>2, SessionAssumption DEF SInv2, SInv1, Output, InUnits
    <2>4. CASE GivesUp /\ UNCHANGED <<remaining, nspMode>>
      BY <2>2, <2>4 DEF GivesUp, NewJob
    <2>5. CASE ~(InSession /\ remaining # 0) /\ remaining' = 0 /\ nspMode' = FALSE
      BY <2>1, <2>2, <2>3, <2>5
    <2>6. CASE ~(InSession /\ (remaining # 0 \/ nspMode)) /\ UNCHANGED <<remaining, nspMode>>
      BY <2>1, <2>2, <2>3, <2>6
    <2>. QED  BY <2>4, <2>5, <2>6 DEF Refuses
  <1>5. Agree'
    BY <1>1, <1>2, <1>4 DEF Agree, InStep
  <1>. QED
    BY <1>3, <1>5 DEF PhaseInv

LEMMA ContinuingKeepsPhases ==
    ASSUME SInv2, Continues \/ LastChunk
    PROVE  PhaseInv'
  <1>. USE DEF At
  <1>. SInv1 /\ SInv0 /\ IInv /\ Console /\ Phases /\ LeftTrue /\ Agree
    BY DEF SInv2, SInv1, SInv0, PhaseInv
  <1>1. /\ io.cmd # "none" /\ io' # NoIo /\ io'.cmd = io.cmd /\ io'.size = io.size
        /\ io'.urb = (IF cable THEN "posted" ELSE "failed")
        /\ UNCHANGED <<hPc, hCmd, hLeft, link, session, detPc, stateEvent, timeoutEvent, job>>
    BY DEF Continues, LastChunk, NewIo, Urb, IInv, TransferOwned, NoIo, IoOrder, Console,
           usbVars, eventVars, threadVars, appVars, busVars, hostVars
  <1>2. link => cable
    BY DEF Console, Lives
  <1>3. ~Waiting' /\ (InStep' => InStep /\ cable)
    BY <1>1, <1>2 DEF Waiting, InStep
  <1>4. CASE Continues
    <2>1. /\ io.step \in {"header", "block"} /\ io.urb = "done"
          /\ io'.step = IF io.step = "header" /\ HasBlock(io.cmd) THEN "block" ELSE "status"
      BY <1>4 DEF Continues, NewIo
    <2>2. io.step = "block" => HasBlock(io.cmd)
      BY DEF Console, IoOrder
    <2>3. CASE io.step = "header" /\ HasBlock(io.cmd)
      <3>1. io'.step = "block" /\ ~Answering'
        BY <1>1, <2>1, <2>3 DEF Answering
      <3>2. Phases'
        BY <1>1, <1>2, <1>3, <2>1, <2>3, <3>1 DEF Phases
      <3>3. LeftTrue'
        BY <1>1, <1>3, <3>1 DEF LeftTrue
      <3>4. Agree'
        BY <1>1, <1>3, <2>1, <2>3, <3>1 DEF Agree
      <3>. QED  BY <3>2, <3>3, <3>4 DEF PhaseInv
    <2>4. CASE ~(io.step = "header" /\ HasBlock(io.cmd))
      <3>1. io'.step = "status" /\ Answering /\ (Answering' => io'.urb = "posted")
        BY <1>1, <2>1, <2>2, <2>4 DEF Answering
      <3>2. Phases'
        BY <1>1, <1>2, <1>3, <3>1 DEF Phases
      <3>3. LeftTrue'
        BY <1>1, <1>3, <3>1 DEF LeftTrue
      <3>4. Agree'
        BY <1>1, <1>3, <3>1 DEF Agree
      <3>. QED  BY <3>2, <3>3, <3>4 DEF PhaseInv
    <2>. QED  BY <2>3, <2>4
  <1>5. CASE LastChunk
    <2>1. io'.step = "last" /\ remaining = 1 /\ io.step = "data" /\ io.urb = "done" /\ ~Answering'
      BY <1>1, <1>5 DEF LastChunk, NewIo, Answering
    <2>2. Phases'
      BY <1>1, <1>2, <1>3, <2>1 DEF Phases
    <2>3. LeftTrue'
      BY <1>1, <1>3, <2>1 DEF LeftTrue
    <2>4. Agree'
      BY <1>1, <1>3, <2>1 DEF Agree
    <2>. QED  BY <2>2, <2>3, <2>4 DEF PhaseInv
  <1>. QED
    BY <1>4, <1>5

LEMMA ReturnsKeepPhases ==
    ASSUME SInv2, ReturnsTrue \/ ReturnsFalse \/ Chunk \/ File
    PROVE  PhaseInv'
  <1>. USE DEF At
  <1>. SInv1 /\ SInv0 /\ IInv /\ Console /\ TypeOK /\ Phases /\ LeftTrue /\ Agree
    BY DEF SInv2, SInv1, SInv0, PhaseInv
  <1>1. /\ owner = "client" /\ io' = NoIo /\ io'.step = "none" /\ io'.urb = "none"
        /\ io'.cmd = "none" /\ session
        /\ UNCHANGED <<hPc, hLeft, link, session, detPc, stateEvent>>
    BY DEF ReturnsTrue, ReturnsFalse, Chunk, File, ReturnRest, Fails, Rejected, NoIo, eventVars,
           busVars, hostVars, IInv, TransferOwned
  <1>2. ~Answering' /\ (timeoutEvent' = timeoutEvent \/ timeoutEvent' = TRUE)
    BY <1>1 DEF Answering, ReturnsTrue, ReturnsFalse, Chunk, File, Fails, Rejected, eventVars
  <1>3. io.cmd \in CallCommands /\ job.stage = StageOf[io.cmd]
    BY <1>1, ToldName DEF Console, CallShape
  <1>4. ASSUME Waiting' => /\ link => hPc \in {"data", "header", "down"}
                           /\ link /\ hPc = "data" => hLeft = InUnits(remaining'),
               job'.stage = "end" /\ link => hPc \notin {"data", "replyData"},
               InStep' => IF hPc = "data"
                          THEN hLeft = InUnits(remaining') /\ job'.stage \in {"data", "abort"}
                          ELSE hPc = "header" /\ (remaining' = 0 \/ nspMode') /\ ~Waiting'
        PROVE  PhaseInv'
    <2>1. Phases'
      BY <1>1, <1>2, <1>4 DEF Phases
    <2>2. LeftTrue'
      BY <1>1, <1>2, <1>4 DEF LeftTrue
    <2>3. Agree'
      BY <1>1, <1>2, <1>4 DEF Agree
    <2>. QED  BY <2>1, <2>2, <2>3 DEF PhaseInv
  <1>5. CASE ReturnsFalse
    <2>1. remaining' = 0 /\ job'.stage \in {"abort", "none"} /\ ~Waiting'
      BY <1>5 DEF ReturnsFalse, GivesUp, NewJob, NoJob, Waiting
    <2>2. InStep' => InStep /\ Rejected
      <3>1. SUFFICES ASSUME InStep' PROVE InStep /\ Rejected
        OBVIOUS
      <3>2. ~timeoutEvent' /\ InStep
        BY <1>1, <1>2, <3>1 DEF InStep
      <3>3. io.urb # "failed"
        BY <3>2 DEF Agree
      <3>. QED  BY <1>5, <3>2, <3>3 DEF ReturnsFalse, Fails
    <2>3. InStep' => hPc = "header"
      BY <2>2 DEF Rejected, Agree
    <2>. QED  BY <1>4, <2>1, <2>3
  <1>6. CASE ReturnsTrue
    <2>1. io.step = "status" /\ io.urb = "done" /\ io.status = "Success" /\ (InStep' => InStep)
      BY <1>1, <1>6 DEF ReturnsTrue, InStep, eventVars
    <2>2. ASSUME io.cmd = "SendFileProperties", io.size # 0 PROVE PhaseInv'
      <3>1. job'.stage = "data" /\ remaining' = io.size
        BY <1>6, <2>2 DEF ReturnsTrue, NewJob
      <3>2. link => hPc \in {"header", "down", "data"}
        BY <2>1, <2>2 DEF Phases
      <3>3. link /\ hPc = "data" => hLeft = InUnits(io.size)
        BY <2>1, <2>2 DEF LeftTrue
      <3>4. InStep => hPc = "data" /\ link
        BY <2>1, <2>2 DEF Agree, InStep
      <3>. QED  BY <1>4, <2>1, <3>1, <3>2, <3>3, <3>4
    <2>3. ASSUME ~(io.cmd = "SendFileProperties" /\ io.size # 0) PROVE PhaseInv'
      <3>1. job'.stage # "data" /\ ~Waiting'
        BY <1>6, <2>3 DEF ReturnsTrue, Advances, NewJob, NoJob, Waiting, CallCommands
      <3>2. link => hPc \notin {"data", "replyData"}
        BY <2>1, <2>3 DEF Phases, LeftTrue
      <3>3. InStep => hPc = "header"
        BY <2>1, <2>3 DEF Agree
      <3>4. remaining' = 0 \/ nspMode'
        <4>1. io.cmd \notin {"SendFileProperties", "SendNspProperties"} =>
                 remaining = 0 /\ remaining' = remaining
          BY <1>1, <1>3, <1>6 DEF ReturnsTrue, Console, CallShape, CallCommands
        <4>. QED  BY <1>6, <2>3, <4>1 DEF ReturnsTrue
      <3>5. InStep => link
        BY DEF InStep
      <3>. QED  BY <1>4, <2>1, <3>1, <3>2, <3>3, <3>4, <3>5
    <2>. QED  BY <2>2, <2>3
  <1>7. CASE Chunk
    <2>1. /\ io.cmd = "data" /\ io.step = "data" /\ io.urb = "done" /\ (InStep' => InStep)
          /\ remaining > 1 /\ remaining' = remaining - 1
      BY <1>1, <1>7 DEF Chunk, InStep, eventVars
    <2>2. job'.stage = "data"
      BY <1>3, <1>7, <2>1 DEF Chunk, NewJob, StageOf
    <2>3. link => hPc \in {"header", "down", "data"}
      BY <2>1 DEF Phases
    <2>4. link /\ hPc = "data" => hLeft = InUnits(remaining')
      BY <2>1 DEF LeftTrue
    <2>5. InStep => hPc = "data" /\ link
      BY <2>1 DEF Agree, InStep
    <2>. QED  BY <1>4, <2>1, <2>2, <2>3, <2>4, <2>5
  <1>8. CASE File
    <2>1. /\ io.cmd = "data" /\ io.step = "last" /\ io.urb = "done" /\ (InStep' => InStep)
          /\ remaining' = remaining
      BY <1>1, <1>8 DEF File, InStep, eventVars
    <2>2. remaining = 0
      BY <1>1, <2>1 DEF Console, CallShape
    <2>3. ~Waiting' /\ (link => hPc \in {"header", "down"}) /\ (InStep => hPc = "header")
      BY <2>1, <2>2 DEF Phases, Waiting, Agree
    <2>. QED  BY <1>4, <2>1, <2>2, <2>3
  <1>. QED
    BY <1>5, <1>6, <1>7, <1>8

\* A step of the console that touches neither a transfer nor the host.
LEMMA QuietKeepsPhases ==
    ASSUME SInv2, UNCHANGED <<io, hPc, hCmd, hLeft, remaining, nspMode>>, link' => link,
           InStep' => InStep,
           job'.stage \in {"data", "end"} => job' = job,
           ~(InStep /\ io = NoIo /\ hPc = "data") \/ job'.stage \in {"data", "abort"}
    PROVE  PhaseInv'
  <1>. Phases /\ LeftTrue /\ Agree
    BY DEF SInv2, PhaseInv
  <1>1. (Waiting' => Waiting) /\ (Answering' <=> Answering)
    BY DEF Waiting, Answering, At
  <1>2. Phases'
    BY <1>1 DEF Phases, At
  <1>3. LeftTrue'
    BY <1>1 DEF LeftTrue, At
  <1>4. Agree'
    BY <1>1 DEF Agree, At, InStep
  <1>. QED
    BY <1>2, <1>3, <1>4 DEF PhaseInv

\* What the detection thread posts or ends, outside a session.
LEMMA DroppingKeepsPhases ==
    ASSUME SInv2, UNCHANGED <<hPc, hLeft, job>>, link' => link /\ cable, ~InStep', remaining' = 0,
           io' = NoIo \/ (io'.step = "header" /\ io'.urb = Urb /\ io'.cmd # "SendFileProperties")
    PROVE  PhaseInv'
  <1>. Phases /\ LeftTrue
    BY DEF SInv2, PhaseInv
  <1>1. ~Waiting' /\ ~Answering'
    BY DEF Waiting, Answering, At, NoIo, Urb
  <1>2. Phases'
    BY <1>1 DEF Phases, At, NoIo, Urb
  <1>3. LeftTrue'
    BY <1>1 DEF LeftTrue, At, NoIo, Urb
  <1>. QED
    BY <1>2, <1>3 DEF PhaseInv, Agree

LEMMA ConsoleKeepsPhases ==
    ASSUME SInv2, Application \/ Main \/ Detection \/ EndSessionReturns
                  \/ \E ok \in BOOLEAN : StartSessionReturns(ok)
    PROVE  PhaseInv'
  <1>. USE DEF At
  <1>. SInv1 /\ SInv0 /\ IInv /\ Console /\ TypeOK /\ Phases /\ LeftTrue /\ Agree
    BY DEF SInv2, SInv1, SInv0, PhaseInv
  <1>. /\ link => cable
    BY DEF Console, Lives
  <1>1. CASE Application
    <2>1. UNCHANGED <<io, hPc, hCmd, hLeft, remaining, nspMode, link>> /\ (InStep' => InStep)
      <3>1. UNCHANGED <<usbVars, eventVars, threadVars, io, busVars, hostVars>>
        BY <1>1 DEF Application, StartJob, AbortJob
      <3>. QED  BY <3>1 DEF InStep, usbVars, eventVars, threadVars, busVars, hostVars
    <2>2. CASE AbortJob
      <3>1. job'.stage = "abort"
        BY <2>2, StageJob DEF AbortJob, NewJob
      <3>. QED  BY <2>1, <3>1, QuietKeepsPhases
    <2>3. ASSUME NEW kind, NEW ends, StartJob(kind, ends), kind \in JobKinds PROVE PhaseInv'
      <3>1. job = NoJob /\ job'.stage \notin {"data", "end"}
        <4>1. kind \in {"file", "fs", "nsp"}
          BY <2>3, SessionAssumption
        <4>. QED  BY <2>3, <4>1 DEF StartJob, NoJob
      <3>2. ~(InStep /\ io = NoIo /\ hPc = "data")
        BY <3>1 DEF Agree, NoJob
      <3>. QED  BY <2>1, <3>1, <3>2, QuietKeepsPhases
    <2>. QED  BY <1>1, <2>2, <2>3 DEF Application
  <1>2. CASE Main
    <2>1. /\ UNCHANGED <<io, hPc, hCmd, hLeft, remaining, nspMode, job, session>> /\ (link' => link)
          /\ ~session \/ (InStep' => InStep)
      BY <1>2 DEF Main, Initialize, Exit, ExitLocks, usbVars, appVars, busVars, hostVars, InStep,
                  eventVars, IInv, ThreadGone
    <2>2. InStep' => InStep
      BY <2>1 DEF InStep
    <2>3. ~(InStep /\ io = NoIo /\ hPc = "data") \/ job.stage \in {"data", "abort"}
      BY DEF Agree
    <2>. QED  BY <2>1, <2>2, <2>3, QuietKeepsPhases
  <1>3. CASE DetectionWakes
    <2>1. /\ UNCHANGED <<io, hPc, hCmd, hLeft, remaining, nspMode, job, link>> /\ ~InStep'
      BY <1>3 DEF DetectionWakes, usbVars, appVars, busVars, hostVars, InStep
    <2>2. ~(InStep /\ io = NoIo /\ hPc = "data") \/ job.stage \in {"data", "abort"}
      BY DEF Agree
    <2>. QED  BY <2>1, <2>2, QuietKeepsPhases
  <1>4. CASE DetectionHandles
    <2>1. /\ UNCHANGED <<hPc, hLeft, job, link>> /\ remaining' = 0 /\ ~InStep' /\ owner = "none"
      BY <1>4 DEF DetectionHandles, DropSession, busVars, hostVars, appVars, InStep
    <2>2. io' = NoIo \/ (io'.step = "header" /\ io'.urb = Urb /\ io'.cmd # "SendFileProperties")
      BY <1>4, <2>1 DEF DetectionHandles, Command, IInv, TransferOwned
    <2>. QED  BY <2>1, <2>2, DroppingKeepsPhases
  <1>5. CASE DetectionLeaves
    <2>1. /\ UNCHANGED <<hPc, hLeft, job, link>> /\ ~InStep' /\ owner = "none"
      BY <1>5 DEF DetectionLeaves, DropSession, busVars, hostVars, appVars, InStep
    <2>2. io' = NoIo \/ (io'.step = "header" /\ io'.urb = Urb /\ io'.cmd = "EndSession")
      BY <1>5, <2>1 DEF DetectionLeaves, Command, IInv, TransferOwned
    <2>3. CASE remaining' = 0
      <3>1. io'.cmd = "EndSession" => io'.cmd # "SendFileProperties"
        OBVIOUS
      <3>. QED  BY <2>1, <2>2, <2>3, <3>1, DroppingKeepsPhases
    <2>4. CASE io'.step = "header" /\ io'.urb = Urb /\ io'.cmd = "EndSession"
      <3>1. ~Waiting' /\ ~Answering'
        BY <2>4 DEF Waiting, Answering, NoIo, Urb
      <3>2. Phases'
        BY <2>1, <2>4, <3>1 DEF Phases, Urb
      <3>3. LeftTrue'
        BY <2>1, <2>4, <3>1 DEF LeftTrue
      <3>. QED  BY <2>1, <3>2, <3>3 DEF PhaseInv, Agree
    <2>. QED
      BY <1>5, <2>2, <2>3, <2>4 DEF DetectionLeaves, DropSession, Command
  <1>6. CASE EndSessionReturns
    <2>1. UNCHANGED <<hPc, hLeft, job, link>> /\ remaining' = 0 /\ ~InStep' /\ io' = NoIo
      BY <1>6 DEF EndSessionReturns, DropSession, busVars, hostVars, appVars, InStep
    <2>. QED  BY <2>1, DroppingKeepsPhases
  <1>7. ASSUME NEW ok \in BOOLEAN, StartSessionReturns(ok) PROVE PhaseInv'
    <2>1. /\ UNCHANGED <<hPc, hLeft, job, link>> /\ io' = NoIo /\ remaining' = 0
          /\ io.cmd = "StartSession" /\ session' = ok
      BY <1>7 DEF StartSessionReturns, appVars, busVars, hostVars, IInv, TransferOwned
    <2>2. CASE ~ok
      <3>1. ~InStep'
        BY <2>1, <2>2 DEF InStep
      <3>. QED  BY <2>1, <3>1, DroppingKeepsPhases
    <2>3. CASE ok
      <3>1. io.step = "status" /\ io.urb = "done"
        BY <1>7, <2>3 DEF StartSessionReturns, CommandReturns
      <3>2. link => hPc \in {"header", "down"}
        BY <2>1, <3>1 DEF Phases
      <3>3. ~Waiting' /\ ~Answering' /\ io'.cmd = "none" /\ io'.step = "none" /\ io'.urb = "none"
        BY <2>1 DEF Waiting, Answering, NoIo
      <3>4. Phases' /\ LeftTrue'
        BY <2>1, <3>2, <3>3 DEF Phases, LeftTrue
      <3>5. Agree'
        BY <2>1, <3>2, <3>3 DEF Agree, InStep
      <3>. QED  BY <3>4, <3>5 DEF PhaseInv
    <2>. QED  BY <2>2, <2>3
  <1>. QED
    BY <1>1, <1>2, <1>3, <1>4, <1>5, <1>6, <1>7 DEF Detection

\* What the host leaves alone.
LEMMA HostLeaves ==
    ASSUME SInv1, Host
    PROVE  /\ UNCHANGED <<remaining, nspMode, session, detPc, stateEvent, timeoutEvent, job, link,
                          cable, names, told, owner, mainPc>>
           /\ IoServed /\ (InStep' => InStep \/ hPc = "down")
           /\ (io = NoIo => io' = io) /\ (io # NoIo => io' # NoIo)
  <1>. TypeOK /\ Console /\ IInv
    BY DEF SInv1, SInv0
  <1>1. HostRest /\ IoServed
    BY HostServesIs
  <1>2. io = NoIo => io' = io
    BY <1>1 DEF IoServed, NoIo
  <1>3. io # NoIo => io' # NoIo
    BY <1>1 DEF IoServed, NoIo, Console, IoOrder
  <1>. QED
    BY <1>1, <1>2, <1>3 DEF HostRest, HostFrame, usbVars, appVars, threadVars, busVars, InStep

\* The host stops.
LEMMA DownKeepsPhases ==
    ASSUME SInv2, Host, hPc' = "down",
           io' = io \/ (io'.urb = "done" /\ io.step # "last")
    PROVE  PhaseInv'
  <1>. Phases /\ LeftTrue
    BY DEF SInv2, PhaseInv
  <1>1. /\ UNCHANGED <<remaining, job, link>> /\ ~InStep' /\ io'.cmd = io.cmd /\ io'.step = io.step
    BY HostLeaves DEF SInv2, InStep, IoServed
  <1>2. At("last", "done")' => io' = io
    BY <1>1 DEF At
  <1>3. Phases'
    BY <1>1, <1>2 DEF Phases, At
  <1>4. LeftTrue'
    BY <1>1 DEF LeftTrue, At
  <1>. QED  BY <1>1, <1>3, <1>4 DEF PhaseInv, Agree

LEMMA UnitsLeft ==
    \A n \in Nat \ {0} :
       /\ InUnits(n) \in Nat /\ InUnits(n) >= ChunkUnits /\ InUnits(n - 1) = InUnits(n) - ChunkUnits
       /\ InUnits(n - 1) = 0 <=> n = 1
  BY SessionAssumption DEF InUnits

\* The host has read a command whole, and answers.
LEMMA AnsweringKeepsPhases ==
    ASSUME SInv2, Host, Receives({io.cmd}), hPc' \in {"reply", "replyData", "lastReply"},
           hPc' = "replyData" =>
              io.cmd = "SendFileProperties" /\ io.size # 0 /\ hLeft' = InUnits(io.size),
           hPc' = "lastReply" => io.cmd \in {"StartSession", "EndSession"},
           io.cmd = "SendFileProperties" /\ hPc' = "reply" /\ hCmd' = "Success" => io.size = 0
    PROVE  PhaseInv'
  <1>. Phases /\ LeftTrue /\ Agree /\ SInv1 /\ IInv /\ Console
    BY DEF SInv2, SInv1, SInv0, PhaseInv
  <1>1. /\ UNCHANGED <<remaining, nspMode, session, detPc, stateEvent, timeoutEvent, job, link>>
        /\ io'.cmd = io.cmd /\ io'.step = io.step /\ io'.size = io.size /\ io' # NoIo
        /\ (InStep' => InStep \/ hPc = "down")
    BY HostLeaves DEF IoServed, Receives, Posted, NoIo
  <1>2. io'.urb = "done" /\ link /\ hPc # "down"
        /\ io.step = IF HasBlock(io.cmd) THEN "block" ELSE "header"
    <2>1. TypeOK /\ Done
      BY DEF Receives, SInv1, SInv0
    <2>. QED  BY <2>1, DoneIo DEF NewIo, Receives, Posted
  <1>3. ~Waiting'
    BY <1>1 DEF Waiting
  <1>4. hPc' = "replyData" => job.stage # "end"
    BY DEF IInv, TransferOwned, Console, CallShape, StageOf
  <1>5. Phases'
    BY <1>1, <1>2, <1>3, <1>4 DEF Phases, Answering, At
  <1>6. LeftTrue'
    BY <1>1, <1>2, <1>3 DEF LeftTrue, Answering, At
  <1>7. InStep' => hPc' # "lastReply"
    BY <1>1, <1>2 DEF InStep, IInv, TransferOwned
  <1>8. Agree'
    BY <1>1, <1>2, <1>7 DEF Agree, Answering, At, HasBlock
  <1>. QED
    BY <1>5, <1>6, <1>8 DEF PhaseInv

LEMMA HostKeepsPhases ==
    ASSUME SInv2, Host
    PROVE  PhaseInv'
  <1>. USE DEF At
  <1>. Phases /\ LeftTrue /\ Agree /\ SInv1 /\ SInv0 /\ IInv /\ Console /\ TypeOK /\ Output
    BY DEF SInv2, SInv1, SInv0, PhaseInv
  <1>1. /\ UNCHANGED <<remaining, nspMode, session, detPc, stateEvent, timeoutEvent, job, link>>
        /\ io'.cmd = io.cmd /\ io'.step = io.step /\ io'.size = io.size
        /\ (InStep' => InStep \/ hPc = "down")
        /\ (io = NoIo => io' = io) /\ (io # NoIo => io' # NoIo)
    BY HostLeaves DEF IoServed
  <1>. DEFINE Reads == link /\ io.urb = "posted" /\ io'.urb = "done" /\ io # NoIo
                       /\ io'.status = io.status
  <1>2. ASSUME Handlers \/ HostReadsHeader \/ HostReadsChunk \/ HostReadsForeign
               \/ HostCancelsTransfer
        PROVE  Reads
    BY <1>2, HandlerServes DEF Served, NewIo, NoIo
  <1>3. CASE HostReadsHeader
    <2>1. /\ io.step = "header" /\ HasBlock(io.cmd) /\ hPc = "header" /\ hPc' = "block" /\ Reads
      BY <1>2, <1>3 DEF HostReadsHeader, Posted
    <2>2. ~Waiting' /\ ~Answering'
      BY <1>1, <2>1 DEF Waiting, Answering
    <2>3. Phases'
      BY <1>1, <2>1, <2>2 DEF Phases
    <2>4. LeftTrue'
      BY <1>1, <2>1, <2>2 DEF LeftTrue
    <2>5. Agree'
      BY <1>1, <2>1, <2>2 DEF Agree
    <2>. QED  BY <2>3, <2>4, <2>5 DEF PhaseInv
  <1>4. CASE Handlers
    <2>1. Receives({io.cmd}) /\ Reads
      BY <1>2, <1>4 DEF Handlers, HandleStartSession, HandleEndSession, HandleNspProperties,
             HandleFileProperties, HandleCancelFileTransfer, HandleSendNspHeader,
             HandleStartExtractedFsDump, HandleEndExtractedFsDump, Receives
    <2>2. ASSUME hPc' = "reply" \/ hPc' = "lastReply",
                 hPc' = "lastReply" => io.cmd \in {"StartSession", "EndSession"},
                 io.cmd # "SendFileProperties"
          PROVE  PhaseInv'
      BY <2>1, <2>2, AnsweringKeepsPhases
    <2>3. CASE HandleStartSession
      BY <2>2, <2>3 DEF HandleStartSession, Receives, Reply
    <2>4. CASE HandleEndSession
      BY <2>2, <2>4 DEF HandleEndSession, Receives
    <2>5. CASE HandleNspProperties
      BY <2>2, <2>5 DEF HandleNspProperties, Receives, Reply
    <2>6. CASE HandleCancelFileTransfer
      BY <2>2, <2>6 DEF HandleCancelFileTransfer, Receives, Reply
    <2>7. CASE HandleStartExtractedFsDump
      BY <2>2, <2>7 DEF HandleStartExtractedFsDump, Receives, Reply
    <2>8. CASE HandleEndExtractedFsDump
      BY <2>2, <2>8 DEF HandleEndExtractedFsDump, Receives, Reply
    <2>9. CASE HandleSendNspHeader
      <3>1. CASE hPc' = "down"
        <4>1. io.step # "last"
          BY <2>1 DEF Receives, Posted
        <4>. QED  BY <2>1, <3>1, <4>1, DownKeepsPhases
      <3>2. CASE hPc' # "down"
        BY <2>2, <2>9, <3>2 DEF HandleSendNspHeader, Receives, Reply
      <3>. QED  BY <3>1, <3>2
    <2>10. CASE HandleFileProperties
      <3>1. /\ hPc' \in {"reply", "replyData"} /\ io.cmd = "SendFileProperties"
            /\ hPc' = "replyData" => io.size # 0 /\ hLeft' = InUnits(io.size)
            /\ hPc' = "reply" /\ hCmd' = "Success" => io.size = 0
        BY <2>10 DEF HandleFileProperties, Receives, Reply, InUnits
      <3>. QED  BY <2>1, <3>1, AnsweringKeepsPhases
    <2>. QED
      BY <1>4, <2>3, <2>4, <2>5, <2>6, <2>7, <2>8, <2>9, <2>10 DEF Handlers
  <1>5. CASE HostEntersData
    <2>1. /\ hPc = "replyData" /\ hPc' = "data" /\ UNCHANGED <<hCmd, hLeft>>
          /\ \/ /\ link /\ io.urb = "posted" /\ io.step = "status"
                /\ io'.urb = "done" /\ io'.status = "Success"
             \/ io' = io
      BY <1>5, StatusIo DEF HostEntersData, Posted, NewIo, Statuses
    <2>2. CASE io' = io
      <3>1. (Waiting' <=> Waiting) /\ (Answering' <=> Answering)
        BY <1>1, <2>2 DEF Waiting, Answering
      <3>2. Phases'
        BY <1>1, <2>1, <2>2, <3>1 DEF Phases
      <3>3. LeftTrue'
        BY <1>1, <2>1, <2>2, <3>1 DEF LeftTrue, Phases
      <3>4. Agree'
        BY <1>1, <2>1, <2>2, <3>1 DEF Agree
      <3>. QED  BY <3>2, <3>3, <3>4 DEF PhaseInv
    <2>3. CASE io' # io
      <3>1. /\ Answering /\ io.cmd = "SendFileProperties" /\ ~Answering' /\ io # NoIo
            /\ io.step = "status" /\ io'.urb = "done" /\ io'.status = "Success" /\ link
        BY <1>1, <2>1, <2>3 DEF Answering, Phases, NoIo
      <3>2. io.size # 0 /\ hLeft = InUnits(io.size) /\ ~Waiting' /\ job.stage # "end"
        BY <1>1, <2>1, <3>1 DEF LeftTrue, Waiting, Phases
      <3>3. Phases'
        BY <1>1, <2>1, <3>1, <3>2 DEF Phases
      <3>4. LeftTrue'
        BY <1>1, <2>1, <3>1, <3>2 DEF LeftTrue
      <3>5. Agree'
        BY <1>1, <2>1, <3>1, <3>2 DEF Agree
      <3>. QED  BY <3>3, <3>4, <3>5 DEF PhaseInv
    <2>. QED  BY <2>2, <2>3
  <1>6. CASE HostReadsChunk
    <2>1. /\ hPc = "data" /\ io.step = "data" /\ Reads /\ io.name \in Nat /\ ChunkUnits \in Nat
          /\ ChunkUnits <= hLeft /\ Stores(io.name, ChunkUnits)
      BY <1>2, <1>6, IoType, SessionAssumption DEF HostReadsChunk, Posted, TypeOK
    <2>2. /\ hLeft' = hLeft - ChunkUnits
          /\ hPc' = IF hLeft' = 0 THEN "reply" ELSE "data"
      BY <2>1, StoresIs
    <2>3. hLeft = InUnits(remaining) /\ remaining \in Nat \ {0}
      <3>1. hLeft = InUnits(remaining)
        BY <2>1 DEF LeftTrue
      <3>2. hLeft > 0
        BY <2>1 DEF Output
      <3>. QED  BY <3>1, <3>2, SessionAssumption DEF InUnits, TypeOK
    <2>4. hLeft' = InUnits(remaining - 1) /\ hPc' = IF remaining = 1 THEN "reply" ELSE "data"
      BY <2>2, <2>3, UnitsLeft
    <2>5. ~Waiting' /\ ~Answering' /\ job.stage # "end"
      BY <1>1, <2>1 DEF Waiting, Answering, Phases
    <2>6. Phases'
      BY <1>1, <2>1, <2>4, <2>5 DEF Phases
    <2>7. LeftTrue'
      BY <1>1, <2>1, <2>4, <2>5 DEF LeftTrue
    <2>8. Agree'
      BY <1>1, <2>1, <2>4, <2>5 DEF Agree
    <2>. QED  BY <2>6, <2>7, <2>8 DEF PhaseInv
  <1>7. CASE HostReadsForeign
    <2>1. /\ hPc = "data" /\ Reads /\ 1 \in Nat /\ Junk \in Nat /\ Stores(Junk, 1) /\ 1 <= hLeft
          /\ \/ io.step = "header" /\ io.cmd # "CancelFileTransfer"
             \/ io.step = "block" /\ io.cmd = "StartSession"
      BY <1>2, <1>7 DEF HostReadsForeign, Posted, Output, Junk, TypeOK
    <2>2. hPc' \in {"reply", "data"} /\ (hPc' = "reply" => hCmd' = "Success")
      BY <2>1, StoresIs
    <2>3. ~InStep' /\ job.stage # "end"
      BY <1>1, <2>1 DEF Agree, Phases
    <2>4. ~Waiting' /\ (io.cmd = "SendFileProperties" => ~Answering')
      BY <1>1, <2>1 DEF Waiting, Answering, HasBlock
    <2>5. Answering' => io.cmd \in {"EndSession", "StartSession"}
      <3>1. io.cmd # "EndExtractedFsDump"
        BY <2>1, <2>3 DEF Console, CallShape, StageOf, IInv, TransferOwned
      <3>. QED  BY <1>1, <2>1, <3>1 DEF Answering, HasBlock
    <2>6. Phases'
      BY <1>1, <2>1, <2>2, <2>3, <2>4, <2>5 DEF Phases
    <2>7. LeftTrue'
      BY <1>1, <2>1, <2>4 DEF LeftTrue
    <2>. QED  BY <2>3, <2>6, <2>7 DEF PhaseInv, Agree
  <1>8. CASE HostCancelsTransfer
    <2>1. /\ hPc = "data" /\ hPc' = "reply" /\ io.step = "header" /\ Reads
          /\ io.cmd = "CancelFileTransfer"
      BY <1>2, <1>8 DEF HostCancelsTransfer, Posted, Reply
    <2>2. ~Waiting'
      BY <1>1, <2>1 DEF Waiting
    <2>3. Phases'
      BY <1>1, <2>1, <2>2 DEF Phases, Answering, HasBlock
    <2>4. LeftTrue'
      BY <1>1, <2>1, <2>2 DEF LeftTrue
    <2>5. Agree'
      BY <1>1, <2>1, <2>2 DEF Agree, Answering, HasBlock
    <2>. QED  BY <2>3, <2>4, <2>5 DEF PhaseInv
  <1>9. CASE HostReplies
    <2>1. /\ hPc \in {"reply", "lastReply"} /\ io.step \in {"status", "last"} /\ link
          /\ io.urb = "posted" /\ io'.urb = "done" /\ io'.status = hCmd
          /\ hPc' = (IF hPc = "lastReply" THEN "down" ELSE "header")
          /\ UNCHANGED <<hCmd, hLeft>>
      BY <1>9, StatusIo DEF HostReplies, Posted, NewIo, Output
    <2>2. ~Waiting' /\ ~Answering' /\ io # NoIo /\ (io.step = "status" => Answering)
      BY <1>1, <2>1 DEF Waiting, Answering, NoIo
    <2>3. Phases'
      BY <1>1, <2>1, <2>2 DEF Phases
    <2>4. LeftTrue'
      BY <1>1, <2>1, <2>2 DEF LeftTrue
    <2>5. Agree'
      BY <1>1, <2>1, <2>2 DEF Agree, LeftTrue, InStep
    <2>. QED  BY <2>3, <2>4, <2>5 DEF PhaseInv
  <1>10. CASE HostTransferFails
    <2>1. hPc' = "down" /\ io' = io
      BY <1>10 DEF HostTransferFails
    <2>. QED  BY <2>1, DownKeepsPhases
  <1>. QED
    BY <1>3, <1>4, <1>5, <1>6, <1>7, <1>8, <1>9, <1>10 DEF Host

LEMMA EnvironmentKeepsPhases ==
    ASSUME SInv2, Environment
    PROVE  PhaseInv'
  <1>. USE DEF At
  <1>. Phases /\ LeftTrue /\ Agree /\ SInv1 /\ SInv0 /\ IInv /\ Console /\ TypeOK
    BY DEF SInv2, SInv1, SInv0, PhaseInv
  <1>1. /\ UNCHANGED <<remaining, nspMode, session, detPc, timeoutEvent, job>>
        /\ io'.cmd = io.cmd /\ io'.step = io.step /\ io'.size = io.size
        /\ (io = NoIo => io' = io) /\ (io # NoIo => io' # NoIo)
    <2>1. IoServed /\ HostFrame
      BY EnvironmentKeepsType
    <2>. QED
      BY <2>1 DEF HostFrame, usbVars, appVars, threadVars, IoServed, NoIo, Console, IoOrder
  <1>2. Waiting' <=> Waiting
    BY <1>1 DEF Waiting
  <1>3. ASSUME ~link' PROVE PhaseInv'
    BY <1>3 DEF PhaseInv, Phases, LeftTrue, Agree, InStep
  <1>4. CASE Unplug
    BY <1>3, <1>4 DEF Unplug
  <1>5. CASE Plug
    <2>1. ~link /\ link' = link
      BY <1>5 DEF Plug, Console, Lives
    <2>. QED  BY <1>3, <2>1
  <1>6. CASE HostStart
    <2>1. /\ hPc' = "header" /\ stateEvent' = TRUE
          /\ io'.urb = IF io.urb = "posted" THEN "failed" ELSE io.urb
      BY <1>6, FailIo DEF HostStart, NewIo
    <2>2. Phases'
      BY <2>1 DEF Phases
    <2>3. LeftTrue'
      BY <2>1 DEF LeftTrue
    <2>. QED  BY <2>1, <2>2, <2>3 DEF PhaseInv, Agree, InStep
  <1>7. CASE HostStop
    <2>1. hPc' = "down" /\ io' = io /\ link' = link
      BY <1>7 DEF HostStop, HostIsDown, busVars
    <2>2. Phases'
      BY <1>1, <1>2, <2>1 DEF Phases
    <2>3. LeftTrue'
      BY <1>1, <1>2, <2>1 DEF LeftTrue
    <2>. QED  BY <2>1, <2>2, <2>3 DEF PhaseInv, Agree, InStep
  <1>. QED
    BY <1>4, <1>5, <1>6, <1>7 DEF Environment

LEMMA NextKeepsSInv2 ==
    ASSUME SInv2, [Next]_vars
    PROVE  SInv2'
  <1>1. SInv1'
    BY NextKeepsSInv1 DEF SInv2
  <1>. SUFFICES PhaseInv'
    BY <1>1 DEF SInv2
  <1>. SInv1 /\ SInv0 /\ Phases /\ LeftTrue /\ Agree
    BY DEF SInv2, SInv1, SInv0, PhaseInv
  <1>2. CASE UNCHANGED vars
    <2>1. UNCHANGED <<io, hPc, hCmd, hLeft, remaining, nspMode, link, job, session, detPc,
                      stateEvent, timeoutEvent>>
      BY <1>2 DEF vars, usbVars, eventVars, threadVars, appVars, busVars, hostVars
    <2>2. ~(InStep /\ io = NoIo /\ hPc = "data") \/ job'.stage \in {"data", "abort"}
      BY <2>1 DEF Agree
    <2>. QED  BY <2>1, <2>2, QuietKeepsPhases DEF InStep
  <1>3. CASE Calls
    BY <1>3, CallsAre, EnteringKeepsPhases, RefusingKeepsPhases
  <1>4. CASE Transfers
    BY <1>4, TransfersAre, ContinuingKeepsPhases, ReturnsKeepPhases, ConsoleKeepsPhases
  <1>. QED
    BY <1>2, <1>3, <1>4, ConsoleKeepsPhases, HostKeepsPhases, EnvironmentKeepsPhases DEF Next

LEMMA InitSInv2 == Init => SInv2
  <1>. SUFFICES ASSUME Init PROVE PhaseInv
    BY InitSInv1 DEF SInv2
  <1>1. ~link
    BY DEF Init
  <1>. QED  BY <1>1 DEF PhaseInv, Phases, LeftTrue, Agree, InStep

THEOREM PhasesAgree == Spec => []SInv2
  BY InitSInv2, NextKeepsSInv2, PTL DEF Spec

\* In a session that nothing disturbed both ends are at the same point of the
\* protocol between two calls, whatever was cancelled, refused or late before:
\* usbSendFileData will still accept what the host waits for.
THEOREM StageAlwaysAgrees == Spec => []StageAgrees
  <1>1. SInv2 => StageAgrees
    <2>. SUFFICES ASSUME SInv2, Settled PROVE IF hPc = "data" THEN hLeft = remaining * ChunkUnits
                                 ELSE hPc = "header" /\ (remaining = 0 \/ nspMode)
      BY DEF StageAgrees
    <2>1. InStep /\ io = NoIo
      BY DEF Settled, InStep, SInv2, SInv1, SInv0, IInv, TransferOwned
    <2>. QED  BY <2>1 DEF SInv2, PhaseInv, Agree, InUnits
  <1>. QED
    BY <1>1, PhasesAgree, PTL

-----------------------------------------------------------------------------
(***************************************************************************)
(* What the host has stored of a file, and what becomes of an NSP that was *)
(* given up.                                                               *)
(***************************************************************************)

\* What was reported is closed, and no name in use is among it.
ToldOnDisk ==
    /\ \A t \in told : disk[t.name].state = "closed" /\ disk[t.name].data = t.data
    /\ \A t \in told : t.name <= names /\ t.name # job.nsp
    /\ job.stage = "data" \/ io.cmd = "SendFileProperties" => \A t \in told : t.name # job.name

\* A host that waits for a command in the middle of one was started anew, and
\* knows of no NSP.
Restarted ==
    \/ io.urb = "failed" \/ At("header", "done") \/ At("block", "posted") \/ Answering
    \/ io.step = "data" \/ At("last", "posted") \/ Waiting
    \/ /\ io.cmd = "SendFileProperties" /\ At("status", "done")
       /\ io.status = "Success" /\ io.size # 0
NewHost == link /\ hPc = "header" /\ Restarted => ~hNsp.on

\* What the host has of a file on its own, in a file that is open or closed.
Taken == Append(job.sent, job.name)
HostHas(data) == job.kind # "nsp" => hFile = job.name /\ disk[job.name].data = data
Stored(name, data) == disk[name].state = "closed" /\ disk[name].data = data
FileStored(data) == job.kind # "nsp" => Stored(job.name, data)

FileTrue ==
    /\ link /\ io.cmd = "SendFileProperties" /\ hPc \in {"replyData", "data"}
          /\ (Answering \/ At("status", "done")) => HostHas(<<>>)
    /\ link /\ io.cmd = "SendFileProperties" /\ Answering /\ hPc = "reply"
          /\ hCmd = "Success" => FileStored(<<>>)
    /\ io.cmd = "SendFileProperties" /\ At("status", "done") /\ io.status = "Success"
          /\ io.size = 0 => FileStored(<<>>)
    /\ link /\ Waiting /\ hPc = "data" => HostHas(job.sent)
    /\ link /\ At("data", "posted") /\ hPc = "data" => HostHas(job.sent)
    /\ link /\ At("data", "done") /\ hPc = "data" => HostHas(Taken)
    /\ link /\ io.cmd = "data" /\ hPc = "reply" => hCmd = "Success" /\ FileStored(Taken)
    /\ At("last", "done") => io.status = "Success" /\ FileStored(Taken)

\* The NSP that a header completes.
NspTrue ==
    /\ link /\ io.cmd = "SendNspHeader" /\ Answering /\ hPc = "reply" /\ hCmd = "Success" =>
          Stored(job.nsp, job.sent)
    /\ io.cmd = "SendNspHeader" /\ At("status", "done") /\ io.status = "Success" =>
          Stored(job.nsp, job.sent)

\* The host would take a command, or is about to, when the console next sends one.
Receptive ==
    \/ hPc = "header"
    \/ hPc = "block" /\ (At("header", "done") \/ At("block", "posted"))
    \/ hPc = "reply" /\ (Answering \/ io.cmd = "data")
    \/ /\ hPc \in {"replyData", "data"}
       /\ \/ io.cmd = "SendFileProperties" /\ (Answering \/ At("status", "done"))
          \/ io.cmd = "data"
          \/ io = NoIo /\ remaining # 0
Held == link /\ mainPc = "run" /\ (session \/ hKind = "good") /\ hNsp.on /\ Receptive

\* What the host has of an NSP, and what is left of it.
LayoutEnd == IF job.todo = <<>> THEN job.at ELSE job.todo[Len(job.todo)]
NspData == IF At("data", "done") \/ io.step = "last" THEN Taken ELSE job.sent
EntryLeft == IF hPc \in {"replyData", "data"} THEN hLeft
             ELSE IF io.cmd = "SendFileProperties" THEN InUnits(io.size) ELSE 0

\* An NSP under way on a host that still takes commands is the console's: it is in
\* NSP mode, of the same NSP, and has as much of it to send as the host waits for.
HeldIs ==
    /\ job.kind = "nsp" /\ job.nsp = hNsp.file
    /\ session \/ owner = "detect"
    /\ owner # "client" => /\ nspMode
                           /\ \/ job.stage \in {"properties", "header", "abort"}
                              \/ job.stage = "data" /\ remaining # 0 /\ hPc = "data"
    /\ io.cmd \in {"SendFileProperties", "data"} => nspMode
    /\ io.cmd = "SendNspProperties" => \/ Answering /\ hPc = "reply" /\ hCmd = "Success"
                                       \/ At("status", "done") /\ io.status = "Success"
    /\ io.cmd \in {"SendFileProperties", "StartSession"} =>
          /\ hPc = "reply" => hCmd = "Success"
          /\ At("status", "done") => io.status = "Success"
    /\ io.cmd = "SendNspHeader" => At("header", "posted") \/ hPc = "block"
    /\ io.cmd = "CancelFileTransfer" => At("header", "posted")
HeldHas == job.stage # "abort" => /\ disk[job.nsp].data = NspData
                                  /\ hNsp.left = InUnits(LayoutEnd - job.at) + EntryLeft
NspHeld == Held => HeldIs /\ HeldHas

\* A host that refuses sessions does so while it has an NSP, too.
BadHost ==
    link /\ mainPc = "run" /\ hNsp.on /\ hKind # "good" /\ io.cmd = "StartSession" =>
        /\ Answering /\ hPc \in {"reply", "lastReply"} => hCmd # "Success"
        /\ At("status", "done") => io.status # "Success"

\* With an NSP under way the host takes whole chunks for data, and the header and
\* block of StartSession, which are not enough to complete one.
Chunks(units) == \E k \in Nat \ {0} : units = InUnits(k)
Junked ==
    link /\ mainPc = "run" /\ hNsp.on /\ hPc \in {"replyData", "data"} =>
        IF io.cmd = "StartSession"
        THEN Chunks(hLeft + (IF At("header", "posted") THEN 0
                             ELSE IF At("header", "done") \/ At("block", "posted") THEN 1
                             ELSE 2))
        ELSE At("header", "done") \/ At("block", "posted") \/ Chunks(hLeft)

ContentInv == /\ ToldOnDisk /\ NewHost /\ FileTrue /\ NspTrue /\ NspHeld /\ BadHost /\ Junked
              /\ NspsAreGivenUp
SInv3 == SInv2 /\ ContentInv

LEMMA ContentParts ==
    /\ SInv3 => /\ SInv2 /\ SInv1 /\ SInv0 /\ IInv /\ TypeOK /\ Console /\ Output /\ Phases
                /\ LeftTrue /\ ToldOnDisk /\ NewHost /\ FileTrue /\ NspTrue /\ NspHeld /\ BadHost
                /\ Junked /\ NspsAreGivenUp
    /\ /\ ToldOnDisk' /\ NewHost' /\ FileTrue' /\ NspTrue' /\ NspHeld' /\ BadHost' /\ Junked'
       /\ NspsAreGivenUp
       => ContentInv'
  BY DEF SInv3, ContentInv, SInv2, SInv1, SInv0, PhaseInv, NspsAreGivenUp

LEMMA ToldType2 == TypeOK => /\ \A t \in told : t.name \in Names /\ t.name \in Nat /\ t.name # 0
                             /\ names \in Nat
  BY SessionAssumption DEF TypeOK, Names

\* Both parts of a layout are as long as the whole.
LEMMA UnitsAdd ==
    /\ \A a, b \in Int : InUnits(a) + InUnits(b) = InUnits(a + b)
    /\ \A a \in Int : InUnits(a) \in Int
    /\ InUnits(0) = 0
  BY SessionAssumption DEF InUnits

\* A transfer of no file and no NSP header says nothing of what is stored.
LEMMA QuietContent ==
    /\ ~Waiting' /\ io'.cmd \notin {"SendFileProperties", "data"} /\ io'.step \notin {"data", "last"}
       => FileTrue'
    /\ io'.cmd # "SendNspHeader" => NspTrue'
    /\ io'.cmd # "StartSession" => BadHost'
  BY DEF FileTrue, NspTrue, BadHost, At

\* Before and after a step of the console that leaves the disk alone.
DiskFrame == UNCHANGED <<hPc, hKind, hCmd, hNsp, hFile, hLeft, disk>>
LEMMA DiskFrameIs == UNCHANGED hostVars => DiskFrame
  BY DEF hostVars, DiskFrame

LEMMA EnteringKeepsContent ==
    ASSUME SInv3, NEW cmd \in CallCommands, EntersWith(cmd)
    PROVE  ContentInv'
  <1>. USE DEF At
  <1>. /\ SInv2 /\ SInv1 /\ SInv0 /\ IInv /\ TypeOK /\ Console /\ Output /\ Phases
       /\ LeftTrue /\ ToldOnDisk /\ NewHost /\ FileTrue /\ NspTrue /\ NspHeld /\ BadHost
       /\ Junked /\ NspsAreGivenUp
    BY ContentParts
  <1>1. /\ io = NoIo /\ io.cmd = "none" /\ io.step = "none" /\ io'.cmd = cmd /\ owner = "none"
        /\ session /\ session' /\ owner' = "client"
        /\ io'.step = (IF cmd = "data" THEN "data" ELSE "header")
        /\ io'.urb = IF cable THEN "posted" ELSE "failed"
        /\ job.stage = StageOf[cmd] /\ job'.stage = job.stage
        /\ job'.kind = job.kind /\ job'.nsp = job.nsp /\ job'.sent = job.sent
        /\ UNCHANGED <<link, mainPc, told>> /\ DiskFrame
    BY DiskFrameIs
    DEF EntersWith, NewJob, CallRest, busVars, IInv, TransferOwned, NoIo, Urb, InSession
  <1>2. link => cable
    BY DEF Console, Lives
  <1>3. cmd = "data" => Waiting /\ remaining' = remaining /\ job' = job
    BY <1>1 DEF Waiting, EntersWith, StageOf
  <1>4. io'.cmd # "none" /\ ~Waiting' /\ ~Answering' /\ io' # NoIo
    BY <1>1 DEF Waiting, Answering, NoIo, CallCommands
  <1>5. cmd = "SendFileProperties" => /\ names' = names + 1 /\ job'.name = names + 1
                                      /\ job'.at = Head(job.todo) /\ job'.todo = Tail(job.todo)
                                      /\ io'.size = Head(job.todo) - job.at
    BY DEF EntersWith, NewJob
  <1>6. cmd # "SendFileProperties" => UNCHANGED <<names, job>>
    BY DEF EntersWith
  <1>7. ToldOnDisk'
    <2>. \A t \in told : t.name \in Nat /\ names \in Nat
      BY ToldType2
    <2>1. CASE cmd = "SendFileProperties"
      BY <1>1, <1>5, <2>1 DEF ToldOnDisk, DiskFrame
    <2>2. CASE cmd # "SendFileProperties"
      BY <1>1, <1>6, <2>2 DEF ToldOnDisk, DiskFrame
    <2>. QED  BY <2>1, <2>2
  <1>8. NewHost'
    <2>1. link' /\ Restarted' => cmd = "data"
      BY <1>1, <1>2, <1>4 DEF Restarted
    <2>2. cmd = "data" => Restarted
      BY <1>3 DEF Restarted
    <2>. QED  BY <1>1, <2>1, <2>2 DEF NewHost, DiskFrame
  <1>9. FileTrue'
    <2>1. CASE cmd = "data"
      <3>1. link => hPc # "reply"
        BY <1>3, <2>1 DEF Phases
      <3>2. link /\ hPc = "data" => HostHas(job.sent)
        BY <1>3, <2>1 DEF FileTrue
      <3>3. HostHas(job.sent) => HostHas(job.sent)'
        BY <1>1, <1>3, <2>1 DEF HostHas, DiskFrame
      <3>. QED  BY <1>1, <1>3, <1>4, <2>1, <3>1, <3>2, <3>3 DEF FileTrue, DiskFrame
    <2>2. CASE cmd # "data"
      BY <1>1, <1>4, <2>2 DEF FileTrue
    <2>. QED  BY <2>1, <2>2
  <1>10. NspTrue' /\ BadHost'
    BY <1>1, <1>4 DEF NspTrue, BadHost, CallCommands
  <1>11. Junked'
    <2>1. hPc \in {"replyData", "data"} /\ link /\ mainPc = "run" /\ hNsp.on => Chunks(hLeft)
      BY <1>1 DEF Junked
    <2>. QED  BY <1>1, <2>1 DEF Junked, DiskFrame, CallCommands, Chunks
  <1>12. ASSUME Held' PROVE HeldIs' /\ HeldHas'
    <2>1. hPc = "header" \/ (cmd = "data" /\ hPc \in {"replyData", "data"})
      <3>1. ~(hPc = "reply" /\ cmd = "data" /\ link)
        BY <1>3 DEF Phases
      <3>. QED  BY <1>1, <1>4, <1>12, <3>1 DEF Held, Receptive, DiskFrame
    <2>2. Held /\ link
      BY <1>1, <1>3, <1>12, <2>1 DEF Held, Receptive, DiskFrame, Waiting
    <2>3. HeldIs /\ HeldHas
      BY <2>2 DEF NspHeld
    <2>4. nspMode /\ job.kind = "nsp" /\ job.nsp = hNsp.file
      BY <1>1, <2>3 DEF HeldIs
    <2>5. cmd # "SendNspProperties" /\ (cmd \notin Resetting => nspMode')
      BY <2>4 DEF EntersWith
    <2>6. HeldIs'
      BY <1>1, <1>2, <1>4, <2>1, <2>2, <2>4, <2>5 DEF HeldIs, DiskFrame, Resetting, CallCommands
    <2>7. ASSUME job.stage # "abort"
          PROVE  /\ disk[job.nsp].data = NspData'
                 /\ hNsp.left = InUnits(LayoutEnd - job.at)' + EntryLeft'
      <3>1. /\ disk[job.nsp].data = job.sent /\ NspData' = job.sent
        BY <1>1, <2>3, <2>7 DEF HeldHas, NspData
      <3>2. hNsp.left = InUnits(LayoutEnd - job.at) + (IF hPc \in {"replyData", "data"} THEN hLeft ELSE 0)
        BY <1>1, <2>3, <2>7 DEF HeldHas, EntryLeft
      <3>3. CASE cmd # "SendFileProperties"
        <4>1. EntryLeft' = (IF hPc \in {"replyData", "data"} THEN hLeft ELSE 0)
          BY <1>1, <3>3 DEF EntryLeft, DiskFrame
        <4>2. InUnits(LayoutEnd - job.at)' = InUnits(LayoutEnd - job.at)
          BY <1>6, <3>3 DEF LayoutEnd, InUnits
        <4>. QED  BY <3>1, <3>2, <4>1, <4>2
      <3>4. CASE cmd = "SendFileProperties"
        <4>1. hPc = "header" /\ EntryLeft' = InUnits(Head(job.todo) - job.at)
          BY <1>1, <1>5, <2>1, <3>4 DEF EntryLeft, DiskFrame, InUnits
        <4>2. /\ job.todo # <<>> /\ job.todo \in Seq(Nat) /\ job.at \in Nat
              /\ \A i \in 1..Len(job.todo) - 1 : job.todo[i] <= job.todo[i + 1]
              /\ job.at <= job.todo[1]
          BY <1>1, <3>4, JobType DEF Console, JobShape, TodoShape, StageOf
        <4>. DEFINE end == job.todo[Len(job.todo)]
                    head == Head(job.todo)
        <4>3. end \in Nat /\ head \in Nat
          BY <4>2
        <4>4. LayoutEnd' = end /\ LayoutEnd = end /\ job'.at = head
          BY <1>5, <3>4, <4>2, TailShape DEF LayoutEnd
        <4>5. InUnits(LayoutEnd - job.at) = InUnits(end - job.at) /\ InUnits(LayoutEnd - job.at)' = InUnits(end - head)
          BY <4>4 DEF InUnits
        <4>. HIDE DEF end, head
        <4>6. InUnits(end - head) + InUnits(head - job.at) = InUnits(end - job.at)
          <5>1. end - head \in Int /\ head - job.at \in Int /\ (end - head) + (head - job.at) = end - job.at
            BY <4>2, <4>3
          <5>2. InUnits(end - head) + InUnits(head - job.at) = InUnits((end - head) + (head - job.at))
            BY <5>1, UnitsAdd, ZenonT(30)
          <5>. QED  BY <5>1, <5>2, ZenonT(30)
        <4>7. InUnits(end - job.at) \in Int
          <5>1. end - job.at \in Int
            BY <4>2, <4>3
          <5>. QED  BY <5>1, UnitsAdd
        <4>. QED  BY <3>1, <3>2, <4>1, <4>5, <4>6, <4>7 DEF head
      <3>. QED  BY <3>3, <3>4
    <2>8. HeldHas'
      BY <1>1, <2>7 DEF HeldHas, DiskFrame
    <2>. QED  BY <2>6, <2>8
  <1>. QED
    BY <1>7, <1>8, <1>9, <1>10, <1>11, <1>12, ContentParts DEF NspHeld

LEMMA RefusingKeepsContent ==
    ASSUME SInv3, Refuses
    PROVE  ContentInv'
  <1>. USE DEF At
  <1>. /\ SInv2 /\ SInv1 /\ SInv0 /\ IInv /\ TypeOK /\ Console /\ Output /\ Phases
       /\ LeftTrue /\ ToldOnDisk /\ NewHost /\ FileTrue /\ NspTrue /\ NspHeld /\ BadHost
       /\ Junked /\ NspsAreGivenUp
    BY ContentParts
  <1>1. /\ io = NoIo /\ io' = io /\ io.cmd = "none" /\ io.step = "none" /\ io.urb = "none"
        /\ owner = "none" /\ UNCHANGED <<owner, session, link, mainPc, told, names>> /\ DiskFrame
    BY DiskFrameIs
    DEF Refuses, CallRest, busVars, IInv, TransferOwned, NoIo
  <1>2. job'.stage \in {"abort", "none"} /\ ~Waiting' /\ ~Answering'
    BY <1>1 DEF Refuses, GivesUp, NewJob, NoJob, Waiting, Answering
  <1>3. job'.nsp = job.nsp \/ job'.nsp = 0
    BY DEF Refuses, GivesUp, NewJob, NoJob
  <1>4. ToldOnDisk'
    <2>. \A t \in told : t.name # 0
      BY ToldType2
    <2>. QED  BY <1>1, <1>2, <1>3 DEF ToldOnDisk, DiskFrame
  <1>5. NewHost'
    BY <1>1, <1>2 DEF NewHost, Restarted
  <1>6. FileTrue' /\ NspTrue' /\ BadHost'
    BY <1>1, <1>2, QuietContent
  <1>7. Junked'
    BY <1>1 DEF Junked, DiskFrame, Chunks
  <1>8. ASSUME Held' PROVE HeldIs' /\ HeldHas'
    <2>1. remaining' = remaining \/ remaining' = 0
      BY DEF Refuses
    <2>2. Held
      BY <1>1, <1>2, <1>8, <2>1 DEF Held, Receptive, DiskFrame
    <2>3. HeldIs
      BY <2>2 DEF NspHeld
    <2>4. session
      BY <1>1, <2>3 DEF HeldIs
    <2>5. InSession /\ nspMode /\ (job.stage = "data" => remaining # 0)
      BY <1>1, <2>3, <2>4 DEF HeldIs, InSession, Console, Lives
    <2>6. GivesUp /\ nspMode' = nspMode /\ remaining' = remaining
      BY <2>5 DEF Refuses
    <2>7. job'.stage = "abort" /\ job'.kind = job.kind /\ job'.nsp = job.nsp
      BY <2>6 DEF GivesUp, NewJob
    <2>. QED  BY <1>1, <2>3, <2>4, <2>5, <2>6, <2>7 DEF HeldIs, HeldHas, DiskFrame
  <1>. QED
    BY <1>4, <1>5, <1>6, <1>7, <1>8, ContentParts DEF NspHeld

LEMMA ContinuingKeepsContent ==
    ASSUME SInv3, Continues \/ LastChunk
    PROVE  ContentInv'
  <1>. USE DEF At
  <1>. /\ SInv2 /\ SInv1 /\ SInv0 /\ IInv /\ TypeOK /\ Console /\ Output /\ Phases
       /\ LeftTrue /\ ToldOnDisk /\ NewHost /\ FileTrue /\ NspTrue /\ NspHeld /\ BadHost
       /\ Junked /\ NspsAreGivenUp
    BY ContentParts
  <1>1. /\ io.cmd # "none" /\ io' # NoIo /\ io # NoIo /\ io'.cmd = io.cmd /\ io'.size = io.size
        /\ io'.urb = (IF cable THEN "posted" ELSE "failed") /\ io.urb = "done"
        /\ UNCHANGED <<owner, session, link, mainPc, told, names, job, nspMode>> /\ DiskFrame
    BY DiskFrameIs
    DEF Continues, LastChunk, NewIo, Urb, IInv, TransferOwned, NoIo, IoOrder, Console,
           usbVars, threadVars, appVars, busVars
  <1>2. link => cable
    BY DEF Console, Lives
  <1>3. ~Waiting' /\ ~Waiting
    BY <1>1 DEF Waiting
  <1>4. \/ /\ io.cmd # "data" /\ io.step = "header" /\ HasBlock(io.cmd)
           /\ io'.step = "block" /\ ~Answering' /\ ~Answering
        \/ /\ io.cmd # "data" /\ io.step \in {"header", "block"} /\ io'.step = "status" /\ Answering
           /\ (Answering' => io'.urb = "posted")
           /\ (io.step = "header" => ~HasBlock(io.cmd))
        \/ /\ io.cmd = "data" /\ io.step = "data" /\ io'.step = "last" /\ ~Answering' /\ ~Answering
    <2>1. CASE Continues
      <3>1. io.step = "block" => HasBlock(io.cmd)
        BY DEF Console, IoOrder
      <3>2. io.cmd # "data"
        BY <2>1 DEF Continues, Console, IoOrder
      <3>. QED  BY <1>1, <2>1, <3>1, <3>2 DEF Continues, NewIo, Answering
    <2>2. CASE LastChunk
      BY <1>1, <2>2 DEF LastChunk, NewIo, Answering
    <2>. QED  BY <2>1, <2>2
  <1>5. ToldOnDisk'
    BY <1>1 DEF ToldOnDisk, DiskFrame
  <1>6. NewHost'
    BY <1>1, <1>2, <1>3, <1>4 DEF NewHost, Restarted, DiskFrame
  <1>7. FileTrue'
    <2>1. /\ HostHas(<<>>)' <=> HostHas(<<>>)
          /\ FileStored(<<>>)' <=> FileStored(<<>>)
          /\ FileStored(Taken)' <=> FileStored(Taken)
      BY <1>1 DEF HostHas, FileStored, Stored, Taken, DiskFrame
    <2>2. io'.urb # "done"
      BY <1>1
    <2>. QED  BY <1>1, <1>2, <1>3, <1>4, <2>1, <2>2 DEF FileTrue, DiskFrame
  <1>8. NspTrue'
    BY <1>1, <1>4 DEF NspTrue, Stored, DiskFrame
  <1>9. BadHost'
    BY <1>1, <1>4 DEF BadHost, DiskFrame
  <1>10. Junked'
    <2>. SUFFICES ASSUME link, mainPc = "run", hNsp.on, hPc \in {"replyData", "data"} PROVE Junked'
      BY <1>1 DEF Junked, DiskFrame
    <2>1. io'.urb = "posted"
      BY <1>1, <1>2
    <2>2. CASE io.cmd = "StartSession"
      BY <1>1, <1>4, <2>1, <2>2 DEF Junked, DiskFrame, Chunks, HasBlock
    <2>3. CASE io.cmd # "StartSession"
      <3>1. io.cmd # "EndSession"
        BY DEF IInv, TransferOwned, Console, Lives
      <3>2. ~(Answering /\ io.step = "header")
        BY <1>1, <2>3, <3>1 DEF Phases, Answering, HasBlock
      <3>. QED  BY <1>1, <1>4, <2>1, <2>3, <3>2 DEF Junked, DiskFrame, Chunks
    <2>. QED  BY <2>2, <2>3
  <1>11. ASSUME Held' PROVE HeldIs' /\ HeldHas'
    <2>1. io'.urb = "posted" /\ link /\ session' = session
      BY <1>1, <1>2, <1>11 DEF Held
    <2>2. Held
      BY <1>1, <1>3, <1>4, <1>11, <2>1 DEF Held, Receptive, DiskFrame
    <2>3. HeldIs /\ HeldHas
      BY <2>2 DEF NspHeld
    <2>4. HeldIs'
      <3>1. io.cmd # "CancelFileTransfer" /\ (io.cmd = "SendNspHeader" => hPc = "block")
        BY <1>1, <2>3 DEF HeldIs
      <3>2. io.cmd = "SendNspProperties" => Answering /\ hPc = "reply" /\ hCmd = "Success"
        BY <1>1, <1>4, <2>3 DEF HeldIs
      <3>3. io.cmd = "SendNspProperties" => Answering'
        BY <1>1, <1>4, <2>1, <3>2 DEF Answering
      <3>4. owner # "client" => remaining' = remaining
        <4>1. io.cmd # "data" => remaining' = remaining
          BY <1>4 DEF Continues, LastChunk, usbVars
        <4>. QED  BY <4>1 DEF IInv, TransferOwned
      <3>. QED  BY <1>1, <2>1, <2>3, <3>1, <3>2, <3>3, <3>4 DEF HeldIs, DiskFrame
    <2>5. NspData' = NspData
      BY <1>1, <1>4 DEF NspData, Taken
    <2>6. EntryLeft' = EntryLeft
      BY <1>1 DEF EntryLeft, DiskFrame, InUnits
    <2>7. HeldHas'
      BY <1>1, <2>3, <2>5, <2>6 DEF HeldHas, LayoutEnd, DiskFrame, InUnits
    <2>. QED  BY <2>4, <2>7
  <1>. QED
    BY <1>5, <1>6, <1>7, <1>8, <1>9, <1>10, <1>11, ContentParts DEF NspHeld

\* What a call that comes back leaves to prove.
LEMMA ReturningIs ==
    ASSUME SInv3, ReturnsTrue \/ ReturnsFalse \/ Chunk \/ File
    PROVE  /\ owner = "client" /\ owner' = "none" /\ io' = NoIo /\ session
           /\ io'.cmd = "none" /\ io'.step = "none" /\ io'.urb = "none"
           /\ UNCHANGED <<session, link, mainPc, names>> /\ DiskFrame
           /\ io.cmd \in CallCommands /\ job.stage = StageOf[io.cmd] /\ job.stage # "none"
           /\ io.cmd \in {"SendFileProperties", "data"} => io.name = job.name
           /\ io.cmd \in {"SendFileProperties", "data"} => job.name # 0
           /\ job.nsp <= names /\ job.name <= names
           /\ ~Answering' /\ (Restarted' <=> Waiting') /\ NspTrue' /\ BadHost'
           /\ (Waiting' <=> job'.stage = "data" /\ remaining' # 0)
           /\ (~Waiting' => FileTrue')
  <1>. SInv0 /\ IInv /\ TypeOK /\ Console
    BY ContentParts
  <1>1. /\ owner = "client" /\ owner' = "none" /\ io' = NoIo /\ session
        /\ io'.cmd = "none" /\ io'.step = "none" /\ io'.urb = "none"
        /\ UNCHANGED <<session, link, mainPc, names>> /\ DiskFrame
    BY DiskFrameIs
    DEF ReturnsTrue, ReturnsFalse, Chunk, File, ReturnRest, NoIo, busVars, IInv, TransferOwned
  <1>2. io.cmd \in CallCommands /\ job.stage = StageOf[io.cmd] /\ job.stage # "none"
    BY <1>1, ToldName, ClientIs
  <1>3. /\ io.cmd \in {"SendFileProperties", "data"} => io.name = job.name
        /\ job.nsp <= names /\ job.name <= names
    BY <1>1 DEF Console, CallShape, JobShape
  <1>4. io.cmd \in {"SendFileProperties", "data"} => job.name # 0
    <2>1. job.nsp \in Nat /\ job.name \in Nat
      BY JobType
    <2>. QED  BY <1>1, <2>1 DEF Console, CallShape
  <1>5. ~Answering' /\ (Waiting' <=> job'.stage = "data" /\ remaining' # 0)
    BY <1>1 DEF Answering, Waiting, At
  <1>6. Restarted' <=> Waiting'
    BY <1>1, <1>5 DEF Restarted, At
  <1>. QED
    BY <1>1, <1>2, <1>3, <1>4, <1>5, <1>6, QuietContent

LEMMA FailingKeepsContent ==
    ASSUME SInv3, ReturnsFalse
    PROVE  ContentInv'
  <1>. USE DEF At
  <1>. /\ SInv2 /\ SInv1 /\ SInv0 /\ IInv /\ TypeOK /\ Console /\ Output /\ Phases
       /\ LeftTrue /\ ToldOnDisk /\ NewHost /\ FileTrue /\ NspTrue /\ NspHeld /\ BadHost
       /\ Junked /\ NspsAreGivenUp
    BY ContentParts
  <1>1. /\ owner = "client" /\ io' = NoIo /\ session
        /\ io'.cmd = "none" /\ io'.step = "none" /\ io'.urb = "none"
        /\ UNCHANGED <<session, link, mainPc, names>> /\ DiskFrame
        /\ io.cmd \in CallCommands /\ job.stage = StageOf[io.cmd] /\ (Restarted' <=> Waiting')
        /\ NspTrue' /\ BadHost' /\ (~Waiting' => FileTrue')
    BY ReturningIs
  <1>2. /\ remaining' = 0 /\ told' = told /\ (Fails \/ Rejected)
        /\ job'.stage \in {"abort", "none"} /\ ~Waiting' /\ (job'.nsp = job.nsp \/ job'.nsp = 0)
    BY DEF ReturnsFalse, GivesUp, NewJob, NoJob, Waiting
  <1>3. ToldOnDisk'
    <2>. \A t \in told : t.name # 0
      BY ToldType2
    <2>. QED  BY <1>1, <1>2 DEF ToldOnDisk, DiskFrame
  <1>4. NewHost' /\ FileTrue'
    BY <1>1, <1>2 DEF NewHost
  <1>5. hNsp.on => Stalls \subseteq HarmlessStalls
    BY DEF Output, NspsAreGivenUp
  <1>6. Junked'
    <2>1. ASSUME link, mainPc = "run", hNsp.on, hPc \in {"replyData", "data"} PROVE Chunks(hLeft)
      <3>1. io.cmd # "StartSession"
        BY <1>1 DEF CallCommands
      <3>2. ~(io.step = "header" /\ io.urb = "done")
        BY <1>2, <1>5, <2>1 DEF Fails, Rejected, TimedOut, HarmlessStalls
      <3>3. ~(io.step = "block" /\ io.urb = "posted")
        <4>. SUFFICES ASSUME io.step = "block", io.urb = "posted" PROVE FALSE
          OBVIOUS
        <4>1. hPc = "data"
          BY <2>1 DEF Phases
        <4>2. HostServes
          BY <2>1, <4>1 DEF HostServes
        <4>. QED  BY <1>2, <1>5, <2>1, <4>2 DEF Fails, Rejected, TimedOut, HarmlessStalls
      <3>. QED  BY <2>1, <3>1, <3>2, <3>3 DEF Junked
    <2>. QED  BY <1>1, <2>1 DEF Junked, DiskFrame, Chunks
  <1>7. ~Held'
    <2>. SUFFICES ASSUME Held' PROVE FALSE
      OBVIOUS
    <2>1. link /\ mainPc = "run" /\ hNsp.on /\ hPc = "header" /\ Held
      BY <1>1, <1>2 DEF Held, Receptive, DiskFrame, Answering
    <2>2. ~Restarted
      BY <2>1 DEF NewHost
    <2>3. CASE Fails
      <3>1. io.step \in {"header", "block"} => HostServes
        BY <2>1 DEF HostServes
      <3>2. io.step = "block" => HasBlock(io.cmd)
        BY DEF Console, IoOrder
      <3>3. io.step \in TransferSteps
        BY <1>1, IoType DEF Console, IoOrder, CallCommands
      <3>. QED
        BY <1>5, <2>1, <2>2, <2>3, <3>1, <3>2, <3>3
        DEF Fails, TimedOut, Restarted, Answering, HarmlessStalls, TransferSteps
    <2>4. CASE Rejected
      <3>1. HeldIs
        BY <2>1 DEF NspHeld
      <3>2. io.step = "status" /\ io.urb = "done" /\ io.status # "Success" /\ ~Answering
        BY <2>4 DEF Rejected, FileTrue, Answering
      <3>3. io.cmd # "data"
        BY <3>2 DEF Console, IoOrder
      <3>4. io.cmd \notin {"StartExtractedFsDump", "EndExtractedFsDump"}
        BY <1>1, <3>1 DEF HeldIs, Console, JobShape, StageOf
      <3>. QED  BY <1>1, <2>1, <3>1, <3>2, <3>3, <3>4 DEF HeldIs, CallCommands
    <2>. QED  BY <1>2, <2>3, <2>4
  <1>. QED
    BY <1>1, <1>3, <1>4, <1>6, <1>7, ContentParts DEF NspHeld

LEMMA SucceedingKeepsContent ==
    ASSUME SInv3, ReturnsTrue
    PROVE  ContentInv'
  <1>. USE DEF At
  <1>. /\ SInv2 /\ SInv1 /\ SInv0 /\ IInv /\ TypeOK /\ Console /\ Output /\ Phases
       /\ LeftTrue /\ ToldOnDisk /\ NewHost /\ FileTrue /\ NspTrue /\ NspHeld /\ BadHost
       /\ Junked /\ NspsAreGivenUp
    BY ContentParts
  <1>1. /\ owner = "client" /\ owner' = "none" /\ io' = NoIo /\ session
        /\ io'.cmd = "none" /\ io'.step = "none" /\ io'.urb = "none"
        /\ UNCHANGED <<session, link, mainPc, names>> /\ DiskFrame
        /\ io.cmd \in CallCommands /\ job.stage = StageOf[io.cmd] /\ (Restarted' <=> Waiting')
        /\ NspTrue' /\ BadHost' /\ (~Waiting' => FileTrue') /\ ~Answering'
        /\ (Waiting' <=> job'.stage = "data" /\ remaining' # 0)
        /\ io.cmd = "SendFileProperties" => io.name = job.name /\ job.name # 0
        /\ job.nsp <= names /\ job.name <= names
    BY ReturningIs
  <1>2. io.step = "status" /\ io.urb = "done" /\ io.status = "Success" /\ ~Answering
    BY DEF ReturnsTrue, Answering
  <1>3. job' = NoJob \/ (job'.kind = job.kind /\ job'.nsp = job.nsp /\ job'.sent = job.sent)
    BY DEF ReturnsTrue, Advances, NewJob
  <1>4. \/ /\ io.cmd = "SendFileProperties" /\ io.size # 0 /\ Waiting' /\ remaining' = io.size
           /\ NewJob(job.kind, "data", job.todo, job.at, job.name, job.nsp, job.sent)
        \/ ~(io.cmd = "SendFileProperties" /\ io.size # 0) /\ ~Waiting' /\ job'.stage # "data"
    BY <1>1 DEF ReturnsTrue, Advances, NewJob, NoJob, CallCommands
  <1>5. ToldOnDisk'
    <2>. \A t \in told : t.name # 0
      BY ToldType2
    <2>. DEFINE Fresh == \/ /\ io.cmd = "SendFileProperties" /\ io.size = 0 /\ job.kind # "nsp"
                            /\ told' = told \cup {[name |-> io.name, data |-> <<>>]}
                         \/ /\ io.cmd = "SendNspHeader"
                            /\ told' = told \cup {[name |-> job.nsp, data |-> job.sent]}
    <2>1. told' = told \/ Fresh
      BY DEF ReturnsTrue
    <2>2. job'.nsp = job.nsp \/ job'.nsp = 0
      BY <1>3 DEF NoJob
    <2>3. /\ job'.stage = "data" => io.cmd = "SendFileProperties" /\ job'.name = job.name /\ told' = told
          /\ io'.cmd # "SendFileProperties"
      BY <1>1, <1>4, <2>1 DEF NewJob
    <2>4. CASE told' = told
      BY <1>1, <2>2, <2>3, <2>4 DEF ToldOnDisk, DiskFrame
    <2>5. ASSUME NEW name \in Names, NEW data, told' = told \cup {[name |-> name, data |-> data]},
                 Stored(name, data), name <= names, name # job'.nsp
          PROVE  ToldOnDisk'
      <3>1. \/ told' = told \/ job'.stage # "data"
        BY <1>4, <2>1, <2>3
      <3>. QED  BY <1>1, <2>2, <2>3, <2>4, <2>5, <3>1 DEF ToldOnDisk, DiskFrame, Stored
    <2>6. CASE io.cmd = "SendFileProperties" /\ Fresh
      <3>1. io.name \in Names /\ Stored(io.name, <<>>)
        BY <1>1, <1>2, <2>6, ToldName DEF FileTrue, FileStored
      <3>2. job.nsp = 0
        BY <2>6, JobType DEF Console, JobShape
      <3>3. told' = told \cup {[name |-> io.name, data |-> <<>>]}
        BY <2>6
      <3>. QED  BY <1>1, <2>2, <2>5, <2>6, <3>1, <3>2, <3>3
    <2>7. CASE io.cmd = "SendNspHeader" /\ Fresh
      <3>1. job.nsp \in Names /\ Stored(job.nsp, job.sent) /\ job.nsp # 0
        BY <1>1, <1>2, <2>7, ToldName DEF NspTrue, Names
      <3>2. job' = NoJob /\ job'.nsp = 0
        BY <2>7 DEF ReturnsTrue, NoJob
      <3>3. told' = told \cup {[name |-> job.nsp, data |-> job.sent]}
        BY <2>7
      <3>. QED  BY <1>1, <2>5, <3>1, <3>2, <3>3
    <2>. QED  BY <2>1, <2>4, <2>6, <2>7
  <1>6. NewHost'
    BY <1>1, <1>2, <1>4 DEF NewHost, Restarted, DiskFrame
  <1>7. FileTrue'
    <2>1. ASSUME Waiting' PROVE FileTrue'
      <3>1. io.cmd = "SendFileProperties" /\ job'.name = job.name /\ job'.kind = job.kind /\ job'.sent = job.sent
        BY <1>4, <2>1 DEF NewJob
      <3>2. link /\ hPc = "data" => HostHas(<<>>)
        BY <1>2, <3>1 DEF FileTrue
      <3>3. job.kind # "nsp" => job.sent = <<>>
        BY <1>1, <3>1, ToldName
      <3>4. (link /\ hPc = "data" => HostHas(job.sent))'
        BY <1>1, <3>1, <3>2, <3>3 DEF HostHas, DiskFrame
      <3>. QED  BY <1>1, <2>1, <3>4 DEF FileTrue
    <2>. QED  BY <1>1, <2>1
  <1>8. Junked'
    BY <1>1, <1>2 DEF Junked, DiskFrame, Chunks, CallCommands
  <1>9. ASSUME Held' PROVE HeldIs' /\ HeldHas'
    <2>1. hPc = "header" \/ (hPc = "data" /\ io.cmd = "SendFileProperties" /\ Waiting')
      <3>1. hPc # "header" => hPc \in {"replyData", "data"} /\ remaining' # 0 /\ link
        BY <1>1, <1>9 DEF Held, Receptive, DiskFrame
      <3>2. io.cmd = "SendFileProperties" => remaining' = io.size
        BY DEF ReturnsTrue
      <3>. QED  BY <1>2, <1>4, <3>1, <3>2 DEF Phases
    <2>2. link /\ mainPc = "run" /\ hNsp.on /\ Held
      BY <1>1, <1>2, <1>9, <2>1 DEF Held, Receptive, DiskFrame
    <2>3. HeldIs /\ HeldHas
      BY <2>2 DEF NspHeld
    <2>4. job.kind = "nsp" /\ job.nsp = hNsp.file /\ job.stage # "abort"
          /\ io.cmd \in {"SendFileProperties", "SendNspProperties"}
      <3>1. io.cmd \notin {"StartExtractedFsDump", "EndExtractedFsDump"}
        BY <1>1, <2>3 DEF HeldIs, Console, JobShape, StageOf
      <3>2. io.cmd \notin {"SendNspHeader", "CancelFileTransfer"}
        BY <1>2, <2>1, <2>3 DEF HeldIs
      <3>3. io.cmd # "data"
        BY <1>2 DEF Console, IoOrder
      <3>4. io.cmd \in {"SendFileProperties", "SendNspProperties"}
        BY <1>1, <3>1, <3>2, <3>3 DEF CallCommands
      <3>. QED  BY <1>1, <2>3, <3>4 DEF HeldIs, StageOf
    <2>5. nspMode'
      <3>1. io.cmd = "SendFileProperties" => nspMode
        BY <2>3 DEF HeldIs
      <3>. QED  BY <2>4, <3>1 DEF ReturnsTrue
    <2>6. /\ job'.kind = "nsp" /\ job'.nsp = job.nsp /\ job'.sent = job.sent
          /\ job'.todo = job.todo /\ job'.at = job.at
          /\ job'.stage \in {"properties", "header"} \/ Waiting'
      BY <1>4, <2>4 DEF ReturnsTrue, Advances, NewJob
    <2>7. hPc = "header" => ~Waiting'
      BY <1>2, <1>4, <2>2 DEF NewHost, Restarted
    <2>8. HeldIs'
      BY <1>1, <2>1, <2>4, <2>5, <2>6, <2>7 DEF HeldIs, DiskFrame
    <2>9. NspData = job.sent /\ NspData' = job'.sent
      BY <1>1, <1>2 DEF NspData
    <2>10. EntryLeft' = EntryLeft
      <3>1. CASE hPc = "header"
        <4>1. io.cmd = "SendFileProperties" => InUnits(io.size) = 0
          BY <1>4, <2>7, <3>1, UnitsAdd
        <4>2. EntryLeft = 0
          BY <3>1, <4>1 DEF EntryLeft
        <4>. QED  BY <1>1, <3>1, <4>2 DEF EntryLeft, DiskFrame
      <3>2. CASE hPc = "data"
        BY <1>1, <3>2 DEF EntryLeft, DiskFrame
      <3>. QED  BY <2>1, <3>1, <3>2
    <2>11. HeldHas'
      BY <1>1, <2>3, <2>4, <2>6, <2>9, <2>10 DEF HeldHas, LayoutEnd, DiskFrame, InUnits
    <2>. QED  BY <2>8, <2>11
  <1>. QED
    BY <1>1, <1>5, <1>6, <1>7, <1>8, <1>9, ContentParts DEF NspHeld

LEMMA SendingKeepsContent ==
    ASSUME SInv3, Chunk \/ File
    PROVE  ContentInv'
  <1>. USE DEF At
  <1>. /\ SInv2 /\ SInv1 /\ SInv0 /\ IInv /\ TypeOK /\ Console /\ Output /\ Phases
       /\ LeftTrue /\ ToldOnDisk /\ NewHost /\ FileTrue /\ NspTrue /\ NspHeld /\ BadHost
       /\ Junked /\ NspsAreGivenUp
    BY ContentParts
  <1>1. /\ owner = "client" /\ owner' = "none" /\ io' = NoIo /\ session
        /\ io'.cmd = "none" /\ io'.step = "none" /\ io'.urb = "none"
        /\ UNCHANGED <<session, link, mainPc, names>> /\ DiskFrame
        /\ io.cmd \in CallCommands /\ job.stage = StageOf[io.cmd] /\ (Restarted' <=> Waiting')
        /\ NspTrue' /\ BadHost' /\ (~Waiting' => FileTrue') /\ ~Answering'
        /\ (Waiting' <=> job'.stage = "data" /\ remaining' # 0)
        /\ job.nsp <= names /\ job.name <= names
    BY ReturningIs
  <1>2. /\ io.cmd = "data" /\ io.urb = "done" /\ nspMode' = nspMode /\ job.stage = "data"
        /\ io.name = job.name /\ io.name \in Names /\ job.name # 0 /\ ~Answering
    BY <1>1, ReturningIs, ToldName DEF Chunk, File, StageOf, Answering
  <1>3. \/ /\ Chunk /\ io.step = "data" /\ Waiting' /\ told' = told
           /\ NewJob(job.kind, job.stage, job.todo, job.at, job.name, job.nsp, Taken)
        \/ /\ File /\ io.step = "last" /\ io.status = "Success" /\ job'.stage # "data" /\ ~Waiting'
           /\ Advances(IF job.kind = "nsp" THEN Taken ELSE <<>>)
    <2>1. CASE Chunk
      <3>1. remaining' # 0
        BY <2>1 DEF Chunk, TypeOK
      <3>. QED  BY <1>1, <1>2, <2>1, <3>1 DEF Chunk, NewJob, Taken
    <2>2. CASE File
      BY <1>1, <1>2, <2>2 DEF File, Advances, NewJob, NoJob, Taken
    <2>. QED  BY <2>1, <2>2
  <1>4. ToldOnDisk'
    <2>. \A t \in told : t.name # 0
      BY ToldType2
    <2>1. job'.nsp = job.nsp \/ job'.nsp = 0
      BY <1>3 DEF Advances, NewJob, NoJob
    <2>2. CASE Chunk
      BY <1>1, <1>2, <2>2 DEF ToldOnDisk, DiskFrame, Chunk, NewJob
    <2>3. CASE File /\ job'.stage # "data"
      <3>1. CASE job.kind = "nsp"
        <4>1. told' = told
          BY <2>3, <3>1 DEF File
        <4>. QED  BY <1>1, <2>1, <2>3, <4>1 DEF ToldOnDisk, DiskFrame
      <3>2. CASE job.kind # "nsp"
        <4>1. told' = told \cup {[name |-> job.name, data |-> Taken]}
          BY <1>2, <2>3, <3>2 DEF File, Taken
        <4>2. Stored(job.name, Taken)
          BY <1>2, <2>3, <3>2 DEF FileTrue, FileStored, File
        <4>3. job'.nsp = 0
          BY <2>1, <3>2, JobType DEF Console, JobShape
        <4>. QED
          BY <1>1, <1>2, <2>3, <4>1, <4>2, <4>3 DEF ToldOnDisk, DiskFrame, Stored
      <3>. QED  BY <3>1, <3>2
    <2>. QED  BY <1>3, <2>2, <2>3
  <1>5. NewHost'
    BY <1>1, <1>3 DEF NewHost, Restarted, DiskFrame
  <1>6. FileTrue'
    <2>1. CASE Waiting'
      <3>1. link /\ hPc = "data" => HostHas(Taken)
        BY <1>2, <1>3, <2>1 DEF FileTrue
      <3>2. (link /\ hPc = "data" => HostHas(job.sent))'
        BY <1>1, <1>3, <2>1, <3>1 DEF HostHas, DiskFrame, NewJob
      <3>. QED  BY <1>1, <2>1, <3>2 DEF FileTrue
    <2>. QED  BY <1>1, <2>1
  <1>7. Junked'
    BY <1>1, <1>2, <1>3 DEF Junked, DiskFrame, Chunks
  <1>8. ASSUME Held' PROVE HeldIs' /\ HeldHas'
    <2>1. \/ hPc = "header" /\ ~Waiting' /\ io.step = "last"
          \/ hPc = "data" /\ Waiting' /\ io.step = "data"
      <3>1. hPc = "header" \/ (hPc \in {"replyData", "data"} /\ Waiting')
        <4>1. File => remaining' = 0
          BY <1>1, <1>2 DEF File, Console, CallShape
        <4>. QED  BY <1>1, <1>3, <1>8, <4>1 DEF Held, Receptive, DiskFrame
      <3>2. link /\ hNsp.on
        BY <1>1, <1>8 DEF Held, DiskFrame
      <3>3. Waiting' => hPc # "header"
        BY <1>3, <3>2 DEF NewHost, Restarted
      <3>. QED  BY <1>2, <1>3, <3>1, <3>2, <3>3 DEF Phases
    <2>2. Held
      BY <1>1, <1>2, <1>8, <2>1 DEF Held, Receptive, DiskFrame
    <2>3. HeldIs /\ HeldHas
      BY <2>2 DEF NspHeld
    <2>4. job.kind = "nsp" /\ job.nsp = hNsp.file /\ nspMode'
      BY <1>2, <2>3 DEF HeldIs
    <2>5. /\ job'.kind = "nsp" /\ job'.nsp = job.nsp /\ job'.sent = Taken
          /\ job'.todo = job.todo /\ job'.at = job.at
          /\ job'.stage \in {"properties", "header"} \/ Waiting'
      BY <1>2, <1>3, <2>4 DEF Advances, NewJob
    <2>6. HeldIs'
      BY <1>1, <2>1, <2>4, <2>5 DEF HeldIs, DiskFrame
    <2>7. NspData = Taken /\ NspData' = job'.sent
      BY <1>1, <1>2, <2>1 DEF NspData
    <2>8. EntryLeft' = EntryLeft
      BY <1>1, <1>2, <2>1 DEF EntryLeft, DiskFrame
    <2>9. HeldHas'
      BY <1>1, <1>2, <2>3, <2>5, <2>7, <2>8 DEF HeldHas, LayoutEnd, DiskFrame, InUnits
    <2>. QED  BY <2>6, <2>9
  <1>. QED
    BY <1>1, <1>4, <1>5, <1>6, <1>7, <1>8, ContentParts DEF NspHeld

\* A step of the console that touches neither a transfer nor the file in hand.
LEMMA IdlingKeepsContent ==
    ASSUME SInv3, UNCHANGED <<io, job, names, told, remaining, nspMode, session, owner>>, DiskFrame,
           link' => link, link' /\ mainPc' = "run" => mainPc = "run"
    PROVE  ContentInv'
  <1>. USE DEF At
  <1>. /\ ToldOnDisk /\ NewHost /\ FileTrue /\ NspTrue /\ NspHeld /\ BadHost /\ Junked
       /\ NspsAreGivenUp
    BY ContentParts
  <1>1. (Waiting' <=> Waiting) /\ (Answering' <=> Answering) /\ (Restarted' <=> Restarted)
    BY DEF Waiting, Answering, Restarted
  <1>2. ToldOnDisk' /\ NewHost'
    BY <1>1 DEF ToldOnDisk, NewHost, DiskFrame
  <1>3. FileTrue'
    <2>1. /\ HostHas(<<>>)' <=> HostHas(<<>>)
          /\ HostHas(job.sent)' <=> HostHas(job.sent)
          /\ HostHas(Taken)' <=> HostHas(Taken)
          /\ FileStored(<<>>)' <=> FileStored(<<>>)
          /\ FileStored(Taken)' <=> FileStored(Taken)
      BY DEF HostHas, FileStored, Stored, Taken, DiskFrame
    <2>. QED  BY <1>1, <2>1 DEF FileTrue, DiskFrame
  <1>4. NspTrue' /\ BadHost' /\ Junked'
    BY <1>1 DEF NspTrue, Stored, BadHost, Junked, DiskFrame, Chunks
  <1>5. Held' => Held
    BY <1>1 DEF Held, Receptive, DiskFrame
  <1>6. Held => HeldIs' /\ HeldHas'
    <2>1. (HeldIs => HeldIs')
      BY <1>1 DEF HeldIs, DiskFrame
    <2>2. HeldHas => HeldHas'
      BY DEF HeldHas, NspData, Taken, EntryLeft, LayoutEnd, DiskFrame, InUnits
    <2>. QED  BY <2>1, <2>2 DEF NspHeld
  <1>. QED
    BY <1>2, <1>3, <1>4, <1>5, <1>6, ContentParts DEF NspHeld

LEMMA ApplicationKeepsContent ==
    ASSUME SInv3, Application
    PROVE  ContentInv'
  <1>. USE DEF At
  <1>. /\ SInv2 /\ SInv1 /\ SInv0 /\ IInv /\ TypeOK /\ Console /\ Output /\ Phases
       /\ LeftTrue /\ ToldOnDisk /\ NewHost /\ FileTrue /\ NspTrue /\ NspHeld /\ BadHost
       /\ Junked /\ NspsAreGivenUp
    BY ContentParts
  <1>1. UNCHANGED <<io, told, remaining, nspMode, session, owner, link, mainPc>> /\ DiskFrame
    <2>1. UNCHANGED <<usbVars, eventVars, threadVars, io, told, busVars, hostVars>>
      BY DEF Application, StartJob, AbortJob
    <2>. QED  BY <2>1, DiskFrameIs DEF usbVars, threadVars, busVars
  <1>2. ASSUME owner # "client", ~Waiting', names <= names', \A t \in told : t.name # job'.nsp,
               job'.stage # "data", Held' => HeldIs' /\ HeldHas'
        PROVE  ContentInv'
    <2>1. io.cmd \notin CallCommands
      BY <1>2, ClientIs
    <2>2. ToldOnDisk'
      <3>1. \A t \in told : t.name \in Nat /\ names \in Nat
        BY ToldType2
      <3>2. \A t \in told : t.name <= names'
        <4>1. \A t \in told : t.name <= names
          BY DEF ToldOnDisk
        <4>2. names' \in Nat
          BY NextKeepsSInv2, SessionAssumption DEF SInv2, SInv1, SInv0, TypeOK, Next
        <4>. QED  BY <1>2, <3>1, <4>1, <4>2
      <3>. QED  BY <1>1, <1>2, <2>1, <3>2 DEF ToldOnDisk, DiskFrame, CallCommands
    <2>3. NewHost' /\ BadHost' /\ Junked'
      <3>1. (Answering' <=> Answering) /\ (Restarted' => Restarted)
        BY <1>1, <1>2 DEF Answering, Restarted
      <3>. QED  BY <1>1, <3>1 DEF NewHost, BadHost, Junked, DiskFrame, Chunks
    <2>4. FileTrue' /\ NspTrue'
      <3>1. io.cmd \notin {"SendFileProperties", "data", "SendNspHeader"}
        BY <2>1 DEF CallCommands
      <3>2. io.step \notin {"data", "last"}
        BY <3>1 DEF IInv, TransferOwned
      <3>. QED  BY <1>1, <1>2, <3>1, <3>2, QuietContent
    <2>. QED  BY <1>2, <2>2, <2>3, <2>4, ContentParts DEF NspHeld
  <1>3. CASE AbortJob
    <2>1. /\ NewJob(job.kind, "abort", job.todo, job.at, job.name, job.nsp, job.sent)
          /\ owner # "client" /\ names' = names
      BY <1>3, StageJob DEF AbortJob
    <2>2. ~Waiting' /\ \A t \in told : t.name # job'.nsp
      BY <2>1 DEF Waiting, NewJob, ToldOnDisk
    <2>3. ASSUME Held' PROVE HeldIs' /\ HeldHas'
      <3>1. Answering' <=> Answering
        BY <1>1 DEF Answering
      <3>2. Held
        BY <1>1, <2>3, <3>1 DEF Held, Receptive, DiskFrame
      <3>3. HeldIs
        BY <3>2 DEF NspHeld
      <3>4. HeldIs'
        BY <1>1, <2>1, <3>1, <3>3 DEF HeldIs, DiskFrame, NewJob
      <3>. QED  BY <2>1, <3>4 DEF HeldHas, NewJob
    <2>4. names <= names' /\ job'.stage # "data"
      BY <2>1 DEF NewJob, TypeOK
    <2>. QED  BY <1>2, <2>1, <2>2, <2>3, <2>4
  <1>4. ASSUME NEW kind, NEW ends, StartJob(kind, ends), kind \in JobKinds PROVE ContentInv'
    <2>1. job = NoJob /\ job'.stage # "data" /\ (job'.nsp = 0 \/ job'.nsp = names + 1)
          /\ (names' = names \/ names' = names + 1)
      <3>1. kind \in {"file", "fs", "nsp"}
        BY <1>4, SessionAssumption
      <3>. QED  BY <1>4, <3>1 DEF StartJob, NoJob
    <2>2. owner # "client" /\ ~Waiting'
      <3>1. owner = "client" => job.kind # "none"
        BY ToldName
      <3>. QED  BY <2>1, <3>1 DEF NoJob, Waiting
    <2>3. \A t \in told : t.name # job'.nsp
      <3>1. \A t \in told : t.name \in Nat /\ t.name # 0 /\ names \in Nat /\ t.name <= names
        BY ToldType2 DEF ToldOnDisk
      <3>. QED  BY <2>1, <3>1
    <2>4. names <= names'
      <3>1. names \in Nat
        BY ToldType2
      <3>. QED  BY <2>1, <3>1
    <2>5. ~Held'
      <3>1. Answering' <=> Answering
        BY <1>1 DEF Answering
      <3>2. Held' => Held
        BY <1>1, <3>1 DEF Held, Receptive, DiskFrame
      <3>3. ~HeldIs
        BY <2>1 DEF HeldIs, NoJob
      <3>. QED  BY <3>2, <3>3 DEF NspHeld
    <2>. QED  BY <1>2, <2>1, <2>2, <2>3, <2>4, <2>5
  <1>. QED
    BY <1>3, <1>4 DEF Application

\* What the detection thread posts or ends, outside a session.
LEMMA DetectionKeepsContent ==
    ASSUME SInv3, Detection \/ EndSessionReturns \/ \E ok \in BOOLEAN : StartSessionReturns(ok)
    PROVE  ContentInv'
  <1>. USE DEF At
  <1>. /\ SInv2 /\ SInv1 /\ SInv0 /\ IInv /\ TypeOK /\ Console /\ Output /\ Phases
       /\ LeftTrue /\ ToldOnDisk /\ NewHost /\ FileTrue /\ NspTrue /\ NspHeld /\ BadHost
       /\ Junked /\ NspsAreGivenUp
    BY ContentParts
  <1>1. link => cable
    BY DEF Console, Lives
  <1>2. ASSUME remaining' = 0, UNCHANGED <<job, names, told, link, mainPc, nspMode>>, DiskFrame,
               \/ io' = NoIo
               \/ /\ io'.cmd \in {"StartSession", "EndSession"} /\ io'.step = "header" /\ io' # NoIo
                  /\ io'.urb = Urb,
               link /\ mainPc = "run" => io.cmd \in {"none", "StartSession"},
               ASSUME link, mainPc = "run", hNsp.on, hPc \in {"replyData", "data"}
               PROVE  Chunks(hLeft),
               Held' => Held /\ HeldIs'
        PROVE  ContentInv'
    <2>1. /\ ~Waiting' /\ ~Answering' /\ io'.cmd \in {"none", "StartSession", "EndSession"}
          /\ io'.step \in {"none", "header"} /\ io'.urb \in {"none", "posted", "failed"}
          /\ link => io'.urb # "failed"
      BY <1>1, <1>2 DEF Waiting, Answering, NoIo, Urb
    <2>2. ToldOnDisk'
      BY <1>2, <2>1 DEF ToldOnDisk, DiskFrame
    <2>3. NewHost'
      BY <1>2, <2>1 DEF NewHost, Restarted
    <2>4. FileTrue' /\ NspTrue'
      BY <2>1, QuietContent
    <2>5. BadHost'
      BY <2>1 DEF BadHost
    <2>6. Junked'
      <3>1. hLeft + 0 = hLeft
        BY DEF TypeOK
      <3>2. link /\ io'.cmd = "StartSession" => io'.step = "header" /\ io'.urb = "posted"
        BY <1>1, <1>2, <2>1 DEF NoIo, Urb
      <3>3. link /\ mainPc = "run" /\ hNsp.on /\ hPc \in {"replyData", "data"} => Chunks(hLeft)
        BY <1>2
      <3>. QED  BY <1>2, <3>1, <3>2, <3>3 DEF Junked, DiskFrame, Chunks
    <2>7. ASSUME Held' PROVE HeldHas'
      <3>1. hPc = "header" /\ link /\ mainPc = "run" /\ hNsp.on
        BY <1>2, <2>1, <2>7 DEF Held, Receptive, DiskFrame
      <3>2. ~(io.step = "data" /\ io.urb = "done") /\ io.step # "last" /\ io.cmd # "SendFileProperties"
        BY <1>2, <3>1 DEF IInv, TransferOwned
      <3>3. NspData = job.sent /\ NspData' = job.sent /\ EntryLeft = 0 /\ EntryLeft' = 0
        BY <1>2, <2>1, <3>1, <3>2 DEF NspData, EntryLeft, DiskFrame
      <3>4. HeldHas
        BY <1>2, <2>7 DEF NspHeld
      <3>. QED  BY <1>2, <3>3, <3>4 DEF HeldHas, LayoutEnd, DiskFrame, InUnits
    <2>. QED  BY <1>2, <2>2, <2>3, <2>4, <2>5, <2>6, <2>7, ContentParts DEF NspHeld
  <1>3. CASE DetectionWakes
    BY <1>3, DiskFrameIs, IdlingKeepsContent DEF DetectionWakes, usbVars, appVars, busVars
  <1>4. CASE DetectionHandles
    <2>1. /\ remaining' = 0 /\ UNCHANGED <<job, names, told, link, mainPc, nspMode>> /\ DiskFrame
          /\ owner = "none" /\ io = NoIo /\ io.cmd = "none" /\ io.step = "none" /\ io.urb = "none"
      BY <1>4, DiskFrameIs
      DEF DetectionHandles, DropSession, appVars, busVars, IInv, TransferOwned, NoIo
    <2>2. \/ cable /\ owner' = "detect" /\ io'.cmd = "StartSession" /\ io'.step = "header"
             /\ io' # NoIo /\ io'.urb = Urb /\ session' = FALSE
          \/ ~cable /\ io' = NoIo
      BY <1>4, <2>1, CommandIo DEF DetectionHandles, DropSession, Command, NoIo
    <2>3. hPc \in {"replyData", "data"} /\ link /\ mainPc = "run" /\ hNsp.on => Chunks(hLeft)
      BY <2>1 DEF Junked
    <2>4. ASSUME Held' PROVE Held /\ HeldIs'
      <3>1. link /\ cable /\ mainPc = "run" /\ hNsp.on
        BY <1>1, <2>1, <2>4 DEF Held, DiskFrame
      <3>2. ~Answering' /\ io'.urb = "posted" /\ io'.cmd = "StartSession" /\ ~session'
        BY <2>2, <3>1 DEF Answering, Urb, HasBlock
      <3>3. hPc = "header" /\ hKind = "good" /\ Held
        BY <2>1, <2>2, <2>4, <3>1, <3>2 DEF Held, Receptive, DiskFrame
      <3>4. HeldIs
        BY <3>3 DEF NspHeld
      <3>. QED  BY <2>1, <2>2, <3>1, <3>2, <3>3, <3>4 DEF HeldIs, DiskFrame
    <2>. QED  BY <1>2, <2>1, <2>2, <2>3, <2>4
  <1>5. CASE DetectionLeaves \/ EndSessionReturns
    <2>1. /\ UNCHANGED <<job, names, told, link, mainPc>> /\ DiskFrame /\ mainPc # "run"
      BY <1>5, DiskFrameIs
      DEF DetectionLeaves, EndSessionReturns, appVars, busVars, Console, Lives, IInv, TransferOwned
    <2>2. /\ io' = NoIo \/ (/\ io'.cmd = "EndSession" /\ io'.step = "header" /\ io' # NoIo
                            /\ io'.urb = Urb)
          /\ io' = NoIo => remaining' = 0
      <3>1. CASE EndSessionReturns
        BY <3>1 DEF EndSessionReturns, DropSession
      <3>2. CASE DetectionLeaves
        BY <3>2, CommandIo DEF DetectionLeaves, DropSession, Command, NoIo, IInv, TransferOwned
      <3>. QED  BY <1>5, <3>1, <3>2
    <2>3. ~Restarted' \/ ~link
      BY <1>1, <2>2 DEF Restarted, Waiting, Answering, NoIo, Urb
    <2>4. ToldOnDisk' /\ NewHost'
      BY <2>1, <2>2, <2>3 DEF ToldOnDisk, NewHost, DiskFrame, NoIo
    <2>5. FileTrue' /\ NspTrue'
      BY <2>2, QuietContent DEF Waiting, NoIo
    <2>6. BadHost' /\ Junked' /\ ~Held'
      BY <2>1 DEF BadHost, Junked, Held
    <2>. QED  BY <2>4, <2>5, <2>6, ContentParts DEF NspHeld
  <1>6. ASSUME NEW ok \in BOOLEAN, StartSessionReturns(ok) PROVE ContentInv'
    <2>1. /\ UNCHANGED <<job, names, told, link, mainPc, nspMode>> /\ DiskFrame /\ io' = NoIo
          /\ io.cmd = "StartSession" /\ session' = ok /\ ~session /\ remaining' = 0
          /\ owner = "detect" /\ owner' = "none"
      BY <1>6, DiskFrameIs DEF StartSessionReturns, appVars, busVars, IInv, TransferOwned
    <2>2. \/ ok /\ io.step = "status" /\ io.urb = "done" /\ io.status = "Success"
          \/ ~ok /\ io.step = "status" /\ io.urb = "done" /\ io.status # "Success"
          \/ ~ok /\ io.urb = "failed"
          \/ ~ok /\ mainPc # "run"
      BY <1>6, <2>1 DEF StartSessionReturns, CommandReturns, TransferFails, Console, Lives
    <2>3. link /\ mainPc = "run" => hPc \in {"header", "down"}
      BY <2>1, <2>2 DEF Phases
    <2>4. ASSUME Held' PROVE Held /\ HeldIs'
      <3>1. link /\ mainPc = "run" /\ hNsp.on /\ hPc = "header"
        BY <2>1, <2>3, <2>4 DEF Held, Receptive, DiskFrame
      <3>2. hKind = "good" /\ Held
        <4>1. ok => hKind = "good"
          BY <2>1, <2>2, <3>1 DEF BadHost
        <4>. QED  BY <2>1, <2>4, <3>1, <4>1 DEF Held, Receptive, DiskFrame
      <3>3. HeldIs
        BY <3>2 DEF NspHeld
      <3>4. ok
        <4>1. io.urb # "failed"
          BY <3>1 DEF NewHost, Restarted
        <4>. QED  BY <2>1, <2>2, <3>1, <3>3, <4>1 DEF HeldIs
      <3>5. nspMode /\ job.stage \in {"properties", "header", "abort"}
        BY <2>1, <3>1, <3>3 DEF HeldIs
      <3>. QED  BY <2>1, <3>1, <3>2, <3>3, <3>4, <3>5 DEF HeldIs, DiskFrame, NoIo
    <2>. QED  BY <1>2, <2>1, <2>3, <2>4
  <1>. QED
    BY <1>3, <1>4, <1>5, <1>6 DEF Detection

LEMMA MainKeepsContent ==
    ASSUME SInv3, Main
    PROVE  ContentInv'
  <1>1. /\ UNCHANGED <<io, job, names, told, remaining, nspMode, session, owner>> /\ DiskFrame
        /\ (link' => link) /\ (link' /\ mainPc' = "run" => mainPc = "run")
    <2>1. mainPc = "closed" => ~link
      BY ContentParts DEF Console, Lives
    <2>. QED
      BY <2>1, DiskFrameIs DEF Main, Initialize, Exit, ExitLocks, usbVars, appVars, busVars
  <1>. QED
    BY <1>1, IdlingKeepsContent

\* The host writes to the file that is open, or to a new one.
LEMMA HostWrites ==
    ASSUME SInv1, Host, NEW n \in Names
    PROVE  \/ disk'[n] = disk[n]
           \/ disk[n].state = "open"
           \/ io.cmd \in {"SendFileProperties", "SendNspProperties"} /\ n = io.name /\ hPc = "block"
  <1>. SInv0 /\ TypeOK /\ Output
    BY DEF SInv1, SInv0
  <1>1. CASE disk' = disk
    BY <1>1
  <1>2. ASSUME NEW name \in Names, NEW file \in FileRecords, disk' = [disk EXCEPT ![name] = file]
        PROVE  disk'[n] = disk[n] \/ n = name
    BY <1>2, DiskWrite
  <1>3. CASE HostReadsHeader \/ HandleStartSession \/ HandleEndSession \/ HandleStartExtractedFsDump
             \/ HandleEndExtractedFsDump \/ HostEntersData \/ HostReplies
    BY <1>1, <1>3 DEF HostReadsHeader, HandleStartSession, HandleEndSession, HandleStartExtractedFsDump,
           HandleEndExtractedFsDump, HostEntersData, HostReplies
  <1>4. CASE HandleNspProperties \/ HandleFileProperties
    <2>1. io.cmd \in {"SendFileProperties", "SendNspProperties"} /\ hPc = "block" /\ io.name \in Names
      BY <1>4, OpensName DEF HandleNspProperties, HandleFileProperties, Receives, HasBlock
    <2>2. \/ disk' = disk
          \/ disk' = [disk EXCEPT ![io.name] = [NoFile EXCEPT !.state = "open"]]
          \/ disk' = [disk EXCEPT ![io.name] = [NoFile EXCEPT !.state = "closed"]]
      BY <1>4 DEF HandleNspProperties, HandleFileProperties, OpenFile
    <2>. QED  BY <1>1, <1>2, <2>1, <2>2, NewFiles
  <1>5. CASE HandleCancelFileTransfer
    <2>1. \/ disk' = disk
          \/ /\ hNsp.on /\ hNsp.file \in Names /\ disk[hNsp.file].state = "open"
             /\ disk' = [disk EXCEPT ![hNsp.file] = [NoFile EXCEPT !.state = "deleted"]]
      BY <1>5 DEF HandleCancelFileTransfer, Output
    <2>. QED  BY <1>1, <1>2, <2>1, NewFiles
  <1>6. CASE HandleSendNspHeader
    <2>1. \/ disk' = disk
          \/ /\ hNsp.file \in Names /\ disk[hNsp.file].state = "open"
             /\ disk' = [disk EXCEPT ![hNsp.file].header = TRUE, ![hNsp.file].state = "closed"]
      BY <1>6 DEF HandleSendNspHeader, Output
    <2>2. n # hNsp.file /\ disk' # disk => disk'[n] = disk[n]
      BY <2>1 DEF TypeOK
    <2>. QED  BY <1>1, <2>1, <2>2
  <1>7. CASE HostReadsChunk \/ HostReadsForeign
    <2>1. hPc = "data" /\ hFile \in Names /\ disk[hFile].state = "open" /\ io.name \in Nat
          /\ ChunkUnits \in Nat /\ Junk \in Nat /\ 1 \in Nat /\ 1 <= hLeft
      BY <1>7, IoType, SessionAssumption DEF HostReadsChunk, HostReadsForeign, Output, Junk, TypeOK
    <2>2. n # hFile => disk'[n] = disk[n]
      BY <1>7, <2>1, StoresIs DEF HostReadsChunk, HostReadsForeign
    <2>. QED  BY <2>1, <2>2
  <1>8. CASE HostCancelsTransfer \/ HostTransferFails
    <2>1. disk' = disk \/ (DeleteOutput /\ hPc = "data")
      BY <1>8 DEF HostCancelsTransfer, HostTransferFails
    <2>2. hPc = "data" => hFile \in Names /\ disk[hFile].state = "open"
      BY DEF Output
    <2>. QED  BY <1>1, <2>1, <2>2, DeleteIs
  <1>. QED
    BY <1>3, <1>4, <1>5, <1>6, <1>7, <1>8 DEF Host, Handlers

\* What a step of the host leaves to prove.
LEMMA HostMoves ==
    ASSUME SInv3, Host
    PROVE  /\ UNCHANGED <<remaining, nspMode, session, job, link, names, told, owner, mainPc>>
           /\ io'.cmd = io.cmd /\ io'.step = io.step /\ io'.name = io.name /\ io'.size = io.size
           /\ (Waiting' <=> Waiting) /\ ToldOnDisk'
           /\ owner = "client" => /\ mainPc = "run" /\ session /\ job.kind # "none"
                                  /\ job.stage = StageOf[io.cmd]
           /\ io.cmd \in CallCommands => owner = "client"
           /\ io.cmd \in {"SendFileProperties", "data"} => io.name = job.name /\ job.name \in Names
  <1>. SInv1 /\ SInv0 /\ IInv /\ Console /\ TypeOK /\ ToldOnDisk
    BY ContentParts
  <1>1. /\ UNCHANGED <<remaining, nspMode, session, job, link, names, told, owner, mainPc>>
        /\ io'.cmd = io.cmd /\ io'.step = io.step /\ io'.name = io.name /\ io'.size = io.size
        /\ (io = NoIo => io' = io) /\ (io # NoIo => io' # NoIo)
    BY HostLeaves DEF IoServed
  <1>2. owner = "client" => /\ mainPc = "run" /\ session /\ job.kind # "none"
                            /\ job.stage = StageOf[io.cmd]
    BY ToldName DEF Console, Lives, CallShape, NoJob, IInv, TransferOwned
  <1>3. io.cmd \in CallCommands => owner = "client"
    BY DEF IInv, TransferOwned, CallCommands
  <1>4. io.cmd \in {"SendFileProperties", "data"} => io.name = job.name /\ job.name \in Names
    BY <1>3, ToldName DEF Console, CallShape, CallCommands
  <1>5. io.cmd = "SendNspProperties" => io.name = job.nsp
    BY <1>3 DEF Console, CallShape, CallCommands
  <1>6. ASSUME NEW t \in told PROVE disk'[t.name] = disk[t.name]
    <2>1. t.name \in Names /\ disk[t.name].state # "open"
      BY ToldType2 DEF ToldOnDisk
    <2>2. ~(io.cmd \in {"SendFileProperties", "SendNspProperties"} /\ t.name = io.name)
      BY <1>4, <1>5 DEF ToldOnDisk
    <2>. QED  BY <2>1, <2>2, HostWrites
  <1>7. ToldOnDisk'
    BY <1>1, <1>6 DEF ToldOnDisk
  <1>8. Waiting' <=> Waiting
    BY <1>1 DEF Waiting
  <1>. QED
    BY <1>1, <1>2, <1>3, <1>4, <1>7, <1>8

\* A command that the host has read whole.
LEMMA HandlersKeepContent ==
    ASSUME SInv3, Handlers
    PROVE  ContentInv'
  <1>. USE DEF At
  <1>. /\ SInv2 /\ SInv1 /\ SInv0 /\ IInv /\ TypeOK /\ Console /\ Output /\ Phases
       /\ LeftTrue /\ ToldOnDisk /\ NewHost /\ FileTrue /\ NspTrue /\ NspHeld /\ BadHost
       /\ Junked /\ NspsAreGivenUp
    BY ContentParts
  <1>. Host
    BY DEF Host
  <1>1. /\ UNCHANGED <<remaining, nspMode, session, job, link, names, told, owner, mainPc>>
        /\ io'.cmd = io.cmd /\ io'.step = io.step /\ io'.name = io.name /\ io'.size = io.size
        /\ (Waiting' <=> Waiting) /\ ToldOnDisk'
        /\ owner = "client" => /\ mainPc = "run" /\ session /\ job.kind # "none"
                               /\ job.stage = StageOf[io.cmd]
        /\ io.cmd \in CallCommands => owner = "client"
        /\ io.cmd \in {"SendFileProperties", "data"} => io.name = job.name /\ job.name \in Names
    BY HostMoves
  <1>2. /\ link /\ io.urb = "posted" /\ io'.urb = "done" /\ Receives({io.cmd})
    <2>1. Served(io.status)
      BY HandlerServes
    <2>. QED
      BY <2>1 DEF Served, NewIo, Handlers, HandleStartSession, HandleEndSession, HandleNspProperties,
             HandleFileProperties, HandleCancelFileTransfer, HandleSendNspHeader,
             HandleStartExtractedFsDump, HandleEndExtractedFsDump, Receives
  <1>3. /\ hPc = io.step /\ io.step = (IF HasBlock(io.cmd) THEN "block" ELSE "header")
        /\ Answering' /\ ~Answering /\ ~Waiting' /\ io.cmd # "data"
    <2>1. hPc = io.step /\ io.step = (IF HasBlock(io.cmd) THEN "block" ELSE "header")
      BY <1>2 DEF Receives, Posted
    <2>2. io.cmd # "data" /\ io # NoIo
      BY <2>1 DEF Console, IoOrder, NoIo
    <2>. QED  BY <1>1, <1>2, <2>1, <2>2 DEF Answering, Waiting
  <1>4. ASSUME mainPc = "run", session \/ hKind = "good", hNsp.on
        PROVE  HeldIs /\ HeldHas
    <2>1. Held
      BY <1>2, <1>3, <1>4 DEF Held, Receptive
    <2>. QED  BY <2>1 DEF NspHeld
  <1>5. NspData = job.sent /\ NspData' = job.sent
    BY <1>1, <1>3 DEF NspData
  <1>6. ASSUME NspTrue' \/ io.cmd # "SendNspHeader",
               FileTrue' \/ io.cmd # "SendFileProperties",
               BadHost' \/ io.cmd # "StartSession",
               Held' => HeldIs' /\ HeldHas',
               \/ hPc' \in {"reply", "lastReply", "down"}
               \/ hPc' = "replyData" /\ io.cmd = "SendFileProperties" /\ Junked'
        PROVE  ContentInv'
    <2>1. FileTrue' /\ NspTrue' /\ BadHost'
      BY <1>1, <1>3, <1>6, QuietContent
    <2>2. Junked'
      BY <1>6 DEF Junked
    <2>3. NewHost'
      BY <1>6 DEF NewHost
    <2>. QED  BY <1>1, <1>6, <2>1, <2>2, <2>3, ContentParts DEF NspHeld
  <1>7. ASSUME UNCHANGED <<hNsp, hKind, disk>>, Held', io.cmd # "SendFileProperties",
               hPc' = "reply"
        PROVE  HeldIs /\ HeldHas /\ HeldHas'
    <2>1. HeldIs /\ HeldHas
      BY <1>1, <1>4, <1>7 DEF Held
    <2>2. EntryLeft' = 0 /\ EntryLeft = 0
      BY <1>1, <1>3, <1>7 DEF EntryLeft
    <2>. QED  BY <1>1, <1>5, <1>7, <2>1, <2>2 DEF HeldHas, LayoutEnd, InUnits
  <1>8. CASE HandleStartSession
    <2>1. /\ io.cmd = "StartSession" /\ UNCHANGED <<hNsp, hKind, disk>> /\ owner = "detect" /\ ~session
          /\ \/ hKind = "good" /\ hPc' = "reply" /\ hCmd' = "Success"
             \/ hKind # "good" /\ hPc' \in {"reply", "lastReply"} /\ hCmd' # "Success"
      BY <1>8 DEF HandleStartSession, Receives, Reply, AllHostKinds, TypeOK, IInv, TransferOwned
    <2>2. BadHost'
      BY <1>1, <1>3, <2>1 DEF BadHost
    <2>3. ASSUME Held' PROVE HeldIs' /\ HeldHas'
      <3>1. hKind = "good" /\ hPc' = "reply" /\ hCmd' = "Success"
        BY <1>1, <2>1, <2>3 DEF Held
      <3>2. HeldIs /\ HeldHas'
        BY <1>7, <2>1, <2>3, <3>1
      <3>3. nspMode /\ job.stage \in {"properties", "header", "abort"}
        BY <1>3, <2>1, <3>2 DEF HeldIs, HasBlock
      <3>. QED  BY <1>1, <1>3, <2>1, <3>1, <3>2, <3>3 DEF HeldIs, HasBlock
    <2>. QED  BY <1>6, <2>1, <2>2, <2>3
  <1>9. CASE HandleEndSession
    <2>1. io.cmd = "EndSession" /\ hPc' = "lastReply"
      BY <1>9 DEF HandleEndSession, Receives
    <2>2. ~Held'
      BY <2>1 DEF Held, Receptive
    <2>. QED  BY <1>6, <2>1, <2>2
  <1>10. CASE HandleNspProperties
    <2>1. /\ io.cmd = "SendNspProperties" /\ hPc' = "reply" /\ UNCHANGED hKind /\ owner = "client"
      BY <1>1, <1>10 DEF HandleNspProperties, Receives, Reply, CallCommands
    <2>2. CASE hNsp.on
      <3>1. ~HeldIs
        BY <1>3, <2>1 DEF HeldIs, HasBlock
      <3>2. FALSE
        BY <1>1, <1>4, <2>1, <2>2, <3>1
      <3>. QED  BY <3>2
    <2>3. CASE ~hNsp'.on
      <3>1. ~Held'
        BY <2>3 DEF Held
      <3>. QED  BY <1>6, <2>1, <3>1
    <2>4. CASE ~hNsp.on /\ hNsp'.on
      <3>1. /\ hNsp' = [on |-> TRUE, file |-> io.name, left |-> InUnits(io.size)]
            /\ disk' = [disk EXCEPT ![io.name] = [NoFile EXCEPT !.state = "open"]]
            /\ hCmd' = "Success"
        BY <1>10, <2>4 DEF HandleNspProperties, OpenFile, InUnits, Reply
      <3>2. /\ job.kind = "nsp" /\ io.name = job.nsp /\ job.nsp \in Names /\ job.stage = "nsp"
            /\ job.todo # <<>> /\ job.at = 0 /\ job.sent = <<>> /\ io.size = job.todo[Len(job.todo)]
        BY <1>1, <2>1, OpensName, ToldName DEF StageOf, Console, JobShape, CallShape
      <3>3. disk'[job.nsp].data = <<>>
        BY <3>1, <3>2, DiskWrite, NewFiles
      <3>4. HeldIs'
        BY <1>1, <1>3, <2>1, <3>1, <3>2 DEF HeldIs
      <3>5. hNsp'.left = InUnits(LayoutEnd - job.at)' + EntryLeft'
        <4>1. EntryLeft' = 0 /\ hNsp'.left = InUnits(io.size)
          BY <1>1, <2>1, <3>1 DEF EntryLeft
        <4>2. LayoutEnd' = io.size /\ job'.at = 0 /\ io.size \in Int
          BY <1>1, <3>2, IoType DEF LayoutEnd
        <4>3. InUnits(LayoutEnd - job.at)' = InUnits(io.size)
          BY <4>2 DEF InUnits
        <4>4. InUnits(io.size) \in Int
          BY <4>2, UnitsAdd
        <4>. QED  BY <4>1, <4>3, <4>4
      <3>6. HeldHas'
        BY <1>1, <1>5, <3>2, <3>3, <3>5 DEF HeldHas
      <3>. QED  BY <1>6, <2>1, <3>4, <3>6
    <2>. QED  BY <2>2, <2>3, <2>4
  <1>11. CASE HandleCancelFileTransfer
    <2>1. io.cmd = "CancelFileTransfer" /\ hPc' = "reply" /\ ~hNsp'.on
      BY <1>11, NoNspType, NspType DEF HandleCancelFileTransfer, Receives, Reply, ResetNspInfo
    <2>2. ~Held'
      BY <2>1 DEF Held
    <2>. QED  BY <1>6, <2>1, <2>2
  <1>12. CASE HandleSendNspHeader
    <2>1. io.cmd = "SendNspHeader" /\ UNCHANGED hKind /\ owner = "client" /\ HasBlock(io.cmd)
          /\ hPc' \in {"reply", "down"}
      BY <1>1, <1>12 DEF HandleSendNspHeader, Receives, Reply, CallCommands, HasBlock
    <2>2. hNsp.on => /\ job.nsp = hNsp.file /\ hNsp.left = 0 /\ disk[job.nsp].data = job.sent
      <3>. SUFFICES ASSUME hNsp.on PROVE job.nsp = hNsp.file /\ hNsp.left = 0 /\ disk[job.nsp].data = job.sent
        OBVIOUS
      <3>1. HeldIs /\ HeldHas
        BY <1>1, <1>4, <2>1
      <3>2. job.stage = "header" /\ job.todo = <<>>
        BY <1>1, <2>1 DEF StageOf, Console, JobShape
      <3>3. EntryLeft = 0 /\ LayoutEnd = job.at
        BY <1>3, <2>1, <3>2 DEF EntryLeft, LayoutEnd
      <3>4. LayoutEnd - job.at = 0
        BY <3>3, JobType
      <3>5. InUnits(LayoutEnd - job.at) = 0
        BY <3>4, UnitsAdd
      <3>. QED  BY <1>5, <3>1, <3>2, <3>3, <3>5 DEF HeldIs, HeldHas
    <2>3. CASE ~hNsp.on
      <3>1. hNsp.file = 0
        BY <2>3 DEF Output
      <3>2. hPc' = "down" /\ hNsp' = hNsp
        BY <1>12, <3>1 DEF HandleSendNspHeader
      <3>3. NspTrue' /\ ~Held'
        BY <1>1, <1>3, <2>1, <3>2 DEF NspTrue, Held, Receptive
      <3>. QED  BY <1>6, <2>1, <3>3
    <2>4. CASE hNsp.on
      <3>1. hNsp.file # 0 /\ hNsp.left = 0 /\ hNsp.file \in Names
        BY <2>2, <2>4 DEF Output, Names
      <3>2. /\ disk' = [disk EXCEPT ![hNsp.file].header = TRUE, ![hNsp.file].state = "closed"]
            /\ hNsp' = NoNsp
        BY <1>12, <3>1 DEF HandleSendNspHeader, ResetNspInfo
      <3>3. Stored(job.nsp, job.sent)'
        BY <1>1, <2>2, <2>4, <3>1, <3>2, FileType DEF Stored, FileRecords, TypeOK
      <3>4. ~Held'
        BY <3>2, NoNspType DEF Held
      <3>5. NspTrue'
        BY <1>1, <1>3, <2>1, <3>3 DEF NspTrue
      <3>. QED  BY <1>6, <2>1, <3>4, <3>5
    <2>. QED  BY <2>3, <2>4
  <1>13. CASE HandleStartExtractedFsDump \/ HandleEndExtractedFsDump
    <2>1. /\ io.cmd \in {"StartExtractedFsDump", "EndExtractedFsDump"} /\ hPc' = "reply"
          /\ UNCHANGED <<hNsp, hKind, disk>>
      BY <1>13 DEF HandleStartExtractedFsDump, HandleEndExtractedFsDump, Receives, Reply
    <2>2. job.kind # "nsp"
      BY <1>1, <2>1 DEF Console, JobShape, StageOf, CallCommands
    <2>3. ~Held'
      BY <1>7, <2>1, <2>2 DEF HeldIs
    <2>. QED  BY <1>6, <2>1, <2>3
  <1>14. CASE HandleFileProperties
    <2>1. /\ io.cmd = "SendFileProperties" /\ HasBlock(io.cmd) /\ owner = "client" /\ session
          /\ mainPc = "run" /\ UNCHANGED <<hNsp, hKind>> /\ hLeft' = InUnits(io.size)
          /\ hPc' \in {"reply", "replyData"}
      BY <1>1, <1>14
      DEF HandleFileProperties, Receives, Reply, CallCommands, HasBlock, InUnits
    <2>2. CASE hNsp.on
      <3>1. /\ disk' = disk /\ (hPc' = "reply" => hCmd' = "Success")
            /\ (hPc' = "replyData" => io.size # 0)
        BY <1>14, <2>2 DEF HandleFileProperties, Reply
      <3>2. HeldIs /\ HeldHas
        BY <1>1, <1>4, <2>1, <2>2
      <3>3. job.kind = "nsp"
        BY <3>2 DEF HeldIs
      <3>4. HeldIs'
        BY <1>1, <1>3, <2>1, <3>1, <3>2 DEF HeldIs
      <3>5. EntryLeft = InUnits(io.size) /\ EntryLeft' = InUnits(io.size)
        BY <1>1, <1>3, <2>1 DEF EntryLeft, InUnits
      <3>6. HeldHas'
        BY <1>1, <1>5, <2>1, <3>1, <3>2, <3>5 DEF HeldHas, LayoutEnd, InUnits
      <3>7. FileTrue'
        BY <1>1, <1>3, <2>1, <3>3 DEF FileTrue, HostHas, FileStored
      <3>8. hPc' = "replyData" => Junked'
        <4>1. hPc' = "replyData" => io.size \in Nat \ {0}
          BY <3>1, IoType
        <4>. QED  BY <1>1, <2>1, <4>1 DEF Junked, Chunks
      <3>. QED  BY <1>6, <2>1, <3>4, <3>6, <3>7, <3>8
    <2>3. CASE ~hNsp.on
      <3>1. ~Held' /\ Junked'
        BY <2>1, <2>3 DEF Held, Junked
      <3>2. \/ /\ hFile' = job.name /\ hPc' = "replyData"
               /\ disk' = [disk EXCEPT ![job.name] = [NoFile EXCEPT !.state = "open"]]
            \/ /\ hPc' = "reply"
               /\ disk' = [disk EXCEPT ![job.name] = [NoFile EXCEPT !.state = "closed"]]
            \/ hPc' = "reply" /\ hCmd' # "Success"
        BY <1>1, <1>14, <2>1, <2>3 DEF HandleFileProperties, Reply, OpenFile
      <3>3. \/ hPc' = "replyData" /\ HostHas(<<>>)'
            \/ hPc' = "reply" /\ FileStored(<<>>)'
            \/ hPc' = "reply" /\ hCmd' # "Success"
        <4>1. job.name \in Names /\ job' = job
          BY <1>1, <2>1
        <4>2. ASSUME NEW state \in {"open", "closed"},
                     disk' = [disk EXCEPT ![job.name] = [NoFile EXCEPT !.state = state]]
              PROVE  disk'[job.name].data = <<>> /\ disk'[job.name].state = state
          BY <4>1, <4>2, DiskWrite, NewFiles
        <4>3. \/ hFile' = job.name /\ hPc' = "replyData" /\ disk'[job.name].data = <<>>
              \/ /\ hPc' = "reply"
                 /\ disk'[job.name].data = <<>> /\ disk'[job.name].state = "closed"
              \/ hPc' = "reply" /\ hCmd' # "Success"
          BY <3>2, <4>2
        <4>. QED  BY <4>1, <4>3 DEF HostHas, FileStored, Stored
      <3>4. FileTrue'
        BY <1>1, <1>3, <2>1, <3>3 DEF FileTrue
      <3>. QED  BY <1>6, <2>1, <3>1, <3>4
    <2>. QED  BY <2>2, <2>3
  <1>. QED
    BY <1>8, <1>9, <1>10, <1>11, <1>12, <1>13, <1>14 DEF Handlers

\* A read of the data stage.
LEMMA DataKeepsContent ==
    ASSUME SInv3, HostReadsChunk \/ HostReadsForeign \/ HostCancelsTransfer
    PROVE  ContentInv'
  <1>. USE DEF At
  <1>. /\ SInv2 /\ SInv1 /\ SInv0 /\ IInv /\ TypeOK /\ Console /\ Output /\ Phases
       /\ LeftTrue /\ ToldOnDisk /\ NewHost /\ FileTrue /\ NspTrue /\ NspHeld /\ BadHost
       /\ Junked /\ NspsAreGivenUp
    BY ContentParts
  <1>. Host
    BY DEF Host
  <1>1. /\ UNCHANGED <<remaining, nspMode, session, job, link, names, told, owner, mainPc>>
        /\ io'.cmd = io.cmd /\ io'.step = io.step /\ io'.name = io.name /\ io'.size = io.size
        /\ (Waiting' <=> Waiting) /\ ToldOnDisk'
        /\ owner = "client" => /\ mainPc = "run" /\ session /\ job.kind # "none"
                               /\ job.stage = StageOf[io.cmd]
        /\ io.cmd \in CallCommands => owner = "client"
        /\ io.cmd \in {"SendFileProperties", "data"} => io.name = job.name /\ job.name \in Names
    BY HostMoves
  <1>2. /\ link /\ io.urb = "posted" /\ io'.urb = "done" /\ hPc = "data" /\ ~Waiting /\ ~Waiting'
        /\ io.step \in {"header", "block", "data"}
    <2>1. Served(io.status)
      BY HandlerServes
    <2>2. io # NoIo
      BY <2>1 DEF Served, NoIo
    <2>. QED
      BY <1>1, <2>1, <2>2
      DEF Served, NewIo, HostReadsChunk, HostReadsForeign, HostCancelsTransfer, Posted, Waiting
  <1>3. /\ hLeft \in Nat /\ hLeft > 0 /\ hFile \in Names /\ disk[hFile].state = "open"
        /\ (hNsp.on => hFile = hNsp.file /\ "nsp" \in JobKinds)
    BY <1>2 DEF Output, TypeOK
  <1>4. CASE HostReadsChunk
    <2>1. /\ io.step = "data" /\ io.cmd = "data" /\ hLeft = InUnits(remaining) /\ ChunkUnits <= hLeft
          /\ io.name \in Nat /\ ChunkUnits \in Nat /\ Stores(io.name, ChunkUnits)
          /\ owner = "client" /\ UNCHANGED <<hKind, hFile>>
      <3>1. io.step = "data" /\ io.cmd = "data" /\ owner = "client"
        BY <1>1, <1>4 DEF HostReadsChunk, Posted, IInv, TransferOwned, CallCommands
      <3>2. hLeft = InUnits(remaining)
        BY <1>2, <3>1 DEF LeftTrue
      <3>. QED  BY <1>4, <3>1, <3>2, IoType, SessionAssumption DEF HostReadsChunk, TypeOK
    <2>2. /\ hLeft' = hLeft - ChunkUnits /\ hNsp'.on = hNsp.on /\ hNsp'.file = hNsp.file
          /\ (hNsp.on => hNsp'.left = hNsp.left - ChunkUnits)
          /\ disk'[hFile].data = Append(disk[hFile].data, io.name)
          /\ disk'[hFile].state = (IF hLeft' = 0 /\ ~hNsp.on THEN "closed" ELSE "open")
          /\ IF hLeft' = 0 THEN hPc' = "reply" /\ hCmd' = "Success" ELSE hPc' = "data"
      BY <1>2, <2>1, StoresIs
    <2>3. hNsp.on => HeldIs /\ HeldHas
      <3>1. hNsp.on => Held
        BY <1>1, <1>2, <2>1 DEF Held, Receptive
      <3>. QED  BY <3>1 DEF NspHeld
    <2>4. ~Answering' /\ io'.step = "data" /\ io'.cmd = "data"
      BY <1>1, <1>2, <2>1 DEF Answering, HasBlock
    <2>5. FileTrue'
      <3>1. job.kind # "nsp" => ~hNsp.on
        BY <2>3 DEF HeldIs
      <3>2. job.kind # "nsp" => hFile = job.name /\ disk[job.name].data = job.sent
        BY <1>2, <2>1 DEF FileTrue, HostHas
      <3>3. job.kind # "nsp" => disk'[job.name].data = Taken
        BY <1>1, <2>1, <2>2, <3>2 DEF Taken
      <3>4. HostHas(Taken)' /\ (hPc' = "reply" => hCmd' = "Success" /\ FileStored(Taken)')
        BY <1>1, <2>1, <2>2, <3>1, <3>2, <3>3 DEF HostHas, FileStored, Stored, Taken
      <3>. QED  BY <1>1, <1>2, <2>2, <2>4, <3>4 DEF FileTrue
    <2>6. NspTrue' /\ BadHost'
      BY <2>4, QuietContent
    <2>7. Junked'
      <3>1. hPc' = "data" => remaining - 1 \in Nat \ {0} /\ hLeft' = InUnits(remaining - 1)
        <4>1. remaining # 0
          BY <1>3, <2>1, UnitsAdd
        <4>. QED  BY <2>1, <2>2, <4>1, UnitsLeft DEF TypeOK
      <3>. QED  BY <1>1, <2>2, <2>4, <3>1 DEF Junked, Chunks
    <2>8. ASSUME Held' PROVE HeldIs' /\ HeldHas'
      <3>1. hNsp.on /\ HeldIs /\ HeldHas
        BY <2>2, <2>3, <2>8 DEF Held
      <3>2. HeldIs'
        BY <1>1, <2>1, <2>2, <3>1 DEF HeldIs
      <3>3. job.stage # "abort" /\ job.nsp = hFile
        BY <1>1, <1>3, <2>1, <3>1 DEF HeldIs, StageOf
      <3>4. NspData = job.sent /\ NspData' = Taken
        BY <1>1, <1>2, <2>1 DEF NspData, Taken
      <3>5. disk'[job.nsp].data = NspData'
        BY <1>1, <2>1, <2>2, <3>1, <3>3, <3>4 DEF HeldHas, Taken
      <3>6. EntryLeft = hLeft /\ EntryLeft' = hLeft - ChunkUnits
        BY <1>1, <1>2, <2>1, <2>2 DEF EntryLeft
      <3>7. hNsp'.left = InUnits(LayoutEnd - job.at)' + EntryLeft'
        <4>1. InUnits(LayoutEnd - job.at)' = InUnits(LayoutEnd - job.at)
          BY <1>1 DEF LayoutEnd, InUnits
        <4>2. InUnits(LayoutEnd - job.at) \in Int
          <5>1. LayoutEnd - job.at \in Int
            BY JobType DEF LayoutEnd
          <5>. QED  BY <5>1, UnitsAdd
        <4>3. hNsp.left = InUnits(LayoutEnd - job.at) + hLeft
          BY <3>1, <3>3, <3>6 DEF HeldHas
        <4>4. hNsp'.left = hNsp.left - ChunkUnits
          BY <2>2, <3>1
        <4>. DEFINE rest == InUnits(LayoutEnd - job.at)
        <4>. HIDE DEF rest
        <4>5. hNsp'.left = rest + (hLeft - ChunkUnits)
          BY <1>3, <2>1, <4>2, <4>3, <4>4 DEF rest
        <4>. QED  BY <3>6, <4>1, <4>5 DEF rest
      <3>8. HeldHas'
        BY <1>1, <3>5, <3>7 DEF HeldHas
      <3>. QED  BY <3>2, <3>8
    <2>9. NewHost'
      BY <2>2 DEF NewHost
    <2>. QED  BY <1>1, <2>5, <2>6, <2>7, <2>8, <2>9, ContentParts DEF NspHeld
  <1>5. CASE HostReadsForeign
    <2>1. /\ Junk \in Nat /\ 1 \in Nat /\ 1 <= hLeft /\ Stores(Junk, 1) /\ UNCHANGED <<hKind, hFile>>
          /\ \/ io.step = "header" /\ io.cmd # "CancelFileTransfer"
             \/ io.step = "block" /\ io.cmd = "StartSession"
      BY <1>3, <1>5 DEF HostReadsForeign, Posted, Junk
    <2>2. /\ hLeft' = hLeft - 1 /\ hNsp'.on = hNsp.on
          /\ IF hLeft' = 0 THEN hPc' = "reply" /\ hCmd' = "Success" ELSE hPc' = "data"
      BY <1>2, <2>1, StoresIs
    <2>3. io.cmd # "data"
      BY <2>1 DEF Console, IoOrder
    <2>4. Answering' => (io.cmd = "StartSession" /\ io.step = "block") \/ mainPc # "run"
      <3>1. io.cmd = "EndSession" => mainPc # "run"
        BY DEF IInv, TransferOwned, Console, Lives
      <3>2. io.cmd # "EndExtractedFsDump"
        <4>1. io.cmd = "EndExtractedFsDump" => job.stage = "end"
          BY <1>1 DEF CallCommands, StageOf
        <4>. QED  BY <1>2, <4>1 DEF Phases
      <3>. QED  BY <1>1, <1>2, <2>1, <3>1, <3>2 DEF Answering, HasBlock
    <2>5. ASSUME hNsp.on, mainPc = "run" PROVE Junked' /\ ~(Answering' /\ hPc' # "data")
      <3>1. CASE io.cmd = "StartSession" /\ io.step = "block"
        <4>1. Chunks(hLeft + 1)
          BY <1>2, <2>5, <3>1 DEF Junked
        <4>2. PICK k \in Nat \ {0} : hLeft + 1 = InUnits(k)
          BY <4>1 DEF Chunks
        <4>3. hLeft + 1 > 2 /\ hLeft' + 2 = InUnits(k)
          BY <1>3, <2>2, <2>5, <4>2, UnitsLeft, SessionAssumption DEF NspsAreGivenUp
        <4>4. hPc' = "data" /\ hLeft' # 0
          BY <1>3, <2>2, <4>3
        <4>. QED  BY <1>1, <1>2, <3>1, <4>3, <4>4 DEF Junked, Chunks
      <3>2. CASE io.cmd = "StartSession" /\ io.step = "header"
        <4>1. Chunks(hLeft + 0)
          BY <1>2, <2>5, <3>2 DEF Junked
        <4>2. hLeft' + 1 = hLeft + 0
          BY <1>3, <2>2
        <4>. QED  BY <1>1, <1>2, <2>4, <2>5, <3>2, <4>1, <4>2 DEF Junked, Chunks
      <3>3. CASE io.cmd # "StartSession"
        BY <1>1, <1>2, <2>1, <2>4, <2>5, <3>3 DEF Junked
      <3>. QED  BY <2>1, <3>1, <3>2, <3>3
    <2>6. Junked'
      BY <1>1, <2>2, <2>5 DEF Junked
    <2>7. FileTrue'
      BY <1>1, <1>2, <2>1, <2>3 DEF FileTrue, Answering, HasBlock
    <2>8. NspTrue'
      BY <1>1, <1>2, <2>1 DEF NspTrue, Answering, HasBlock
    <2>9. BadHost'
      BY <1>1, <1>2, <2>1, <2>2, <2>5 DEF BadHost
    <2>10. ~Held'
      <3>1. hPc' \in {"reply", "data"} /\ io'.cmd = io.cmd /\ io' # NoIo
        BY <1>1, <1>2, <2>2 DEF NoIo
      <3>2. io.cmd = "SendFileProperties" => ~Answering'
        BY <1>1, <1>2, <2>1 DEF Answering, HasBlock
      <3>. QED  BY <1>1, <1>2, <2>1, <2>2, <2>3, <2>5, <3>1, <3>2 DEF Held, Receptive
    <2>11. NewHost'
      BY <2>2 DEF NewHost
    <2>. QED  BY <1>1, <2>6, <2>7, <2>8, <2>9, <2>10, <2>11, ContentParts DEF NspHeld
  <1>6. CASE HostCancelsTransfer
    <2>1. io.cmd = "CancelFileTransfer" /\ io.step = "header" /\ hPc' = "reply" /\ ~hNsp'.on
      BY <1>3, <1>6, DeleteIs, NoNspType DEF HostCancelsTransfer, Posted, Reply
    <2>2. FileTrue' /\ NspTrue' /\ BadHost'
      BY <1>1, <1>2, <2>1, QuietContent
    <2>3. NewHost' /\ Junked' /\ ~Held'
      BY <2>1 DEF NewHost, Junked, Held
    <2>. QED  BY <1>1, <2>2, <2>3, ContentParts DEF NspHeld
  <1>. QED
    BY <1>4, <1>5, <1>6

\* A header is read, a status is sent, or the host stops.
LEMMA HostKeepsContent ==
    ASSUME SInv3, Host
    PROVE  ContentInv'
  <1>. USE DEF At
  <1>. /\ SInv2 /\ SInv1 /\ SInv0 /\ IInv /\ TypeOK /\ Console /\ Output /\ Phases
       /\ LeftTrue /\ ToldOnDisk /\ NewHost /\ FileTrue /\ NspTrue /\ NspHeld /\ BadHost
       /\ Junked /\ NspsAreGivenUp
    BY ContentParts
  <1>1. /\ UNCHANGED <<remaining, nspMode, session, job, link, names, told, owner, mainPc>>
        /\ io'.cmd = io.cmd /\ io'.step = io.step /\ io'.name = io.name /\ io'.size = io.size
        /\ (Waiting' <=> Waiting) /\ ToldOnDisk'
        /\ owner = "client" => /\ mainPc = "run" /\ session /\ job.kind # "none"
                               /\ job.stage = StageOf[io.cmd]
        /\ io.cmd \in CallCommands => owner = "client"
        /\ io.cmd \in {"SendFileProperties", "data"} => io.name = job.name /\ job.name \in Names
    BY HostMoves
  <1>2. ASSUME UNCHANGED <<hNsp, disk>>
        PROVE  HeldHas /\ EntryLeft' = EntryLeft /\ (NspData' = NspData) => HeldHas'
    BY <1>1, <1>2 DEF HeldHas, LayoutEnd, InUnits
  <1>3. ASSUME UNCHANGED <<hFile, disk>>
        PROVE  /\ HostHas(<<>>)' <=> HostHas(<<>>)
               /\ HostHas(job.sent)' <=> HostHas(job.sent)
               /\ HostHas(Taken)' <=> HostHas(Taken)
               /\ FileStored(<<>>)' <=> FileStored(<<>>)
               /\ FileStored(Taken)' <=> FileStored(Taken)
               /\ Stored(job.nsp, job.sent)' <=> Stored(job.nsp, job.sent)
    BY <1>1, <1>3 DEF HostHas, FileStored, Stored, Taken
  <1>4. CASE HostReadsHeader
    <2>1. /\ hPc = "header" /\ hPc' = "block" /\ io.step = "header" /\ io.urb = "posted"
          /\ io'.urb = "done" /\ link /\ HasBlock(io.cmd)
          /\ UNCHANGED <<hNsp, hKind, hFile, hLeft, disk>>
      <3>1. Served(io.status)
        BY <1>4, HandlerServes
      <3>. QED  BY <1>4, <3>1 DEF Served, NewIo, HostReadsHeader, Posted
    <2>2. io.cmd # "data" /\ ~Waiting' /\ ~Answering' /\ ~Answering
      BY <1>1, <2>1 DEF Console, IoOrder, Waiting, NoIo, Answering
    <2>3. NewHost' /\ Junked' /\ NspTrue' /\ BadHost' /\ FileTrue'
      BY <1>1, <2>1, <2>2 DEF NewHost, Junked, NspTrue, BadHost, FileTrue
    <2>4. ASSUME Held' PROVE HeldIs' /\ HeldHas'
      <3>1. HeldIs /\ HeldHas
        <4>1. Held
          BY <1>1, <2>1, <2>4 DEF Held, Receptive
        <4>. QED  BY <4>1 DEF NspHeld
      <3>2. io.cmd \notin {"SendNspProperties", "CancelFileTransfer"}
        BY <2>1, <2>2, <3>1 DEF HeldIs, HasBlock
      <3>3. HeldIs'
        BY <1>1, <2>1, <2>2, <3>1, <3>2 DEF HeldIs
      <3>4. EntryLeft' = EntryLeft /\ NspData' = NspData
        BY <1>1, <2>1 DEF EntryLeft, NspData, Taken, InUnits
      <3>. QED  BY <1>2, <2>1, <3>1, <3>3, <3>4
    <2>. QED  BY <1>1, <2>3, <2>4, ContentParts DEF NspHeld
  <1>5. CASE HostEntersData
    <2>1. /\ hPc = "replyData" /\ hPc' = "data" /\ UNCHANGED <<hNsp, hKind, hFile, hLeft, disk>>
          /\ \/ /\ link /\ io.urb = "posted" /\ io.step = "status"
                /\ io'.urb = "done" /\ io'.status = "Success"
             \/ io' = io
      BY <1>5, StatusIo DEF HostEntersData, Posted, NewIo, Statuses
    <2>2. CASE io' = io
      <3>1. Answering' <=> Answering
        BY <2>2 DEF Answering
      <3>2. link => /\ ~Waiting /\ ~(io.step = "data" /\ io.urb \in {"posted", "done"})
        BY <2>1 DEF Phases
      <3>3. FileTrue'
        BY <1>1, <1>3, <2>1, <2>2, <3>1, <3>2 DEF FileTrue
      <3>4. NspTrue' /\ BadHost' /\ NewHost' /\ Junked'
        BY <1>1, <1>3, <2>1, <2>2, <3>1 DEF NspTrue, BadHost, NewHost, Junked, Chunks
      <3>5. ASSUME Held' PROVE HeldIs' /\ HeldHas'
        <4>1. Held /\ io.cmd \in {"SendFileProperties", "data", "none"}
          BY <1>1, <2>1, <2>2, <3>1, <3>5 DEF Held, Receptive, NoIo
        <4>2. HeldIs /\ HeldHas
          BY <4>1 DEF NspHeld
        <4>3. HeldIs'
          BY <1>1, <2>1, <2>2, <3>1, <4>1, <4>2 DEF HeldIs
        <4>4. EntryLeft' = EntryLeft /\ NspData' = NspData
          BY <1>1, <2>1, <2>2 DEF EntryLeft, NspData, Taken
        <4>. QED  BY <1>2, <2>1, <4>2, <4>3, <4>4
      <3>. QED  BY <1>1, <3>3, <3>4, <3>5, ContentParts DEF NspHeld
    <2>3. CASE io' # io
      <3>1. /\ link /\ io.urb = "posted" /\ io.step = "status" /\ io'.urb = "done"
            /\ io'.status = "Success" /\ Answering /\ io.cmd = "SendFileProperties"
        BY <2>1, <2>3 DEF Answering, Phases
      <3>2. io.size # 0 /\ ~Waiting' /\ ~Answering'
        BY <1>1, <2>1, <3>1 DEF LeftTrue, Waiting, NoIo, Answering
      <3>3. HostHas(<<>>)
        BY <2>1, <3>1 DEF FileTrue
      <3>4. FileTrue'
        BY <1>1, <1>3, <2>1, <3>1, <3>2, <3>3 DEF FileTrue
      <3>5. NspTrue' /\ BadHost' /\ NewHost' /\ Junked'
        BY <1>1, <2>1, <3>1 DEF NspTrue, BadHost, NewHost, Junked, Chunks
      <3>6. ASSUME Held' PROVE HeldIs' /\ HeldHas'
        <4>1. HeldIs /\ HeldHas
          <5>1. Held
            BY <1>1, <2>1, <3>1, <3>6 DEF Held, Receptive
          <5>. QED  BY <5>1 DEF NspHeld
        <4>2. HeldIs'
          BY <1>1, <2>1, <3>1, <4>1 DEF HeldIs
        <4>3. EntryLeft' = EntryLeft /\ NspData' = NspData
          BY <1>1, <2>1, <3>1 DEF EntryLeft, NspData, Taken
        <4>. QED  BY <1>2, <2>1, <4>1, <4>2, <4>3
      <3>. QED  BY <1>1, <3>4, <3>5, <3>6, ContentParts DEF NspHeld
    <2>. QED  BY <2>2, <2>3
  <1>6. CASE HostReplies
    <2>1. /\ hPc \in {"reply", "lastReply"} /\ io.step \in {"status", "last"} /\ link
          /\ io.urb = "posted" /\ io'.urb = "done" /\ io'.status = hCmd
          /\ hPc' = (IF hPc = "lastReply" THEN "down" ELSE "header")
          /\ UNCHANGED <<hCmd, hLeft, hNsp, hKind, hFile, disk>>
      BY <1>6, StatusIo DEF HostReplies, Posted, NewIo, Output
    <2>2. /\ ~Waiting' /\ ~Answering' /\ io # NoIo /\ (io.step = "status" => Answering)
          /\ (io.step = "last" => io.cmd = "data" /\ hPc = "reply")
          /\ (io.step = "status" => io.cmd # "data")
          /\ (hPc = "lastReply" => io.cmd \in {"StartSession", "EndSession"})
      BY <1>1, <2>1 DEF Waiting, Answering, NoIo, Phases, IInv, TransferOwned, Console, IoOrder
    <2>3. NewHost'
      <3>1. io.cmd = "SendFileProperties" /\ io.step = "status" /\ hCmd = "Success" => io.size = 0
        BY <2>1, <2>2 DEF LeftTrue
      <3>. QED  BY <1>1, <2>1, <2>2, <3>1 DEF NewHost, Restarted
    <2>4. FileTrue'
      <3>1. io.cmd = "SendFileProperties" /\ io.step = "status" /\ hCmd = "Success" => FileStored(<<>>)
        BY <2>1, <2>2 DEF FileTrue
      <3>2. io.step = "last" => hCmd = "Success" /\ FileStored(Taken)
        BY <2>1, <2>2 DEF FileTrue
      <3>. QED  BY <1>1, <1>3, <2>1, <2>2, <3>1, <3>2 DEF FileTrue
    <2>5. NspTrue'
      <3>1. io.cmd = "SendNspHeader" /\ hCmd = "Success" => Stored(job.nsp, job.sent)
        <4>1. io.cmd = "SendNspHeader" => io.step = "status" /\ hPc = "reply"
          BY <2>1, <2>2
        <4>. QED  BY <2>1, <2>2, <4>1 DEF NspTrue
      <3>. QED  BY <1>1, <1>3, <2>1, <2>2, <3>1 DEF NspTrue
    <2>6. BadHost'
      <3>1. io.cmd = "StartSession" => io.step = "status"
        BY <2>1, <2>2
      <3>. QED  BY <1>1, <2>1, <2>2, <3>1 DEF BadHost
    <2>7. Junked'
      BY <2>1 DEF Junked
    <2>8. ASSUME Held' PROVE HeldIs' /\ HeldHas'
      <3>1. Held /\ hPc = "reply" /\ hPc' = "header"
        BY <1>1, <2>1, <2>2, <2>8 DEF Held, Receptive
      <3>2. HeldIs /\ HeldHas
        BY <3>1 DEF NspHeld
      <3>3. HeldIs'
        BY <1>1, <2>1, <2>2, <3>1, <3>2 DEF HeldIs
      <3>4. EntryLeft' = EntryLeft /\ NspData' = NspData
        BY <1>1, <2>1, <3>1 DEF EntryLeft, NspData, Taken, InUnits
      <3>. QED  BY <1>2, <2>1, <3>2, <3>3, <3>4
    <2>. QED  BY <1>1, <2>3, <2>4, <2>5, <2>6, <2>7, <2>8, ContentParts DEF NspHeld
  <1>7. CASE HostTransferFails
    <2>1. /\ hPc' = "down" /\ io' = io /\ UNCHANGED <<hKind, hCmd, hFile, hLeft>>
          /\ IF hPc = "data" THEN DeleteOutput ELSE UNCHANGED <<disk, hNsp>>
      BY <1>7 DEF HostTransferFails
    <2>2. hNsp'.on => hNsp.on
      <3>1. hPc = "data" => ~hNsp'.on
        BY <2>1, DeleteIs, NoNspType DEF Output
      <3>. QED  BY <2>1, <3>1
    <2>3. ASSUME NEW n \in Names, NEW data, Stored(n, data) PROVE Stored(n, data)'
      <3>1. disk'[n] = disk[n]
        <4>1. CASE hPc = "data"
          <5>1. n # hFile
            BY <2>3, <4>1 DEF Stored, Output
          <5>. QED  BY <2>1, <4>1, <5>1, DeleteIs DEF Output
        <4>2. CASE hPc # "data"
          BY <2>1, <4>2
        <4>. QED  BY <4>1, <4>2
      <3>. QED  BY <2>3, <3>1 DEF Stored
    <2>4. NewHost' /\ Junked' /\ ~Held'
      BY <2>1 DEF NewHost, Junked, Held, Receptive
    <2>5. BadHost'
      BY <1>1, <2>1, <2>2 DEF BadHost
    <2>6. FileTrue'
      <3>1. io.cmd \in {"SendFileProperties", "data"} =>
               /\ FileStored(<<>>) => FileStored(<<>>)'
               /\ FileStored(Taken) => FileStored(Taken)'
        <4>1. Taken' = Taken
          BY <1>1 DEF Taken
        <4>2. job.name \in Names /\ Stored(job.name, <<>>) => Stored(job.name, <<>>)'
          BY <1>1, <2>3 DEF Stored
        <4>3. job.name \in Names /\ Stored(job.name, Taken) => Stored(job.name, Taken)'
          BY <1>1, <2>3, <4>1 DEF Stored
        <4>. QED  BY <1>1, <4>1, <4>2, <4>3 DEF FileStored
      <3>2. io.step = "last" => io.cmd = "data"
        BY DEF IInv, TransferOwned
      <3>. QED  BY <1>1, <2>1, <3>1, <3>2 DEF FileTrue
    <2>7. NspTrue'
      <3>1. io.cmd = "SendNspHeader" => job.nsp \in Names
        BY <1>1, ToldName DEF CallCommands
      <3>2. job.nsp \in Names /\ Stored(job.nsp, job.sent) => Stored(job.nsp, job.sent)'
        BY <1>1, <2>3 DEF Stored
      <3>. QED  BY <1>1, <2>1, <3>1, <3>2 DEF NspTrue
    <2>. QED  BY <1>1, <2>4, <2>5, <2>6, <2>7, ContentParts DEF NspHeld
  <1>. QED
    BY <1>4, <1>5, <1>6, <1>7, HandlersKeepContent, DataKeepsContent DEF Host

LEMMA EnvironmentKeepsContent ==
    ASSUME SInv3, Environment
    PROVE  ContentInv'
  <1>. USE DEF At
  <1>. /\ SInv2 /\ SInv1 /\ SInv0 /\ IInv /\ TypeOK /\ Console /\ Output /\ Phases
       /\ LeftTrue /\ ToldOnDisk /\ NewHost /\ FileTrue /\ NspTrue /\ NspHeld /\ BadHost
       /\ Junked /\ NspsAreGivenUp
    BY ContentParts
  <1>1. /\ UNCHANGED <<job, names, told, remaining, disk>> /\ io'.cmd = io.cmd
        /\ io'.size = io.size /\ (io'.urb # "failed" => io' = io)
        /\ (io.urb = "done" \/ io'.urb = "done" => io' = io)
    <2>1. IoServed /\ HostFrame
      BY EnvironmentKeepsType
    <2>2. io' = io \/ (io.urb = "posted" /\ io'.urb = "failed")
      BY FailIo DEF NewIo, Environment, Unplug, Plug, HostStart, HostStop, FailUrb
    <2>. QED
      BY <2>1, <2>2
      DEF HostFrame, usbVars, appVars, IoServed, Environment, Unplug, Plug, HostStart, HostStop, hostVars
  <1>2. ToldOnDisk'
    BY <1>1 DEF ToldOnDisk
  <1>3. \/ ~link'
        \/ link' /\ hPc' = "header" /\ ~hNsp'.on
        \/ link' /\ hPc' = "down" /\ UNCHANGED <<link, mainPc, hNsp, hKind, io>>
    <2>1. link => cable
      BY DEF Console, Lives
    <2>2. HostStop => UNCHANGED <<link, mainPc, hNsp, hKind, io>> /\ hPc' = "down"
      BY DEF HostStop, HostIsDown, busVars, threadVars
    <2>. QED
      BY <2>1, <2>2, NoNspType DEF Environment, Unplug, Plug, HostStart, ResetNspInfo, TypeOK
  <1>4. NewHost' /\ Junked' /\ ~Held'
    BY <1>3 DEF NewHost, Junked, Held, Receptive
  <1>5. BadHost'
    BY <1>3 DEF BadHost
  <1>6. FileTrue' /\ NspTrue'
    <2>1. /\ FileStored(<<>>)' <=> FileStored(<<>>)
          /\ FileStored(Taken)' <=> FileStored(Taken)
          /\ Stored(job.nsp, job.sent)' <=> Stored(job.nsp, job.sent)
      BY <1>1 DEF FileStored, Stored, Taken
    <2>. QED  BY <1>1, <1>3, <2>1 DEF FileTrue, NspTrue
  <1>. QED
    BY <1>2, <1>4, <1>5, <1>6, ContentParts DEF NspHeld

LEMMA NextKeepsSInv3 ==
    ASSUME SInv3, [Next]_vars
    PROVE  SInv3'
  <1>1. SInv2 /\ SInv1 /\ SInv0
    BY ContentParts
  <1>2. SInv2'
    BY <1>1, NextKeepsSInv2
  <1>. SUFFICES ContentInv'
    BY <1>2 DEF SInv3
  <1>3. CASE UNCHANGED vars
    <2>1. UNCHANGED <<io, job, names, told, remaining, nspMode, session, owner, link, mainPc>> /\ DiskFrame
      BY <1>3, DiskFrameIs DEF vars, usbVars, threadVars, appVars, busVars
    <2>. QED  BY <2>1, IdlingKeepsContent
  <1>4. CASE Calls
    BY <1>1, <1>4, CallsAre, EnteringKeepsContent, RefusingKeepsContent
  <1>5. CASE Transfers
    BY <1>1, <1>5, TransfersAre, ContinuingKeepsContent, SucceedingKeepsContent, FailingKeepsContent,
       SendingKeepsContent, DetectionKeepsContent
  <1>. QED
    BY <1>3, <1>4, <1>5, ApplicationKeepsContent, DetectionKeepsContent, MainKeepsContent,
       HostKeepsContent, EnvironmentKeepsContent DEF Next

LEMMA InitSInv3 == Init /\ NspsAreGivenUp => SInv3
  <1>. SUFFICES ASSUME Init, NspsAreGivenUp PROVE ContentInv
    BY InitSInv2 DEF SInv3
  <1>1. ~link /\ told = {} /\ io.cmd = "none" /\ io.step = "none"
    BY DEF Init, NoIo
  <1>. QED
    BY <1>1 DEF ContentInv, ToldOnDisk, NewHost, FileTrue, NspTrue, NspHeld, Held, BadHost, Junked, At

\* What usb.c reports as sent is stored: a true from usbSendFileData or
\* usbSendNspHeader means that nxdt_host.py closed the file with exactly what was
\* sent in it, whatever was unplugged, killed, restarted, cancelled or late.  For
\* NSPs it takes what NspsAreGivenUp says: chunks larger than the header and block
\* of StartSession, and no late timeout that lets the host read a header as data.
THEOREM SuccessAlwaysMeansStored == NspsAreGivenUp /\ Spec => []SuccessMeansStored
  <1>1. SInv3 => SuccessMeansStored
    BY DEF SInv3, ContentInv, ToldOnDisk, SuccessMeansStored
  <1>2. NspsAreGivenUp /\ Spec => []SInv3
    <2>1. SInv3 /\ [Next]_vars => SInv3'
      BY NextKeepsSInv3
    <2>. QED  BY <2>1, InitSInv3, PTL DEF Spec
  <1>. QED
    BY <1>1, <1>2, PTL
=============================================================================
