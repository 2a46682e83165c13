------------------------------ MODULE UsbSession ------------------------------
(***************************************************************************)
(* The USB session between the console and the USB host: the API and the   *)
(* detection thread of usb.c, the bus, the command loop and handlers of    *)
(* nxdt_host.py, and an application thread that dumps files, extracted     *)
(* filesystems and NSPs.                                                   *)
(*                                                                         *)
(* A bulk transfer is a rendezvous: the console posts a buffer (URB) and   *)
(* waits; it completes when the host process reads or writes it, fails     *)
(* when the bus goes away, and is cancelled after a timeout.  Everything a *)
(* usb.c thread does between two waits is one step.  Each nxdt_host.py     *)
(* handler is one step, from the read that starts it to its status reply   *)
(* or its next read.  How a chunk is cut into packets is the subject of    *)
(* UsbTransfer: here a chunk is read whole.                                *)
(***************************************************************************)
EXTENDS Integers, Sequences

CONSTANTS
    MaxNames,     \* bound: files named by the application in one behaviour
    Layouts,      \* bound: how files and NSPs are laid out: for each file of a
                  \* dump, in chunks, where it ends
    ChunkUnits,   \* size of a chunk, in units of sizeof(UsbCommandHeader)
    JobKinds,     \* what the application dumps: subset of {"file", "fs", "nsp"}
    HostKinds,    \* how hosts answer StartSession: subset of AllHostKinds
    SlowConsole,  \* the server may be killed and restarted while a usb.c
                  \* thread is between two transfers of one command
    Stalls        \* transfers that may time out although the host process
                  \* serves them: pairs of step and "posted" or "done"

AllHostKinds == {"good", "badPacketSize", "badAbi"}
TransferSteps == {"header", "block", "status", "data", "last"}

\* A dump has a file, and no file ends before it begins.
IsLayout(ends) == /\ ends \in Seq(Nat) /\ ends # <<>>
                  /\ \A i \in 1..Len(ends) - 1 : ends[i] <= ends[i + 1]

ASSUME SessionAssumption ==
    /\ MaxNames \in Nat /\ \A ends \in Layouts : IsLayout(ends)
    /\ ChunkUnits \in Nat /\ ChunkUnits > 1
    /\ JobKinds \subseteq {"file", "fs", "nsp"}
    /\ HostKinds \subseteq AllHostKinds
    /\ SlowConsole \in BOOLEAN
    /\ Stalls \subseteq TransferSteps \X {"posted", "done"}

\* Late timeouts after which the host process has nothing left to read but
\* what completes a file by whole chunks, or gives up: a status the host is slow
\* to send, a block or chunk it is slow to read, or whose completion the console
\* sees too late.  Not among them are a header that is read late, or twice in a
\* row taken for file data, and a status that was delivered as the timeout passed.
HarmlessStalls == {<<"status", "posted">>, <<"last", "posted">>, <<"block", "done">>,
                   <<"data", "posted">>, <<"data", "done">>}

\* What keeps the host from carrying an NSP that the console gave up into the next
\* session; the rest of a chunk is more than the header and block of StartSession.
NspsAreGivenUp ==
    "nsp" \in JobKinds => ChunkUnits > 2 /\ Stalls \subseteq HarmlessStalls

VARIABLES
    \* usb.c
    init,           \* g_usbInterfaceInit (and g_usbTransferBuffer)
    owner,          \* holder of g_usbInterfaceMutex
    hostAvailable,  \* g_usbHostAvailable
    session,        \* g_usbSessionStarted
    remaining,      \* g_usbTransferRemainingSize, in chunks
    nspMode,        \* g_nspTransferMode
    speed,          \* g_usbEndpointMaxPacketSize # 0: what usbIsReady reports
    exitFlag,       \* g_usbDetectionThreadExitFlag
    stateEvent, timeoutEvent, exitEvent,   \* the three events, signalled or not
    detPc,          \* where the detection thread is
    io,             \* the command or chunk being transferred
    mainPc,         \* where the thread that calls usbInitialize/usbExit is
    \* the application
    job,            \* the dump in progress
    names,          \* names used so far
    told,           \* what the console reported as stored
    \* the bus
    cable,          \* the console is plugged into the host and configured
    link,           \* the host process has a valid handle of the console
    \* nxdt_host.py
    hPc, hKind, hCmd,
    hNsp,           \* g_nspTransferMode, g_nspFilePath, g_nspRemainingSize
    hFile, hLeft,   \* the data stage: output file, file_size - offset in units
    fsOpen,         \* an extracted FS dump is going on (host/README.md)
    disk            \* the output directory

usbVars    == <<hostAvailable, session, remaining, nspMode, speed>>
eventVars  == <<stateEvent, timeoutEvent, exitEvent, exitFlag>>
threadVars == <<owner, detPc, mainPc, init>>
appVars    == <<job, names, told>>
busVars    == <<cable, link>>
hostVars   == <<hPc, hKind, hCmd, hNsp, hFile, hLeft, fsOpen, disk>>
vars == <<usbVars, eventVars, threadVars, io, appVars, busVars, hostVars>>

Names == 1..MaxNames
Junk  == 0             \* bytes that are not file data, in a stored file

Commands == {"StartSession", "EndSession", "SendFileProperties",
             "SendNspProperties", "CancelFileTransfer", "SendNspHeader",
             "StartExtractedFsDump", "EndExtractedFsDump"}
\* Both kinds of properties are one command of the protocol; the second has a
\* non-zero nsp_header_size.
HasBlock(cmd) == cmd \notin {"EndSession", "CancelFileTransfer", "EndExtractedFsDump"}
Statuses == {"none", "Success", "Malformed", "HostIoError", "BadPacketSize",
             "UnsupportedAbi"}

NoIo  == [cmd |-> "none", step |-> "none", urb |-> "none",
          name |-> 0, size |-> 0, status |-> "none"]
NoJob == [kind |-> "none", stage |-> "none", todo |-> <<>>, at |-> 0, name |-> 0,
          nsp |-> 0, sent |-> <<>>]
NoNsp == [on |-> FALSE, file |-> 0, left |-> 0]
NoFile == [state |-> "absent", data |-> <<>>, header |-> FALSE]

Init ==
    /\ init = FALSE /\ owner = "none"
    /\ hostAvailable = FALSE /\ session = FALSE /\ remaining = 0
    /\ nspMode = FALSE /\ speed = FALSE /\ exitFlag = FALSE
    /\ stateEvent = FALSE /\ timeoutEvent = FALSE /\ exitEvent = FALSE
    /\ detPc = "none" /\ io = NoIo /\ mainPc = "closed"
    /\ job = NoJob /\ names = 0 /\ told = {}
    /\ cable \in BOOLEAN /\ link = FALSE
    /\ hPc = "down" /\ hKind = "good" /\ hCmd = "none" /\ hNsp = NoNsp
    /\ hFile = 0 /\ hLeft = 0 /\ fsOpen = FALSE
    /\ disk = [n \in Names |-> NoFile]
-----------------------------------------------------------------------------
(***************************************************************************)
(* usbTransferData and usbSendCommand.                                     *)
(***************************************************************************)

\* usbTransferData posts a buffer and waits; it returns false at once if the
\* console is not configured.
Urb == IF cable THEN "posted" ELSE "failed"

\* A command starts with its header: usbPrepareCommandHeader, usbSendCommand.
Command(cmd, name, size) ==
    io' = [cmd |-> cmd, step |-> "header", urb |-> Urb,
           name |-> name, size |-> size, status |-> "none"]

\* The host process will serve the posted transfer.
HostServes ==
    /\ link
    /\ IF io.step \in {"status", "last"}
       THEN hPc \in {"reply", "replyData", "lastReply"}
       ELSE hPc \in {"header", "block", "data"}

\* Mutant of TransferFails: the wait has no timeout.
TransferFailsWithoutTimeout ==
    \/ io.urb = "failed" /\ UNCHANGED eventVars
    \/ /\ ~session /\ io.urb \in {"posted", "done"} /\ exitEvent
       /\ exitEvent' = FALSE /\ exitFlag' = TRUE
       /\ UNCHANGED <<stateEvent, timeoutEvent>>

\* usbTransferData fails.  Within a session: the timeout, which asks the
\* detection thread for a new session.  Without one: only the exit event ends
\* the wait.
TransferFails ==
    \/ io.urb = "failed" /\ UNCHANGED eventVars
    \/ /\ session /\ io.urb \in {"posted", "done"}
       /\ (io.urb = "posted" /\ ~HostServes) \/ <<io.step, io.urb>> \in Stalls
       /\ timeoutEvent' = TRUE
       /\ UNCHANGED <<stateEvent, exitEvent, exitFlag>>
    \/ /\ ~session /\ io.urb \in {"posted", "done"} /\ exitEvent
       /\ exitEvent' = FALSE /\ exitFlag' = TRUE
       /\ UNCHANGED <<stateEvent, timeoutEvent>>

\* How usbSendCommand returns.
CommandReturns(ok) ==
    \/ /\ ok /\ io.step = "status" /\ io.urb = "done" /\ io.status = "Success"
       /\ UNCHANGED eventVars
    \/ /\ ~ok /\ io.step = "status" /\ io.urb = "done" /\ io.status # "Success"
       /\ UNCHANGED eventVars
    \/ ~ok /\ TransferFails

\* From one transfer of a command to the next.
CommandStep ==
    /\ io.step \in {"header", "block"} /\ io.urb = "done"
    /\ io' = [io EXCEPT !.step = IF io.step = "header" /\ HasBlock(io.cmd)
                                 THEN "block" ELSE "status",
                        !.urb = Urb]
    /\ UNCHANGED <<usbVars, eventVars, threadVars, appVars, busVars, hostVars>>
-----------------------------------------------------------------------------
(***************************************************************************)
(* The application: DataTransferTask with FileWriter, and the NSP and      *)
(* extracted filesystem dumps.  It calls usb.c one call at a time and      *)
(* stops at the first call that fails; then, or when the user cancels, it  *)
(* calls usbCancelFileTransfer.                                            *)
(***************************************************************************)
InSession == init /\ hostAvailable /\ session

\* The stage after the file or entry in hand is complete.
AfterFile(j) ==
    IF j.todo # <<>> THEN [j EXCEPT !.stage = "properties"]
    ELSE CASE j.kind = "file" -> NoJob
           [] j.kind = "fs"   -> [j EXCEPT !.stage = "end"]
           [] j.kind = "nsp"  -> [j EXCEPT !.stage = "header"]

\* A job knows where the files it has not begun end, and where the one in hand
\* does.
StartJob(kind, ends) ==
    /\ job = NoJob /\ mainPc = "run"
    /\ names + Len(ends) + (IF kind = "nsp" THEN 1 ELSE 0) <= MaxNames
    /\ job' = [NoJob EXCEPT
                 !.kind = kind, !.todo = ends,
                 !.stage = CASE kind = "file" -> "properties"
                             [] kind = "fs" -> "start"
                             [] kind = "nsp" -> "nsp",
                 !.nsp = IF kind = "nsp" THEN names + 1 ELSE 0]
    /\ names' = IF kind = "nsp" THEN names + 1 ELSE names
    /\ UNCHANGED <<usbVars, eventVars, threadVars, io, told, busVars, hostVars>>

\* The user cancels, or another part of the dump fails.
AbortJob ==
    /\ job # NoJob /\ owner # "client" /\ job.stage # "abort"
    /\ job' = [job EXCEPT !.stage = "abort"]
    /\ UNCHANGED <<usbVars, eventVars, threadVars, io, names, told, busVars, hostVars>>

\* A call takes the mutex and posts its first transfer, or it refuses.
Enter  == owner' = "client" /\ UNCHANGED <<detPc, mainPc, init>>
Refuse == /\ job' = [job EXCEPT !.stage = "abort"]
          /\ UNCHANGED <<threadVars, io>>

\* usbSendNspProperties; the last entry ends where the NSP does.
CallSendNspProperties ==
    /\ job.stage = "nsp" /\ owner = "none"
    /\ IF InSession /\ ~(~nspMode /\ remaining # 0) /\ ~nspMode
       THEN /\ Enter /\ UNCHANGED job
            /\ Command("SendNspProperties", job.nsp, job.todo[Len(job.todo)])
       ELSE Refuse
    /\ UNCHANGED <<usbVars, eventVars, names, told, busVars, hostVars>>

\* usbSendFileProperties
CallSendFileProperties ==
    /\ job.stage = "properties" /\ owner = "none"
    /\ IF InSession /\ ~(~nspMode /\ remaining # 0)
       THEN /\ Enter
            /\ names' = names + 1
            /\ job' = [job EXCEPT !.name = names', !.at = Head(job.todo),
                                  !.todo = Tail(job.todo)]
            /\ Command("SendFileProperties", names', Head(job.todo) - job.at)
       ELSE Refuse /\ UNCHANGED names
    /\ UNCHANGED <<usbVars, eventVars, told, busVars, hostVars>>

\* _usbSendFileProperties after usbSendCommand.  The remaining size of an NSP
\* includes its header, counted here as one chunk.
SendFilePropertiesReturns(ok) ==
    /\ io.cmd \in {"SendFileProperties", "SendNspProperties"}
    /\ CommandReturns(ok)
    /\ remaining' = IF ~ok THEN 0
                    ELSE IF io.cmd = "SendNspProperties" THEN io.size + 1 ELSE io.size
    /\ nspMode' = (ok /\ (nspMode \/ io.cmd = "SendNspProperties"))
    /\ owner' = "none" /\ io' = NoIo
    /\ job' = IF ~ok THEN [job EXCEPT !.stage = "abort"]
              ELSE IF io.cmd = "SendNspProperties" THEN AfterFile(job)
              ELSE IF io.size = 0 THEN AfterFile(job)
              ELSE [job EXCEPT !.stage = "data"]
    /\ told' = IF ok /\ io.cmd = "SendFileProperties" /\ io.size = 0 /\ job.kind # "nsp"
               THEN told \cup {[name |-> io.name, data |-> <<>>]} ELSE told
    /\ UNCHANGED <<hostAvailable, session, speed, detPc, mainPc, init, names,
                   busVars, hostVars>>

\* usbSendFileData on any error, and usbCancelFileTransfer, forget the file; the
\* mutant forgets the NSP mode only.
ResetTransferKeepsRemaining == UNCHANGED remaining /\ nspMode' = FALSE
ResetTransfer == remaining' = 0 /\ nspMode' = FALSE

\* usbSendFileData, up to usbWrite.  It resets its state on any error.
CallSendFileData ==
    /\ job.stage = "data" /\ owner = "none"
    /\ IF InSession /\ remaining # 0
       THEN /\ Enter /\ UNCHANGED <<job, remaining, nspMode>>
            /\ io' = [NoIo EXCEPT !.cmd = "data", !.step = "data", !.urb = Urb,
                                  !.name = job.name]
       ELSE Refuse /\ ResetTransfer
    /\ UNCHANGED <<hostAvailable, session, speed, eventVars, names, told, busVars,
                   hostVars>>

CountChunk == remaining' = remaining - 1

\* usbWrite of a chunk that is not the last one returned true.
ChunkSent ==
    /\ io.step = "data" /\ io.urb = "done" /\ remaining > 1
    /\ CountChunk
    /\ owner' = "none" /\ io' = NoIo
    /\ job' = [job EXCEPT !.sent = Append(@, io.name)]
    /\ UNCHANGED <<hostAvailable, session, nspMode, speed, eventVars, detPc, mainPc,
                   init, names, told, busVars, hostVars>>

\* usbWrite of the last chunk returned true: usbSendFileData reads a status.
LastChunkSent ==
    /\ io.step = "data" /\ io.urb = "done" /\ remaining = 1
    /\ CountChunk
    /\ io' = [io EXCEPT !.step = "last", !.urb = Urb]
    /\ UNCHANGED <<hostAvailable, session, nspMode, speed, eventVars, threadVars,
                   appVars, busVars, hostVars>>

\* usbSendFileData returns after the status of the last chunk.
FileSent ==
    /\ io.step = "last" /\ io.urb = "done" /\ io.status = "Success"
    /\ owner' = "none" /\ io' = NoIo
    /\ LET sent == Append(job.sent, io.name) IN
       /\ told' = IF job.kind = "nsp" THEN told
                  ELSE told \cup {[name |-> io.name, data |-> sent]}
       /\ job' = AfterFile([job EXCEPT !.sent = IF job.kind = "nsp" THEN sent ELSE <<>>])
    /\ UNCHANGED <<usbVars, eventVars, detPc, mainPc, init, names, busVars, hostVars>>

\* usbSendFileData returns false.
SendFileDataFails ==
    /\ io.cmd = "data"
    /\ \/ io.step = "last" /\ io.urb = "done" /\ io.status # "Success"
          /\ UNCHANGED eventVars
       \/ TransferFails
    /\ ResetTransfer
    /\ owner' = "none" /\ io' = NoIo
    /\ job' = [job EXCEPT !.stage = "abort"]
    /\ UNCHANGED <<hostAvailable, session, speed, detPc, mainPc, init, names, told,
                   busVars, hostVars>>

\* usbSendNspHeader; NSP mode ends right away.
CallSendNspHeader ==
    /\ job.stage = "header" /\ owner = "none"
    /\ IF InSession /\ remaining = 0 /\ nspMode
       THEN /\ Enter /\ UNCHANGED job /\ nspMode' = FALSE
            /\ Command("SendNspHeader", 0, 0)
       ELSE Refuse /\ UNCHANGED nspMode
    /\ UNCHANGED <<hostAvailable, session, remaining, speed, eventVars, names, told,
                   busVars, hostVars>>

SendNspHeaderReturns(ok) ==
    /\ io.cmd = "SendNspHeader" /\ CommandReturns(ok)
    /\ owner' = "none" /\ io' = NoIo
    /\ told' = IF ok THEN told \cup {[name |-> job.nsp, data |-> job.sent]} ELSE told
    /\ job' = IF ok THEN NoJob ELSE [job EXCEPT !.stage = "abort"]
    /\ UNCHANGED <<usbVars, detPc, mainPc, init, names, busVars, hostVars>>

\* usbStartExtractedFsDump and usbEndExtractedFsDump
CallExtractedFsDump(stage, cmd) ==
    /\ job.stage = stage /\ owner = "none"
    /\ IF InSession /\ remaining = 0 /\ ~nspMode
       THEN Enter /\ UNCHANGED job /\ Command(cmd, 0, 0)
       ELSE Refuse
    /\ UNCHANGED <<usbVars, eventVars, names, told, busVars, hostVars>>

ExtractedFsDumpReturns(ok) ==
    /\ io.cmd \in {"StartExtractedFsDump", "EndExtractedFsDump"} /\ CommandReturns(ok)
    /\ owner' = "none" /\ io' = NoIo
    /\ job' = IF io.cmd = "EndExtractedFsDump" THEN NoJob
              ELSE IF ok THEN AfterFile(job) ELSE [job EXCEPT !.stage = "abort"]
    /\ UNCHANGED <<usbVars, detPc, mainPc, init, names, told, busVars, hostVars>>

\* usbCancelFileTransfer; it sends nothing unless a file or an NSP is under
\* way, and ignores the answer.
CallCancelFileTransfer ==
    /\ job.stage = "abort" /\ owner = "none"
    /\ IF InSession /\ (remaining # 0 \/ nspMode)
       THEN /\ Enter /\ UNCHANGED job
            /\ ResetTransfer
            /\ Command("CancelFileTransfer", 0, 0)
       ELSE job' = NoJob /\ UNCHANGED <<threadVars, io, remaining, nspMode>>
    /\ UNCHANGED <<hostAvailable, session, speed, eventVars, names, told, busVars,
                   hostVars>>

CancelFileTransferReturns ==
    /\ io.cmd = "CancelFileTransfer" /\ \E ok \in BOOLEAN : CommandReturns(ok)
    /\ owner' = "none" /\ io' = NoIo /\ job' = NoJob
    /\ UNCHANGED <<usbVars, detPc, mainPc, init, names, told, busVars, hostVars>>
-----------------------------------------------------------------------------
(***************************************************************************)
(* The detection thread, and the thread that creates and joins it.         *)
(***************************************************************************)

\* waitMulti returned; the events clear themselves.
DetectionWakes ==
    /\ detPc = "wait"
    /\ \/ /\ exitEvent /\ exitEvent' = FALSE /\ detPc' = "leaving"
          /\ UNCHANGED <<stateEvent, timeoutEvent>>
       \/ /\ stateEvent /\ stateEvent' = FALSE /\ detPc' = "handle"
          /\ UNCHANGED <<timeoutEvent, exitEvent>>
       \/ /\ timeoutEvent /\ timeoutEvent' = FALSE /\ detPc' = "handle"
          /\ UNCHANGED <<stateEvent, exitEvent>>
    /\ UNCHANGED <<usbVars, exitFlag, owner, mainPc, init, io, appVars, busVars, hostVars>>

\* The session and what was going on in it are dropped; the mutant leaves what
\* usbIsReady reports alone.
DropSessionKeepsSpeed == session' = FALSE /\ remaining' = 0 /\ UNCHANGED speed
DropSession == session' = FALSE /\ remaining' = 0 /\ speed' = FALSE

\* A status change or a timeout: drop the session and, if a host is there,
\* wait for it to start a new one, with the mutex held.
DetectionHandles ==
    /\ detPc = "handle" /\ owner = "none"
    /\ hostAvailable' = cable
    /\ DropSession
    /\ IF cable
       THEN /\ owner' = "detect" /\ detPc' = "session"
            /\ Command("StartSession", 0, 0)
       ELSE detPc' = "wait" /\ UNCHANGED <<owner, io>>
    /\ UNCHANGED <<nspMode, eventVars, mainPc, init, appVars, busVars, hostVars>>

AfterSessionGivesUp(ok) == IF ok THEN "wait" ELSE "leaving"
AfterSession(ok) == IF ~ok /\ exitFlag' THEN "leaving" ELSE "wait"

\* usbStartSession returns; the host's packet size has to be a valid one.
StartSessionReturns(ok) ==
    /\ io.cmd = "StartSession" /\ CommandReturns(ok)
    /\ session' = ok /\ speed' = ok
    /\ owner' = "none" /\ io' = NoIo
    /\ detPc' = AfterSession(ok)
    /\ UNCHANGED <<hostAvailable, remaining, nspMode, mainPc, init, appVars, busVars,
                   hostVars>>

\* The loop is left: close the session, if there is one.
DetectionLeaves ==
    /\ detPc = "leaving" /\ owner = "none"
    /\ IF hostAvailable /\ session /\ init
       THEN /\ owner' = "detect" /\ detPc' = "ending"
            /\ Command("EndSession", 0, 0)
            /\ UNCHANGED <<usbVars, exitFlag>>
       ELSE /\ detPc' = "none" /\ UNCHANGED <<owner, io, nspMode>>
            /\ hostAvailable' = FALSE /\ exitFlag' = FALSE /\ DropSession
    /\ UNCHANGED <<stateEvent, timeoutEvent, exitEvent, mainPc, init, appVars, busVars,
                   hostVars>>

EndSessionReturns ==
    /\ io.cmd = "EndSession"
    /\ \/ io.step = "status" /\ io.urb = "done" /\ UNCHANGED timeoutEvent
       \/ io.urb = "failed" /\ UNCHANGED timeoutEvent
       \/ io.urb = "posted" /\ ~HostServes /\ timeoutEvent' = TRUE
    /\ hostAvailable' = FALSE /\ exitFlag' = FALSE /\ DropSession
    /\ owner' = "none" /\ io' = NoIo /\ detPc' = "none"
    /\ UNCHANGED <<nspMode, stateEvent, exitEvent, mainPc, init, appVars, busVars,
                   hostVars>>

\* usbInitialize, under the mutex.
Initialize ==
    /\ mainPc = "closed" /\ owner = "none" /\ ~init
    /\ init' = TRUE /\ mainPc' = "run" /\ detPc' = "wait"
    /\ exitEvent' = FALSE /\ timeoutEvent' = FALSE
    /\ stateEvent' = cable
    /\ UNCHANGED <<usbVars, exitFlag, owner, io, appVars, busVars, hostVars>>

\* usbExit: signal the exit event and join the thread, before locking.
Exit ==
    /\ mainPc = "run" /\ job = NoJob
    /\ exitEvent' = TRUE /\ mainPc' = "joining"
    /\ UNCHANGED <<usbVars, stateEvent, timeoutEvent, exitFlag, owner, detPc, init, io,
                   appVars, busVars, hostVars>>

\* The rest of usbExit: usbCloseComms takes the interface off the bus.
ExitLocks ==
    /\ mainPc = "joining" /\ detPc = "none" /\ owner = "none"
    /\ mainPc' = "closed" /\ init' = FALSE /\ link' = FALSE
    /\ UNCHANGED <<usbVars, eventVars, owner, detPc, io, appVars, cable, hostVars>>
-----------------------------------------------------------------------------
(***************************************************************************)
(* The bus.                                                                *)
(***************************************************************************)
FailUrb == io' = IF io.urb = "posted" THEN [io EXCEPT !.urb = "failed"] ELSE io

Unplug ==
    /\ cable /\ cable' = FALSE /\ link' = FALSE
    /\ stateEvent' = init
    /\ FailUrb
    /\ UNCHANGED <<usbVars, timeoutEvent, exitEvent, exitFlag, threadVars, appVars,
                   hostVars>>

Plug ==
    /\ ~cable /\ cable' = TRUE
    /\ stateEvent' = init
    /\ UNCHANGED <<usbVars, timeoutEvent, exitEvent, exitFlag, threadVars, io, appVars,
                   link, hostVars>>
-----------------------------------------------------------------------------
(***************************************************************************)
(* nxdt_host.py.                                                           *)
(***************************************************************************)

\* utilsResetNspInfo; the mutant resets the sizes only.
ResetNspSizes == hNsp' = [hNsp EXCEPT !.left = 0]
ResetNspInfo == hNsp' = NoNsp

\* The user starts the server: usbGetDeviceEndpoints resets the device, which
\* ends the transfer that is posted and signals a status change, and
\* usbCommandHandler resets the NSP info and waits for a command.
HostStart ==
    /\ hPc = "down" /\ cable /\ init
    /\ SlowConsole \/ io.urb # "done"
    /\ hPc' = "header" /\ link' = TRUE /\ hKind' \in HostKinds
    /\ ResetNspInfo /\ fsOpen' = FALSE
    /\ stateEvent' = TRUE
    /\ FailUrb
    /\ UNCHANGED <<usbVars, timeoutEvent, exitEvent, exitFlag, threadVars, appVars, cable,
                   hCmd, hFile, hLeft, disk>>

HostIsDown == hPc' = "down" /\ UNCHANGED <<hKind, hCmd, hNsp, hFile, hLeft, fsOpen>>

\* The user kills the server, or it dies of an exception.
HostStop ==
    /\ hPc # "down" /\ HostIsDown
    /\ UNCHANGED <<usbVars, eventVars, threadVars, io, appVars, busVars, disk>>

Done == io' = [io EXCEPT !.urb = "done"]
Posted(step) == link /\ io.urb = "posted" /\ io.step = step

\* usbCommandHandler reads a header, and then the block if there is one.
HostReadsHeader ==
    /\ hPc = "header" /\ Posted("header") /\ HasBlock(io.cmd)
    /\ hPc' = "block" /\ hCmd' = io.cmd
    /\ Done
    /\ UNCHANGED <<usbVars, eventVars, threadVars, appVars, busVars, hKind, hNsp, hFile,
                   hLeft, fsOpen, disk>>

\* The read that completes a command.
Receives(cmds) ==
    /\ io.cmd \in cmds /\ Done
    /\ IF HasBlock(io.cmd) THEN hPc = "block" /\ Posted("block")
                           ELSE hPc = "header" /\ Posted("header")

\* The handler's status, to be sent by usbSendStatus; hCmd keeps it.  The loop
\* ends after EndSession and after an unsupported ABI version.
Reply(status) ==
    /\ hCmd' = status
    /\ hPc' = IF status = "UnsupportedAbi" THEN "lastReply" ELSE "reply"

HandleStartSession ==
    /\ Receives({"StartSession"})
    /\ Reply(CASE hKind = "good" -> "Success"
               [] hKind = "badPacketSize" -> "BadPacketSize"
               [] hKind = "badAbi" -> "UnsupportedAbi")
    /\ fsOpen' = FALSE
    /\ UNCHANGED <<usbVars, eventVars, threadVars, appVars, busVars, hKind, hNsp, hFile,
                   hLeft, disk>>

HandleEndSession ==
    /\ Receives({"EndSession"}) /\ hPc' = "lastReply" /\ hCmd' = "Success"
    /\ UNCHANGED <<usbVars, eventVars, threadVars, appVars, busVars, hKind, hNsp, hFile,
                   hLeft, fsOpen, disk>>

\* The output file of a SendFileProperties command: the NSP under way, or a
\* new file.
OpenFile(name) == [disk EXCEPT ![name] = [NoFile EXCEPT !.state = "open"]]

HandleNspProperties ==
    /\ Receives({"SendNspProperties"})
    /\ \/ /\ hNsp.on /\ Reply("Malformed") /\ UNCHANGED <<hNsp, disk>>
       \/ /\ ~hNsp.on /\ Reply("Success")
          /\ hNsp' = [on |-> TRUE, file |-> io.name, left |-> io.size * ChunkUnits]
          /\ disk' = OpenFile(io.name)
       \* An existing directory, or no space left.
       \/ ~hNsp.on /\ Reply("HostIoError") /\ UNCHANGED <<hNsp, disk>>
    /\ UNCHANGED <<usbVars, eventVars, threadVars, appVars, busVars, hKind, hFile, hLeft,
                   fsOpen>>

HandleFileProperties ==
    /\ Receives({"SendFileProperties"})
    /\ \/ /\ hNsp.on /\ hFile' = hNsp.file /\ UNCHANGED disk
          /\ IF io.size = 0 THEN Reply("Success") ELSE hPc' = "replyData" /\ UNCHANGED hCmd
       \/ /\ ~hNsp.on /\ hFile' = io.name
          /\ IF io.size = 0
             THEN /\ Reply("Success")
                  /\ disk' = [disk EXCEPT ![io.name] = [NoFile EXCEPT !.state = "closed"]]
             ELSE /\ hPc' = "replyData" /\ UNCHANGED hCmd /\ disk' = OpenFile(io.name)
       \/ ~hNsp.on /\ Reply("HostIoError") /\ UNCHANGED <<hFile, disk>>
    /\ hLeft' = io.size * ChunkUnits
    /\ UNCHANGED <<usbVars, eventVars, threadVars, appVars, busVars, hKind, hNsp, fsOpen>>

\* utilsResetNspInfo(True), or the close and remove of a single file.
DeleteOutput ==
    /\ disk' = [disk EXCEPT ![hFile] = [NoFile EXCEPT !.state = "deleted"]]
    /\ ResetNspInfo

\* One read of the data stage: write what arrived and go on until the file is
\* complete.  The header and block of a command other than CancelFileTransfer
\* are written like file data.
Stores(item, units) ==
    /\ hLeft' = hLeft - units
    /\ hNsp' = IF hNsp.on THEN [hNsp EXCEPT !.left = @ - units] ELSE hNsp
    /\ disk' = [disk EXCEPT ![hFile].data = Append(@, item),
                            ![hFile].state = IF hLeft' = 0 /\ ~hNsp.on
                                             THEN "closed" ELSE @]
    /\ IF hLeft' = 0 THEN Reply("Success") ELSE UNCHANGED <<hPc, hCmd>>

HostReadsChunk ==
    /\ hPc = "data" /\ Posted("data") /\ hLeft >= ChunkUnits
    /\ Stores(io.name, ChunkUnits) /\ Done
    /\ UNCHANGED <<usbVars, eventVars, threadVars, appVars, busVars, hKind, hFile, fsOpen>>

HostReadsForeign ==
    /\ hPc = "data"
    /\ \/ Posted("header") /\ io.cmd # "CancelFileTransfer"
       \/ Posted("block") /\ io.cmd = "StartSession"
    /\ Stores(Junk, 1) /\ Done
    /\ UNCHANGED <<usbVars, eventVars, threadVars, appVars, busVars, hKind, hFile, fsOpen>>

\* CancelFileTransfer within the data stage, and in the command loop.
HostCancelsTransfer ==
    /\ hPc = "data" /\ Posted("header") /\ io.cmd = "CancelFileTransfer"
    /\ DeleteOutput /\ Reply("Success") /\ Done
    /\ fsOpen' = FALSE
    /\ UNCHANGED <<usbVars, eventVars, threadVars, appVars, busVars, hKind, hFile, hLeft>>

HandleCancelFileTransfer ==
    /\ Receives({"CancelFileTransfer"})
    /\ IF hNsp.on
       THEN /\ Reply("Success") /\ ResetNspInfo
            /\ disk' = [disk EXCEPT ![hNsp.file] = [NoFile EXCEPT !.state = "deleted"]]
       ELSE Reply("Malformed") /\ UNCHANGED <<hNsp, disk>>
    /\ fsOpen' = FALSE
    /\ UNCHANGED <<usbVars, eventVars, threadVars, appVars, busVars, hKind, hFile, hLeft>>

\* The handler asserts that an NSP file is open: without one the server dies.
HandleSendNspHeader ==
    /\ Receives({"SendNspHeader"})
    /\ IF hNsp.file = 0 THEN hPc' = "down" /\ UNCHANGED <<hCmd, hNsp, disk>>
       ELSE IF hNsp.left # 0 THEN Reply("Malformed") /\ UNCHANGED <<hNsp, disk>>
       ELSE /\ Reply("Success") /\ ResetNspInfo
            /\ disk' = [disk EXCEPT ![hNsp.file].header = TRUE,
                                    ![hNsp.file].state = "closed"]
    /\ UNCHANGED <<usbVars, eventVars, threadVars, appVars, busVars, hKind, hFile, hLeft,
                   fsOpen>>

HandleStartExtractedFsDump ==
    /\ Receives({"StartExtractedFsDump"})
    /\ IF hNsp.on THEN Reply("Malformed") /\ UNCHANGED fsOpen
                  ELSE Reply("Success") /\ fsOpen' = TRUE
    /\ UNCHANGED <<usbVars, eventVars, threadVars, appVars, busVars, hKind, hNsp, hFile,
                   hLeft, disk>>

HandleEndExtractedFsDump ==
    /\ Receives({"EndExtractedFsDump"})
    /\ Reply("Success") /\ fsOpen' = FALSE
    /\ UNCHANGED <<usbVars, eventVars, threadVars, appVars, busVars, hKind, hNsp, hFile,
                   hLeft, disk>>

\* usbSendStatus before the data stage; the handler does not look at the result.
HostEntersData ==
    /\ hPc = "replyData"
    /\ \/ Posted("status") /\ io' = [io EXCEPT !.urb = "done", !.status = "Success"]
       \/ ~Posted("status") /\ UNCHANGED io
    /\ hPc' = "data"
    /\ UNCHANGED <<usbVars, eventVars, threadVars, appVars, busVars, hKind, hCmd, hNsp,
                   hFile, hLeft, fsOpen, disk>>

\* usbSendStatus of usbCommandHandler, which stops after EndSession and after
\* an unsupported ABI version.
HostReplies ==
    /\ hPc \in {"reply", "lastReply"} /\ (Posted("status") \/ Posted("last"))
    /\ io' = [io EXCEPT !.urb = "done", !.status = hCmd]
    /\ hPc' = IF hPc = "lastReply" THEN "down" ELSE "header"
    /\ UNCHANGED <<usbVars, eventVars, threadVars, appVars, busVars, hKind, hCmd, hNsp,
                   hFile, hLeft, fsOpen, disk>>

\* A read or write of the host fails: the handle is stale, the timeout passed
\* with nothing to read or nobody to read the status, or what arrived is not
\* the size of a header or block.  In the data stage the handler deletes its
\* output; either way the server stops.
HostTransferFails ==
    /\ \/ hPc # "down" /\ ~link
       \/ /\ hPc \in {"block", "data"}
          /\ ~(io.urb = "posted" /\ io.step \in {"header", "block", "data"})
       \/ hPc \in {"reply", "lastReply"} /\ ~Posted("status") /\ ~Posted("last")
       \/ hPc = "header" /\ (Posted("data") \/ Posted("block"))
       \/ hPc = "block" /\ (Posted("data") \/ Posted("header"))
       \/ hPc = "data" /\ (\/ Posted("data") /\ hLeft < ChunkUnits
                           \/ Posted("block") /\ io.cmd # "StartSession")
    /\ hPc' = "down"
    /\ IF hPc = "data" THEN DeleteOutput ELSE UNCHANGED <<disk, hNsp>>
    /\ UNCHANGED <<usbVars, eventVars, threadVars, io, appVars, busVars, hKind, hCmd,
                   hFile, hLeft, fsOpen>>
-----------------------------------------------------------------------------
LayoutsOf(kind) == {ends \in Layouts : kind = "file" => Len(ends) = 1}

Application ==
    \/ \E kind \in JobKinds : \E ends \in LayoutsOf(kind) : StartJob(kind, ends)
    \/ AbortJob

Calls ==
    \/ CallSendNspProperties \/ CallSendFileProperties \/ CallSendFileData
    \/ CallSendNspHeader \/ CallCancelFileTransfer
    \/ CallExtractedFsDump("start", "StartExtractedFsDump")
    \/ CallExtractedFsDump("end", "EndExtractedFsDump")

Transfers ==
    \/ CommandStep \/ ChunkSent \/ LastChunkSent \/ FileSent \/ SendFileDataFails
    \/ CancelFileTransferReturns \/ EndSessionReturns
    \/ \E ok \in BOOLEAN :
          \/ SendFilePropertiesReturns(ok) \/ SendNspHeaderReturns(ok)
          \/ ExtractedFsDumpReturns(ok) \/ StartSessionReturns(ok)

Detection == DetectionWakes \/ DetectionHandles \/ DetectionLeaves
Main == Initialize \/ Exit \/ ExitLocks

Handlers ==
    \/ HandleStartSession \/ HandleEndSession \/ HandleNspProperties
    \/ HandleFileProperties \/ HandleCancelFileTransfer \/ HandleSendNspHeader
    \/ HandleStartExtractedFsDump \/ HandleEndExtractedFsDump

Host ==
    \/ HostReadsHeader \/ Handlers \/ HostEntersData \/ HostReadsChunk
    \/ HostReadsForeign \/ HostCancelsTransfer \/ HostReplies \/ HostTransferFails

\* What the user does to the cable and to the server.
Environment == Unplug \/ Plug \/ HostStart \/ HostStop

Next == Application \/ Calls \/ Transfers \/ Detection \/ Main \/ Environment \/ Host

Spec == Init /\ [][Next]_vars
FairSpec ==
    /\ Spec
    /\ WF_vars(Calls) /\ WF_vars(Transfers) /\ WF_vars(Host)
    /\ WF_vars(Detection)
    /\ WF_vars(ExitLocks)
-----------------------------------------------------------------------------
(***************************************************************************)
(* Properties.                                                             *)
(***************************************************************************)
IoRecords ==
    [cmd : Commands \cup {"none", "data"}, step : TransferSteps \cup {"none"},
     urb : {"none", "posted", "done", "failed"}, name : Nat, size : Nat, status : Statuses]
JobRecords ==
    [kind : {"none", "file", "fs", "nsp"},
     stage : {"none", "start", "nsp", "properties", "data", "header", "end", "abort"},
     todo : Seq(Nat), at : Nat, name : Nat, nsp : Nat, sent : Seq(Nat)]
FileRecords ==
    [state : {"absent", "open", "closed", "deleted"}, data : Seq(Nat), header : BOOLEAN]

TypeOK ==
    /\ init \in BOOLEAN /\ owner \in {"none", "client", "detect"}
    /\ hostAvailable \in BOOLEAN /\ session \in BOOLEAN /\ remaining \in Nat
    /\ nspMode \in BOOLEAN /\ speed \in BOOLEAN /\ exitFlag \in BOOLEAN
    /\ stateEvent \in BOOLEAN /\ timeoutEvent \in BOOLEAN /\ exitEvent \in BOOLEAN
    /\ detPc \in {"none", "wait", "handle", "session", "leaving", "ending"}
    /\ io \in IoRecords
    /\ mainPc \in {"closed", "run", "joining"}
    /\ job \in JobRecords
    /\ names \in 0..MaxNames
    /\ told \subseteq [name : Names, data : Seq(Nat)]
    /\ cable \in BOOLEAN /\ link \in BOOLEAN
    /\ hPc \in {"down", "header", "block", "data", "reply", "replyData", "lastReply"}
    /\ hKind \in AllHostKinds /\ hCmd \in Commands \cup Statuses
    /\ hNsp \in [on : BOOLEAN, file : Nat, left : Int]
    /\ hFile \in Nat /\ hLeft \in Nat /\ fsOpen \in BOOLEAN
    /\ disk \in [Names -> FileRecords]

\* What the console reports as sent is on the host's disk, whole, in order,
\* under its own name and with nothing else in it: usbSendFileData and
\* usbSendNspHeader return true only then, whatever was unplugged, killed,
\* restarted, cancelled or late in between.
SuccessMeansStored ==
    \A t \in told : disk[t.name].state = "closed" /\ disk[t.name].data = t.data

\* A session in which nothing is pending, with the host process it was started
\* with.
Settled == /\ session /\ owner = "none" /\ detPc = "wait"
           /\ ~stateEvent /\ ~timeoutEvent
           /\ link /\ hPc # "down"

\* Between two calls both ends are at the same point of the protocol: the host
\* waits for as much file data as usbSendFileData will still accept, or for a
\* command.
StageAgrees ==
    Settled => IF hPc = "data" THEN hLeft = remaining * ChunkUnits
               ELSE hPc = "header" /\ (remaining = 0 \/ nspMode)

\* usbExit leaves nothing behind for the next usbInitialize: no session that
\* usbIsReady would report, no file in progress, no transfer on the endpoint, no
\* exit flag that would end the next detection thread.
ExitLeavesNothing ==
    mainPc = "closed" => /\ ~session /\ ~speed /\ remaining = 0 /\ ~exitFlag
                         /\ owner = "none" /\ io = NoIo

\* Every API call returns, even if the host hangs up half way through.
ApiReturns == (owner = "client") ~> (owner # "client")
\* usbExit returns, wherever the detection thread and the host are, unless the
\* user never stops plugging and restarting.
ExitReturns ==
    <>[][~Environment]_vars => ((mainPc = "joining") ~> (mainPc = "closed"))
CallsReturn == ApiReturns /\ ExitReturns

\* While a working host stays up, the console ends up in a session with it.
HostStays == cable /\ link /\ hPc # "down" /\ hKind = "good" /\ mainPc = "run"
SessionRecovers == <>[]HostStays => <>[]session

\* Three things that documentation says and the code does not keep.

\* A new session starts from a clean slate: "reset" in usbTransferData's
\* comment.  The host is not left in an NSP transfer the console gave up.
SessionResetsNspMode == Settled => (hNsp.on => nspMode)

\* The assertion of usbHandleSendNspHeader, in a session that was started after
\* the last status change.
HostHasNspFile ==
    (hPc = "block" /\ Posted("block") /\ io.cmd = "SendNspHeader"
        /\ detPc = "wait" /\ ~stateEvent) => hNsp.file # 0

\* host/README.md: an extracted FS dump is not started during another one.
FsDumpsDoNotOverlap ==
    (hPc = "block" /\ Posted("block") /\ io.cmd = "StartExtractedFsDump") => ~fsOpen
=============================================================================
