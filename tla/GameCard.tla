------------------------------ MODULE GameCard ------------------------------
(***************************************************************************)
(* gamecard.c: the detection thread, the information it caches about the   *)
(* inserted card, the two storage areas (of which one is open at a time),  *)
(* and the callers that share them under g_gameCardMutex.                  *)
(*                                                                         *)
(* The user may swap cards at any time.  Every insertion has a number, and *)
(* a value read from a card is represented by the number of the insertion  *)
(* it was read from; 0 is a cleared value.  The FS service refuses what is *)
(* read through a storage of an earlier insertion, and may refuse any call *)
(* besides.                                                                *)
(***************************************************************************)
EXTENDS Naturals, Sequences

CONSTANTS
    Cards,       \* what the cards hold
    MaxInserts,  \* bound on the insertions
    MayExit      \* the application may call gamecardExit

ASSUME GameCardAssumption == MaxInserts \in Nat /\ MayExit \in BOOLEAN

VARIABLES
    content,     \* the card of each insertion
    inserts,     \* insertions so far
    slot,        \* the inserted card
    kernelEvent, \* g_gameCardKernelEvent
    exitEvent,   \* g_gameCardDetectionThreadExitEvent
    changeEvent, \* g_gameCardStatusChangeEvent
    mutex,       \* owner of g_gameCardMutex
    main,        \* the application: gamecardInitialize and gamecardExit
    opened,      \* what gamecardInitialize has set up
    thread,      \* the detection thread
    status,      \* g_gameCardStatus
    header,      \* g_gameCardHeader and g_gameCardInfoArea
    normal,      \* g_gameCardNormalAreaSize
    secure,      \* g_gameCardSecureAreaSize (g_gameCardTotalSize is set with it)
    hfs,         \* g_gameCardHfsCtx
    area,        \* g_gameCardCurrentStorageArea
    handle,      \* g_gameCardHandle
    storage,     \* g_gameCardStorage
    reader,      \* a caller that reads the whole image
    todo,        \* areas the call of gamecardReadStorage still has to read
    got          \* the cards and areas it has read from

slotVars == <<content, inserts, slot>>
info     == <<header, normal, secure, hfs>>
open     == <<area, handle, storage>>
readVars == <<reader, todo, got>>
vars == <<slotVars, kernelEvent, exitEvent, changeEvent, mutex, main, opened, thread, status,
          info, open, readVars>>

Areas == {"normal", "secure"}
Inserts == 0..MaxInserts
Statuses == {"notInserted", "processing", "noGameCardPatch", "lafwUpdateRequired",
             "infoNotLoaded", "infoLoaded"}

\* What gamecardInitialize sets up, in its order.
Resources == <<"readBuf", "deviceOperator", "eventNotifier", "kernelEvent", "lafwBlob", "thread">>

\* A dump reads the image in blocks; one of them spans both areas.
BlockAreas == <<<<"normal">>, <<"normal", "secure">>, <<"secure">>>>

Loading == {"open", "header", "normal", "secure", "rootHfs", "normalHfs", "secureHfs"}

TypeOK ==
    /\ content \in [1..MaxInserts -> Cards] /\ inserts \in Inserts /\ slot \in Inserts
    /\ kernelEvent \in BOOLEAN /\ exitEvent \in BOOLEAN /\ changeEvent \in BOOLEAN
    /\ mutex \in {"free", "main", "detect", "reader"}
    /\ main \in {"off", "running", "failed", "joining", "exited"}
    /\ opened \in 0..Len(Resources)
    /\ thread \in {"none", "begin", "wait", "woken", "delay", "leaving", "ended"} \cup Loading
    /\ status \in Statuses
    /\ header \in Inserts /\ normal \in Inserts /\ secure \in Inserts /\ hfs \in Inserts
    /\ area \in Areas \cup {"none"} /\ handle \in Inserts /\ storage \in Inserts
    /\ reader \in 1..Len(BlockAreas) + 1 /\ todo \in Seq(Areas) /\ got \in Seq(Cards \X Areas)

Init ==
    /\ content \in [1..MaxInserts -> Cards] /\ inserts = 0 /\ slot = 0
    /\ kernelEvent = FALSE /\ exitEvent = FALSE /\ changeEvent = FALSE
    /\ mutex = "free" /\ main = "off" /\ opened = 0 /\ thread = "none"
    /\ status = "notInserted"
    /\ header = 0 /\ normal = 0 /\ secure = 0 /\ hfs = 0
    /\ area = "none" /\ handle = 0 /\ storage = 0
    /\ reader = 1 /\ todo = <<>> /\ got = <<>>
-----------------------------------------------------------------------------
(***************************************************************************)
(* The user.                                                               *)
(***************************************************************************)

\* Without the event notifier nothing raises the event.
Notified == kernelEvent' = (kernelEvent \/ opened >= 4)

Insert ==
    /\ slot = 0 /\ inserts < MaxInserts
    /\ inserts' = inserts + 1 /\ slot' = inserts + 1
    /\ Notified
    /\ UNCHANGED <<content, exitEvent, changeEvent, mutex, main, opened, thread, status, info, open,
                   readVars>>

Eject ==
    /\ slot # 0
    /\ slot' = 0
    /\ Notified
    /\ UNCHANGED <<content, inserts, exitEvent, changeEvent, mutex, main, opened, thread, status,
                   info, open, readVars>>
-----------------------------------------------------------------------------
(***************************************************************************)
(* Storage areas and cached information.                                   *)
(***************************************************************************)

\* gamecardCloseStorageArea: nothing to do, not even for the handle, unless an
\* area is open.
CloseStorageArea ==
    IF area = "none" THEN UNCHANGED open
    ELSE area' = "none" /\ handle' = 0 /\ storage' = 0

\* gamecardFreeInfo, without the status.
FreeInfo ==
    /\ header' = 0 /\ normal' = 0 /\ secure' = 0 /\ hfs' = 0
    /\ CloseStorageArea

\* Mutant of IsOpen: a storage of the other area will do.
IsOpenAnyArea(a) == handle # 0 /\ storage # 0

\* gamecardOpenStorageArea has nothing to do.
IsOpen(a) == handle # 0 /\ storage # 0 /\ area = a

\* gamecardOpenStorageArea(a): the open one, or a new handle and storage.
OpenStorageArea(a) ==
    IF IsOpen(a) THEN UNCHANGED open
    ELSE slot # 0 /\ area' = a /\ handle' = slot /\ storage' = slot

\* gamecardOpenStorageArea(a) gives up: what was open is closed, and a handle
\* may have been retrieved without a storage.
OpenFails(a) ==
    /\ ~IsOpen(a)
    /\ area' = "none" /\ storage' = 0
    /\ handle' \in {IF area = "none" THEN handle ELSE 0, slot}

\* Data is read from the card that is in the slot, or not at all.
Readable == storage' # 0 /\ storage' = slot
-----------------------------------------------------------------------------
(***************************************************************************)
(* The detection thread.                                                   *)
(***************************************************************************)

threadFrame == <<slotVars, exitEvent, main, opened, readVars>>

\* The end of the critical section of the detection thread.
SignalChange == changeEvent' = TRUE /\ mutex' = "free" /\ thread' = "wait"

\* The first look at the slot.
ThreadBegin ==
    /\ thread = "begin" /\ mutex = "free"
    /\ IF slot # 0
       THEN status' = "processing" /\ mutex' = "detect" /\ thread' = "open" /\ UNCHANGED changeEvent
       ELSE SignalChange /\ UNCHANGED status
    /\ UNCHANGED <<threadFrame, kernelEvent, info, open>>

\* waitMulti returns for the kernel event, and clears it.
ThreadWakes ==
    /\ thread = "wait" /\ kernelEvent
    /\ kernelEvent' = FALSE /\ thread' = "woken"
    /\ UNCHANGED <<threadFrame, changeEvent, mutex, status, info, open>>

\* Mutant of SlotStatus: the status of the card before is kept.
SlotStatusKept == status

\* The status before the card is looked at.
SlotStatus == IF slot # 0 THEN "processing" ELSE "notInserted"

\* The lock is taken, the information of the card before is freed.
ThreadChange ==
    /\ thread = "woken" /\ mutex = "free"
    /\ FreeInfo
    /\ status' = SlotStatus
    /\ IF slot # 0 THEN mutex' = "detect" /\ thread' = "delay" /\ UNCHANGED changeEvent
       ELSE SignalChange
    /\ UNCHANGED <<threadFrame, kernelEvent>>

\* GAMECARD_ACCESS_DELAY has passed, or the card is gone before that.
ThreadDelay ==
    /\ thread = "delay"
    /\ \/ thread' = "open" /\ UNCHANGED <<changeEvent, mutex>>
       \/ slot = 0 /\ SignalChange
    /\ UNCHANGED <<threadFrame, kernelEvent, status, info, open>>

\* Mutant of FailedStatus: a card that is still being processed stays so.
FailedStatusKept(st) == st

\* The status at the end of a gamecardLoadInfo that failed with st.
FailedStatus(st) == IF st = "processing" THEN "infoNotLoaded" ELSE st

\* gamecardLoadInfo fails: the status st it has reached is kept unless it is
\* still "processing", and the information is freed.  cl is the handle that
\* CloseStorageArea leaves.
LoadFails(st, cl) ==
    /\ status' = FailedStatus(st)
    /\ header' = 0 /\ normal' = 0 /\ secure' = 0 /\ hfs' = 0
    /\ area' = "none" /\ storage' = 0 /\ handle' = cl
    /\ SignalChange

\* The handle that is left if area a cannot be opened, or if a read fails.
HandlesLeft(a) ==
    {IF area = "none" THEN handle ELSE 0} \cup (IF IsOpen(a) THEN {} ELSE {slot})

\* gamecardReadHeader opens the normal area: if it cannot, the "nogc" patch is
\* held responsible.
LoadOpen ==
    /\ thread = "open"
    /\ \/ /\ OpenStorageArea("normal") /\ thread' = "header"
          /\ UNCHANGED <<changeEvent, mutex, status, info>>
       \/ \E h \in HandlesLeft("normal") : LoadFails("noGameCardPatch", h)
    /\ UNCHANGED <<threadFrame, kernelEvent>>

\* The header is read and its card information decrypted; the card may need a
\* newer LAFW.
LoadHeader ==
    /\ thread = "header"
    /\ \/ /\ UNCHANGED open /\ Readable
          /\ header' = storage /\ thread' = "normal"
          /\ UNCHANGED <<changeEvent, mutex, status, normal, secure, hfs>>
       \/ LoadFails(status, 0)
       \/ storage = slot /\ LoadFails("lafwUpdateRequired", 0)
    /\ UNCHANGED <<threadFrame, kernelEvent>>

\* One round of gamecardGetStorageAreasSizes: open the area, ask for its size,
\* close it.
LoadSize(a, next) ==
    /\ thread = a
    /\ \/ /\ slot # 0 /\ (IsOpen(a) => storage = slot)
          /\ IF a = "normal" THEN normal' = slot /\ UNCHANGED secure
             ELSE secure' = slot /\ UNCHANGED normal
          /\ area' = "none" /\ handle' = 0 /\ storage' = 0 /\ thread' = next
          /\ UNCHANGED <<changeEvent, mutex, status, header, hfs>>
       \/ \E h \in HandlesLeft(a) : LoadFails(status, h)
    /\ UNCHANGED <<threadFrame, kernelEvent>>

\* The hash of a Hash FS header matches: what is in the slot is the card that
\* the hash was read from.
HashMatches == content[slot] = content[header]

\* gamecardInitializeHashFileSystemContext of a partition in area a.
LoadHfs(at, a, next) ==
    /\ thread = at
    /\ \/ /\ OpenStorageArea(a) /\ Readable /\ HashMatches
          /\ hfs' = slot
          /\ IF next = "wait" THEN status' = "infoLoaded" /\ SignalChange
             ELSE thread' = next /\ UNCHANGED <<status, changeEvent, mutex>>
          /\ UNCHANGED <<header, normal, secure>>
       \/ \E h \in HandlesLeft(a) : LoadFails(status, h)
    /\ UNCHANGED <<threadFrame, kernelEvent>>

LoadInfo ==
    \/ LoadOpen \/ LoadHeader
    \/ LoadSize("normal", "secure") \/ LoadSize("secure", "rootHfs")
    \/ LoadHfs("rootHfs", "normal", "normalHfs")
    \/ LoadHfs("normalHfs", "normal", "secureHfs")
    \/ LoadHfs("secureHfs", "secure", "wait")

\* waitMulti returns for the exit event.
ThreadLeaves ==
    /\ thread = "wait" /\ exitEvent
    /\ exitEvent' = FALSE /\ thread' = "leaving"
    /\ UNCHANGED <<slotVars, kernelEvent, changeEvent, mutex, main, opened, status, info, open,
                   readVars>>

\* The thread frees everything without the lock.
ThreadFrees == FreeInfo

ThreadEnds ==
    /\ thread = "leaving"
    /\ ThreadFrees /\ status' = "notInserted" /\ thread' = "ended"
    /\ UNCHANGED <<slotVars, kernelEvent, exitEvent, changeEvent, mutex, main, opened, readVars>>

Detection ==
    \/ ThreadBegin \/ ThreadWakes \/ ThreadChange \/ ThreadDelay \/ LoadInfo
    \/ ThreadLeaves \/ ThreadEnds
-----------------------------------------------------------------------------
(***************************************************************************)
(* The application: start, exit and the callers in between.                *)
(***************************************************************************)

\* gamecardInitialize.  n resources are set up: all, or those before the one
\* that failed, which are left for gamecardExit.
Initialize ==
    /\ main = "off" /\ mutex = "free"
    /\ \E n \in 0..Len(Resources) :
          /\ opened' = n
          /\ main' = IF n = Len(Resources) THEN "running" ELSE "failed"
          /\ thread' = IF n = Len(Resources) THEN "begin" ELSE "none"
    /\ UNCHANGED <<slotVars, kernelEvent, exitEvent, changeEvent, mutex, status, info, open, readVars>>

\* gamecardExit takes the lock; if there is a thread it signals and joins it.
Exit ==
    /\ MayExit /\ main \in {"running", "failed"} /\ mutex = "free"
    /\ IF thread = "none"
       THEN main' = "exited" /\ opened' = 0 /\ UNCHANGED <<mutex, exitEvent>>
       ELSE main' = "joining" /\ mutex' = "main" /\ exitEvent' = TRUE /\ UNCHANGED opened
    /\ UNCHANGED <<slotVars, kernelEvent, changeEvent, thread, status, info, open, readVars>>

\* The thread is joined, the rest is closed and freed.
ExitJoined ==
    /\ main = "joining" /\ thread = "ended"
    /\ main' = "exited" /\ opened' = 0 /\ mutex' = "free"
    /\ UNCHANGED <<slotVars, kernelEvent, exitEvent, changeEvent, thread, status, info, open, readVars>>

callerFrame == <<slotVars, kernelEvent, exitEvent, changeEvent, main, opened, thread, status, info>>

Loaded == main = "running" /\ status = "infoLoaded"

\* What gamecardReadStorageArea checks first.
MayRead ==
    /\ status \in {"processing", "lafwUpdateRequired", "infoNotLoaded", "infoLoaded"}
    /\ normal # 0 /\ secure # 0

\* The next block of the image: gamecardReadStorage takes the lock.
Read ==
    /\ mutex = "free" /\ main = "running" /\ reader <= Len(BlockAreas) /\ todo = <<>>
    /\ MayRead
    /\ mutex' = "reader" /\ todo' = BlockAreas[reader]
    /\ UNCHANGED <<callerFrame, open, reader, got>>

\* A call fails and the dump with it; the user may start another one.
DumpFails == todo' = <<>> /\ reader' = 1 /\ got' = <<>>

ReadRefused ==
    /\ mutex = "free" /\ main = "running" /\ reader <= Len(BlockAreas) /\ todo = <<>>
    /\ ~MayRead
    /\ DumpFails
    /\ UNCHANGED <<callerFrame, mutex, open>>

\* The dump goes on with the block behind the one it has read.
NextBlock == reader + 1

\* gamecardReadStorageArea, for the part in one area.
ReadArea ==
    /\ mutex = "reader"
    /\ \/ /\ OpenStorageArea(Head(todo)) /\ Readable
          /\ got' = Append(got, <<content[slot], area'>>)
          /\ todo' = Tail(todo)
          /\ IF Len(todo) > 1 THEN UNCHANGED <<mutex, reader>>
             ELSE mutex' = "free" /\ reader' = NextBlock
       \/ /\ OpenStorageArea(Head(todo)) \/ OpenFails(Head(todo))
          /\ mutex' = "free" /\ DumpFails
    /\ UNCHANGED callerFrame

\* gamecardGetSecurityInformation opens the secure area.
GetSecurityInformation ==
    /\ mutex = "free" /\ Loaded
    /\ OpenStorageArea("secure") \/ OpenFails("secure")
    /\ UNCHANGED <<callerFrame, mutex, readVars>>

Caller == Read \/ ReadRefused \/ ReadArea \/ GetSecurityInformation
-----------------------------------------------------------------------------
Next == Insert \/ Eject \/ Detection \/ Initialize \/ Exit \/ ExitJoined \/ Caller

Spec == Init /\ [][Next]_vars

\* The threads are scheduled and the FS calls return; a mutex goes to a thread
\* that waits for it again and again.
FairSpec ==
    /\ Spec
    /\ WF_vars(ThreadWakes \/ ThreadDelay \/ LoadInfo \/ ThreadLeaves \/ ThreadEnds)
    /\ SF_vars(ThreadBegin \/ ThreadChange)
    /\ WF_vars(ReadArea) /\ WF_vars(ExitJoined)
-----------------------------------------------------------------------------
(***************************************************************************)
(* Properties.                                                             *)
(***************************************************************************)

\* Once the detection thread waits and no change is pending, the status and
\* the cached information are those of the card that is in the slot.
InfoIsCurrent ==
    thread = "wait" /\ ~kernelEvent =>
        /\ status = "notInserted" <=> slot = 0
        /\ status # "processing"
        /\ status = "infoLoaded" => header = slot /\ normal = slot /\ secure = slot /\ hfs = slot

\* Even while a swap is still unnoticed, the cached header and Hash FS contexts
\* never belong to different cards.
LoadedIsOneCard == status = "infoLoaded" => content[header] = content[hfs]

\* However callers and the detection thread switch between the two areas, a
\* dump that ends has read each part from its own area, in order.
DumpReadsItsAreas ==
    reader > Len(BlockAreas) =>
        [i \in DOMAIN got |-> got[i][2]] = <<"normal", "normal", "secure", "secure">>

\* gamecardExit leaves no cached information, open storage or status behind.
ExitIsClean ==
    main = "exited" =>
        /\ opened = 0 /\ mutex = "free" /\ thread \in {"none", "ended"}
        /\ header = 0 /\ normal = 0 /\ secure = 0 /\ hfs = 0
        /\ area = "none" /\ storage = 0 /\ status = "notInserted"

\* A card that is processed ends up with a result, or out of the slot, unless
\* gamecardExit takes the mutex in between.
ProcessingEnds ==
    status = "processing" ~> (status # "processing" \/ main = "joining")

\* Two things that documentation says and the code does not keep.

\* gamecard_image_dump_task.hpp: a dump is made out of the inserted card.
DumpOfOneCard ==
    reader > Len(BlockAreas) => \A i \in DOMAIN got : got[i][1] = got[1][1]

\* gamecard.h: gamecardExit destroys the detection thread; it returns.
ExitReturns == main = "joining" ~> main = "exited"
=============================================================================
