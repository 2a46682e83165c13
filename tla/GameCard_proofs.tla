--------------------------- MODULE GameCard_proofs ---------------------------
(***************************************************************************)
(* Proofs about GameCard, for every set of cards and number of insertions. *)
(***************************************************************************)
EXTENDS GameCard, TLAPS

Holding == {"delay"} \cup Loading

\* Who runs, and who holds the mutex.
OwnerInv ==
    /\ thread \in Holding <=> mutex = "detect"
    /\ thread \in Holding => status = "processing"
    /\ main \in {"off", "failed"} => thread = "none"
    /\ main \in {"running", "joining"} => opened = 6 /\ thread # "none"
    /\ main = "exited" => thread \in {"none", "ended"} /\ opened = 0 /\ mutex = "free"
    /\ main = "joining" <=> mutex = "main"
    /\ exitEvent \/ thread = "leaving" => main = "joining"
    /\ thread = "ended" => main \in {"joining", "exited"}
    /\ thread \in {"leaving", "ended"} => ~exitEvent
    /\ mutex = "reader" => main = "running" /\ todo # <<>> /\ reader <= 3

\* While no change is pending, what was read came from the card in the slot.
FreshInv ==
    /\ thread \in Holding /\ ~kernelEvent => slot # 0
    /\ thread \in Holding \ {"delay", "open", "header"} =>
          header # 0 /\ (~kernelEvent => header = slot)
    /\ thread \in {"secure", "rootHfs", "normalHfs", "secureHfs"} /\ ~kernelEvent => normal = slot
    /\ thread \in {"rootHfs", "normalHfs", "secureHfs"} /\ ~kernelEvent => secure = slot
    /\ thread \in {"normalHfs", "secureHfs"} /\ ~kernelEvent => hfs = slot

\* What is cached, and when nothing is.
CacheInv ==
    /\ status = "infoLoaded" =>
          /\ thread \in {"wait", "woken", "leaving"}
          /\ content[header] = content[hfs]
    /\ thread \in {"none", "begin", "ended"} =>
          header = 0 /\ normal = 0 /\ secure = 0 /\ hfs = 0 /\ status = "notInserted"
    /\ thread \in {"none", "ended"} => area = "none"
    /\ area = "none" => storage = 0

IInv == TypeOK /\ OwnerInv /\ FreshInv /\ CacheInv /\ InfoIsCurrent

LEMMA Lengths == Len(Resources) = 6 /\ Len(BlockAreas) = 3
  BY DEF Resources, BlockAreas

LEMMA InsertNumbers == 0 \in Inserts /\ MaxInserts \in Nat
  BY GameCardAssumption DEF Inserts

LEMMA InitIInv == Init => IInv
  <1>. SUFFICES ASSUME Init PROVE IInv
    OBVIOUS
  <1>1. TypeOK
    <2>1. 0 \in 0..Len(Resources) /\ 1 \in 1..Len(BlockAreas) + 1
      BY Lengths
    <2>2. <<>> \in Seq(Areas) /\ <<>> \in Seq(Cards \X Areas)
      OBVIOUS
    <2>. QED
      BY <2>1, <2>2, InsertNumbers DEF Init, TypeOK, Statuses
  <1>2. OwnerInv /\ FreshInv /\ CacheInv /\ InfoIsCurrent
    BY DEF Init, OwnerInv, FreshInv, CacheInv, InfoIsCurrent, Holding, Loading
  <1>. QED
    BY <1>1, <1>2 DEF IInv

(***************************************************************************)
(* The user.                                                               *)
(***************************************************************************)

LEMMA SlotKeeps == IInv /\ (Insert \/ Eject) => IInv'
  <1>. SUFFICES ASSUME IInv, Insert \/ Eject PROVE IInv'
    OBVIOUS
  <1>1. /\ inserts' \in Inserts /\ slot' \in Inserts
        /\ UNCHANGED <<content, exitEvent, changeEvent, mutex, main, opened, thread, status, info,
                       open, readVars>>
    BY InsertNumbers DEF Insert, Eject, IInv, TypeOK, Inserts
  <1>2. kernelEvent' \in BOOLEAN /\ (opened = 6 => kernelEvent')
    <2>1. kernelEvent' = (kernelEvent \/ opened >= 4)
      BY DEF Insert, Eject, Notified
    <2>2. kernelEvent' \in BOOLEAN
      BY <2>1, Zenon
    <2>3. opened = 6 => opened >= 4
      OBVIOUS
    <2>4. opened = 6 => kernelEvent'
      BY <2>1, <2>3, Zenon
    <2>. QED
      BY <2>2, <2>4
  <1>3. thread \in {"wait", "woken"} \cup Holding => kernelEvent'
    BY <1>2 DEF IInv, OwnerInv, TypeOK, Holding, Loading
  <1>4. TypeOK'
    BY <1>1, <1>2 DEF IInv, TypeOK, info, open, readVars
  <1>5. OwnerInv'
    BY <1>1 DEF IInv, OwnerInv, info, open, readVars
  <1>6. FreshInv'
    BY <1>1, <1>3 DEF IInv, FreshInv, Holding, Loading, info, open
  <1>7. CacheInv' /\ InfoIsCurrent'
    BY <1>1, <1>3 DEF IInv, CacheInv, InfoIsCurrent, info, open
  <1>. QED
    BY <1>4, <1>5, <1>6, <1>7 DEF IInv

(***************************************************************************)
(* The detection thread outside gamecardLoadInfo.                          *)
(***************************************************************************)

LEMMA FreeInfoFrees ==
    ASSUME IInv, FreeInfo
    PROVE  /\ header' = 0 /\ normal' = 0 /\ secure' = 0 /\ hfs' = 0
           /\ area' = "none" /\ storage' = 0 /\ handle' \in Inserts
  BY InsertNumbers DEF FreeInfo, CloseStorageArea, open, IInv, TypeOK, CacheInv

LEMMA ThreadBeginKeeps == IInv /\ ThreadBegin => IInv'
  <1>. SUFFICES ASSUME IInv, ThreadBegin PROVE IInv'
    OBVIOUS
  <1>. USE DEF ThreadBegin, SignalChange, threadFrame, slotVars, info, open, readVars
  <1>1. TypeOK'
    BY DEF IInv, TypeOK, Loading, Statuses
  <1>2. OwnerInv'
    BY DEF IInv, OwnerInv, Holding, Loading
  <1>3. FreshInv' /\ CacheInv' /\ InfoIsCurrent'
    BY DEF IInv, FreshInv, CacheInv, InfoIsCurrent, Holding, Loading
  <1>. QED
    BY <1>1, <1>2, <1>3 DEF IInv

LEMMA ThreadWakesKeeps == IInv /\ ThreadWakes => IInv'
  <1>. SUFFICES ASSUME IInv, ThreadWakes PROVE IInv'
    OBVIOUS
  <1>. USE DEF ThreadWakes, threadFrame, slotVars, info, open, readVars
  <1>1. TypeOK'
    BY DEF IInv, TypeOK
  <1>2. OwnerInv'
    BY DEF IInv, OwnerInv, Holding, Loading
  <1>3. FreshInv' /\ CacheInv' /\ InfoIsCurrent'
    BY DEF IInv, FreshInv, CacheInv, InfoIsCurrent, Holding, Loading
  <1>. QED
    BY <1>1, <1>2, <1>3 DEF IInv

LEMMA ThreadChangeKeeps == IInv /\ ThreadChange => IInv'
  <1>. SUFFICES ASSUME IInv, ThreadChange PROVE IInv'
    OBVIOUS
  <1>1. /\ header' = 0 /\ normal' = 0 /\ secure' = 0 /\ hfs' = 0
        /\ area' = "none" /\ storage' = 0 /\ handle' \in Inserts
    BY FreeInfoFrees DEF ThreadChange
  <1>2. /\ thread = "woken" /\ mutex = "free" /\ UNCHANGED <<threadFrame, kernelEvent>>
        /\ slot # 0 => status' = "processing" /\ mutex' = "detect" /\ thread' = "delay"
                       /\ UNCHANGED changeEvent
        /\ slot = 0 => status' = "notInserted" /\ mutex' = "free" /\ thread' = "wait"
                       /\ changeEvent' = TRUE
    BY DEF ThreadChange, SlotStatus, SignalChange
  <1>. USE DEF threadFrame, slotVars, readVars
  <1>3. TypeOK'
    BY <1>1, <1>2, InsertNumbers DEF IInv, TypeOK, Statuses
  <1>4. OwnerInv'
    BY <1>2 DEF IInv, OwnerInv, Holding, Loading
  <1>5. FreshInv' /\ CacheInv' /\ InfoIsCurrent'
    BY <1>1, <1>2 DEF IInv, FreshInv, CacheInv, InfoIsCurrent, Holding, Loading
  <1>. QED
    BY <1>3, <1>4, <1>5 DEF IInv

LEMMA ThreadDelayKeeps == IInv /\ ThreadDelay => IInv'
  <1>. SUFFICES ASSUME IInv, ThreadDelay PROVE IInv'
    OBVIOUS
  <1>. USE DEF ThreadDelay, SignalChange, threadFrame, slotVars, info, open, readVars
  <1>1. TypeOK'
    BY DEF IInv, TypeOK, Loading
  <1>2. OwnerInv'
    BY DEF IInv, OwnerInv, Holding, Loading
  <1>3. FreshInv' /\ CacheInv' /\ InfoIsCurrent'
    BY DEF IInv, OwnerInv, FreshInv, CacheInv, InfoIsCurrent, Holding, Loading
  <1>. QED
    BY <1>1, <1>2, <1>3 DEF IInv

LEMMA ThreadEndKeeps == IInv /\ (ThreadLeaves \/ ThreadEnds) => IInv'
  <1>1. IInv /\ ThreadLeaves => IInv'
    <2>. SUFFICES ASSUME IInv, ThreadLeaves PROVE IInv'
      OBVIOUS
    <2>. USE DEF ThreadLeaves, slotVars, info, open, readVars
    <2>1. TypeOK'
      BY DEF IInv, TypeOK
    <2>2. OwnerInv'
      BY DEF IInv, OwnerInv, Holding, Loading
    <2>3. FreshInv' /\ CacheInv' /\ InfoIsCurrent'
      BY DEF IInv, FreshInv, CacheInv, InfoIsCurrent, Holding, Loading
    <2>. QED
      BY <2>1, <2>2, <2>3 DEF IInv
  <1>2. IInv /\ ThreadEnds => IInv'
    <2>. SUFFICES ASSUME IInv, ThreadEnds PROVE IInv'
      OBVIOUS
    <2>1. /\ header' = 0 /\ normal' = 0 /\ secure' = 0 /\ hfs' = 0
          /\ area' = "none" /\ storage' = 0 /\ handle' \in Inserts
      BY FreeInfoFrees DEF ThreadEnds, ThreadFrees
    <2>2. /\ thread = "leaving" /\ thread' = "ended" /\ status' = "notInserted"
          /\ UNCHANGED <<slotVars, kernelEvent, exitEvent, changeEvent, mutex, main, opened, readVars>>
      BY DEF ThreadEnds
    <2>. USE DEF slotVars, readVars
    <2>3. TypeOK'
      BY <2>1, <2>2, InsertNumbers DEF IInv, TypeOK, Statuses
    <2>4. OwnerInv'
      BY <2>2 DEF IInv, OwnerInv, Holding, Loading
    <2>5. FreshInv' /\ CacheInv' /\ InfoIsCurrent'
      BY <2>1, <2>2 DEF IInv, FreshInv, CacheInv, InfoIsCurrent, Holding, Loading
    <2>. QED
      BY <2>3, <2>4, <2>5 DEF IInv
  <1>. QED
    BY <1>1, <1>2

(***************************************************************************)
(* gamecardLoadInfo.                                                       *)
(***************************************************************************)

LEMMA LoadFailsKeeps ==
    ASSUME IInv, thread \in Loading, UNCHANGED <<threadFrame, kernelEvent>>,
           NEW st \in {"processing", "noGameCardPatch", "lafwUpdateRequired"},
           NEW h \in Inserts, LoadFails(st, h)
    PROVE  IInv'
  <1>1. /\ header' = 0 /\ normal' = 0 /\ secure' = 0 /\ hfs' = 0
        /\ area' = "none" /\ storage' = 0 /\ handle' \in Inserts
        /\ changeEvent' = TRUE /\ mutex' = "free" /\ thread' = "wait"
    BY DEF LoadFails, SignalChange
  <1>2. status' \in {"noGameCardPatch", "lafwUpdateRequired", "infoNotLoaded"}
    BY DEF LoadFails, FailedStatus
  <1>. USE DEF threadFrame, slotVars, readVars
  <1>3. TypeOK'
    BY <1>1, <1>2, InsertNumbers DEF IInv, TypeOK, Statuses
  <1>4. OwnerInv'
    BY <1>1, <1>2 DEF IInv, OwnerInv, Holding, Loading
  <1>5. FreshInv' /\ CacheInv' /\ InfoIsCurrent'
    BY <1>1, <1>2 DEF IInv, OwnerInv, FreshInv, CacheInv, InfoIsCurrent, Holding, Loading
  <1>. QED
    BY <1>3, <1>4, <1>5 DEF IInv

\* A step inside gamecardLoadInfo: only the cached values and the open area
\* change.
LEMMA LoadStepKeeps ==
    ASSUME IInv, thread \in Loading, thread' \in Loading \ {"open"},
           UNCHANGED <<threadFrame, kernelEvent, changeEvent, mutex, status>>,
           header' \in Inserts, normal' \in Inserts, secure' \in Inserts, hfs' \in Inserts,
           area' \in Areas \cup {"none"}, handle' \in Inserts, storage' \in Inserts,
           area' = "none" => storage' = 0,
           FreshInv'
    PROVE  IInv'
  <1>. USE DEF threadFrame, slotVars, readVars
  <1>1. TypeOK'
    BY DEF IInv, TypeOK
  <1>2. OwnerInv'
    BY DEF IInv, OwnerInv, Holding, Loading
  <1>3. CacheInv' /\ InfoIsCurrent'
    BY DEF IInv, OwnerInv, CacheInv, InfoIsCurrent, Holding, Loading
  <1>. QED
    BY <1>1, <1>2, <1>3 DEF IInv

LEMMA OpenTypes ==
    ASSUME IInv, NEW a \in Areas, OpenStorageArea(a)
    PROVE  area' = a /\ handle' \in Inserts /\ storage' \in Inserts
  BY DEF OpenStorageArea, IsOpen, open, IInv, TypeOK

LEMMA HandlesLeftTypes ==
    ASSUME IInv, NEW a \in Areas
    PROVE  HandlesLeft(a) \subseteq Inserts
  BY InsertNumbers DEF HandlesLeft, IInv, TypeOK

LEMMA LoadOpenKeeps == IInv /\ LoadOpen => IInv'
  <1>. SUFFICES ASSUME IInv, LoadOpen PROVE IInv'
    OBVIOUS
  <1>0. thread = "open" /\ UNCHANGED <<threadFrame, kernelEvent>> /\ thread \in Loading
        /\ "normal" \in Areas
    BY DEF LoadOpen, Loading, Areas
  <1>1. CASE /\ OpenStorageArea("normal") /\ thread' = "header"
             /\ UNCHANGED <<changeEvent, mutex, status, info>>
    <2>1. area' = "normal" /\ handle' \in Inserts /\ storage' \in Inserts
      BY <1>0, <1>1, OpenTypes
    <2>2. FreshInv'
      BY <1>0, <1>1 DEF IInv, FreshInv, Holding, Loading, threadFrame, slotVars
    <2>. QED
      BY <1>0, <1>1, <2>1, <2>2, LoadStepKeeps DEF info, IInv, TypeOK, Areas, Loading
  <1>2. CASE \E h \in HandlesLeft("normal") : LoadFails("noGameCardPatch", h)
    BY <1>0, <1>2, LoadFailsKeeps, HandlesLeftTypes
  <1>. QED
    BY <1>1, <1>2 DEF LoadOpen

LEMMA LoadHeaderKeeps == IInv /\ LoadHeader => IInv'
  <1>. SUFFICES ASSUME IInv, LoadHeader PROVE IInv'
    OBVIOUS
  <1>0. /\ thread = "header" /\ UNCHANGED <<threadFrame, kernelEvent>> /\ thread \in Loading
        /\ status = "processing" /\ 0 \in Inserts
    BY InsertNumbers DEF LoadHeader, Loading, IInv, OwnerInv, Holding
  <1>1. CASE /\ UNCHANGED open /\ Readable
             /\ header' = storage /\ thread' = "normal"
             /\ UNCHANGED <<changeEvent, mutex, status, normal, secure, hfs>>
    <2>1. storage = slot /\ slot # 0
      BY <1>1 DEF Readable, open
    <2>2. FreshInv'
      BY <1>0, <1>1, <2>1 DEF IInv, FreshInv, Holding, Loading, threadFrame, slotVars
    <2>. QED
      BY <1>0, <1>1, <2>2, LoadStepKeeps DEF open, IInv, TypeOK, CacheInv, Loading
  <1>2. CASE LoadFails(status, 0) \/ LoadFails("lafwUpdateRequired", 0)
    BY <1>0, <1>2, LoadFailsKeeps DEF LoadFails, FailedStatus
  <1>. QED
    BY <1>1, <1>2 DEF LoadHeader

LEMMA LoadSizeKeeps ==
    ASSUME IInv, NEW a, NEW next, <<a, next>> \in {<<"normal", "secure">>, <<"secure", "rootHfs">>},
           LoadSize(a, next)
    PROVE  IInv'
  <1>0. /\ a \in Areas /\ thread = a /\ UNCHANGED <<threadFrame, kernelEvent>>
        /\ thread \in Loading /\ status = "processing" /\ 0 \in Inserts
    BY InsertNumbers DEF LoadSize, Loading, IInv, OwnerInv, Holding, Areas
  <1>1. CASE /\ slot # 0 /\ (IsOpen(a) => storage = slot)
             /\ IF a = "normal" THEN normal' = slot /\ UNCHANGED secure
                ELSE secure' = slot /\ UNCHANGED normal
             /\ area' = "none" /\ handle' = 0 /\ storage' = 0 /\ thread' = next
             /\ UNCHANGED <<changeEvent, mutex, status, header, hfs>>
    <2>1. FreshInv'
      BY <1>0, <1>1 DEF IInv, FreshInv, Holding, Loading, threadFrame, slotVars
    <2>2. normal' \in Inserts /\ secure' \in Inserts /\ header' \in Inserts /\ hfs' \in Inserts
      BY <1>1 DEF IInv, TypeOK
    <2>3. thread' \in Loading \ {"open"}
      BY <1>1 DEF Loading
    <2>. QED
      BY <1>0, <1>1, <2>1, <2>2, <2>3, LoadStepKeeps
  <1>2. CASE \E h \in HandlesLeft(a) : LoadFails(status, h)
    <2>1. PICK h \in HandlesLeft(a) : LoadFails("processing", h)
      BY <1>0, <1>2 DEF LoadFails, FailedStatus
    <2>. QED
      BY <1>0, <2>1, LoadFailsKeeps, HandlesLeftTypes
  <1>. QED
    BY <1>1, <1>2 DEF LoadSize

LEMMA LoadHfsKeeps ==
    ASSUME IInv, NEW at, NEW a, NEW next,
           <<at, a, next>> \in {<<"rootHfs", "normal", "normalHfs">>,
                                <<"normalHfs", "normal", "secureHfs">>,
                                <<"secureHfs", "secure", "wait">>},
           LoadHfs(at, a, next)
    PROVE  IInv'
  <1>0. /\ a \in Areas /\ thread = at /\ UNCHANGED <<threadFrame, kernelEvent>>
        /\ thread \in Loading /\ status = "processing" /\ 0 \in Inserts
    BY InsertNumbers DEF LoadHfs, Loading, IInv, OwnerInv, Holding, Areas
  <1>1. CASE /\ OpenStorageArea(a) /\ Readable /\ HashMatches
             /\ hfs' = slot
             /\ IF next = "wait" THEN status' = "infoLoaded" /\ SignalChange
                ELSE thread' = next /\ UNCHANGED <<status, changeEvent, mutex>>
             /\ UNCHANGED <<header, normal, secure>>
    <2>1. area' = a /\ handle' \in Inserts /\ storage' \in Inserts
      BY <1>0, <1>1, OpenTypes
    <2>2. normal' \in Inserts /\ secure' \in Inserts /\ header' \in Inserts /\ hfs' \in Inserts
      BY <1>1 DEF IInv, TypeOK
    <2>3. slot # 0
      BY <1>1, <2>1 DEF Readable
    <2>4. CASE next # "wait"
      <3>1. FreshInv'
        BY <1>0, <1>1, <2>3, <2>4 DEF IInv, FreshInv, Holding, Loading, threadFrame, slotVars
      <3>2. thread' \in Loading \ {"open"}
        BY <1>1, <2>4 DEF Loading
      <3>3. area' \in Areas \cup {"none"} /\ area' # "none"
        BY <1>0, <2>1 DEF Areas
      <3>. QED
        BY <1>0, <1>1, <2>1, <2>2, <2>4, <3>1, <3>2, <3>3, LoadStepKeeps
    <2>5. CASE next = "wait"
      <3>1. /\ status' = "infoLoaded" /\ changeEvent' = TRUE /\ mutex' = "free"
            /\ thread' = "wait" /\ at = "secureHfs" /\ a = "secure"
        BY <1>1, <2>5 DEF SignalChange
      <3>. USE DEF threadFrame, slotVars, readVars
      <3>2. TypeOK'
        BY <1>0, <2>1, <2>2, <3>1 DEF IInv, TypeOK, Statuses, Areas
      <3>3. OwnerInv'
        BY <1>0, <3>1 DEF IInv, OwnerInv, Holding, Loading
      <3>4. FreshInv'
        BY <3>1 DEF FreshInv, Holding, Loading
      <3>5. CacheInv'
        BY <1>0, <1>1, <2>1, <3>1 DEF CacheInv, HashMatches
      <3>6. InfoIsCurrent'
        BY <1>0, <1>1, <2>3, <3>1 DEF IInv, FreshInv, InfoIsCurrent, Holding, Loading
      <3>. QED
        BY <3>2, <3>3, <3>4, <3>5, <3>6 DEF IInv
    <2>. QED
      BY <2>4, <2>5
  <1>2. CASE \E h \in HandlesLeft(a) : LoadFails(status, h)
    <2>1. PICK h \in HandlesLeft(a) : LoadFails("processing", h)
      BY <1>0, <1>2 DEF LoadFails, FailedStatus
    <2>. QED
      BY <1>0, <2>1, LoadFailsKeeps, HandlesLeftTypes
  <1>. QED
    BY <1>1, <1>2 DEF LoadHfs

LEMMA LoadInfoKeeps == IInv /\ LoadInfo => IInv'
  <1>. SUFFICES ASSUME IInv, LoadInfo PROVE IInv'
    OBVIOUS
  <1>1. CASE LoadSize("normal", "secure") \/ LoadSize("secure", "rootHfs")
    BY <1>1, LoadSizeKeeps
  <1>2. CASE \/ LoadHfs("rootHfs", "normal", "normalHfs")
             \/ LoadHfs("normalHfs", "normal", "secureHfs")
             \/ LoadHfs("secureHfs", "secure", "wait")
    BY <1>2, LoadHfsKeeps
  <1>. QED
    BY <1>1, <1>2, LoadOpenKeeps, LoadHeaderKeeps DEF LoadInfo

(***************************************************************************)
(* The application.                                                        *)
(***************************************************************************)

LEMMA InitializeKeeps == IInv /\ Initialize => IInv'
  <1>. SUFFICES ASSUME IInv, Initialize PROVE IInv'
    OBVIOUS
  <1>1. PICK n \in 0..6 :
          /\ opened' = n
          /\ main' = IF n = 6 THEN "running" ELSE "failed"
          /\ thread' = IF n = 6 THEN "begin" ELSE "none"
    BY Lengths DEF Initialize
  <1>2. thread = "none" /\ main = "off" /\ mutex = "free" /\ exitEvent = FALSE
    BY DEF Initialize, IInv, TypeOK, OwnerInv
  <1>. USE DEF Initialize, slotVars, info, open, readVars
  <1>3. TypeOK'
    BY <1>1, Lengths DEF IInv, TypeOK
  <1>4. OwnerInv'
    BY <1>1, <1>2 DEF IInv, OwnerInv, Holding, Loading
  <1>5. FreshInv' /\ CacheInv' /\ InfoIsCurrent'
    BY <1>1, <1>2 DEF IInv, FreshInv, CacheInv, InfoIsCurrent, Holding, Loading
  <1>. QED
    BY <1>3, <1>4, <1>5 DEF IInv

LEMMA ExitKeeps == IInv /\ (Exit \/ ExitJoined) => IInv'
  <1>. SUFFICES ASSUME IInv, Exit \/ ExitJoined PROVE IInv'
    OBVIOUS
  <1>1. UNCHANGED <<slotVars, kernelEvent, changeEvent, thread, status, info, open, readVars>>
    BY DEF Exit, ExitJoined
  <1>. USE DEF slotVars, info, open, readVars
  <1>2. /\ main' \in {"exited", "joining"} /\ opened' \in {opened, 0}
        /\ mutex' \in {"free", "main"} /\ exitEvent' \in BOOLEAN
    BY DEF Exit, ExitJoined, IInv, TypeOK
  <1>3. TypeOK'
    BY <1>1, <1>2, Lengths DEF IInv, TypeOK
  <1>4. OwnerInv'
    BY <1>1, Lengths DEF Exit, ExitJoined, IInv, OwnerInv, TypeOK, Holding, Loading
  <1>5. FreshInv' /\ CacheInv' /\ InfoIsCurrent'
    BY <1>1 DEF IInv, FreshInv, CacheInv, InfoIsCurrent, Holding, Loading
  <1>. QED
    BY <1>3, <1>4, <1>5 DEF IInv

\* A caller changes the open area and its own state only.
LEMMA CallerStepKeeps ==
    ASSUME IInv, UNCHANGED callerFrame, main = "running",
           mutex \in {"free", "reader"}, mutex' \in {"free", "reader"},
           area' \in Areas \cup {"none"}, handle' \in Inserts, storage' \in Inserts,
           area' = "none" => storage' = 0,
           reader' \in 1..4, todo' \in Seq(Areas), got' \in Seq(Cards \X Areas),
           mutex' = "reader" => todo' # <<>> /\ reader' <= 3
    PROVE  IInv'
  <1>. USE DEF callerFrame, slotVars, info
  <1>0. thread \notin Holding \cup {"none", "ended"}
    BY DEF IInv, OwnerInv
  <1>1. TypeOK'
    BY Lengths DEF IInv, TypeOK
  <1>2. OwnerInv'
    BY <1>0 DEF IInv, OwnerInv
  <1>3. FreshInv' /\ CacheInv' /\ InfoIsCurrent'
    BY <1>0 DEF IInv, FreshInv, CacheInv, InfoIsCurrent, Holding, Loading
  <1>. QED
    BY <1>1, <1>2, <1>3 DEF IInv

LEMMA OpenFailsTypes ==
    ASSUME IInv, NEW a \in Areas, OpenFails(a)
    PROVE  area' = "none" /\ handle' \in Inserts /\ storage' = 0
  BY InsertNumbers DEF OpenFails, IInv, TypeOK

LEMMA CallerKeeps == IInv /\ Caller => IInv'
  <1>. SUFFICES ASSUME IInv, Caller PROVE IInv'
    OBVIOUS
  <1>. USE Lengths
  <1>0. /\ area \in Areas \cup {"none"} /\ handle \in Inserts /\ storage \in Inserts
        /\ (area = "none" => storage = 0) /\ reader \in 1..4 /\ todo \in Seq(Areas)
        /\ got \in Seq(Cards \X Areas) /\ 0 \in Inserts /\ "none" \notin Areas
    BY InsertNumbers DEF IInv, TypeOK, CacheInv, Areas
  <1>1. CASE Read
    <2>1. BlockAreas[reader] \in Seq(Areas) /\ BlockAreas[reader] # <<>> /\ reader <= 3
      <3>1. reader \in {1, 2, 3}
        BY <1>0, <1>1 DEF Read
      <3>2. /\ BlockAreas[1] = <<"normal">> /\ BlockAreas[2] = <<"normal", "secure">>
            /\ BlockAreas[3] = <<"secure">>
        BY DEF BlockAreas
      <3>3. /\ <<"normal">> \in Seq(Areas) /\ <<"normal", "secure">> \in Seq(Areas)
            /\ <<"secure">> \in Seq(Areas)
        BY DEF Areas
      <3>4. <<"normal">> # <<>> /\ <<"normal", "secure">> # <<>> /\ <<"secure">> # <<>>
        OBVIOUS
      <3>5. reader <= 3
        BY <3>1
      <3>6. CASE reader = 1
        BY <3>2, <3>3, <3>4, <3>5, <3>6, Zenon
      <3>7. CASE reader = 2
        BY <3>2, <3>3, <3>4, <3>5, <3>7, Zenon
      <3>8. CASE reader = 3
        BY <3>2, <3>3, <3>4, <3>5, <3>8, Zenon
      <3>. QED
        BY <3>1, <3>6, <3>7, <3>8
    <2>. QED
      BY <1>0, <1>1, <2>1, CallerStepKeeps DEF Read, open
  <1>2. CASE ReadRefused
    <2>1. todo' \in Seq(Areas) /\ got' \in Seq(Cards \X Areas) /\ reader' \in 1..4
      BY <1>2 DEF ReadRefused, DumpFails
    <2>. QED
      BY <1>0, <1>2, <2>1, CallerStepKeeps DEF ReadRefused, open
  <1>3. CASE ReadArea
    <2>0. /\ mutex = "reader" /\ main = "running" /\ todo # <<>> /\ reader <= 3
          /\ UNCHANGED callerFrame /\ Head(todo) \in Areas
      BY <1>0, <1>3 DEF ReadArea, IInv, OwnerInv
    <2>1. CASE /\ OpenStorageArea(Head(todo)) /\ Readable
               /\ got' = Append(got, <<content[slot], area'>>)
               /\ todo' = Tail(todo)
               /\ IF Len(todo) > 1 THEN UNCHANGED <<mutex, reader>>
                  ELSE mutex' = "free" /\ reader' = NextBlock
      <3>1. area' = Head(todo) /\ handle' \in Inserts /\ storage' \in Inserts
        BY <2>0, <2>1, OpenTypes
      <3>2. slot \in 1..MaxInserts
        BY <2>1, InsertNumbers DEF Readable, IInv, TypeOK, Inserts
      <3>3. content[slot] \in Cards
        BY <3>2 DEF IInv, TypeOK
      <3>4. got' \in Seq(Cards \X Areas)
        BY <1>0, <2>0, <2>1, <3>1, <3>3
      <3>5. todo' \in Seq(Areas) /\ (mutex' = "reader" => todo' # <<>>)
        BY <1>0, <2>0, <2>1, SMTT(30)
      <3>6. reader' \in 1..4 /\ (mutex' = "reader" => reader' <= 3)
        BY <1>0, <2>0, <2>1 DEF NextBlock
      <3>7. mutex' \in {"free", "reader"}
        BY <2>0, <2>1
      <3>8. area' \in Areas \cup {"none"} /\ area' # "none"
        BY <1>0, <2>0, <3>1
      <3>. QED
        BY <2>0, <3>1, <3>4, <3>5, <3>6, <3>7, <3>8, CallerStepKeeps
    <2>2. CASE /\ OpenStorageArea(Head(todo)) \/ OpenFails(Head(todo))
               /\ mutex' = "free" /\ DumpFails
      <3>1. /\ area' \in Areas \cup {"none"} /\ handle' \in Inserts /\ storage' \in Inserts
            /\ area' = "none" => storage' = 0
        BY <1>0, <2>0, <2>2, OpenTypes, OpenFailsTypes
      <3>2. todo' \in Seq(Areas) /\ got' \in Seq(Cards \X Areas) /\ reader' \in 1..4
        BY <2>2 DEF DumpFails
      <3>. QED
        BY <2>0, <2>2, <3>1, <3>2, CallerStepKeeps
    <2>. QED
      BY <1>3, <2>1, <2>2 DEF ReadArea
  <1>4. CASE GetSecurityInformation
    <2>1. /\ area' \in Areas \cup {"none"} /\ handle' \in Inserts /\ storage' \in Inserts
          /\ area' = "none" => storage' = 0
      <3>1. "secure" \in Areas
        BY DEF Areas
      <3>. QED
        BY <1>0, <1>4, <3>1, OpenTypes, OpenFailsTypes DEF GetSecurityInformation
    <2>. QED
      BY <1>0, <1>4, <2>1, CallerStepKeeps DEF GetSecurityInformation, Loaded, readVars
  <1>. QED
    BY <1>1, <1>2, <1>3, <1>4 DEF Caller

(***************************************************************************)
(* The theorems.                                                           *)
(***************************************************************************)

LEMMA NextKeeps == IInv /\ [Next]_vars => IInv'
  <1>. SUFFICES ASSUME IInv, [Next]_vars PROVE IInv'
    OBVIOUS
  <1>1. CASE Detection
    BY <1>1, ThreadBeginKeeps, ThreadWakesKeeps, ThreadChangeKeeps, ThreadDelayKeeps,
       LoadInfoKeeps, ThreadEndKeeps DEF Detection
  <1>2. CASE UNCHANGED vars
    <2>. USE <1>2 DEF vars, slotVars, info, open, readVars
    <2>1. TypeOK'
      BY DEF IInv, TypeOK
    <2>2. OwnerInv'
      BY DEF IInv, OwnerInv
    <2>3. FreshInv' /\ CacheInv' /\ InfoIsCurrent'
      BY DEF IInv, FreshInv, CacheInv, InfoIsCurrent
    <2>. QED
      BY <2>1, <2>2, <2>3 DEF IInv
  <1>. QED
    BY <1>1, <1>2, SlotKeeps, InitializeKeeps, ExitKeeps, CallerKeeps DEF Next

(***************************************************************************)
(* A dump and the areas it reads.                                          *)
(***************************************************************************)

DumpAreas == <<"normal", "normal", "secure", "secure">>

\* How far a dump is: the block it is at, what is left of it and the parts it has.
DumpAt(block, left, parts) == reader = block /\ todo = left /\ Len(got) = parts
DumpInv ==
    /\ \A i \in 1..Len(got) : got[i][2] = DumpAreas[i]
    /\ \/ DumpAt(1, <<>>, 0) \/ DumpAt(1, <<"normal">>, 0)
       \/ DumpAt(2, <<>>, 1) \/ DumpAt(2, <<"normal", "secure">>, 1) \/ DumpAt(2, <<"secure">>, 2)
       \/ DumpAt(3, <<>>, 3) \/ DumpAt(3, <<"secure">>, 3)
       \/ DumpAt(4, <<>>, 4)

LEMMA AppendFacts ==
    ASSUME NEW S, NEW s \in Seq(S), NEW e \in S
    PROVE  /\ Len(Append(s, e)) = Len(s) + 1 /\ Append(s, e)[Len(s) + 1] = e
           /\ \A i \in 1..Len(s) : Append(s, e)[i] = s[i]
  OBVIOUS

LEMMA TodoFacts ==
    /\ Head(<<"normal">>) = "normal" /\ Tail(<<"normal">>) = <<>> /\ Len(<<"normal">>) = 1
    /\ Head(<<"secure">>) = "secure" /\ Tail(<<"secure">>) = <<>> /\ Len(<<"secure">>) = 1
    /\ Head(<<"normal", "secure">>) = "normal" /\ Tail(<<"normal", "secure">>) = <<"secure">>
    /\ Len(<<"normal", "secure">>) = 2
    /\ <<"normal">> # <<>> /\ <<"secure">> # <<>> /\ <<"normal", "secure">> # <<>>
  OBVIOUS

LEMMA InitDumpInv == Init => DumpInv
  BY DEF Init, DumpInv, DumpAt

LEMMA ReadAreaKeepsDump == IInv /\ IInv' /\ DumpInv /\ ReadArea => DumpInv'
  <1>. SUFFICES ASSUME IInv, IInv', DumpInv, ReadArea PROVE DumpInv'
    OBVIOUS
  <1>1. CASE DumpFails
    BY <1>1 DEF DumpFails, DumpInv, DumpAt
  <1>2. CASE ~DumpFails
    <2>1. /\ OpenStorageArea(Head(todo)) /\ todo' = Tail(todo)
          /\ got' = Append(got, <<content[slot], area'>>)
          /\ IF Len(todo) > 1 THEN reader' = reader ELSE reader' = reader + 1
          /\ mutex = "reader" /\ Readable /\ slot' = slot /\ content' = content
      BY <1>2 DEF ReadArea, NextBlock, callerFrame, slotVars
    <2>2. area' = Head(todo)
      BY <2>1 DEF OpenStorageArea, IsOpen, open
    <2>3. todo # <<>>
      BY <2>1 DEF IInv, OwnerInv
    <2>4. slot \in 1..MaxInserts
      BY <2>1, GameCardAssumption DEF Readable, IInv, TypeOK, Inserts
    <2>5. content[slot] \in Cards /\ got \in Seq(Cards \X Areas)
      BY <2>4 DEF IInv, TypeOK
    <2>6. Head(todo) \in Areas
      BY <2>3, TodoFacts DEF DumpInv, DumpAt, Areas
    <2>7. <<content[slot], area'>> \in Cards \X Areas
      BY <2>2, <2>5, <2>6
    <2>8. /\ Len(got') = Len(got) + 1 /\ got'[Len(got) + 1] = <<content[slot], area'>>
          /\ \A i \in 1..Len(got) : got'[i] = got[i]
      BY <2>1, <2>5, <2>7, AppendFacts
    <2>9. got'[Len(got) + 1][2] = Head(todo)
      BY <2>2, <2>8
    <2>10. Len(got) \in Nat
      BY <2>5
    <2>11. Head(todo) = DumpAreas[Len(got) + 1]
      BY <2>3, TodoFacts DEF DumpInv, DumpAt, DumpAreas
    <2>12. \A i \in 1..Len(got') : got'[i][2] = DumpAreas[i]
      BY <2>8, <2>9, <2>10, <2>11 DEF DumpInv
    <2>13. \/ DumpAt(2, <<>>, 1)' \/ DumpAt(2, <<"secure">>, 2)'
           \/ DumpAt(3, <<>>, 3)' \/ DumpAt(4, <<>>, 4)'
      <3>1. CASE DumpAt(1, <<"normal">>, 0)
        <4>1. reader' = 2 /\ todo' = <<>> /\ Len(got') = 1
          BY <2>1, <2>8, <3>1, TodoFacts DEF DumpAt
        <4>. QED
          BY <4>1 DEF DumpAt
      <3>2. CASE DumpAt(2, <<"normal", "secure">>, 1)
        <4>1. reader' = 2 /\ todo' = <<"secure">> /\ Len(got') = 2
          BY <2>1, <2>8, <3>2, TodoFacts DEF DumpAt
        <4>. QED
          BY <4>1 DEF DumpAt
      <3>3. CASE DumpAt(2, <<"secure">>, 2)
        <4>1. reader' = 3 /\ todo' = <<>> /\ Len(got') = 3
          BY <2>1, <2>8, <3>3, TodoFacts DEF DumpAt
        <4>. QED
          BY <4>1 DEF DumpAt
      <3>4. CASE DumpAt(3, <<"secure">>, 3)
        <4>1. reader' = 4 /\ todo' = <<>> /\ Len(got') = 4
          BY <2>1, <2>8, <3>4, TodoFacts DEF DumpAt
        <4>. QED
          BY <4>1 DEF DumpAt
      <3>. QED
        BY <2>3, <3>1, <3>2, <3>3, <3>4 DEF DumpInv, DumpAt
    <2>. QED
      BY <2>12, <2>13 DEF DumpInv
  <1>. QED
    BY <1>1, <1>2

LEMMA NextKeepsDump == IInv /\ IInv' /\ DumpInv /\ [Next]_vars => DumpInv'
  <1>. SUFFICES ASSUME IInv, IInv', DumpInv, [Next]_vars PROVE DumpInv'
    OBVIOUS
  <1>1. CASE ReadArea
    BY <1>1, ReadAreaKeepsDump
  <1>2. CASE ReadRefused
    BY <1>2 DEF ReadRefused, DumpFails, DumpInv, DumpAt
  <1>3. CASE Read
    BY <1>3, TodoFacts DEF Read, DumpInv, DumpAt, BlockAreas
  <1>4. CASE UNCHANGED readVars
    BY <1>4 DEF readVars, DumpInv, DumpAt
  <1>5. UNCHANGED readVars \/ Read \/ ReadRefused \/ ReadArea
    BY DEF Next, Detection, ThreadBegin, ThreadWakes, ThreadChange, ThreadDelay, LoadInfo, LoadOpen,
       LoadHeader, LoadSize, LoadHfs, ThreadLeaves, ThreadEnds, Insert, Eject, Initialize, Exit,
       ExitJoined, Caller, GetSecurityInformation, threadFrame, vars
  <1>. QED
    BY <1>1, <1>2, <1>3, <1>4, <1>5

LEMMA CardInvariant == Spec => []IInv
  <1>. QED
    BY InitIInv, NextKeeps, PTL DEF Spec

\* Every variable of the game card interface keeps its type.
THEOREM TypeCorrect == Spec => []TypeOK
  <1>1. IInv => TypeOK
    BY DEF IInv
  <1>. QED
    BY <1>1, CardInvariant, PTL

\* However cards are swapped, an idle detection thread with no change pending
\* has cached the card that is in the slot.
THEOREM InfoIsAlwaysCurrent == Spec => []InfoIsCurrent
  <1>1. IInv => InfoIsCurrent
    BY DEF IInv
  <1>. QED
    BY <1>1, CardInvariant, PTL

\* The header and the Hash FS contexts of a loaded card are of one card.
THEOREM LoadedIsAlwaysOneCard == Spec => []LoadedIsOneCard
  <1>1. IInv => LoadedIsOneCard
    BY DEF IInv, CacheInv, LoadedIsOneCard
  <1>. QED
    BY <1>1, CardInvariant, PTL

\* A gamecardExit that returns has freed everything.
THEOREM ExitIsAlwaysClean == Spec => []ExitIsClean
  <1>1. IInv => ExitIsClean
    BY DEF IInv, OwnerInv, CacheInv, ExitIsClean
  <1>. QED
    BY <1>1, CardInvariant, PTL

\* A dump has read each part of the image from its own area, in order, whatever was
\* opened by the detection thread and other callers in between.
THEOREM DumpAlwaysReadsItsAreas == Spec => []DumpReadsItsAreas
  <1>1. IInv /\ DumpInv => DumpReadsItsAreas
    <2>. SUFFICES ASSUME IInv, DumpInv, reader > Len(BlockAreas)
                  PROVE  [i \in DOMAIN got |-> got[i][2]] = DumpAreas
      BY DEF DumpReadsItsAreas, DumpAreas
    <2>1. Len(got) = 4
      BY Lengths DEF DumpInv, DumpAt
    <2>2. DOMAIN got = 1..4
      BY <2>1 DEF IInv, TypeOK
    <2>3. \A i \in 1..4 : got[i][2] = DumpAreas[i]
      BY <2>1 DEF DumpInv
    <2>. QED
      BY <2>2, <2>3 DEF DumpAreas
  <1>. QED
    BY <1>1, InitDumpInv, NextKeepsDump, CardInvariant, PTL DEF Spec
=============================================================================
