------------------------ MODULE DumpPipeline_proofs ------------------------
(***************************************************************************)
(* Proofs about DumpPipeline, for every set of dumps: any number of files  *)
(* and of blocks, on a storage device or on a USB host.                    *)
(***************************************************************************)
EXTENDS DumpPipeline, TLAPS

\* Which threads run, and who holds g_fileMutex.
ThreadInv ==
    /\ mPc = "save" => rPc = "off" /\ wPc = "off" /\ ~cancelled
    /\ rPc \in {"begin", "file", "close", "open"} => Extracted
    /\ rPc \in {"lock", "asleep", "woken"} /\ rWait = "file" => Extracted
    /\ rPc = "off" => ~pending
    /\ mPc = "joinWriter" => rPc = "done"
    /\ mPc = "done" => rPc \in {"off", "done"} /\ wPc \in {"off", "done"}
    /\ mPc = "done" /\ wPc = "off" => ~cancelled
    /\ wPc = "off" => mPc \in {"save", "done"}
    /\ wPc \in {"locked", "write", "sleep"} => mutex = "writer"
    /\ writeError => wPc \in {"wake", "done"}

\* A block has been read and is, or will be, handed over.
HasBlock == rPc \in {"lock", "asleep", "woken"} /\ rWait = "block"

\* Blocks are counted, and the reader's buffer is not the writer's.
CountInv ==
    /\ written = Len(out)
    /\ pending => written + 2 <= next
    /\ written + 1 <= next
    /\ ~stale => (pending => written + 2 = next) /\ (~pending => written + 1 = next)
    /\ rPc = "read" \/ HasBlock => next <= TotalSize
    /\ data # buf
    /\ pending => data # 0
    /\ mPc \in {"joinReader", "joinWriter"} => written >= TotalSize \/ Failing

\* The reader has not given up too early: it may leave a block behind that is to be
\* written.
MayLeaveBlock == ~Extracted \/ stale \/ Failing
LeaveInv ==
    /\ rPc = "wakeEnd" => Failing
    /\ rPc \in {"end", "done"} => ~pending \/ MayLeaveBlock

\* As long as no block was overwritten, blocks are written in order, and one that was
\* freed is the last one.
Intact == written + (IF pending THEN 2 ELSE 1) = next
LastFreed(i) == rPc = "done" /\ ~pending /\ i = Len(out) /\ MayLeaveBlock
OrderInv ==
    Intact =>
        /\ \A i \in 1..Len(out) : out[i].b.block = i \/ LastFreed(i)
        /\ pending => bufs[data].block + 1 = next \/ (rPc = "done" /\ MayLeaveBlock)
        /\ HasBlock => bufs[buf].block = next

\* The file of a block stays open until it is written.
Trusted == ~stale /\ ~readError
FileInv ==
    /\ ~Extracted /\ mPc \notin {"save", "done"} => fp = 1
    /\ Extracted /\ (rPc \in {"check", "read", "wake"} \/ HasBlock) => fp = file
    /\ rPc = "read" \/ HasBlock => (Extracted => job.fileOf[next] = file)
    /\ rPc = "close" => ~pending \/ writeError \/ stale
    /\ rPc = "open" => ~pending \/ stale
    /\ ~stale /\ ~Failing /\ pending /\ wPc # "done" => fp = job.fileOf[next - 1]
    /\ Trusted /\ pending /\ wPc = "write" => to = job.fileOf[next - 1]

\* The result, and what the host knows.
ResultInv ==
    /\ success => mPc = "done" /\ wPc = "done"
    /\ wPc = "done" /\ job.usb => hostTold \/ written = TotalSize \/ readError \/ writeError

IInv == /\ TypeOK /\ ThreadInv /\ CountInv /\ LeaveInv /\ OrderInv /\ FileInv /\ ResultInv
        /\ SuccessIsComplete /\ BlocksReachTheirFile

\* What no step changes.
Fixed == /\ job' = job /\ TotalSize' = TotalSize /\ Extracted' = Extracted
         /\ TotalSize \in Nat /\ Extracted \in BOOLEAN /\ job.usb \in BOOLEAN

LEMMA JobTypes ==
    ASSUME TypeOK
    PROVE  /\ TotalSize \in Nat /\ Extracted \in BOOLEAN /\ job.usb \in BOOLEAN
           /\ ~Extracted => \A b \in 1..TotalSize : job.fileOf[b] = 1
  BY JobsAssumption DEF TypeOK, TotalSize, Extracted, Shapes

LEMMA JobStays == ASSUME IInv, job' = job PROVE Fixed
  BY JobTypes DEF IInv, Fixed, TotalSize, Extracted

LEMMA InitIInv == Init => IInv
<1> SUFFICES ASSUME Init PROVE IInv  OBVIOUS
<1>1. TypeOK
  <2>1. TotalSize \in Nat
    BY JobsAssumption DEF Init, TotalSize
  <2>2. bufs \in [1..2 -> Contents]
    BY DEF Init, Contents
  <2>3. out \in Seq([b : Contents, to : Nat])
    BY DEF Init
  <2>4. written \in 0..TotalSize /\ next \in 1..(TotalSize + 1)
    BY <2>1 DEF Init
  <2>5. /\ fp \in Nat /\ data \in 0..2 /\ file \in Nat /\ buf \in 1..2 /\ to \in Nat
        /\ job \in Jobs
    BY DEF Init
  <2> QED  BY <2>2, <2>3, <2>4, <2>5 DEF Init, TypeOK
<1>2. TotalSize \in Nat
  BY <1>1, JobTypes
<1> QED
  BY <1>1, <1>2
    DEF Init, IInv, ThreadInv, CountInv, LeaveInv, OrderInv, FileInv, ResultInv, HasBlock,
        Intact, LastFreed, MayLeaveBlock, Trusted, Failing, SuccessIsComplete,
        BlocksReachTheirFile

(***************************************************************************)
(* The save function and spanDumpThreads.                                  *)
(***************************************************************************)

LEMMA MainKeeps == IInv /\ Main => IInv'
<1> SUFFICES ASSUME IInv, Main PROVE IInv'  OBVIOUS
<1>1. Fixed
  BY JobStays DEF Main, Save, SaveFails, KeyAreaFails, MainTop, MainBody, MainCancels,
                  MainJoinsReader, MainJoinsWriter
<1> USE DEF IInv, TypeOK, Contents, ThreadInv, CountInv, LeaveInv, OrderInv, FileInv, ResultInv,
        SuccessIsComplete, BlocksReachTheirFile, HasBlock, Intact, LastFreed, MayLeaveBlock,
        Trusted, Failing, shared, reader, writer, main, world
<1> USE DEF Fixed
<1>2. CASE Save
  BY <1>1, <1>2 DEF Save
<1>3. CASE SaveFails
  BY <1>1, <1>3 DEF SaveFails
<1>4. CASE KeyAreaFails
  BY <1>1, <1>4 DEF KeyAreaFails
<1>5. CASE MainTop
  BY <1>1, <1>5 DEF MainTop
<1>6. CASE MainBody
  BY <1>1, <1>6 DEF MainBody
<1>7. CASE MainCancels
  BY <1>1, <1>7 DEF MainCancels
<1>8. CASE MainJoinsReader
  BY <1>1, <1>8 DEF MainJoinsReader
<1>9. CASE MainJoinsWriter
  <2>1. SuccessIsComplete'
    <3> SUFFICES ASSUME ~Failing
                 PROVE  /\ Len(out) = TotalSize
                        /\ \A i \in 1..TotalSize :
                              out[i].b.block = i \/ (i = TotalSize /\ (~Extracted \/ stale))
      BY <1>1, <1>9 DEF MainJoinsWriter
    <3>1. Len(out) = TotalSize /\ ~pending /\ written + 1 = next
      BY <1>1, <1>9 DEF MainJoinsWriter
    <3> QED  BY <1>1, <3>1
  <2> QED  BY <1>1, <1>9, <2>1 DEF MainJoinsWriter
<1> QED
  BY <1>2, <1>3, <1>4, <1>5, <1>6, <1>7, <1>8, <1>9 DEF Main

(***************************************************************************)
(* The read threads.                                                       *)
(***************************************************************************)

LEMMA ReadErrorKeeps ==
    ASSUME IInv, rPc \in {"start", "begin", "file", "open", "read"},
           NEW pc \in {"end", "wakeEnd"}, ReadErrorTo(pc)
    PROVE  IInv'
<1>1. Fixed
  BY JobStays DEF ReadErrorTo
<1> USE DEF IInv, TypeOK, Contents, ThreadInv, CountInv, LeaveInv, OrderInv, FileInv, ResultInv,
        SuccessIsComplete, BlocksReachTheirFile, HasBlock, Intact, LastFreed, MayLeaveBlock,
        Trusted, Failing, shared, reader, writer, main, world
<1> QED  BY <1>1 DEF Fixed, ReadErrorTo

\* A step of the reader that changes nothing but where it is.
LEMMA ReaderGoesKeeps ==
    ASSUME IInv, rPc \notin {"off", "done"},
           NEW pc \in {"begin", "file", "check", "read", "asleep", "finish", "end", "wakeEnd"},
           ReaderGoes(pc),
           pc \in {"begin", "file"} => Extracted,
           pc = "check" => ~Extracted,
           pc = "read" => rPc = "check" /\ MoreBlocks,
           pc = "asleep" => rPc = "lock",
           pc = "end" => ~Extracted \/ Failing,
           pc = "wakeEnd" => Failing
    PROVE  IInv'
<1>1. Fixed
  BY JobStays DEF ReaderGoes
<1> USE DEF IInv, TypeOK, Contents, ThreadInv, CountInv, LeaveInv, OrderInv, FileInv, ResultInv,
        SuccessIsComplete, BlocksReachTheirFile, HasBlock, Intact, LastFreed, MayLeaveBlock,
        Trusted, Failing, shared, reader, writer, main, world
<1> USE DEF Fixed, ReaderGoes
<1>2. TypeOK'
  BY <1>1
<1>3. FileInv'
  BY <1>1 DEF MoreBlocks
<1>4. CountInv'
  BY <1>1 DEF MoreBlocks
<1> QED  BY <1>1, <1>2, <1>3, <1>4

LEMMA ReaderWillWaitKeeps ==
    ASSUME IInv, rPc \notin {"off", "done"}, NEW for \in {"file", "last"},
           ReaderWillWait(for), for = "file" => rPc = "file"
    PROVE  IInv'
<1>1. Fixed
  BY JobStays DEF ReaderWillWait
<1> USE DEF IInv, TypeOK, Contents, ThreadInv, CountInv, LeaveInv, OrderInv, FileInv, ResultInv,
        SuccessIsComplete, BlocksReachTheirFile, HasBlock, Intact, LastFreed, MayLeaveBlock,
        Trusted, Failing, shared, reader, writer, main, world
<1> QED  BY <1>1 DEF Fixed, ReaderWillWait

LEMMA NextFileKeeps ==
    ASSUME IInv, rPc = "check", Extracted, rPc' = "file", file' = file + 1,
           UNCHANGED <<job, shared, mutex, rWait, next, buf, bufs, writer, main, world>>
    PROVE  IInv'
<1>1. Fixed
  BY JobStays
<1> USE DEF IInv, TypeOK, Contents, ThreadInv, CountInv, LeaveInv, OrderInv, FileInv, ResultInv,
        SuccessIsComplete, BlocksReachTheirFile, HasBlock, Intact, LastFreed, MayLeaveBlock,
        Trusted, Failing, shared, reader, writer, main, world
<1> QED  BY <1>1 DEF Fixed

LEMMA ReaderPlacesKeeps == IInv /\ ReaderPlaces => IInv'
<1> SUFFICES ASSUME IInv, ReaderPlaces PROVE IInv'  OBVIOUS
<1>1. Fixed
  BY JobStays DEF ReaderPlaces
<1> USE DEF IInv, TypeOK, Contents, ThreadInv, CountInv, LeaveInv, OrderInv, FileInv, ResultInv,
        SuccessIsComplete, BlocksReachTheirFile, HasBlock, Intact, LastFreed, MayLeaveBlock,
        Trusted, Failing, shared, reader, writer, main, world
<1> USE DEF Fixed, ReaderPlaces, ReaderProceeds, MustWait
<1>2. next <= TotalSize /\ next' = next + 1 /\ next \in Nat
  BY <1>1
<1>3. buf' \in 1..2 /\ buf' # data'
  BY DEF Swapped
<1>4. TypeOK'
  BY <1>1, <1>2, <1>3
<1>5. FileInv'
  <2>1. fp = job.fileOf[next]
    BY <1>1, <1>2, JobTypes
  <2>2. next' - 1 = next
    BY <1>2, SMTT(30)
  <2>3. wPc # "write"
    OBVIOUS
  <2> QED  BY <1>1, <2>1, <2>2, <2>3
<1>6. OrderInv'
  BY <1>1, <1>2, SMTT(30)
<1>7. CountInv'
  BY <1>1, <1>2, <1>3, SMTT(30)
<1>8. ThreadInv'
  BY <1>1
<1>9. LeaveInv' /\ ResultInv'
  BY <1>1
<1>10. SuccessIsComplete' /\ BlocksReachTheirFile'
  BY <1>1
<1> QED  BY <1>4, <1>5, <1>6, <1>7, <1>8, <1>9, <1>10

LEMMA ReaderReadsKeeps == IInv /\ ReaderReads => IInv'
<1> SUFFICES ASSUME IInv, ReaderReads PROVE IInv'  OBVIOUS
<1>1. CASE ReadErrorTo("wakeEnd")
  BY <1>1, ReadErrorKeeps DEF ReaderReads
<1>2. CASE ~ReadErrorTo("wakeEnd")
  <2>1. /\ bufs' = [bufs EXCEPT ![buf] = [block |-> next, file |-> file]]
        /\ rPc = "read" /\ rPc' = "lock" /\ rWait' = "block"
        /\ UNCHANGED <<job, shared, mutex, file, next, buf, writer, main, world>>
    BY <1>2 DEF ReaderReads
  <2>2. Fixed
    BY <2>1, JobStays
  <2>3. next \in Nat /\ file \in Nat /\ buf \in 1..2 /\ bufs \in [1..2 -> Contents]
    BY <2>2 DEF IInv, TypeOK, Fixed
  <2>4. bufs' \in [1..2 -> Contents] /\ bufs'[buf].block = next
    BY <2>1, <2>3 DEF Contents
  <2>5. pending => bufs'[data] = bufs[data]
    BY <2>1, <2>3 DEF IInv, TypeOK, CountInv
  <2> HIDE <1>2
  <2>6. TypeOK'
    BY <2>1, <2>2, <2>4 DEF IInv, TypeOK, Fixed, shared, writer, main, world
  <2>7. OrderInv'
    BY <2>1, <2>2, <2>4, <2>5
      DEF IInv, OrderInv, HasBlock, Intact, LastFreed, MayLeaveBlock, Failing, Fixed, shared,
          world
  <2> QED
    BY <2>1, <2>2, <2>6, <2>7
      DEF IInv, ThreadInv, CountInv, LeaveInv, FileInv, ResultInv, SuccessIsComplete,
          BlocksReachTheirFile, HasBlock, MayLeaveBlock, Trusted, Failing, Fixed, shared,
          writer, main, world
<1> QED  BY <1>1, <1>2

LEMMA ReaderKeeps == IInv /\ Reader => IInv'
<1> SUFFICES ASSUME IInv, Reader PROVE IInv'  OBVIOUS
<1>1. CASE ReaderPlaces
  BY <1>1, ReaderPlacesKeeps
<1>2. CASE ReaderReads
  BY <1>2, ReaderReadsKeeps
<1>3. CASE \/ rPc \in {"begin", "file", "open"} /\ ReadErrorTo("wakeEnd")
           \/ rPc = "start" /\ ReadErrorTo("end")
  BY <1>3, ReadErrorKeeps
<1>4. CASE ReaderStart
  <2>1. CASE TotalSize > 0 /\ ReaderGoes(IF Extracted THEN "begin" ELSE "check")
    BY <1>4, <2>1, ReaderGoesKeeps DEF ReaderStart
  <2> QED  BY <1>3, <1>4, <2>1 DEF ReaderStart
<1>5. CASE ReaderBegin
  BY <1>3, <1>5, ReaderGoesKeeps DEF ReaderBegin, IInv, ThreadInv
<1>6. CASE ReaderFile
  <2>1. CASE ReaderGoes("finish")
    BY <1>6, <2>1, ReaderGoesKeeps DEF ReaderFile
  <2>2. CASE cancelled /\ ReaderGoes("wakeEnd")
    BY <1>6, <2>2, ReaderGoesKeeps DEF ReaderFile, Failing
  <2>3. CASE ReaderWillWait("file")
    BY <1>6, <2>3, ReaderWillWaitKeeps DEF ReaderFile
  <2> QED  BY <1>3, <1>6, <2>1, <2>2, <2>3 DEF ReaderFile
<1>7. CASE ReaderCheck
  <2>1. CASE MoreBlocks /\ ReaderGoes(IF cancelled THEN "wakeEnd" ELSE "read")
    BY <1>7, <2>1, ReaderGoesKeeps DEF ReaderCheck, Failing
  <2>2. CASE ~Extracted /\ ReaderGoes("end")
    BY <1>7, <2>2, ReaderGoesKeeps DEF ReaderCheck
  <2>3. CASE ReaderGoes("finish")
    BY <1>7, <2>3, ReaderGoesKeeps DEF ReaderCheck
  <2>4. CASE /\ Extracted /\ rPc' = "file" /\ file' = file + 1
             /\ UNCHANGED <<job, shared, mutex, rWait, next, buf, bufs, writer, main, world>>
    BY <1>7, <2>4, NextFileKeeps DEF ReaderCheck
  <2> QED  BY <1>7, <2>1, <2>2, <2>3, <2>4 DEF ReaderCheck
<1>8. CASE ReaderWaits
  BY <1>8, ReaderGoesKeeps DEF ReaderWaits
<1>9. CASE ReaderFinishes
  <2>1. CASE (Failing \/ ~Extracted) /\ ReaderGoes("end")
    BY <1>9, <2>1, ReaderGoesKeeps DEF ReaderFinishes
  <2>2. CASE ReaderWillWait("last")
    BY <1>9, <2>2, ReaderWillWaitKeeps DEF ReaderFinishes
  <2> QED  BY <1>9, <2>1, <2>2 DEF ReaderFinishes
<1> USE DEF IInv, TypeOK, Contents, ThreadInv, CountInv, LeaveInv, OrderInv, FileInv, ResultInv,
        SuccessIsComplete, BlocksReachTheirFile, HasBlock, Intact, LastFreed, MayLeaveBlock,
        Trusted, Failing, shared, reader, writer, main, world
<1> USE DEF Fixed
<1>10. CASE ReaderCloses
  <2>1. Fixed
    BY <1>10, JobStays DEF ReaderCloses
  <2> QED  BY <1>10, <2>1 DEF ReaderCloses
<1>11. CASE ReaderOpens
  <2>1. CASE /\ fp' = file /\ rPc' = "check"
             /\ output' = IF job.usb THEN output ELSE "present"
             /\ UNCHANGED <<job, data, pending, written, readError, writeError, cancelled,
                            mutex, rWait, file, next, buf, bufs, writer, main, out, hostTold,
                            stale>>
    <3>1. Fixed
      BY <2>1, JobStays
    <3> QED  BY <1>11, <2>1, <3>1 DEF ReaderOpens
  <2> QED  BY <1>3, <1>11, <2>1 DEF ReaderOpens
<1>12. CASE ReaderGoesOn
  <2>1. Fixed
    BY <1>12, JobStays DEF ReaderGoesOn
  <2> QED  BY <1>12, <2>1, SMTT(30) DEF ReaderGoesOn, ReaderProceeds, MustWait, AfterWait
<1>13. CASE ReaderWakes
  <2>1. Fixed
    BY <1>13, JobStays DEF ReaderWakes
  <2> QED  BY <1>13, <2>1 DEF ReaderWakes, WakeWriter
<1>14. CASE ReaderEnds
  <2>1. Fixed
    BY <1>14, JobStays DEF ReaderEnds
  <2> QED  BY <1>14, <2>1, SMTT(30) DEF ReaderEnds
<1> QED
  BY <1>1, <1>2, <1>4, <1>5, <1>6, <1>7, <1>8, <1>9, <1>10, <1>11, <1>12, <1>13, <1>14
  DEF Reader

(***************************************************************************)
(* genericWriteThreadFunc.                                                 *)
(***************************************************************************)

LEMMA AppendFacts ==
    ASSUME NEW S, NEW s \in Seq(S), NEW e \in S
    PROVE  /\ Append(s, e) \in Seq(S) /\ Len(Append(s, e)) = Len(s) + 1
           /\ Append(s, e)[Len(s) + 1] = e
           /\ \A i \in 1..Len(s) : Append(s, e)[i] = s[i]
  OBVIOUS

\* The block in the slot is written behind the others.
LEMMA BlockIsAppended ==
    ASSUME IInv, WriterWrites, pending
    PROVE  /\ out' \in Seq([b : Contents, to : Nat]) /\ Len(out') = Len(out) + 1
           /\ out'[Len(out) + 1].b = bufs[data] /\ out'[Len(out) + 1].to = to
           /\ \A i \in 1..Len(out) : out'[i] = out[i]
<1> DEFINE b == [b |-> bufs[data], to |-> to]
<1>1. out' = Append(out, b)
  BY DEF WriterWrites
<1>2. data \in 1..2 /\ bufs \in [1..2 -> Contents] /\ to \in Nat
  BY DEF IInv, TypeOK, CountInv
<1>3. b \in [b : Contents, to : Nat] /\ out \in Seq([b : Contents, to : Nat])
  BY <1>2 DEF IInv, TypeOK
<1>4. b.b = bufs[data] /\ b.to = to
  OBVIOUS
<1> HIDE DEF b
<1> QED  BY <1>1, <1>3, <1>4, AppendFacts

LEMMA WriterWritesKeeps == IInv /\ WriterWrites => IInv'
<1> SUFFICES ASSUME IInv, WriterWrites PROVE IInv'  OBVIOUS
<1>1. Fixed
  BY JobStays DEF WriterWrites
<1>2. CASE ~pending
  <2>1. /\ out' = out /\ written' = written /\ pending' = pending /\ wPc = "write"
        /\ wPc' = "wake" /\ mutex' = "free"
        /\ UNCHANGED <<job, fp, data, readError, writeError, cancelled, reader, to, main,
                       output, hostTold, stale>>
    BY <1>2 DEF WriterWrites, PendingAfterWrite, IInv, TypeOK
  <2>2. TypeOK'
    BY <1>1, <2>1 DEF IInv, TypeOK, Fixed, reader, main
  <2>3. OrderInv'
    BY <1>1, <2>1
      DEF IInv, OrderInv, HasBlock, Intact, LastFreed, MayLeaveBlock, Failing, Fixed, reader
  <2>4. ThreadInv' /\ CountInv' /\ LeaveInv' /\ FileInv' /\ ResultInv'
    BY <1>1, <1>2, <2>1
      DEF IInv, TypeOK, ThreadInv, CountInv, LeaveInv, FileInv, ResultInv, HasBlock,
          MayLeaveBlock, Trusted, Failing, Fixed, reader, main
  <2>5. SuccessIsComplete' /\ BlocksReachTheirFile'
    BY <1>1, <2>1 DEF IInv, SuccessIsComplete, BlocksReachTheirFile, Fixed, main
  <2> QED  BY <2>2, <2>3, <2>4, <2>5 DEF IInv
<1>3. CASE pending
  <2>1. /\ out' \in Seq([b : Contents, to : Nat]) /\ Len(out') = Len(out) + 1
        /\ out'[Len(out) + 1].b = bufs[data] /\ out'[Len(out) + 1].to = to
        /\ \A i \in 1..Len(out) : out'[i] = out[i]
    BY <1>3, BlockIsAppended
  <2>2. /\ written' = written + 1 /\ pending' = FALSE /\ wPc = "write" /\ wPc' = "wake"
        /\ mutex' = "free"
        /\ UNCHANGED <<job, fp, data, readError, writeError, cancelled, reader, to, main,
                       output, hostTold, stale>>
    BY <1>3 DEF WriterWrites, PendingAfterWrite
  <2>3. /\ written + 2 <= next /\ written < TotalSize /\ next \in Nat /\ written \in Nat
        /\ written = Len(out)
    BY <1>1, <1>3 DEF IInv, TypeOK, CountInv, Fixed
  <2>4. TypeOK'
    <3>1. written' \in 0..TotalSize' /\ next' \in 1..(TotalSize' + 1)
      BY <1>1, <2>2, <2>3 DEF IInv, TypeOK, Fixed, reader
    <3>2. bufs' \in [1..2 -> Contents] /\ pending' \in BOOLEAN
      BY <2>2 DEF IInv, TypeOK, reader
    <3> QED  BY <1>1, <2>1, <2>2, <3>1, <3>2 DEF IInv, TypeOK, Fixed, reader, main
  <2>5. OrderInv'
    <3> SUFFICES ASSUME Intact'
                 PROVE  \A i \in 1..Len(out) + 1 :
                           \/ out'[i].b.block = i
                           \/ i = Len(out) + 1 /\ rPc = "done" /\ MayLeaveBlock
      <4>1. rPc' = rPc /\ bufs' = bufs /\ buf' = buf /\ rWait' = rWait /\ next' = next
        BY <2>2 DEF reader
      <4>2. MayLeaveBlock' = MayLeaveBlock
        BY <1>1, <2>2 DEF MayLeaveBlock, Failing, Fixed
      <4>3. Intact' /\ HasBlock' => bufs'[buf'].block = next'
        BY <1>3, <2>2, <2>3, <4>1 DEF IInv, OrderInv, HasBlock, Intact
      <4> QED  BY <2>1, <2>2, <4>1, <4>2, <4>3 DEF OrderInv, LastFreed
    <3>1. Intact /\ next = Len(out) + 2
      BY <1>3, <2>2, <2>3 DEF Intact, reader
    <3>2. \A i \in 1..Len(out) : out'[i].b.block = i
      BY <1>3, <2>1, <3>1 DEF IInv, OrderInv, LastFreed
    <3>3. bufs[data].block \in Nat
      BY <1>3 DEF IInv, TypeOK, CountInv, Contents
    <3>4. bufs[data].block = Len(out) + 1 \/ (rPc = "done" /\ MayLeaveBlock)
      BY <1>3, <2>3, <3>1, <3>3 DEF IInv, OrderInv
    <3> QED  BY <2>1, <2>3, <3>2, <3>4
  <2>6. BlocksReachTheirFile'
    <3> SUFFICES ASSUME ~stale, ~readError, NEW i \in 1..Len(out) + 1
                 PROVE  out'[i].to = job.fileOf[i]
      BY <1>1, <2>1, <2>2 DEF BlocksReachTheirFile, Fixed
    <3>1. next - 1 = Len(out) + 1 /\ to = job.fileOf[next - 1]
      BY <1>3, <2>2, <2>3 DEF IInv, CountInv, FileInv, Trusted
    <3>2. CASE i = Len(out) + 1
      BY <2>1, <3>1, <3>2
    <3>3. CASE i \in 1..Len(out)
      BY <2>1, <3>3 DEF IInv, BlocksReachTheirFile
    <3> QED  BY <2>3, <3>2, <3>3
  <2>7. ThreadInv' /\ CountInv' /\ LeaveInv' /\ FileInv' /\ ResultInv' /\ SuccessIsComplete'
    BY <1>1, <1>3, <2>1, <2>2, <2>3
      DEF IInv, TypeOK, ThreadInv, CountInv, LeaveInv, FileInv, ResultInv, SuccessIsComplete,
          HasBlock, MayLeaveBlock, Trusted, Failing, Fixed, reader, main
  <2> QED  BY <2>4, <2>5, <2>6, <2>7 DEF IInv
<1> QED  BY <1>2, <1>3

LEMMA WriterKeeps == IInv /\ Writer => IInv'
<1> SUFFICES ASSUME IInv, Writer PROVE IInv'  OBVIOUS
<1>1. Fixed
  BY JobStays DEF Writer, WriterTop, WriterLocks, WriterSleeps, WriterWoken, WriterLeaves,
                  WriterTakes, WriterWrites, WriteFails, WriterWakes
<1>2. CASE WriterWrites
  BY <1>2, WriterWritesKeeps
<1> USE DEF IInv, TypeOK, Contents, ThreadInv, CountInv, LeaveInv, OrderInv, FileInv, ResultInv,
        SuccessIsComplete, BlocksReachTheirFile, HasBlock, Intact, LastFreed, MayLeaveBlock,
        Trusted, Failing, shared, reader, writer, main, world
<1> USE DEF Fixed
<1>3. CASE WriterTop
  BY <1>1, <1>3 DEF WriterTop
<1>4. CASE WriterLocks
  BY <1>1, <1>4 DEF WriterLocks, WriterMustWait
<1>5. CASE WriterSleeps
  BY <1>1, <1>5 DEF WriterSleeps
<1>6. CASE WriterWoken
  BY <1>1, <1>6 DEF WriterWoken, WriterMustWait
<1>7. CASE WriterLeaves
  BY <1>1, <1>7 DEF WriterLeaves, ToldNow, MustLeave
<1>8. CASE WriterTakes
  BY <1>1, <1>8 DEF WriterTakes, MustLeave
<1>9. CASE WriteFails
  BY <1>1, <1>9 DEF WriteFails
<1>10. CASE WriterWakes
  BY <1>1, <1>10 DEF WriterWakes, WakeReader
<1> QED
  BY <1>2, <1>3, <1>4, <1>5, <1>6, <1>7, <1>8, <1>9, <1>10 DEF Writer

(***************************************************************************)
(* The theorems.                                                           *)
(***************************************************************************)

LEMMA StutterKeeps == IInv /\ UNCHANGED vars => IInv'
<1> SUFFICES ASSUME IInv, UNCHANGED vars PROVE IInv'  OBVIOUS
<1>1. Fixed
  BY JobStays DEF vars
<1> USE DEF IInv, TypeOK, Contents, ThreadInv, CountInv, LeaveInv, OrderInv, FileInv, ResultInv,
        SuccessIsComplete, BlocksReachTheirFile, HasBlock, Intact, LastFreed, MayLeaveBlock,
        Trusted, Failing, shared, reader, writer, main, world
<1> QED  BY <1>1 DEF vars, Fixed

LEMMA DumpInvariant == Spec => []IInv
<1>1. IInv /\ [Next]_vars => IInv'
  BY MainKeeps, ReaderKeeps, WriterKeeps, StutterKeeps DEF Next
<1> QED  BY InitIInv, <1>1, PTL DEF Spec

(***************************************************************************)
(* What becomes of the output of a dump that is given up.                  *)
(***************************************************************************)

\* The reader of an extracted dump has handed over every block, unless it gives up.
WaitsLast == rPc \in {"lock", "asleep", "woken"} /\ rWait = "last"
ReadInv ==
    /\ file # 0
    /\ rPc \in {"lock", "asleep", "woken"} => rWait # "none"
    /\ Extracted /\ next <= TotalSize => file <= job.fileOf[next]
    /\ Extracted /\ (rPc \in {"finish", "end", "done"} \/ WaitsLast) =>
         Failing \/ next = TotalSize + 1

\* An extracted dump has a file open as soon as it has an output, so that a reader that
\* gives up removes it; otherwise its last block is written.
OutputInv ==
    /\ rPc = "off" => output # "present"
    /\ Extracted /\ ~job.usb /\ output = "present" /\ fp = 0 =>
         rPc \in {"open", "done"} \/ readError
    /\ rPc = "done" /\ Extracted /\ ~job.usb /\ ~readError /\ ~stale
       /\ output = "present" => written = TotalSize
    /\ mPc = "save" => output = "none"
    /\ GivenUpIsRemoved

GInv == ReadInv /\ OutputInv

LEMMA FileOrder ==
    ASSUME TypeOK, Extracted
    PROVE  /\ \A b \in 1..TotalSize : job.fileOf[b] \in 1..job.count
           /\ \A b \in 1..(TotalSize - 1) : job.fileOf[b] <= job.fileOf[b + 1]
           /\ job.count \in Nat
  BY JobsAssumption DEF TypeOK, TotalSize, Extracted

LEMMA InitGInv == Init => GInv
<1> SUFFICES ASSUME Init PROVE GInv  OBVIOUS
<1>1. TypeOK
  BY InitIInv DEF IInv
<1> QED
  BY <1>1, JobTypes, FileOrder
  DEF Init, GInv, ReadInv, OutputInv, WaitsLast, Failing, GivenUpIsRemoved

\* The threads but the reader leave what it has read alone, and errors do not go away.
LEMMA ReadInvStays ==
    ASSUME IInv, ReadInv, Fixed, file' = file, next' = next, rWait' = rWait,
           Failing => Failing',
           \/ rPc' = rPc
           \/ rPc = "asleep" /\ rPc' = "woken"
           \/ rPc = "off" /\ rPc' = "start"
    PROVE  ReadInv'
  BY DEF ReadInv, WaitsLast, Fixed

LEMMA MainKeepsG == IInv /\ IInv' /\ GInv /\ Main => GInv'
<1> SUFFICES ASSUME IInv, IInv', GInv, Main PROVE GInv'  OBVIOUS
<1>1. Fixed
  BY JobStays DEF Main, Save, SaveFails, KeyAreaFails, MainTop, MainBody, MainCancels,
                  MainJoinsReader, MainJoinsWriter
<1>2. ReadInv'
  BY <1>1, ReadInvStays
  DEF GInv, Main, Save, SaveFails, KeyAreaFails, MainTop, MainBody, MainCancels,
      MainJoinsReader, MainJoinsWriter, IInv, ThreadInv, Failing, shared, reader
<1> USE DEF GInv, OutputInv, IInv, TypeOK, ThreadInv, FileInv, Failing, GivenUpIsRemoved, Fixed,
        shared, reader, writer, main, world
<1>3. CASE Save
  BY <1>1, <1>2, <1>3 DEF Save
<1>4. CASE SaveFails \/ KeyAreaFails
  BY <1>1, <1>2, <1>4 DEF SaveFails, KeyAreaFails
<1>5. CASE MainTop \/ MainBody \/ MainJoinsReader
  BY <1>1, <1>2, <1>5 DEF MainTop, MainBody, MainJoinsReader
<1>6. CASE MainCancels
  BY <1>1, <1>2, <1>6 DEF MainCancels
<1>7. CASE MainJoinsWriter
  BY <1>1, <1>2, <1>7 DEF MainJoinsWriter
<1> QED  BY <1>3, <1>4, <1>5, <1>6, <1>7 DEF Main

LEMMA WriterKeepsG == IInv /\ IInv' /\ GInv /\ Writer => GInv'
<1> SUFFICES ASSUME IInv, IInv', GInv, Writer PROVE GInv'  OBVIOUS
<1> USE DEF Writer, WriterTop, WriterLocks, WriterSleeps, WriterWoken, WriterLeaves, WriterTakes,
        WriterWrites, WriteFails, WriterWakes, WakeReader, shared, reader, writer, main, world
<1>1. Fixed
  BY JobStays
<1>2. ReadInv'
  BY <1>1, ReadInvStays DEF GInv, Failing
<1>3. written <= TotalSize /\ written' <= TotalSize /\ written <= written'
      /\ written \in Nat /\ written' \in Nat
  BY <1>1 DEF IInv, TypeOK, Fixed
<1>4. /\ mPc # "done" /\ mPc' = mPc /\ output' = output /\ fp' = fp /\ readError' = readError
      /\ (stale => stale') /\ stale' \in BOOLEAN
      /\ rPc' = rPc \/ (rPc = "asleep" /\ rPc' = "woken")
  BY DEF IInv, TypeOK, ThreadInv
<1> QED
  BY <1>1, <1>2, <1>3, <1>4 DEF GInv, OutputInv, GivenUpIsRemoved, Fixed

LEMMA ReaderKeepsG == IInv /\ IInv' /\ GInv /\ Reader => GInv'
<1> SUFFICES ASSUME IInv, IInv', GInv, Reader PROVE GInv'  OBVIOUS
<1> USE DEF ReaderGoes, ReadErrorTo, ReaderWillWait, ReaderProceeds, shared, reader, writer, main,
        world, Failing
<1> USE DEF ReaderStart, ReaderBegin, ReaderFile, ReaderCloses, ReaderOpens, ReaderCheck,
        ReaderReads, ReaderWaits, ReaderPlaces, ReaderGoesOn, ReaderWakes, ReaderFinishes,
        ReaderEnds, Reader
<1>1. Fixed
  BY JobStays
<1>2. mPc' = mPc /\ mPc # "done" /\ mPc # "save" /\ rPc # "off" /\ rPc' # "off" /\ rPc # "done"
  BY SMTT(30) DEF IInv, TypeOK, ThreadInv, AfterWait
<1>3. file \in Nat /\ next \in 1..(TotalSize + 1) /\ TotalSize \in Nat /\ written \in 0..TotalSize
  BY <1>1 DEF IInv, TypeOK, Fixed
<1>4. ReadInv'
  <2>1. CASE ReaderPlaces
    <3>1. /\ next <= TotalSize /\ next' = next + 1 /\ file' = file /\ rPc' = "wake"
          /\ Extracted => job.fileOf[next] = file
      BY <2>1 DEF IInv, CountInv, FileInv, HasBlock
    <3>2. Extracted /\ next' <= TotalSize => job.fileOf[next] <= job.fileOf[next']
      BY <1>3, <3>1, FileOrder DEF IInv
    <3> QED  BY <1>1, <1>3, <3>1, <3>2 DEF GInv, ReadInv, WaitsLast, Fixed
  <2>2. CASE rPc = "check" /\ rPc' = "file" /\ file' = file + 1
    <3>1. ~MoreBlocks /\ Extracted /\ next' = next
      BY <2>2
    <3>2. next <= TotalSize => file + 1 <= job.fileOf[next]
      BY <1>3, <3>1, FileOrder DEF MoreBlocks, GInv, ReadInv, IInv
    <3> QED  BY <1>1, <1>3, <2>2, <3>1, <3>2 DEF GInv, ReadInv, WaitsLast, Fixed
  <2>3. CASE ReaderFile /\ rPc' = "finish"
    <3>1. ~MoreFiles /\ next' = next /\ file' = file /\ Extracted
      BY <2>3 DEF IInv, ThreadInv
    <3>2. next = TotalSize + 1
      <4>1. CASE file > job.count
        <5>1. next <= TotalSize => file <= job.fileOf[next]
          BY <3>1 DEF GInv, ReadInv
        <5>2. next <= TotalSize => job.fileOf[next] \in 1..job.count
          BY <1>3, <3>1, FileOrder DEF IInv
        <5>3. job.count \in Nat
          BY <3>1, FileOrder DEF IInv
        <5> HIDE DEF TotalSize
        <5> QED  BY <1>3, <4>1, <5>1, <5>2, <5>3
      <4>2. CASE written >= TotalSize
        BY <1>3, <4>2 DEF IInv, CountInv
      <4>3. file > job.count \/ written >= TotalSize
        <5>1. job.count \in Nat
          BY <3>1, FileOrder DEF IInv
        <5> QED  BY <1>3, <3>1, <5>1 DEF MoreFiles
      <4> QED  BY <4>1, <4>2, <4>3
    <3> QED  BY <1>1, <1>3, <2>3, <3>1, <3>2 DEF GInv, ReadInv, WaitsLast, Fixed
  <2>4. CASE ~ReaderPlaces /\ ~(ReaderFile /\ rPc' = "finish")
             /\ ~(rPc = "check" /\ rPc' = "file" /\ file' = file + 1)
    <3>1. next' = next /\ file' = file
      BY <2>4
    <3>2. Failing => Failing'
      BY <2>4
    <3>3. rPc' = "finish" => Failing \/ Failing'
      BY <2>4 DEF AfterWait, IInv, TypeOK
    <3>4. rPc' \in {"end", "done"} => ~Extracted \/ Failing' \/ rPc \in {"finish", "end"} \/ WaitsLast
      BY <2>4, SMTT(30) DEF AfterWait, WaitsLast, IInv, TypeOK, LeaveInv, GInv, ReadInv
    <3>5. WaitsLast' => rPc = "finish" \/ WaitsLast
      BY <2>4 DEF WaitsLast, AfterWait
    <3>6. rPc' \in {"lock", "asleep", "woken"} => rWait' # "none"
      BY <2>4 DEF GInv, ReadInv, AfterWait
    <3> QED  BY <1>1, <1>3, <3>1, <3>2, <3>3, <3>4, <3>5, <3>6 DEF GInv, ReadInv, Fixed
  <2> QED  BY <2>1, <2>2, <2>3, <2>4
<1>5. CASE ReaderEnds
  <2>1. Extracted /\ ~Failing /\ ~stale => written = TotalSize
    BY <1>3, <1>5 DEF GInv, ReadInv, IInv, LeaveInv, MayLeaveBlock, CountInv
  <2> QED  BY <1>1, <1>2, <1>4, <1>5, <2>1 DEF GInv, OutputInv, GivenUpIsRemoved, Fixed
<1>6. CASE ~ReaderEnds
  <2>1. rPc' # "done"
    BY <1>6 DEF AfterWait
  <2>2. Extracted /\ ~job.usb /\ output' = "present" /\ fp' = 0 => rPc' = "open" \/ readError'
    BY <1>1, <1>3, <1>4, <1>6 DEF GInv, ReadInv, OutputInv, AfterWait, IInv, TypeOK
  <2> HIDE DEF ReaderStart, ReaderBegin, ReaderFile, ReaderCloses, ReaderOpens, ReaderCheck,
           ReaderReads, ReaderWaits, ReaderPlaces, ReaderGoesOn, ReaderWakes, ReaderFinishes,
           ReaderEnds, Reader
  <2> QED  BY <1>1, <1>2, <1>4, <2>1, <2>2 DEF GInv, OutputInv, GivenUpIsRemoved, Fixed
<1> QED  BY <1>5, <1>6

LEMMA OutputInvariant == Spec => []GInv
<1>1. IInv /\ IInv' /\ GInv /\ UNCHANGED vars => GInv'
  <2> SUFFICES ASSUME IInv, GInv, UNCHANGED vars PROVE GInv'  OBVIOUS
  <2>1. Fixed
    BY JobStays DEF vars
  <2> QED
    BY <2>1
    DEF vars, shared, reader, writer, main, world, GInv, ReadInv, OutputInv, WaitsLast, Failing,
        GivenUpIsRemoved, Fixed
<1>2. IInv /\ IInv' /\ GInv /\ [Next]_vars => GInv'
  BY <1>1, MainKeepsG, ReaderKeepsG, WriterKeepsG DEF Next
<1> QED  BY InitGInv, <1>2, DumpInvariant, PTL DEF Spec

\* Every variable that the threads of a dump share keeps its type, for every dump.
THEOREM TypeCorrect == Spec => []TypeOK
<1>1. IInv => TypeOK
  BY DEF IInv
<1> QED  BY DumpInvariant, <1>1, PTL

\* spanDumpThreads returns true only after every block was written, in order.
THEOREM SuccessIsAlwaysComplete == Spec => []SuccessIsComplete
<1>1. IInv => SuccessIsComplete
  BY DEF IInv
<1> QED  BY DumpInvariant, <1>1, PTL

\* The writer never writes a block into the file of another one, unless a thread
\* was woken up by mistake or the reader gave up.
THEOREM BlocksAlwaysReachTheirFile == Spec => []BlocksReachTheirFile
<1>1. IInv => BlocksReachTheirFile
  BY DEF IInv
<1> QED  BY DumpInvariant, <1>1, PTL

\* The reader never fills the buffer that the writer takes its block from.
THEOREM BuffersAlternate == Spec => [](rPc = "read" /\ pending => data # buf)
<1>1. IInv => (rPc = "read" /\ pending => data # buf)
  BY DEF IInv, CountInv
<1> QED  BY DumpInvariant, <1>1, PTL

\* genericWriteThreadFunc tells the host of every cancel that spanDumpThreads reports.
THEOREM CancelAlwaysReachesHost == Spec => []CancelReachesHost
<1>1. IInv => CancelReachesHost
  BY DEF IInv, TypeOK, ThreadInv, ResultInv, CancelReachesHost
<1> QED  BY DumpInvariant, <1>1, PTL

\* A dump reported as a success is whole, and the output of one that was given up is
\* removed from a storage device.
THEOREM OutputIsAlwaysTrue == Spec => []OutputIsTrue
<1>1. IInv /\ GInv => OutputIsTrue
  BY DEF IInv, GInv, OutputInv, OutputIsTrue
<1> QED  BY DumpInvariant, OutputInvariant, <1>1, PTL
=============================================================================
