---------------------------- MODULE DumpPipeline ----------------------------
(***************************************************************************)
(* The dump pipeline of nxdt_rw_poc.c: a save function opens the output    *)
(* and calls spanDumpThreads, which runs a read thread and                 *)
(* genericWriteThreadFunc over one SharedThreadData, watches the B button  *)
(* and joins both.  The two threads hand blocks over in one slot (data,    *)
(* data_size), with two buffers that the reader swaps, one mutex and one   *)
(* condition variable for each direction.                                  *)
(*                                                                         *)
(* Eleven read threads share two shapes.  A raw one reads a single file    *)
(* that the save function opened; an extracted one opens the files itself, *)
(* waits for the slot to be empty before it turns to the next one and once *)
(* more at its end.  RomFS stops as soon as everything is written.  The    *)
(* highlighted entries of the file browser are taken to be files; for a    *)
(* directory the reader's loop calls itself, which is not modelled.        *)
(*                                                                         *)
(* What happens between a lock and the next unlock is one step where no    *)
(* other thread can tell; waking up the other thread comes after the       *)
(* unlock and is a step of its own, and read_error and fp are changed by   *)
(* the reader without the lock.                                            *)
(***************************************************************************)
EXTENDS Naturals, Sequences

CONSTANTS
    \* The dumps: [usb : BOOLEAN, shape : Shapes, count : Nat, fileOf : Seq(Nat)],
    \* where count is the number of files and fileOf[b] the file that block b
    \* belongs to.  A file without a block is empty.
    Jobs

\* What tells the read threads apart: who opens the files, whether the loop over
\* them also stops when everything is written, and whether the save function has
\* something to write first.
Shapes == [extracted : BOOLEAN, untilWritten : BOOLEAN, prepends : BOOLEAN]
RawShape == [extracted |-> FALSE, untilWritten |-> FALSE, prepends |-> FALSE]
ExtractedShape == [extracted |-> TRUE, untilWritten |-> FALSE, prepends |-> FALSE]

Xci == [RawShape EXCEPT !.prepends = TRUE]
RawHfs == RawShape
Nca == RawShape
RawPartitionFs == RawShape
RawRomFs == RawShape
FsBrowserFile == RawShape
ExtractedHfs == ExtractedShape
ExtractedPartitionFs == ExtractedShape
ExtractedRomFs == [ExtractedShape EXCEPT !.untilWritten = TRUE]
FsBrowserHighlightedEntries == ExtractedShape
SystemUpdate == ExtractedShape

ASSUME JobsAssumption ==
    \A j \in Jobs :
        /\ j \in [usb : BOOLEAN, shape : Shapes, count : Nat, fileOf : Seq(Nat)]
        /\ ~j.shape.extracted => \A b \in 1..Len(j.fileOf) : j.fileOf[b] = 1
        \* The files of an extracted dump are read one after the other.
        /\ j.shape.extracted =>
             /\ \A b \in 1..Len(j.fileOf) : j.fileOf[b] \in 1..j.count
             /\ \A b \in 1..(Len(j.fileOf) - 1) : j.fileOf[b] <= j.fileOf[b + 1]

VARIABLES
    job,
    \* SharedThreadData.  pending stands for data_size # 0 and data for the
    \* buffer that the pointer of that name points at; fp is the file it was
    \* opened for, 0 for NULL, and on a USB host the file announced last.
    fp, data, pending, written, readError, writeError, cancelled,
    mutex,        \* g_fileMutex: "free", or "writer" while it is held over steps
    \* The read thread: what it waits for, the file it is at, the next block, buf1
    \* and the contents of both buffers (the block and its file, 0 for garbage).
    rPc, rWait, file, next, buf, bufs,
    wPc, to,      \* the write thread and the file it writes to
    mPc, success, \* the thread of the save function, and its result
    \* What is on the output: every block with its file and the file it went to,
    \* whether output is there, and whether the host was told of a cancel.
    out, output, hostTold,
    \* Whether a thread went on after a wake-up that was not meant for it, its
    \* condition for waiting still true.  The threads do not see this.
    stale

shared == <<fp, data, pending, written, readError, writeError, cancelled>>
reader == <<rPc, rWait, file, next, buf, bufs>>
writer == <<wPc, to>>
main == <<mPc, success>>
world == <<out, output, hostTold, stale>>
vars == <<job, shared, mutex, reader, writer, main, world>>

TotalSize == Len(job.fileOf)
Extracted == job.shape.extracted
Failing == readError \/ writeError \/ cancelled

Init ==
    /\ job \in Jobs
    /\ fp = 0 /\ data = 0 /\ pending = FALSE /\ written = 0
    /\ readError = FALSE /\ writeError = FALSE /\ cancelled = FALSE
    /\ mutex = "free"
    /\ rPc = "off" /\ rWait = "none" /\ file = 1 /\ next = 1 /\ buf = 1
    /\ bufs = [b \in 1..2 |-> [block |-> 0, file |-> 0]]
    /\ wPc = "off" /\ to = 0
    /\ mPc = "save" /\ success = FALSE
    /\ out = <<>> /\ output = "none" /\ hostTold = FALSE /\ stale = FALSE
-----------------------------------------------------------------------------
(***************************************************************************)
(* The save function and spanDumpThreads.                                  *)
(***************************************************************************)

\* A raw dump opens its file, or announces it to the host; then both threads start.
Save ==
    /\ mPc = "save"
    /\ fp' = IF Extracted THEN 0 ELSE 1
    /\ output' = IF Extracted \/ job.usb THEN "none" ELSE "present"
    /\ mPc' = "top" /\ rPc' = "start" /\ wPc' = "top"
    /\ UNCHANGED <<job, data, pending, written, readError, writeError, cancelled,
                   mutex, rWait, file, next, buf, bufs, to, success, out, hostTold, stale>>

\* A name, the free space or the output file is not to be had.
SaveFails ==
    /\ mPc = "save" /\ mPc' = "done"
    /\ UNCHANGED <<job, shared, mutex, reader, writer, success, world>>

\* The key area that a game card image begins with cannot be written.
KeyAreaFails ==
    /\ mPc = "save" /\ job.shape.prepends
    /\ mPc' = "done" /\ output' = IF job.usb THEN "none" ELSE "removed"
    /\ UNCHANGED <<job, shared, mutex, reader, writer, success, out, hostTold, stale>>

\* The condition of the loop of spanDumpThreads.
MainTop ==
    /\ mPc = "top"
    /\ mPc' = IF written < TotalSize THEN "body" ELSE "joinReader"
    /\ UNCHANGED <<job, shared, mutex, reader, writer, success, world>>

\* Its body, unless the user cancels.
MainBody ==
    /\ mPc = "body"
    /\ mPc' = IF Failing THEN "joinReader" ELSE "top"
    /\ UNCHANGED <<job, shared, mutex, reader, writer, success, world>>

\* B was held for three seconds, or the applet is to exit.
MainCancels ==
    /\ mPc = "body" /\ mutex = "free"
    /\ cancelled' = TRUE /\ mPc' = "joinReader"
    /\ UNCHANGED <<job, fp, data, pending, written, readError, writeError, mutex,
                   reader, writer, success, world>>

MainJoinsReader ==
    /\ mPc = "joinReader" /\ rPc = "done"
    /\ mPc' = "joinWriter"
    /\ UNCHANGED <<job, shared, mutex, reader, writer, success, world>>

\* The result; the save function of a raw dump closes its file and removes it if
\* the dump was no success.
MainJoinsWriter ==
    /\ mPc = "joinWriter" /\ wPc = "done"
    /\ mPc' = "done" /\ success' = ~Failing
    /\ fp' = 0
    /\ output' = IF fp # 0 /\ ~job.usb /\ Failing THEN "removed" ELSE output
    /\ UNCHANGED <<job, data, pending, written, readError, writeError, cancelled,
                   mutex, reader, writer, out, hostTold, stale>>
-----------------------------------------------------------------------------
(***************************************************************************)
(* The read threads.                                                       *)
(***************************************************************************)

\* condvarWakeAll on either condition variable.
WakeWriter == wPc' = IF wPc = "asleep" THEN "woken" ELSE wPc
WakeReader == rPc' = IF rPc = "asleep" THEN "woken" ELSE rPc

\* The reader gives up with an error, awake or not.
ReadErrorTo(pc) ==
    /\ readError' = TRUE /\ rPc' = pc
    /\ UNCHANGED <<job, fp, data, pending, written, writeError, cancelled, mutex,
                   rWait, file, next, buf, bufs, writer, main, world>>

ReaderGoes(pc) ==
    /\ rPc' = pc
    /\ UNCHANGED <<job, shared, mutex, rWait, file, next, buf, bufs, writer, main, world>>

\* The reader will wait for the slot to be empty.
ReaderWillWait(for) ==
    /\ rPc' = "lock" /\ rWait' = for
    /\ UNCHANGED <<job, shared, mutex, file, next, buf, bufs, writer, main, world>>

\* Buffers and names are allocated; a failure, or an empty dump, wakes up nobody.
ReaderStart ==
    /\ rPc = "start"
    /\ \/ ReadErrorTo("end")
       \/ TotalSize > 0 /\ ReaderGoes(IF Extracted THEN "begin" ELSE "check")

\* Free space, or usbStartExtractedFsDump.
ReaderBegin == rPc = "begin" /\ (ReadErrorTo("wakeEnd") \/ ReaderGoes("file"))

\* The loop over the files of an extracted dump.
MoreFiles == file <= job.count /\ ~(job.shape.untilWritten /\ written >= TotalSize)
ReaderFile ==
    /\ rPc = "file"
    /\ \/ ~MoreFiles /\ ReaderGoes("finish")
       \/ MoreFiles /\ cancelled /\ ReaderGoes("wakeEnd")
       \/ MoreFiles /\ ~cancelled /\ job.usb /\ ReadErrorTo("wakeEnd")
       \/ MoreFiles /\ ~cancelled /\ ReaderWillWait("file")

\* The previous file is closed.
ReaderCloses ==
    /\ rPc = "close"
    /\ rPc' = IF writeError THEN "finish" ELSE "open"
    /\ fp' = IF writeError \/ job.usb THEN fp ELSE 0
    /\ UNCHANGED <<job, data, pending, written, readError, writeError, cancelled, mutex,
                   rWait, file, next, buf, bufs, writer, main, world>>

\* The next one is opened, or announced to the host.
ReaderOpens ==
    /\ rPc = "open"
    /\ \/ ReadErrorTo("wakeEnd")
       \/ /\ fp' = file /\ rPc' = "check"
          /\ output' = IF job.usb THEN output ELSE "present"
          /\ UNCHANGED <<job, data, pending, written, readError, writeError, cancelled,
                         mutex, rWait, file, next, buf, bufs, writer, main, out, hostTold,
                         stale>>

\* The loop over the blocks of a file, and what follows it.
MoreBlocks == next <= TotalSize /\ (Extracted => job.fileOf[next] = file)
ReaderCheck ==
    /\ rPc = "check"
    /\ \/ MoreBlocks /\ ReaderGoes(IF cancelled THEN "wakeEnd" ELSE "read")
       \/ ~MoreBlocks /\ ~Extracted /\ ReaderGoes("end")
       \/ ~MoreBlocks /\ Extracted /\ Failing /\ ReaderGoes("finish")
       \/ /\ ~MoreBlocks /\ Extracted /\ ~Failing
          /\ rPc' = "file" /\ file' = file + 1
          /\ UNCHANGED <<job, shared, mutex, rWait, next, buf, bufs, writer, main, world>>

\* A block is read into buf1.
ReaderReads ==
    /\ rPc = "read"
    /\ \/ ReadErrorTo("wakeEnd")
       \/ /\ bufs' = [bufs EXCEPT ![buf] = [block |-> next, file |-> file]]
          /\ rPc' = "lock" /\ rWait' = "block"
          /\ UNCHANGED <<job, shared, mutex, file, next, buf, writer, main, world>>

\* The last wait does not look at write_error.
MustWait == pending /\ (rWait = "last" \/ ~writeError)
ReaderWaits ==
    /\ rPc = "lock" /\ mutex = "free" /\ MustWait
    /\ ReaderGoes("asleep")

\* The reader has the lock and does not wait, or not again.
ReaderProceeds ==
    /\ mutex = "free"
    /\ rPc = "woken" \/ (rPc = "lock" /\ ~MustWait)
    /\ stale' = (stale \/ (rPc = "woken" /\ pending /\ ~writeError))

\* Buffers are swapped when a block is handed over.
Swapped == 3 - buf
ReaderPlaces ==
    /\ ReaderProceeds /\ rWait = "block" /\ ~writeError
    /\ data' = buf /\ pending' = TRUE /\ buf' = Swapped /\ next' = next + 1
    /\ rPc' = "wake"
    /\ UNCHANGED <<job, fp, written, readError, writeError, cancelled, mutex, rWait,
                   file, bufs, writer, main, out, output, hostTold>>

\* Every other outcome of a wait.
AfterWait == CASE rWait = "block" -> "finish" [] rWait = "file" -> "close"
               [] OTHER -> "end"
ReaderGoesOn ==
    /\ ReaderProceeds /\ (rWait = "block" => writeError)
    /\ rPc' = AfterWait
    /\ UNCHANGED <<job, shared, mutex, rWait, file, next, buf, bufs, writer, main, out,
                   output, hostTold>>

\* After the unlock, and where the loops are left.
ReaderWakes ==
    /\ rPc \in {"wake", "wakeEnd"} /\ WakeWriter
    /\ rPc' = IF rPc = "wake" THEN "check" ELSE "end"
    /\ UNCHANGED <<job, shared, mutex, rWait, file, next, buf, bufs, to, main, world>>

\* An extracted dump waits for its last block, if nothing failed so far.
ReaderFinishes ==
    /\ rPc = "finish"
    /\ \/ (Failing \/ ~Extracted) /\ ReaderGoes("end")
       \/ ~Failing /\ Extracted /\ ReaderWillWait("last")

\* An extracted dump closes its file, and removes the output if something failed; both
\* buffers are freed, whatever is still to be written, and may be overwritten.
ReaderEnds ==
    /\ rPc = "end" /\ rPc' = "done"
    /\ fp' = IF Extracted /\ ~job.usb THEN 0 ELSE fp
    /\ output' = IF Extracted /\ ~job.usb /\ fp # 0 /\ Failing THEN "removed"
                 ELSE output
    /\ \/ bufs' = bufs
       \/ bufs' = [b \in 1..2 |-> [block |-> 0, file |-> 0]]
    /\ UNCHANGED <<job, data, pending, written, readError, writeError, cancelled, mutex,
                   rWait, file, next, buf, writer, main, out, hostTold, stale>>

Reader ==
    \/ ReaderStart \/ ReaderBegin \/ ReaderFile \/ ReaderCloses \/ ReaderOpens
    \/ ReaderCheck \/ ReaderReads \/ ReaderWaits \/ ReaderPlaces \/ ReaderGoesOn
    \/ ReaderWakes \/ ReaderFinishes \/ ReaderEnds
-----------------------------------------------------------------------------
(***************************************************************************)
(* genericWriteThreadFunc.                                                 *)
(***************************************************************************)

WriterTop ==
    /\ wPc = "top"
    /\ wPc' = IF written < TotalSize THEN "lock" ELSE "done"
    /\ UNCHANGED <<job, shared, mutex, reader, to, main, world>>

\* read_error may be set, and its wake-up given, between this test and the wait.
WriterMustWait == ~pending /\ ~readError
WriterLocks ==
    /\ wPc = "lock" /\ mutex = "free"
    /\ mutex' = "writer" /\ wPc' = IF WriterMustWait THEN "sleep" ELSE "locked"
    /\ UNCHANGED <<job, shared, reader, to, main, world>>

WriterSleeps ==
    /\ wPc = "sleep" /\ mutex' = "free" /\ wPc' = "asleep"
    /\ UNCHANGED <<job, shared, reader, to, main, world>>

WriterWoken ==
    /\ wPc = "woken" /\ mutex = "free"
    /\ mutex' = "writer" /\ wPc' = "locked"
    /\ stale' = (stale \/ (WriterMustWait /\ ~cancelled))
    /\ UNCHANGED <<job, shared, reader, to, main, out, output, hostTold>>

\* Mutant: the host is not told.
Untold == FALSE

\* What the host is told when the thread leaves.
ToldNow == job.usb /\ cancelled

\* The thread leaves, without waking up the reader, or turns to the block.
MustLeave == readError \/ cancelled \/ (~job.usb /\ fp = 0)
WriterLeaves ==
    /\ wPc = "locked" /\ MustLeave
    /\ hostTold' = (hostTold \/ ToldNow)
    /\ mutex' = "free" /\ wPc' = "done"
    /\ UNCHANGED <<job, shared, reader, to, main, out, output, stale>>
WriterTakes ==
    /\ wPc = "locked" /\ ~MustLeave
    /\ wPc' = "write" /\ to' = fp
    /\ UNCHANGED <<job, shared, mutex, reader, main, world>>

\* Mutant: data_size is not reset.
StillPending == pending

\* data_size after a block was written.
PendingAfterWrite == FALSE

\* usbSendFileData refuses an empty block, fwrite does not mind one.
WriterWrites ==
    /\ wPc = "write"
    /\ pending \/ ~job.usb
    /\ out' = IF pending THEN Append(out, [b |-> bufs[data], to |-> to]) ELSE out
    /\ written' = IF pending THEN written + 1 ELSE written
    /\ pending' = PendingAfterWrite
    /\ mutex' = "free" /\ wPc' = "wake"
    /\ UNCHANGED <<job, fp, data, readError, writeError, cancelled, reader, to, main,
                   output, hostTold, stale>>
WriteFails ==
    /\ wPc = "write"
    /\ writeError' = TRUE /\ mutex' = "free" /\ wPc' = "wake"
    /\ UNCHANGED <<job, fp, data, pending, written, readError, cancelled, reader, to, main,
                   world>>

\* Mutant: only an error wakes up the reader.
WriterWakesOnError ==
    /\ wPc = "wake"
    /\ rPc' = IF writeError /\ rPc = "asleep" THEN "woken" ELSE rPc
    /\ wPc' = IF writeError THEN "done" ELSE "top"
    /\ UNCHANGED <<job, shared, mutex, rWait, file, next, buf, bufs, to, main, world>>

WriterWakes ==
    /\ wPc = "wake" /\ WakeReader
    /\ wPc' = IF writeError THEN "done" ELSE "top"
    /\ UNCHANGED <<job, shared, mutex, rWait, file, next, buf, bufs, to, main, world>>

Writer ==
    \/ WriterTop \/ WriterLocks \/ WriterSleeps \/ WriterWoken \/ WriterLeaves
    \/ WriterTakes \/ WriterWrites \/ WriteFails \/ WriterWakes

Main ==
    \/ Save \/ SaveFails \/ KeyAreaFails \/ MainTop \/ MainBody \/ MainCancels \/ MainJoinsReader
    \/ MainJoinsWriter

Next == Main \/ Reader \/ Writer

Spec == Init /\ [][Next]_vars

\* Every thread is scheduled, and a mutex goes to a thread that waits for it again
\* and again.  Nothing makes the user cancel.
FairSpec ==
    /\ Spec
    /\ WF_vars(Save \/ MainTop \/ MainBody \/ MainJoinsReader \/ MainJoinsWriter)
    /\ SF_vars(Reader) /\ SF_vars(Writer)
-----------------------------------------------------------------------------
(***************************************************************************)
(* Properties.                                                             *)
(***************************************************************************)

Contents == [block : Nat, file : Nat]
TypeOK ==
    /\ job \in Jobs
    /\ fp \in Nat /\ data \in 0..2 /\ pending \in BOOLEAN /\ written \in 0..TotalSize
    /\ readError \in BOOLEAN /\ writeError \in BOOLEAN /\ cancelled \in BOOLEAN
    /\ mutex \in {"free", "writer"}
    /\ rPc \in {"off", "start", "begin", "file", "close", "open", "check", "read", "lock",
                "asleep", "woken", "wake", "wakeEnd", "finish", "end", "done"}
    /\ rWait \in {"none", "file", "block", "last"}
    /\ file \in Nat /\ next \in 1..(TotalSize + 1) /\ buf \in 1..2
    /\ bufs \in [1..2 -> Contents]
    /\ wPc \in {"off", "top", "lock", "sleep", "asleep", "woken", "locked", "write", "wake",
                "done"}
    /\ to \in Nat
    /\ mPc \in {"save", "top", "body", "joinReader", "joinWriter", "done"}
    /\ success \in BOOLEAN
    /\ out \in Seq([b : Contents, to : Nat])
    /\ output \in {"none", "present", "removed"}
    /\ hostTold \in BOOLEAN /\ stale \in BOOLEAN

\* spanDumpThreads returns true only if every block was written, once and in order,
\* whatever was woken up too early in between.  Only the last block may be written
\* out of a buffer that was freed: a raw reader does not wait for it, and an extracted
\* one may be woken up by mistake.
SuccessIsComplete ==
    success =>
        /\ Len(out) = TotalSize
        /\ \A i \in 1..TotalSize :
            out[i].b.block = i \/ (i = TotalSize /\ (~Extracted \/ stale))

\* Every block goes into its own file, as long as no thread goes on by mistake and the
\* reader does not give up under the writer.
BlocksReachTheirFile ==
    ~stale /\ ~readError => \A i \in 1..Len(out) : out[i].to = job.fileOf[i]

\* A dump the user cancelled is cancelled on the host too.
CancelReachesHost ==
    mPc = "done" /\ cancelled /\ job.usb /\ ~readError /\ ~writeError =>
        hostTold \/ written = TotalSize

\* What was given up is removed from a storage device.  The reader does this for an
\* extracted dump only with a file open, hence not after an error of its own; and a
\* cancel that comes after its last block is too late for it.
GivenUpIsRemoved ==
    mPc = "done" /\ Failing /\ ~job.usb
    /\ (Extracted => ~readError /\ ~stale) =>
        output # "present" \/ written = TotalSize

\* The output tells the truth about the dump: one that was reported as a success is
\* whole, and one that was given up is gone.
OutputIsTrue == SuccessIsComplete /\ GivenUpIsRemoved

\* A dump ends, unless it is cancelled, the reader fails, a thread was woken up by
\* mistake or an extracted dump cannot be written.
DumpEnds ==
    <>(mPc = "done" \/ cancelled \/ readError \/ stale \/ (Extracted /\ writeError))

\* "hold b to cancel": a dump that is cancelled ends, here without an error of the
\* reader.
CancelEnds == cancelled ~> (mPc = "done" \/ readError)
=============================================================================
