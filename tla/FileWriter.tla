----------------------------- MODULE FileWriter -----------------------------
(***************************************************************************)
(* FileWriter, the class every dump writes its output file with: an SD     *)
(* card file (a concatenation file when it is big), a file on a USB mass   *)
(* storage (UMS) device, a directory of part files when that device is FAT *)
(* formatted and the file is big, or a file sent to the USB host.  One     *)
(* object lives at a time and its caller writes the file in blocks, then   *)
(* the NSP header if there is one, and gives up at the first failure.      *)
(*                                                                         *)
(* Write calls itself once per part file a block straddles; each fwrite is *)
(* a step, and the device may be unplugged between two of them.            *)
(***************************************************************************)
EXTENDS Integers, Sequences

CONSTANTS
    PartSize,      \* CONCATENATION_FILE_PART_SIZE
    Fat32Limit,    \* FAT32_FILESIZE_LIMIT
    Storages,      \* subset of {"sd", "umsFat", "umsExFat", "usb"}
    TotalSizes,    \* total_size of the files
    HeaderSizes,   \* nsp_header_size, 0 for a file that is not an NSP
    BlockSizes,    \* data_size of the caller's Write calls
    OldParts       \* part files a former dump may have left at the path

VARIABLES
    pc,          \* where the caller is
    conf,        \* what the constructor was given
    curSize,     \* cur_size
    partIdx,     \* split_file_part_idx
    partSize,    \* split_file_part_size
    fp,          \* fp is not null
    created,     \* file_created
    pending,     \* units the running Write still has to write
    cut,         \* units of its block it leaves out, past total_size
    fed,         \* how far the caller is in its data
    parts,       \* contents of the file, or of the part files, at output_path
    usbLeft,     \* g_usbTransferRemainingSize
    gone         \* the device was unplugged

object == <<curSize, partIdx, partSize, fp, created>>
write  == <<pending, cut, fed>>
vars   == <<pc, conf, object, write, parts, usbLeft, gone>>

Smaller(a, b) == IF a < b THEN a ELSE b

Split   == conf.storage \in {"sd", "umsFat"} /\ conf.total > Fat32Limit
InParts == Split /\ conf.storage = "umsFat"

\* Mutant of PartCount: rounds down.
PartCountFloor == conf.total \div PartSize

\* split_file_part_cnt.
PartCount == (conf.total + PartSize - 1) \div PartSize

\* The caller's data: an NSP's header is not part of it.
DataSize == conf.total - conf.header

\* The next n units of the caller's data, and the placeholder.
DataUnits(n) == [i \in 1..n |-> fed + i]
Zeroes(n) == [i \in 1..n |-> 0]
HeaderUnits(n) == [i \in 1..n |-> -1]
OldUnits == <<-2>>

\* What the running Write has left to write.
Units == IF pc = "placeholder" THEN Zeroes(pending) ELSE DataUnits(pending)

TypeOK ==
    /\ pc \in {"none", "placeholder", "idle", "writing", "failed", "closed"}
    /\ conf \in [storage : Storages, total : Nat, header : Nat]
    /\ curSize \in Nat /\ partIdx \in Nat /\ partSize \in 0..PartSize
    /\ fp \in BOOLEAN /\ created \in BOOLEAN /\ gone \in BOOLEAN
    /\ pending \in Nat /\ cut \in Nat /\ fed \in Nat /\ usbLeft \in Nat
    /\ parts \in Seq(Seq(Int))

Init ==
    /\ pc = "none"
    /\ conf \in [storage : Storages, total : TotalSizes, header : HeaderSizes]
    /\ conf.header = 0 \/ conf.header < conf.total
    /\ conf.storage = "usb" => conf.header = 0
    /\ curSize = 0 /\ partIdx = 0 /\ partSize = 0 /\ fp = FALSE /\ created = FALSE
    /\ pending = 0 /\ cut = 0 /\ fed = 0 /\ usbLeft = 0 /\ gone = FALSE
    /\ \/ parts = <<>>
       \/ ~InParts /\ conf.storage # "usb" /\ parts = <<OldUnits>>
       \/ InParts /\ \E n \in OldParts : parts = [i \in 1..n |-> OldUnits]
-----------------------------------------------------------------------------
(***************************************************************************)
(* The constructor.                                                        *)
(***************************************************************************)

\* fopen(..., "wb") of the part file with the given index.
Truncated(idx) ==
    [i \in 1..(IF idx < Len(parts) THEN Len(parts) ELSE idx + 1) |->
        IF i = idx + 1 THEN <<>> ELSE parts[i]]

\* CheckFreeSpace, or a lookup before it, throws: nothing was touched.
ConstructorThrows ==
    /\ pc = "none"
    /\ pc' = "closed"
    /\ conf.storage \in {"umsFat", "umsExFat"} \/ (conf.storage = "sd" /\ conf.total # 0)
    /\ UNCHANGED <<conf, object, write, parts, usbLeft, gone>>

\* CreateInitialFile succeeds; an empty file is closed at once.  The NSP
\* placeholder is written next.
Construct ==
    /\ pc = "none" /\ ~gone
    /\ created' = TRUE
    /\ parts' = IF conf.storage = "usb" THEN <<>>
                ELSE IF InParts THEN Truncated(0) ELSE <<<<>>>>
    /\ partIdx' = IF InParts THEN 1 ELSE 0
    /\ fp' = (conf.storage # "usb" /\ conf.total # 0)
    /\ usbLeft' = IF conf.storage = "usb" THEN conf.total ELSE 0
    /\ pc' = IF conf.header # 0 THEN "placeholder" ELSE "idle"
    /\ pending' = conf.header
    /\ UNCHANGED <<conf, curSize, partSize, cut, fed, gone>>

\* cur_size != total_size, the file is not all there.
Incomplete == curSize # conf.total

\* What Close removes: nothing when the device is gone.
Removed == IF gone THEN parts ELSE <<>>

\* CreateInitialFile fails: the new file could not be opened, or the host
\* refused it.  Close(true) removes what there is at the path.
CreateFails ==
    /\ pc = "none"
    /\ pc' = "closed"
    /\ parts' = IF Incomplete /\ conf.storage # "usb" THEN Removed ELSE parts
    /\ UNCHANGED <<conf, object, write, usbLeft, gone>>

(***************************************************************************)
(* Write.                                                                  *)
(***************************************************************************)

\* Write never goes past total_size.
WriteSize(n) == Smaller(n, conf.total - curSize)

CanWrite == created /\ curSize < conf.total /\ (conf.storage = "usb" \/ fp)

\* A block of the caller, up to the first fwrite.
Write(n) ==
    /\ pc = "idle" /\ n <= DataSize - fed /\ CanWrite
    /\ pending' = WriteSize(n) /\ cut' = n - WriteSize(n)
    /\ pc' = "writing"
    /\ UNCHANGED <<conf, object, fed, parts, usbLeft, gone>>

\* Its sanity check refuses the block.
WriteRefused ==
    /\ pc = "idle" /\ fed < DataSize /\ ~CanWrite
    /\ pc' = "failed"
    /\ UNCHANGED <<conf, object, write, parts, usbLeft, gone>>

Writing == pc \in {"writing", "placeholder"}

PartFull == partSize >= PartSize

\* OpenNextFile from Write: the current part file has reached its limit.
OpenNextFile ==
    /\ Writing /\ InParts /\ PartFull /\ partIdx < PartCount
    /\ ~gone
    /\ parts' = Truncated(partIdx)
    /\ partIdx' = partIdx + 1 /\ partSize' = 0 /\ fp' = TRUE
    /\ UNCHANGED <<pc, conf, curSize, created, write, usbLeft, gone>>

OpenNextFileFails ==
    /\ Writing /\ InParts /\ PartFull /\ partIdx < PartCount
    /\ fp' = FALSE /\ pc' = "failed"
    /\ UNCHANGED <<conf, curSize, partIdx, partSize, created, write, parts, usbLeft,
                   gone>>

\* The next fwrite: what fits in the part file.
FwriteSize == IF InParts THEN Smaller(pending, PartSize - partSize) ELSE pending

ReadyToWrite == Writing /\ ~(InParts /\ PartFull /\ partIdx < PartCount)

\* n units land in the open file.
Land(n) ==
    parts' = IF conf.storage = "usb" THEN parts
             ELSE LET cur == IF InParts THEN partIdx ELSE 1
                  IN  [parts EXCEPT ![cur] = @ \o SubSeq(Units, 1, n)]

\* fwrite or usbSendFileData succeeds.  When the block is done the caller goes
\* on; after the placeholder the constructor adds nsp_header_size to cur_size,
\* which its own Write has already done.
FwriteDone ==
    /\ ReadyToWrite /\ ~gone
    /\ LET n == FwriteSize IN
       /\ Land(n)
       /\ partSize' = IF InParts THEN partSize + n ELSE partSize
       /\ pending' = pending - n
       /\ usbLeft' = IF conf.storage = "usb" THEN usbLeft - n ELSE 0
       /\ fed' = IF pc = "placeholder" THEN fed
                 ELSE fed + n + (IF pending' = 0 THEN cut ELSE 0)
       /\ curSize' = curSize + n + (IF pc = "placeholder" /\ pending' = 0 THEN conf.header ELSE 0)
    /\ pc' = IF pending' = 0 THEN "idle" ELSE pc
    /\ cut' = IF pending' = 0 THEN 0 ELSE cut
    /\ UNCHANGED <<conf, partIdx, fp, created, gone>>

\* It fails, perhaps half way; a failed usbSendFileData ends the transfer.
FwriteFails ==
    /\ ReadyToWrite /\ FwriteSize # 0
    /\ IF gone THEN parts' = parts
       ELSE \E n \in 0..(FwriteSize - 1) : Land(n)
    /\ usbLeft' = 0
    /\ pc' = "failed"
    /\ UNCHANGED <<conf, object, write, gone>>

(***************************************************************************)
(* WriteNspHeader and Close.                                               *)
(***************************************************************************)

\* The header replaces the placeholder at the start of the (first) file.
WriteNspHeader ==
    /\ pc = "idle" /\ conf.header # 0 /\ fed >= DataSize
    /\ curSize >= conf.total /\ fp /\ ~gone
    /\ parts' = [parts EXCEPT ![1] = HeaderUnits(conf.header)
                                     \o SubSeq(@, conf.header + 1, Len(@))]
    /\ fp' = FALSE
    /\ UNCHANGED <<pc, conf, curSize, partIdx, partSize, created, write, usbLeft, gone>>

WriteNspHeaderFails ==
    /\ pc = "idle" /\ conf.header # 0 /\ fed >= DataSize /\ fp
    /\ pc' = "failed"
    /\ UNCHANGED <<conf, object, write, parts, usbLeft, gone>>

\* Close, called by the destructor: at the end of the file, after a failure or
\* when the task was cancelled between two blocks.
Close ==
    /\ pc \in {"idle", "failed"}
    /\ pc' = "closed" /\ fp' = FALSE
    /\ LET delete == Incomplete /\ created IN
       /\ parts' = IF delete THEN Removed ELSE parts
       /\ usbLeft' = IF delete THEN 0 ELSE usbLeft
    /\ UNCHANGED <<conf, curSize, partIdx, partSize, created, write, gone>>

\* The UMS device, or the USB cable, is unplugged; usbDetectionThreadFunc
\* forgets the transfer.
Unplug ==
    /\ ~gone /\ conf.storage # "sd"
    /\ gone' = TRUE
    /\ usbLeft' = 0
    /\ UNCHANGED <<pc, conf, object, write, parts>>
-----------------------------------------------------------------------------
\* The last block is as long as what is left.
Block(n) == Smaller(n, DataSize - fed)

Caller ==
    \/ \E n \in BlockSizes : fed < DataSize /\ Write(Block(n))
    \/ WriteRefused \/ WriteNspHeader \/ WriteNspHeaderFails \/ Close
Constructor == ConstructorThrows \/ Construct \/ CreateFails
Files == OpenNextFile \/ OpenNextFileFails \/ FwriteDone \/ FwriteFails

Next == Constructor \/ Caller \/ Files \/ Unplug

Spec == Init /\ [][Next]_vars
-----------------------------------------------------------------------------
(***************************************************************************)
(* Properties.                                                             *)
(***************************************************************************)

Finished == pc = "closed" /\ created /\ ~gone
\* The part files of a file without an NSP header, and what is in the i-th.
PartFiles == IF InParts THEN PartCount ELSE 1
PartUnits(i) ==
    LET start == IF InParts THEN (i - 1) * PartSize ELSE 0
        n == IF InParts THEN Smaller(PartSize, conf.total - start) ELSE conf.total
    IN  [j \in 1..n |-> start + j]

\* A file Close leaves on a storage device is the whole file: every unit the
\* caller wrote, once, in order, over all its part files.  Behind them there is
\* nothing but part files of a bigger former dump, which no step removes.
\* It is stated of files without an NSP header, the only ones a caller writes:
\* with one the constructor counts the placeholder twice in cur_size, and Close
\* keeps a file whose last units are missing.
KeptIsWhole ==
    Finished /\ conf.storage # "usb" /\ conf.header = 0 /\ parts # <<>> =>
        /\ PartFiles <= Len(parts)
        /\ \A i \in 1..Len(parts) :
              parts[i] = IF i <= PartFiles THEN PartUnits(i) ELSE OldUnits

\* A dump that stopped early, for whatever reason, is undone by Close: the file is
\* removed (again without an NSP header, for the reason above), and whatever
\* cur_size says no transfer is left open at the USB host.
GivenUpIsUndone ==
    /\ Finished /\ conf.header = 0 /\ fed < DataSize => parts = <<>>
    /\ pc = "closed" => usbLeft = 0

\* No file outgrows FAT32, and Write fills a part file before it opens the
\* next one.
PartsFit ==
    conf.storage = "umsFat" =>
        \A i \in 1..Len(parts) :
            /\ Len(parts[i]) <= Fat32Limit
            /\ InParts /\ i < partIdx => Len(parts[i]) = PartSize

\* Write's recursion over the part files comes to an end.
WriteReturns == Writing ~> ~Writing
=============================================================================
