----------------------------- MODULE ImageCopy -----------------------------
(***************************************************************************)
(* What GameCardImageDumpTask::DoInBackground does with the card and the   *)
(* file: gamecardReadStorage fills a buffer, FileWriter::Write takes it    *)
(* over, block by block, behind the key area if it is prepended.  The      *)
(* reads are those of GameCardRead, the file that of FileWriter, both with *)
(* every step of their own.                                                *)
(***************************************************************************)
EXTENDS GameCardRead, Sequences

CONSTANTS
    KeyArea,     \* sizeof(GameCardKeyArea), in units of the image
    PartSize, Fat32Limit, Storages, TotalSizes, HeaderSizes, BlockSizes, OldParts

ASSUME SizesAssumption ==
    /\ KeyArea \in Nat \ {0}
    /\ PartSize \in Nat \ {0} /\ Fat32Limit \in Nat /\ PartSize <= Fat32Limit
    /\ Storages \subseteq {"sd", "umsFat", "umsExFat", "usb"}
    /\ TotalSizes \subseteq Nat /\ HeaderSizes \subseteq 0..PartSize
    /\ BlockSizes \subseteq Nat \ {0} /\ OldParts \subseteq Nat

VARIABLES
    pc, conf, curSize, partIdx, partSize, fp, created, pending, cut, fed, parts, usbLeft, gone,
    prepends     \* prepend_key_area

W == INSTANCE FileWriter
card == vars
file == <<pc, conf, curSize, partIdx, partSize, fp, created, pending, cut, fed, parts, usbLeft, gone>>
copyvars == <<card, file, prepends>>

CopyInit ==
    /\ Init /\ W!Init
    /\ prepends \in BOOLEAN
    /\ prepends => conf.total - conf.header > KeyArea
-----------------------------------------------------------------------------
\* Where the next unit of the file is in the image.
KeySize == IF prepends THEN KeyArea ELSE 0
ImageOffset == fed - KeySize
Copying == pc = "idle" /\ fed >= KeySize /\ fed < W!DataSize

\* The image size is asked for before the file is created.
GetSize == LoadSizes /\ pc = "none" /\ UNCHANGED <<file, prepends>>
File == at # "off" /\ (W!Constructor \/ W!Files) /\ UNCHANGED <<card, prepends>>

\* The key area goes out in one call.
WriteKeyArea ==
    /\ prepends /\ fed = 0 /\ W!Write(KeyArea)
    /\ UNCHANGED <<card, prepends>>

\* A mutated form: the offset counts the key area.
ReadBlockAtFileOffset(n) ==
    /\ Copying /\ Call(fed, W!Block(n))
    /\ UNCHANGED <<file, prepends>>

\* A block is read ...
ReadBlock(n) ==
    /\ Copying /\ Call(ImageOffset, W!Block(n))
    /\ UNCHANGED <<file, prepends>>
\* ... and written, if it could be.
WriteBlock ==
    /\ Copying /\ at = "done" /\ Return
    /\ W!Write(size) \/ W!WriteRefused
    /\ UNCHANGED prepends
\* An image that is smaller than was said cannot be read to its end, and every
\* failure or cancel leads to the destructor.
Stops ==
    /\ pc \in {"idle", "failed"} /\ at \in {"idle", "done", "failed"}
    /\ W!Close
    /\ at' = "idle" /\ UNCHANGED <<sizes, call, offset, left, rest, out, prepends>>
\* What the class offers for NSPs: the header is written last.
Nsp == at = "idle" /\ (W!WriteNspHeader \/ W!WriteNspHeaderFails) /\ UNCHANGED <<card, prepends>>

CardStep == Step /\ UNCHANGED <<file, prepends>>
Unplugged == W!Unplug /\ UNCHANGED <<card, prepends>>

\* Other readers of the card, while nothing is copied.
OtherRead ==
    /\ pc = "none" /\ conf.total = 0 /\ ~gone
    /\ Return \/ \E o \in 0..total : \E n \in 0..total : Call(o, n)
    /\ UNCHANGED <<file, prepends>>

Copies == WriteKeyArea \/ WriteBlock \/ Stops \/ \E n \in BlockSizes : ReadBlock(n)
CopyNext == GetSize \/ File \/ Copies \/ Nsp \/ CardStep \/ Unplugged \/ OtherRead

\* A read and a write run to their ends.
CopySpec == CopyInit /\ [][CopyNext]_copyvars /\ WF_copyvars(CardStep) /\ WF_copyvars(File)
-----------------------------------------------------------------------------
\* The file that is kept is the image, behind the key area if it was asked for:
\* whatever the block that is about to be written straddles, pages, the two
\* areas of the card or the buffer, it holds the bytes of the image that come
\* next in the file, and none within the image is refused; a file Close leaves
\* on a storage device has every unit its caller wrote, once, in order, over all
\* its parts, none of them too big for FAT32; what was given up is gone (the
\* parts are FileWriter's, with their exceptions).
FileIsImage ==
    /\ Copying /\ at = "done" => /\ size <= W!DataSize - fed
                                 /\ \A i \in 0..size - 1 : out[i] = ImageOffset + i
    /\ ReadIsExact /\ ReadSucceeds
    /\ W!KeptIsWhole /\ W!GivenUpIsUndone /\ W!PartsFit

\* The calls of gamecardReadStorageArea to itself come to an end, and so do those of
\* Write, one per part file.
CopyReturns == ReadReturns /\ W!WriteReturns
=============================================================================
