---------------------------- MODULE GameCardRead ----------------------------
(***************************************************************************)
(* gamecardReadStorageArea: a read at any offset and of any size from the  *)
(* image, which is the normal area followed by the secure area.  Reads of  *)
(* whole pages go straight to the caller's buffer, others through a buffer *)
(* of limited size, with one call of itself for what is left.  The sizes   *)
(* are those gamecardLoadInfo works out.                                   *)
(*                                                                         *)
(* A byte of the image stands for itself: what the caller's buffer holds   *)
(* at i is the place in the image it was read from.                        *)
(***************************************************************************)
EXTENDS Integers

CONSTANTS
    Page,        \* GAMECARD_PAGE_SIZE
    Buffer,      \* GAMECARD_READ_BUFFER_SIZE
    NormalSize,  \* size of the normal area
    SecureSize,  \* size of the secure area
    Reported,    \* what FS says is the size of the secure area
    Capacity,    \* capacity of the card
    Unused,      \* GAMECARD_UNUSED_AREA_SIZE(Capacity)
    SxOs         \* the running CFW is SX OS

ASSUME ReadAssumption ==
    /\ Page \in Nat \ {0} /\ Buffer \in Nat /\ Buffer % Page = 0 /\ Buffer >= Page
    /\ NormalSize \in Nat \ {0} /\ SecureSize \in Nat \ {0} /\ Reported \in Nat \ {0}
    /\ NormalSize % Page = 0 /\ SecureSize % Page = 0
    /\ Capacity \in Nat /\ Unused \in Nat /\ Capacity - (NormalSize + Unused) = SecureSize
    /\ SxOs \in BOOLEAN

\* Only SX OS has FS say another size than that of the secure area
\* (gamecard.c:786).
ASSUME ReportedAssumption == ~SxOs => Reported = SecureSize

VARIABLES
    normal, secure, total,   \* g_gameCard{NormalArea,SecureArea,Total}Size
    at,                      \* where the call is
    first, size,             \* the offset and the size the caller asked for
    offset, left,            \* those of the read that is under way
    rest,                    \* what is left to read from the secure area
    out                      \* the caller's buffer

sizes == <<normal, secure, total>>
call  == <<first, size>>
vars  == <<sizes, at, call, offset, left, rest, out>>

Stale == -1  \* a byte that was never read

TypeOK ==
    /\ normal \in {0, NormalSize} /\ secure \in {0, SecureSize, Reported}
    /\ total \in {0, NormalSize + Reported}
    /\ at \in {"off", "idle", "read", "done", "failed"}
    /\ first \in Nat /\ size \in Nat /\ offset \in Nat /\ left \in Nat /\ rest \in Nat
    /\ out \in [0..size - 1 -> {Stale} \cup Nat]

Init ==
    /\ normal = 0 /\ secure = 0 /\ total = 0 /\ at = "off"
    /\ first = 0 /\ size = 0 /\ offset = 0 /\ left = 0 /\ rest = 0
    /\ out = [i \in 0..-1 |-> Stale]
-----------------------------------------------------------------------------
\* gamecardGetStorageAreasSizes, and what gamecardLoadInfo makes of the sizes
\* under SX OS.
LoadSizes ==
    /\ at = "off"
    /\ normal' = NormalSize
    /\ secure' = IF SxOs THEN Capacity - (NormalSize + Unused) ELSE Reported
    /\ total' = NormalSize + Reported
    /\ at' = "idle"
    /\ UNCHANGED <<call, offset, left, rest, out>>

\* A call that passes the checks.
Call(o, n) ==
    /\ at = "idle" /\ n # 0 /\ o + n <= total
    /\ at' = "read" /\ first' = o /\ size' = n
    /\ offset' = o /\ left' = n /\ rest' = 0
    /\ out' = [i \in 0..n - 1 |-> Stale]
    /\ UNCHANGED sizes

\* The read spans both areas.
Spans == offset < normal /\ offset + left > normal

\* The part in the normal area is read first, by a call of its own.
Split ==
    /\ at = "read" /\ Spans
    /\ rest' = left - (normal - offset) /\ left' = normal - offset
    /\ UNCHANGED <<sizes, at, call, offset, out>>

\* The offset within the area that is open, and where that area begins.
AreaStart == IF offset < normal THEN 0 ELSE normal
AreaSize  == IF offset < normal THEN NormalSize ELSE SecureSize
Base == offset - AreaStart

\* ALIGN_DOWN and ALIGN_UP.
AlignDown(x) == x - (x % Page)
AlignUp(x) == AlignDown(x + Page - 1)

Aligned == Base % Page = 0 /\ left % Page = 0

\* The block of pages around the data, and what of it fits into the buffer.
BlockStart == AlignDown(Base)
BlockSize == AlignUp(Base + left) - BlockStart
DataStart == Base - BlockStart
InOneGo == BlockSize <= Buffer

ChunkSize == IF InOneGo THEN BlockSize ELSE Buffer

OutChunkSize == IF InOneGo THEN left ELSE Buffer - DataStart

\* The call for what is left would have a size of zero, or of less.
NothingLeft == ~InOneGo /\ OutChunkSize >= left

\* n bytes are copied to the caller; src(k) is the k-th.
Copy(n, src(_)) ==
    out' = [i \in DOMAIN out |->
              IF i \in offset - first .. offset - first + n - 1
              THEN src(i - (offset - first)) ELSE out[i]]

\* The read of n bytes is followed by what is left, by the secure area, or by
\* the return to the caller.
Continue(n) ==
    /\ IF n < left THEN offset' = offset + n /\ left' = left - n /\ UNCHANGED <<at, rest>>
       ELSE IF rest # 0 THEN offset' = normal /\ left' = rest /\ rest' = 0 /\ UNCHANGED at
       ELSE at' = "done" /\ UNCHANGED <<offset, left, rest>>
    /\ UNCHANGED <<sizes, call>>

\* Whole pages are read straight into the caller's buffer.
ReadAligned ==
    /\ at = "read" /\ ~Spans /\ Aligned /\ Base + left <= AreaSize
    /\ Copy(left, LAMBDA k : AreaStart + Base + k)
    /\ Continue(left)

\* Other reads go through the buffer.
ReadUnaligned ==
    /\ at = "read" /\ ~Spans /\ ~Aligned /\ BlockStart + ChunkSize <= AreaSize /\ ~NothingLeft
    /\ Copy(OutChunkSize,
            LAMBDA k : IF DataStart + k < ChunkSize THEN AreaStart + BlockStart + DataStart + k
                       ELSE Stale)
    /\ Continue(OutChunkSize)

\* FS refuses to read behind the end of the area, and the function refuses a
\* call of its own with nothing to read.
ReadFails ==
    /\ at = "read" /\ ~Spans
    /\ IF Aligned THEN Base + left > AreaSize
       ELSE BlockStart + ChunkSize > AreaSize \/ NothingLeft
    /\ at' = "failed"
    /\ UNCHANGED <<sizes, call, offset, left, rest, out>>

Return ==
    /\ at \in {"done", "failed"}
    /\ at' = "idle"
    /\ UNCHANGED <<sizes, call, offset, left, rest, out>>

Step == Split \/ ReadAligned \/ ReadUnaligned \/ ReadFails

Next ==
    \/ LoadSizes \/ Step \/ Return
    \/ \E o \in 0..total : \E n \in 0..total : Call(o, n)

Spec == Init /\ [][Next]_vars
-----------------------------------------------------------------------------
\* What the caller gets is the part of the image it asked for, byte for byte.
ReadIsExact == at = "done" => \A i \in 0..size - 1 : out[i] = first + i

\* No read within the two areas is refused, although blocks are widened to
\* whole pages; total may be more than both under SX OS.
ReadSucceeds == at = "failed" => first + size > normal + secure

\* The calls of gamecardReadStorageArea to itself come to an end.
ReadReturns == at = "read" ~> at \in {"done", "failed"}

\* gamecard.h: the total size is the size taken by both areas.  The code does not
\* keep this under SX OS, where the secure area is corrected afterwards.
TotalIsBothAreas == at # "off" => total = normal + secure
=============================================================================
