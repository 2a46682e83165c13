-------------------------- MODULE UsbTransfer_proofs --------------------------
(***************************************************************************)
(* Proofs about UsbTransfer, for every packet, block and file size and     *)
(* every way of cutting a file into chunks.                                *)
(***************************************************************************)
EXTENDS UsbTransfer, TLAPS

(***************************************************************************)
(* Packet alignment.                                                       *)
(***************************************************************************)

LEMMA SizeTypes == /\ MaxPacketSize \in Nat /\ MaxPacketSize > 1
                   /\ BlockSize \in Nat /\ BlockSize > 0
  BY SizesAssumption DEF HeaderSize

LEMMA AlignedWitness == ASSUME NEW k \in Nat PROVE IsAligned(k * MaxPacketSize)
  <1>1. k * MaxPacketSize \in Nat /\ k * MaxPacketSize >= k
    BY SizeTypes
  <1>. QED
    BY <1>1 DEF IsAligned

LEMMA AlignedSum ==
    ASSUME NEW a \in Nat, NEW b \in Nat, IsAligned(a), IsAligned(b)
    PROVE  IsAligned(a + b)
  <1>1. PICK j \in 0..a : a = j * MaxPacketSize
    BY DEF IsAligned
  <1>2. PICK k \in 0..b : b = k * MaxPacketSize
    BY DEF IsAligned
  <1>3. a + b = (j + k) * MaxPacketSize
    BY <1>1, <1>2, SizeTypes
  <1>. QED
    BY <1>3, AlignedWitness

\* Two aligned sizes are a whole number of packets apart.
LEMMA AlignedGap ==
    ASSUME NEW a \in Nat, NEW b \in Nat, IsAligned(a), IsAligned(b), a < b
    PROVE  IsAligned(b - a) /\ b - a >= MaxPacketSize
  <1>1. PICK j \in 0..a : a = j * MaxPacketSize
    BY DEF IsAligned
  <1>2. PICK k \in 0..b : b = k * MaxPacketSize
    BY DEF IsAligned
  <1>3. j < k
    BY <1>1, <1>2, SizeTypes
  <1>4. PICK d \in Nat : k = j + d /\ d >= 1
    BY <1>3
  <1>5. b = j * MaxPacketSize + d * MaxPacketSize
    BY <1>2, <1>4, SizeTypes
  <1>6. b - a = d * MaxPacketSize
    BY <1>1, <1>5, SizeTypes
  <1>7. d * MaxPacketSize >= MaxPacketSize
    BY <1>4, SizeTypes
  <1>. QED
    BY <1>4, <1>6, <1>7, AlignedWitness

LEMMA AlignedBasics ==
    /\ IsAligned(0) /\ IsAligned(MaxPacketSize) /\ IsAligned(BlockSize)
    /\ \A n \in 1..(MaxPacketSize - 1) : ~IsAligned(n)
  <1>1. 0 = 0 * MaxPacketSize /\ MaxPacketSize = 1 * MaxPacketSize
    BY SizeTypes
  <1>2. IsAligned(0) /\ IsAligned(MaxPacketSize)
    BY <1>1, AlignedWitness
  <1>3. IsAligned(BlockSize)
    BY SizesAssumption DEF IsAligned
  <1>4. ASSUME NEW n \in 1..(MaxPacketSize - 1), IsAligned(n) PROVE FALSE
    BY <1>2, <1>4, AlignedGap, SizeTypes
  <1>. QED
    BY <1>2, <1>3, <1>4

\* Adding or taking away whole packets does not change alignment.
LEMMA AlignedShift ==
    ASSUME NEW a \in Nat, NEW n \in Nat, IsAligned(a)
    PROVE  IsAligned(a + n) <=> IsAligned(n)
  <1>1. CASE n = 0
    BY <1>1, AlignedBasics
  <1>2. CASE n # 0
    <2>1. IsAligned(n) => IsAligned(a + n)
      BY AlignedSum
    <2>2. IsAligned(a + n) => IsAligned((a + n) - a)
      BY <1>2, AlignedGap
    <2>. QED
      BY <2>1, <2>2
  <1>. QED
    BY <1>1, <1>2

\* The host's read takes a whole block, or all that is left and the room for a
\* ZLT packet exactly if what is left ends on a packet boundary.
LEMMA ReadSizes ==
    ASSUME NEW size \in Nat, NEW off \in Nat, off < size
    PROVE  /\ ReadSize(size, off) \in Nat
           /\ size - off > BlockSize => ReadSize(size, off) = BlockSize
           /\ size - off <= BlockSize =>
                ReadSize(size, off) = IF IsAligned(size - off) THEN size - off + 1
                                      ELSE size - off
  BY SizeTypes DEF ReadSize, Smaller

(***************************************************************************)
(* The inductive invariant.                                                *)
(***************************************************************************)

Reading == hostPc \in {"data", "chunk"}

\* The host's read: what it holds fits, and until it ends it received whole
\* packets of file data only.
HostInv ==
    /\ Reading => /\ offset < fileSize
                  /\ rdSize = ReadSize(fileSize, offset)
                  /\ got <= rdSize
                  /\ offset + got + urb.left <= fileSize
    /\ ~Reading => got = 0
    /\ hostPc # "chunk" => ~foreign
    /\ foreign => got # 0
    /\ hostPc = "data" => IsAligned(got) /\ got < rdSize

UrbInv ==
    /\ urb.what = "none" => urb = NoUrb
    /\ urb.what = "data" <=> devPc = "writing"
    /\ urb.what = "cancel" <=> devPc = "cancel"
    /\ urb.what = "cancel" => urb.left <= 1 /\ ~urb.zlp

\* A transfer that nobody cancelled: no unit of the file is lost or doubled.
Clean(onWire) ==
    /\ result = "none" /\ ~foreign
    /\ Reading => stored = "partial" /\ offset + got + onWire = fileSize
    /\ hostPc = "chunk" => got # 0

\* The console is between two chunks of a file.
BetweenChunks == devPc = "idle" /\ remaining # 0
BetweenInv ==
    BetweenChunks => /\ Reading /\ Clean(remaining)
                     /\ written # 0 => ~zlt

\* A chunk is on the wire.  A ZLT packet is pending for the last chunk exactly
\* if what is left of it is a whole number of packets, and the host does not
\* finish the file before it took that packet.
WritingInv ==
    devPc = "writing" =>
        /\ chunk \in 1..remaining
        /\ hostPc \in {"data", "chunk", "reply"}
        /\ Clean(urb.left + (remaining - chunk))
        /\ chunk # remaining => Reading /\ ~zlt /\ ~urb.zlp
        /\ chunk = remaining =>
              /\ ~UrbDone => (urb.zlp <=> IsAligned(urb.left))
              /\ UrbDone => hostPc # "data"
        /\ hostPc = "chunk" /\ offset + got = fileSize => UrbDone
        /\ hostPc = "reply" => UrbDone /\ stored = "complete"

\* The console waits for the status of the last chunk.
StatusInv ==
    devPc = "status" =>
        /\ remaining = 0 /\ hostPc \in {"chunk", "reply"} /\ Clean(0)
        /\ hostPc = "reply" => stored = "complete"

IdleInv == devPc = "idle" /\ remaining = 0 => hostPc = "header"
CancelInv == devPc \in {"cancel", "cancelStatus"} => remaining = 0
OkInv == result = "ok" => devPc = "idle" /\ remaining = 0 /\ stored = "complete"

IInv == /\ TypeOK /\ HostInv /\ UrbInv /\ BetweenInv /\ WritingInv /\ StatusInv
        /\ IdleInv /\ CancelInv /\ OkInv

LEMMA InitIInv == Init => IInv
  <1>. SUFFICES ASSUME Init PROVE IInv
    OBVIOUS
  <1>1. TypeOK
    BY DEF Init, TypeOK, Urbs, NoUrb
  <1>. QED
    BY <1>1 DEF Init, IInv, HostInv, UrbInv, BetweenInv, BetweenChunks, WritingInv,
                StatusInv, IdleInv, CancelInv, OkInv, Reading, NoUrb

(***************************************************************************)
(* The console's steps.                                                    *)
(***************************************************************************)

LEMMA SendFilePropertiesKeeps ==
    ASSUME IInv, NEW size \in FileSizes, SendFileProperties(size)
    PROVE  IInv'
  <1>1. size \in Nat /\ size > 0
    BY SizesAssumption
  <1>2. /\ ReadSize(size, 0) \in Nat /\ ReadSize(size, 0) > 0 /\ IsAligned(0)
    <2>1. /\ ReadSize(size, 0) \in Nat
          /\ size - 0 > BlockSize => ReadSize(size, 0) = BlockSize
          /\ size - 0 <= BlockSize => ReadSize(size, 0) \in {size - 0, size - 0 + 1}
      BY <1>1, ReadSizes
    <2>. QED
      BY <1>1, <2>1, SizeTypes, AlignedBasics
  <1>3. urb = NoUrb
    BY DEF SendFileProperties, IInv, UrbInv, TypeOK, Urbs
  <1>4. TypeOK'
    BY <1>1, <1>2 DEF SendFileProperties, IInv, TypeOK
  <1>5. HostInv'
    BY <1>1, <1>2, <1>3 DEF SendFileProperties, HostInv, Reading, NoUrb
  <1>6. (UrbInv /\ WritingInv /\ StatusInv /\ IdleInv /\ CancelInv /\ OkInv)'
    BY <1>1, <1>3 DEF SendFileProperties, IInv, UrbInv, WritingInv, StatusInv, IdleInv, CancelInv, OkInv
  <1>7. BetweenInv'
    BY <1>1 DEF SendFileProperties, BetweenInv, BetweenChunks, Clean, Reading
  <1>. QED
    BY <1>4, <1>5, <1>6, <1>7 DEF IInv

\* A size the application may pass to usbSendFileData.
LEMMA ChunkSizes ==
    ASSUME TypeOK, remaining # 0, NEW c \in Chunks
    PROVE  Smaller(c, remaining) \in 1..remaining
  BY SizesAssumption DEF Chunks, Smaller, TypeOK

LEMMA SendFileDataKeeps ==
    ASSUME IInv, NEW size \in 1..remaining, SendFileData(size)
    PROVE  IInv'
  <1>1. BetweenChunks /\ Reading /\ Clean(remaining) /\ (written # 0 => ~zlt)
    BY DEF SendFileData, IInv, BetweenInv, BetweenChunks
  <1>2. urb' = [what |-> "data", left |-> size, zlp |-> zlt' /\ IsAligned(size)]
    BY DEF SendFileData, Post
  <1>3. zlt' \in BOOLEAN /\ zltSent' \in BOOLEAN /\ urb' \in Urbs
    <2>1. zltSent' \in BOOLEAN
      BY Zenon DEF SendFileData, NeedsZlt
    <2>2. zlt' \in BOOLEAN
      BY <2>1, Zenon DEF SendFileData, IInv, TypeOK
    <2>3. urb'.zlp \in BOOLEAN
      BY <1>2
    <2>. QED
      BY <1>2, <2>1, <2>2 DEF Urbs
  <1>4. TypeOK'
    <2>1. /\ devPc' = "writing" /\ chunk' = size
          /\ UNCHANGED <<fileSize, remaining, written, result, session, hostPc, offset,
                         rdSize, got, foreign, stored>>
      BY DEF SendFileData, hostVars
    <2>. QED
      BY <1>3, <2>1 DEF IInv, TypeOK
  <1>5. offset + got + remaining = fileSize
    BY <1>1 DEF Clean
  <1>6. HostInv'
    BY <1>2, <1>5 DEF SendFileData, IInv, TypeOK, HostInv, Reading, hostVars
  <1>7. (UrbInv /\ BetweenInv /\ StatusInv /\ IdleInv /\ CancelInv /\ OkInv)'
    BY <1>1, <1>2 DEF SendFileData, UrbInv, BetweenInv, BetweenChunks, StatusInv, IdleInv, CancelInv,
                      OkInv, Clean
  <1>8. WritingInv'
    <2>1. Clean(urb.left + (remaining - chunk))'
      BY <1>1, <1>2 DEF SendFileData, IInv, TypeOK, Clean, Reading, hostVars
    <2>2. size # remaining => ~zlt' /\ ~urb'.zlp
      BY <1>1, <1>2 DEF SendFileData, NeedsZlt
    <2>3. size = remaining => (urb'.zlp <=> IsAligned(size))
      BY <1>2 DEF SendFileData, NeedsZlt
    <2>4. ~UrbDone'
      BY <1>2 DEF UrbDone
    <2>5. offset + got # fileSize
      BY <1>5 DEF SendFileData, IInv, TypeOK
    <2>. QED
      BY <1>1, <1>2, <2>1, <2>2, <2>3, <2>4, <2>5
      DEF SendFileData, WritingInv, Reading, hostVars
  <1>. QED
    BY <1>4, <1>6, <1>7, <1>8 DEF IInv

LEMMA FileDataWrittenKeeps == IInv /\ FileDataWritten => IInv'
  <1>. SUFFICES ASSUME IInv, FileDataWritten PROVE IInv'
    OBVIOUS
  <1>1. urb.what = "data" /\ urb.left = 0 /\ ~urb.zlp
    BY DEF FileDataWritten, UrbDone, IInv, UrbInv
  <1>2. /\ chunk \in 1..remaining /\ Clean(remaining - chunk)
        /\ chunk # remaining => Reading /\ ~zlt
        /\ chunk = remaining => hostPc \in {"chunk", "reply"}
        /\ hostPc = "reply" => stored = "complete"
    BY <1>1 DEF FileDataWritten, IInv, WritingInv, TypeOK
  <1>3. TypeOK'
    BY <1>2 DEF FileDataWritten, IInv, TypeOK, Urbs, NoUrb, hostVars
  <1>4. (HostInv /\ UrbInv /\ WritingInv /\ IdleInv /\ CancelInv /\ OkInv)'
    BY <1>1, <1>2 DEF FileDataWritten, IInv, HostInv, UrbInv, WritingInv, IdleInv, CancelInv, OkInv,
                      Clean, Reading, NoUrb, hostVars, TypeOK
  <1>5. BetweenInv'
    BY <1>2 DEF FileDataWritten, BetweenInv, BetweenChunks, Clean, Reading, hostVars, IInv,
                TypeOK
  <1>6. StatusInv'
    BY <1>2 DEF FileDataWritten, StatusInv, Clean, Reading, hostVars, IInv, TypeOK
  <1>. QED
    BY <1>3, <1>4, <1>5, <1>6 DEF IInv

LEMMA ReadLastStatusKeeps == IInv /\ ReadLastStatus => IInv'
  <1>. SUFFICES ASSUME IInv, ReadLastStatus PROVE IInv'
    OBVIOUS
  <1>1. remaining = 0 /\ stored = "complete" /\ urb = NoUrb
    BY DEF ReadLastStatus, IInv, StatusInv, UrbInv, TypeOK, Urbs
  <1>2. TypeOK'
    <2>1. zlt' \in BOOLEAN
      BY Zenon DEF ReadLastStatus, IInv, TypeOK
    <2>. QED
      BY <2>1 DEF ReadLastStatus, IInv, TypeOK
  <1>. QED
    BY <1>1, <1>2
    DEF ReadLastStatus, IInv, HostInv, UrbInv, BetweenInv, BetweenChunks, WritingInv,
        StatusInv, IdleInv, CancelInv, OkInv, Reading, NoUrb

LEMMA CancelFileTransferKeeps == IInv /\ CancelFileTransfer => IInv'
  <1>. SUFFICES ASSUME IInv, CancelFileTransfer PROVE IInv'
    OBVIOUS
  <1>1. BetweenChunks /\ Reading /\ Clean(remaining)
    BY DEF CancelFileTransfer, IInv, BetweenInv, BetweenChunks
  <1>2. ~IsAligned(HeaderSize)
    BY AlignedBasics, SizeTypes DEF HeaderSize
  <1>3. urb' = [what |-> "cancel", left |-> 1, zlp |-> FALSE]
    BY <1>2 DEF CancelFileTransfer, Post, HeaderSize
  <1>4. TypeOK'
    BY <1>3 DEF CancelFileTransfer, IInv, TypeOK, Urbs, hostVars
  <1>5. HostInv'
    BY <1>1, <1>3 DEF CancelFileTransfer, IInv, TypeOK, HostInv, Reading, Clean, hostVars
  <1>. QED
    BY <1>1, <1>3, <1>4, <1>5
    DEF CancelFileTransfer, IInv, UrbInv, BetweenInv, BetweenChunks, WritingInv, StatusInv,
        IdleInv, CancelInv, OkInv, Clean

LEMMA CancelWrittenKeeps == IInv /\ CancelWritten => IInv'
  BY DEF CancelWritten, UrbDone, IInv, TypeOK, Urbs, HostInv, UrbInv, BetweenInv,
         BetweenChunks, WritingInv, StatusInv, IdleInv, CancelInv, OkInv, Reading, NoUrb, hostVars

LEMMA ReadCancelStatusKeeps == IInv /\ ReadCancelStatus => IInv'
  BY DEF ReadCancelStatus, IInv, TypeOK, HostInv, UrbInv, BetweenInv, BetweenChunks,
         WritingInv, StatusInv, IdleInv, CancelInv, OkInv, Reading

LEMMA StatusTimeoutKeeps == IInv /\ StatusTimeout => IInv'
  <1>. SUFFICES ASSUME IInv, StatusTimeout PROVE IInv'
    OBVIOUS
  <1>1. zlt' \in BOOLEAN
    BY Zenon DEF StatusTimeout, IInv, TypeOK
  <1>2. TypeOK'
    BY <1>1 DEF StatusTimeout, IInv, TypeOK, hostVars
  <1>. QED
    BY <1>2
    DEF StatusTimeout, IInv, TypeOK, HostInv, UrbInv, BetweenInv, BetweenChunks, WritingInv,
        StatusInv, IdleInv, CancelInv, OkInv, Reading, hostVars

(***************************************************************************)
(* The host's steps.                                                       *)
(***************************************************************************)

\* Once the console gave the file up, only the two ends' own parts matter.
LEMMA FileGivenUp ==
    ASSUME IInv, devPc \in {"cancel", "cancelStatus", "lost"},
           UNCHANGED <<devPc, remaining, result>>, (TypeOK /\ HostInv /\ UrbInv)'
    PROVE  IInv'
  BY DEF IInv, BetweenInv, BetweenChunks, WritingInv, StatusInv, IdleInv, CancelInv, OkInv

\* The host only meets a header, or nothing, in such a file.
LEMMA ForeignMeansGivenUp ==
    IInv /\ hostPc = "chunk" /\ (foreign \/ got = 0)
      => devPc \in {"cancel", "cancelStatus", "lost"}
  BY DEF IInv, TypeOK, BetweenInv, BetweenChunks, WritingInv, StatusInv, IdleInv, Clean

LEMMA HostCancelledKeeps == IInv /\ HostCancelled => IInv'
  <1>. SUFFICES ASSUME IInv, HostCancelled PROVE IInv'
    OBVIOUS
  <1>1. devPc \in {"cancel", "cancelStatus", "lost"}
    BY ForeignMeansGivenUp DEF HostCancelled, IsCancel
  <1>2. (TypeOK /\ HostInv /\ UrbInv)'
    BY DEF HostCancelled, IInv, TypeOK, HostInv, UrbInv, Reading, devVars
  <1>. QED
    BY <1>1, <1>2, FileGivenUp DEF HostCancelled, devVars

LEMMA HostReadTimeoutKeeps == IInv /\ HostReadTimeout => IInv'
  <1>. SUFFICES ASSUME IInv, HostReadTimeout PROVE IInv'
    OBVIOUS
  <1>1. devPc \in {"cancel", "cancelStatus", "lost"}
    BY DEF HostReadTimeout, IInv, StatusInv
  <1>2. (TypeOK /\ HostInv /\ UrbInv)'
    BY DEF HostReadTimeout, IInv, TypeOK, HostInv, UrbInv, Reading, devVars, NoUrb
  <1>. QED
    BY <1>1, <1>2, FileGivenUp DEF HostReadTimeout, devVars

LEMMA HostReadFailedKeeps == IInv /\ HostReadFailed => IInv'
  <1>. SUFFICES ASSUME IInv, HostReadFailed PROVE IInv'
    OBVIOUS
  <1>1. devPc \in {"cancel", "cancelStatus", "lost"}
    BY ForeignMeansGivenUp DEF HostReadFailed
  <1>2. (TypeOK /\ HostInv /\ UrbInv)'
    BY DEF HostReadFailed, IInv, TypeOK, HostInv, UrbInv, Reading, devVars
  <1>. QED
    BY <1>1, <1>2, FileGivenUp DEF HostReadFailed, devVars

\* HostChunk: the block is written and the host reads on or is done.
LEMMA HostChunkKeeps == IInv /\ HostChunk => IInv'
  <1>. SUFFICES ASSUME IInv, HostChunk PROVE IInv'
    OBVIOUS
  <1>1. /\ hostPc = "chunk" /\ got # 0 /\ offset < fileSize
        /\ offset + got + urb.left <= fileSize /\ urb.left \in Nat
    BY DEF HostChunk, IInv, HostInv, Reading, TypeOK, Urbs
  <1>2. offset' \in Nat /\ offset' <= fileSize /\ got' = 0 /\ foreign' = FALSE
    BY <1>1 DEF HostChunk, IInv, TypeOK
  <1>. DEFINE Frame == UNCHANGED <<fileSize, devPc, remaining, written, chunk, zlt, zltSent,
                                   result, session, urb>>
  <1>5. Frame
    BY DEF HostChunk, devVars
  <1>3. CASE offset' < fileSize
    <2>1. /\ rdSize' = ReadSize(fileSize, offset') /\ rdSize' \in Nat /\ rdSize' > 0
      <3>1. /\ ReadSize(fileSize, offset') \in Nat
            /\ fileSize - offset' > BlockSize => ReadSize(fileSize, offset') = BlockSize
            /\ fileSize - offset' <= BlockSize =>
                 ReadSize(fileSize, offset') \in {fileSize - offset', fileSize - offset' + 1}
        BY <1>2, <1>3, ReadSizes DEF IInv, TypeOK
      <3>. QED
        BY <1>2, <1>3, <3>1, SizeTypes DEF HostChunk, IInv, TypeOK
    <2>2. hostPc' = "data" /\ stored' \in {stored, "spoilt"} /\ (~foreign => stored' = stored)
      BY <1>2, <1>3 DEF HostChunk, IInv, TypeOK
    <2>3. (TypeOK /\ UrbInv)'
      <3>1. stored' \in {"none", "partial", "spoilt", "complete", "deleted"}
        BY <2>2 DEF IInv, TypeOK
      <3>. QED
        BY <1>2, <1>5, <2>1, <2>2, <3>1 DEF IInv, TypeOK, UrbInv
    <2>4. HostInv'
      BY <1>1, <1>2, <1>3, <2>1, <2>2, AlignedBasics
      DEF HostChunk, IInv, TypeOK, HostInv, Reading, devVars
    <2>5. CASE foreign
      BY <1>1, <2>3, <2>4, <2>5, ForeignMeansGivenUp, FileGivenUp DEF HostChunk, devVars
    <2>6. CASE ~foreign
      <3>1. offset' + got' = offset + got /\ stored' = stored
        BY <1>1, <1>2, <2>2, <2>6 DEF HostChunk, IInv, TypeOK
      <3>2. BetweenInv'
        BY <1>1, <1>2, <2>2, <3>1
        DEF HostChunk, IInv, BetweenInv, BetweenChunks, Clean, Reading, devVars
      <3>3. devPc # "status"
        BY <1>1, <1>2, <1>3 DEF HostChunk, IInv, TypeOK, StatusInv, Clean, Reading
      <3>4. WritingInv'
        <4>1. SUFFICES ASSUME devPc = "writing" PROVE WritingInv'
          BY DEF HostChunk, WritingInv, devVars
        <4>2. Clean(urb.left + (remaining - chunk)) /\ chunk \in 1..remaining
          BY <4>1 DEF IInv, WritingInv
        <4>3. offset + got + (urb.left + (remaining - chunk)) = fileSize
          BY <1>1, <4>2 DEF Clean, Reading
        <4>5. offset + got < fileSize
          BY <1>1, <1>3 DEF HostChunk, IInv, TypeOK
        <4>6. chunk \in 1..remaining
          BY <4>2
        <4>4. UrbDone => chunk # remaining
          BY <1>1, <4>3, <4>5, <4>6 DEF IInv, TypeOK, UrbDone
        <4>. QED
          BY <1>1, <1>2, <2>2, <3>1, <4>1, <4>2, <4>4
          DEF HostChunk, IInv, WritingInv, Clean, Reading, UrbDone, devVars
      <3>. QED
        BY <2>2, <2>3, <2>4, <3>1, <3>2, <3>3, <3>4, <1>1
        DEF HostChunk, IInv, StatusInv, IdleInv, CancelInv, OkInv, devVars
    <2>. QED
      BY <2>5, <2>6
  <1>4. CASE offset' = fileSize
    <2>1. /\ hostPc' = "reply" /\ rdSize' = rdSize /\ urb.left = 0
          /\ stored' \in {"spoilt", "complete"}
          /\ ~foreign /\ stored = "partial" => stored' = "complete"
      BY <1>1, <1>2, <1>4 DEF HostChunk, IInv, TypeOK
    <2>2. (TypeOK /\ UrbInv /\ HostInv)'
      BY <1>2, <1>5, <2>1 DEF IInv, TypeOK, UrbInv, HostInv, Reading
    <2>3. CASE foreign
      BY <1>1, <2>2, <2>3, ForeignMeansGivenUp, FileGivenUp DEF HostChunk, devVars
    <2>4. CASE ~foreign
      <3>1. ~BetweenChunks
        BY <1>1, <1>4 DEF HostChunk, IInv, TypeOK, BetweenInv, BetweenChunks, Clean, Reading
      <3>2. devPc = "writing" \/ devPc = "status" => stored' = "complete"
        BY <1>1, <2>1, <2>4 DEF IInv, WritingInv, StatusInv, Clean, Reading
      <3>3. devPc = "writing" => UrbDone /\ chunk = remaining
        BY <1>1, <1>4 DEF HostChunk, IInv, TypeOK, WritingInv, Clean, Reading, UrbDone
      <3>4. WritingInv'
        BY <1>1, <1>2, <2>1, <3>2, <3>3
        DEF HostChunk, IInv, WritingInv, Clean, Reading, UrbDone, devVars
      <3>5. StatusInv'
        BY <1>1, <1>2, <2>1, <3>2
        DEF HostChunk, IInv, StatusInv, Clean, Reading, devVars
      <3>. QED
        BY <1>1, <2>1, <2>2, <3>1, <3>4, <3>5
        DEF HostChunk, IInv, BetweenInv, BetweenChunks, IdleInv, CancelInv, OkInv, devVars
    <2>. QED
      BY <2>3, <2>4
  <1>. QED
    BY <1>2, <1>3, <1>4 DEF IInv, TypeOK

(***************************************************************************)
(* The bus.                                                                *)
(***************************************************************************)

\* The next packet: a whole one, or all that is left.
LEMMA NextPacket ==
    ASSUME NEW n \in Nat, NEW p, p = Smaller(n, MaxPacketSize)
    PROVE  p \in Nat /\ p <= n /\ p <= MaxPacketSize /\ (p < MaxPacketSize => p = n)
  BY SizeTypes DEF Smaller

\* While the host reads it has room for a whole packet, or for all that the
\* file has left and, after an aligned end, for the ZLT packet.
LEMMA Room ==
    ASSUME IInv, hostPc = "data", NEW p \in Nat, p <= urb.left, p <= MaxPacketSize
    PROVE  got + p <= rdSize
  <1>1. /\ got \in Nat /\ offset \in Nat /\ fileSize \in Nat /\ urb.left \in Nat
        /\ offset < fileSize /\ rdSize = ReadSize(fileSize, offset)
        /\ offset + got + urb.left <= fileSize /\ IsAligned(got) /\ got < rdSize
    BY DEF IInv, TypeOK, Urbs, HostInv, Reading
  <1>2. CASE fileSize - offset > BlockSize
    <2>1. rdSize = BlockSize
      BY <1>1, <1>2, ReadSizes
    <2>2. BlockSize - got >= MaxPacketSize
      BY <1>1, <2>1, AlignedGap, AlignedBasics, SizeTypes
    <2>. QED
      BY <1>1, <2>1, <2>2, SizeTypes
  <1>3. CASE fileSize - offset <= BlockSize
    <2>3. ReadSize(fileSize, offset) \in {fileSize - offset, fileSize - offset + 1}
      BY <1>1, <1>3, ReadSizes
    <2>1. rdSize >= fileSize - offset
      BY <1>1, <2>3
    <2>2. rdSize \in Nat
      BY DEF IInv, TypeOK
    <2>. QED
      BY <1>1, <2>1, <2>2
  <1>. QED
    BY <1>1, <1>2, <1>3, SizeTypes

\* What a packet does to the two ends, whatever is on the wire.
PacketEffect(p) ==
    /\ p \in Nat /\ p <= urb.left /\ p <= MaxPacketSize
    /\ p < MaxPacketSize => p = urb.left
    /\ urb'.what = urb.what /\ urb'.left = urb.left - p /\ urb'.zlp \in BOOLEAN
    /\ urb'.zlp <=> urb.zlp /\ urb.left # 0
    /\ got' = got + p /\ got + p <= rdSize
    /\ urb.what = "data" => foreign' = FALSE
    /\ hostPc' \in {"data", "chunk"}
    /\ hostPc' = "data" => p = MaxPacketSize /\ got + p < rdSize
    /\ hostPc' = "chunk" /\ p = MaxPacketSize => got + p = rdSize

LEMMA PacketMoves ==
    ASSUME IInv, Packet
    PROVE  TypeOK' /\ \E p \in Nat : p = Smaller(urb.left, MaxPacketSize) /\ PacketEffect(p)
  <1>. DEFINE p == Smaller(urb.left, MaxPacketSize)
  <1>1. urb.left \in Nat /\ urb.zlp \in BOOLEAN /\ got \in Nat /\ rdSize \in Nat
    BY DEF IInv, TypeOK, Urbs
  <1>2. p \in Nat /\ p <= urb.left /\ p <= MaxPacketSize /\ (p < MaxPacketSize => p = urb.left)
    BY <1>1, NextPacket
  <1>3. urb' = [urb EXCEPT !.left = @ - p, !.zlp = @ /\ urb.left # 0]
    BY DEF Packet
  <1>4. urb = [what |-> urb.what, left |-> urb.left, zlp |-> urb.zlp]
    BY DEF IInv, TypeOK, Urbs
  <1>5. urb' = [what |-> urb.what, left |-> urb.left - p, zlp |-> urb.zlp /\ urb.left # 0]
    BY <1>3, <1>4, Zenon
  <1>6. got' = got + p /\ hostPc = "data"
    BY DEF Packet
  <1>7. got + p <= rdSize
    BY <1>2, <1>6, Room
  <1>8. foreign' = (urb.what # "data")
    BY DEF Packet, IInv, HostInv
  <1>9. hostPc' = IF p < MaxPacketSize \/ got' >= rdSize THEN "chunk" ELSE "data"
    BY DEF Packet
  <1>10. urb'.what = urb.what /\ urb'.left = urb.left - p
    BY <1>5
  <1>11. urb'.zlp \in BOOLEAN /\ (urb'.zlp <=> urb.zlp /\ urb.left # 0)
    BY <1>5
  <1>12. foreign' \in BOOLEAN /\ (urb.what = "data" => foreign' = FALSE)
    BY <1>8
  <1>13. hostPc' \in {"data", "chunk"}
    BY <1>9
  <1>14. hostPc' = "data" => p = MaxPacketSize /\ got + p < rdSize
    <2>. HIDE DEF p
    <2>. QED
      BY <1>1, <1>2, <1>6, <1>9, SizeTypes
  <1>15. hostPc' = "chunk" /\ p = MaxPacketSize => got + p = rdSize
    <2>. HIDE DEF p
    <2>. QED
      BY <1>1, <1>2, <1>6, <1>7, <1>9, SizeTypes
  <1>16. TypeOK'
    <2>1. urb'.what \in {"none", "data", "cancel"} /\ urb.left - p \in Nat
      BY <1>1, <1>2, <1>10 DEF IInv, TypeOK, Urbs
    <2>2. urb' \in Urbs
      BY <1>5, <1>10, <1>11, <2>1 DEF Urbs
    <2>3. got' \in Nat
      BY <1>1, <1>2, <1>6
    <2>. QED
      BY <1>12, <1>13, <2>2, <2>3 DEF Packet, IInv, TypeOK, devVars
  <1>17. PacketEffect(p)
    BY <1>2, <1>6, <1>7, <1>10, <1>11, <1>12, <1>13, <1>14, <1>15 DEF PacketEffect
  <1>. QED
    BY <1>2, <1>16, <1>17

\* How alignment moves on with a packet: a full packet keeps it, a short one
\* ends an unaligned rest.
LEMMA AlignedPacket ==
    ASSUME NEW n \in Nat, NEW p \in Nat, p <= n, p <= MaxPacketSize,
           p < MaxPacketSize => p = n
    PROVE  /\ p = MaxPacketSize => (IsAligned(n - p) <=> IsAligned(n))
           /\ p < MaxPacketSize /\ n # 0 => ~IsAligned(n)
  <1>1. CASE p = MaxPacketSize
    <2>1. IsAligned(MaxPacketSize + (n - p)) <=> IsAligned(n - p)
      BY <1>1, AlignedShift, AlignedBasics, SizeTypes
    <2>2. MaxPacketSize + (n - p) = n
      BY <1>1, SizeTypes
    <2>. QED
      BY <1>1, <2>1, <2>2
  <1>2. CASE p < MaxPacketSize
    BY <1>2, AlignedBasics, SizeTypes
  <1>. QED
    BY <1>1, <1>2, SizeTypes

LEMMA PacketKeepsHost == IInv /\ Packet => HostInv' /\ UrbInv'
  <1>. SUFFICES ASSUME IInv, Packet PROVE HostInv' /\ UrbInv'
    OBVIOUS
  <1>1. PICK p \in Nat : p = Smaller(urb.left, MaxPacketSize) /\ PacketEffect(p)
    BY PacketMoves
  <1>2. /\ got \in Nat /\ rdSize \in Nat /\ urb.left \in Nat /\ offset \in Nat
        /\ offset < fileSize /\ fileSize \in Nat
        /\ offset + got + urb.left <= fileSize
    BY DEF Packet, IInv, TypeOK, Urbs, HostInv, Reading
  <1>3. rdSize = ReadSize(fileSize, offset) /\ IsAligned(got)
    BY DEF Packet, IInv, HostInv, Reading
  <1>4. hostPc = "data" /\ urb.what # "none" /\ UNCHANGED <<fileSize, devPc, offset, rdSize>>
    BY DEF Packet, devVars
  <1>5. urb.what # "data" => urb.left = 1 /\ ~urb.zlp
    BY <1>2, <1>4 DEF Packet, IInv, TypeOK, Urbs, UrbInv, UrbDone
  <1>6. urb.what # "data" => p = 1
    BY <1>1, <1>5, SizeTypes DEF Smaller
  <1>7. /\ p <= urb.left /\ urb'.left = urb.left - p /\ got' = got + p /\ got + p <= rdSize
        /\ hostPc' \in {"data", "chunk"} /\ urb'.what = urb.what
        /\ hostPc' = "data" => p = MaxPacketSize /\ got + p < rdSize
        /\ urb.what = "data" => foreign' = FALSE
    BY <1>1 DEF PacketEffect
  <1>8. hostPc' = "data" => IsAligned(got')
    BY <1>2, <1>3, <1>7, AlignedSum, AlignedBasics, SizeTypes
  <1>9. hostPc' = "data" => got' < rdSize' /\ foreign' = FALSE
    BY <1>4, <1>6, <1>7, SizeTypes
  <1>10. foreign' => got' # 0
    BY <1>2, <1>6, <1>7
  <1>11. offset' + got' + urb'.left <= fileSize' /\ offset' < fileSize' /\ got' <= rdSize'
    BY <1>2, <1>4, <1>7
  <1>12. rdSize' = ReadSize(fileSize, offset)' /\ Reading'
    BY <1>3, <1>4, <1>7 DEF ReadSize, Smaller, IsAligned, Reading
  <1>13. hostPc' # "chunk" => hostPc' = "data"
    BY <1>7
  <1>14. HostInv'
    BY <1>8, <1>9, <1>10, <1>11, <1>12, <1>13 DEF HostInv
  <1>15. urb'.zlp => urb.zlp
    BY <1>1 DEF PacketEffect
  <1>16. UrbInv'
    <2>1. urb'.what # "none"
      BY <1>4, <1>7
    <2>2. (urb'.what = "data" <=> devPc' = "writing") /\ (urb'.what = "cancel" <=> devPc' = "cancel")
      BY <1>4, <1>7 DEF IInv, UrbInv
    <2>3. urb'.what = "cancel" => urb'.left <= 1 /\ ~urb'.zlp
      BY <1>2, <1>5, <1>6, <1>7, <1>15
    <2>. QED
      BY <2>1, <2>2, <2>3 DEF UrbInv
  <1>. QED
    BY <1>14, <1>16

LEMMA PacketKeepsWriting ==
    ASSUME IInv, Packet, devPc = "writing"
    PROVE  WritingInv'
  <1>1. PICK p \in Nat : p = Smaller(urb.left, MaxPacketSize) /\ PacketEffect(p)
    BY PacketMoves
  <1>2. urb.what = "data"
    BY DEF IInv, UrbInv
  <1>3. /\ got \in Nat /\ rdSize \in Nat /\ urb.left \in Nat /\ offset \in Nat
        /\ fileSize \in Nat /\ remaining \in Nat /\ chunk \in 1..remaining
    BY DEF IInv, TypeOK, Urbs, WritingInv
  <1>4. /\ offset < fileSize /\ got < rdSize
        /\ offset + got + (urb.left + (remaining - chunk)) = fileSize
    BY DEF Packet, IInv, HostInv, WritingInv, Clean, Reading
  <1>5. rdSize = ReadSize(fileSize, offset) /\ IsAligned(got)
    BY DEF Packet, IInv, HostInv, Reading
  <1>6. stored = "partial" /\ result = "none" /\ hostPc = "data"
    BY DEF Packet, IInv, WritingInv, Clean, Reading
  <1>7. UNCHANGED <<fileSize, devPc, remaining, chunk, zlt, result, offset, rdSize, stored>>
    BY DEF Packet, devVars
  <1>8. urb.left # 0 \/ urb.zlp
    BY <1>2 DEF Packet, UrbDone
  <1>9. chunk # remaining => ~zlt /\ ~urb.zlp
    BY DEF IInv, WritingInv
  <1>10. chunk = remaining => (urb.zlp <=> IsAligned(urb.left))
    BY DEF Packet, IInv, WritingInv
  <1>11. /\ p <= urb.left /\ p <= MaxPacketSize /\ (p < MaxPacketSize => p = urb.left)
         /\ urb'.left = urb.left - p /\ got' = got + p /\ got + p <= rdSize
    BY <1>1 DEF PacketEffect
  <1>12. urb'.what = "data" /\ foreign' = FALSE /\ hostPc' \in {"data", "chunk"}
    BY <1>1, <1>2 DEF PacketEffect
  <1>13. (urb'.zlp => urb.zlp /\ urb.left # 0) /\ (urb.zlp /\ urb.left # 0 => urb'.zlp)
    BY <1>1 DEF PacketEffect
  <1>14. /\ hostPc' = "data" => p = MaxPacketSize
         /\ hostPc' = "chunk" /\ p = MaxPacketSize => got + p = rdSize
    BY <1>1 DEF PacketEffect
  <1>15. urb.left = 0 => chunk = remaining /\ got # 0
    BY <1>3, <1>4, <1>8, <1>9
  <1>16. got' # 0
    <2>1. CASE urb.left = 0
      BY <1>3, <1>11, <1>15, <2>1
    <2>2. CASE urb.left # 0
      <3>1. p # 0
        BY <1>3, <1>11, <2>2, SizeTypes
      <3>. QED
        BY <1>3, <1>11, <3>1
    <2>. QED
      BY <2>1, <2>2
  <1>17. offset' + got' + (urb'.left + (remaining' - chunk')) = fileSize'
    BY <1>3, <1>4, <1>7, <1>11
  <1>18. Clean(urb.left + (remaining - chunk))'
    BY <1>6, <1>7, <1>12, <1>16, <1>17, Zenon DEF Clean
  <1>19. chunk = remaining /\ ~UrbDone' => (urb'.zlp <=> IsAligned(urb'.left))
    <2>. SUFFICES ASSUME chunk = remaining, ~UrbDone'
                  PROVE  urb'.zlp <=> IsAligned(urb'.left)
      OBVIOUS
    <2>1. urb'.left # 0 \/ urb'.zlp
      BY <1>12 DEF UrbDone
    <2>2. urb.left # 0
      BY <1>3, <1>11, <1>13, <2>1
    <2>3. p = MaxPacketSize
      <3>. SUFFICES ASSUME p < MaxPacketSize PROVE FALSE
        BY <1>3, <1>11, SizeTypes
      <3>1. ~IsAligned(urb.left) /\ urb'.left = 0
        BY <1>3, <1>11, <2>2, AlignedPacket
      <3>. QED
        BY <1>10, <1>13, <2>1, <3>1
    <2>4. IsAligned(urb.left - p) <=> IsAligned(urb.left)
      BY <1>3, <1>11, <2>3, AlignedPacket
    <2>. QED
      BY <1>10, <1>11, <1>13, <2>2, <2>4
  <1>20. chunk = remaining /\ UrbDone' => hostPc' # "data"
    <2>. SUFFICES ASSUME chunk = remaining, UrbDone', hostPc' = "data"
                  PROVE  FALSE
      OBVIOUS
    <2>1. urb.left = p /\ ~urb'.zlp /\ p = MaxPacketSize /\ p # 0
      BY <1>3, <1>11, <1>14, SizeTypes DEF UrbDone
    <2>2. IsAligned(urb.left)
      BY <2>1, AlignedBasics
    <2>. QED
      BY <1>10, <1>13, <2>1, <2>2
  <1>21. hostPc' = "chunk" /\ offset' + got' = fileSize' => UrbDone'
    <2>. SUFFICES ASSUME hostPc' = "chunk", offset + got' = fileSize PROVE UrbDone'
      BY <1>7
    <2>1. chunk = remaining /\ p = urb.left /\ urb'.left = 0
      <3>1. got + p + offset = fileSize /\ p <= urb.left
        BY <1>3, <1>11
      <3>2. p = urb.left /\ chunk = remaining
        BY <1>3, <1>4, <3>1
      <3>. QED
        BY <1>3, <1>11, <3>2
    <2>2. SUFFICES ASSUME urb'.zlp PROVE FALSE
      BY <1>12, <2>1 DEF UrbDone
    <2>3. urb.left # 0 /\ IsAligned(urb.left)
      BY <1>10, <1>13, <2>1, <2>2
    <2>4. p = MaxPacketSize
      BY <1>3, <1>11, <2>3, AlignedPacket, SizeTypes
    <2>5. got + urb.left = fileSize - offset
      BY <1>3, <1>4, <2>1
    <2>6. IsAligned(fileSize - offset)
      BY <1>3, <1>5, <2>3, <2>5, AlignedSum
    <2>7. rdSize = fileSize - offset
      BY <1>3, <1>14, <2>1, <2>4, <2>5
    <2>8. fileSize - offset <= BlockSize
      <3>1. fileSize - offset > BlockSize => ReadSize(fileSize, offset) = BlockSize
        BY <1>3, <1>4, ReadSizes
      <3>2. fileSize - offset \in Nat
        BY <1>3, <1>4
      <3>. QED
        BY <1>5, <2>7, <3>1, <3>2, SizeTypes
    <2>9. ReadSize(fileSize, offset) = fileSize - offset + 1
      BY <1>3, <1>4, <2>6, <2>8, ReadSizes
    <2>10. fileSize - offset + 1 # fileSize - offset
      BY <1>3
    <2>. QED
      BY <1>5, <2>7, <2>9, <2>10
  <1>22. WritingInv'
    <2>1. chunk' \in 1..remaining' /\ hostPc' \in {"data", "chunk", "reply"} /\ Reading'
      BY <1>3, <1>7, <1>12 DEF Reading
    <2>2. chunk' # remaining' => ~zlt' /\ ~urb'.zlp
      BY <1>7, <1>9, <1>13
    <2>3. hostPc' # "reply"
      BY <1>12
    <2>. QED
      BY <1>7, <1>18, <1>19, <1>20, <1>21, <2>1, <2>2, <2>3 DEF WritingInv
  <1>. QED
    BY <1>22

LEMMA PacketKeeps == IInv /\ Packet => IInv'
  <1>. SUFFICES ASSUME IInv, Packet PROVE IInv'
    OBVIOUS
  <1>1. TypeOK' /\ HostInv' /\ UrbInv'
    BY PacketMoves, PacketKeepsHost
  <1>2. devPc = "writing" \/ devPc = "cancel"
    BY DEF Packet, IInv, TypeOK, Urbs, UrbInv
  <1>3. CASE devPc = "writing"
    BY <1>1, <1>3, PacketKeepsWriting
    DEF Packet, IInv, BetweenInv, BetweenChunks, StatusInv, IdleInv, CancelInv, OkInv, devVars
  <1>4. CASE devPc = "cancel"
    BY <1>1, <1>4, FileGivenUp DEF Packet, devVars
  <1>. QED
    BY <1>2, <1>3, <1>4

(***************************************************************************)
(* The theorems.                                                           *)
(***************************************************************************)

LEMMA NextKeeps == IInv /\ [Next]_vars => IInv'
  <1>. SUFFICES ASSUME IInv, [Next]_vars PROVE IInv'
    OBVIOUS
  <1>1. ASSUME NEW size \in FileSizes, SendFileProperties(size) PROVE IInv'
    BY <1>1, SendFilePropertiesKeeps
  <1>2. ASSUME NEW c \in Chunks, SendFileData(Smaller(c, remaining)) PROVE IInv'
    <2>1. remaining # 0
      BY <1>2 DEF SendFileData
    <2>2. Smaller(c, remaining) \in 1..remaining
      BY <2>1, ChunkSizes DEF IInv
    <2>. QED
      BY <1>2, <2>2, SendFileDataKeeps
  <1>3. CASE CancelFileTransfer
    BY <1>3, CancelFileTransferKeeps
  <1>4. CASE Console
    BY <1>4, FileDataWrittenKeeps, ReadLastStatusKeeps, CancelWrittenKeeps,
       ReadCancelStatusKeeps, StatusTimeoutKeeps DEF Console
  <1>5. CASE Packet
    BY <1>5, PacketKeeps
  <1>6. CASE Host
    BY <1>6, HostCancelledKeeps, HostChunkKeeps, HostReadTimeoutKeeps, HostReadFailedKeeps
    DEF Host
  <1>7. CASE UNCHANGED vars
    <2>1. UNCHANGED <<fileSize, devPc, remaining, written, chunk, zlt, zltSent, result,
                      session, urb, hostPc, offset, rdSize, got, foreign, stored>>
      BY <1>7 DEF vars, devVars, hostVars
    <2>. QED
      BY <2>1 DEF IInv, TypeOK, HostInv, UrbInv, BetweenInv, BetweenChunks, WritingInv,
                  StatusInv, IdleInv, CancelInv, OkInv, Clean, Reading, UrbDone
  <1>. QED
    BY <1>1, <1>2, <1>3, <1>4, <1>5, <1>6, <1>7 DEF Next, Application

\* The invariant of the data stage, for every packet, block and file size: no
\* unit of a file is lost or doubled between usb.c and nxdt_host.py.
THEOREM DataStage == Spec => []IInv
  <1>. QED
    BY InitIInv, NextKeeps, PTL DEF Spec

\* usb.c and nxdt_host.py keep every variable of the data stage in its type.
THEOREM TypeCorrect == Spec => []TypeOK
  <1>1. IInv => TypeOK
    BY DEF IInv
  <1>. QED
    BY <1>1, DataStage, PTL

\* usbSendFileData's zlt_required and usbHandleSendFileProperties' rd_size
\* agree on ZLT packets for every way of cutting a file into chunks.
THEOREM ZltAlwaysAgreed == Spec => []ZltAgreement
  <1>1. IInv => ZltAgreement
    BY DEF IInv, WritingInv, StatusInv, ZltAgreement
  <1>. QED
    BY <1>1, DataStage, PTL

\* No packet of usbWrite overruns the buffer usbRead posted for it.
THEOREM NeverOverflows == Spec => []NoOverflow
  <1>1. IInv => NoOverflow
    BY DEF IInv, TypeOK, HostInv, NoOverflow
  <1>. QED
    BY <1>1, DataStage, PTL

\* usbSendFileData returns true for the last chunk only if nxdt_host.py wrote
\* the whole file.
THEOREM SuccessIsStored == Spec => []SuccessMeansStored
  <1>1. IInv => SuccessMeansStored
    BY DEF IInv, OkInv, SuccessMeansStored
  <1>. QED
    BY <1>1, DataStage, PTL

(***************************************************************************)
(* Every step of a transfer is a step of FileDelivery, or none.            *)
(***************************************************************************)

\* The cancel header left the console's endpoint.
Delivered == devPc = "cancelStatus" \/ (devPc = "cancel" /\ urb.left = 0)

\* The file of a running host read is not settled, and one that is settled was
\* told about before the next one begins.
OpenInv == /\ Reading => stored \in {"partial", "spoilt"}
           /\ devPc = "idle" /\ remaining = 0 => stored = "none" \/ result # "none"

\* A cancel header finds the file unsettled, and spoils or deletes it.
HeaderInv ==
    /\ devPc \in {"cancel", "cancelStatus"} => result = "none" /\ hostPc # "header"
    /\ devPc = "cancel" /\ urb.left # 0 =>
          Reading /\ stored = "partial" /\ ~foreign /\ (hostPc = "chunk" => got # 0)
    /\ Delivered => /\ hostPc = "chunk" => foreign \/ stored = "spoilt"
                    /\ hostPc # "chunk" => stored \in {"deleted", "spoilt"}

DInv == OpenInv /\ HeaderInv

LEMMA InitDInv == Init => DInv
  BY DEF Init, DInv, OpenInv, HeaderInv, Delivered, Reading

\* The console's steps keep what relates the file to the application.
LEMMA ConsoleKeepsDelivery ==
    ASSUME IInv, IInv', DInv, Application \/ Console
    PROVE  DInv' /\ [Delivery!Next]_<<result, stored>>
  <1>. USE DEF DInv, OpenInv, HeaderInv, Delivered, Reading, Delivery!Next
  <1>1. ASSUME NEW size \in FileSizes, SendFileProperties(size)
        PROVE  DInv' /\ Delivery!Begin
    <2>1. size # 0
      BY SizesAssumption
    <2>. QED
      BY <1>1, <2>1 DEF SendFileProperties, Delivery!Begin
  <1>2. ASSUME NEW size, SendFileData(size)
        PROVE  DInv' /\ UNCHANGED <<result, stored>>
    BY <1>2 DEF SendFileData, hostVars
  <1>3. CASE CancelFileTransfer
    <2>1. Reading /\ Clean(remaining) /\ urb'.left = HeaderSize
      BY <1>3 DEF CancelFileTransfer, IInv, BetweenInv, BetweenChunks, Post
    <2>. QED
      BY <1>3, <2>1 DEF CancelFileTransfer, hostVars, Clean, HeaderSize
  <1>4. CASE FileDataWritten
    <2>1. remaining' = 0 => devPc' = "status"
      BY <1>4 DEF FileDataWritten
    <2>. QED
      BY <1>4, <2>1 DEF FileDataWritten, hostVars
  <1>5. CASE ReadLastStatus
    BY <1>5 DEF ReadLastStatus, IInv, StatusInv, Clean, Delivery!Tell
  <1>6. CASE CancelWritten
    BY <1>6 DEF CancelWritten, UrbDone, hostVars
  <1>7. CASE ReadCancelStatus
    BY <1>7 DEF ReadCancelStatus, Delivery!Tell
  <1>8. CASE StatusTimeout
    <2>1. devPc = "cancelStatus"
      BY <1>8 DEF StatusTimeout, IInv, StatusInv
    <2>. QED
      BY <1>8, <2>1 DEF StatusTimeout, hostVars, Delivery!Tell
  <1>. QED
    BY <1>1, <1>2, <1>3, <1>4, <1>5, <1>6, <1>7, <1>8 DEF Application, Console

\* So do the bus and the host.
LEMMA HostKeepsDelivery ==
    ASSUME IInv, IInv', DInv, Packet \/ Host
    PROVE  DInv' /\ [Delivery!Next]_<<result, stored>>
  <1>. USE DEF DInv, OpenInv, HeaderInv, Delivered, Reading, Delivery!Next
  <1>1. CASE Packet
    <2>1. PICK p \in Nat : p = Smaller(urb.left, MaxPacketSize) /\ PacketEffect(p)
      BY <1>1, PacketMoves
    <2>2. /\ UNCHANGED <<devPc, remaining, result, stored>> /\ hostPc = "data"
          /\ foreign' = (foreign \/ urb.what # "data") /\ hostPc' \in {"data", "chunk"}
      BY <1>1, <2>1 DEF Packet, devVars, PacketEffect
    <2>3. CASE devPc = "cancel"
      <3>1. urb.left = 1 /\ urb.what = "cancel"
        BY <1>1, <2>3 DEF IInv, TypeOK, Urbs, UrbInv, Packet, UrbDone
      <3>2. p = 1 /\ urb'.left = 0 /\ hostPc' = "chunk"
        BY <2>1, <3>1, SizeTypes DEF PacketEffect, Smaller
      <3>. QED
        BY <2>2, <2>3, <3>1, <3>2
    <2>4. CASE devPc # "cancel"
      <3>1. devPc = "writing"
        BY <1>1, <2>4 DEF IInv, TypeOK, Urbs, UrbInv, Packet
      <3>. QED
        BY <2>2, <3>1
    <2>. QED
      BY <2>3, <2>4
  <1>2. CASE HostCancelled
    <2>1. devPc \in {"cancel", "cancelStatus", "lost"}
      BY <1>2, ForeignMeansGivenUp DEF HostCancelled, IsCancel
    <2>. QED
      BY <1>2, <2>1 DEF HostCancelled, IsCancel, devVars, Delivery!Discard
  <1>3. CASE HostChunk
    <2>1. /\ hostPc = "chunk" /\ got # 0 /\ UNCHANGED <<devPc, remaining, result, urb>>
          /\ offset' = offset + got /\ foreign' = FALSE
          /\ hostPc' = IF offset' < fileSize THEN "data" ELSE "reply"
          /\ stored' = IF foreign \/ stored = "spoilt" THEN "spoilt"
                       ELSE IF offset' = fileSize THEN "complete" ELSE stored
      BY <1>3 DEF HostChunk, devVars
    <2>2. OpenInv'
      BY <2>1 DEF IInv, IdleInv
    <2>3. devPc = "cancel" /\ urb.left # 0 => offset' < fileSize /\ offset' # fileSize
      BY <2>1 DEF IInv, TypeOK, Urbs, HostInv
    <2>4. HeaderInv'
      BY <2>1, <2>3
    <2>5. Delivery!Store \/ Delivery!Spoil \/ UNCHANGED <<result, stored>>
      BY <2>1 DEF Delivery!Store, Delivery!Spoil
    <2>. QED
      BY <2>2, <2>4, <2>5
  <1>4. CASE HostReadTimeout
    <2>1. devPc = "cancel" => FALSE
      BY <1>4 DEF HostReadTimeout
    <2>. QED
      BY <1>4, <2>1 DEF HostReadTimeout, devVars
  <1>5. CASE HostReadFailed
    <2>1. devPc \in {"cancel", "cancelStatus", "lost"}
      BY <1>5, ForeignMeansGivenUp DEF HostReadFailed
    <2>. QED
      BY <1>5, <2>1 DEF HostReadFailed, devVars, Delivery!Discard
  <1>. QED
    BY <1>1, <1>2, <1>3, <1>4, <1>5 DEF Host

\* The data stage of usb.c and nxdt_host.py takes only the steps FileDelivery
\* promises: the safety part of ImplementsDelivery, for every size.
THEOREM DeliveryIsSafe == Spec => Delivery!Init /\ [][Delivery!Next]_<<result, stored>>
  <1>1. Init => Delivery!Init
    BY DEF Init, Delivery!Init
  <1>2. IInv /\ IInv' /\ DInv /\ [Next]_vars => DInv' /\ [Delivery!Next]_<<result, stored>>
    <2>. SUFFICES ASSUME IInv, IInv', DInv, [Next]_vars
                  PROVE  DInv' /\ [Delivery!Next]_<<result, stored>>
      OBVIOUS
    <2>1. CASE UNCHANGED vars
      BY <2>1 DEF vars, devVars, hostVars, DInv, OpenInv, HeaderInv, Delivered, Reading
    <2>. QED
      BY <2>1, ConsoleKeepsDelivery, HostKeepsDelivery DEF Next
  <1>. QED
    BY <1>1, <1>2, InitDInv, DataStage, PTL DEF Spec
=============================================================================
