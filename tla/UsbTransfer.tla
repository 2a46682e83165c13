----------------------------- MODULE UsbTransfer -----------------------------
(***************************************************************************)
(* The data stage of one SendFileProperties command, packet by packet:     *)
(* usb.c on the console cuts a file into chunks, the bulk endpoint cuts a  *)
(* chunk into packets, and nxdt_host.py reads the packets back in blocks   *)
(* of its own.  Neither side tells the other where its chunks end: a host  *)
(* read ends when its buffer is full or when a packet is short, so both    *)
(* must agree on when a Zero Length Termination (ZLT) packet is sent, and  *)
(* a CancelFileTransfer header is only recognised when a read returns      *)
(* nothing else.                                                           *)
(*                                                                         *)
(* The command exchange around the data stage is the subject of            *)
(* UsbSession; here usbSendFileProperties is one step.  Sizes are in units *)
(* of sizeof(UsbCommandHeader).                                            *)
(***************************************************************************)
EXTENDS Integers

CONSTANTS
    MaxPacketSize,    \* g_usbEndpointMaxPacketSize = g_usbEpMaxPacketSize
    BlockSize,        \* USB_TRANSFER_BUFFER_SIZE = USB_TRANSFER_BLOCK_SIZE
    FileSizes,        \* sizes of the files the application dumps
    FirstChunks,      \* sizes it may use for the first chunk of a file
    LaterChunks       \* sizes it may use for the chunks after it

\* The header takes one unit.  The block is a whole number of packets
\* (0x800000 against 0x40, 0x200 or 0x400) and a header is a short packet.
HeaderSize == 1

ASSUME SizesAssumption ==
    /\ MaxPacketSize \in Nat /\ MaxPacketSize > HeaderSize
    /\ BlockSize \in Nat \ {0}
    /\ \E k \in 0..BlockSize : BlockSize = k * MaxPacketSize
    /\ FileSizes \subseteq Nat \ {0}
    /\ FirstChunks \subseteq 1..BlockSize
    /\ LaterChunks \subseteq 1..BlockSize

VARIABLES
    fileSize,     \* size of the file being transferred
    devPc,        \* where the console's calling thread is
    remaining,    \* g_usbTransferRemainingSize
    written,      \* g_usbTransferWrittenSize
    chunk,        \* data_size of the running usbSendFileData
    zlt,          \* ZLT setting of the IN endpoint
    zltSent,      \* zlt_required of the running usbSendFileData
    result,       \* what the API told the application about the file
    session,      \* g_usbSessionStarted
    urb,          \* the buffer posted on the IN endpoint
    hostPc,       \* where nxdt_host.py is
    offset,       \* offset, in usbHandleSendFileProperties
    rdSize,       \* rd_size of the running usbRead
    got,          \* units received by the running usbRead
    foreign,      \* the running usbRead received units that are not file data
    stored        \* what became of the output file

devVars  == <<devPc, remaining, written, chunk, zlt, zltSent, result, session>>
hostVars == <<hostPc, offset, rdSize, got, foreign, stored>>
vars     == <<fileSize, devVars, urb, hostVars>>

NoUrb == [what |-> "none", left |-> 0, zlp |-> FALSE]
Urbs  == [what : {"none", "data", "cancel"}, left : Nat, zlp : BOOLEAN]

Smaller(a, b) == IF a < b THEN a ELSE b
\* IS_ALIGNED and utilsIsValueAlignedToEndpointPacketSize.
IsAligned(n) == \E k \in 0..n : n = k * MaxPacketSize

TypeOK ==
    /\ fileSize \in Nat
    /\ devPc \in {"idle", "writing", "status", "cancel", "cancelStatus", "lost"}
    /\ remaining \in Nat /\ written \in Nat /\ chunk \in Nat
    /\ zlt \in BOOLEAN /\ zltSent \in BOOLEAN /\ session \in BOOLEAN
    /\ result \in {"none", "ok", "failed", "cancelled"}
    /\ urb \in Urbs
    /\ hostPc \in {"header", "data", "chunk", "reply", "stopped"}
    /\ offset \in Nat /\ rdSize \in Nat /\ got \in Nat /\ foreign \in BOOLEAN
    /\ stored \in {"none", "partial", "spoilt", "complete", "deleted"}

\* A buffer on the IN endpoint; the driver appends a zero length packet when
\* the setting is on and the buffer ends on a packet boundary.
Post(what, size) ==
    urb' = [what |-> what, left |-> size, zlp |-> zlt' /\ IsAligned(size)]

UrbDone == urb.what # "none" /\ urb.left = 0 /\ ~urb.zlp

\* rd_size of the host's read at offset off of a file of the given size, which
\* makes room for the ZLT packet it expects after an aligned last block.
ReadSize(size, off) ==
    LET blksize == Smaller(BlockSize, size - off)
    IN  IF off + blksize >= size /\ IsAligned(blksize) THEN blksize + 1 ELSE blksize

IsCancelOnePacket == got = MaxPacketSize /\ foreign

\* The read returned a CancelFileTransfer header and nothing else.
IsCancel == got = HeaderSize /\ foreign

Init ==
    /\ fileSize = 0
    /\ devPc = "idle" /\ remaining = 0 /\ written = 0 /\ chunk = 0
    /\ zlt \in BOOLEAN /\ zltSent = FALSE
    /\ result = "none" /\ session = TRUE
    /\ urb = NoUrb
    /\ hostPc = "header" /\ offset = 0 /\ rdSize = 0 /\ got = 0
    /\ foreign = FALSE /\ stored = "none"
-----------------------------------------------------------------------------
(***************************************************************************)
(* The console.                                                            *)
(***************************************************************************)

\* usbSendFileProperties and its handler: the host answers Success and enters
\* the data stage.
SendFileProperties(size) ==
    /\ devPc = "idle" /\ session /\ remaining = 0
    /\ hostPc = "header"
    /\ fileSize' = size
    /\ remaining' = size /\ written' = 0 /\ result' = "none"
    /\ hostPc' = "data" /\ offset' = 0 /\ got' = 0 /\ foreign' = FALSE
    /\ rdSize' = ReadSize(size, 0)
    /\ stored' = "partial"
    /\ UNCHANGED <<devPc, chunk, zlt, zltSent, session, urb>>

\* zlt_required of usbSendFileData, and a mutant: never.
NoZlt(size) == FALSE
NeedsZlt(size) == size = remaining /\ IsAligned(size)

\* usbSendFileData up to the call of usbWrite.
SendFileData(size) ==
    /\ devPc = "idle" /\ session
    /\ remaining # 0 /\ size # 0 /\ size <= BlockSize /\ size <= remaining
    /\ zltSent' = NeedsZlt(size)
    /\ zlt' = IF zltSent' THEN TRUE
              ELSE IF size # remaining /\ written = 0 THEN FALSE ELSE zlt
    /\ Post("data", size)
    /\ chunk' = size
    /\ devPc' = "writing"
    /\ UNCHANGED <<fileSize, remaining, written, result, session, hostVars>>

\* usbWrite returned true: the rest of usbSendFileData up to its status read.
FileDataWritten ==
    /\ devPc = "writing" /\ UrbDone
    /\ remaining' = remaining - chunk
    /\ written' = written + chunk
    /\ urb' = NoUrb
    /\ devPc' = IF remaining' = 0 THEN "status" ELSE "idle"
    /\ UNCHANGED <<fileSize, chunk, zlt, zltSent, result, session, hostVars>>

\* The status block after the last chunk arrives.
ReadLastStatus ==
    /\ devPc = "status" /\ hostPc = "reply"
    /\ devPc' = "idle" /\ result' = "ok"
    /\ zlt' = IF zltSent THEN FALSE ELSE zlt
    /\ hostPc' = "header"
    /\ UNCHANGED <<fileSize, remaining, written, chunk, zltSent, session, urb,
                   offset, rdSize, got, foreign, stored>>

\* Mutant of CancelFileTransfer: reports the cancellation before it happened.
CancelFileTransferToldFirst ==
    /\ devPc = "idle" /\ session /\ remaining # 0
    /\ remaining' = 0 /\ written' = 0 /\ result' = "cancelled"
    /\ zlt' = zlt
    /\ Post("cancel", HeaderSize)
    /\ devPc' = "cancel"
    /\ UNCHANGED <<fileSize, chunk, zltSent, session, hostVars>>

\* usbCancelFileTransfer up to the call of usbWrite in usbSendCommand.
CancelFileTransfer ==
    /\ devPc = "idle" /\ session /\ remaining # 0
    /\ remaining' = 0 /\ written' = 0
    /\ zlt' = zlt
    /\ Post("cancel", HeaderSize)
    /\ devPc' = "cancel"
    /\ UNCHANGED <<fileSize, chunk, zltSent, result, session, hostVars>>

CancelWritten ==
    /\ devPc = "cancel" /\ UrbDone
    /\ urb' = NoUrb
    /\ devPc' = "cancelStatus"
    /\ UNCHANGED <<fileSize, remaining, written, chunk, zlt, zltSent, result,
                   session, hostVars>>

\* The answer to CancelFileTransfer; the console does not look at it.
ReadCancelStatus ==
    /\ devPc = "cancelStatus" /\ hostPc = "reply"
    /\ devPc' = "idle" /\ result' = "cancelled"
    /\ hostPc' = "header"
    /\ UNCHANGED <<fileSize, remaining, written, chunk, zlt, zltSent, session,
                   urb, offset, rdSize, got, foreign, stored>>

\* usbTransferData gives up after USB_TRANSFER_TIMEOUT, cancels the URB and
\* asks the detection thread for a new session.  Both peers are live, so a
\* status is late only when the host will not move: it stopped, or it reads
\* while the console has nothing left to send.
StatusTimeout ==
    /\ devPc \in {"status", "cancelStatus"} /\ hostPc \in {"data", "stopped"}
    /\ devPc' = "lost" /\ session' = FALSE
    /\ result' = IF devPc = "status" THEN "failed" ELSE "cancelled"
    /\ remaining' = 0 /\ written' = 0
    /\ zlt' = IF zltSent THEN FALSE ELSE zlt
    /\ UNCHANGED <<fileSize, chunk, zltSent, urb, hostVars>>
-----------------------------------------------------------------------------
(***************************************************************************)
(* The bus: one packet moves when the console has posted one and the host  *)
(* reads.  A read completes on a short packet or when its buffer is full.  *)
(***************************************************************************)
Packet ==
    /\ hostPc = "data" /\ urb.what # "none" /\ ~UrbDone
    /\ LET p == Smaller(urb.left, MaxPacketSize) IN
       /\ urb' = [urb EXCEPT !.left = @ - p, !.zlp = @ /\ urb.left # 0]
       /\ got' = got + p
       /\ foreign' = (foreign \/ urb.what # "data")
       /\ hostPc' = IF p < MaxPacketSize \/ got' >= rdSize THEN "chunk" ELSE "data"
    /\ UNCHANGED <<fileSize, devVars, offset, rdSize, stored>>
-----------------------------------------------------------------------------
(***************************************************************************)
(* The host.                                                               *)
(***************************************************************************)

\* CancelFileTransfer within the data stage.
HostCancelled ==
    /\ hostPc = "chunk" /\ IsCancel
    /\ stored' = "deleted" /\ hostPc' = "reply"
    /\ got' = 0 /\ foreign' = FALSE
    /\ UNCHANGED <<fileSize, devVars, urb, offset, rdSize>>

\* The read returned a block: write it and read on until offset = file_size.
HostChunk ==
    /\ hostPc = "chunk" /\ got # 0 /\ ~IsCancel
    /\ offset' = offset + got
    /\ got' = 0 /\ foreign' = FALSE
    /\ hostPc' = IF offset' < fileSize THEN "data" ELSE "reply"
    /\ rdSize' = IF offset' < fileSize THEN ReadSize(fileSize, offset') ELSE rdSize
    /\ stored' = IF foreign \/ stored = "spoilt" THEN "spoilt"
                 ELSE IF offset' = fileSize THEN "complete" ELSE stored
    /\ UNCHANGED <<fileSize, devVars, urb>>

\* No packet came for USB_TRANSFER_TIMEOUT: usbRead returns an empty block,
\* even when the read had received some data.
HostReadTimeout ==
    /\ hostPc = "data" /\ urb.what = "none"
    /\ devPc \in {"status", "cancelStatus", "lost"}
    /\ hostPc' = "chunk" /\ got' = 0
    /\ UNCHANGED <<fileSize, devVars, urb, offset, rdSize, foreign, stored>>

\* The read returned nothing: the handler deletes the file, the server stops.
HostReadFailed ==
    /\ hostPc = "chunk" /\ got = 0
    /\ stored' = "deleted" /\ hostPc' = "stopped"
    /\ UNCHANGED <<fileSize, devVars, urb, offset, rdSize, got, foreign>>
-----------------------------------------------------------------------------
Chunks == IF written = 0 THEN FirstChunks ELSE LaterChunks

Application ==
    \/ \E size \in FileSizes : SendFileProperties(size)
    \/ \E size \in Chunks : SendFileData(Smaller(size, remaining))
    \/ CancelFileTransfer

Console == FileDataWritten \/ ReadLastStatus \/ CancelWritten \/ ReadCancelStatus
           \/ StatusTimeout

Host == HostCancelled \/ HostChunk \/ HostReadTimeout \/ HostReadFailed

Next == Application \/ Console \/ Packet \/ Host

Spec == Init /\ [][Next]_vars

\* Both processes and the bus keep running; the application finishes the file
\* it started, or cancels it.
ContinueFile ==
    \/ \E size \in Chunks : SendFileData(Smaller(size, remaining))
    \/ CancelFileTransfer

FairSpec == Spec /\ WF_vars(Console) /\ WF_vars(Packet) /\ WF_vars(Host)
                 /\ WF_vars(ContinueFile)
-----------------------------------------------------------------------------
(***************************************************************************)
(* Properties.                                                             *)
(***************************************************************************)

\* The two ends agree on ZLT packets however the file is cut into chunks: the
\* host is done with an intact file only when usbSendFileData has nothing left
\* on the wire, and does not wait for more once the console waits for status.
ZltAgreement ==
    /\ (hostPc = "reply" /\ stored = "complete" /\ devPc = "writing") => UrbDone
    /\ devPc = "status" => hostPc # "data"

\* No packet overruns the buffer of the host read that receives it (libusb
\* fails such a read and the server stops).
NoOverflow == got <= rdSize

\* usbSendFileData reports the file as sent only if the host stored all of it
\* and nothing but it.
SuccessMeansStored == result = "ok" => stored = "complete"

\* The CancelFileTransfer header is on the wire and no host read is waiting
\* for the rest of its block.
CancelBetweenReads ==
    devPc = "cancel" /\ urb.left # 0 /\ (hostPc = "data" => got = 0)

\* A cancel that reaches the host between two of its reads is recognised: the
\* file is removed and the USB session stays alive (usb.h, host/README.md).
\* A cancel that falls into a partly filled read is taken for file data, which
\* a first chunk shorter than a block makes possible.
CancelKeepsSession ==
    CancelBetweenReads ~> (result = "cancelled" /\ session /\ stored = "deleted")

\* What a transfer promises, free of packets and blocks.
Delivery == INSTANCE FileDelivery WITH told <- result
ImplementsDelivery == Delivery!Spec
=============================================================================
