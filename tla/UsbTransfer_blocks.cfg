\* Chunks of one block each, after a key area where the dump prepends one. The
\* behaviour stops when the session is lost: UsbSession takes over from there.
SPECIFICATION FairSpec
CHECK_DEADLOCK FALSE
CONSTANTS
    MaxPacketSize = 4
    BlockSize = 8
    FileSizes <- MCFileSizes
    FirstChunks <- MCFirstChunks
    LaterChunks <- MCFullBlocks
INVARIANTS
    ZltAgreement
PROPERTIES
    CancelKeepsSession
    ImplementsDelivery
