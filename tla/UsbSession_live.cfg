\* A file or an extracted filesystem, every kind of server.
SPECIFICATION FairSpec
CONSTANTS
    MaxNames = 1
    Layouts <- MCLiveLayouts
    ChunkUnits = 3
    JobKinds = {"file", "fs"}
    HostKinds = {"good", "badPacketSize", "badAbi"}
    SlowConsole = FALSE
    Stalls <- MCNoStalls
INVARIANTS
    ExitLeavesNothing
PROPERTIES
    
    SessionRecovers
