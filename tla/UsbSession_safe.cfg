\* NSPs, files and extracted filesystems, with the cable and the server at the
\* user's mercy.
SPECIFICATION Spec
CONSTANTS
    MaxNames = 3
    Layouts <- MCLayouts
    ChunkUnits = 3
    JobKinds = {"file", "fs", "nsp"}
    HostKinds = {"good"}
    SlowConsole = TRUE
    Stalls <- HarmlessStalls
INVARIANTS
    StageAgrees
    SuccessMeansStored
