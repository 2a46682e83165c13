\* A dump of three blocks, with errors, exceptions and the B button anywhere.
SPECIFICATION FairSpec
CONSTANTS
    Blocks = 3
    MayThrow = TRUE
INVARIANTS
    ReportIsTrue
PROPERTY FrameGoes
CHECK_DEADLOCK FALSE
