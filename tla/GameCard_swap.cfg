\* Two cards swapped at any time, while an image is read; the application exits.
SPECIFICATION FairSpec
CONSTANTS
    Cards = {c1, c2}
    MaxInserts = 3
    MayExit = TRUE
INVARIANTS
    InfoIsCurrent
    DumpReadsItsAreas
PROPERTY ProcessingEnds
CHECK_DEADLOCK FALSE
