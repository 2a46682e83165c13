\* Raw and extracted dumps, with errors and the B button anywhere.
SPECIFICATION FairSpec
CONSTANTS
    Jobs <- MCJobs
INVARIANTS
    OutputIsTrue
    
PROPERTY DumpEnds
CHECK_DEADLOCK FALSE
