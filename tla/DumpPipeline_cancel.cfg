\* A raw dump to a USB host that the user cancels.
SPECIFICATION FairSpec
CONSTANTS
    Jobs <- MCRawJobs
PROPERTY CancelEnds
CHECK_DEADLOCK FALSE
