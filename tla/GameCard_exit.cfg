\* gamecardExit while a card is inserted or ejected.
SPECIFICATION FairSpec
CONSTANTS
    Cards = {c1}
    MaxInserts = 1
    MayExit = TRUE
PROPERTY ExitReturns
CHECK_DEADLOCK FALSE
