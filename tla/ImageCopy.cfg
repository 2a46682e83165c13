\* Images of up to eighteen units on pages of two, with a buffer of two pages, under
\* SX OS (the image is said to be two units larger than it is), written to every
\* storage, on either side of the limits of part files.
SPECIFICATION CopySpec
CONSTANTS
    Page = 2
    Buffer = 4
    NormalSize = 6
    SecureSize = 8
    Reported = 10
    Capacity = 15
    Unused = 1
    SxOs = TRUE
    KeyArea = 2
    PartSize = 3
    Fat32Limit = 4
    Storages = {"sd", "umsFat", "umsExFat", "usb"}
    TotalSizes = {0, 1, 3, 4, 5, 7, 10, 18}
    HeaderSizes = {0, 2}
    BlockSizes = {1, 2, 9}
    OldParts = {0, 2, 7}
INVARIANTS
    FileIsImage
PROPERTY CopyReturns
CHECK_DEADLOCK FALSE
