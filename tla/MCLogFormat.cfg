SPECIFICATION FairSpec
CONSTANTS
    kBlockSize = 6
    kHeaderSize = 2
    Lengths = {0, 2, 3, 9}
    MaxRecords = 2
    Faults = {"append", "read"}
    MaxFaults = 1
    MaxZeros = 6
    InitialOffsets = {0, 3, 6}
INVARIANTS
    OnlyWholeRecords
    GoodLogRead
PROPERTIES
    ReadingEnds
CHECK_DEADLOCK FALSE
