SPECIFICATION FairSpec
CONSTANTS
    Clients = {c1, c2}
    kL0_CompactionTrigger = 1
    kL0_StopWritesTrigger = 2
    MaxDebt = 1
    MaxPieces = 1
    MaxSwitches = 3
    MaxErrors = 1
    ParanoidChecks = TRUE
INVARIANTS
    WorkIsScheduled
    ManualFrameAlive
    NoWorkAfterFree
PROPERTIES
    CompactRangeReturns
    DestructorReturns
    MemTableWrittenOut
CHECK_DEADLOCK FALSE
