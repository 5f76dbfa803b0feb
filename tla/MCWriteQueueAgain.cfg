SPECIFICATION WFairSpec
CONSTANTS
    Clients = {}
    kL0_CompactionTrigger = 1
    kL0_SlowdownWritesTrigger = 1
    kL0_StopWritesTrigger = 1
    MaxDebt = 0
    MaxPieces = 0
    MaxSwitches = 0
    MaxErrors = 1
    ParanoidChecks = TRUE
    Threads = {t1, t2}
    MaxBatch = 1
    MaxCalls = 2
    MaxGroupSize = 3
    SmallSize = 1
    WriteBufferSize = 1
INVARIANTS
    SequenceUnique
PROPERTIES
    EveryCallReturns
CHECK_DEADLOCK FALSE
