SPECIFICATION WSpec
CONSTANTS
    Clients = {}
    kL0_CompactionTrigger = 1
    kL0_SlowdownWritesTrigger = 1
    kL0_StopWritesTrigger = 1
    MaxDebt = 0
    MaxPieces = 0
    MaxSwitches = 0
    MaxErrors = 1
    ParanoidChecks = TRUE
    Threads = {t1, t2, t3}
    MaxBatch = 2
    MaxCalls = 1
    MaxGroupSize = 3
    SmallSize = 1
    WriteBufferSize = 1
INVARIANTS
    BatchesInOrder
    AnswerIsTrue
    WriteAhead
PROPERTIES
    ReadsStable
SYMMETRY ThreadSymmetry
CHECK_DEADLOCK FALSE
