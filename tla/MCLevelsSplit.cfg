SPECIFICATION Spec
CONSTANTS
    MaxKey = 1
    MaxUpdates = 4
    MaxSnapshots = 1
    MaxErrors = 0
    MaxManual = 0
    ManualBounds = {}
    kNumLevels = 5
    kMaxMemCompactLevel = 2
    kL0_CompactionTrigger = 2
    MaxBytesForLevel1 = 2
    MaxFileSize = 1
    MaxGrandParentOverlap = 2
    ExpandedCompactionLimit = 4
INVARIANTS
    GetIsRight
CHECK_DEADLOCK FALSE
