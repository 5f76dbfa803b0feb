SPECIFICATION Spec
CONSTANTS
    MaxKey = 2
    MaxUpdates = 4
    MaxSnapshots = 1
    MaxErrors = 0
    MaxManual = 0
    ManualBounds = {}
    kNumLevels = 4
    kMaxMemCompactLevel = 0
    kL0_CompactionTrigger = 3
    MaxBytesForLevel1 = 2
    MaxFileSize = 9
    MaxGrandParentOverlap = 9
    ExpandedCompactionLimit = 4
INVARIANTS
    IteratorIsRight
CHECK_DEADLOCK FALSE
