SPECIFICATION Spec
CONSTANTS
    MaxKey = 3
    MaxUpdates = 3
    MaxSnapshots = 0
    MaxErrors = 1
    MaxManual = 1
    ManualBounds = {2}
    kNumLevels = 4
    kMaxMemCompactLevel = 1
    kL0_CompactionTrigger = 2
    MaxBytesForLevel1 = 2
    MaxFileSize = 2
    MaxGrandParentOverlap = 1
    ExpandedCompactionLimit = 4

    
    
PROPERTIES
    ManualCovers
CHECK_DEADLOCK FALSE
