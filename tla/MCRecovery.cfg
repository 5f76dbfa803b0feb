SPECIFICATION Spec
CONSTANTS
    MaxNumber = 8
    MaxWrites = 2
    MaxCrashes = 2
    CrashKinds = {"process"}
    Faults = {"append", "table", "edit", "editsync"}
    MaxFaults = 1
CHECK_DEADLOCK FALSE
INVARIANTS
    
    FilesInUseExist
    SequenceFresh
PROPERTIES
    NoTableOverwritten
