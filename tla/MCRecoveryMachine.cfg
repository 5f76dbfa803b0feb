SPECIFICATION Spec
CONSTANTS
    MaxNumber = 7
    MaxWrites = 2
    MaxCrashes = 2
    CrashKinds = {"machine"}
    Faults = {"sync"}
    MaxFaults = 1
CHECK_DEADLOCK FALSE
INVARIANTS
    MachineCrashSafe
PROPERTIES
    ImplementsStore
