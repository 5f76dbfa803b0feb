SPECIFICATION FairSpec
CONSTANTS
    N = 1
    KillDelay = 60
    Signals = {"TERM", "QUIT", "HUP", "WINCH", "USR1", "USR2"}
    MaxSignals = 3
    Faults = {"respawn", "start", "init", "exec"}
    MaxIncidents = 2
INVARIANTS
    
    OldRetired
    SomebodyServes
PROPERTIES
    TerminateEnds
    QuitEnds
CHECK_DEADLOCK FALSE
