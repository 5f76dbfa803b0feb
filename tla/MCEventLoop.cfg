SPECIFICATION FairLoopSpec
CONSTANTS
    Workers = {w1, w2}
    Master = master
    NoPid = none
    SEM_VALUE_MAX = 3
    MaxCalls = 2
    MaxDeaths = 1
    MaxDisabled = 1
    MaxConnections = 2
    MaxFaults = 1
INVARIANTS
    MutualExclusion
    NoMissedWakeup
    OneAcceptor
PROPERTIES
    LockReturns
    ConnectionsAccepted
CHECK_DEADLOCK FALSE
