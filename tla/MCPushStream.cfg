SPECIFICATION FairSpec
CONSTANTS
    Workers = {w1, w2}
    Subscribers = {s1, s2}
    LongPollers = {s2}
    Messages = 2
    MaxStored = 1
    MaxDeaths = 1
INVARIANTS
    
    MessageAlive
    NoStranger
CHECK_DEADLOCK FALSE

    
    
