SPECIFICATION FairSpec
CONSTANTS
    t1 = t1
    t2 = t2
    p1 = p1
    p2 = p2
    Threads <- TwoThreads
    Payloads <- TwoPayloads
    MaxLoads = 2
INVARIANTS
    TypeOK
    OneCommandAtATime
    NoOrphanProcess
PROPERTIES
    UnloadEnds
CHECK_DEADLOCK FALSE
