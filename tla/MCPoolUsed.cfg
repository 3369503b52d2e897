CONSTANTS
    t1 = t1
    t2 = t2
    Thread <- Threads2
    Words = 3
    Bits = 2
    InitFlags <- Used
    MaxCalls = 3
    Runner <- Runner1
SPECIFICATION FairSpec
INVARIANTS TypeOK ScannedFull UniqueAllocation
PROPERTIES CallEnds
CHECK_DEADLOCK FALSE
