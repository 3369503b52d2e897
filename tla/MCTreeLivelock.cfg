CONSTANTS
    t1 = t1
    t2 = t2
    Thread <- Threads2
    MaxEntries = 10
    MinEntries = 2
    MaxKey = 44
    MaxChunks = 12
    Starts <- LivelockStarts
    Runner <- Runner1
SPECIFICATION FairSpec
PROPERTIES CallsAnswered
