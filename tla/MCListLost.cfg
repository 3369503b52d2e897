CONSTANTS
    t1 = t1
    t2 = t2
    Thread <- Threads2
    MaxEntries = 8
    MinEntries = 1
    MaxKey = 4
    Root = FALSE
    InitList <- MixedList
    Work <- MixedWork
    MaxCalls = 1
    Runner <- NoRunner
SPECIFICATION Spec
SYMMETRY Symmetry
INVARIANTS InsertedKeysFound
