CONSTANTS
    t1 = t1
    t2 = t2
    Thread <- Threads2
    MaxEntries = 3
    MinEntries = 1
    MaxKey = 4
    Root = TRUE
    InitList <- BelowList
    Work <- BelowWork
    MaxCalls = 2
    Runner <- NoRunner
SPECIFICATION Spec
SYMMETRY Symmetry
INVARIANTS ListIsContent SettledComplete CounterExact NeverInsertDeleted
