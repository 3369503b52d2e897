CONSTANTS
    t1 = t1
    t2 = t2
    Thread <- Threads2
    MaxEntries = 3
    MinEntries = 1
    MaxKey = 4
    Root = FALSE
    InitList <- DeleteList
    Work <- DeleteWork
    MaxCalls = 2
    Runner <- Runner1
SPECIFICATION FairSpec
INVARIANTS TypeOK MinimumKept DecisionAgreement
PROPERTIES CallsAnswered
