CONSTANTS
    t1 = t1
    t2 = t2
    Thread <- Threads2
    MaxEntries = 10
    MinEntries = 2
    MaxKey = 44
    MaxChunks = 18
    Starts <- StallStarts
    Runner <- Runner1
SPECIFICATION FairSpec
INVARIANTS TypeOK MovesSafe Balanced KeysInPlace RestsClean MergesNeighbours StartTogether
PROPERTIES SetUnlessMisled CallsAnswered FrozenStays
