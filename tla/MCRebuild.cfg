CONSTANTS
    t1 = t1
    t2 = t2
    Thread <- Threads2
    MaxEntries = 8
    MinEntries = 1
    MaxKey = 19
    Lists <- EvenLists
    Work <- Calls
SPECIFICATION Spec
INVARIANTS TypeOK RoomForTheCall OneCallInstalled AnswerIsRight CountersRight SentToItsHalf Divided
SYMMETRY Symmetry
CHECK_DEADLOCK FALSE
