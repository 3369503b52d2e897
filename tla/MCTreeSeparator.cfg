CONSTANTS
    t1 = t1
    t2 = t2
    Thread <- Threads2
    MaxEntries = 10
    MinEntries = 2
    MaxKey = 44
    MaxChunks = 24
    Starts <- SeparatorStarts
    Runner <- Runner2
SPECIFICATION Spec
PROPERTIES KeysStay
