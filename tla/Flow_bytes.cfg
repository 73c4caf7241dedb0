CONSTANTS
    BufferSize = 2
    Turns = 1
    ServerBytes = 3
    ClientBytes = 2
SPECIFICATION FairSpec
INVARIANTS NothingLost CleanEof FinAfterData
PROPERTIES DeliveredEventually ReleasedEventually
CHECK_DEADLOCK FALSE
