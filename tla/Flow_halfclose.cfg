CONSTANTS
    BufferSize = 2
    Turns = 2
    ServerBytes = 4
    ClientBytes = 1
SPECIFICATION Spec
INVARIANTS HalfCloseDelivers
CHECK_DEADLOCK FALSE
