SPECIFICATION Spec
CONSTANTS
  Requests = {r1,r2}
  MaxConnections = 2
  PortLo = 2
  PortHi = 3
  MaxPackets = 1
  DrainLimit = 0
  OfferedSettings <- MCDual
  MaxGeneration = 1
  MaxCommands = 1
SYMMETRY Symmetry
INVARIANTS SenderHasOneOwner QueriesOwned DeadlinesKept
PROPERTIES SharedDeadline
CHECK_DEADLOCK FALSE
