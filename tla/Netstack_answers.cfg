SPECIFICATION FairSpec
CONSTANTS
  Requests = {r1,r2}
  MaxConnections = 1
  PortLo = 2
  PortHi = 3
  MaxPackets = 1
  DrainLimit = 0
  OfferedSettings <- MCDual
  MaxGeneration = 1
  MaxCommands = 1
INVARIANTS ConnectionLimit
PROPERTIES AnsweredEventually
CHECK_DEADLOCK FALSE
