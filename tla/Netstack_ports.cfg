SPECIFICATION Spec
CONSTANTS
  Requests = {r1,r2,r3}
  MaxConnections = 2
  PortLo = 2
  PortHi = 3
  MaxPackets = 1
  DrainLimit = 0
  OfferedSettings <- MCIPv4
  MaxGeneration = 1
  MaxCommands = 1
SYMMETRY Symmetry
INVARIANTS UniqueLocalPorts
CONSTRAINT NoDeadlinePasses
CHECK_DEADLOCK FALSE
