SPECIFICATION Spec
CONSTANTS
  Requests = {r1,r2}
  MaxConnections = 1
  PortLo = 2
  PortHi = 3
  MaxPackets = 1
  DrainLimit = 1
  OfferedSettings <- MCIPv4
  MaxGeneration = 2
  MaxCommands = 1
SYMMETRY Symmetry
INVARIANTS StreamsFollowTunnel SuccessIsGenuine
PROPERTIES ImplementsService
CHECK_DEADLOCK FALSE
