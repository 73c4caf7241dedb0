SPECIFICATION FairSpec
CONSTANTS
  PushedOptions <- MCPushed
  ConfiguredMtus = {0, 1250}
  DnsOverride <- MCOverride
  ParsedLists <- MCLists
  ParsedMtus <- MCMtus
  ParsedOverrides <- MCOverrides
  MaxTunnels = 3
  MaxPackets = 2
  MaxCommands = 3
INVARIANTS PacketsOfTheirTunnel EngineFollowsTunnel ParsedAsAsked
PROPERTIES ImplementsAdapter StoppedTunnelsLeave
CHECK_DEADLOCK FALSE
