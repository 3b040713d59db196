SPECIFICATION DiscoverySpec
CONSTANTS
  Strings <- EdgeStrings
  Ports <- EdgePorts
  Tails <- OldBytes
  Seconds <- Coalesced
  Buffer = 2048
  None = None
  NodeId <- Uuid
  Hosts <- EdgeStrings
  Draws = {30000, 49999}
  TunedHosts <- TunedHost
  TunedPorts = {8080}
  MaxTunes = 1
INVARIANTS RoundTrip SizeDelimits BodyFromBehind PeersAgree ReachedWhereBound
CHECK_DEADLOCK FALSE
