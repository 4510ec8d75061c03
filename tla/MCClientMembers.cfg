CONSTANTS
  NumMod = 4
  Indices = {0, 1}
  MaxConnects = 2
  MaxPackets = 2
  MaxInFlight = 3
  MaxFailures = 1
  MaxTime = 2
  MaxMessages = 3
SPECIFICATION MembersSpec
INVARIANTS
  MembersTypeOK
  OpenEndpointIsRouted
  StreamOfOneSession
  NoPacketLost
  ValueOfOwnSession
  NoDeadConnection
  LastValueReached
PROPERTIES
  ShutdownClosesAll
CONSTRAINT FewFailures
CHECK_DEADLOCK FALSE
