CONSTANTS
  NumMod = 4
  Indices = {0, 1}
  MaxConnects = 2
  MaxPackets = 2
  MaxInFlight = 3
SPECIFICATION Spec
INVARIANTS
  ConnectedEndpointReceives
CHECK_DEADLOCK FALSE
