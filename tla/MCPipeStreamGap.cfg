CONSTANTS
  NumMod = 4
  MaxPackets = 3
SPECIFICATION FairSpec
PROPERTIES
  AcceptedPacketsArrive
CHECK_DEADLOCK FALSE
