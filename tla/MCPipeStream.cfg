CONSTANTS
  NumMod = 4
  MaxPackets = 6
SPECIFICATION FairSpec
INVARIANTS
  IInv
  InOrder
  NothingPastALoss
  BufferedOnlyBehindAGap
PROPERTIES
  EveryPacketArrives
  ImplementsStream
CHECK_DEADLOCK FALSE
