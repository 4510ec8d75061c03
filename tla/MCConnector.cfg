CONSTANTS
  URLs = {u1, u2, u3}
SPECIFICATION FairSpec
INVARIANTS
  IInv
  HandlerOnce
  LosersReleased
  ClientStaysConnected
PROPERTIES
  FailsWhenAllFailed
  HandlerCalled
CHECK_DEADLOCK FALSE
