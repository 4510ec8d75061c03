CONSTANTS
  URLs = {u1, u2}
SPECIFICATION EventLoopSpec
PROPERTIES
  HandlerCalledInTime
CHECK_DEADLOCK FALSE
