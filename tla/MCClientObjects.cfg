CONSTANTS
  NumRequests = 2
  MaxCalls = 3
  MaxFinds = 3
SPECIFICATION ObjectsFairSpec
INVARIANTS
  ObjectsTypeOK
  OutstandingUntilAnswered
  AnswerIsOwn
  ClosedIsFinal
  WaitingIsSearched
  OneStub
PROPERTIES
  EveryRequestAnswered
  EveryFindAnswered
CHECK_DEADLOCK FALSE
