CONSTANTS
  a = a
  b = b
  Services <- MCServices
  Histories <- MCHistories
  MaxStorages = 2
  RecentNonces = 1
  MaxTries = 2
  MaxUpdates = 2
  MaxConnects = 2
  MaxErrors = 1
SPECIFICATION Spec
INVARIANTS
  TypeOK
  NoOlderThanNonce
  OneAttempt
  ClosedLeavesNoOther
  LostNodeIsForgotten
PROPERTIES
  ClaimedIsLeft
CHECK_DEADLOCK FALSE
