CONSTANTS
  a = a
  b = b
  Services <- MCServices
  Histories <- MCHistories
  MaxStorages = 1
  RecentNonces = 1
  MaxTries = 1
  MaxUpdates = 1
  MaxConnects = 2
  MaxErrors = 1
SPECIFICATION Spec
PROPERTY ClaimedIsTheApplications
CHECK_DEADLOCK FALSE
