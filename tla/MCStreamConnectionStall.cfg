CONSTANTS
  MaxSends = 4
SPECIFICATION FairSpec
PROPERTIES
  SendCompletes
CHECK_DEADLOCK FALSE
