CONSTANTS
  MaxSends = 4
SPECIFICATION FairSpec
INVARIANTS
  TypeOK
  AnsweredOnce
  WholeAndInOrder
  SupersededByNewer
PROPERTIES
  HandshakeAnswered
  SendAnswered
CHECK_DEADLOCK FALSE
