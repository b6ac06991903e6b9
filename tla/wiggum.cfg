SPECIFICATION FairSpec
CONSTANTS
  MaxIters = 3
INVARIANTS
  TypeOK
  GreenIsGreen
  WorkIsDelivered
PROPERTIES
  Ends
CHECK_DEADLOCK FALSE
