SPECIFICATION FairSpec
CONSTANTS
  MaxWaits = 2
INVARIANTS
  TypeOK
  TimeoutMeansExpired
  HandshakeAbortIsTimeout
  AbortBudget
PROPERTIES
  OpReturns
  ConnectReturns
CHECK_DEADLOCK FALSE
