SPECIFICATION FairSpec
CONSTANTS
  w1 = w1
  w2 = w2
  v1 = v1
  v2 = v2
  None = None
  Versions = {v1}
  Size <- OneVersion
  NTargets = 2
  Workers = {w1, w2}
  MaxPending = 1
  MaxAbandon = 2
  MaxAttempts = 2
  ResendModes = {TRUE, FALSE}
  MaxDisturbances = 2
INVARIANT TypeOK
INVARIANT SuccessRowsHeld
INVARIANT ProcessingHasWork
PROPERTY ImplementsDelivery
PROPERTY Settles
PROPERTY StopCompletes
CHECK_DEADLOCK FALSE
