SPECIFICATION Spec
CONSTANTS
  w1 = w1
  w2 = w2
  v1 = v1
  v2 = v2
  None = None
  Versions = {v1, v2}
  Size <- TwoVersions
  NTargets = 1
  Workers = {w1, w2}
  MaxPending = 1
  MaxAbandon = 2
  MaxAttempts = 2
  ResendModes = {TRUE}
  MaxDisturbances = 3
INVARIANT ProcessedIsHeld
CHECK_DEADLOCK FALSE
