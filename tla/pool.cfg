SPECIFICATION FairSpec
CONSTANTS
  Users = {a1, a2}
  Conns = {c1, c2, c3}
  MaxSize = 2
  CanThrow = TRUE
INVARIANT TypeOK
INVARIANT SizeExact
INVARIANT PoolBound
INVARIANT FallbackUnreachable
PROPERTY AcquireReturns
PROPERTY ShutdownCompletes
CHECK_DEADLOCK FALSE
