SPECIFICATION Spec
CONSTANTS
  MinChunk = 4
  MaxChunk = 16
  Step = 2
  MaxTotal = 6
  MaxFile = 36
  Targets = {t1, t2}
  FileSizes = {1, 4, 9, 33, 40}
  Memory = {0, 9, 20, 100}
  Defaults = {0, 3, 6, 20}
  Adaptive <- Settings
  MaxSamples = 2
  t1 = t1
  t2 = t2
INVARIANT TypeOK
INVARIANT Partition
INVARIANT TotalsAgree
INVARIANT RefusedOnlyForLimits
CHECK_DEADLOCK FALSE
