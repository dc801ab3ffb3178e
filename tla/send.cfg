SPECIFICATION FairSpec
CONSTANTS
  FileSenders = {f1}
  PendingSenders = {p1, p2}
  MaxRetries = 2
  Threshold = 2
  PoolSize = 2
INVARIANT TypeOK
PROPERTY OpenHeals
PROPERTY SendingResumes
PROPERTY SendsReturn
CHECK_DEADLOCK FALSE
