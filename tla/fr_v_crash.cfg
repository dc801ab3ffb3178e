SPECIFICATION Spec
CONSTANTS
  Handlers = {h1}
  Workers = {w1}
  Slots = {0, 1}
  MaxVersion = 0
  QueueLimit = 2
  MaxFaults = 1
  Configured = {"overwrite"}
  Overlap = FALSE
  Faults = {"crash"}
  Packets <- OneTransfer
  NoTid = NoTid
  Foreign = Foreign
  NoFile = NoFile
  NoHandler = NoHandler
  t1 = t1
  t2 = t2
PROPERTY AlreadyCompletedIsTrue
