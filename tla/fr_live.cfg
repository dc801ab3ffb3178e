SPECIFICATION FairSpec
CONSTANTS
  Handlers = {h1, h2}
  Workers = {w1}
  Slots = {0, 1, 2}
  MaxVersion = 0
  QueueLimit = 2
  MaxFaults = 1
  Configured = {"overwrite"}
  Overlap = TRUE
  Faults = {"crash"}
  Packets <- OneAdaptive
  NoTid = NoTid
  Foreign = Foreign
  NoFile = NoFile
  NoHandler = NoHandler
  t1 = t1
  t2 = t2
PROPERTY CompleteIsFinalized
