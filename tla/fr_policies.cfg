SPECIFICATION Spec
CONSTANTS
  Handlers = {h1}
  Workers = {w1}
  Slots = {0, 1}
  MaxVersion = 2
  QueueLimit = 2
  MaxFaults = 2
  Configured = {"overwrite", "reject", "versioned"}
  Overlap = FALSE
  Faults = {"crash", "io", "pool"}
  Packets <- TwoOfSameLength
  NoTid = NoTid
  Foreign = Foreign
  NoFile = NoFile
  NoHandler = NoHandler
  t1 = t1
  t2 = t2
INVARIANT StoredDataOnDisk
INVARIANT FinalizedWhole
PROPERTY PublishedKept
