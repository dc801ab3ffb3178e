SPECIFICATION Spec
CONSTANTS
  Handlers = {h1, h2}
  Workers = {w1, w2}
  Slots = {0, 1, 2}
  MaxVersion = 0
  QueueLimit = 2
  MaxFaults = 2
  Configured = {"overwrite"}
  Overlap = TRUE
  Faults = {"crash", "io", "pool"}
  Packets <- OneAdaptive
  NoTid = NoTid
  Foreign = Foreign
  NoFile = NoFile
  NoHandler = NoHandler
  t1 = t1
  t2 = t2
SYMMETRY HandlerSymmetry
INVARIANT TypeOK
INVARIANT WholeUnlessRemoved
INVARIANT JustCompletedIsTrue
PROPERTY ForeignKept
PROPERTY MarkedIsComplete
