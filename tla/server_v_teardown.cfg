SPECIFICATION Spec
CONSTANTS
  Clients = {c1, c2}
  Leftovers = {l1}
  Workers = {w1, w2}
  MaxPending = 1
  MaxSignals = 2
  MaxFaults = 1
  NoClient = NoClient
  c1 = c1
  c2 = c2
  w1 = w1
  w2 = w2
  l1 = l1
INVARIANT ReceiverOutlivesTasks
CHECK_DEADLOCK FALSE
