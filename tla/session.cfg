SPECIFICATION FairSpec
CONSTANTS
  Conns = {1, 2}
  NChunks = 2
  AgentConfigs <- Agents
  ServerConfigs <- Servers
  MaxSeq = 3
  Threshold = 2
  MaxDisturbances = 2
INVARIANT TypeOK
INVARIANT ReadyMeansAgreed
INVARIANT AckedIsStored
INVARIANT NeverOutOfStep
PROPERTY HandshakeEnds
PROPERTY AllDelivered
CHECK_DEADLOCK FALSE
