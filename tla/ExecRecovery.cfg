SPECIFICATION FairSpec
CONSTANTS
  Out = Out
  Streams = {Out}
  MaxConnections = 2
  RetainedChunks = 1
  Workloads <- Silent
PROPERTIES EndReported NoOrphan
CHECK_DEADLOCK FALSE
