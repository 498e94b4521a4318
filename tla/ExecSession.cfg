SPECIFICATION Spec
CONSTANTS
  Out = Out
  Streams = {Out}
  MaxConnections = 2
  RetainedChunks = 1
  Workloads <- Both
INVARIANTS SeenInOrder WrittenOnce ConnectedHolds
CHECK_DEADLOCK FALSE
