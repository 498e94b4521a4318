SPECIFICATION FairSpec
CONSTANTS
  MaxItems = 2
  MaxBarriers = 2
  MaxQueue = 2
  MaxFailures = 2
  MaxCrashes = 1
  MaxInodes = 2
INVARIANT AckedReadable
PROPERTY BarrierAnswered
CHECK_DEADLOCK FALSE
