SPECIFICATION FairSpec
CONSTANTS
  k1 = k1
  k2 = k2
  Keys = {k1, k2}
  ClientOf <- OwnClient
  Workloads <- BothWays
  Capacity = 2
  MaxConns = 3
INVARIANTS DeliveredOnce CursorCovers RelayInOrder
PROPERTY OutboundArrives
CHECK_DEADLOCK FALSE
