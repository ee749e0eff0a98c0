SPECIFICATION Spec
CONSTANTS
  k1 = k1
  Nodes = {1, 2}
  Keys = {k1}
  Clients = {1, 2}
  RingOrder <- TwoNodeRing
  ReplicationFactor = 1
  MaxBlocks = 2
  MaxRequests = 3
  MaxFaults = 0
  MaxCrashes = 1
  SettledOnly = FALSE
INVARIANT ReadsPromise
CHECK_DEADLOCK FALSE
