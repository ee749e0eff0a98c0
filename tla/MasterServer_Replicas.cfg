SPECIFICATION Spec
CONSTANTS
  k1 = k1
  Nodes = {1, 2, 3}
  Keys = {k1}
  Clients = {1, 2}
  RingOrder <- TwoBlockRing
  ReplicationFactor = 2
  MaxBlocks = 2
  MaxRequests = 2
  MaxFaults = 0
  MaxCrashes = 1
  SettledOnly = TRUE
INVARIANTS KbnKeepsPromise
PROPERTY RequestsEnd
CHECK_DEADLOCK FALSE
