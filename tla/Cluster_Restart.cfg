SPECIFICATION Spec
CONSTANTS
  Base = 256
  IntSize = 2
  KeyLength = 3
  DataBlockSize = 2
  Nodes = {1, 2, 3}
  Names <- MCNames
  Sizes = {0, 2, 3}
  RingOrder <- MCRingOrder
  ReplicationFactor = 2
  MaxDataSize = 100
  MaxPuts = 2
  MaxFaults = 1
  MaxNodeStops = 1
  MaxMasterStops = 1
INVARIANTS TypeOK ReadsBack KeysListed StatsSound
PROPERTIES SyncFaithful MasterCanStart
CHECK_DEADLOCK FALSE
