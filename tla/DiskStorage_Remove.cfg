SPECIFICATION Spec
CONSTANTS
  k1 = k1
  k2 = k2
  k3 = k3
  Keys = {k1, k2, k3}
  Hashes = {1, 2, 3}
  KeyHash <- HashThree
  NoEntry = NoEntry
  DiskBlockSize = 2
  MaxDataSize = 4
  BitsPerByte = 2
  Sizes = {1, 3}
  RemoveExisting = TRUE
  MaxPuts = 3
  MaxFaults = 1
  MaxCrashes = 2
INVARIANTS TableFits UsedWithinTotal
PROPERTY Recovers
CHECK_DEADLOCK FALSE
