SPECIFICATION Spec
CONSTANTS
  k1 = k1
  k2 = k2
  k3 = k3
  Keys = {k1, k2, k3}
  Hashes = {1, 2, 3}
  KeyHash <- HashThree
  NoEntry = NoEntry
  DiskBlockSize = 2
  MaxDataSize = 6
  BitsPerByte = 3
  Sizes = {1, 3, 5}
  RemoveExisting = FALSE
  MaxPuts = 4
  MaxFaults = 0
  MaxCrashes = 0
INVARIANT RefusedPutHarmless
CHECK_DEADLOCK FALSE
