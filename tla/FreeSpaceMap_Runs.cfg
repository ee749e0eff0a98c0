SPECIFICATION Spec
CONSTANTS
  BlockCapacity = 9
  BitsPerByte = 3
  Lengths = {0, 1, 2, 4, 5}
INVARIANTS TypeOK ScanInv
PROPERTIES ScanEnds AllocatorSpec FoundWithinCapacity
