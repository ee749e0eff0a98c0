SPECIFICATION Spec
CONSTANTS
  StorageNodes = {1, 2, 3}
  NumVirtualNodes = 2
  MaxHash = 6
  HashOf <- SmallHash
INVARIANTS TypeOK NextIsNearest NoneSkipped
PROPERTY KeysStay
