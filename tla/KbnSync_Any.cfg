SPECIFICATION Spec
CONSTANTS
  Nodes = {1, 2, 3}
  Keys = {1, 2}
  Blocks = {0, 1}
  MaxReports = 4
INVARIANTS TypeOK NothingInvented SomeNodeComplete CompleteUnlessOverlapped
PROPERTY SyncEnds
