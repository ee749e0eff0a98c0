SPECIFICATION Spec
CONSTANTS
  Nodes = {1, 2, 3}
  Keys = {1, 2}
  Blocks = {0, 1}
  MaxReports = 4
INVARIANT SyncComplete
