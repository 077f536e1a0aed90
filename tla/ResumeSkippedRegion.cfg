SPECIFICATION Spec
CONSTANTS
  NumBlocks = 3
  Connections = 2
  Kind = "difference"
  ZeroBlocks = {}
  OwnBlocks = {1, 2}
  ParentRegions = {0, 1, 2}
  ClearThreads = 2
  ForeignBlobs = {}
  MaxSessions = 1
INVARIANT SuccessMeansIdentical
\* After the last session nobody starts another.
CHECK_DEADLOCK FALSE
