SPECIFICATION MCSpec
CONSTANTS
  NumBlocks = 5
  Connections = 2
  Kind = "difference"
  ZeroBlocks = {1}
  OwnBlocks = {1, 2, 3}
  ParentRegions = {0, 1, 2, 4}
  ClearThreads = 2
  ForeignBlobs = {"same", "other"}
  MaxSessions = 3
INVARIANTS
  TypeOK
  SuccessMeansDelivered
  FooterVouches
  Md5IsTheFiles
PROPERTY RerunKeepsCompleteBlob
\* After the last session nobody starts another.
CHECK_DEADLOCK FALSE
