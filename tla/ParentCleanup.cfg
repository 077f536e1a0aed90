SPECIFICATION CleanupSpec
CONSTANTS
  NumBlocks = 4
  BlockSize = 2
  MaxThreads = 2
  Null = Null
INVARIANTS
  CleanupTypeOK
  QuietBeforeUpload
  SkippedIsThere
  OnlyOneSkipped
PROPERTIES
  AnswersAfterCopy
\* The last answer has come.
CHECK_DEADLOCK FALSE
