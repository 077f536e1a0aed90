SPECIFICATION Spec
CONSTANTS
  NumBlocks = 4
  NumThreads = 3
  DynVHD = FALSE
  RateNum = 1
  RateDen = 2
INVARIANTS
  TypeOK
  SuccessMeansUploaded
  NoBlockForgotten
  AlreadyExistedIsTrue
  OneOutcome
PROPERTIES
  Terminates
\* The call ends: the threads are idle or retired, the hash is written.
CHECK_DEADLOCK FALSE
