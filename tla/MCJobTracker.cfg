SPECIFICATION Spec
CONSTANTS
  IndexCount = 4
  Workers <- MCWorkers
  w1 = w1
  w2 = w2
  w3 = w3
  MaxErrors = 5
SYMMETRY WorkerSymmetry
INVARIANTS
  TypeOK
  OnePlace
PROPERTIES
  ImplementsWorkPool
  ImplementsRetryQueue
\* Workers stop when there is nothing left to do, or when their requests fail.
CHECK_DEADLOCK FALSE
