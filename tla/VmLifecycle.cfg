SPECIFICATION Spec
CONSTANTS
  p1 = p1
  p2 = p2
  Procs = {p1, p2}
  MaxRuns = 2
  ExitDeferred = TRUE
SYMMETRY MCSymmetry
INVARIANT CleanupIsComplete
PROPERTIES
  DeleteSparesWhatItSaw
  RollbackSparesFound
\* The processes have run their commands.
CHECK_DEADLOCK FALSE
