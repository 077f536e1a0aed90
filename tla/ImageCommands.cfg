SPECIFICATION Spec
CONSTANTS
  Procs = {p1, p2}
  Names = {n1}
  Blobs = {b1}
  NoBlob = NoBlob
  MaxCommands = 3
  ExitDeferred = TRUE
PROPERTIES
  RegistersWholeBlobs
  EveryCommandEnds
\* The processes have run their commands.
CHECK_DEADLOCK FALSE
