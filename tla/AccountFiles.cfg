SPECIFICATION Spec
CONSTANTS
  p1 = p1
  p2 = p2
  Procs = {p1, p2}
  Ann = Ann
  App1 = App1
  App2 = App2
  S1 = S1
  S2 = S2
  People = {Ann}
  Principals = {App1, App2}
  Imported = {S2}
  MaxRuns = 1
  SubsOf <- MCSubsOf
  Commands <- MCCommands
  InitialFiles <- MCInitialFiles
SYMMETRY MCSymmetry
INVARIANTS
  TypeOK
  OneDefault
  DoneAloneIsDone
PROPERTIES
  OthersChangeOnlyByOverlap
\* The processes have run their commands.
CHECK_DEADLOCK FALSE
