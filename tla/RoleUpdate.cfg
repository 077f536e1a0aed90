SPECIFICATION Spec
CONSTANTS
  v1 = v1
  v2 = v2
  p1 = p1
  p2 = p2
  VMs = {v1, v2}
  Procs = {p1, p2}
  InitialRoles <- MCInitialRoles
  Commands <- MCCommands
  MaxRuns = 2
SYMMETRY MCSymmetry
INVARIANTS
  TypeOK
  RoleStaysValid
PROPERTIES
  LostOnlyByOverlap
  SuccessMeansAchieved
  AttachFindsFreeLun
\* The processes have run their commands.
CHECK_DEADLOCK FALSE
