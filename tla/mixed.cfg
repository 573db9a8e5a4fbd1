SPECIFICATION Spec
CONSTANTS
  MaxCalls = 2
  Long = 4
  Short = 3
  MaxCommands = 3
  MaxBatch = 2
  MaxIterations = 2
  MaxCancels = 1
  MaxOpens = 0
  MaxSaves = 0
  Patient = TRUE
  Mixes = TRUE
  Interjects = FALSE
  None = None
INVARIANTS
  RunsAreApproved
CHECK_DEADLOCK FALSE
