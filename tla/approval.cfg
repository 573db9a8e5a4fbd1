SPECIFICATION Spec
CONSTANTS
  MaxCalls = 3
  Long = 4
  Short = 3
  MaxCommands = 4
  MaxBatch = 2
  MaxIterations = 2
  MaxCancels = 1
  MaxOpens = 1
  MaxSaves = 1
  Patient = TRUE
  Mixes = FALSE
  Interjects = FALSE
  None = None
INVARIANTS
  TypeOK
  HistoriesArePaired
PROPERTIES
  ImplementsApproval
  LeftIsLeft
CHECK_DEADLOCK FALSE
