SPECIFICATION FairSpec
CONSTANTS
  MaxCalls = 2
  Long = 4
  Short = 3
  MaxCommands = 3
  MaxBatch = 2
  MaxIterations = 2
  MaxCancels = 1
  MaxOpens = 1
  MaxSaves = 1
  Patient = FALSE
  Mixes = TRUE
  Interjects = TRUE
  None = None
PROPERTIES
  MessageRunsOnlyReads
  HeldSessionComesBack
  Answered
CHECK_DEADLOCK FALSE
