SPECIFICATION PatientSpec
CONSTANTS
  Projects = {p1}
  Runs = {r1, r2}
  Pids = {c1, c2}
  AutoRestart = {p1}
  Tunnelled = {p1}
  Forking = {p1}
  MaxRetries = 1
  StatusBacklog = 2
  None = None
SYMMETRY Symmetry
CHECK_DEADLOCK FALSE
INVARIANTS NoAbandonedChild StoppedIsIdle
