SPECIFICATION Spec
CONSTANTS
  Projects = {p1}
  Runs = {r1, r2}
  Pids = {c1, c2}
  AutoRestart = {p1}
  Tunnelled = {}
  Forking = {}
  MaxRetries = 1
  StatusBacklog = 2
  None = None
INVARIANT NoAbandonedChild
CHECK_DEADLOCK FALSE
