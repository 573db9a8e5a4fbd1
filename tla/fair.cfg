SPECIFICATION FairSpec
CONSTANTS
  Projects = {p1}
  Runs = {r1}
  Pids = {c1, c2}
  AutoRestart = {p1}
  Tunnelled = {p1}
  Forking = {p1}
  MaxRetries = 1
  StatusBacklog = 2
  None = None
PROPERTY StopEndsRun
CHECK_DEADLOCK FALSE
