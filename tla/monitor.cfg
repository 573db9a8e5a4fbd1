SPECIFICATION MonitorSpec
CONSTANTS
  Projects = {p1}
  Runs = {r1, r2}
  Pids = {c1, c2}
  AutoRestart = {}
  Tunnelled = {}
  Forking = {}
  MaxRetries = 1
  StatusBacklog = 2
  StatsBacklog = 1
  None = None
SYMMETRY Symmetry
INVARIANTS
  MonitorTypeOK
  RunningIsMonitored
CHECK_DEADLOCK FALSE
