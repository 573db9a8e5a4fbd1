INIT Init
NEXT Next
CONSTANTS
  Project = {1, 2}
  None = None
  Create = 0
  MaxCalls = 2
  MaxEvents = 2
  Patient = TRUE
INVARIANT TunnelIsConfirmed
CHECK_DEADLOCK FALSE
