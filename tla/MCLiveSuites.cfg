\* One live case whose turns all go as the script wants.
SPECIFICATION MCSpec
CONSTANTS
  MaxFiles = 2
  MaxCalls = 3
  CaseBudgets = {4}
  MaxFaulty = 0
INVARIANT FirstCallIsDenied
CHECK_DEADLOCK FALSE
