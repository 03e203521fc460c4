\* One path, and a crash.
SPECIFICATION Spec
CONSTANTS
  Caps = {"s"}
  Work <- OnePath
  Bundled = {}
  Registered = {"s"}
  Passes <- OncePerPath
  Classes = {"pass", "fail"}
  MaxTrials = 3
  Budget = 1
  MaxCost = 1
  Honest = TRUE
  MaxCrashes = 1
  MaxRuns = 2
INVARIANT
  ResumeSafe
CHECK_DEADLOCK FALSE
