\* Two turns, a caller of cancel() or close(), every kind of billing
\* evidence, and a CLI that also writes when nothing was asked.
SPECIFICATION Spec
CONSTANTS
  Turns = {t1, t2}
  Ctls = {c1}
  NoTurn = noTurn
  NoTask = noTask
  Kinds = {"included", "malformed", "metered", "native", "ok"}
  Unsolicited = {"included", "malformed", "metered", "native"}
  MaxPipe = 1
  MaxEmits = 3
  MaxHooks = 0
  MaxCancels = 0
SYMMETRY TurnSymmetry
PROPERTIES
  RetiredClientNeverQueried
  CompletesCleanly
CHECK_DEADLOCK FALSE
