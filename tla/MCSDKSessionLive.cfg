\* Two turns, a caller of cancel() or close(), one compaction; the CLI
\* sends one message at most, so the turns must return by themselves.
SPECIFICATION FairSpec
CONSTANTS
  Turns = {t1, t2}
  Ctls = {c1}
  NoTurn = noTurn
  NoTask = noTask
  Kinds = {"boundary"}
  Unsolicited = {"boundary"}
  MaxPipe = 1
  MaxEmits = 1
  MaxHooks = 1
  MaxCancels = 0
PROPERTIES
  TurnReturns
  CloseReleases
CHECK_DEADLOCK FALSE
