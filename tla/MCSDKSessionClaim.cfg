\* Two turns, one compaction, one cancelled task.
SPECIFICATION Spec
CONSTANTS
  Turns = {t1, t2}
  Ctls = {}
  NoTurn = noTurn
  NoTask = noTask
  Kinds = {"included", "boundary", "ok"}
  Unsolicited = {"included", "boundary"}
  MaxPipe = 1
  MaxEmits = 3
  MaxHooks = 1
  MaxCancels = 1
SYMMETRY TurnSymmetry
INVARIANTS
  TypeOK
  InboxesOwned
CHECK_DEADLOCK FALSE
