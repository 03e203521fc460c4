\* The same two turns and three hook calls, with up to two cancelled tasks.
SPECIFICATION FairSpec
CONSTANTS
  Turns = {t1, t2}
  Hooks = {h1, h2, h3}
  Closer = closer
  NoTurn = noTurn
  NoTask = noTask
  MaxCancels = 2
INVARIANT
  OneEndLostPerCancel
PROPERTY
  CompactionIsBounded
CHECK_DEADLOCK FALSE
