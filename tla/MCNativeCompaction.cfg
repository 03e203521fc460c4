\* Two turns, three hook calls (so that two nest within a turn), close() once.
SPECIFICATION Spec
CONSTANTS
  Turns = {t1, t2}
  Hooks = {h1, h2, h3}
  Closer = closer
  NoTurn = noTurn
  NoTask = noTask
  MaxCancels = 0
SYMMETRY HookSymmetry
INVARIANTS
  TerminalPhaseExactlyOnce
  Inv
PROPERTY
  ImplementsLifecycle
CHECK_DEADLOCK FALSE
