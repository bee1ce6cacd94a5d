SPECIFICATION Spec
CONSTANTS
  Warmup = 1
  Clients = {1, 4}
  Base = 3
  Digits = 2
  RangeSize = 1
  Spread = 1
  KeysDrawn = {2, 5, 9}
  Preloaded = 1
  MaxOps = 3
  MaxTime = 4
INVARIANTS
  TypeOK
  ReadsOwnWrites
  RangeIsLexical
  WindowIsExact
CHECK_DEADLOCK FALSE
