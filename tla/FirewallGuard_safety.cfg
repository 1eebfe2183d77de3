CONSTANTS
  Ports = {p1, p2}
  NumFams = 2
  MaxEdits = 1
  MaxOps = 2
  MaxFails = 2
  QuietTick = TRUE
  QuietOp = TRUE
SPECIFICATION Spec
INVARIANTS GuardedWhileListening
PROPERTIES NeverLapses InputIsShared
CHECK_DEADLOCK FALSE
