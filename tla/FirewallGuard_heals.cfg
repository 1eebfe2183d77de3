CONSTANTS
  Ports = {p1, p2}
  NumFams = 1
  MaxEdits = 1
  MaxOps = 2
  MaxFails = 1
  QuietTick = FALSE
  QuietOp = TRUE
SPECIFICATION FairSpec
PROPERTIES GuardSettles
CHECK_DEADLOCK FALSE
