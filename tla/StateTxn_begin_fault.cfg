CONSTANTS
  g1 = g1
  g2 = g2
  config = config
  source = source
  Parts <- MCParts
  Gens <- MCGens
  NoDir = NoDir
  NoTxn = NoTxn
  InitEtc <- InUse
  InitUnits <- MCUnits
  Switches = {}
  FaultAt <- BeginWindow
  MaxFaults = 1
SPECIFICATION Spec
INVARIANTS StateNeverErased
CHECK_DEADLOCK FALSE
