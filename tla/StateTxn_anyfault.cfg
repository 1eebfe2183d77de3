CONSTANTS
  g1 = g1
  g2 = g2
  config = config
  source = source
  Parts <- MCParts
  Gens <- MCGens
  NoDir = NoDir
  NoTxn = NoTxn
  InitEtc <- InUseOrNew
  InitUnits <- MCUnits
  Switches = {}
  FaultAt <- AnyStep
  MaxFaults = 2
SPECIFICATION FairSpec
INVARIANTS MarkedIsRecoverable
PROPERTIES EventuallyRecovered
CHECK_DEADLOCK FALSE
