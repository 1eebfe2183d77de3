CONSTANTS
  g1 = g1
  g2 = g2
  config = config
  source = source
  Parts <- MCParts
  Gens <- MCGens
  NoDir = NoDir
  NoTxn = NoTxn
  InitEtc <- InUseOrNew
  InitUnits <- MCUnits
  Switches = {"timer-active"}
  FaultAt <- SafePoints
  MaxFaults = 2
SPECIFICATION Spec
SYMMETRY FileSymmetry
INVARIANTS VersionsAreSafe ServedIsStored
PROPERTIES RestoreIsComplete AtomicUpdates
CHECK_DEADLOCK FALSE
