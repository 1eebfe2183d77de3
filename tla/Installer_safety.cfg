CONSTANTS
  Procs = {main, updater, recoverer, command}
  Main = main
  Updater = updater
  Recoverer = recoverer
  NoDir = NoDir
  NoPid = NoPid
  Gone = Gone
  Stranger = Stranger
  InitDirs <- Leftovers
  MaxEmpty = 2
  MaxTries = 2
  Gateways <- MCGateways
  MaxFails = 1
  Nothing = Nothing
SPECIFICATION InstallerSpec
INVARIANTS LeavesOneVersion ServiceSurvives
PROPERTY ScriptsHoldStill
CHECK_DEADLOCK FALSE
