SPECIFICATION FairSpec
CONSTANTS
  Ranges = {1, 2}
  Workers = {w1, w2}
  InitialConfs <- MCNoThreads
  ReloadedConfs <- MCOneThread
  NrLoops = 2
  MaxSignals = 1
  None = None
PROPERTIES
  ScansLeadToMigration
CHECK_DEADLOCK FALSE
