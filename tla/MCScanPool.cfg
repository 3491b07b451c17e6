SPECIFICATION FairSpec
CONSTANTS
  Ranges = {1, 2}
  Workers = {w1, w2}
  InitialConfs <- MCInitialConfs
  ReloadedConfs <- MCReloadedConfs
  NrLoops = 2
  MaxSignals = 1
  None = None
INVARIANTS
  TypeOK
  ExclusiveRange
  QuiescentBetweenPeriods
  WalksAligned
  LocatedOnce
PROPERTIES
  ImplementsPhases
  Terminates
