SPECIFICATION Spec
CONSTANTS
  NrNodes = 3
  Cells = {m1, m2, m3, m4}
  NULL = NULL
  NoLists = NoLists
  Files <- MCOneFile
  Sysfs <- MCSysfs
  MaxReloads = 1
  page1 = page1
  page2 = page2
  page3 = page3
  huge = huge
  Tables <- MCTables
  Homes <- MCHomes
  Params <- MCParams
  BatchOf <- MCBatchOf
  KbOf <- MCKbOf
  NrWalks = 2
  MaxPeriods = 1
  MaxDrifts = 0
INVARIANT ListsManaged
CHECK_DEADLOCK FALSE
