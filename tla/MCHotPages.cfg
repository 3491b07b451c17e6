SPECIFICATION Spec
CONSTANTS
  END = END
  NoKey = NoKey
  Skid = Skid
  Other = Other
  Keys <- MCKeys
  HashOf <- MCHashOf
  Depth = 2
  Width = 8
  Size = 2
  Threshold = 2
  Cpus = {1, 2}
  RecordsOf <- MCRecordsOf
  RingSize = 1
  NodeType <- MCNodeType
  Promote <- MCPromote
  Homes <- MCHomes
  DramReads <- MCDramReads
  NodeOf <- MCNodeOf
  Used <- MCUsed
  Configured <- MCConfigured
  CountMultiple = 1
  PagesPer = 2
  MovePagesMax = 4
  Expected = 3
  PeriodMin = 1
  UnitsMax = 2
  ResetIntervals = 2
  MaxIntervals = 2
  MaxSamples = 5
  MaxDrifts = 1
INVARIANTS TypeOK HotPagesReported FilterExact
CHECK_DEADLOCK FALSE
