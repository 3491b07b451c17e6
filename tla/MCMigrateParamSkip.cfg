SPECIFICATION Spec
CONSTANTS
  NrRanges = 2
  PageKb <- MCPageKb
  NrWalks = 3
  Inputs <- MCInputs
  PeriodKb = 16
  MinDeltaKb = 10
  AntiThrash = 2
  Uncounted = {}
INVARIANTS
  SkipsOnlyThrashing
CHECK_DEADLOCK FALSE
