SPECIFICATION Spec
CONSTANTS
  NrRanges = 2
  PageKb <- MCPageKb
  NrWalks = 3
  Inputs <- MCFailed
  PeriodKb = 16
  MinDeltaKb = 10
  AntiThrash = 2
  Uncounted = {3, 4}
INVARIANTS
  ReadsCountedOnly
CHECK_DEADLOCK FALSE
