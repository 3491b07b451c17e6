SPECIFICATION FairSpec
CONSTANTS
  Workers = {w1, w2}
  Rate = 1
  Second = 2
  History = 2
  Batches = {0, 3, 4}
  MaxCalls = 4
  MaxIdle = 6
INVARIANTS
  TypeOK
  Throttled
  DebtBounded
PROPERTIES
  CallsReturn
CHECK_DEADLOCK FALSE
