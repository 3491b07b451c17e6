SPECIFICATION Spec
CONSTANTS
  PageSize = 2
  MaxDelta = 1
  BufItems = 2
  PayloadMod = 8
  Addrs <- MCAddrs
  Nids <- MCNids
  DramNodes = {0}
  PmemNodes = {1}
  Chunk = 2
  HotThreshold = 1
  HotMax = 2
  MaxWalks = 2
  MaxRepeats = 1
  MaxEntries = 3
  None = None
  EndOfSequence = EndOfSequence
CONSTRAINT InLastBuffer
INVARIANTS
  TypeOK
  ItemsInBuffers
  IteratorsInBounds
  LocatedAll
  SizeIsEntries
  StatsExact
  NormalizedPayloads
PROPERTIES
  ImplementsContract
CHECK_DEADLOCK FALSE
