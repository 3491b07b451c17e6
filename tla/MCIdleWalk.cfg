SPECIFICATION Spec
CONSTANTS
  PmdPages = 2
  PudPages = 4
  AddrBytes = 1
  MaxRun = 2
  KBufSize = 7
  Layouts <- MCLayouts
  PagesPerByte = 1
  ReadBufSize = 14
  TaskSize = 20
  MaxTouches = 2
  MaxRemaps = 1
INVARIANTS TypeOK BuffersFit CursorsAgree CountedInOrder CountsWhatIsThere LosesOnePerFullBuffer
PROPERTY WalkEnds
