SPECIFICATION Spec
CONSTANTS
  NONE = NONE
  DirSector = {x, y}
  RootSector = r
  PerSector = 2
  Name = {a, b, c}
  JunkName = {}
  Process = {p, q}
  File = {f, g}
  FD = {d, e}
  FileSectors = 3
  MaxRun = 2
  OneFile = {f}
  OneFD = {d}
  Cells = 2
  LongLength = {1, 3, 4}
  MaxId = 6
  MaxOpen = 5
  NBlocks = 2
  PerBlock = 2
  QueueSize = 2
  CacheSize = 2
  ReadAhead = 8
SYMMETRY Symmetry
INVARIANTS
  
  
  
  
  DescriptorsCounted
  NoDoubleAllocation
  SpaceAccounted
PROPERTY FreeSpaceFound
