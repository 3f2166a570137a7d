SPECIFICATION Spec
CONSTANTS
  NBlocks = 4
  PerBlock = 2
  QueueSize = 1
  CacheSize = 3
  ReadAhead = 1
  File = {f}
  Exclusive = TRUE
  Restarts = TRUE
PROPERTIES
  OnlySetsChange
  CacheIsVector
