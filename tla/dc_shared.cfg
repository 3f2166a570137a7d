SPECIFICATION FairSpec
CONSTANTS
  NONE = NONE
  Sector = {a, b, c}
  Value = {0}
  Slot = {x, y}
  Process = {p, q}
  Task = {t}
  Capacity = 2
  MaxRelList = 1
  Failures = TRUE
INVARIANTS
  TypeOK
  BuffersDisjoint
  MutexHeldInside
PROPERTIES
  DirtyIsFlushed
