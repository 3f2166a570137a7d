SPECIFICATION Spec
CONSTANTS
  NONE = NONE
  dev1 = dev1
  dev2 = dev2
  aux = aux
  kbd = kbd
INVARIANTS
  
  SectorsTransferred
  InputAsMade
  PacketsHandled
CHECK_DEADLOCK FALSE
