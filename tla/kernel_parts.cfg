SPECIFICATION Spec
CONSTANTS
  NONE = NONE
  CURRENT = CURRENT
  BLANK = BLANK
  proc1 = proc1
  proc2 = proc2
  server1 = server1
  server2 = server2
  unit1 = unit1
  unit2 = unit2
  single = single
  sym1 = sym1
  sym2 = sym2
  undef = undef
INVARIANTS
  
  DisksDivided
  ProgramsServed
  
CHECK_DEADLOCK FALSE
