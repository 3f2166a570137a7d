SPECIFICATION Spec
CONSTANTS
  NPid = 4
  MAX_NO_PROCESS = 3
  Irq = {kb}
  KEYBOARD_IRQ = kb
  Resource = {}
  MaxSleep = 0
  MaxSignal = 2
  Calls = {"spawn", "session", "interrupt", "exit"}
  FGChoices = {FALSE, TRUE}
INVARIANTS
  FamilyIntact
  
  
PROPERTIES
  InterruptsWakeOne
