SPECIFICATION Spec
CONSTANTS
  NPid = 5
  MAX_NO_PROCESS = 10
  Irq = {}
  KEYBOARD_IRQ = kb
  Resource = {}
  MaxSleep = 0
  MaxSignal = 0
  Calls = {"spawn", "thread", "service", "exit"}
  FGChoices = {FALSE}
INVARIANT NoThreadOutlivesMain
