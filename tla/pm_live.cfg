SPECIFICATION FairSpec
CONSTANTS
  NPid = 3
  MAX_NO_PROCESS = 10
  Irq = {}
  KEYBOARD_IRQ = kb
  Resource = {dma}
  MaxSleep = 1
  MaxSignal = 0
  Calls = {"spawn", "sleep", "event", "exit", "wait", "fail", "kill", "resource"}
  FGChoices = {FALSE}
PROPERTIES
  RoundRobinIsFair
  WaitsEndRightly
