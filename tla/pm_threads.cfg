SPECIFICATION Spec
CONSTANTS
  NPid = 4
  MAX_NO_PROCESS = 10
  Irq = {}
  KEYBOARD_IRQ = kb
  Resource = {}
  MaxSleep = 0
  MaxSignal = 0
  Calls = {"spawn", "exec", "thread", "service", "exit", "wait", "fail"}
  FGChoices = {FALSE}
INVARIANTS
  TypeOK
  MemoryFollowsLife
  ListsHoldLiveObjects
  GroupOutlivesUsers
