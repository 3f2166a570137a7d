SPECIFICATION FairSpec
CONSTANTS
  c1 = c1
  c2 = c2
  c3 = c3
  Client = {c1, c2, c3}
  Exiting = {c1}
  ThreadsOf <- OneThread
  Server = {s1, s2}
  Stoppable = {s1}
  Faults = {c3}
  OWN = own
INVARIANTS
  TypeOK
  OneHand
  AnswerBeforeReturn
  NoRequestOutlivesItsCall
PROPERTIES
  ServesOnce
  FaultReturns
\* idle or stopped servers change nothing
CHECK_DEADLOCK FALSE
