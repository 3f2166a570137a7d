SPECIFICATION FairSpec
CONSTANTS
  c1 = c1
  c2 = c2
  c3 = c3
  Client = {c1, c2}
  Exiting = {}
  ThreadsOf <- NoThreads
  Server = {s1, s2}
  Stoppable = {}
  Faults = {}
  OWN = own
PROPERTIES
  CallReturns
\* idle or stopped servers change nothing
CHECK_DEADLOCK FALSE
