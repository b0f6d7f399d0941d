SPECIFICATION Spec
CONSTANTS
  a = a
  b = b
  rejected = rejected
  broken = broken
  t1 = t1
  t2 = t2
  Event = {a, b, rejected, broken}
  Thread = {t1, t2}
  ThreadOf <- MCThreadOf
  Log <- MCLog
  NoCursor = {2}
  Filtered = {rejected}
  Bad = {broken}
  MaxAttempts = 2
  MaxFails = 1
  MaxFaults = 1
  MaxEnds = 1
  MaxCrashes = 1
INVARIANTS TypeOK NothingLost 
PROPERTY EveryEventDelivered
CHECK_DEADLOCK FALSE
