SPECIFICATION Spec
CONSTANTS
  c1 = c1
  c2 = c2
  t1 = t1
  t2 = t2
  Call = {c1, c2}
  Task = {t1, t2}
  None = None
  MaxContexts = 2
  MaxTasks = 1
  MaxFaults = 2
  MaxCrashes = 1
SYMMETRY Interchangeable
ACTION_CONSTRAINT OneUnlessCalm
INVARIANTS HeldIsExact EveryBillOnce
CHECK_DEADLOCK FALSE
