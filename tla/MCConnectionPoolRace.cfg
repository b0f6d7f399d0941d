SPECIFICATION Safety
CONSTANTS
  a = a
  b = b
  Scope = {a, b}
  NoSetup = {a, b}
  None = None
  Max = 2
  Warm = 0
  Reclaim = 1
  MaxAcquires = 2
  MaxCloses = 0
  MaxFaults = 0
INVARIANTS ReturnedStaysReturned
CHECK_DEADLOCK FALSE
