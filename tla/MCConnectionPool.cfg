SPECIFICATION Spec
CONSTANTS
  a = a
  b = b
  Scope = {a, b}
  NoSetup = {a}
  None = None
  Max = 1
  Warm = 1
  Reclaim = 1
  MaxAcquires = 2
  MaxCloses = 1
  MaxFaults = 1
ACTION_CONSTRAINT ClosedIfCalm
INVARIANTS  WithinMax NothingLeaks
PROPERTIES NeverShared WaitersAreWoken
CHECK_DEADLOCK FALSE
