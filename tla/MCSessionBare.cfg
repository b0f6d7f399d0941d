SPECIFICATION Safety
CONSTANTS
  m = m
  s = s
  i = i
  Msg = {m, s}
  Steer = {s}
  Interrupt = {}
  None = None
  SnapshotFirst = FALSE
  MaxTurns = 3
  MaxRounds = 1
  MaxFails = 0
  MaxFaults = 0
  MaxCrashes = 1
PROPERTY HistoryGrows
CHECK_DEADLOCK FALSE
