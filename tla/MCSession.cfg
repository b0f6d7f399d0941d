SPECIFICATION Spec
CONSTANTS
  m = m
  s = s
  i = i
  Msg = {s, i}
  Steer = {s}
  Interrupt = {i}
  None = None
  SnapshotFirst = TRUE
  MaxTurns = 4
  MaxRounds = 1
  MaxFails = 1
  MaxFaults = 1
  MaxCrashes = 1
INVARIANTS TypeOK ItemsOnce SteerKept AnsweredStored
PROPERTIES HistoryGrows WaitersHear
CHECK_DEADLOCK FALSE
