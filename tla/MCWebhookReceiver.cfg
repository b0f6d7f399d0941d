SPECIFICATION ReceiverSpec
CONSTANTS
  m = m
  r1 = r1
  r2 = r2
  Msg = {m}
  Request = {r1, r2}
  NoTime = NoTime
  Tolerance = 1
  Skew = 1
  MaxTime = 4
INVARIANT ReceiverTypeOK
PROPERTIES HandledOnce EveryMessageHandled
CHECK_DEADLOCK FALSE
