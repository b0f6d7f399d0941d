SPECIFICATION Spec
CONSTANTS
  p = p
  q = q
  r = r
  s = s
  Proc = {p, q}
  Reader = {r, s}
  Capacity = {0, 1, 2}
  MaxBuffer = 2
  MaxSends = 4
INVARIANTS TypeOK NobodyParkedInVain LinesAreAlive EveryValueOnce ReaderMissesNothing
CHECK_DEADLOCK FALSE
