SPECIFICATION Safety
CONSTANTS
  items = items
  asks = asks
  Source = {items, asks}
  Pump = {items}
  None = None
  MaxFrames = 3
  MaxRaced = 2
  MaxDrops = 1
  MaxFaults = 0
  MaxCrashes = 0
INVARIANT ReplayedExactlyOnce
CHECK_DEADLOCK FALSE
