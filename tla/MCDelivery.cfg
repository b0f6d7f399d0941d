SPECIFICATION Spec
CONSTANTS
  items = items
  asks = asks
  Source = {items, asks}
  Pump = {items}
  None = None
  MaxFrames = 3
  MaxRaced = 2
  MaxDrops = 1
  MaxFaults = 1
  MaxCrashes = 1
INVARIANTS TypeOK
PROPERTIES UnackedStaysStored  FramesArrive
CHECK_DEADLOCK FALSE
