SPECIFICATION Spec
CONSTANTS
  parent = parent
  child = child
  key = key
  Path <- MCPath
  KeyPath = {key}
  Under <- MCUnder
  Hash = {h1}
  NoHash = NoHash
  Val = {v1}
  Oversize = {}
  Caller = {c1, c2}
  MaxEntries = 2
  RetryOverlaps = FALSE
  NoRow = NoRow
  MaxSeq = 3
  MaxFaults = 1
  MaxCrashes = 1
SYMMETRY Callers
INVARIANTS TypeOK LiveIsStored ReplayIsDurable NoLeakedRow
PROPERTY NoRowOverwritten
CHECK_DEADLOCK FALSE
