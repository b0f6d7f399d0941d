SPECIFICATION MCSpec
CONSTANTS
  flow = flow
  plan = plan
  a = a
  send = send
  Node <- MCNode
  Root = flow
  v1 = v1
  Kids <- MCKids
  Beneath <- MCBeneath
  Value = {v1, v2}
  None = None
  MaxRuns = 2
  MaxStarts = 3
  MaxStepFails = 1
  MaxSeq = 30
  MaxFaults = 1
  MaxCrashes = 2
  MaxTrouble = 2
INVARIANTS TypeOK LogHoldsEachStepOnce FinishedRunNotReplayed
PROPERTIES FinishedRunIsCoherent StoredStepNotRerun RunEnds
CHECK_DEADLOCK FALSE
