SPECIFICATION FairSpec
CONSTANTS
  c1 = c1
  c2 = c2
  c3 = c3
  Caller <- TwoCallers
  MinWarm = 1
  MaxWorkers = 1
  MaxTasks = 1
  MaxId = 7
  MaxCalls = 3
  MaxFaults = 1
  MayClose = FALSE
PROPERTIES
  StepReturns
  FloorRestored
CHECK_DEADLOCK FALSE
