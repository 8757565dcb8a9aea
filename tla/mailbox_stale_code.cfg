SPECIFICATION Spec
CONSTANTS
  w1 = w1
  w2 = w2
  Worker <- TwoWorkers
  Kinds <- BothKinds
  Fresh = TRUE
  Providers = 1
  Recreating = {}
  Tries = 2
  MaxTime = 2
  MaxSessions = 2
  MaxRequests = 2
  MaxRuns = 2
  MaxFaults = 1
SYMMETRY WorkerSymmetry
INVARIANT
  NoStaleCode
CHECK_DEADLOCK FALSE
