SPECIFICATION Spec
CONSTANTS
  w1 = w1
  w2 = w2
  Worker <- TwoWorkers
  Kinds <- BothKinds
  Fresh = TRUE
  Providers = 2
  Recreating <- SecondOnly
  Tries = 2
  MaxTime = 2
  MaxSessions = 3
  MaxRequests = 2
  MaxRuns = 2
  MaxFaults = 1
SYMMETRY WorkerSymmetry
INVARIANTS
  TypeOK
  FreshAfterBaseline
  SessionsAccountedFor
CHECK_DEADLOCK FALSE
