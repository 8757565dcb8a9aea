SPECIFICATION Spec
CONSTANTS
  w1 = w1
  w2 = w2
  Worker <- TwoWorkers
  People = 2
  Capacity = 1
  ChatgptLimit = 1
  Target = 1
  Tries = 2
  Teams <- MixedTeams
  Sweeping = TRUE
  BatchSeats = {"chatgpt"}
  MaxBatch = 2
  MaxFaults = 1
  MaxSteps = 2
SYMMETRY WorkerSymmetry
INVARIANTS
  GoneMeansGone
  CleanedMeansRoom
  OnlyLateOvershoots
CHECK_DEADLOCK FALSE
