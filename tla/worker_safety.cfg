SPECIFICATION Spec
CONSTANTS
  c1 = c1
  c2 = c2
  c3 = c3
  Caller <- ThreeCallers
  MinWarm = 1
  MaxWorkers = 2
  MaxTasks = 2
  MaxId = 6
  MaxCalls = 3
  MaxFaults = 1
  MayClose = TRUE
SYMMETRY CallerSymmetry
INVARIANTS
  CapKept
  FreeWorkersClean
  NoOrphanProcess
  FloorMissesOnlyTheDead
  LeakBounded
PROPERTY LaneSpec
CHECK_DEADLOCK FALSE
