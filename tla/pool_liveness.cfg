SPECIFICATION FairSpec
CONSTANTS
  r1 = r1
  r2 = r2
  Manager = Manager
  Requester <- TwoRequesters
  Warm = 1
  Max = 1
  Foreign = {}
  Stale = {}
  Static = {}
  MaxIndex = 4
  MaxFaults = 1
  MaxCrashes = 0
  MayClose = FALSE
PROPERTIES
  AcquireReturns
  WarmFloorRestored
CHECK_DEADLOCK FALSE
