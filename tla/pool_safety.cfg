SPECIFICATION Spec
CONSTANTS
  r1 = r1
  r2 = r2
  Manager = Manager
  Requester <- TwoRequesters
  Warm = 1
  Max = 2
  Foreign = {2}
  Stale = {1}
  Static = {1}
  MaxIndex = 5
  MaxFaults = 1
  MaxCrashes = 1
  MayClose = TRUE
SYMMETRY RequesterSymmetry
INVARIANTS
  SpawnNamesFresh
  RegistryTracksPool
  WarmChildExclusive
  DoomedNotLeased
  OvershootBounded
PROPERTIES
  ClosedPoolOnlyShrinks
  ScaleDownKeepsFloor
CHECK_DEADLOCK FALSE
