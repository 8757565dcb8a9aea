SPECIFICATION Spec
CONSTANTS
  f1 = f1
  f2 = f2
  n1 = n1
  n2 = n2
  None = None
  Flow <- TwoFlows
  Node <- TwoNodes
  Mode = "auto"
  Required = FALSE
  Attempts = 2
  MaxLeases = 3
  MaxFaults = 2
SYMMETRY ProxySymmetry
INVARIANTS
  RouteExclusive
  LeasesAccountedFor
PROPERTIES
  RecentNotReused
