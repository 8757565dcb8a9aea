SPECIFICATION Spec
CONSTANTS
  r1 = r1
  r2 = r2
  Request <- TwoRequests
  Services = 2
  Pool = {2}
  Preferred <- NoPreference
  Balance = TRUE
  Fallback = TRUE
  MaxAttempts = 2
  Retryable <- AllCategories
  Attribution = TRUE
  Threshold = 2
  CoolFor = 1
  Silent = {}
  MaxClock = 2
  MaxChanges = 1
SYMMETRY RequestSymmetry
INVARIANTS
  LoadCountsCalls
PROPERTIES
  CooldownHolds
  BreakerSpec
CHECK_DEADLOCK FALSE
