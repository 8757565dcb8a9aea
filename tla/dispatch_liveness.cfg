SPECIFICATION FairSpec
CONSTANTS
  r1 = r1
  r2 = r2
  Request <- TwoRequests
  Services = 2
  Pool = {2}
  Preferred <- SecondFirst
  Balance = TRUE
  Fallback = TRUE
  MaxAttempts = 2
  Retryable <- AllCategories
  Attribution = TRUE
  Threshold = 1
  CoolFor = 1
  Silent = {1, 2}
  MaxClock = 1
  MaxChanges = 1
PROPERTIES
  DispatchReturns
  DrainCompletes
  RecoveryIsNoticed
CHECK_DEADLOCK FALSE
