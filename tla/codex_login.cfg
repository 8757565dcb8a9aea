SPECIFICATION Spec
CONSTANTS
  Runs <- AllRuns
  Known <- AllKnown
  Workspace <- TwoKinds
  Nothing = "nothing"
  Preferred <- PersonalOrNone
  Named <- TeamOrNone
  Passwords <- BothWays
  Hops = 2
  Depth = 1
  MaxMail = 3
  MaxFaults = 2
INVARIANTS
  TypeOK
  TokensAccountedFor
  PersonalUnlessRefused
PROPERTY
  RunEnds
CHECK_DEADLOCK FALSE
