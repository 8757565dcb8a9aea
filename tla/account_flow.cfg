SPECIFICATION Spec
CONSTANTS
  SignupAttempts = 2
  LoginAttempts = 2
  MaxSteps = 4
  MaxFaults = 2
INVARIANTS
  RecordedPassword
  RecordHasMailbox
  ReportsAreTrue
PROPERTY
  StepEnds
CHECK_DEADLOCK FALSE
