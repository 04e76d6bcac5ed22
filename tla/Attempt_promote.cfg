SPECIFICATION Spec
CONSTANTS
  Paths = {model}
  MaxAttempts = 1
  MaxFaults = 1
  MaxCrashes = 0
INVARIANT FailedAttemptPromotesNothing
CHECK_DEADLOCK FALSE
