SPECIFICATION Spec
CONSTANTS
  Paths = {model}
  MaxAttempts = 1
  MaxFaults = 0
  MaxCrashes = 0
INVARIANT OnlySuccessIsDownloaded
CHECK_DEADLOCK FALSE
