SPECIFICATION Spec
CONSTANTS
  Paths = {model, output}
  MaxAttempts = 2
  MaxFaults = 2
  MaxCrashes = 1
SYMMETRY Symmetry
INVARIANT AttemptsStartClean
INVARIANT CompletedServesItsArtifacts
INVARIANT FailureLeavesNoTrace
INVARIANT SnapshotsRemoved
CHECK_DEADLOCK FALSE
