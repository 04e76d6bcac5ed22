SPECIFICATION Spec
CONSTANTS
  Jobs = {j1, j2}
  Procs = {p1, p2}
  None = None
  MaxConcurrentJobs = 1
  MaxAttempts = 1
  MaxFaults = 1
  MaxCrashes = 1
SYMMETRY Symmetry
INVARIANT SlotsAddUp
INVARIANT LogTellsStatus
INVARIANT ParentStaysRefinable
PROPERTY TerminalIsFinal
PROPERTY RecoveryBeforeService
