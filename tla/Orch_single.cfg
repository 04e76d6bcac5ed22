SPECIFICATION FairSpec
CONSTANTS
  Jobs = {j1, j2}
  Procs = {p1}
  None = None
  MaxConcurrentJobs = 1
  MaxAttempts = 2
  MaxFaults = 1
  MaxCrashes = 1
INVARIANTS TypeOK CompletedByItsPlan WorkerHasItsJob
PROPERTIES ImplementsLifecycle TasksEnd JobsSettle
