SPECIFICATION FairSpec
CONSTANTS
  Jobs = {j1}
  Procs = {p1}
  None = None
  MaxConcurrentJobs = 1
  MaxAttempts = 1
  MaxFaults = 1
  MaxCrashes = 1
PROPERTY EveryJobSettles
