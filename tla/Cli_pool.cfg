CONSTANTS
  Calls = {r1, r2}
  Streams = {stdout}
  MaxTools = 1
  MaxLaunches = 1
  PipeSize = 1
  MaxPrints = 2
  MaxFaults = 1
SPECIFICATION FairSpec
CHECK_DEADLOCK FALSE
INVARIANTS ProcessNeedsPermit
PROPERTIES CallsEnd ProcessesEnd
