SPECIFICATION FairSpec
CONSTANTS
  Clients = {c1, c2}
  c1 = c1
  c2 = c2
  MaxWriters = 1
  MaxConnections = 1
  BatchSize = 2
  MaxRetries = 1
  MaxId = 3
  MaxFaults = 2
  MaxDrops = 1
  MaxRestarts = 1
INVARIANTS SlotsAddUp NoEventSkipped EndIsComplete
PROPERTY WatchersLearnTheEnd
CHECK_DEADLOCK FALSE
