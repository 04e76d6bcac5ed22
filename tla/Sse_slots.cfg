SPECIFICATION Spec
CONSTANTS
  Clients = {c1}
  c1 = c1
  MaxWriters = 1
  MaxConnections = 1
  BatchSize = 2
  MaxRetries = 1
  MaxId = 2
  MaxFaults = 0
  MaxDrops = 1
  MaxRestarts = 0
INVARIANT EverySlotReturns
CHECK_DEADLOCK FALSE
