CONSTANTS
  Calls = {r1}
  Streams = {stdout, stderr}
  MaxTools = 1
  MaxLaunches = 2
  PipeSize = 3
  MaxPrints = 4
  MaxFaults = 2
SPECIFICATION LoopSpec
CHECK_DEADLOCK FALSE
INVARIANTS TypeOK GivesUpAfterAllTries LinesInOrder SuccessIsComplete
PROPERTIES MarkerIsLast LateOutputIsOrphaned KeepsContract OutputIsShown PipesAreEmptied
