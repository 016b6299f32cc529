CONSTANTS
  w1 = w1
  w2 = w2
  w3 = w3
  NoWorker = NoWorker
  Workers <- MCWorkers
  MaxSlots = 2
  MaxRuns = 2
SPECIFICATION FairSpec
INVARIANTS
  TypeOK
  OneLateConnection
  WorkersTracked
  DestroyWaits
PROPERTIES
  ShutdownCompletes
CHECK_DEADLOCK FALSE
