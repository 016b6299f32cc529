CONSTANTS
  w1 = w1
  w2 = w2
  w3 = w3
  NoWorker = NoWorker
  Workers <- MCWorkers
  MaxSlots = 3
  MaxRuns = 1
SPECIFICATION Spec
INVARIANT GracefulShutdown
CHECK_DEADLOCK FALSE
