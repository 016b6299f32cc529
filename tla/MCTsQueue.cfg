CONSTANTS
  t1 = t1
  t2 = t2
  t3 = t3
  n1 = n1
  n2 = n2
  d1 = d1
  d2 = d2
  NoThread = NoThread
  NoNode = NoNode
  NoData = NoData
  Threads <- MCThreads
  Nodes <- MCNodes
  Data <- MCData
SPECIFICATION FairSpec
INVARIANTS
  TypeOK
  ListWellFormed
  OneOwner
  NoLostWakeup
PROPERTIES
  NoSleepAfterClose
  SleeperServed
  Linearizable
CHECK_DEADLOCK FALSE
