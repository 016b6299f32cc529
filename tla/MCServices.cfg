CONSTANTS
  Threads = {t1, t2}
  Addresses = {a1, a2, a3}
  Nodes = {n1, n2}
  NoNode = NoNode
  Callers = {c1, c2}
  Clients = {alice}
  Capacity = 2
  FillRate = 1
  Needs <- MCNeeds
  MaxTime = 3
  Modulus = 16
  NoBucket = NoBucket
  Files = {f1, f2}
  MaxVersion = 2
  App = app
  Watcher = watcher
  MaxClients = 3
  MaxServes = 2
SPECIFICATION ServicesSpec
CHECK_DEADLOCK FALSE
INVARIANT TrackedExactly
INVARIANT NodeAlive
INVARIANT LimitHoldsInOrder
INVARIANT ChangesTold
INVARIANT OneTardyConnection
INVARIANT DestroyReleases
