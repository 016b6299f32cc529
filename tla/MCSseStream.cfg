CONSTANTS
  NULL = NULL
  Boundary <- MCBoundary
  Messages <- StreamMessages
  SseFaults <- MCSseFaults
  RequestFaults <- MCRequestFaults
  ResponseFaults <- NoResponseFaults
  MaxFaults = 1
  Says <- MCSays
  MaxSays = 3
SPECIFICATION Spec
CHECK_DEADLOCK FALSE
INVARIANT
  StreamReachesPeer
