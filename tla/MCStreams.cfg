CONSTANTS
  NULL = NULL
  Boundary <- MCBoundary
  Messages <- AllMessages
  SseFaults <- MCSseFaults
  RequestFaults <- MCRequestFaults
  ResponseFaults <- MCResponseFaults
  MaxFaults = 2
  Says <- MCSays
  MaxSays = 3
SPECIFICATION Spec
CHECK_DEADLOCK FALSE
INVARIANTS
  HttpRoundTrip
  MultipartPartsExact
  SseEventsExact
  WsHeaderRoundTrip
  ParametersTrue
  CredentialsRoundTrip
  TokenOpensTheGate
  AnswerIsFramed
