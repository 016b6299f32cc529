CONSTANTS
  api = api
  me = me
  old = old
  id = id
  all = all
  GET = GET
  POST = POST
  DELETE = DELETE
  OPTIONS = OPTIONS
  Empty = Empty
  Segments <- MCSegments
  VarSegs <- MCVarSegs
  WildSegs <- MCWildSegs
  Methods <- MCMethods
  Begins <- MCBegins
  Routes <- MCRoutes
  Pre <- MCPre
  Post <- MCPost
  DbPool = TRUE
  Tls = FALSE
  Requests <- MCRequests
  MaxRequests = 2
  Window = 2
SPECIFICATION FairSpec
INVARIANTS
  TypeOK
  AnswersIncrease
  CommitMeansSuccess
  CloseIsLast
PROPERTIES
  HangUpEnds
CHECK_DEADLOCK FALSE
