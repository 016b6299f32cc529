CONSTANTS
  api = api
  me = me
  old = old
  id = id
  all = all
  GET = GET
  POST = POST
  DELETE = DELETE
  OPTIONS = OPTIONS
  Empty = Empty
  Segments <- MCSegments
  VarSegs <- MCVarSegs
  WildSegs <- MCWildSegs
  Methods <- MCMethods
  Begins <- MCBegins
  Routes <- MCRoutes
  Pre <- MCPre
  Post <- MCPost
  DbPool = TRUE
  Tls = TRUE
  Requests <- MCRequests
  MaxRequests = 1
  Window = 2
SPECIFICATION Spec
INVARIANT ConnectionReleased
CHECK_DEADLOCK FALSE
