CONSTANTS
  a = a
  b = b
  v = v
  u = u
  w = w
  GET = GET
  POST = POST
  Empty = Empty
  Segments <- MCSegments
  VarSegs <- MCVarSegs
  WildSegs <- MCWildSegs
  Methods <- MCMethods
  Patterns <- MCPatterns
  RequestPaths <- MCRequestPaths
  MaxAdds = 3
SYMMETRY MCSymmetry
SPECIFICATION Spec
INVARIANTS
  TypeOK
  MatchIsPreferred
  VarsOfTheMatch
  LatestHandlerServes
PROPERTIES
  AddIsLocal
CHECK_DEADLOCK FALSE
