---------------------------- MODULE MCConnection ----------------------------
(* Connection with the transactions of /api, a login for /api/me, CORS      *)
(* everywhere and a redirect of /old to https, as README.md and USAGE.md of *)
(* the repository set them up; middlewares of the application's own run     *)
(* ahead of the transaction of /api/api and after that of /api/me.          *)
EXTENDS Connection

CONSTANTS api, me, old, id, all, GET, POST, DELETE

MCSegments == {api, me, old, id, all}
MCVarSegs == {id}
MCWildSegs == {all}
MCMethods == {GET, POST, DELETE, OPTIONS}
MCBegins == {<<s, s>> : s \in MCSegments}

MCRoutes ==
  << [method |-> GET, path |-> <<api>>, handler |-> "crudList"],
     [method |-> POST, path |-> <<api, id>>, handler |-> "crud"],
     [method |-> GET, path |-> <<old>>, handler |-> "crudList"],
     [method |-> GET, path |-> <<api, me>>, handler |-> "user"],
     [method |-> DELETE, path |-> <<api, id>>, handler |-> "crudDelete"] >>

MCPre ==
  << [kind |-> "cors", prefix |-> <<>>],
     [kind |-> "https", prefix |-> <<old>>],
     [kind |-> "hook", prefix |-> <<api, api>>],
     [kind |-> "orm", prefix |-> <<api>>],
     [kind |-> "auth", prefix |-> <<api, me>>] >>
MCPost ==
  << [kind |-> "ormEnd", prefix |-> <<api>>],
     [kind |-> "hook", prefix |-> <<api, me>>] >>

MCRequests ==
  { [method |-> POST, path |-> <<api, old>>, pieces |-> 0, close |-> FALSE],
    [method |-> GET, path |-> <<api, me>>, pieces |-> 0, close |-> TRUE],
    [method |-> GET, path |-> <<old>>, pieces |-> 0, close |-> FALSE],
    [method |-> OPTIONS, path |-> <<api, me>>, pieces |-> 0, close |-> FALSE],
    [method |-> DELETE, path |-> <<api, api>>, pieces |-> 0, close |-> FALSE],
    [method |-> POST, path |-> <<old>>, pieces |-> 1, close |-> TRUE],
    [method |-> GET, path |-> <<me>>, pieces |-> 0, close |-> TRUE] }
=============================================================================
