------------------------------ MODULE OAuth2Server ------------------------------
(***************************************************************************)
(* The handlers of the OAuth 2 server, src/examples/oauth2/src/            *)
(* oauth2_server.c, each on the connection of a caller; built with         *)
(* OAUTH2_MULTI_THREADED they run side by side.  The rows that c-orm keeps *)
(* are the state they share, and a call of it is one step.  An account is  *)
(* a pair of a name and what goes with it.                                 *)
(***************************************************************************)
EXTENDS Naturals, FiniteSets, Sequences

CONSTANTS Callers,    (* who makes requests, each on a connection of its own *)
          Demo,       (* the access token, the same for everyone             *)
          NULL,
          MaxFaults   (* bound: allocations, sends, queries that fail        *)

(* NULL is no string, no text and no answer. *)
ASSUME NullAssumption ==
  NULL \notin {"password", "chunked"} /\ NULL # <<Demo>> /\ NULL # [status |-> 200, body |-> <<Demo>>]

R == INSTANCE Response

VARIABLES
  apps, users,  (* the accounts of applications and of people              *)
  tokens,       (* the access tokens that are saved and not revoked        *)
  handler,      (* per caller: pc, the request, what is allocated, reply   *)
  opened,       (* history, per caller: the token was saved, or could not  *)
                (* be revoked, since its request began or it revoked it    *)
  session,      (* history: so for the last logout that was answered       *)
  faults        (* what has failed so far                                  *)

rows == <<apps, users, tokens>>
serverVars == <<rows, handler, opened, session, faults>>

Faulty(n) == faults + n <= MaxFaults /\ faults' = faults + n

Resting == [pc |-> "idle", req |-> NULL, heap |-> {}, reply |-> NULL]

ServerInit ==
  /\ tokens = {} /\ session = FALSE /\ faults = 0
  /\ handler = [c \in Callers |-> Resting]
  /\ opened = [c \in Callers |-> FALSE]

At(c, route, pc) == handler[c].pc = pc /\ handler[c].req.route = route
Goto(c, pc, heap) == handler' = [handler EXCEPT ![c].pc = pc, ![c].heap = heap]

Param(c, key) == IF key \in DOMAIN handler[c].req.form THEN handler[c].req.form[key] ELSE NULL
Both(c, k1, k2) == Param(c, k1) # NULL /\ Param(c, k2) # NULL
App(c) == <<Param(c, "client_id"), Param(c, "client_secret")>>
User(c) == <<Param(c, "username"), Param(c, "password")>>

(* c_rest_handle_connection around the handler: it sends what a handler that *)
(* returned 0 has not sent.                                                  *)
ReplyOf(res, rcIgnored) ==
  LET out == IF res.rc = "ok" THEN res ELSE IF rcIgnored THEN R!Send(res, "none") ELSE R!NewResponse
  IN  IF out.wire = <<>> THEN NULL ELSE [status |-> out.status, body |-> R!PeerReads(out.wire).body]

(* The handler gives up what it allocated and returns.  Something, n, has    *)
(* failed before, or memory for the answer is refused now.                   *)
Finish(c, status, pairs, freed, rcIgnored, n) ==
  \E fault \in {"none", "type"} :
    /\ Faulty(IF fault = "none" THEN n ELSE n + 1)
    /\ handler' = [handler EXCEPT
         ![c].pc = "done", ![c].heap = @ \ freed,
         ![c].reply = ReplyOf(R!JsonDict(R!SetStatus(R!NewResponse, status), pairs, fault), rcIgnored)]

Refuse(c, error, freed, n) == Finish(c, 400, <<error>>, freed, FALSE, n)
RefuseAndIgnore(c, error, n) == Finish(c, 400, <<error>>, {}, TRUE, n)

(* The handler returns an error and has said nothing. *)
GiveUp(c, freed) ==
  /\ Faulty(1)
  /\ handler' = [handler EXCEPT ![c].pc = "done", ![c].heap = @ \ freed]

-----------------------------------------------------------------------------
(* oauth2_token_handler.  What is allocated for it: the two halves of the    *)
(* Authorization header, "basic", and the two tokens.                        *)
TokenStart(c) ==
  LET grant == Param(c, "grant_type")
      inForm == Both(c, "client_id", "client_secret")
      basic == handler[c].req.basic
  IN
  /\ At(c, "token", "start")
  /\ \/ RefuseAndIgnore(c, "invalid_request", 1)
     \/ grant = NULL /\ Refuse(c, "invalid_request", {}, 0)
     \/ grant \notin {NULL, "password"} /\ RefuseAndIgnore(c, "unsupported_grant_type", 0)
     \/ /\ grant = "password" /\ ~inForm
        /\ \/ basic = NULL /\ RefuseAndIgnore(c, "invalid_client", 0)
           \/ basic # NULL /\ RefuseAndIgnore(c, "invalid_client", 1)
           \/ basic # NULL /\ Goto(c, "client", {"basic"}) /\ Faulty(0)
     \/ grant = "password" /\ inForm /\ Goto(c, "client", {}) /\ Faulty(0)
  /\ UNCHANGED <<rows, opened, session>>

TokenClient(c) ==
  LET known == (IF "basic" \in handler[c].heap THEN handler[c].req.basic ELSE App(c)) \in apps IN
  /\ At(c, "token", "client")
  /\ \/ Refuse(c, "invalid_client", {"basic"}, 1)
     \/ ~known /\ Refuse(c, "invalid_client", {"basic"}, 0)
     \/ known /\ ~Both(c, "username", "password") /\ Refuse(c, "invalid_grant", {"basic"}, 0)
     \/ known /\ Both(c, "username", "password") /\ Goto(c, "user", handler[c].heap) /\ Faulty(0)
  /\ UNCHANGED <<rows, opened, session>>

(* oauth2_login_handler, up to the check that the two have in common. *)
LoginStart(c) ==
  LET given == Both(c, "username", "password") IN
  /\ At(c, "login", "start")
  /\ \/ RefuseAndIgnore(c, "invalid_request", 1)
     \/ ~given /\ RefuseAndIgnore(c, "invalid_request", 0)
     \/ given /\ Goto(c, "user", {}) /\ Faulty(0)
  /\ UNCHANGED <<rows, opened, session>>

(* Mutant: an answer of the database is taken for a yes. *)
VerifyUserLoosely(c) ==
  /\ handler[c].pc = "user"
  /\ \/ Refuse(c, "invalid_grant", {"basic"}, 1)
     \/ Goto(c, "save", handler[c].heap \cup {"access", "refresh"}) /\ Faulty(0)
  /\ UNCHANGED <<rows, opened, session>>

VerifyUser(c) ==
  /\ handler[c].pc = "user"
  /\ \/ Refuse(c, "invalid_grant", {"basic"}, 1)
     \/ User(c) \notin users /\ Refuse(c, "invalid_grant", {"basic"}, 0)
     \/ User(c) \in users /\ GiveUp(c, {"basic"})
     \/ User(c) \in users /\ Goto(c, "save", handler[c].heap \cup {"access", "refresh"}) /\ Faulty(0)
  /\ UNCHANGED <<rows, opened, session>>

(* That the token could not be saved is ignored. *)
SaveToken(c) ==
  /\ handler[c].pc = "save"
  /\ Goto(c, "answer", handler[c].heap)
  /\ \/ /\ Faulty(0)
        /\ tokens' = tokens \cup {Demo}
        /\ opened' = [x \in Callers |-> TRUE] /\ session' = TRUE
     \/ Faulty(1) /\ UNCHANGED <<tokens, opened, session>>
  /\ UNCHANGED <<apps, users>>

(* The answers of the two handlers; the token handler alone has credentials  *)
(* of its own to give up.                                                    *)
AnswerToken(c) ==
  /\ At(c, "token", "answer")
  /\ Finish(c, 200, <<Demo>>, {"basic", "access", "refresh"}, FALSE, 0)
  /\ UNCHANGED <<rows, opened, session>>

AnswerLogin(c) ==
  /\ At(c, "login", "answer")
  /\ Finish(c, 200, <<Demo>>, {"access", "refresh"}, FALSE, 0)
  /\ UNCHANGED <<rows, opened, session>>

-----------------------------------------------------------------------------
(* oauth2_logout_handler and oauth2_secret_handler copy the bearer's token.  *)
BearerStart(c) ==
  LET bearer == handler[c].req.bearer IN
  /\ \E route \in {"logout", "secret"} : At(c, route, "start")
  /\ \/ bearer = NULL /\ Finish(c, 401, <<"unauthorized">>, {}, FALSE, 0)
     \/ bearer # NULL /\ Finish(c, 401, <<"unauthorized">>, {}, FALSE, 1)
     \/ /\ bearer # NULL
        /\ Goto(c, IF handler[c].req.route = "logout" THEN "revoke" ELSE "lookup", {"bearer"})
        /\ Faulty(0)
  /\ UNCHANGED <<rows, opened, session>>

(* Mutant: the answer is given before anything is revoked. *)
RevokeForgotten(c) ==
  /\ handler[c].pc = "revoke"
  /\ Goto(c, "answer", handler[c].heap \ {"bearer"})
  /\ opened' = [opened EXCEPT ![c] = handler[c].req.bearer # Demo]
  /\ Faulty(0)
  /\ UNCHANGED <<rows, session>>

(* That the token could not be revoked is ignored. *)
Revoke(c) ==
  /\ handler[c].pc = "revoke"
  /\ Goto(c, "answer", handler[c].heap \ {"bearer"})
  /\ \/ /\ Faulty(0)
        /\ tokens' = tokens \ {handler[c].req.bearer}
        /\ opened' = [opened EXCEPT ![c] = handler[c].req.bearer # Demo]
     \/ Faulty(1) /\ opened' = [opened EXCEPT ![c] = TRUE] /\ UNCHANGED tokens
  /\ UNCHANGED <<apps, users, session>>

AnswerLogout(c) ==
  /\ At(c, "logout", "answer")
  /\ Finish(c, 200, <<"bye">>, {}, FALSE, 0)
  /\ session' = (session /\ opened[c])
  /\ UNCHANGED <<rows, opened>>

(* The row's strings, "row", are given up with the token; how old the token  *)
(* is is not looked at.                                                      *)
Lookup(c) ==
  LET live == handler[c].req.bearer \in tokens IN
  /\ handler[c].pc = "lookup"
  /\ \/ Finish(c, 401, <<"unauthorized">>, {"bearer"}, FALSE, 1)
     \/ ~live /\ Finish(c, 401, <<"unauthorized">>, {"bearer"}, FALSE, 0)
     \/ live /\ Goto(c, "answer", {"bearer", "row"}) /\ Faulty(0)
  /\ UNCHANGED <<rows, opened, session>>

AnswerSecret(c) ==
  /\ At(c, "secret", "answer")
  /\ Finish(c, 200, <<"secret">>, {"bearer", "row"}, FALSE, 0)
  /\ UNCHANGED <<rows, opened, session>>

-----------------------------------------------------------------------------
(* A registration: a query is prepared, run, which fails when there is such  *)
(* a name, and finalized.                                                    *)
Prepare(c, given) ==
  \/ RefuseAndIgnore(c, "invalid_request", 1)
  \/ ~given /\ RefuseAndIgnore(c, "invalid_request", 0)
  \/ given /\ RefuseAndIgnore(c, "server_error", 1)
  \/ given /\ Goto(c, "insert", {"query"}) /\ Faulty(0)

NotInserted(c, taken) ==
  \E n \in 0 .. 1 : (n = 1 \/ taken) /\ Finish(c, 400, <<"server_error">>, {"query"}, TRUE, n)

Inserted(c, taken) == ~taken /\ Goto(c, "answer", {}) /\ Faulty(0)

Named(table, row) == \E r \in table : r[1] = row[1]

(* oauth2_register_client_handler *)
RegisterClient(c) ==
  /\ \/ At(c, "clients", "start") /\ Prepare(c, Both(c, "client_id", "client_secret")) /\ UNCHANGED apps
     \/ At(c, "clients", "insert") /\ NotInserted(c, Named(apps, App(c))) /\ UNCHANGED apps
     \/ At(c, "clients", "insert") /\ Inserted(c, Named(apps, App(c))) /\ apps' = apps \cup {App(c)}
     \/ At(c, "clients", "answer") /\ Finish(c, 201, <<"created">>, {}, FALSE, 0) /\ UNCHANGED apps
  /\ UNCHANGED <<users, tokens, opened, session>>

(* oauth2_register_user_handler *)
RegisterUser(c) ==
  /\ \/ At(c, "users", "start") /\ Prepare(c, Both(c, "username", "password")) /\ UNCHANGED users
     \/ At(c, "users", "insert") /\ NotInserted(c, Named(users, User(c))) /\ UNCHANGED users
     \/ At(c, "users", "insert") /\ Inserted(c, Named(users, User(c))) /\ users' = users \cup {User(c)}
     \/ At(c, "users", "answer") /\ Finish(c, 201, <<"created">>, {}, FALSE, 0) /\ UNCHANGED users
  /\ UNCHANGED <<apps, tokens, opened, session>>

ServerStep(c) ==
  \/ TokenStart(c) \/ TokenClient(c) \/ LoginStart(c) \/ VerifyUser(c) \/ SaveToken(c)
  \/ AnswerToken(c) \/ AnswerLogin(c)
  \/ BearerStart(c) \/ Revoke(c) \/ AnswerLogout(c) \/ Lookup(c) \/ AnswerSecret(c)
  \/ RegisterClient(c) \/ RegisterUser(c)
=============================================================================
