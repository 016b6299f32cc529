--------------------------------- MODULE OAuth2 ---------------------------------
(***************************************************************************)
(* The OAuth 2 example as a whole: its main program, the handlers of the   *)
(* server, callers that use the client library and callers that ask the    *)
(* server themselves, and the network between them.                        *)
(***************************************************************************)
EXTENDS OAuth2Client, OAuth2Main

CONSTANTS Programs,                   (* the callers that use the library   *)
          AppAccounts, UserAccounts,  (* what is registered and tried       *)
          OtherToken,                 (* a token nobody was given           *)
          MaxCalls                    (* bound: requests of all callers     *)

(* A name and a secret, or a name and a password. *)
ASSUME AccountsAssumption ==
  \A account \in AppAccounts \cup UserAccounts :
    account = <<account[1], account[2]>> /\ NULL \notin {account[1], account[2]}

VARIABLE calls  (* requests so far *)

vars == <<serverVars, clientVars, main, calls>>

(* The rows of an earlier life of the server may be there. *)
Init ==
  /\ ServerInit /\ ClientInit /\ MainInit
  /\ apps \in {{}, {CHOOSE a \in AppAccounts : TRUE}}
  /\ users = IF apps = {} THEN {} ELSE {CHOOSE u \in UserAccounts : TRUE}
  /\ calls = 0

Serving == main.pc = "running"

(* A connection is accepted, the request parsed and routed, and its handler  *)
(* starts; without a route the answer is 404.                                *)
Arrive(c, req) ==
  /\ opened' = [opened EXCEPT ![c] = session]
  /\ handler' = [handler EXCEPT ![c] =
       IF req.route \in main.routes THEN [Resting EXCEPT !.pc = "start", !.req = req]
       ELSE [Resting EXCEPT !.pc = "done", !.req = req, !.reply = [status |-> 404, body |-> <<>>]]]

Count == calls < MaxCalls /\ calls' = calls + 1

(* A caller waits for the answer to one request before it makes another.     *)
CallGrant(c, user) ==
  /\ Count /\ Serving /\ Grant(c, user)
  /\ handler[c].pc = "idle"
  /\ UNCHANGED <<serverVars, main>>

(* The transport of the client: send returns once there is an answer, or the *)
(* connection has failed or was closed without one.                          *)
SendRequest(c) ==
  /\ call[c].pc = "send" /\ Serving
  /\ Arrive(c, GrantRequest(c)) /\ Step(c, "wait", Held(c))
  /\ UNCHANGED <<rows, session, faults, lib, purse, orphans, main, calls>>

SendFails(c) ==
  /\ call[c].pc = "send"
  /\ Faulty(IF Serving THEN 1 ELSE 0) /\ Receive(c, NULL)
  /\ UNCHANGED <<rows, handler, opened, session, lib, purse, orphans, main, calls>>

AnswerArrives(c) ==
  /\ call[c].pc = "wait" /\ handler[c].pc = "done"
  /\ \/ Receive(c, handler[c].reply) /\ Faulty(0)
     \/ Receive(c, NULL) /\ Faulty(1)
  /\ handler' = [handler EXCEPT ![c] = Resting]
  /\ UNCHANGED <<rows, opened, session, lib, purse, orphans, main, calls>>

(* Requests that do not come from the library, well formed or not. *)
Only(form, keys) == [key \in DOMAIN form \cap keys |-> form[key]]
Person == {"username", "password"}
Application == {"client_id", "client_secret"}

Request(route, form, basic, bearer) == [route |-> route, form |-> form, basic |-> basic, bearer |-> bearer]

TokenRequests(app, user) ==
  LET form == GrantForm(app, user)
      grant == Only(form, {"grant_type"} \cup Person)
  IN  {Request("token", grant, basic, NULL) : basic \in {NULL, app}}
        \cup {Request("token", f, app, NULL) : f \in {[grant EXCEPT !["grant_type"] = "code"], Only(form, Person),
                                                       Only(form, {"grant_type", "username"})}}

FormRequests(app, user) ==
  LET form == GrantForm(app, user) IN
  {Request(route, Only(form, keys), NULL, NULL) : route \in {"login", "users"}, keys \in {{"username"}, Person}}
    \cup {Request("clients", Only(form, keys), NULL, NULL) : keys \in {{"client_id"}, Application}}

BearerRequests(bearers) ==
  {Request(route, <<>>, NULL, bearer) : route \in {"logout", "secret"}, bearer \in bearers}

(* A program asks for more with the token of its grant. *)
RequestsOf(c) ==
  IF c \in Programs THEN BearerRequests({purse[c]} \ {NULL})
  ELSE UNION {TokenRequests(app, user) \cup FormRequests(app, user) : app \in AppAccounts, user \in UserAccounts}
         \cup BearerRequests({NULL, IF purse[c] = NULL THEN OtherToken ELSE purse[c]})

Ask(c, req) ==
  /\ Count /\ Serving
  /\ call[c].pc = "idle" /\ handler[c].pc = "idle"
  /\ Arrive(c, req)
  /\ UNCHANGED <<rows, session, faults, clientVars, main>>

(* The token of a login is kept. *)
Hear(c) ==
  LET h == handler[c] IN
  /\ h.pc = "done" /\ call[c].pc = "idle"
  /\ handler' = [handler EXCEPT ![c] = Resting]
  /\ purse' = [purse EXCEPT ![c] =
       IF h.reply # NULL /\ h.reply.status = 200 /\ h.req.route \in {"token", "login"} THEN h.reply.body[1] ELSE @]
  /\ UNCHANGED <<rows, opened, session, faults, lib, call, orphans, main, calls>>

Next ==
  \/ MainNext /\ UNCHANGED <<clientVars, calls>>
  \/ \E c \in Callers :
       \/ ServerStep(c) /\ UNCHANGED <<clientVars, main, calls>>
       \/ ClientStep(c) /\ UNCHANGED <<rows, handler, opened, session, main, calls>>
       \/ SendRequest(c) \/ SendFails(c) \/ AnswerArrives(c) \/ Hear(c)
       \/ \E app \in AppAccounts :
            /\ c \in Programs
            /\ InitLibrary(c, app) /\ Serving /\ calls < MaxCalls
            /\ UNCHANGED <<rows, handler, opened, session, main, calls>>
       \/ \E user \in UserAccounts : CallGrant(c, user)
       \/ \E req \in RequestsOf(c) : Ask(c, req)

Spec == Init /\ [][Next]_vars

-----------------------------------------------------------------------------
(* A password grant succeeds only for an application and a person whose      *)
(* accounts the database has, with what goes with them: the two checks of    *)
(* the handler cannot be passed by an error of the database, by a missing    *)
(* parameter or by what an earlier request left behind                       *)
(* (oauth2_server.c:332-409, oauth2_client.c:115-182).                       *)
GrantMeansVerified ==
  \A c \in Callers :
    call[c].pc = "returned" /\ call[c].rc = "ok" => lib[c] \in apps /\ call[c].user \in users

(* A grant for accounts that were registered before the call, with nothing   *)
(* failing on the way, succeeds, whatever other callers do meanwhile: form,  *)
(* headers, both checks, answer and reading of it fit together.              *)
GrantServed ==
  \A c \in Callers :
    /\ call[c].pc = "returned" /\ call[c].rc # "ok"
    /\ call[c].sure /\ faults = call[c].since
    => ~Serving \/ "token" \notin main.routes

(* Once a logout was answered, and the database could revoke the token, the  *)
(* secret is told again only after a token was saved again: by a request     *)
(* that begins later (oauth2_server.c:560-641).  A request already on its    *)
(* way may have looked the token up before.                                  *)
LogoutEndsAccess ==
  \A c \in Callers :
    LET h == handler[c] IN
    h.pc = "done" /\ h.req.route = "secret" /\ h.reply # NULL /\ h.reply.status = 200 => opened[c]

(* Every way out of a handler, of a grant and of main gives up what was      *)
(* acquired, but for what the hazards name: the copies of the headers when   *)
(* the last of them is refused or the answer is not given up (client.c:351,  *)
(* 424), TLS when the documents cannot be had (main.c:222-240), the database *)
(* (main.c:252-270) and, after a stop, the context (modality.c:256-259).     *)
(* Parts of an HTTP client are lost only where its init or its destroy has   *)
(* failed half way (client.c:99-290).                                        *)
EverythingReleased ==
  /\ \A c \in Callers : handler[c].pc = "done" => handler[c].heap = {}
  /\ \A c \in Callers :
       call[c].pc = "returned" => Held(c) \ {"request"} = IF call[c].rc = "ok" THEN {"token"} ELSE {}
  /\ \A c \in Callers : orphans[c] # {} => faults > 0
  /\ main.pc = "exited" => main.held \subseteq {"database"} \cup (IF main.routes = {} THEN {} ELSE {"tls"})
  /\ main.pc = "stopped" => main.held \subseteq {"database", "context"}
  /\ main.pc = "failed" => main.held \subseteq {"database"}
=============================================================================
