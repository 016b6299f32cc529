----------------------------- MODULE Connection -----------------------------
(***************************************************************************)
(* One connection: c_rest_handle_connection (src/src/modality.c) reads and *)
(* parses requests, and c_rest_router_dispatch (src/src/router.c) takes    *)
(* each through the middlewares, its handler and the post middlewares,     *)
(* the database transaction of src/src/c_orm_middleware.c among them.      *)
(* The peer may pipeline, stop in the middle of a request, or vanish; the  *)
(* bytes reach recv cut in any way.                                        *)
(*                                                                         *)
(* A request travels as a request line, its header lines, and the pieces   *)
(* of its body.  When a write fails the connection is taken to be lost, so *)
(* that every later one fails too.                                         *)
(***************************************************************************)
EXTENDS RouteTree, FiniteSets

CONSTANTS Routes,       (* sequence of [method, path, handler], as registered *)
          Pre, Post,    (* the middleware chains: [kind, prefix]              *)
          DbPool,       (* the context has a database pool                    *)
          Tls,          (* the context has TLS configured                     *)
          Begins,       (* <<p, s>>: the string s begins with p               *)
          Requests,     (* what the peer asks: [method, path, pieces, close]  *)
          OPTIONS,      (* the method CORS answers itself                     *)
          MaxRequests,  (* bound: requests of the peer                        *)
          Window        (* how many it sends ahead of the answers             *)

ASSUME ConfigAssumption ==
  /\ Pre \in Seq(Elems(Pre)) /\ Post \in Seq(Elems(Post)) /\ Routes \in Seq(Elems(Routes))
  /\ \A i \in DOMAIN Pre : Pre[i].kind \in {"orm", "https", "cors", "auth", "hook"}
  /\ \A i \in DOMAIN Post : Post[i].kind \in {"ormEnd", "hook"}
  /\ \A i \in DOMAIN Routes :
       /\ Routes[i].handler \in {"crudList", "crud", "crudDelete", "user"}
       /\ Routes[i].method \in Methods /\ Routes[i].path \in Seq(Segments \cup {Empty})
  /\ \A q \in Requests :
       q.pieces \in Nat /\ q.close \in BOOLEAN /\ q.method \in Methods /\ q.path \in Seq(Segments \cup {Empty})
  /\ DbPool \in BOOLEAN /\ Tls \in BOOLEAN /\ MaxRequests \in Nat /\ Window \in Nat \ {0}

VARIABLES
  asked,   (* the requests the peer has sent                              *)
  stream,  (* what recv has not delivered yet                             *)
  hungUp,  (* the peer sends nothing any more                             *)
  broken,  (* the connection is lost                                      *)
  pc,      (* where c_rest_handle_connection is                           *)
  parser,  (* the parser of this turn: request, units read, names kept   *)
  failed,  (* recv failed in this turn (res)                              *)
  link,    (* the middleware that is next in its chain                    *)
  rc,      (* what dispatch returned                                      *)
  status,  (* res_obj.status_code                                         *)
  sent,    (* res_obj.headers_sent                                        *)
  dbConn,  (* req.db_conn is set: a connection is borrowed                *)
  wire,    (* history: the answers that went out                          *)
  ended,   (* history: the transactions that were ended                   *)
  held,    (* history: requests cleaned up with db_conn still set         *)
  served,  (* history: the requests dispatched; close: asked to be the last *)
  revised  (* history: requests that the application turned from success  *)
           (* to error or back when the peer or the database was told     *)

peer == <<asked, hungUp>>
response == <<status, sent>>
hist == <<ended, held, served, revised>>
vars == <<peer, stream, broken, pc, parser, failed, link, rc, response, dbConn, wire, hist>>

Tree ==
  LET built[i \in 0 .. Len(Routes)] ==
        IF i = 0 THEN EmptyTree ELSE AddRoute(built[i - 1], Routes[i].method, Routes[i].path, i)
  IN built[Len(Routes)]

(* What the router has for each request: 404, 405 or a handler. *)
Routing == [q \in Requests |-> Resolve(Tree, q.path, q.method)]

Units(i, q) ==
  <<[of |-> i, part |-> "line"], [of |-> i, part |-> "headers"]>>
    \o [j \in 1 .. q.pieces |-> [of |-> i, part |-> "body"]]

(* c_rest_parser_init: a parser for one request, nothing of it read yet. *)
FreshParser == [req |-> 0, got |-> 0, named |-> TRUE]

UnitsIn(buf, r) == Cardinality({i \in DOMAIN buf : buf[i].of = r})

(* basic_execute on a buffer: it takes the units of the request it is at,    *)
(* and passes over what comes after the last of them.                        *)
Parse(p, buf) ==
  LET r == IF p.req = 0 THEN buf[1].of ELSE p.req
  IN  [p EXCEPT !.req = r, !.got = @ + UnitsIn(buf, r)]

Complete(p) == p.got = Len(Units(p.req, asked[p.req]))

(* The buffer starts in the middle of a request whose beginning was dropped; *)
(* what the parser makes of it is not followed any further.                  *)
Garbled(p, buf) == p.req = 0 /\ buf[1].part # "line"
-----------------------------------------------------------------------------
(* The peer, as long as the server listens to it. *)
Over == pc \in {"closed", "lost"}

Ask(q) ==
  /\ ~Over /\ ~hungUp /\ Len(asked) < MaxRequests /\ Len(asked) - Len(wire) < Window
  /\ asked' = Append(asked, q)
  /\ stream' = stream \o Units(Len(asked) + 1, q)
  /\ UNCHANGED <<hungUp, broken, pc, parser, failed, link, rc, response, dbConn, wire, hist>>

(* The peer stops sending, possibly in the middle of a request. *)
HangUp(k) ==
  /\ ~Over /\ ~hungUp
  /\ hungUp' = TRUE
  /\ stream' = SubSeq(stream, 1, k)
  /\ UNCHANGED <<asked, broken, pc, parser, failed, link, rc, response, dbConn, wire, hist>>

Break ==
  /\ ~Over /\ ~broken
  /\ broken' = TRUE
  /\ UNCHANGED <<peer, stream, pc, parser, failed, link, rc, response, dbConn, wire, hist>>
-----------------------------------------------------------------------------
Buffer(k) == SubSeq(stream, 1, k)

(* c_rest_parser_init has no memory: the loop over the requests ends.        *)
NoParser ==
  /\ pc = "recv" /\ parser = FreshParser
  /\ pc' = "closed"
  /\ UNCHANGED <<peer, stream, broken, parser, failed, link, rc, response, dbConn, wire, hist>>

(* c_rest_handle_connection: recv and parse until the request is complete.   *)
(* n says whether the memory for its method and its url was granted.         *)
Recv(k, n) ==
  /\ pc = "recv" /\ ~broken /\ ~Garbled(parser, Buffer(k))
  /\ ~n => parser.req = 0
  /\ stream' = SubSeq(stream, k + 1, Len(stream))
  /\ parser' = [Parse(parser, Buffer(k)) EXCEPT !.named = @ /\ n]
  /\ pc' = IF ~Complete(parser') THEN "recv" ELSE IF parser'.named THEN "dispatch" ELSE "next"
  /\ UNCHANGED <<peer, broken, failed, link, rc, response, dbConn, wire, hist>>

RecvGarbled(k) ==
  /\ pc = "recv" /\ ~broken /\ Garbled(parser, Buffer(k))
  /\ pc' = "lost"
  /\ UNCHANGED <<peer, stream, broken, parser, failed, link, rc, response, dbConn, wire, hist>>

(* append_buf or on_body has no memory for the i-th unit of the buffer: the  *)
(* parser fails, recv has not, and the request is dispatched as far as it    *)
(* was read, if that includes its line.                                      *)
ParseFails(k, i, n) ==
  /\ pc = "recv" /\ ~broken /\ ~Garbled(parser, Buffer(k))
  /\ ~n => parser.req = 0
  /\ stream[i].of = Parse(parser, Buffer(k)).req
  /\ stream' = SubSeq(stream, k + 1, Len(stream))
  /\ parser' = [Parse(parser, Buffer(i)) EXCEPT !.got = @ - 1, !.named = @ /\ n /\ stream[i].part # "line"]
  /\ pc' = IF parser'.named THEN "dispatch" ELSE "next"
  /\ UNCHANGED <<peer, broken, failed, link, rc, response, dbConn, wire, hist>>

(* End of the stream, or an error on it: a request whose line has arrived is *)
(* dispatched all the same.                                                  *)
RecvFails ==
  /\ pc = "recv" /\ (broken \/ (hungUp /\ stream = <<>>))
  /\ failed' = TRUE
  /\ pc' = IF parser.req # 0 /\ parser.named THEN "dispatch" ELSE "next"
  /\ UNCHANGED <<peer, stream, broken, parser, link, rc, response, dbConn, wire, hist>>

Request == asked[parser.req]

RestartForgotten == UNCHANGED link  \* m is not set to the head of the chain
Restart == link' = 1

(* The answer is 404 until somebody says otherwise. *)
Dispatch ==
  /\ pc = "dispatch"
  /\ status' = 404
  /\ Restart
  /\ served' = Append(served, [req |-> parser.req, close |-> parser.got >= 2 /\ Request.close])
  /\ pc' = "pre"
  /\ UNCHANGED <<peer, stream, broken, parser, failed, rc, sent, dbConn, wire, ended, held, revised>>

(* strncmp(req->path, path_prefix, ...) = 0: the last segment of the prefix  *)
(* need only be the beginning of the path's.                                 *)
Covers(prefix, path) ==
  /\ Len(prefix) <= Len(path)
  /\ \A i \in DOMAIN prefix :
       IF i < Len(prefix) THEN path[i] = prefix[i] ELSE <<prefix[i], path[i]>> \in Begins

Runs(chain, kind) == link \in DOMAIN chain /\ chain[link].kind = kind /\ Covers(chain[link].prefix, Request.path)

(* A call made by dispatch has returned r: it goes on, or dispatch returns r. *)
Onward(r, where) ==
  IF r = "ok" THEN pc' = where /\ UNCHANGED rc ELSE pc' = "reply" /\ rc' = r

SentFlagForgotten(r) == FALSE  \* headers_sent is not set
SentFlag(r) == r = "ok"

(* c_rest_response_send, and the allocations of c_rest_response_json or html *)
(* before it: header and body, if there is one, are two writes, and          *)
(* headers_sent is set only when both succeed.                               *)
Send(r, s, body) ==
  LET headerOut == Append(wire, [req |-> parser.req, status |-> s]) IN
  \/ /\ r = "ok" /\ ~sent /\ ~broken
     /\ wire' = headerOut
     /\ sent' = SentFlag(r)
     /\ UNCHANGED broken
  \/ /\ r = "error"
     /\ UNCHANGED <<wire, sent, broken>>
  \/ /\ r = "error" /\ body /\ ~sent /\ ~broken
     /\ wire' = headerOut
     /\ broken' = TRUE
     /\ UNCHANGED sent

Results == {"ok", "error"}

Told == {wire[i].status : i \in {j \in DOMAIN wire : wire[j].req = parser.req}}
Ended == \E i \in DOMAIN ended : ended[i].req = parser.req

Revise(b) == revised' = IF b THEN revised \cup {parser.req} ELSE revised

(* A middleware for other paths, the redirect when the request came by TLS,  *)
(* or one of the application's that goes on: having told the peer of an      *)
(* error, it has let its own answer be overtaken.                            *)
Skip(at, chain) ==
  /\ pc = at /\ link \in DOMAIN chain
  /\ \/ ~Covers(chain[link].prefix, Request.path)
     \/ chain[link].kind = "hook"
     \/ chain[link].kind = "https" /\ Tls
  /\ link' = link + 1
  /\ Revise(at = "pre" /\ Runs(chain, "hook") /\ \E s \in Told : s >= 400)
  /\ UNCHANGED <<peer, stream, broken, pc, parser, failed, rc, response, dbConn, wire, ended, held, served>>

(* It stops the chain, whether it answered or not. *)
HookFails(at, chain) ==
  /\ pc = at /\ Runs(chain, "hook")
  /\ Onward("error", at)
  /\ UNCHANGED <<peer, stream, broken, parser, failed, link, response, dbConn, wire, hist>>

(* c_rest_orm_transaction_start_middleware *)
StartTransaction ==
  /\ pc = "pre" /\ Runs(Pre, "orm")
  /\ dbConn' = (DbPool \/ dbConn)
  /\ link' = link + 1
  /\ UNCHANGED <<peer, stream, broken, pc, parser, failed, rc, response, wire, hist>>

(* c_rest_cors_middleware: OPTIONS stops here, with a status nobody sends. *)
Cors(r) ==
  /\ pc = "pre" /\ Runs(Pre, "cors")
  /\ Request.method = OPTIONS => r = "error"
  /\ status' = IF Request.method = OPTIONS THEN 204 ELSE status
  /\ link' = link + 1
  /\ Onward(r, "pre")
  /\ UNCHANGED <<peer, stream, broken, parser, failed, sent, dbConn, wire, hist>>

(* c_rest_https_redirect_middleware: when the redirect is sent, it returns   *)
(* what an undisturbed request returns, and the chain goes on.               *)
Redirect(r) ==
  /\ pc = "pre" /\ Runs(Pre, "https") /\ ~Tls
  /\ status' = 301
  /\ Send(r, 301, FALSE)
  /\ link' = link + 1
  /\ Onward(r, "pre")
  /\ UNCHANGED <<peer, stream, parser, failed, dbConn, hist>>

(* c_rest_auth_middleware and c_rest_oauth2_middleware *)
Authorise ==
  /\ pc = "pre" /\ Runs(Pre, "auth")
  /\ link' = link + 1
  /\ UNCHANGED <<peer, stream, broken, pc, parser, failed, rc, response, dbConn, wire, hist>>

Unauthorised(r, s) ==
  /\ pc = "pre" /\ Runs(Pre, "auth")
  /\ status' = s
  /\ Send(r, s, TRUE)
  /\ Onward("error", "pre")
  /\ UNCHANGED <<peer, stream, parser, failed, link, dbConn, hist>>

(* The end of the chain: 404 goes out by itself, 405 after the post chain. *)
Route ==
  /\ pc = "pre" /\ link = Len(Pre) + 1
  /\ LET found == Routing[Request] IN
       /\ status' = IF found.kind = "noMethod" THEN 405 ELSE status
       /\ CASE found.kind = "notFound" -> pc' = "reply" /\ rc' = "ok"
            [] found.kind = "noMethod" -> pc' = "post" /\ UNCHANGED rc
            [] found.kind = "handler" -> pc' = Routes[found.run].handler /\ UNCHANGED rc
  /\ Restart
  /\ UNCHANGED <<peer, stream, broken, parser, failed, sent, dbConn, wire, hist>>

AfterHandler(r) == Onward(r, "post")

CrudPcs == {"crudList", "crud", "crudDelete"}

(* The handlers of c_orm_crud.c, with a connection: delete does not answer   *)
(* (200 stands for the 201 of create, too).                                  *)
Crud(r) ==
  /\ pc \in CrudPcs /\ dbConn
  /\ IF pc = "crudDelete" THEN status' = 204 /\ r = "ok" /\ UNCHANGED <<wire, sent, broken>>
                           ELSE status' = 200 /\ Send(r, 200, TRUE)
  /\ AfterHandler(r)
  /\ UNCHANGED <<peer, stream, parser, failed, link, dbConn, hist>>

(* Without one they all fail, and only the list handler answers. *)
CrudUnconnected(r) ==
  /\ pc \in CrudPcs /\ ~dbConn
  /\ status' = 500
  /\ IF pc = "crudList" THEN Send(r, 500, TRUE) ELSE UNCHANGED <<wire, sent, broken>>
  /\ AfterHandler("error")
  /\ UNCHANGED <<peer, stream, parser, failed, link, dbConn, hist>>

(* A handler of the application, or a middleware of its own, is running.     *)
AppRuns == pc = "user" \/ (pc = "pre" /\ Runs(Pre, "hook")) \/ (pc = "post" /\ Runs(Post, "hook"))

(* It may set the status at any time, after it has answered or after the     *)
(* transaction was ended, too...                                             *)
AppSets(s) ==
  /\ AppRuns
  /\ status' = s
  /\ Revise((s < 400 <=> status >= 400) /\ (Told # {} \/ Ended))
  /\ UNCHANGED <<peer, stream, broken, pc, parser, failed, link, rc, sent, dbConn, wire, ended, held, served>>

(* ... and may answer, with the status that is set.                          *)
AppSends(r) ==
  /\ AppRuns
  /\ Send(r, status, TRUE)
  /\ UNCHANGED <<peer, stream, pc, parser, failed, link, rc, status, dbConn, hist>>

(* Its handler returns what it likes, whatever its answering came to.        *)
UserReturns(r) ==
  /\ pc = "user"
  /\ AfterHandler(r)
  /\ UNCHANGED <<peer, stream, broken, parser, failed, link, response, dbConn, wire, hist>>

OutcomeOffByOne == IF status > 400 THEN "rollback" ELSE "commit"  \* > where >= is meant
Outcome == IF status >= 400 THEN "rollback" ELSE "commit"

(* c_rest_orm_transaction_end_middleware *)
EndTransaction ==
  /\ pc = "post" /\ Runs(Post, "ormEnd")
  /\ IF dbConn
     THEN ended' = Append(ended, [req |-> parser.req, how |-> Outcome])
     ELSE UNCHANGED ended
  /\ dbConn' = FALSE
  /\ link' = link + 1
  /\ UNCHANGED <<peer, stream, broken, pc, parser, failed, rc, response, wire, held, served, revised>>

PostDone ==
  /\ pc = "post" /\ link = Len(Post) + 1
  /\ pc' = "reply" /\ rc' = "ok"
  /\ UNCHANGED <<peer, stream, broken, parser, failed, link, response, dbConn, wire, hist>>

(* Dispatch returned ok and nobody has answered: the framework does. *)
Reply(r) ==
  /\ pc = "reply" /\ rc = "ok" /\ ~sent
  /\ Send(r, status, TRUE)
  /\ pc' = "clean"
  /\ UNCHANGED <<peer, stream, parser, failed, link, rc, status, dbConn, hist>>

NoReply ==
  /\ pc = "reply" /\ (rc = "error" \/ sent)
  /\ pc' = "clean"
  /\ UNCHANGED <<peer, stream, broken, parser, failed, link, rc, response, dbConn, wire, hist>>

(* The request is a local of the loop and starts from zero: what db_conn     *)
(* still holds is forgotten here.                                            *)
Clean ==
  /\ pc = "clean"
  /\ held' = IF dbConn THEN held \cup {parser.req} ELSE held
  /\ dbConn' = FALSE
  /\ pc' = "next"
  /\ UNCHANGED <<peer, stream, broken, parser, failed, link, rc, response, wire, ended, served, revised>>

(* basic_should_keep_alive: the header "Connection: close" was read. *)
ClosingWithBody == parser.req # 0 /\ parser.got > 2 /\ Request.close  \* not without a body
Closing == parser.req # 0 /\ parser.got >= 2 /\ Request.close

KeepAliveAfterError == ~Closing  \* res is not looked at
KeepAlive == ~Closing /\ ~failed

(* The locals of the turn are gone, and res_obj is cleared for the next.     *)
Turn ==
  /\ pc = "next"
  /\ pc' = IF KeepAlive THEN "recv" ELSE "closed"
  /\ parser' = FreshParser /\ failed' = FALSE
  /\ link' = 1 /\ rc' = "ok"
  /\ status' = 0 /\ sent' = FALSE
  /\ UNCHANGED <<peer, stream, broken, dbConn, wire, hist>>
-----------------------------------------------------------------------------
Init ==
  /\ asked = <<>> /\ stream = <<>>
  /\ hungUp = FALSE /\ broken = FALSE
  /\ pc = "recv" /\ parser = FreshParser /\ failed = FALSE
  /\ link = 1 /\ rc = "ok" /\ status = 0 /\ sent = FALSE
  /\ dbConn = FALSE
  /\ wire = <<>> /\ ended = <<>> /\ held = {} /\ served = <<>> /\ revised = {}

Middleware ==
  \/ Skip("pre", Pre) \/ Skip("post", Post)
  \/ HookFails("pre", Pre) \/ HookFails("post", Post)
  \/ StartTransaction \/ EndTransaction
  \/ \E r \in Results : Cors(r) \/ Redirect(r) \/ Unauthorised(r, 401)
  \/ Authorise

Handler == \E r \in Results : Crud(r) \/ CrudUnconnected(r) \/ UserReturns(r)

Application == (\E s \in {200, 400} : AppSets(s)) \/ \E r \in Results : AppSends(r)

Receive ==
  \/ NoParser
  \/ \E k \in DOMAIN stream :
       \/ \E n \in BOOLEAN : Recv(k, n) \/ \E i \in 1 .. k : ParseFails(k, i, n)
       \/ RecvGarbled(k)
  \/ RecvFails

Serve ==
  \/ Receive \/ Dispatch \/ Middleware \/ Route \/ Handler
  \/ PostDone \/ (\E r \in Results : Reply(r)) \/ NoReply \/ Clean \/ Turn

Next ==
  \/ \E q \in Requests : Ask(q)
  \/ \E k \in 0 .. Len(stream) : HangUp(k)
  \/ Break
  \/ Serve \/ Application

Spec == Init /\ [][Next]_vars

(* The thread runs, and the application returns from what it was called for; *)
(* the peer need not do anything.                                            *)
FairSpec == Spec /\ WF_vars(Serve)
-----------------------------------------------------------------------------
TypeOK ==
  /\ asked \in Seq(Requests) /\ Len(asked) <= MaxRequests
  /\ stream \in Seq([of : DOMAIN asked, part : {"line", "headers", "body"}])
  /\ hungUp \in BOOLEAN /\ broken \in BOOLEAN /\ failed \in BOOLEAN /\ sent \in BOOLEAN /\ dbConn \in BOOLEAN
  /\ pc \in {"recv", "lost", "dispatch", "pre", "user", "post", "reply", "clean", "next", "closed"} \cup CrudPcs
  /\ parser \in [req : 0 .. Len(asked), got : Nat, named : BOOLEAN]
  /\ parser.req # 0 => parser.got <= Len(Units(parser.req, Request))
  /\ pc \in {"dispatch", "pre", "post"} => parser.got > 0 /\ parser.named
  /\ link \in Nat \ {0}
  /\ pc = "pre" => link <= Len(Pre) + 1
  /\ pc = "post" => link <= Len(Post) + 1
  /\ rc \in Results
  /\ status \in {0, 200, 204, 301, 400, 401, 404, 405, 500}
  /\ wire \in Seq([req : DOMAIN asked, status : {200, 204, 301, 400, 401, 404, 405, 500}])
  /\ ended \in Seq([req : DOMAIN asked, how : {"commit", "rollback"}])
  /\ held \subseteq DOMAIN asked
  /\ served \in Seq([req : DOMAIN asked, close : BOOLEAN])
  /\ revised \subseteq DOMAIN asked

(* No request is answered twice, and answers go out in the order of the      *)
(* requests, whoever sends them (a middleware, the handler, the framework),  *)
(* whatever write fails, and however the requests are pipelined.             *)
AnswersIncrease == \A i, j \in DOMAIN wire : i < j => wire[i].req < wire[j].req

(* A transaction is ended at most once per request.  If it is committed, the *)
(* peer is told of no error, whoever answers, before or after the end of the *)
(* transaction: unless the application itself changed the status after one   *)
(* of the two was told, or let a request go on that it had refused.          *)
CommitMeansSuccess ==
  /\ \A i, j \in DOMAIN ended : ended[i].req = ended[j].req => i = j
  /\ \A i \in DOMAIN ended, j \in DOMAIN wire :
       ended[i].how = "commit" /\ wire[j].req = ended[i].req =>
         wire[j].status < 400 \/ wire[j].req \in revised

(* A request that asks for "Connection: close", once its headers are read,   *)
(* is the last that is served.                                               *)
CloseIsLast == \A i \in DOMAIN served : i < Len(served) => ~served[i].close

(* When the peer hangs up or the connection is lost, the handling of the     *)
(* connection comes to its end: the worker that serves it can be joined.     *)
HangUpEnds == (hungUp \/ broken) ~> Over

(* "Post-handler hook to commit/rollback transactions and release the        *)
(* connection": no request is finished with its connection still borrowed.   *)
ConnectionReleased == held = {}
=============================================================================
