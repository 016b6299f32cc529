------------------------------ MODULE OAuth2Client ------------------------------
(***************************************************************************)
(* The password grant of the client library, src/examples/oauth2/src/      *)
(* oauth2_client.c, over the HTTP client, src/src/client.c: the request is *)
(* put together in pieces of memory, travels to the server and back, and   *)
(* the answer is copied and read.  Each step may be refused memory, and    *)
(* the network may lose the request or the answer.                         *)
(***************************************************************************)
EXTENDS OAuth2Server

VARIABLES
  lib,    (* per caller: the account oauth2_client_init was given, or NULL *)
  call,   (* per caller: pc, heap, user, answer, token, rc and more        *)
  purse,  (* per caller: the access token it got from its calls            *)
  orphans (* per caller: parts of HTTP clients that nobody holds any more  *)

clientVars == <<lib, call, purse, orphans>>

(* sure: the accounts were there when the call began; since: the faults then *)
NoCall == [pc |-> "idle", heap |-> {}, user |-> NULL, answer |-> NULL, rc |-> NULL, sure |-> FALSE, since |-> 0]

ClientInit ==
  /\ lib = [c \in Callers |-> NULL] /\ purse = lib
  /\ call = [c \in Callers |-> NoCall]
  /\ orphans = [c \in Callers |-> {}]

Step(c, pc, heap) == call' = [call EXCEPT ![c].pc = pc, ![c].heap = heap]
Return(c, rc, heap) == call' = [call EXCEPT ![c].pc = "returned", ![c].rc = rc, ![c].heap = heap]
Held(c) == call[c].heap

(* c_rest_client_init, over the transport of the build: what is left when it *)
(* fails at the context, at the client in it, or at the transport.           *)
InitLeaves == {{}, {"http"}}

(* c_rest_client_destroy gives up the transport, the client and the context, *)
(* in this order, and returns at the first that fails.                       *)
DestroyLeaves == {{"transport", "http", "context"}, {"http", "context"}}

(* oauth2_client_init.  Three strings and the HTTP client are allocated;     *)
(* oauth2_client_cleanup gives up those that were when one is refused.       *)
InitLibrary(c, app) ==
  /\ call[c].pc = "idle" /\ lib[c] = NULL
  /\ \/ Faulty(0) /\ lib' = [lib EXCEPT ![c] = app] /\ UNCHANGED orphans
     \/ \E left \in InitLeaves : Faulty(1) /\ orphans' = [orphans EXCEPT ![c] = @ \cup left] /\ UNCHANGED lib
  /\ UNCHANGED <<call, purse>>

(* oauth2_client_cleanup forgets the HTTP client, also when it was not       *)
(* destroyed.                                                                *)
CleanUpLibrary(c) ==
  /\ call[c].pc = "idle" /\ lib[c] # NULL
  /\ lib' = [lib EXCEPT ![c] = NULL]
  /\ \/ Faulty(0) /\ UNCHANGED orphans
     \/ \E left \in DestroyLeaves : Faulty(1) /\ orphans' = [orphans EXCEPT ![c] = @ \cup left]
  /\ UNCHANGED <<call, purse>>

(* oauth2_client_password_grant *)
Grant(c, user) ==
  /\ call[c].pc = "idle" /\ lib[c] # NULL
  /\ call' = [call EXCEPT ![c] = [NoCall EXCEPT
       !.pc = "prepare", !.user = user, !.sure = lib[c] \in apps /\ user \in users, !.since = faults]]
  /\ UNCHANGED <<lib, purse, orphans, faults>>

(* The caller looks at what the grant returned, and keeps the token.         *)
TakeToken(c) ==
  /\ call[c].pc = "returned"
  /\ purse' = [purse EXCEPT ![c] = IF call[c].rc = "ok" THEN call[c].answer.body[1] ELSE @]
  /\ call' = [call EXCEPT ![c] = NoCall]
  /\ UNCHANGED <<lib, orphans, faults>>

(* The pieces a request is made of, in the order they are allocated: the     *)
(* text of c_rest_client_build_auth_basic, the form of post_form_sync, its   *)
(* copies of the grant's header and of Content-Type, and in request_sync the *)
(* request with copies of its own.                                           *)
Pieces == <<"auth", "body", "headers", "request">>
PiecesUpTo(i) == {Pieces[j] : j \in 1 .. i}

(* Every caller gives up what it allocated when the next is refused, but     *)
(* request_sync returns at once, and what the request held then is lost.     *)
PrepareRequest(c) ==
  /\ call[c].pc = "prepare"
  /\ \/ Faulty(0) /\ Step(c, "send", PiecesUpTo(Len(Pieces)))
     \/ \E lost \in SUBSET {"request"} : Faulty(1) /\ Return(c, "error", lost)
  /\ UNCHANGED <<lib, purse, orphans>>

(* Mutant: the form is built with the keys in the wrong places. *)
GrantFormSwapped(app, user) ==
  [key \in {"grant_type", "client_id", "client_secret", "username", "password"} |->
     CASE key = "grant_type" -> "password" [] key = "client_id" -> app[2] [] key = "client_secret" -> app[1]
       [] key = "username" -> user[1] [] key = "password" -> user[2]]

(* What the fields and headers of the grant amount to at the server.         *)
GrantForm(app, user) ==
  [key \in {"grant_type", "client_id", "client_secret", "username", "password"} |->
     CASE key = "grant_type" -> "password" [] key = "client_id" -> app[1] [] key = "client_secret" -> app[2]
       [] key = "username" -> user[1] [] key = "password" -> user[2]]

GrantRequest(c) ==
  [route |-> "token", form |-> GrantForm(lib[c], call[c].user), basic |-> lib[c], bearer |-> NULL]

(* The transport returns an error or, with res, what the server answered.    *)
Receive(c, answer) ==
  call' = [call EXCEPT ![c].pc = "copy", ![c].answer = answer,
                         ![c].heap = @ \cup (IF answer = NULL THEN {} ELSE {"response"})]

(* The rest of c_rest_client_request_sync: a copy of the answer for the      *)
(* caller, if there is memory for it and for the body in it, and everything  *)
(* else is given up; then post_form_sync and the grant give up theirs.  An   *)
(* error of the transport comes back with no answer.  Where giving up the    *)
(* answer or the request fails, request_sync returns with an error, and what *)
(* the request holds may be lost; the copy is given up by the grant.         *)
CopyAnswer(c) ==
  LET rest == Held(c) \ {"response", "request", "headers", "body", "auth"}
      answer == call[c].answer
  IN
  /\ call[c].pc = "copy"
  /\ \/ answer = NULL /\ Faulty(0) /\ Return(c, "error", rest)
     \/ \E lost \in SUBSET {"request"} : Faulty(1) /\ Return(c, "error", rest \cup lost)
     \/ /\ answer # NULL
        /\ \E got \in {answer, [answer EXCEPT !.body = <<>>]} :
             /\ Faulty(IF got = answer THEN 0 ELSE 1)
             /\ call' = [call EXCEPT ![c].pc = "read", ![c].answer = got, ![c].heap = rest \cup {"copy"}]
  /\ UNCHANGED <<lib, purse, orphans>>

(* Mutant: the answer is given up only where the token is read.             *)
ReadAnswerKept(c) ==
  LET granted == call[c].answer.status = 200 /\ call[c].answer.body # <<>> IN
  /\ call[c].pc = "read"
  /\ \/ ~granted /\ Faulty(0) /\ Return(c, "error", Held(c))
     \/ granted /\ Faulty(1) /\ Return(c, "error", Held(c) \ {"copy"})
     \/ granted /\ Faulty(0) /\ Return(c, "ok", (Held(c) \ {"copy"}) \cup {"token"})
  /\ UNCHANGED <<lib, purse, orphans>>

(* The rest of the grant: c_rest_client_response_parse_json and the copy of  *)
(* the token may be refused memory.                                          *)
ReadAnswer(c) ==
  LET granted == call[c].answer.status = 200 /\ call[c].answer.body # <<>> IN
  /\ call[c].pc = "read"
  /\ \/ ~granted /\ Faulty(0) /\ Return(c, "error", Held(c) \ {"copy"})
     \/ granted /\ Faulty(1) /\ Return(c, "error", Held(c) \ {"copy"})
     \/ granted /\ Faulty(0) /\ Return(c, "ok", (Held(c) \ {"copy"}) \cup {"token"})
  /\ UNCHANGED <<lib, purse, orphans>>

ClientStep(c) ==
  \/ PrepareRequest(c) \/ CopyAnswer(c) \/ ReadAnswer(c)
  \/ TakeToken(c) \/ CleanUpLibrary(c)
=============================================================================
