------------------------------- MODULE OAuth2Main -------------------------------
(***************************************************************************)
(* The life of the server, src/examples/oauth2/src/main.c: what main       *)
(* acquires before it serves, what it gives up when a step fails, and what *)
(* it does when c_rest_run returns.  What follows c_rest_run ends as       *)
(* "stopped", "failed" or "crashed"; "exited" is what ends before it.      *)
(***************************************************************************)
EXTENDS OAuth2Server

VARIABLE main  (* pc, what it holds, the routes that are registered *)

Routes == {"token", "login", "logout", "secret", "clients", "users"}

MainInit == main = [pc |-> "context", held |-> {}, routes |-> {}]

MainAt(pc) == main.pc = pc
Gain(pc, what) == Faulty(0) /\ main' = [main EXCEPT !.pc = pc, !.held = @ \cup what]
Quit(freed, n) == Faulty(n) /\ main' = [main EXCEPT !.pc = "exited", !.held = @ \ freed]

(* c_rest_init *)
InitContext == MainAt("context") /\ (Gain("tls", {"context"}) \/ Quit({}, 1))

(* TLS is optional, and the server goes on without it when it cannot be had. *)
LoadTls ==
  /\ MainAt("tls")
  /\ \/ \E what \in {{}, {"tls"}} : Gain("router", what)
     \/ Faulty(1) /\ main' = [main EXCEPT !.pc = "router"]

InitRouter == MainAt("router") /\ (Gain("connect", {"router"}) \/ Quit({"tls", "context"}, 1))

(* c_orm_sqlite_connect and c_orm_oauth2_create_tables, whose failure is     *)
(* ignored: without tables each query fails, as each may in OAuth2Server.    *)
Connect ==
  /\ MainAt("connect")
  /\ \/ \E n \in 0 .. 1 : Faulty(n) /\ main' = [main EXCEPT !.pc = "routes", !.held = @ \cup {"database"}]
     \/ Quit({"router", "tls", "context"}, 1)

(* oauth2_server_init registers the routes, one by one, and does not look    *)
(* whether it could; it fails if the token's schema cannot be documented,    *)
(* and a text of the documentation that gets no memory is written to at NULL.*)
InitServer ==
  /\ MainAt("routes")
  /\ \/ Faulty(0) /\ main' = [main EXCEPT !.pc = "documents", !.routes = Routes]
     \/ \E route \in Routes : Faulty(1) /\ main' = [main EXCEPT !.pc = "documents", !.routes = Routes \ {route}]
     \/ Quit({"router", "tls", "context"}, 1)
     \/ Faulty(1) /\ main' = [main EXCEPT !.pc = "crashed"]

(* c_rest_enable_openapi and c_rest_enable_swagger_ui; TLS is not given up.  *)
EnableDocuments == MainAt("documents") /\ (Gain("running", {}) \/ Quit({"router", "context"}, 1))

UnderWay(c) == handler[c].pc \notin {"idle", "done"}
Returned(pc, freed) == UNCHANGED faults /\ main' = [main EXCEPT !.pc = pc, !.held = @ \ freed]

(* c_rest_run returns after a c_rest_stop, which joined the workers.  Nobody *)
(* disconnects the database.  c_rest_destroy closes the listening socket     *)
(* once more: that fails, and the context is kept, unless stop did not get   *)
(* as far as closing it or the number names another file by then.            *)
Stopped ==
  /\ MainAt("running") /\ \A c \in Callers : ~UnderWay(c)
  /\ \E destroyed \in SUBSET {"context"} : Returned("stopped", {"router", "tls"} \cup destroyed)

(* c_rest_run fails, and the router and TLS are given up at once, whatever   *)
(* the handlers are doing; c_rest_destroy waits for them ...                 *)
RunFails == MainAt("running") /\ Returned("failing", {"router", "tls"})

(* ... and closes the socket, unless a stop came in between and did.         *)
Joined ==
  /\ MainAt("failing") /\ \A c \in Callers : ~UnderWay(c)
  /\ Returned("failed", {"context"}) \/ Returned("stopped", {})

(* A handler that returns meanwhile returns into a dispatch of the router    *)
(* that is gone: it goes on as if it were there, or the process is at its    *)
(* end, and so is every connection.                                          *)
Dangles ==
  /\ MainAt("failing") /\ \E c \in Callers : UnderWay(c)
  /\ Returned("crashed", {})
  /\ handler' = [c \in Callers |->
       IF UnderWay(c) THEN [handler[c] EXCEPT !.pc = "done", !.heap = {}] ELSE handler[c]]

MainNext ==
  /\ \/ /\ \/ InitContext \/ LoadTls \/ InitRouter \/ Connect \/ InitServer \/ EnableDocuments
          \/ Stopped \/ RunFails \/ Joined
       /\ UNCHANGED handler
     \/ Dangles
  /\ UNCHANGED <<rows, opened, session>>
=============================================================================
