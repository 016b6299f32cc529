----------------------------- MODULE SerialServer -----------------------------
(***************************************************************************)
(* The life of a context (src/src/modality.c) whose connections are        *)
(* handled one after the other, or not at all: the SINGLE_THREAD and SYNC  *)
(* modalities, and those whose run is a stub.  Only SINGLE_THREAD ever     *)
(* creates a listening socket; SYNC accepts on none.  `main' calls init,   *)
(* run and destroy; stop comes from a thread of its own, a signal or a     *)
(* handler, at any point of the others' code.  A descriptor is the lowest  *)
(* free number, and accept keeps the socket it is blocked on (POSIX).      *)
(***************************************************************************)
EXTENDS Integers

CONSTANTS MaxClients,  \* bound: how many clients connect
          MaxServes    \* bound: how often c_rest_run is called

Stubs == {"ASYNC", "MULTI_PROCESS", "GREENTHREAD", "MESSAGE_PASSING"}
Modalities == Stubs \union {"SINGLE_THREAD", "SYNC", "SINGLE_PROCESS"}
Stoppable == {"SINGLE_THREAD", "SYNC", "SINGLE_PROCESS"}

Sockets == 0 .. MaxClients
NoSocket == -1   \* C_REST_INVALID_SOCKET

VARIABLES
  mode,       (* ctx->modality                                               *)
  place,      (* the context: "none", "live" or "freed"                      *)
  server,     (* state->server_sock                                          *)
  isRunning,  (* state->is_running, or evloop->is_running                    *)
  database,   (* ctx->db_config has a connection string                      *)
  pooled,     (* ctx->db_pool is set                                         *)
  pools,      (* the pools that are open                                     *)
  files,      (* the kernel's table: free, socket, listen or client          *)
  waiting,    (* connections waiting to be accepted                          *)
  clients,    (* how many have connected                                     *)
  at,         (* where main is, and where stop is                            *)
  client,     (* client_sock                                                 *)
  result,     (* what main's last call returned                              *)
  serves,     (* calls of run so far                                         *)
  tardy       (* history: connections accepted after is_running was cleared  *)

conf == <<mode, database>>
pool == <<pooled, pools>>
net == <<files, waiting, clients>>
serialVars == <<conf, place, server, isRunning, pool, net, at, client, result, serves, tardy>>

SerialInit ==
  /\ mode \in Modalities /\ database \in BOOLEAN
  /\ place = "none" /\ server = NoSocket /\ isRunning = FALSE
  /\ pooled = FALSE /\ pools = 0
  /\ files = [f \in Sockets |-> "free"] /\ waiting = 0 /\ clients = 0
  /\ at = [main |-> "idle", stop |-> "idle"]
  /\ client = NoSocket /\ result = "none" /\ serves = 0 /\ tardy = 0

At(where) == at.main = where
To(where) == at' = [at EXCEPT !.main = where]
Returns(r) == To("idle") /\ result' = r

Opened(f) == f \in Sockets /\ files[f] # "free"
LowestFree == CHOOSE f \in Sockets : files[f] = "free" /\ \A g \in Sockets : files[g] = "free" => f <= g
Closed(f) == IF Opened(f) THEN [files EXCEPT ![f] = "free"] ELSE files

(* c_rest_init.  A refused allocation of the context, its state or its event *)
(* loop frees the ones before it.                                            *)
InitServer ==
  /\ place = "none" /\ At("idle")
  /\ \/ place' = "live" /\ result' = "ok"
     \/ place' = place /\ result' = "error"
  /\ UNCHANGED <<conf, server, isRunning, pool, net, at, client, serves, tardy>>

(* c_rest_run: the pool first, a new one at every run. *)
ServeStart ==
  /\ place = "live" /\ At("idle") /\ serves < MaxServes
  /\ serves' = serves + 1
  /\ tardy' = 0
  /\ \/ /\ database
        /\ pooled' = TRUE /\ pools' = pools + 1
        /\ To("begin") /\ UNCHANGED result
     \/ ~database /\ To("begin") /\ UNCHANGED <<pool, result>>
     \/ database /\ Returns("error") /\ UNCHANGED pool
  /\ UNCHANGED <<conf, place, server, isRunning, net, client>>

(* The run of a stub sets is_running and clears it.  A logger that fails     *)
(* between the two leaves it set; one that fails after them is an error too. *)
StubRun(m) ==
  /\ At("begin") /\ mode = m
  /\ \/ isRunning' = FALSE /\ Returns("ok")
     \/ isRunning' \in BOOLEAN /\ Returns("error")
  /\ UNCHANGED <<conf, place, server, pool, net, client, serves, tardy>>

AsyncRun == StubRun("ASYNC")
MultiProcessRun == StubRun("MULTI_PROCESS")
GreenthreadRun == StubRun("GREENTHREAD")
MessagePassingRun == StubRun("MESSAGE_PASSING")

(* dummy_run *)
DummyRuns ==
  /\ At("begin") /\ mode = "SINGLE_PROCESS"
  /\ Returns("ok")
  /\ UNCHANGED <<conf, place, server, isRunning, pool, net, client, serves, tardy>>

(* sync_run.  Nothing ever creates its socket: no accept succeeds, and the   *)
(* rest of the loop is not reached.                                          *)
SyncBegin ==
  /\ At("begin") /\ mode = "SYNC"
  /\ isRunning' = TRUE /\ To("syncTest")
  /\ UNCHANGED <<conf, place, server, pool, net, client, result, serves, tardy>>

SyncTest ==
  /\ At("syncTest")
  /\ IF isRunning THEN To("syncAccept") /\ UNCHANGED result ELSE Returns("ok")
  /\ UNCHANGED <<conf, place, server, isRunning, pool, net, client, serves, tardy>>

SyncAccept ==
  /\ At("syncAccept")
  /\ IF isRunning THEN Returns("error") ELSE To("syncTest") /\ UNCHANGED result
  /\ UNCHANGED <<conf, place, server, isRunning, pool, net, client, serves, tardy>>

(* single_thread_run; a stop that came before is forgotten. *)
ServeBegin ==
  /\ At("begin") /\ mode = "SINGLE_THREAD"
  /\ isRunning' = TRUE
  /\ To(IF server = NoSocket THEN "create" ELSE "test")
  /\ UNCHANGED <<conf, place, server, pool, net, client, result, serves, tardy>>

ServeCreate ==
  /\ At("create")
  /\ server' = LowestFree
  /\ files' = [files EXCEPT ![LowestFree] = "socket"]
  /\ To("listen")
  /\ UNCHANGED <<conf, place, isRunning, pool, waiting, clients, client, result, serves, tardy>>

(* no descriptor is to be had *)
CreateFails ==
  /\ At("create")
  /\ Returns("error")
  /\ UNCHANGED <<conf, place, server, isRunning, pool, net, client, serves, tardy>>

ServeListen ==
  /\ At("listen") /\ Opened(server)
  /\ files' = [files EXCEPT ![server] = "listen"]
  /\ To("test")
  /\ UNCHANGED <<conf, place, server, isRunning, pool, waiting, clients, client, result, serves, tardy>>

(* Mutant: the socket is forgotten, and stays open. *)
ListenFailsOpen ==
  /\ At("listen") /\ Opened(server)
  /\ server' = NoSocket
  /\ Returns("error")
  /\ UNCHANGED <<conf, place, isRunning, pool, net, client, serves, tardy>>

ListenFails ==
  /\ At("listen") /\ Opened(server)
  /\ files' = Closed(server)
  /\ server' = NoSocket
  /\ Returns("error")
  /\ UNCHANGED <<conf, place, isRunning, pool, waiting, clients, client, serves, tardy>>

(* stop has closed it: bind fails, and so does the close after it. *)
ListenClosed ==
  /\ At("listen") /\ ~Opened(server)
  /\ Returns("error")
  /\ UNCHANGED <<conf, place, server, isRunning, pool, net, client, serves, tardy>>

(* Mutant: the loop does not look at is_running. *)
ServeTestForgotten ==
  /\ At("test")
  /\ To("accept")
  /\ UNCHANGED <<conf, place, server, isRunning, pool, net, client, result, serves, tardy>>

ServeTest ==
  /\ At("test")
  /\ IF isRunning THEN To("accept") /\ UNCHANGED result ELSE Returns("ok")
  /\ UNCHANGED <<conf, place, server, isRunning, pool, net, client, serves, tardy>>

(* accept fails: stop has closed the socket, or the system says so.  Unless  *)
(* stop was called, run returns and leaves is_running set.                   *)
AcceptError == IF isRunning THEN Returns("error") ELSE To("test") /\ UNCHANGED result

AcceptRefused ==
  /\ At("accept") /\ ~(Opened(server) /\ files[server] = "listen")
  /\ AcceptError
  /\ UNCHANGED <<conf, place, server, isRunning, pool, net, client, serves, tardy>>

AcceptBlocks ==
  /\ At("accept") /\ Opened(server) /\ files[server] = "listen"
  /\ To("blocked")
  /\ UNCHANGED <<conf, place, server, isRunning, pool, net, client, result, serves, tardy>>

AcceptInterrupted ==
  /\ At("blocked")
  /\ AcceptError
  /\ UNCHANGED <<conf, place, server, isRunning, pool, net, client, serves, tardy>>

Accept ==
  /\ At("blocked") /\ waiting > 0
  /\ waiting' = waiting - 1
  /\ client' = LowestFree
  /\ files' = [files EXCEPT ![LowestFree] = "client"]
  /\ tardy' = IF isRunning THEN tardy ELSE tardy + 1
  /\ To("handle")
  /\ UNCHANGED <<conf, place, server, isRunning, pool, clients, result, serves>>

(* c_rest_handle_connection returns, and the client's socket is closed. *)
HandleEnds ==
  /\ At("handle") /\ Opened(client)
  /\ files' = Closed(client)
  /\ client' = NoSocket
  /\ To("test")
  /\ UNCHANGED <<conf, place, server, isRunning, pool, waiting, clients, result, serves, tardy>>

(* It fails, or stop has closed its descriptor: run gives up, with the       *)
(* socket open and is_running as it was.                                     *)
HandleFails ==
  /\ At("handle")
  /\ client' = NoSocket
  /\ Returns("error")
  /\ UNCHANGED <<conf, place, server, isRunning, pool, net, serves, tardy>>

(* c_rest_stop: the stub modalities have none, and the dummy does nothing. *)
StopServer ==
  /\ place = "live" /\ at.stop = "idle" /\ at.main \notin {"destroyState", "over"}
  /\ mode \in Stoppable
  /\ isRunning' = FALSE
  /\ at' = [at EXCEPT !.stop = "close"]
  /\ UNCHANGED <<conf, place, server, pool, net, client, result, serves, tardy>>

(* server_sock keeps its number (POSIX), which accept may hand out again. *)
StopClosesSocket ==
  /\ at.stop = "close"
  /\ files' = Closed(server)
  /\ at' = [at EXCEPT !.stop = "over"]
  /\ UNCHANGED <<conf, place, server, isRunning, pool, waiting, clients, client, result, serves, tardy>>

(* c_rest_destroy, once run and stop are over: the pool, if it lets go ... *)
DestroyPool ==
  /\ place = "live" /\ At("idle") /\ at.stop \in {"idle", "over"}
  /\ \/ /\ pools' = IF pooled THEN pools - 1 ELSE pools
        /\ pooled' = FALSE
        /\ To("destroyState") /\ UNCHANGED result
     \/ pooled /\ Returns("error") /\ UNCHANGED pool
  /\ UNCHANGED <<conf, place, server, isRunning, net, client, serves, tardy>>

(* ... then the modality, and the context once that is done; a logger that   *)
(* fails at the end of the modality keeps the context from being freed.      *)
Freed == place' = "freed" /\ result' = "ok"
NotFreed == place' = place /\ result' = "error"

Destroy(m) ==
  /\ At("destroyState") /\ mode = m
  /\ To("over")
  /\ UNCHANGED <<conf, server, isRunning, pool, waiting, clients, client, serves, tardy>>

(* A socket that stop has closed cannot be closed again: nothing is freed.   *)
SingleThreadDestroy ==
  /\ Destroy("SINGLE_THREAD")
  /\ files' = Closed(server)
  /\ \/ (server = NoSocket \/ Opened(server)) /\ Freed
     \/ NotFreed

(* The others never have a socket. *)
DestroyIdle(m) == Destroy(m) /\ (Freed \/ NotFreed) /\ UNCHANGED files
SyncDestroy == DestroyIdle("SYNC")
AsyncDestroy == DestroyIdle("ASYNC")
MultiProcessDestroy == DestroyIdle("MULTI_PROCESS")
GreenthreadDestroy == DestroyIdle("GREENTHREAD")
MessagePassingDestroy == DestroyIdle("MESSAGE_PASSING")
DummyDestroy == DestroyIdle("SINGLE_PROCESS")

Connect ==
  /\ clients < MaxClients
  /\ At("blocked") \/ \E f \in Sockets : files[f] = "listen"
  /\ waiting' = waiting + 1 /\ clients' = clients + 1
  /\ UNCHANGED <<conf, place, server, isRunning, pool, files, at, client, result, serves, tardy>>

SerialNext ==
  \/ InitServer \/ ServeStart
  \/ AsyncRun \/ MultiProcessRun \/ GreenthreadRun \/ MessagePassingRun \/ DummyRuns
  \/ SyncBegin \/ SyncTest \/ SyncAccept \/ ServeBegin
  \/ ServeCreate \/ CreateFails \/ ServeListen \/ ListenFails \/ ListenClosed
  \/ ServeTest \/ AcceptRefused \/ AcceptBlocks \/ AcceptInterrupted \/ Accept
  \/ HandleEnds \/ HandleFails
  \/ StopServer \/ StopClosesSocket \/ DestroyPool
  \/ SingleThreadDestroy \/ SyncDestroy \/ AsyncDestroy \/ MultiProcessDestroy
  \/ GreenthreadDestroy \/ MessagePassingDestroy \/ DummyDestroy
  \/ Connect

SerialSpec == SerialInit /\ [][SerialNext]_serialVars

(***************************************************************************)
(* Properties                                                              *)
(***************************************************************************)

(* After is_running is cleared the accept loop takes one connection at most, *)
(* the one it was blocked for (modality_single_thread.c:174-220).            *)
OneTardyConnection == tardy <= 1

(* A context that was freed has left no listening socket behind, and no pool *)
(* if it ran once: whatever failed in run, and wherever stop came between    *)
(* (modality.c:237-273, modality_single_thread.c:71-113, 135-169).  Each     *)
(* further run loses the pool of the one before (modality.c:194).            *)
DestroyReleases ==
  place = "freed" =>
    /\ \A f \in Sockets : files[f] \in {"free", "client"}
    /\ serves <= 1 => pools = 0
=============================================================================
