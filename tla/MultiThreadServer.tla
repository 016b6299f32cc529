-------------------------- MODULE MultiThreadServer --------------------------
(***************************************************************************)
(* The MULTI_THREAD modality (src/src/modality_multi_thread.c, POSIX       *)
(* build): c_rest_run accepts connections and starts a thread for each,    *)
(* c_rest_stop and c_rest_destroy join the threads and close the           *)
(* listening socket.  `main' calls run and, once run and stop are over,    *)
(* destroy; stop is called by a thread of its own or from a request        *)
(* handler, that is on a worker.  Nothing in the code orders the two: the  *)
(* table of workers, its counter and server_sock are plain fields that     *)
(* both threads read and write.                                            *)
(*                                                                         *)
(* A file descriptor is the lowest free number, as POSIX has it.  accept   *)
(* keeps the listening socket alive while it is blocked on it.  Joining a  *)
(* thread that is joined already, or is being joined, fails (glibc).       *)
(***************************************************************************)
EXTENDS Naturals, FiniteSets

CONSTANTS Workers,   (* one worker thread per connection that arrives     *)
          NoWorker,  (* a NULL thread handle                              *)
          MaxSlots,  (* entries of state->workers (64 in the code)        *)
          MaxRuns    (* bound: how often c_rest_run is called             *)

ASSUME WorkersAssumption == IsFiniteSet(Workers) /\ NoWorker \notin Workers
ASSUME SlotsAssumption == MaxSlots \in Nat \ {0}
ASSUME RunsAssumption == MaxRuns \in Nat \ {0}
ASSUME KernelAssumption == Workers \cap {"free", "socket", "listen"} = {}  \* fd tells them apart

Fds == 0 .. Cardinality(Workers)  \* enough for the listener and each client
NoFd == Cardinality(Workers) + 1  \* C_REST_INVALID_SOCKET

Actors == {"main", "ctl"}  \* the thread in run or destroy, the one in stop

VARIABLES
  sock,     (* state->server_sock                                         *)
  running,  (* state->is_running                                          *)
  slots,    (* state->workers                                             *)
  count,    (* state->worker_count                                        *)
  freed,    (* internal_state and the context are freed                   *)
  fd,       (* the kernel's table: free, socket, listen or a worker's     *)
  backlog,  (* connections waiting to be accepted                         *)
  wstate,   (* per worker: unborn, accepted, handling, exited or leaked   *)
  wfd,      (* per worker: its client_sock                                *)
  claimed,  (* the workers some pthread_join has been called on           *)
  pc,       (* per actor: where it is                                     *)
  idx,      (* per actor: the loop variable i of its join loop            *)
  fresh,    (* main: the worker just accepted                             *)
  rc,       (* per actor: what its last call returned                     *)
  runs,     (* calls of run so far                                        *)
  stopper,  (* the worker that called stop, NoWorker if none did          *)
  late,     (* history: connections accepted after is_running was cleared *)
  missed    (* history: workers the full table had no slot for            *)

table == <<slots, count>>
kernel == <<fd, backlog>>
work == <<wstate, wfd>>
hist == <<late, missed>>
vars == <<sock, running, table, freed, kernel, work, claimed, pc, idx, fresh, rc, runs, stopper, hist>>

RunPcs == {"create", "listen", "test", "accept", "blocked", "spawn", "record", "store", "slotLeft", "countLeft",
           "runJoin", "runWait", "runReset"}
DestroyPcs == {"destroyJoin", "destroyWait", "destroyReset", "destroyClose", "over"}

Goto(a, where) == pc' = [pc EXCEPT ![a] = where]

Done(a, where, r) == Goto(a, where) /\ rc' = [rc EXCEPT ![a] = r]

Free == {f \in Fds : fd[f] = "free"}
Lowest == CHOOSE f \in Free : \A g \in Free : f <= g

(* close(f): EBADF unless f is open, whatever it denotes by now. *)
Open(f) == f \in Fds /\ fd[f] # "free"
-----------------------------------------------------------------------------
(* c_rest_run *)
RunStart ==
  /\ pc["main"] = "idle" /\ runs < MaxRuns
  /\ runs' = runs + 1
  /\ running' = TRUE
  /\ late' = 0
  /\ Goto("main", IF sock = NoFd THEN "create" ELSE "test")
  /\ UNCHANGED <<sock, table, freed, kernel, work, claimed, idx, fresh, rc, stopper, missed>>

(* server_sock is visible to stop from here on, before it is bound. *)
RunCreate ==
  /\ pc["main"] = "create"
  /\ sock' = Lowest
  /\ fd' = [fd EXCEPT ![Lowest] = "socket"]
  /\ Goto("main", "listen")
  /\ UNCHANGED <<running, table, freed, backlog, work, claimed, idx, fresh, rc, runs, stopper, hist>>

(* no descriptor is to be had *)
RunCreateFails ==
  /\ pc["main"] = "create"
  /\ Done("main", "idle", "error")
  /\ UNCHANGED <<sock, running, table, freed, kernel, work, claimed, idx, fresh, runs, stopper, hist>>

RunListen ==
  /\ pc["main"] = "listen" /\ Open(sock)
  /\ fd' = [fd EXCEPT ![sock] = "listen"]
  /\ Goto("main", "test")
  /\ UNCHANGED <<sock, running, table, freed, backlog, work, claimed, idx, fresh, rc, runs, stopper, hist>>

(* bind or listen fails: the socket is closed and forgotten. *)
RunListenFails ==
  /\ pc["main"] = "listen" /\ Open(sock)
  /\ fd' = [fd EXCEPT ![sock] = "free"]
  /\ sock' = NoFd
  /\ Done("main", "idle", "error")
  /\ UNCHANGED <<running, table, freed, backlog, work, claimed, idx, fresh, runs, stopper, hist>>

(* stop has closed the socket: bind fails, and so does closing it again. *)
RunListenClosed ==
  /\ pc["main"] = "listen" /\ ~Open(sock)
  /\ Done("main", "idle", "error")
  /\ UNCHANGED <<sock, running, table, freed, kernel, work, claimed, idx, fresh, runs, stopper, hist>>

RunTestForgotten ==  \* the loop runs on whatever is_running says
  /\ pc["main"] = "test"
  /\ Goto("main", "accept")
  /\ idx' = [idx EXCEPT !["main"] = 1]
  /\ UNCHANGED <<sock, running, table, freed, kernel, work, claimed, fresh, rc, runs, stopper, hist>>

(* while (state->is_running) *)
RunTest ==
  /\ pc["main"] = "test"
  /\ Goto("main", IF running THEN "accept" ELSE "runJoin")
  /\ idx' = [idx EXCEPT !["main"] = 1]
  /\ UNCHANGED <<sock, running, table, freed, kernel, work, claimed, fresh, rc, runs, stopper, hist>>

(* accept fails: the loop ends if stop was called, and run returns if not,   *)
(* leaving is_running set and the workers unjoined.                          *)
AcceptFailed ==
  IF running THEN Done("main", "idle", "error") ELSE Goto("main", "test") /\ UNCHANGED rc

RunAcceptRefused ==
  /\ pc["main"] = "accept" /\ ~(Open(sock) /\ fd[sock] = "listen")
  /\ AcceptFailed
  /\ UNCHANGED <<sock, running, table, freed, kernel, work, claimed, idx, fresh, runs, stopper, hist>>

RunBlock ==
  /\ pc["main"] = "accept" /\ Open(sock) /\ fd[sock] = "listen"
  /\ Goto("main", "blocked")
  /\ UNCHANGED <<sock, running, table, freed, kernel, work, claimed, idx, fresh, rc, runs, stopper, hist>>

RunAcceptFails ==
  /\ pc["main"] = "blocked"
  /\ AcceptFailed
  /\ UNCHANGED <<sock, running, table, freed, kernel, work, claimed, idx, fresh, runs, stopper, hist>>

RunAccept(w) ==
  /\ pc["main"] = "blocked" /\ backlog > 0 /\ wstate[w] = "unborn"
  /\ backlog' = backlog - 1
  /\ fd' = [fd EXCEPT ![Lowest] = w]
  /\ wfd' = [wfd EXCEPT ![w] = Lowest]
  /\ wstate' = [wstate EXCEPT ![w] = "accepted"]
  /\ fresh' = w
  /\ late' = IF running THEN late ELSE late + 1
  /\ Goto("main", "spawn")
  /\ UNCHANGED <<sock, running, table, freed, claimed, idx, rc, runs, stopper, missed>>

RunSpawn ==
  /\ pc["main"] = "spawn"
  /\ wstate' = [wstate EXCEPT ![fresh] = "handling"]
  /\ Goto("main", "record")
  /\ UNCHANGED <<sock, running, table, freed, kernel, wfd, claimed, idx, fresh, rc, runs, stopper, hist>>

(* No memory for the arguments: the client's socket stays open, unserved. *)
RunSpawnFails ==
  /\ pc["main"] = "spawn"
  /\ wstate' = [wstate EXCEPT ![fresh] = "leaked"]
  /\ Goto("main", "test")
  /\ UNCHANGED <<sock, running, table, freed, kernel, wfd, claimed, idx, fresh, rc, runs, stopper, hist>>

HasSlotOffByOne == count <= MaxSlots  \* one entry too many
HasSlot == count < MaxSlots

(* worker_count is read here and written below: stop may act in between. *)
RunReadCount ==
  /\ pc["main"] = "record"
  /\ IF HasSlot
     THEN Goto("main", "store") /\ UNCHANGED missed
     ELSE Goto("main", "test") /\ missed' = missed \cup {fresh}
  /\ idx' = [idx EXCEPT !["main"] = count + 1]
  /\ UNCHANGED <<sock, running, table, freed, kernel, work, claimed, fresh, rc, runs, stopper, late>>

(* workers[worker_count++] = handle: two stores, in either order. *)
RunStoreSlot ==
  /\ pc["main"] \in {"store", "slotLeft"}
  /\ slots' = [slots EXCEPT ![idx["main"]] = fresh]
  /\ Goto("main", IF pc["main"] = "store" THEN "countLeft" ELSE "test")
  /\ UNCHANGED <<sock, running, count, freed, kernel, work, claimed, idx, fresh, rc, runs, stopper, hist>>

RunStoreCountForgotten ==  \* the handle is stored, the counter is not
  /\ pc["main"] \in {"store", "countLeft"}
  /\ Goto("main", IF pc["main"] = "store" THEN "slotLeft" ELSE "test")
  /\ UNCHANGED <<sock, running, table, freed, kernel, work, claimed, idx, fresh, rc, runs, stopper, hist>>

RunStoreCount ==
  /\ pc["main"] \in {"store", "countLeft"}
  /\ count' = idx["main"]
  /\ Goto("main", IF pc["main"] = "store" THEN "slotLeft" ELSE "test")
  /\ UNCHANGED <<sock, running, slots, freed, kernel, work, claimed, idx, fresh, rc, runs, stopper, hist>>
-----------------------------------------------------------------------------
(* The join loop that ends run, and that begins stop and destroy. *)
JoinOf == [main |-> {"runJoin", "destroyJoin"}, ctl |-> {"stopJoin"}]
ResetOf == [runJoin |-> "runReset", stopJoin |-> "stopReset", destroyJoin |-> "destroyReset"]
WaitOf == [runJoin |-> "runWait", stopJoin |-> "stopWait", destroyJoin |-> "destroyWait"]
Over(a) == IF pc[a] = "runJoin" THEN "idle" ELSE "over"

Joining(a) == pc[a] \in JoinOf[a]
Waiting(a) == \E p \in JoinOf[a] : pc[a] = WaitOf[p]

SelfForgotten(a) == NoWorker  \* a thread may wait for itself

(* The thread that calls stop is one of the workers, or none of them. *)
Self(a) == IF a = "ctl" THEN stopper ELSE NoWorker

JoinSkip(a) ==
  /\ Joining(a) /\ idx[a] <= count /\ slots[idx[a]] = NoWorker
  /\ idx' = [idx EXCEPT ![a] = @ + 1]
  /\ UNCHANGED <<sock, running, table, freed, kernel, work, claimed, pc, fresh, rc, runs, stopper, hist>>

JoinBegin(a) ==
  /\ Joining(a) /\ idx[a] <= count
  /\ LET w == slots[idx[a]] IN
       /\ w # NoWorker /\ w # Self(a) /\ claimed[w] = "no"
       /\ claimed' = [claimed EXCEPT ![w] = a]
  /\ Goto(a, WaitOf[pc[a]])
  /\ UNCHANGED <<sock, running, table, freed, kernel, work, idx, fresh, rc, runs, stopper, hist>>

(* Joining oneself, or a thread that is joined already: the call gives up. *)
JoinFails(a) ==
  /\ Joining(a) /\ idx[a] <= count
  /\ LET w == slots[idx[a]] IN w # NoWorker /\ (w = Self(a) \/ claimed[w] # "no")
  /\ Done(a, Over(a), "error")
  /\ UNCHANGED <<sock, running, table, freed, kernel, work, claimed, idx, fresh, runs, stopper, hist>>

JoinEnd(a, w) ==
  /\ Waiting(a) /\ claimed[w] = a /\ wstate[w] = "exited"
  /\ claimed' = [claimed EXCEPT ![w] = "joined"]
  /\ slots' = [slots EXCEPT ![idx[a]] = NoWorker]
  /\ idx' = [idx EXCEPT ![a] = @ + 1]
  /\ Goto(a, CHOOSE p \in JoinOf[a] : WaitOf[p] = pc[a])
  /\ UNCHANGED <<sock, running, count, freed, kernel, work, fresh, rc, runs, stopper, hist>>

(* The loop's test fails; worker_count = 0 is a store of its own. *)
JoinOver(a) ==
  /\ Joining(a) /\ idx[a] > count
  /\ Goto(a, ResetOf[pc[a]])
  /\ UNCHANGED <<sock, running, table, freed, kernel, work, claimed, idx, fresh, rc, runs, stopper, hist>>

RunEnds ==
  /\ pc["main"] = "runReset"
  /\ count' = 0
  /\ Done("main", "idle", "ok")
  /\ UNCHANGED <<sock, running, slots, freed, kernel, work, claimed, idx, fresh, runs, stopper, hist>>
-----------------------------------------------------------------------------
(* c_rest_stop, called once: by a thread of its own or by worker w. *)
StopStart(w) ==
  /\ pc["ctl"] = "idle" /\ pc["main"] \notin DestroyPcs
  /\ w # NoWorker => wstate[w] = "handling"
  /\ stopper' = w
  /\ running' = FALSE
  /\ idx' = [idx EXCEPT !["ctl"] = 1]
  /\ Goto("ctl", "stopJoin")
  /\ UNCHANGED <<sock, table, freed, kernel, work, claimed, fresh, rc, runs, hist>>

StopReset ==
  /\ pc["ctl"] = "stopReset"
  /\ count' = 0
  /\ Goto("ctl", "stopClose")
  /\ UNCHANGED <<sock, running, slots, freed, kernel, work, claimed, idx, fresh, rc, runs, stopper, hist>>

(* server_sock keeps its value: only the Windows build resets it. *)
CloseServerSock == fd' = IF Open(sock) THEN [fd EXCEPT ![sock] = "free"] ELSE fd
CloseRc == IF sock = NoFd \/ Open(sock) THEN "ok" ELSE "error"

StopClose ==
  /\ pc["ctl"] = "stopClose"
  /\ CloseServerSock
  /\ Done("ctl", "over", CloseRc)
  /\ UNCHANGED <<sock, running, table, freed, backlog, work, claimed, idx, fresh, runs, stopper, hist>>

DestroyStartUnjoined ==  \* destroy does not join the workers
  /\ pc["main"] = "idle" /\ pc["ctl"] \in {"idle", "over"}
  /\ idx' = [idx EXCEPT !["main"] = 1]
  /\ Goto("main", "destroyReset")
  /\ UNCHANGED <<sock, running, table, freed, kernel, work, claimed, fresh, rc, runs, stopper, hist>>

(* c_rest_destroy, after run and stop. *)
DestroyStart ==
  /\ pc["main"] = "idle" /\ pc["ctl"] \in {"idle", "over"}
  /\ idx' = [idx EXCEPT !["main"] = 1]
  /\ Goto("main", "destroyJoin")
  /\ UNCHANGED <<sock, running, table, freed, kernel, work, claimed, fresh, rc, runs, stopper, hist>>

DestroyReset ==
  /\ pc["main"] = "destroyReset"
  /\ count' = 0
  /\ Goto("main", "destroyClose")
  /\ UNCHANGED <<sock, running, slots, freed, kernel, work, claimed, idx, fresh, rc, runs, stopper, hist>>

(* The state and the context are freed only when the close succeeds. *)
DestroyClose ==
  /\ pc["main"] = "destroyClose"
  /\ CloseServerSock
  /\ freed' = (CloseRc = "ok")
  /\ Done("main", "over", CloseRc)
  /\ UNCHANGED <<sock, running, table, backlog, work, claimed, idx, fresh, runs, stopper, hist>>
-----------------------------------------------------------------------------
(* worker_thread: c_rest_handle_connection returns, the socket is closed. *)
WorkerFinish(w) ==
  /\ wstate[w] = "handling"
  /\ stopper = w => pc["ctl"] = "over"
  /\ fd' = IF Open(wfd[w]) THEN [fd EXCEPT ![wfd[w]] = "free"] ELSE fd
  /\ wstate' = [wstate EXCEPT ![w] = "exited"]
  /\ UNCHANGED <<sock, running, table, freed, backlog, wfd, claimed, pc, idx, fresh, rc, runs, stopper, hist>>

Unborn == {w \in Workers : wstate[w] = "unborn"}

(* A client connects: the bound is one connection for each worker. *)
ClientConnects ==
  /\ \/ \E f \in Fds : fd[f] = "listen"
     \/ pc["main"] = "blocked"
  /\ backlog < Cardinality(Unborn)
  /\ backlog' = backlog + 1
  /\ UNCHANGED <<sock, running, table, freed, fd, work, claimed, pc, idx, fresh, rc, runs, stopper, hist>>
-----------------------------------------------------------------------------
Init ==
  /\ sock = NoFd
  /\ running = FALSE
  /\ slots = [i \in 1 .. MaxSlots |-> NoWorker]
  /\ count = 0
  /\ freed = FALSE
  /\ fd = [f \in Fds |-> "free"]
  /\ backlog = 0
  /\ wstate = [w \in Workers |-> "unborn"]
  /\ wfd = [w \in Workers |-> NoFd]
  /\ claimed = [w \in Workers |-> "no"]
  /\ pc = [a \in Actors |-> "idle"]
  /\ idx = [a \in Actors |-> 1]
  /\ fresh = NoWorker
  /\ rc = [a \in Actors |-> "none"]
  /\ runs = 0
  /\ stopper = NoWorker
  /\ late = 0
  /\ missed = {}

RunAccepts == \E w \in Workers : RunAccept(w)

RunStep ==
  \/ RunCreate \/ RunListen \/ RunListenClosed \/ RunTest \/ RunAcceptRefused \/ RunBlock \/ RunAccepts
  \/ RunSpawn \/ RunReadCount \/ RunStoreSlot \/ RunStoreCount \/ RunEnds

JoinStep(a) ==
  \/ JoinSkip(a) \/ JoinBegin(a) \/ JoinFails(a) \/ JoinOver(a)
  \/ \E w \in Workers : JoinEnd(a, w)

MainStep == RunStep \/ JoinStep("main") \/ DestroyReset \/ DestroyClose
CtlStep == JoinStep("ctl") \/ StopReset \/ StopClose

Faults == RunCreateFails \/ RunListenFails \/ RunAcceptFails \/ RunSpawnFails

Next ==
  \/ RunStart \/ DestroyStart
  \/ \E w \in Workers \cup {NoWorker} : StopStart(w)
  \/ MainStep \/ CtlStep \/ Faults
  \/ \E w \in Workers : WorkerFinish(w)
  \/ ClientConnects

Spec == Init /\ [][Next]_vars

(* Threads run; a fault need not happen and nobody has to call or connect.   *)
(* WorkerFinish is fair because the peers are assumed to hang up in the end: *)
(* the code itself has no timeout on a connection.                           *)
Fairness ==
  /\ WF_vars(MainStep)
  /\ WF_vars(CtlStep)
  /\ \A w \in Workers : WF_vars(WorkerFinish(w))

FairSpec == Spec /\ Fairness
-----------------------------------------------------------------------------
MainPcs == RunPcs \cup DestroyPcs \cup {"idle"}

TypeOK ==
  /\ sock \in Fds \cup {NoFd}
  /\ running \in BOOLEAN /\ freed \in BOOLEAN
  /\ slots \in [1 .. MaxSlots -> Workers \cup {NoWorker}]
  /\ count \in 0 .. MaxSlots
  /\ fd \in [Fds -> {"free", "socket", "listen"} \cup Workers]
  /\ backlog \in 0 .. Cardinality(Workers)
  /\ wstate \in [Workers -> {"unborn", "accepted", "handling", "exited", "leaked"}]
  /\ wfd \in [Workers -> Fds \cup {NoFd}]
  /\ claimed \in [Workers -> {"no", "joined"} \cup Actors]
  /\ pc \in [Actors -> MainPcs \cup {"stopJoin", "stopWait", "stopReset", "stopClose"}]
  /\ idx \in [Actors -> 1 .. MaxSlots + 1]
  /\ fresh \in Workers \cup {NoWorker}
  /\ rc \in [Actors -> {"none", "ok", "error"}]
  /\ runs \in 0 .. MaxRuns
  /\ stopper \in Workers \cup {NoWorker}
  /\ late \in Nat
  /\ missed \subseteq Workers

Handling == {w \in Workers : wstate[w] = "handling"}
InSlot(w) == \E i \in 1 .. count : slots[i] = w

(* Once stop has cleared is_running, run accepts at most the connection it   *)
(* was already blocked for, however the two threads interleave.              *)
OneLateConnection == late <= 1

(* Until stop is called, a running worker can be found again: it is in the   *)
(* table, about to be put there, or came when the table was full.            *)
WorkersTracked ==
  pc["ctl"] = "idle" =>
    \A w \in Handling :
      InSlot(w) \/ w \in missed \/ (w = fresh /\ pc["main"] \in {"record", "store", "slotLeft", "countLeft"})

(* Without stop, destroy frees the context only when every worker the table  *)
(* had room for is done, also after run gave up on a failed accept.          *)
DestroyWaits == freed /\ pc["ctl"] = "idle" => Handling \subseteq missed

(* Shutting down never hangs on a join: once is_running is cleared, run      *)
(* returns, or is blocked in accept with nobody connecting, and stop returns *)
(* too, whichever thread joins a worker and whoever called stop.             *)
ShutdownCompletes ==
  /\ (~running /\ pc["main"] \in RunPcs)
       ~> (pc["main"] \notin RunPcs \/ (pc["main"] = "blocked" /\ backlog = 0))
  /\ (pc["ctl"] # "idle") ~> (pc["ctl"] = "over")

(* c_rest_destroy "destroys and cleans up" the context: once it has returned *)
(* the server's state is freed.                                              *)
DestroyCleansUp == pc["main"] = "over" => freed

(* c_rest_stop ends in a graceful shutdown: when both calls have returned    *)
(* without an error, no connection is still being handled.                   *)
GracefulShutdown ==
  pc["main"] = "idle" /\ pc["ctl"] = "over" /\ rc["main"] = "ok" /\ rc["ctl"] = "ok"
    => Handling = {}
=============================================================================
