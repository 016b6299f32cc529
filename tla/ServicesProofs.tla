----------------------------- MODULE ServicesProofs -----------------------------
(***************************************************************************)
(* Theorems about the components that keep state beside a connection: the  *)
(* serial modalities, the hot reload, the memory tracker and the rate      *)
(* limiter.  Each is proved of the component's own specification; the last *)
(* theorem says that Services runs none of them differently.               *)
(***************************************************************************)
EXTENDS Services, SequenceTheorems, FiniteSetTheorems, FunctionTheorems, WellFoundedInduction, TLAPS

-----------------------------------------------------------------------------
(* The serial modalities.  Once a connection was taken late, is_running is   *)
(* FALSE and main has left accept, and nothing sets is_running again but a   *)
(* further run.                                                              *)
Accepting == {"begin", "create", "listen", "accept", "blocked", "syncTest", "syncAccept"}
Places == Accepting \cup {"idle", "test", "handle", "destroyState", "over"}

SerialTyped ==
  /\ at \in [main : Places, stop : {"idle", "close", "over"}]
  /\ files \in [Sockets -> {"free", "socket", "listen", "client"}]
  /\ tardy \in Nat /\ serves \in Nat

TardyOnce == tardy = 0 \/ (tardy = 1 /\ ~isRunning /\ at.main \notin Accepting)

(* The only descriptor that listens, or soon will, is the one that is        *)
(* remembered; only SINGLE_THREAD has one.                                   *)
SocketKnown ==
  /\ \A f \in Sockets : files[f] \in {"socket", "listen"} => f = server
  /\ at.main = "create" => server = NoSocket
  /\ mode # "SINGLE_THREAD" =>
       server = NoSocket /\ at.main \notin {"create", "listen", "test", "accept", "blocked", "handle"}

(* The pool of the first run is the one that is known, until it is given up. *)
PoolKnown ==
  /\ serves = 0 => ~pooled /\ pools = 0
  /\ serves = 1 => pools = IF pooled THEN 1 ELSE 0
  /\ pooled \in BOOLEAN
  /\ at.main \in {"destroyState", "over"} => ~pooled
  /\ place = "freed" => at.main = "over" /\ \A f \in Sockets : files[f] \in {"free", "client"}

SerialInv == SerialTyped /\ TardyOnce /\ SocketKnown /\ PoolKnown

LEMMA InitSerialInv == SerialInit => SerialInv
<1> SUFFICES ASSUME SerialInit PROVE SerialInv
  OBVIOUS
<1> USE DEF SerialInit
<1>1. SerialTyped
  BY DEF SerialTyped, Places, Accepting
<1>2. TardyOnce
  BY DEF TardyOnce
<1>3. SocketKnown
  BY DEF SocketKnown
<1>4. PoolKnown
  BY DEF PoolKnown
<1> QED BY <1>1, <1>2, <1>3, <1>4 DEF SerialInv

LEMMA NextSerialTyped == SerialTyped /\ [SerialNext]_serialVars => SerialTyped'
<1> SUFFICES ASSUME SerialTyped, [SerialNext]_serialVars PROVE SerialTyped'
  OBVIOUS
<1> USE DEF SerialTyped, At, To, Returns, Closed, Opened, net, Places, Accepting, AcceptError, StubRun, Destroy, DestroyIdle
<1>1. CASE InitServer \/ ServeStart
  BY <1>1 DEF InitServer, ServeStart
<1>2. CASE AsyncRun \/ MultiProcessRun \/ GreenthreadRun \/ MessagePassingRun \/ DummyRuns
  BY <1>2 DEF AsyncRun, MultiProcessRun, GreenthreadRun, MessagePassingRun, DummyRuns
<1>3. CASE SyncBegin \/ SyncTest \/ SyncAccept \/ ServeBegin
  BY <1>3 DEF SyncBegin, SyncTest, SyncAccept, ServeBegin
<1>4. CASE ServeCreate \/ CreateFails \/ ServeListen \/ ListenFails \/ ListenClosed
  BY <1>4 DEF ServeCreate, CreateFails, ServeListen, ListenFails, ListenClosed
<1>5. CASE ServeTest \/ AcceptRefused \/ AcceptBlocks \/ AcceptInterrupted \/ Accept
  BY <1>5 DEF ServeTest, AcceptRefused, AcceptBlocks, AcceptInterrupted, Accept
<1>6. CASE HandleEnds \/ HandleFails \/ StopServer \/ StopClosesSocket \/ DestroyPool \/ Connect
  BY <1>6 DEF HandleEnds, HandleFails, StopServer, StopClosesSocket, DestroyPool, Connect
<1>7. CASE SingleThreadDestroy \/ SyncDestroy \/ AsyncDestroy \/ MultiProcessDestroy \/ GreenthreadDestroy
             \/ MessagePassingDestroy \/ DummyDestroy
  BY <1>7 DEF SingleThreadDestroy, SyncDestroy, AsyncDestroy, MultiProcessDestroy, GreenthreadDestroy,
              MessagePassingDestroy, DummyDestroy
<1>8. CASE UNCHANGED serialVars
  BY <1>8 DEF serialVars
<1> QED BY <1>1, <1>2, <1>3, <1>4, <1>5, <1>6, <1>7, <1>8 DEF SerialNext

LEMMA NextTardyOnce == SerialTyped /\ TardyOnce /\ [SerialNext]_serialVars => TardyOnce'
<1> SUFFICES ASSUME SerialTyped, TardyOnce, [SerialNext]_serialVars PROVE TardyOnce'
  OBVIOUS
<1> USE DEF SerialTyped, TardyOnce, At, To, Returns, Closed, Opened, conf, net, pool, Places, Accepting, AcceptError, StubRun, Destroy, DestroyIdle
<1>1. CASE InitServer \/ ServeStart
  BY <1>1 DEF InitServer, ServeStart
<1>2. CASE AsyncRun \/ MultiProcessRun \/ GreenthreadRun \/ MessagePassingRun \/ DummyRuns
  BY <1>2 DEF AsyncRun, MultiProcessRun, GreenthreadRun, MessagePassingRun, DummyRuns
<1>3. CASE SyncBegin \/ SyncTest \/ SyncAccept \/ ServeBegin
  BY <1>3 DEF SyncBegin, SyncTest, SyncAccept, ServeBegin
<1>4. CASE ServeCreate \/ CreateFails \/ ServeListen \/ ListenFails \/ ListenClosed
  BY <1>4 DEF ServeCreate, CreateFails, ServeListen, ListenFails, ListenClosed
<1>5. CASE ServeTest \/ AcceptRefused \/ AcceptBlocks \/ AcceptInterrupted \/ Accept
  BY <1>5 DEF ServeTest, AcceptRefused, AcceptBlocks, AcceptInterrupted, Accept
<1>6. CASE HandleEnds \/ HandleFails \/ StopServer \/ StopClosesSocket \/ DestroyPool \/ Connect
  BY <1>6 DEF HandleEnds, HandleFails, StopServer, StopClosesSocket, DestroyPool, Connect
<1>7. CASE SingleThreadDestroy \/ SyncDestroy \/ AsyncDestroy \/ MultiProcessDestroy \/ GreenthreadDestroy
             \/ MessagePassingDestroy \/ DummyDestroy
  BY <1>7 DEF SingleThreadDestroy, SyncDestroy, AsyncDestroy, MultiProcessDestroy, GreenthreadDestroy,
              MessagePassingDestroy, DummyDestroy
<1>8. CASE UNCHANGED serialVars
  BY <1>8 DEF serialVars
<1> QED BY <1>1, <1>2, <1>3, <1>4, <1>5, <1>6, <1>7, <1>8 DEF SerialNext

LEMMA NextSocketKnown == SerialTyped /\ SocketKnown /\ [SerialNext]_serialVars => SocketKnown'
<1> SUFFICES ASSUME SerialTyped, SocketKnown, [SerialNext]_serialVars PROVE SocketKnown'
  OBVIOUS
<1> USE DEF SerialTyped, SocketKnown, At, To, Returns, Closed, Opened, conf, net, pool, Places, Accepting, AcceptError, StubRun, Destroy, DestroyIdle
<1>1. CASE InitServer \/ ServeStart
  BY <1>1 DEF InitServer, ServeStart
<1>2. CASE AsyncRun \/ MultiProcessRun \/ GreenthreadRun \/ MessagePassingRun \/ DummyRuns
  BY <1>2 DEF AsyncRun, MultiProcessRun, GreenthreadRun, MessagePassingRun, DummyRuns
<1>3. CASE SyncBegin \/ SyncTest \/ SyncAccept \/ ServeBegin
  BY <1>3 DEF SyncBegin, SyncTest, SyncAccept, ServeBegin
<1>4. CASE ServeCreate \/ CreateFails \/ ServeListen \/ ListenFails \/ ListenClosed
  <2>1. CASE ServeCreate
    BY <2>1 DEF ServeCreate, Sockets, NoSocket
  <2>2. CASE ServeListen
    BY <2>2 DEF ServeListen
  <2>3. CASE ListenFails
    BY <2>3 DEF ListenFails
  <2>4. CASE ListenClosed
    BY <2>4 DEF ListenClosed
  <2>5. CASE CreateFails
    BY <2>5 DEF CreateFails
  <2> QED BY <1>4, <2>1, <2>2, <2>3, <2>4, <2>5
<1>5. CASE ServeTest \/ AcceptRefused \/ AcceptBlocks \/ AcceptInterrupted \/ Accept
  BY <1>5 DEF ServeTest, AcceptRefused, AcceptBlocks, AcceptInterrupted, Accept
<1>6. CASE HandleEnds \/ HandleFails \/ StopServer \/ StopClosesSocket \/ DestroyPool \/ Connect
  BY <1>6 DEF HandleEnds, HandleFails, StopServer, StopClosesSocket, DestroyPool, Connect
<1>7. CASE SingleThreadDestroy \/ SyncDestroy \/ AsyncDestroy \/ MultiProcessDestroy \/ GreenthreadDestroy
             \/ MessagePassingDestroy \/ DummyDestroy
  BY <1>7 DEF SingleThreadDestroy, SyncDestroy, AsyncDestroy, MultiProcessDestroy, GreenthreadDestroy,
              MessagePassingDestroy, DummyDestroy
<1>8. CASE UNCHANGED serialVars
  BY <1>8 DEF serialVars
<1> QED BY <1>1, <1>2, <1>3, <1>4, <1>5, <1>6, <1>7, <1>8 DEF SerialNext

LEMMA NextPoolKnown == SerialTyped /\ SocketKnown /\ PoolKnown /\ [SerialNext]_serialVars => PoolKnown'
<1> SUFFICES ASSUME SerialTyped, SocketKnown, PoolKnown, [SerialNext]_serialVars PROVE PoolKnown'
  OBVIOUS
<1> USE DEF SerialTyped, SocketKnown, PoolKnown, Freed, NotFreed, At, To, Returns, Closed, Opened, conf, net, pool, Places, Accepting, AcceptError, StubRun, Destroy, DestroyIdle
<1>1. CASE InitServer \/ ServeStart
  <2>1. CASE InitServer
    BY <2>1 DEF InitServer
  <2>2. CASE ServeStart
    <3>1. serves' = serves + 1 /\ at'.main \in {"begin", "idle"} /\ place' = place /\ place = "live"
      BY <2>2 DEF ServeStart
    <3>2. CASE UNCHANGED pool
      BY <3>1, <3>2
    <3>3. CASE pooled' = TRUE /\ pools' = pools + 1
      BY <3>1, <3>3
    <3> QED BY <2>2, <3>2, <3>3 DEF ServeStart
  <2> QED BY <1>1, <2>1, <2>2
<1>2. CASE AsyncRun \/ MultiProcessRun \/ GreenthreadRun \/ MessagePassingRun \/ DummyRuns
  BY <1>2 DEF AsyncRun, MultiProcessRun, GreenthreadRun, MessagePassingRun, DummyRuns
<1>3. CASE SyncBegin \/ SyncTest \/ SyncAccept \/ ServeBegin
  BY <1>3 DEF SyncBegin, SyncTest, SyncAccept, ServeBegin
<1>4. CASE ServeCreate \/ CreateFails \/ ServeListen \/ ListenFails \/ ListenClosed
  BY <1>4 DEF ServeCreate, CreateFails, ServeListen, ListenFails, ListenClosed
<1>5. CASE ServeTest \/ AcceptRefused \/ AcceptBlocks \/ AcceptInterrupted \/ Accept
  BY <1>5 DEF ServeTest, AcceptRefused, AcceptBlocks, AcceptInterrupted, Accept
<1>6. CASE HandleEnds \/ HandleFails \/ StopServer \/ StopClosesSocket \/ DestroyPool \/ Connect
  <2>1. CASE HandleEnds
    BY <2>1 DEF HandleEnds
  <2>2. CASE HandleFails
    BY <2>2 DEF HandleFails
  <2>3. CASE StopServer
    BY <2>3 DEF StopServer
  <2>4. CASE StopClosesSocket
    BY <2>4 DEF StopClosesSocket
  <2>5. CASE DestroyPool
    <3>1. pooled = TRUE \/ pooled = FALSE
      OBVIOUS
    <3>2. serves' = serves /\ place' = place /\ files' = files /\ place = "live"
      BY <2>5 DEF DestroyPool
    <3>3. CASE UNCHANGED pool /\ at'.main = "idle"
      BY <3>2, <3>3
    <3>4. CASE pools' = (IF pooled THEN pools - 1 ELSE pools) /\ pooled' = FALSE
      <4>1. serves = 0 => pools' = 0
        BY <3>4
      <4>2. serves = 1 => pools' = 0
        BY <3>1, <3>4
      <4> QED BY <3>2, <3>4, <4>1, <4>2
    <3> QED BY <2>5, <3>3, <3>4 DEF DestroyPool
  <2>6. CASE Connect
    BY <2>6 DEF Connect
  <2> QED BY <1>6, <2>1, <2>2, <2>3, <2>4, <2>5, <2>6
<1>7. CASE SingleThreadDestroy \/ SyncDestroy \/ AsyncDestroy \/ MultiProcessDestroy \/ GreenthreadDestroy
             \/ MessagePassingDestroy \/ DummyDestroy
  <2>1. CASE SingleThreadDestroy
    BY <2>1 DEF SingleThreadDestroy
  <2>2. CASE SyncDestroy
    BY <2>2 DEF SyncDestroy, Sockets, NoSocket
  <2>3. CASE AsyncDestroy
    BY <2>3 DEF AsyncDestroy, Sockets, NoSocket
  <2>4. CASE MultiProcessDestroy
    BY <2>4 DEF MultiProcessDestroy, Sockets, NoSocket
  <2>5. CASE GreenthreadDestroy
    BY <2>5 DEF GreenthreadDestroy, Sockets, NoSocket
  <2>6. CASE MessagePassingDestroy
    BY <2>6 DEF MessagePassingDestroy, Sockets, NoSocket
  <2>7. CASE DummyDestroy
    BY <2>7 DEF DummyDestroy, Sockets, NoSocket
  <2> QED BY <1>7, <2>1, <2>2, <2>3, <2>4, <2>5, <2>6, <2>7
<1>8. CASE UNCHANGED serialVars
  BY <1>8 DEF serialVars
<1> QED BY <1>1, <1>2, <1>3, <1>4, <1>5, <1>6, <1>7, <1>8 DEF SerialNext

LEMMA SerialInvariant == SerialSpec => []SerialInv
<1>1. SerialInv /\ [SerialNext]_serialVars => SerialInv'
  BY NextSerialTyped, NextTardyOnce, NextSocketKnown, NextPoolKnown DEF SerialInv
<1> QED BY <1>1, InitSerialInv, PTL DEF SerialSpec

(* Once is_running is cleared, run takes one connection at most before it    *)
(* returns, the one it was blocked for, wherever stop comes between.         *)
THEOREM OneConnectionIsTardy == SerialSpec => []OneTardyConnection
<1>1. SerialInv => OneTardyConnection
  BY DEF SerialInv, SerialTyped, TardyOnce, OneTardyConnection
<1> QED BY <1>1, SerialInvariant, PTL

(* A context that was freed has left no listening socket behind, and no pool *)
(* if it ran once, in every modality, whatever failed and whenever it was    *)
(* stopped.                                                                  *)
THEOREM FreedContextIsReleased == SerialSpec => []DestroyReleases
<1>1. SerialInv => DestroyReleases
  BY DEF SerialInv, SerialTyped, PoolKnown, DestroyReleases
<1> QED BY <1>1, SerialInvariant, PTL

-----------------------------------------------------------------------------
(* The hot reload.  The times that were consumed are times that the files    *)
(* have had; a poll that saw a change remembers it until it calls back.      *)
Polls ==
  {NotPolling, Ended, [at |-> "callback"]}
    \cup [at : {"stat"}, path : Nat \ {0}, noticed : BOOLEAN]
    \cup [at : {"compare"}, path : Nat \ {0}, noticed : BOOLEAN, time : Int]
    \cup [at : {"notify"}, noticed : BOOLEAN]

HotReloadTyped ==
  /\ version \in [Files -> Int] /\ known \in [Files -> Int]
  /\ watched \in Seq(Files) /\ lastTimes \in Seq(Int) /\ Len(lastTimes) = Len(watched)
  /\ poll \in [Pollers -> Polls]
  /\ dropped \in BOOLEAN

TimesReal ==
  /\ \A i \in 1 .. Len(watched) : lastTimes[i] <= version[watched[i]]
  /\ \A p \in Pollers :
       poll[p].at = "compare" => poll[p].path <= Len(watched) /\ poll[p].time <= version[watched[poll[p].path]]
  /\ poll[Watcher] # Ended => handle

Pending(p) == poll[p].at = "callback" \/ (poll[p].at \in {"stat", "compare", "notify"} /\ poll[p].noticed)

ToldOrPending ==
  \/ dropped
  \/ \E p \in Pollers : Pending(p)
  \/ \A i \in 1 .. Len(watched) : known[watched[i]] >= lastTimes[i]

HotReloadInv == HotReloadTyped /\ TimesReal /\ ToldOrPending

(* The states of a poll, by where it is. *)
LEMMA PollShape ==
  ASSUME NEW c \in Polls
  PROVE  /\ c.at \in {"idle", "ended", "callback", "stat", "compare", "notify"}
         /\ c.at \in {"stat", "compare"} => c.path \in Nat \ {0} /\ c.noticed \in BOOLEAN
         /\ c.at = "compare" => c.time \in Int
         /\ c.at = "notify" => c.noticed \in BOOLEAN
BY DEF Polls, NotPolling, Ended

LEMMA PollStates ==
  /\ NotPolling \in Polls /\ NotPolling.at = "idle" /\ Ended \in Polls /\ Ended.at = "ended"
  /\ [at |-> "callback"] \in Polls /\ [at |-> "callback"].at = "callback"
  /\ \A i \in Nat \ {0}, b \in BOOLEAN :
       /\ Statting(i, b) \in Polls /\ Statting(i, b).at = "stat" /\ (Statting(i, b).noticed <=> b)
       /\ \A time \in Int :
            /\ Comparing(i, b, time) \in Polls /\ Comparing(i, b, time).at = "compare"
            /\ Comparing(i, b, time).path = i /\ Comparing(i, b, time).time = time
            /\ Comparing(i, b, time).noticed <=> b
  /\ \A b \in BOOLEAN : Notified(b) \in Polls /\ Notified(b).at = "notify" /\ (Notified(b).noticed <=> b)
BY DEF Polls, NotPolling, Ended, Statting, Comparing, Notified

LEMMA InitHotReloadInv == HotReloadInit => HotReloadInv
<1> SUFFICES ASSUME HotReloadInit PROVE HotReloadInv
  OBVIOUS
<1>1. HotReloadTyped
  <2>1. poll \in [Pollers -> Polls]
    BY PollStates DEF HotReloadInit
  <2>2. watched \in Seq(Files) /\ lastTimes \in Seq(Int) /\ Len(lastTimes) = Len(watched)
    BY EmptySeq DEF HotReloadInit
  <2>3. version \in [Files -> Int] /\ known = version /\ dropped = FALSE
    BY DEF HotReloadInit
  <2> QED BY <2>1, <2>2, <2>3 DEF HotReloadTyped
<1>2. TimesReal
  <2>1. \A p \in Pollers : poll[p].at # "compare"
    BY PollStates DEF HotReloadInit
  <2>2. 1 .. Len(watched) = {} /\ poll[Watcher] = Ended
    BY PollersAssumption DEF HotReloadInit, Pollers
  <2> QED BY <2>1, <2>2 DEF TimesReal
<1>3. ToldOrPending
  <2>1. 1 .. Len(watched) = {}
    BY DEF HotReloadInit
  <2> QED BY <2>1 DEF ToldOrPending
<1> QED BY <1>1, <1>2, <1>3 DEF HotReloadInv

LEMMA NextHotReloadTyped == HotReloadInv /\ [HotReloadNext]_hotReloadVars => HotReloadTyped'
<1> SUFFICES ASSUME HotReloadInv, [HotReloadNext]_hotReloadVars PROVE HotReloadTyped'
  OBVIOUS
<1> USE DEF HotReloadInv, HotReloadTyped
<1>1. CASE ChangeFile
  BY <1>1 DEF ChangeFile
<1>2. CASE InitContext \/ RequestEvents \/ UNCHANGED hotReloadVars
  BY <1>2 DEF InitContext, RequestEvents, hotReloadVars
<1>3. CASE AddWatch
  <2>1. PICK f \in Files : /\ watched' = Append(watched, f)
                           /\ lastTimes' = Append(lastTimes, version[f])
                           /\ known' = [known EXCEPT ![f] = version[f]]
    BY <1>3 DEF AddWatch
  <2>2. version[f] \in Int
    OBVIOUS
  <2>3. watched' \in Seq(Files) /\ lastTimes' \in Seq(Int) /\ Len(lastTimes') = Len(watched')
    BY <2>1, <2>2, AppendProperties
  <2> QED BY <1>3, <2>1, <2>2, <2>3 DEF AddWatch
<1>4. CASE StartWatcher
  <2>1. Statting(1, FALSE) \in Polls
    BY PollStates, FALSE \in BOOLEAN, 1 \in Nat \ {0}
  <2> QED BY <1>4, <2>1 DEF StartWatcher
<1>5. CASE StartPoll
  <2>1. Statting(1, FALSE) \in Polls
    BY PollStates, FALSE \in BOOLEAN, 1 \in Nat \ {0}
  <2> QED BY <1>5, <2>1 DEF StartPoll
<1>6. CASE DestroyContext
  <2>1. <<>> \in Seq(Files) /\ <<>> \in Seq(Int)
    BY EmptySeq
  <2> QED BY <1>6, <2>1 DEF DestroyContext
<1>7. ASSUME NEW p \in Pollers, PollStat(p) \/ PollCompare(p) \/ PollNotify(p) \/ Callback(p)
      PROVE  HotReloadTyped'
  <2> DEFINE c == poll[p]
  <2>1. c \in Polls /\ AfterPoll(p) \in Polls /\ [at |-> "callback"] \in Polls
    BY PollStates DEF AfterPoll
  <2>2. CASE PollStat(p)
    <3>1. c.at = "stat" /\ c.path \in Nat \ {0} /\ c.noticed \in BOOLEAN
      BY <2>1, <2>2, PollShape DEF PollStat
    <3>2. c.path <= Len(watched) => version[watched[c.path]] \in Int
      <4>1. c.path <= Len(watched) => watched[c.path] \in Files
        BY <3>1, LenProperties, ElementOfSeq
      <4> QED BY <4>1
    <3>3. Notified(c.noticed) \in Polls
      BY <3>1, PollStates
    <3>4. c.path <= Len(watched) => Comparing(c.path, c.noticed, version[watched[c.path]]) \in Polls
      BY <3>1, <3>2, PollStates
    <3> HIDE DEF c
    <3>5. \E q \in Polls : poll' = [poll EXCEPT ![p] = q]
      BY <2>1, <2>2, <3>3, <3>4 DEF PollStat, c
    <3>6. dropped' \in BOOLEAN
      BY <2>2, <3>1 DEF PollStat, c
    <3> QED BY <2>2, <3>5, <3>6 DEF PollStat
  <2>3. CASE PollCompare(p)
    <3>1. c.at = "compare" /\ c.path \in Nat \ {0} /\ c.noticed \in BOOLEAN /\ c.time \in Int
      BY <2>1, <2>3, PollShape DEF PollCompare
    <3>2. Noticed(c) \in BOOLEAN /\ c.path + 1 \in Nat \ {0}
      BY <3>1 DEF Noticed
    <3>3. Statting(c.path + 1, Noticed(c)) \in Polls
      BY <3>2, PollStates
    <3>4. lastTimes' \in Seq(Int) /\ Len(lastTimes') = Len(lastTimes)
      <4>1. lastTimes' = [lastTimes EXCEPT ![c.path] = c.time]
        BY <2>3 DEF PollCompare
      <4>2. c.path \in 1 .. Len(lastTimes)
        BY <2>3, <3>1, LenProperties DEF PollCompare, TimesReal
      <4> HIDE DEF c
      <4> QED BY <3>1, <4>1, <4>2, ExceptSeq
    <3>5. \E q \in Polls : poll' = [poll EXCEPT ![p] = q]
      BY <2>1, <2>3, <3>3 DEF PollCompare
    <3> QED BY <2>3, <3>4, <3>5 DEF PollCompare
  <2>4. CASE PollNotify(p)
    BY <2>1, <2>4 DEF PollNotify
  <2>5. CASE Callback(p)
    BY <2>1, <2>5 DEF Callback
  <2> QED BY <1>7, <2>2, <2>3, <2>4, <2>5
<1> QED BY <1>1, <1>2, <1>3, <1>4, <1>5, <1>6, <1>7 DEF HotReloadNext

(* An idle poll compares and remembers nothing, and a thread's step leaves   *)
(* the poll of the other alone.                                              *)
LEMMA IdlePolls ==
  ASSUME HotReloadInv, AppIdle, poll[Watcher] = Ended, NEW p \in Pollers
  PROVE  poll[p].at \in {"idle", "ended"} /\ ~Pending(p)
BY PollStates DEF AppIdle, Pollers, Pending

LEMMA PollStep ==
  ASSUME HotReloadInv, NEW p \in Pollers, PollStat(p) \/ PollCompare(p) \/ PollNotify(p) \/ Callback(p)
  PROVE  /\ \A q \in Pollers \ {p} : poll'[q] = poll[q]
         /\ poll'[Watcher] # Ended => poll[Watcher] # Ended
         /\ UNCHANGED <<version, watched, handle>>
<1>1. poll[p] # Ended
  BY PollStates DEF PollStat, PollCompare, PollNotify, Callback
<1>2. (\E q : poll' = [poll EXCEPT ![p] = q]) /\ UNCHANGED <<version, watched, handle>>
  BY DEF PollStat, PollCompare, PollNotify, Callback
<1>3. poll \in [Pollers -> Polls]
  BY DEF HotReloadInv, HotReloadTyped
<1> QED BY <1>1, <1>2, <1>3

LEMMA NextTimesReal == HotReloadInv /\ [HotReloadNext]_hotReloadVars => TimesReal'
<1> SUFFICES ASSUME HotReloadInv, [HotReloadNext]_hotReloadVars PROVE TimesReal'
  OBVIOUS
<1>1. /\ version \in [Files -> Int] /\ known \in [Files -> Int]
      /\ watched \in Seq(Files) /\ lastTimes \in Seq(Int) /\ Len(lastTimes) = Len(watched)
      /\ poll \in [Pollers -> Polls]
  BY DEF HotReloadInv, HotReloadTyped
<1>2. /\ \A i \in 1 .. Len(watched) : lastTimes[i] <= version[watched[i]]
      /\ \A p \in Pollers :
           poll[p].at = "compare" => poll[p].path <= Len(watched) /\ poll[p].time <= version[watched[poll[p].path]]
      /\ poll[Watcher] # Ended => handle
  BY DEF HotReloadInv, TimesReal
<1>3. Len(watched) \in Nat /\ \A i \in 1 .. Len(watched) : watched[i] \in Files /\ lastTimes[i] \in Int
  BY <1>1, LenProperties, ElementOfSeq
<1>4. \A p \in Pollers : poll[p].at = "compare" => poll[p].path \in 1 .. Len(watched) /\ poll[p].time \in Int
  BY <1>1, <1>2, <1>3, PollShape
<1>5. CASE ChangeFile
  <2>1. \A f \in Files : version[f] <= version'[f]
    BY <1>1, <1>5 DEF ChangeFile
  <2>2. version' \in [Files -> Int]
    BY <1>1, <1>5 DEF ChangeFile
  <2>3. UNCHANGED <<watched, lastTimes, poll, handle>>
    BY <1>5 DEF ChangeFile
  <2>4. \A i \in 1 .. Len(watched) : lastTimes[i] <= version'[watched[i]]
    BY <1>1, <1>2, <1>3, <2>1, <2>2
  <2>5. \A p \in Pollers : poll[p].at = "compare" => poll[p].time <= version'[watched[poll[p].path]]
    <3> SUFFICES ASSUME NEW p \in Pollers, poll[p].at = "compare" PROVE poll[p].time <= version'[watched[poll[p].path]]
      OBVIOUS
    <3>1. PICK f \in Files : f = watched[poll[p].path]
      BY <1>3, <1>4
    <3>2. poll[p].time <= version[f] /\ poll[p].time \in Int /\ version[f] \in Int /\ version'[f] \in Int
      BY <1>1, <1>2, <1>4, <2>2, <3>1
    <3> QED BY <2>1, <3>1, <3>2
  <2> QED BY <1>2, <2>3, <2>4, <2>5 DEF TimesReal
<1>6. CASE InitContext \/ RequestEvents \/ UNCHANGED hotReloadVars
  BY <1>2, <1>6 DEF InitContext, RequestEvents, hotReloadVars, TimesReal
<1>7. CASE AddWatch
  <2>1. PICK f \in Files : watched' = Append(watched, f) /\ lastTimes' = Append(lastTimes, version[f])
    BY <1>7 DEF AddWatch
  <2>2. AppIdle /\ poll[Watcher] = Ended /\ UNCHANGED <<version, poll, handle>>
    BY <1>7 DEF AddWatch
  <2>3. \A p \in Pollers : poll'[p].at # "compare"
    BY <2>2, IdlePolls
  <2>4. version[f] \in Int
    BY <1>1
  <2>5. /\ Len(watched') = Len(watched) + 1
        /\ \A i \in 1 .. Len(watched) : watched'[i] = watched[i] /\ lastTimes'[i] = lastTimes[i]
        /\ watched'[Len(watched) + 1] = f /\ lastTimes'[Len(watched) + 1] = version[f]
    BY <1>1, <2>1, <2>4, AppendProperties
  <2>6. \A i \in 1 .. Len(watched') : i \in 1 .. Len(watched) \/ i = Len(watched) + 1
    BY <1>3, <2>5
  <2>7. \A i \in 1 .. Len(watched') : lastTimes'[i] <= version[watched'[i]]
    BY <1>2, <2>4, <2>5, <2>6
  <2> QED BY <2>2, <2>3, <2>7 DEF TimesReal
<1>8. CASE StartWatcher \/ StartPoll
  <2>1. Statting(1, FALSE).at = "stat"
    BY PollStates, 1 \in Nat \ {0}, FALSE \in BOOLEAN
  <2>2. UNCHANGED <<version, watched, lastTimes>>
    BY <1>8 DEF StartWatcher, StartPoll
  <2>3. \A p \in Pollers : poll'[p] = poll[p] \/ poll'[p] = Statting(1, FALSE)
    BY <1>1, <1>8 DEF StartWatcher, StartPoll
  <2>4. poll'[Watcher] # Ended => handle'
    BY <1>1, <1>2, <1>8, PollersAssumption DEF StartWatcher, StartPoll, Pollers
  <2> QED BY <1>2, <2>1, <2>2, <2>3, <2>4 DEF TimesReal
<1>9. CASE DestroyContext
  <2>1. AppIdle /\ poll[Watcher] = Ended /\ UNCHANGED poll /\ watched' = <<>>
    BY <1>2, <1>9 DEF DestroyContext
  <2>2. \A p \in Pollers : poll'[p].at # "compare"
    BY <2>1, IdlePolls
  <2>3. 1 .. Len(watched') = {}
    BY <2>1
  <2> QED BY <2>1, <2>2, <2>3 DEF TimesReal
<1>10. ASSUME NEW p \in Pollers, PollStat(p) \/ PollCompare(p) \/ PollNotify(p) \/ Callback(p)
       PROVE  TimesReal'
  <2>1. /\ \A q \in Pollers \ {p} : poll'[q] = poll[q]
        /\ poll'[Watcher] # Ended => handle'
        /\ UNCHANGED <<version, watched>>
    BY <1>2, <1>10, PollStep
  <2>2. poll'[p].at = "compare" => poll'[p].path <= Len(watched) /\ poll'[p].time <= version[watched[poll'[p].path]]
    <3> DEFINE c == poll[p]
    <3>1. c \in Polls /\ AfterPoll(p).at # "compare" /\ [at |-> "callback"].at # "compare"
      BY <1>1, PollStates DEF AfterPoll
    <3>2. CASE PollStat(p)
      <4>1. c.path \in Nat \ {0} /\ c.noticed \in BOOLEAN
        BY <3>1, <3>2, PollShape DEF PollStat
      <4>2. Notified(c.noticed).at # "compare"
        BY <4>1, PollStates
      <4>3. ASSUME c.path <= Len(watched), poll'[p] = Comparing(c.path, c.noticed, version[watched[c.path]])
            PROVE  poll'[p].path <= Len(watched) /\ poll'[p].time <= version[watched[poll'[p].path]]
        <5>1. PICK v \in Int : v = version[watched[c.path]]
          BY <1>1, <1>3, <4>1, <4>3
        <5>2. poll'[p].path = c.path /\ poll'[p].time = v
          BY <4>1, <4>3, <5>1, PollStates
        <5> QED BY <4>3, <5>1, <5>2
      <4>4. \/ poll'[p] = Notified(c.noticed) \/ poll'[p] = AfterPoll(p)
            \/ c.path <= Len(watched) /\ poll'[p] = Comparing(c.path, c.noticed, version[watched[c.path]])
        BY <1>1, <3>2 DEF PollStat
      <4> HIDE DEF c
      <4> QED BY <3>1, <4>2, <4>3, <4>4
    <3>3. CASE PollCompare(p)
      <4>1. c.path + 1 \in Nat \ {0} /\ Noticed(c) \in BOOLEAN
        BY <3>1, <3>3, PollShape DEF PollCompare, Noticed
      <4>2. Statting(c.path + 1, Noticed(c)).at # "compare"
        BY <4>1, PollStates
      <4>3. poll'[p] = Statting(c.path + 1, Noticed(c)) \/ poll'[p] = AfterPoll(p)
        BY <1>1, <3>3 DEF PollCompare
      <4> QED BY <3>1, <4>2, <4>3
    <3>4. CASE PollNotify(p) \/ Callback(p)
      <4>1. poll'[p] = AfterPoll(p) \/ poll'[p] = [at |-> "callback"]
        BY <1>1, <3>4 DEF PollNotify, Callback
      <4> QED BY <3>1, <4>1
    <3> QED BY <1>10, <3>2, <3>3, <3>4
  <2>3. \A i \in 1 .. Len(watched) : lastTimes'[i] <= version[watched[i]]
    <3>1. CASE PollCompare(p)
      <4>1. PICK k \in 1 .. Len(lastTimes), e \in Int :
              /\ lastTimes' = [lastTimes EXCEPT ![k] = e] /\ e <= version[watched[k]]
        BY <1>1, <1>2, <1>4, <3>1 DEF PollCompare
      <4>2. \A i \in 1 .. Len(lastTimes) : lastTimes'[i] = IF i = k THEN e ELSE lastTimes[i]
        BY <1>1, <4>1, ExceptSeq
      <4> QED BY <1>1, <1>2, <4>1, <4>2
    <3>2. CASE PollStat(p) \/ PollNotify(p) \/ Callback(p)
      <4>1. UNCHANGED lastTimes
        BY <3>2 DEF PollStat, PollNotify, Callback
      <4> QED BY <1>2, <4>1
    <3> QED BY <1>10, <3>1, <3>2
  <2>4. \A q \in Pollers :
          poll'[q].at = "compare" => poll'[q].path <= Len(watched) /\ poll'[q].time <= version[watched[poll'[q].path]]
    BY <1>2, <2>1, <2>2
  <2> QED BY <2>1, <2>3, <2>4 DEF TimesReal
<1> QED BY <1>5, <1>6, <1>7, <1>8, <1>9, <1>10 DEF HotReloadNext

LEMMA NextToldOrPending == HotReloadInv /\ [HotReloadNext]_hotReloadVars => ToldOrPending'
<1> SUFFICES ASSUME HotReloadInv, [HotReloadNext]_hotReloadVars, ~dropped' PROVE ToldOrPending'
  BY DEF ToldOrPending
<1> DEFINE Told == \A i \in 1 .. Len(watched) : known[watched[i]] >= lastTimes[i]
<1>1. /\ version \in [Files -> Int] /\ known \in [Files -> Int]
      /\ watched \in Seq(Files) /\ lastTimes \in Seq(Int) /\ Len(lastTimes) = Len(watched)
      /\ poll \in [Pollers -> Polls]
  BY DEF HotReloadInv, HotReloadTyped
<1>2. dropped \/ (\E p \in Pollers : Pending(p)) \/ Told
  BY DEF HotReloadInv, ToldOrPending
<1>3. Len(watched) \in Nat /\ \A i \in 1 .. Len(watched) : watched[i] \in Files /\ lastTimes[i] \in Int
  BY <1>1, LenProperties, ElementOfSeq
<1>4. CASE ChangeFile \/ InitContext \/ RequestEvents \/ UNCHANGED hotReloadVars
  <2>1. UNCHANGED <<watched, lastTimes, known, poll, dropped>>
    BY <1>4 DEF ChangeFile, InitContext, RequestEvents, hotReloadVars
  <2> QED BY <1>2, <2>1 DEF ToldOrPending, Pending
<1>5. CASE AddWatch
  <2>1. PICK f \in Files : /\ watched' = Append(watched, f) /\ lastTimes' = Append(lastTimes, version[f])
                           /\ known' = [known EXCEPT ![f] = version[f]]
                           /\ \A i \in 1 .. Len(watched) : watched[i] # f
    BY <1>5 DEF AddWatch
  <2>2. AppIdle /\ poll[Watcher] = Ended /\ UNCHANGED dropped
    BY <1>5 DEF AddWatch
  <2>3. Told
    BY <1>2, <2>2, IdlePolls
  <2>4. version[f] \in Int
    BY <1>1
  <2>5. /\ Len(watched') = Len(watched) + 1
        /\ \A i \in 1 .. Len(watched) : watched'[i] = watched[i] /\ lastTimes'[i] = lastTimes[i]
        /\ watched'[Len(watched) + 1] = f /\ lastTimes'[Len(watched) + 1] = version[f]
    BY <1>1, <2>1, <2>4, AppendProperties
  <2>6. \A i \in 1 .. Len(watched') : i \in 1 .. Len(watched) \/ i = Len(watched) + 1
    BY <1>3, <2>5
  <2>7. \A i \in 1 .. Len(watched) : known'[watched'[i]] >= lastTimes'[i]
    BY <1>1, <1>3, <2>1, <2>3, <2>5
  <2>8. known'[f] >= version[f]
    BY <1>1, <2>1, <2>4
  <2>9. \A i \in 1 .. Len(watched') : known'[watched'[i]] >= lastTimes'[i]
    BY <2>5, <2>6, <2>7, <2>8
  <2> QED BY <2>9 DEF ToldOrPending
<1>6. CASE StartWatcher \/ StartPoll
  <2>1. UNCHANGED <<watched, lastTimes, known, dropped>>
    BY <1>6 DEF StartWatcher, StartPoll
  <2>2. \A p \in Pollers : Pending(p) => poll'[p] = poll[p]
    <3>1. CASE StartPoll
      BY <1>1, <3>1, PollStates DEF StartPoll, AppIdle, Pollers, Pending
    <3>2. CASE StartWatcher
      <4>1. poll[Watcher] = Ended
        BY <3>2 DEF StartWatcher, HotReloadInv, TimesReal
      <4> QED BY <1>1, <3>2, <4>1, PollStates DEF StartWatcher, Pollers, Pending
    <3> QED BY <1>6, <3>1, <3>2
  <2> QED BY <1>2, <2>1, <2>2 DEF ToldOrPending, Pending
<1>7. CASE DestroyContext
  <2>1. 1 .. Len(watched') = {}
    BY <1>7 DEF DestroyContext
  <2> QED BY <2>1 DEF ToldOrPending
<1>8. ASSUME NEW p \in Pollers, PollStat(p) \/ PollCompare(p) \/ PollNotify(p) \/ Callback(p)
      PROVE  ToldOrPending'
  <2> DEFINE c == poll[p]
  <2>1. (\A q \in Pollers \ {p} : poll'[q] = poll[q]) /\ UNCHANGED <<version, watched>>
    BY <1>8, PollStep
  <2>2. c \in Polls
    BY <1>1
  <2>3. CASE Callback(p)
    <3>1. known' = version /\ UNCHANGED lastTimes
      BY <2>3 DEF Callback
    <3>2. \A i \in 1 .. Len(watched) : lastTimes[i] <= version[watched[i]]
      BY DEF HotReloadInv, TimesReal
    <3>3. \A i \in 1 .. Len(watched) : version[watched[i]] >= lastTimes[i]
      BY <1>1, <1>3, <3>2
    <3> QED BY <2>1, <3>1, <3>3 DEF ToldOrPending
  <2>4. ASSUME UNCHANGED <<known, lastTimes>>, dropped => dropped', Pending(p) => Pending(p)'
        PROVE  ToldOrPending'
    <3>1. \A q \in Pollers : Pending(q) => Pending(q)'
      BY <2>1, <2>4 DEF Pending
    <3> QED BY <1>2, <2>1, <2>4, <3>1 DEF ToldOrPending
  <2>5. CASE PollStat(p)
    <3>1. c.at = "stat" /\ c.path \in Nat \ {0} /\ c.noticed \in BOOLEAN
      BY <2>2, <2>5, PollShape DEF PollStat
    <3>2. UNCHANGED <<known, lastTimes>> /\ (dropped => dropped')
      <4>1. UNCHANGED dropped \/ dropped' = (dropped \/ c.noticed)
        BY <2>5 DEF PollStat
      <4>2. UNCHANGED <<known, lastTimes>>
        BY <2>5 DEF PollStat
      <4>3. ASSUME dropped PROVE dropped'
        <5>1. (dropped \/ c.noticed) = TRUE
          BY <4>3
        <5> QED BY <4>1, <4>3, <5>1
      <4> QED BY <4>2, <4>3
    <3>3. c.path <= Len(watched) => version[watched[c.path]] \in Int
      <4>1. c.path <= Len(watched) => watched[c.path] \in Files
        BY <1>3, <3>1
      <4> QED BY <1>1, <4>1
    <3>4. Notified(c.noticed).at = "notify" /\ (Notified(c.noticed).noticed <=> c.noticed)
      BY <3>1, PollStates
    <3>5. c.path <= Len(watched) =>
            LET next == Comparing(c.path, c.noticed, version[watched[c.path]])
            IN  next.at = "compare" /\ (next.noticed <=> c.noticed)
      BY <3>1, <3>3, PollStates
    <3>6. \/ poll'[p] = Notified(c.noticed)
          \/ c.path <= Len(watched) /\ poll'[p] = Comparing(c.path, c.noticed, version[watched[c.path]])
          \/ dropped' = (dropped \/ c.noticed)
      BY <1>1, <2>5 DEF PollStat
    <3> HIDE DEF c
    <3>7. Pending(p) => c.noticed
      BY <3>1 DEF Pending, c
    <3>8. c.noticed => Pending(p)'
      BY <3>4, <3>5, <3>6 DEF Pending
    <3> QED BY <2>4, <3>2, <3>7, <3>8
  <2>6. CASE PollCompare(p)
    <3>1. c.at = "compare" /\ c.path \in Nat \ {0} /\ c.noticed \in BOOLEAN /\ c.time \in Int
      BY <2>2, <2>6, PollShape DEF PollCompare
    <3>2. c.path + 1 \in Nat \ {0} /\ Noticed(c) \in BOOLEAN
      BY <3>1 DEF Noticed
    <3>3. poll'[p] = Statting(c.path + 1, Noticed(c)) /\ UNCHANGED <<known, dropped>>
      BY <1>1, <2>6 DEF PollCompare
    <3>4. Noticed(c) => Pending(p)'
      <4>1. /\ Statting(c.path + 1, Noticed(c)).at = "stat"
            /\ Statting(c.path + 1, Noticed(c)).noticed <=> Noticed(c)
        BY <3>2, PollStates
      <4> QED BY <3>3, <4>1 DEF Pending
    <3>5. CASE Noticed(c)
      BY <3>4, <3>5 DEF ToldOrPending
    <3>6. CASE ~Noticed(c)
      <4>1. c.time = lastTimes[c.path] /\ ~c.noticed
        BY <3>6 DEF Noticed
      <4>2. lastTimes' = lastTimes
        BY <1>1, <2>6, <4>1 DEF PollCompare
      <4>3. ~Pending(p)
        BY <3>1, <4>1 DEF Pending
      <4> QED BY <2>4, <3>3, <4>2, <4>3
    <3> QED BY <3>5, <3>6
  <2>7. CASE PollNotify(p)
    <3>1. UNCHANGED <<known, lastTimes, dropped>>
      BY <2>7 DEF PollNotify
    <3>2. Pending(p) => Pending(p)'
      BY <1>1, <2>7 DEF PollNotify, Pending
    <3> QED BY <2>4, <3>1, <3>2
  <2> QED BY <1>8, <2>3, <2>5, <2>6, <2>7
<1> QED BY <1>4, <1>5, <1>6, <1>7, <1>8 DEF HotReloadNext

(* Once both threads' polls are over, the application was told of every time *)
(* that the watcher has consumed, in whatever order two polls stat and       *)
(* compare, unless one failed after it had noticed a change.                 *)
THEOREM NoChangeIsHidden == HotReloadSpec => []ChangesTold
<1>1. HotReloadInv => ChangesTold
  <2>1. \A p \in Pollers : poll[p] \in {NotPolling, Ended} => ~Pending(p)
    BY PollStates DEF Pending
  <2> QED BY <2>1 DEF HotReloadInv, ToldOrPending, ChangesTold
<1>2. HotReloadInv /\ [HotReloadNext]_hotReloadVars => HotReloadInv'
  BY NextHotReloadTyped, NextTimesReal, NextToldOrPending DEF HotReloadInv
<1> QED BY <1>1, <1>2, InitHotReloadInv, PTL DEF HotReloadSpec

-----------------------------------------------------------------------------
(* The memory tracker.  A block that is out belongs to one thread, or to the *)
(* call that allocates or frees it; a node is on the list once, or with the  *)
(* call that links it.                                                       *)
Tasks ==
  {Resting}
    \cup [at : {"node"}, kind : {"malloc", "calloc", "strdup"}, ptr : Addresses]
    \cup [at : {"link"}, node : Nodes, ptr : Addresses]
    \cup [at : {"release"}, ptr : Addresses]
    \cup [at : {"move"}, node : Nodes \cup {NoNode}, ptr : Addresses]
    \cup [at : {"store"}, node : Nodes \cup {NoNode}, moved : Addresses]

MemTyped ==
  /\ tracking \in BOOLEAN /\ overlapped \in BOOLEAN
  /\ blocks \in SUBSET Addresses /\ untracked \in SUBSET Addresses
  /\ list \in Seq(Nodes) /\ ptrOf \in [Nodes -> Addresses \cup {NoNode}]
  /\ task \in [Threads -> Tasks]
  /\ held \in [Threads -> SUBSET Addresses]

InTransit(t) == task[t].at \in {"node", "link", "release"}

BlocksApart ==
  /\ \A t \in Threads : held[t] \subseteq blocks
  /\ \A t, u \in Threads : t # u => held[t] \cap held[u] = {}
  /\ \A t \in Threads :
       InTransit(t) =>
         /\ task[t].ptr \in blocks
         /\ \A u \in Threads : task[t].ptr \notin held[u] /\ (u # t /\ InTransit(u) => task[u].ptr # task[t].ptr)
  /\ \A t \in Threads : /\ task[t].at = "move" => task[t].ptr \in held[t]
                        /\ task[t].at = "store" => task[t].moved \in held[t]
  /\ \A p \in untracked : \E t \in Threads : p \in held[t]

NodesApart ==
  /\ \A i, j \in DOMAIN list : list[i] = list[j] => i = j
  /\ \A t \in Threads :
       task[t].at = "link" =>
         /\ task[t].node \notin OnList
         /\ \A u \in Threads \ {t} : task[u].at = "link" => task[u].node # task[t].node
  /\ ~tracking => list = <<>> /\ \A t \in Threads : task[t].at \notin {"link", "move", "store"}

(* What the nodes stand for, once the node of a block that has moved is      *)
(* rewritten: each for one block that is held, and no block without one.     *)
Owed == {p \in Addresses : p \notin untracked /\ \E t \in Threads : p \in held[t]}

StandFor(addr) ==
  /\ \A n \in Nodes : addr[n] = ptrOf[n] \/ \E t \in Threads : task[t].at = "store" /\ task[t].node = n
  /\ \A t \in Threads : task[t].at = "store" /\ task[t].node # NoNode => addr[task[t].node] = task[t].moved
  /\ \A n \in OnList : addr[n] \in Owed
  /\ \A m, n \in OnList : addr[m] = addr[n] => m = n
  /\ \A p \in Owed : \E n \in OnList : addr[n] = p

(* The node of a realloc is the one of its block; when the block has moved,  *)
(* any other node with its old address is in front of it.                    *)
NodeFits(t) ==
  /\ task[t].at = "move" =>
       IF task[t].ptr \in untracked THEN task[t].node = NoNode
       ELSE task[t].node \in OnList /\ ptrOf[task[t].node] = task[t].ptr
  /\ task[t].at = "store" =>
       IF task[t].moved \in untracked THEN task[t].node = NoNode
       ELSE /\ task[t].node \in OnList /\ ptrOf[task[t].node] \notin untracked
            /\ \A i, j \in DOMAIN list : list[j] = task[t].node /\ ptrOf[list[i]] = ptrOf[task[t].node] => i <= j

Matched ==
  /\ \A t, u \in Threads : Reallocating(t) /\ Reallocating(u) => t = u
  /\ \A t \in Threads : task[t].at = "link" => ptrOf[task[t].node] = task[t].ptr
  /\ \A t \in Threads : NodeFits(t)
  /\ \E addr \in [Nodes -> Addresses \cup {NoNode}] : StandFor(addr)

MemInv == MemTyped /\ BlocksApart /\ NodesApart /\ (~overlapped => Matched)

LEMMA TaskShape ==
  ASSUME NEW c \in Tasks
  PROVE  /\ c.at \in {"rest", "node", "link", "release", "move", "store"}
         /\ c.at \in {"node", "link", "release", "move"} => c.ptr \in Addresses
         /\ c.at = "link" => c.node \in Nodes
         /\ c.at \in {"move", "store"} => c.node \in Nodes \cup {NoNode}
         /\ c.at = "store" => c.moved \in Addresses
BY DEF Tasks, Resting

LEMMA TaskStates ==
  /\ Resting \in Tasks /\ Resting.at = "rest"
  /\ \A p \in Addresses :
       /\ \A kind \in {"malloc", "calloc", "strdup"} :
            LET c == Allocating(kind, p) IN c \in Tasks /\ c.at = "node" /\ c.ptr = p
       /\ \A n \in Nodes : LET c == Linking(n, p) IN c \in Tasks /\ c.at = "link" /\ c.node = n /\ c.ptr = p
       /\ LET c == Releasing(p) IN c \in Tasks /\ c.at = "release" /\ c.ptr = p
       /\ \A n \in Nodes \cup {NoNode} :
            /\ LET c == Moving(n, p) IN c \in Tasks /\ c.at = "move" /\ c.node = n /\ c.ptr = p
            /\ LET c == Storing(n, p) IN c \in Tasks /\ c.at = "store" /\ c.node = n /\ c.moved = p
BY DEF Tasks, Resting, Allocating, Linking, Releasing, Moving, Storing

LEMMA FirstFound ==
  ASSUME MemTyped, NEW p, FoundAt(p) # {}
  PROVE  /\ First(FoundAt(p)) \in DOMAIN list /\ ptrOf[list[First(FoundAt(p))]] = p
         /\ \A j \in DOMAIN list : ptrOf[list[j]] = p => First(FoundAt(p)) <= j
<1>1. PICK S \in SUBSET Nat : S = FoundAt(p)
  <2>1. DOMAIN list \in SUBSET Nat
    BY LenProperties DEF MemTyped
  <2> QED BY <2>1 DEF FoundAt
<1>2. PICK i \in S : \A j \in S : ~(<<j, i>> \in OpToRel(<, Nat))
  BY <1>1, NatLessThanWellFounded, WFMin
<1>3. \A j \in S : i <= j
  <2> SUFFICES ASSUME NEW j \in S PROVE i <= j
    OBVIOUS
  <2>1. i \in Nat /\ j \in Nat /\ ~(<<j, i>> \in OpToRel(<, Nat))
    BY <1>2
  <2> QED BY <2>1 DEF OpToRel
<1>4. First(S) \in S /\ \A j \in S : First(S) <= j
  BY <1>3 DEF First
<1> QED BY <1>1, <1>4 DEF FoundAt

LEMMA UnlinkedIs ==
  ASSUME MemTyped, NEW k \in DOMAIN list
  PROVE  /\ Unlinked(k) \in Seq(Nodes) /\ Len(Unlinked(k)) = Len(list) - 1
         /\ \A i \in 1 .. Len(list) - 1 : Unlinked(k)[i] = IF i < k THEN list[i] ELSE list[i + 1]
<1>1. list \in Seq(Nodes) /\ Len(list) \in Nat /\ DOMAIN list = 1 .. Len(list)
  BY LenProperties DEF MemTyped
<1>2. \A i \in 1 .. Len(list) : list[i] \in Nodes
  BY <1>1, ElementOfSeq
<1>3. \A i \in 1 .. Len(list) - 1 : i \in 1 .. Len(list) /\ i + 1 \in 1 .. Len(list)
  BY <1>1
<1>4. Len(list) - 1 \in Nat
  BY <1>1
<1>5. Unlinked(k) \in [1 .. Len(list) - 1 -> Nodes]
  BY <1>2, <1>3 DEF Unlinked
<1>6. Unlinked(k) \in Seq(Nodes) /\ Len(Unlinked(k)) = Len(list) - 1
  BY <1>4, <1>5, LenProperties, SeqDef
<1> QED BY <1>6 DEF Unlinked

LEMMA InitMemInv == MemInit => MemInv
<1> SUFFICES ASSUME MemInit PROVE MemInv
  OBVIOUS
<1>1. \A t \in Threads : task[t] = Resting /\ task[t].at = "rest"
  BY TaskStates DEF MemInit
<1>2. DOMAIN list = {} /\ list \in Seq(Nodes)
  BY EmptySeq DEF MemInit
<1>3. OnList = {}
  BY <1>2 DEF OnList
<1>4. MemTyped
  <2>1. task \in [Threads -> Tasks]
    BY TaskStates DEF MemInit
  <2>2. ptrOf \in [Nodes -> Addresses \cup {NoNode}] /\ held \in [Threads -> SUBSET Addresses]
    BY DEF MemInit
  <2> QED BY <1>2, <2>1, <2>2 DEF MemInit, MemTyped
<1>5. BlocksApart
  BY <1>1 DEF MemInit, BlocksApart, InTransit
<1>6. NodesApart
  BY <1>1, <1>2 DEF MemInit, NodesApart
<1>7. Matched
  <2>1. Owed = {}
    BY DEF MemInit, Owed
  <2>2. StandFor(ptrOf)
    BY <1>1, <1>3, <2>1 DEF StandFor
  <2>3. \A t \in Threads : NodeFits(t) /\ ~Reallocating(t) /\ task[t].at # "link"
    BY <1>1 DEF NodeFits, Reallocating
  <2>4. ptrOf \in [Nodes -> Addresses \cup {NoNode}]
    BY <1>4 DEF MemTyped
  <2> QED BY <2>2, <2>3, <2>4 DEF Matched
<1> QED BY <1>4, <1>5, <1>6, <1>7 DEF MemInv

LEMMA NodeOfType ==
  ASSUME MemTyped, NEW p
  PROVE  NodeOf(p) \in Nodes \cup {NoNode}
<1>1. CASE FoundAt(p) = {}
  BY <1>1 DEF NodeOf
<1>2. CASE FoundAt(p) # {}
  <2>1. First(FoundAt(p)) \in DOMAIN list
    BY <1>2, FirstFound
  <2>2. list \in Seq(Nodes) /\ DOMAIN list = 1 .. Len(list)
    BY LenProperties DEF MemTyped
  <2>3. list[First(FoundAt(p))] \in Nodes
    BY <2>1, <2>2, ElementOfSeq
  <2> QED BY <1>2, <2>3 DEF NodeOf
<1> QED BY <1>1, <1>2

LEMMA NextMemTyped == MemTyped /\ [MemNext]_memVars => MemTyped'
<1> SUFFICES ASSUME MemTyped, [MemNext]_memVars PROVE MemTyped'
  OBVIOUS
<1>0. /\ tracking \in BOOLEAN /\ overlapped \in BOOLEAN
      /\ blocks \in SUBSET Addresses /\ untracked \in SUBSET Addresses
      /\ list \in Seq(Nodes) /\ ptrOf \in [Nodes -> Addresses \cup {NoNode}]
      /\ task \in [Threads -> Tasks]
      /\ held \in [Threads -> SUBSET Addresses]
  BY DEF MemTyped
<1>1. CASE InitTracker \/ UNCHANGED memVars
  BY <1>0, <1>1 DEF InitTracker, memVars, MemTyped
<1>2. CASE CleanupTracker
  <2>1. <<>> \in Seq(Nodes)
    BY EmptySeq
  <2>2. UNION {held[t] : t \in Threads} \in SUBSET Addresses
    BY <1>0
  <2> QED BY <1>0, <1>2, <2>1, <2>2 DEF CleanupTracker, MemTyped
<1>3. ASSUME NEW t \in Threads, MemStep(t) PROVE MemTyped'
  <2> DEFINE c == task[t]
  <2>1. c \in Tasks /\ held[t] \in SUBSET Addresses /\ Resting \in Tasks
    BY <1>0, TaskStates
  <2>2. FreeAddresses \subseteq Addresses /\ FreeNodes \subseteq Nodes
    BY DEF FreeAddresses, FreeNodes
  <2>3. ASSUME NEW d \in Tasks, task' = [task EXCEPT ![t] = d] PROVE task' \in [Threads -> Tasks]
    BY <1>0, <2>3
  <2>4. CASE Allocate(t)
    <3>1. PICK p \in FreeAddresses, kind \in {"malloc", "calloc", "strdup"} :
            blocks' = blocks \union {p} /\ task' = [task EXCEPT ![t] = Allocating(kind, p)]
      BY <2>4 DEF Allocate
    <3>2. Allocating(kind, p) \in Tasks /\ p \in Addresses
      BY <2>2, TaskStates
    <3> QED BY <1>0, <2>3, <2>4, <3>1, <3>2 DEF Allocate, MemTyped
  <2>5. CASE AddNode(t)
    <3>1. PICK n \in FreeNodes : ptrOf' = [ptrOf EXCEPT ![n] = task[t].ptr] /\ task' = [task EXCEPT ![t] = Linking(n, task[t].ptr)]
      BY <2>5 DEF AddNode
    <3>2. c.ptr \in Addresses
      BY <2>1, <2>5, TaskShape DEF AddNode
    <3>3. Linking(n, c.ptr) \in Tasks /\ n \in Nodes
      BY <2>2, <3>2, TaskStates
    <3> QED BY <1>0, <2>3, <2>5, <3>1, <3>2, <3>3 DEF AddNode, MemTyped
  <2>6. CASE AddNodeFails(t)
    <3>1. blocks' \in SUBSET Addresses
      BY <1>0, <2>6 DEF AddNodeFails
    <3> QED BY <1>0, <2>1, <2>3, <2>6, <3>1 DEF AddNodeFails, MemTyped
  <2>7. CASE Link(t)
    <3>1. c.ptr \in Addresses /\ c.node \in Nodes
      BY <2>1, <2>7, TaskShape DEF Link
    <3>2. <<c.node>> \o list \in Seq(Nodes)
      <4>1. <<c.node>> \in Seq(Nodes)
        BY <3>1
      <4> QED BY <1>0, <4>1, ConcatProperties
    <3>3. held' \in [Threads -> SUBSET Addresses]
      BY <1>0, <2>7, <3>1 DEF Link
    <3> QED BY <1>0, <2>1, <2>3, <2>7, <3>2, <3>3 DEF Link, Linked, MemTyped
  <2>8. CASE Unlink(t)
    <3>1. PICK p \in held[t] :
            /\ list' = IF FoundAt(p) = {} THEN list ELSE Unlinked(First(FoundAt(p)))
            /\ held' = [held EXCEPT ![t] = @ \ {p}]
            /\ task' = [task EXCEPT ![t] = Releasing(p)]
      BY <2>8 DEF Unlink
    <3>2. Releasing(p) \in Tasks
      BY <2>1, TaskStates
    <3>3. list' \in Seq(Nodes)
      BY <1>0, <3>1, FirstFound, UnlinkedIs
    <3>4. held' \in [Threads -> SUBSET Addresses]
      BY <1>0, <3>1
    <3>5. untracked' \in SUBSET Addresses
      BY <1>0, <2>8 DEF Unlink
    <3> QED BY <1>0, <2>3, <2>8, <3>1, <3>2, <3>3, <3>4, <3>5 DEF Unlink, MemTyped
  <2>9. CASE ReleaseBlock(t)
    <3>1. blocks' \in SUBSET Addresses
      BY <1>0, <2>9 DEF ReleaseBlock
    <3> QED BY <1>0, <2>1, <2>3, <2>9, <3>1 DEF ReleaseBlock, MemTyped
  <2>10. CASE FindNode(t)
    <3>1. PICK p \in held[t] : task' = [task EXCEPT ![t] = Moving(NodeOf(p), p)]
      BY <2>10 DEF FindNode
    <3>2. Moving(NodeOf(p), p) \in Tasks
      BY <2>1, NodeOfType, TaskStates
    <3>3. overlapped' \in BOOLEAN
      BY <2>10 DEF FindNode
    <3> QED BY <1>0, <2>3, <2>10, <3>1, <3>2, <3>3 DEF FindNode, MemTyped
  <2>11. CASE Move(t)
    <3>1. PICK q \in FreeAddresses \union {c.ptr} :
            /\ blocks' = Rename(blocks, c.ptr, q)
            /\ held' = [held EXCEPT ![t] = Rename(@, c.ptr, q)]
            /\ untracked' = Rename(untracked, c.ptr, q)
            /\ task' = [task EXCEPT ![t] = Storing(c.node, q)]
      BY <2>11 DEF Move
    <3>2. c.node \in Nodes \cup {NoNode} /\ q \in Addresses
      BY <2>1, <2>2, <2>11, TaskShape DEF Move
    <3>3. Storing(c.node, q) \in Tasks
      BY <3>2, TaskStates
    <3> HIDE DEF c
    <3>4. /\ blocks' \in SUBSET Addresses /\ untracked' \in SUBSET Addresses
          /\ held' \in [Threads -> SUBSET Addresses]
      BY <1>0, <3>1, <3>2 DEF Rename
    <3> QED BY <1>0, <2>3, <2>11, <3>1, <3>3, <3>4 DEF Move, MemTyped
  <2>12. CASE MoveFails(t)
    BY <1>0, <2>1, <2>3, <2>12 DEF MoveFails, MemTyped
  <2>13. CASE Store(t)
    <3>1. c.node \in Nodes \cup {NoNode} /\ c.moved \in Addresses
      BY <2>1, <2>13, TaskShape DEF Store
    <3>2. ptrOf' \in [Nodes -> Addresses \cup {NoNode}]
      BY <1>0, <2>13, <3>1 DEF Store, Stored
    <3> QED BY <1>0, <2>1, <2>3, <2>13, <3>2 DEF Store, MemTyped
  <2>14. CASE ReallocUntracked(t)
    <3>1. PICK q \in FreeAddresses :
            \/ /\ blocks' = blocks \union {q}
               /\ held' = [held EXCEPT ![t] = @ \union {q}]
               /\ untracked' = untracked \union {q}
            \/ \E p \in held[t] : /\ blocks' = Rename(blocks, p, q)
                                  /\ held' = [held EXCEPT ![t] = Rename(@, p, q)]
                                  /\ untracked' = Rename(untracked, p, q)
      BY <2>14 DEF ReallocUntracked
    <3>2. q \in Addresses
      BY <2>2
    <3>3. /\ blocks' \in SUBSET Addresses /\ untracked' \in SUBSET Addresses
          /\ held' \in [Threads -> SUBSET Addresses]
      BY <1>0, <3>1, <3>2 DEF Rename
    <3> QED BY <1>0, <2>14, <3>3 DEF ReallocUntracked, MemTyped
  <2> QED BY <1>3, <2>4, <2>5, <2>6, <2>7, <2>8, <2>9, <2>10, <2>11, <2>12, <2>13, <2>14 DEF MemStep
<1> QED BY <1>1, <1>2, <1>3 DEF MemNext

(* A step of one thread gives the others neither a block nor a task.         *)
LEMMA StepIsOwn ==
  ASSUME MemTyped, NEW t \in Threads, MemStep(t)
  PROVE  \A u \in Threads \ {t} : task'[u] = task[u] /\ held'[u] = held[u]
<1>1. task \in [Threads -> Tasks] /\ held \in [Threads -> SUBSET Addresses]
  BY DEF MemTyped
<1>2. \/ UNCHANGED task \/ \E d : task' = [task EXCEPT ![t] = d]
  BY DEF MemStep, Allocate, AddNode, AddNodeFails, Link, Unlink, ReleaseBlock, FindNode, Move, MoveFails, Store,
         ReallocUntracked
<1>3. \/ UNCHANGED held \/ \E h : held' = [held EXCEPT ![t] = h]
  BY DEF MemStep, Allocate, AddNode, AddNodeFails, Link, Unlink, ReleaseBlock, FindNode, Move, MoveFails, Store,
         ReallocUntracked
<1> QED BY <1>1, <1>2, <1>3

LEMMA NextBlocksApart == MemTyped /\ BlocksApart /\ NodesApart /\ [MemNext]_memVars => BlocksApart'
<1> SUFFICES ASSUME MemTyped, BlocksApart, NodesApart, [MemNext]_memVars PROVE BlocksApart'
  OBVIOUS
<1>0. task \in [Threads -> Tasks] /\ held \in [Threads -> SUBSET Addresses]
  BY DEF MemTyped
<1>1. CASE InitTracker \/ UNCHANGED memVars
  BY <1>1 DEF InitTracker, memVars, BlocksApart, InTransit
<1>2. CASE CleanupTracker
  <2>1. UNCHANGED <<task, held, blocks>> /\ \A p \in untracked' : \E t \in Threads : p \in held[t]
    BY <1>2 DEF CleanupTracker
  <2> QED BY <2>1 DEF BlocksApart, InTransit
<1>3. ASSUME NEW t \in Threads, MemStep(t) PROVE BlocksApart'
  <2> DEFINE c == task[t]
             Moves == {"move", "store"}
  <2>1. \A u \in Threads \ {t} : task'[u] = task[u] /\ held'[u] = held[u]
    BY <1>3, StepIsOwn
  <2>2. c \in Tasks /\ Resting.at = "rest"
    BY <1>0, TaskStates
  <2>3. /\ \A u \in Threads : held[u] \subseteq blocks
        /\ \A u, v \in Threads : u # v => held[u] \cap held[v] = {}
        /\ \A u \in Threads :
             InTransit(u) =>
               /\ task[u].ptr \in blocks
               /\ \A v \in Threads : task[u].ptr \notin held[v] /\ (v # u /\ InTransit(v) => task[v].ptr # task[u].ptr)
        /\ \A u \in Threads : /\ task[u].at = "move" => task[u].ptr \in held[u]
                              /\ task[u].at = "store" => task[u].moved \in held[u]
        /\ \A p \in untracked : \E u \in Threads : p \in held[u]
    BY DEF BlocksApart
  <2>4. \A u \in Threads \ {t} : InTransit(u)' = InTransit(u)
    BY <2>1 DEF InTransit
  <2>5. CASE Allocate(t)
    <3>1. PICK p \in FreeAddresses, kind \in {"malloc", "calloc", "strdup"} :
            blocks' = blocks \union {p} /\ task' = [task EXCEPT ![t] = Allocating(kind, p)]
      BY <2>5 DEF Allocate
    <3>2. p \notin blocks /\ p \in Addresses
      BY DEF FreeAddresses
    <3>3. task'[t].at = "node" /\ task'[t].ptr = p
      BY <1>0, <3>1, <3>2, TaskStates
    <3>4. UNCHANGED <<held, untracked>>
      BY <2>5 DEF Allocate
    <3> QED BY <2>1, <2>3, <2>4, <3>1, <3>2, <3>3, <3>4 DEF BlocksApart, InTransit
  <2>6. CASE AddNode(t)
    <3>1. PICK n \in FreeNodes : task' = [task EXCEPT ![t] = Linking(n, task[t].ptr)]
      BY <2>6 DEF AddNode
    <3>2. c.at = "node" /\ c.ptr \in Addresses /\ n \in Nodes
      BY <2>2, <2>6, TaskShape DEF AddNode, FreeNodes
    <3>3. task'[t].at = "link" /\ task'[t].ptr = c.ptr
      BY <1>0, <3>1, <3>2, TaskStates
    <3>4. UNCHANGED <<held, untracked, blocks>>
      BY <2>6 DEF AddNode
    <3> QED BY <2>1, <2>3, <2>4, <3>2, <3>3, <3>4 DEF BlocksApart, InTransit
  <2>7. CASE AddNodeFails(t) \/ ReleaseBlock(t)
    <3>1. c.at \in {"node", "release"} /\ task'[t].at = "rest" /\ UNCHANGED <<held, untracked>>
      BY <1>0, <2>2, <2>7 DEF AddNodeFails, ReleaseBlock
    <3>2. blocks' = blocks \/ blocks' = blocks \ {c.ptr}
      BY <2>7 DEF AddNodeFails, ReleaseBlock
    <3> QED BY <2>1, <2>3, <2>4, <3>1, <3>2 DEF BlocksApart, InTransit
  <2>8. CASE Link(t)
    <3>1. c.at = "link" /\ task'[t].at = "rest" /\ held'[t] = held[t] \cup {c.ptr} /\ UNCHANGED <<blocks, untracked>>
      BY <1>0, <2>2, <2>8 DEF Link
    <3> QED BY <2>1, <2>3, <2>4, <3>1 DEF BlocksApart, InTransit
  <2>9. CASE Unlink(t)
    <3>1. PICK p \in held[t] : /\ held' = [held EXCEPT ![t] = @ \ {p}] /\ untracked' = untracked \ {p}
                               /\ task' = [task EXCEPT ![t] = Releasing(p)]
      BY <2>9 DEF Unlink
    <3>2. p \in Addresses
      BY <1>0
    <3>3. task'[t].at = "release" /\ task'[t].ptr = p /\ held'[t] = held[t] \ {p} /\ UNCHANGED blocks
      BY <1>0, <2>9, <3>1, <3>2, TaskStates DEF Unlink
    <3>4. c.at = "rest"
      BY <2>9 DEF Unlink
    <3> QED BY <2>1, <2>3, <2>4, <3>1, <3>3, <3>4 DEF BlocksApart, InTransit
  <2>10. CASE FindNode(t)
    <3>1. PICK p \in held[t] : task' = [task EXCEPT ![t] = Moving(NodeOf(p), p)]
      BY <2>10 DEF FindNode
    <3>2. p \in Addresses
      BY <1>0
    <3>3. task'[t].at = "move" /\ task'[t].ptr = p
      BY <1>0, <3>1, <3>2, NodeOfType, TaskStates
    <3>4. UNCHANGED <<held, untracked, blocks>>
      BY <2>10 DEF FindNode
    <3> QED BY <2>1, <2>3, <2>4, <3>3, <3>4 DEF BlocksApart, InTransit
  <2>11. CASE Move(t)
    <3>1. PICK q \in FreeAddresses \union {c.ptr} :
            /\ blocks' = Rename(blocks, c.ptr, q)
            /\ held' = [held EXCEPT ![t] = Rename(@, c.ptr, q)]
            /\ untracked' = Rename(untracked, c.ptr, q)
            /\ task' = [task EXCEPT ![t] = Storing(c.node, q)]
      BY <2>11 DEF Move
    <3>2. c.at = "move" /\ c.ptr \in held[t] /\ c.ptr \in Addresses /\ c.node \in Nodes \cup {NoNode}
      BY <2>2, <2>3, <2>11, TaskShape DEF Move
    <3>3. q \in Addresses /\ (q \in blocks => q = c.ptr)
      BY <3>2 DEF FreeAddresses
    <3>4. task'[t].at = "store" /\ task'[t].moved = q
      BY <1>0, <3>1, <3>2, <3>3, TaskStates
    <3>5. PICK p : p = c.ptr
      OBVIOUS
    <3> HIDE DEF c
    <3>6. held'[t] = (held[t] \ {p}) \cup {q} /\ blocks' = (blocks \ {p}) \cup {q}
      BY <1>0, <2>3, <3>1, <3>2, <3>5 DEF Rename
    <3>7. untracked' = IF p \in untracked THEN (untracked \ {p}) \cup {q} ELSE untracked
      BY <3>1, <3>5 DEF Rename
    <3>8. p \in held[t] /\ (q \in blocks => q = p)
      BY <3>2, <3>3, <3>5
    <3>9. \A u \in Threads \ {t} : p \notin held[u] /\ q \notin held[u] /\ (InTransit(u) => task[u].ptr # p /\ task[u].ptr # q)
      BY <2>3, <3>8
    <3>10. \A x \in untracked' : \E u \in Threads : x \in held'[u]
      <4> SUFFICES ASSUME NEW x \in untracked' PROVE \E u \in Threads : x \in held'[u]
        OBVIOUS
      <4>1. CASE x = q
        BY <3>6, <4>1
      <4>2. CASE x # q
        BY <2>1, <2>3, <3>6, <3>7, <3>8, <4>2
      <4> QED BY <4>1, <4>2
    <3>11. \A u \in Threads : held'[u] \subseteq blocks'
      BY <2>1, <2>3, <3>6, <3>9
    <3>12. \A u, v \in Threads : u # v => held'[u] \cap held'[v] = {}
      BY <2>1, <2>3, <3>6, <3>9
    <3> QED BY <2>1, <2>3, <2>4, <3>4, <3>6, <3>9, <3>10, <3>11, <3>12 DEF BlocksApart, InTransit
  <2>12. CASE MoveFails(t) \/ Store(t)
    <3>1. task'[t].at = "rest" /\ UNCHANGED <<held, untracked, blocks>>
      BY <1>0, <2>2, <2>12 DEF MoveFails, Store
    <3> QED BY <2>1, <2>3, <2>4, <3>1 DEF BlocksApart, InTransit
  <2>13. CASE ReallocUntracked(t)
    <3>1. PICK q \in FreeAddresses :
            \/ /\ blocks' = blocks \union {q}
               /\ held' = [held EXCEPT ![t] = @ \union {q}]
               /\ untracked' = untracked \union {q}
            \/ \E p \in held[t] : /\ blocks' = Rename(blocks, p, q)
                                  /\ held' = [held EXCEPT ![t] = Rename(@, p, q)]
                                  /\ untracked' = Rename(untracked, p, q)
      BY <2>13 DEF ReallocUntracked
    <3>2. q \notin blocks /\ c.at = "rest" /\ UNCHANGED task
      BY <2>13 DEF ReallocUntracked, FreeAddresses
    <3>3. CASE blocks' = blocks \union {q} /\ held' = [held EXCEPT ![t] = @ \union {q}] /\ untracked' = untracked \union {q}
      <4>1. held'[t] = held[t] \cup {q}
        BY <1>0, <3>3
      <4>2. \A x \in untracked' : \E u \in Threads : x \in held'[u]
        BY <2>1, <2>3, <3>3, <4>1
      <4> QED BY <2>1, <2>3, <2>4, <3>2, <3>3, <4>1, <4>2 DEF BlocksApart, InTransit
    <3>4. ASSUME NEW p \in held[t], blocks' = Rename(blocks, p, q), held' = [held EXCEPT ![t] = Rename(@, p, q)],
                 untracked' = Rename(untracked, p, q)
          PROVE  BlocksApart'
      <4>1. held'[t] = (held[t] \ {p}) \cup {q} /\ blocks' = (blocks \ {p}) \cup {q}
        BY <1>0, <2>3, <3>4 DEF Rename
      <4>2. untracked' = IF p \in untracked THEN (untracked \ {p}) \cup {q} ELSE untracked
        BY <3>4 DEF Rename
      <4>3. \A u \in Threads \ {t} : p \notin held[u] /\ q \notin held[u] /\ (InTransit(u) => task[u].ptr # p /\ task[u].ptr # q)
        BY <2>3, <3>2
      <4>4. \A x \in untracked' : \E u \in Threads : x \in held'[u]
        BY <2>1, <2>3, <4>1, <4>2
      <4>5. \A u \in Threads : held'[u] \subseteq blocks'
        BY <2>1, <2>3, <4>1, <4>3
      <4>6. \A u, v \in Threads : u # v => held'[u] \cap held'[v] = {}
        BY <2>1, <2>3, <4>1, <4>3
      <4> QED BY <2>1, <2>3, <2>4, <3>2, <4>1, <4>3, <4>4, <4>5, <4>6 DEF BlocksApart, InTransit
    <3> QED BY <3>1, <3>3, <3>4
  <2> QED BY <1>3, <2>5, <2>6, <2>7, <2>8, <2>9, <2>10, <2>11, <2>12, <2>13 DEF MemStep
<1> QED BY <1>1, <1>2, <1>3 DEF MemNext

(* What linking and unlinking do to the list, and to the nodes on it.        *)
LEMMA LinkedIs ==
  ASSUME MemTyped, NEW n \in Nodes
  PROVE  /\ DOMAIN list = 1 .. Len(list) /\ Len(list) \in Nat
         /\ DOMAIN Linked(n) = 1 .. Len(list) + 1 /\ Len(Linked(n)) = Len(list) + 1
         /\ Linked(n)[1] = n /\ \A i \in DOMAIN list : Linked(n)[i + 1] = list[i]
         /\ {Linked(n)[i] : i \in DOMAIN Linked(n)} = OnList \cup {n}
<1>1. list \in Seq(Nodes) /\ Len(list) \in Nat /\ DOMAIN list = 1 .. Len(list)
  BY LenProperties DEF MemTyped
<1>2. <<n>> \in Seq(Nodes) /\ Len(<<n>>) = 1 /\ <<n>>[1] = n
  OBVIOUS
<1>3. /\ Linked(n) \in Seq(Nodes) /\ Len(Linked(n)) = Len(list) + 1
      /\ \A i \in 1 .. Len(list) + 1 : Linked(n)[i] = IF i <= 1 THEN <<n>>[i] ELSE list[i - 1]
  BY <1>1, <1>2, ConcatProperties DEF Linked
<1>4. DOMAIN Linked(n) = 1 .. Len(list) + 1
  BY <1>1, <1>3, LenProperties
<1>5. Linked(n)[1] = n
  BY <1>1, <1>2, <1>3
<1>6. \A i \in DOMAIN list : Linked(n)[i + 1] = list[i]
  BY <1>1, <1>3
<1>7. \A i \in 1 .. Len(list) + 1 : i # 1 => i - 1 \in DOMAIN list /\ Linked(n)[i] = list[i - 1]
  <2> SUFFICES ASSUME NEW i \in 1 .. Len(list) + 1, i # 1 PROVE i - 1 \in DOMAIN list /\ Linked(n)[i] = list[i - 1]
    OBVIOUS
  <2>1. i - 1 \in 1 .. Len(list) /\ ~(i <= 1)
    BY <1>1
  <2> QED BY <1>1, <1>3, <2>1
<1>8. \A i \in DOMAIN list : i + 1 \in 1 .. Len(list) + 1
  BY <1>1
<1>9. 1 \in 1 .. Len(list) + 1
  BY <1>1
<1>10. {Linked(n)[i] : i \in DOMAIN Linked(n)} = OnList \cup {n}
  <2>1. \A m \in {Linked(n)[i] : i \in DOMAIN Linked(n)} : m = n \/ m \in OnList
    BY <1>4, <1>5, <1>7 DEF OnList
  <2>2. n \in {Linked(n)[i] : i \in DOMAIN Linked(n)}
    BY <1>4, <1>5, <1>9
  <2>3. \A m \in OnList : m \in {Linked(n)[i] : i \in DOMAIN Linked(n)}
    <3> SUFFICES ASSUME NEW j \in DOMAIN list PROVE list[j] \in {Linked(n)[i] : i \in DOMAIN Linked(n)}
      BY DEF OnList
    <3> QED BY <1>4, <1>6, <1>8
  <2> QED BY <2>1, <2>2, <2>3
<1> QED BY <1>1, <1>3, <1>4, <1>5, <1>6, <1>10

LEMMA UnlinkedApart ==
  ASSUME MemTyped, NodesApart, NEW k \in DOMAIN list
  PROVE  /\ DOMAIN Unlinked(k) = 1 .. Len(list) - 1
         /\ \A i, j \in DOMAIN Unlinked(k) : Unlinked(k)[i] = Unlinked(k)[j] => i = j
         /\ {Unlinked(k)[i] : i \in DOMAIN Unlinked(k)} = OnList \ {list[k]}
<1>1. list \in Seq(Nodes) /\ Len(list) \in Nat /\ DOMAIN list = 1 .. Len(list) /\ k \in 1 .. Len(list)
  BY LenProperties DEF MemTyped
<1>2. \A i, j \in DOMAIN list : list[i] = list[j] => i = j
  BY DEF NodesApart
<1>3. /\ DOMAIN Unlinked(k) = 1 .. Len(list) - 1
      /\ \A i \in 1 .. Len(list) - 1 : Unlinked(k)[i] = IF i < k THEN list[i] ELSE list[i + 1]
  BY UnlinkedIs, LenProperties
<1>4. \A i, j \in DOMAIN Unlinked(k) : Unlinked(k)[i] = Unlinked(k)[j] => i = j
  <2> SUFFICES ASSUME NEW i \in 1 .. Len(list) - 1, NEW j \in 1 .. Len(list) - 1, Unlinked(k)[i] = Unlinked(k)[j]
               PROVE  i = j
    BY <1>3
  <2> DEFINE a == IF i < k THEN i ELSE i + 1
             b == IF j < k THEN j ELSE j + 1
  <2>1. a \in DOMAIN list /\ b \in DOMAIN list
    BY <1>1
  <2>2. list[a] = list[b]
    BY <1>3
  <2>3. a = b
    BY <1>2, <2>1, <2>2
  <2> QED BY <1>1, <2>3
<1>5. \A i \in 1 .. Len(list) - 1 :
        \E j \in DOMAIN list : j # k /\ Unlinked(k)[i] = list[j]
  <2> TAKE i \in 1 .. Len(list) - 1
  <2>1. CASE i < k
    BY <1>1, <1>3, <2>1
  <2>2. CASE ~(i < k)
    <3> WITNESS i + 1 \in DOMAIN list
    <3> QED BY <1>1, <1>3, <2>2
  <2> QED BY <2>1, <2>2
<1>6. \A j \in DOMAIN list : j # k => \E i \in 1 .. Len(list) - 1 : Unlinked(k)[i] = list[j]
  <2> SUFFICES ASSUME NEW j \in DOMAIN list, j # k PROVE \E i \in 1 .. Len(list) - 1 : Unlinked(k)[i] = list[j]
    OBVIOUS
  <2>1. CASE j < k
    BY <1>1, <1>3, <2>1
  <2>2. CASE ~(j < k)
    <3>1. j - 1 \in 1 .. Len(list) - 1 /\ ~(j - 1 < k) /\ (j - 1) + 1 = j
      BY <1>1, <2>2
    <3>2. Unlinked(k)[j - 1] = list[j]
      BY <1>3, <3>1
    <3> QED BY <3>1, <3>2
  <2> QED BY <2>1, <2>2
<1>7. {Unlinked(k)[i] : i \in DOMAIN Unlinked(k)} \subseteq OnList \ {list[k]}
  BY <1>2, <1>3, <1>5 DEF OnList
<1>8. OnList \ {list[k]} \subseteq {Unlinked(k)[i] : i \in DOMAIN Unlinked(k)}
  BY <1>2, <1>3, <1>6 DEF OnList
<1> QED BY <1>3, <1>4, <1>7, <1>8

LEMMA NextNodesApart == MemTyped /\ NodesApart /\ [MemNext]_memVars => NodesApart'
<1> SUFFICES ASSUME MemTyped, NodesApart, [MemNext]_memVars PROVE NodesApart'
  OBVIOUS
<1>0. task \in [Threads -> Tasks] /\ list \in Seq(Nodes)
  BY DEF MemTyped
<1>1. /\ \A i, j \in DOMAIN list : list[i] = list[j] => i = j
      /\ \A u \in Threads :
           task[u].at = "link" =>
             /\ task[u].node \notin OnList
             /\ \A v \in Threads \ {u} : task[v].at = "link" => task[v].node # task[u].node
      /\ ~tracking => list = <<>>
      /\ ~tracking => \A u \in Threads : task[u].at \notin {"link", "move", "store"}
  BY DEF NodesApart
<1>2. CASE InitTracker \/ UNCHANGED memVars
  BY <1>1, <1>2 DEF InitTracker, memVars, NodesApart, OnList
<1>3. CASE CleanupTracker
  <2>1. DOMAIN list' = {}
    BY <1>3 DEF CleanupTracker
  <2>2. list' = <<>> /\ \A u \in Threads : task'[u].at = "rest"
    BY <1>3 DEF CleanupTracker, AllResting
  <2> QED BY <2>1, <2>2 DEF NodesApart
<1>4. ASSUME NEW t \in Threads, MemStep(t) PROVE NodesApart'
  <2> DEFINE c == task[t]
  <2>1. \A u \in Threads \ {t} : task'[u] = task[u]
    BY <1>4, StepIsOwn
  <2>2. c \in Tasks /\ Resting.at = "rest"
    BY <1>0, TaskStates
  <2>3. ASSUME UNCHANGED <<list, tracking>>, task'[t].at # "link", ~tracking => task'[t].at \notin {"move", "store"}
        PROVE  NodesApart'
    BY <1>1, <2>1, <2>3 DEF NodesApart, OnList
  <2>4. CASE Allocate(t)
    <3>1. PICK p \in Addresses, kind \in {"malloc", "calloc", "strdup"} : task' = [task EXCEPT ![t] = Allocating(kind, p)]
      BY <2>4 DEF Allocate, FreeAddresses
    <3>2. task'[t].at = "node"
      BY <1>0, <3>1, TaskStates
    <3> QED BY <2>3, <2>4, <3>2 DEF Allocate
  <2>5. CASE AddNode(t)
    <3>1. PICK n \in FreeNodes : task' = [task EXCEPT ![t] = Linking(n, task[t].ptr)]
      BY <2>5 DEF AddNode
    <3>2. c.ptr \in Addresses /\ n \in Nodes
      BY <2>2, <2>5, TaskShape DEF AddNode, FreeNodes
    <3>3. task'[t].at = "link" /\ task'[t].node = n
      BY <1>0, <3>1, <3>2, TaskStates
    <3>4. n \notin OnList /\ \A u \in Threads : task[u].at = "link" => task[u].node # n
      BY DEF FreeNodes
    <3>5. UNCHANGED list /\ tracking /\ tracking'
      BY <2>5 DEF AddNode
    <3> QED BY <1>1, <2>1, <3>3, <3>4, <3>5 DEF NodesApart, OnList
  <2>6. CASE AddNodeFails(t) \/ ReleaseBlock(t) \/ MoveFails(t) \/ Store(t)
    <3>1. task'[t].at = "rest" /\ UNCHANGED <<list, tracking>>
      BY <1>0, <2>2, <2>6 DEF AddNodeFails, ReleaseBlock, MoveFails, Store
    <3> QED BY <2>3, <3>1
  <2>7. CASE Link(t)
    <3>1. PICK n \in Nodes : n = c.node
      BY <2>2, <2>7, TaskShape DEF Link
    <3>2. list' = Linked(n) /\ c.at = "link" /\ task'[t].at = "rest" /\ UNCHANGED tracking /\ tracking
      BY <1>0, <1>1, <2>2, <2>7, <3>1 DEF Link
    <3>3. n \notin OnList /\ \A u \in Threads \ {t} : task[u].at = "link" => task[u].node # n
      BY <1>1, <3>1, <3>2
    <3>4. /\ DOMAIN list = 1 .. Len(list) /\ Len(list) \in Nat
          /\ DOMAIN list' = 1 .. Len(list) + 1
          /\ list'[1] = n /\ \A i \in DOMAIN list : list'[i + 1] = list[i]
          /\ OnList' = OnList \cup {n}
      <4>1. OnList' = {Linked(n)[i] : i \in DOMAIN Linked(n)}
        BY <3>2 DEF OnList
      <4>2. OnList' = OnList \cup {n}
        BY <4>1, LinkedIs
      <4>3. DOMAIN list' = 1 .. Len(list) + 1 /\ DOMAIN list = 1 .. Len(list) /\ Len(list) \in Nat
        BY <3>2, LinkedIs
      <4>4. list'[1] = n /\ \A i \in DOMAIN list : list'[i + 1] = list[i]
        BY <3>2, LinkedIs
      <4> QED BY <4>2, <4>3, <4>4
    <3>5. \A i, j \in DOMAIN list' : list'[i] = list'[j] => i = j
      <4> SUFFICES ASSUME NEW i \in 1 .. Len(list) + 1, NEW j \in 1 .. Len(list) + 1, list'[i] = list'[j] PROVE i = j
        BY <3>4
      <4>1. ASSUME NEW x \in 1 .. Len(list) + 1, x # 1
            PROVE  x - 1 \in DOMAIN list /\ list'[x] = list[x - 1] /\ list'[x] # n
        <5>1. x - 1 \in DOMAIN list /\ (x - 1) + 1 = x
          BY <3>4, <4>1
        <5>2. list'[x] = list[x - 1] /\ list[x - 1] \in OnList
          BY <3>4, <5>1 DEF OnList
        <5> QED BY <3>3, <5>1, <5>2
      <4>2. CASE i = 1 \/ j = 1
        BY <3>4, <4>1, <4>2
      <4>3. CASE i # 1 /\ j # 1
        <5>1. i - 1 = j - 1
          BY <1>1, <4>1, <4>3
        <5> QED BY <3>4, <5>1
      <4> QED BY <4>2, <4>3
    <3> QED BY <1>1, <2>1, <3>2, <3>3, <3>4, <3>5 DEF NodesApart
  <2>8. CASE Unlink(t)
    <3>1. PICK p \in held[t] :
            /\ list' = IF FoundAt(p) = {} THEN list ELSE Unlinked(First(FoundAt(p)))
            /\ task' = [task EXCEPT ![t] = Releasing(p)]
      BY <2>8 DEF Unlink
    <3>2. p \in Addresses
      BY DEF MemTyped
    <3>3. task'[t].at = "release" /\ tracking /\ UNCHANGED tracking
      BY <1>0, <2>8, <3>1, <3>2, TaskStates DEF Unlink
    <3>4. CASE FoundAt(p) = {}
      BY <2>3, <3>1, <3>3, <3>4
    <3>5. CASE FoundAt(p) # {}
      <4>1. PICK k \in DOMAIN list : k = First(FoundAt(p))
        BY <3>5, FirstFound
      <4>2. list' = Unlinked(k)
        BY <3>1, <3>5, <4>1
      <4>3. \A i, j \in DOMAIN list' : list'[i] = list'[j] => i = j
        BY <4>2, UnlinkedApart
      <4>4. OnList' = {Unlinked(k)[i] : i \in DOMAIN Unlinked(k)}
        BY <4>2 DEF OnList
      <4>5. OnList' = OnList \ {list[k]}
        BY <4>4, UnlinkedApart
      <4> QED BY <1>1, <2>1, <3>3, <4>3, <4>5 DEF NodesApart
    <3> QED BY <3>4, <3>5
  <2>9. CASE FindNode(t)
    <3>1. PICK p \in held[t] : task' = [task EXCEPT ![t] = Moving(NodeOf(p), p)]
      BY <2>9 DEF FindNode
    <3>2. p \in Addresses
      BY DEF MemTyped
    <3>3. task'[t].at = "move"
      BY <1>0, <3>1, <3>2, NodeOfType, TaskStates
    <3> QED BY <2>3, <2>9, <3>3 DEF FindNode
  <2>10. CASE Move(t)
    <3>1. PICK q \in FreeAddresses \union {c.ptr} : task' = [task EXCEPT ![t] = Storing(c.node, q)]
      BY <2>10 DEF Move
    <3>2. c.node \in Nodes \cup {NoNode} /\ q \in Addresses /\ c.at = "move"
      BY <2>2, <2>10, TaskShape DEF Move, FreeAddresses
    <3>3. task'[t].at = "store"
      BY <1>0, <3>1, <3>2, TaskStates
    <3> QED BY <1>1, <2>3, <2>10, <3>2, <3>3 DEF Move
  <2>11. CASE ReallocUntracked(t)
    BY <1>1, <2>3, <2>11 DEF ReallocUntracked
  <2> QED BY <1>4, <2>4, <2>5, <2>6, <2>7, <2>8, <2>9, <2>10, <2>11 DEF MemStep
<1> QED BY <1>2, <1>3, <1>4 DEF MemNext

(* Unlinking keeps the order of the nodes that stay.                         *)
LEMMA UnlinkedInOrder ==
  ASSUME MemTyped, NEW k \in DOMAIN list,
         NEW i \in DOMAIN Unlinked(k), NEW j \in DOMAIN Unlinked(k)
  PROVE  \E a, b \in DOMAIN list : /\ Unlinked(k)[i] = list[a] /\ Unlinked(k)[j] = list[b]
                                   /\ a <= b => i <= j
<1>1. Len(list) \in Nat /\ DOMAIN list = 1 .. Len(list) /\ k \in 1 .. Len(list)
  BY LenProperties DEF MemTyped
<1>2. /\ DOMAIN Unlinked(k) = 1 .. Len(list) - 1
      /\ \A x \in 1 .. Len(list) - 1 : Unlinked(k)[x] = IF x < k THEN list[x] ELSE list[x + 1]
  BY UnlinkedIs, LenProperties
<1>3. i \in 1 .. Len(list) - 1 /\ j \in 1 .. Len(list) - 1
  BY <1>2
<1>4. PICK a \in 1 .. Len(list) : a = IF i < k THEN i ELSE i + 1
  BY <1>1, <1>3
<1>5. PICK b \in 1 .. Len(list) : b = IF j < k THEN j ELSE j + 1
  BY <1>1, <1>3
<1>6. a <= b => i <= j
  BY <1>1, <1>3, <1>4, <1>5
<1>7. Unlinked(k)[i] = list[a] /\ Unlinked(k)[j] = list[b]
  BY <1>2, <1>3, <1>4, <1>5
<1> QED BY <1>1, <1>6, <1>7

(* The node a realloc is at work on is on the list, and it is the only one.  *)
LEMMA AtWorkOnList ==
  ASSUME MemTyped, Matched, NEW u \in Threads, Reallocating(u)
  PROVE  /\ task[u].node # NoNode => task[u].node \in OnList
         /\ \A v \in Threads : task[v].at \in {"move", "store"} => v = u
BY DEF Matched, NodeFits, Reallocating

(* The steps that do not concern the nodes.                                  *)
LEMMA AsideMatched ==
  ASSUME MemTyped, Matched, NEW t \in Threads,
         \A u \in Threads \ {t} : task'[u] = task[u],
         UNCHANGED <<list, ptrOf, held, untracked>>,
         task[t].at # "store", task'[t].at \notin {"link", "move", "store"}
  PROVE  Matched'
<1>1. PICK addr \in [Nodes -> Addresses \cup {NoNode}] : StandFor(addr)
  BY DEF Matched
<1>2. \A u \in Threads : /\ task'[u].at = "store" <=> task[u].at = "store"
                         /\ task'[u].at \in {"link", "move", "store"} => task'[u] = task[u]
  OBVIOUS
<1>3. OnList' = OnList /\ Owed' = Owed
  BY DEF OnList, Owed
<1>4. StandFor(addr)'
  <2>1. \A n \in Nodes : addr[n] = ptrOf'[n] \/ \E u \in Threads : task'[u].at = "store" /\ task'[u].node = n
    BY <1>1, <1>2 DEF StandFor
  <2>2. \A u \in Threads : task'[u].at = "store" /\ task'[u].node # NoNode => addr[task'[u].node] = task'[u].moved
    BY <1>1, <1>2 DEF StandFor
  <2> QED BY <1>1, <1>3, <2>1, <2>2 DEF StandFor
<1>5. \A u, v \in Threads : Reallocating(u)' /\ Reallocating(v)' => u = v
  BY <1>2 DEF Matched, Reallocating
<1>6. \A u \in Threads : task'[u].at = "link" => ptrOf'[task'[u].node] = task'[u].ptr
  BY <1>2 DEF Matched
<1>7. \A u \in Threads : NodeFits(u)'
  <2> SUFFICES ASSUME NEW u \in Threads PROVE NodeFits(u)'
    OBVIOUS
  <2>1. NodeFits(u)
    BY DEF Matched
  <2> QED BY <1>2, <1>3, <2>1 DEF NodeFits
<1> QED BY <1>1, <1>4, <1>5, <1>6, <1>7 DEF Matched

LEMMA AddNodeMatched ==
  ASSUME MemTyped, NodesApart, Matched, NEW t \in Threads, AddNode(t)
  PROVE  Matched'
<1>0. task \in [Threads -> Tasks] /\ ptrOf \in [Nodes -> Addresses \cup {NoNode}]
  BY DEF MemTyped
<1>1. PICK addr \in [Nodes -> Addresses \cup {NoNode}] : StandFor(addr)
  BY DEF Matched
<1>2. \A u \in Threads \ {t} : task'[u] = task[u]
  BY StepIsOwn DEF MemStep
<1>3. PICK n \in FreeNodes : ptrOf' = [ptrOf EXCEPT ![n] = task[t].ptr] /\ task' = [task EXCEPT ![t] = Linking(n, task[t].ptr)]
  BY DEF AddNode
<1>4. PICK p \in Addresses : p = task[t].ptr
  BY <1>0, TaskShape DEF AddNode
<1>5. n \in Nodes /\ n \notin OnList /\ \A u \in Threads : task[u].at = "link" => task[u].node # n
  BY DEF FreeNodes
<1>6. task[t].at = "node" /\ task'[t].at = "link" /\ task'[t].node = n /\ task'[t].ptr = p
  BY <1>0, <1>3, <1>4, <1>5, TaskStates DEF AddNode
<1>7. ptrOf'[n] = p /\ \A m \in Nodes \ {n} : ptrOf'[m] = ptrOf[m]
  BY <1>0, <1>3, <1>4, <1>5
<1>8. UNCHANGED <<list, held, untracked>> /\ OnList' = OnList /\ Owed' = Owed
  BY DEF AddNode, OnList, Owed
<1>9. \A u \in Threads : task'[u].at \in {"move", "store"} <=> task[u].at \in {"move", "store"}
  BY <1>2, <1>6
<1>10. \A u \in Threads : task[u].at \in {"move", "store"} => task'[u] = task[u] /\ task[u].node # n
  <2> SUFFICES ASSUME NEW u \in Threads, task[u].at \in {"move", "store"} PROVE task'[u] = task[u] /\ task[u].node # n
    OBVIOUS
  <2>1. task[u].node # NoNode => task[u].node \in OnList
    BY AtWorkOnList DEF Reallocating
  <2> QED BY <1>2, <1>5, <1>6, <2>1, NoNodeAssumption
<1>11. PICK a \in [Nodes -> Addresses \cup {NoNode}] : a[n] = p /\ \A m \in Nodes \ {n} : a[m] = addr[m]
  <2> DEFINE a == [addr EXCEPT ![n] = p]
  <2>1. a \in [Nodes -> Addresses \cup {NoNode}] /\ a[n] = p /\ \A m \in Nodes \ {n} : a[m] = addr[m]
    BY <1>5
  <2> QED BY <2>1
<1>12. OnList \subseteq Nodes \ {n}
  BY <1>5, LenProperties, ElementOfSeq DEF OnList, MemTyped
<1>13. StandFor(a)'
  <2>1. \A m \in Nodes : a[m] = ptrOf'[m] \/ \E u \in Threads : task'[u].at = "store" /\ task'[u].node = m
    <3> SUFFICES ASSUME NEW m \in Nodes, m # n, a[m] # ptrOf'[m]
                 PROVE  \E u \in Threads : task'[u].at = "store" /\ task'[u].node = m
      BY <1>7, <1>11
    <3>1. addr[m] # ptrOf[m]
      BY <1>7, <1>11
    <3>2. PICK u \in Threads : task[u].at = "store" /\ task[u].node = m
      BY <1>1, <3>1 DEF StandFor
    <3> QED BY <1>10, <3>2
  <2>2. \A u \in Threads : task'[u].at = "store" /\ task'[u].node # NoNode => a[task'[u].node] = task'[u].moved
    <3> SUFFICES ASSUME NEW u \in Threads, task'[u].at = "store", task'[u].node # NoNode
                 PROVE  a[task'[u].node] = task'[u].moved
      OBVIOUS
    <3>1. task'[u] = task[u] /\ task[u].node # n /\ task[u].at = "store"
      BY <1>9, <1>10
    <3>2. task[u].node \in Nodes
      BY <1>0, <3>1, TaskShape
    <3> QED BY <1>1, <1>11, <3>1, <3>2 DEF StandFor
  <2>3. \A m \in OnList : a[m] = addr[m]
    BY <1>11, <1>12
  <2>4. /\ \A m \in OnList' : a[m] \in Owed'
        /\ \A m, o \in OnList' : a[m] = a[o] => m = o
        /\ \A x \in Owed' : \E m \in OnList' : a[m] = x
    BY <1>1, <1>8, <2>3 DEF StandFor
  <2> QED BY <2>1, <2>2, <2>4 DEF StandFor
<1>14. \A u, v \in Threads : Reallocating(u)' /\ Reallocating(v)' => u = v
  BY <1>9 DEF Matched, Reallocating
<1>15. \A u \in Threads : task'[u].at = "link" => ptrOf'[task'[u].node] = task'[u].ptr
  <2> SUFFICES ASSUME NEW u \in Threads, u # t, task[u].at = "link" PROVE ptrOf'[task[u].node] = task[u].ptr
    BY <1>2, <1>6, <1>7
  <2>1. task[u].node \in Nodes \ {n}
    BY <1>0, <1>5, TaskShape
  <2> QED BY <1>7, <2>1 DEF Matched
<1>16. \A m \in OnList : ptrOf'[m] = ptrOf[m]
  BY <1>7, <1>12
<1>17. \A u \in Threads : NodeFits(u)'
  <2> SUFFICES ASSUME NEW u \in Threads PROVE NodeFits(u)'
    OBVIOUS
  <2>1. NodeFits(u)
    BY DEF Matched
  <2>2. \A i \in DOMAIN list : list[i] \in OnList
    BY DEF OnList
  <2> QED BY <1>8, <1>9, <1>10, <1>16, <2>1, <2>2 DEF NodeFits
<1> QED BY <1>13, <1>14, <1>15, <1>17 DEF Matched

LEMMA LinkMatched ==
  ASSUME MemTyped, BlocksApart, NodesApart, Matched, NEW t \in Threads, Link(t)
  PROVE  Matched'
<1>0. task \in [Threads -> Tasks] /\ held \in [Threads -> SUBSET Addresses]
  BY DEF MemTyped
<1>1. PICK addr \in [Nodes -> Addresses \cup {NoNode}] : StandFor(addr)
  BY DEF Matched
<1>2. \A u \in Threads \ {t} : task'[u] = task[u] /\ held'[u] = held[u]
  BY StepIsOwn DEF MemStep
<1>3. PICK n \in Nodes, p \in Addresses : n = task[t].node /\ p = task[t].ptr
  BY <1>0, TaskShape DEF Link
<1>4. /\ task[t].at = "link" /\ task'[t].at = "rest" /\ held'[t] = held[t] \cup {p}
      /\ list' = Linked(n) /\ UNCHANGED <<ptrOf, untracked>>
  BY <1>0, <1>3, TaskStates DEF Link
<1>5. n \notin OnList
  BY <1>3, <1>4 DEF NodesApart
<1>6. OnList' = OnList \cup {n}
  <2>1. OnList' = {Linked(n)[i] : i \in DOMAIN Linked(n)}
    BY <1>4 DEF OnList
  <2> QED BY <2>1, LinkedIs
<1>7. /\ DOMAIN list = 1 .. Len(list) /\ Len(list) \in Nat /\ DOMAIN list' = 1 .. Len(list) + 1
      /\ list'[1] = n /\ \A i \in DOMAIN list : list'[i + 1] = list[i]
  BY <1>4, LinkedIs
<1>8. \A u \in Threads : p \notin held[u]
  BY <1>3, <1>4 DEF BlocksApart, InTransit
<1>9. p \notin untracked
  BY <1>8 DEF BlocksApart
<1>10. Owed' = Owed \cup {p} /\ p \notin Owed
  BY <1>2, <1>4, <1>8, <1>9 DEF Owed
<1>11. \A u \in Threads : task'[u].at \in {"move", "store", "link"} => task'[u] = task[u] /\ u # t
  BY <1>2, <1>4
<1>12. \A u \in Threads : task[u].at \in {"move", "store"} => task'[u] = task[u] /\ task[u].node # n
  <2> SUFFICES ASSUME NEW u \in Threads, task[u].at \in {"move", "store"} PROVE task'[u] = task[u] /\ task[u].node # n
    OBVIOUS
  <2>1. task[u].node # NoNode => task[u].node \in OnList
    BY AtWorkOnList DEF Reallocating
  <2> QED BY <1>2, <1>4, <1>5, <2>1, NoNodeAssumption
<1>13. addr[n] = p
  <2>1. ptrOf[n] = p
    BY <1>3, <1>4 DEF Matched
  <2> QED BY <1>1, <1>12, <2>1 DEF StandFor
<1>14. StandFor(addr)'
  <2>1. \A m \in Nodes : addr[m] = ptrOf'[m] \/ \E u \in Threads : task'[u].at = "store" /\ task'[u].node = m
    BY <1>1, <1>4, <1>12 DEF StandFor
  <2>2. \A u \in Threads : task'[u].at = "store" /\ task'[u].node # NoNode => addr[task'[u].node] = task'[u].moved
    BY <1>1, <1>11 DEF StandFor
  <2>3. \A m \in OnList' : addr[m] \in Owed'
    BY <1>1, <1>6, <1>10, <1>13 DEF StandFor
  <2>4. \A m, o \in OnList' : addr[m] = addr[o] => m = o
    BY <1>1, <1>6, <1>10, <1>13 DEF StandFor
  <2>5. \A x \in Owed' : \E m \in OnList' : addr[m] = x
    BY <1>1, <1>6, <1>10, <1>13 DEF StandFor
  <2> QED BY <2>1, <2>2, <2>3, <2>4, <2>5 DEF StandFor
<1>15. \A u, v \in Threads : Reallocating(u)' /\ Reallocating(v)' => u = v
  BY <1>11 DEF Matched, Reallocating
<1>16. \A u \in Threads : task'[u].at = "link" => ptrOf'[task'[u].node] = task'[u].ptr
  BY <1>4, <1>11 DEF Matched
<1>17. \A u \in Threads : NodeFits(u)'
  <2> SUFFICES ASSUME NEW u \in Threads, task'[u].at \in {"move", "store"} PROVE NodeFits(u)'
    BY DEF NodeFits
  <2>1. NodeFits(u) /\ task'[u] = task[u] /\ task[u].node # n
    BY <1>11, <1>12 DEF Matched
  <2>2. CASE task[u].at = "move"
    BY <1>4, <1>6, <2>1, <2>2 DEF NodeFits
  <2>3. CASE task[u].at = "store" /\ task[u].moved \in untracked
    BY <1>4, <2>1, <2>3 DEF NodeFits
  <2>4. CASE task[u].at = "store" /\ task[u].moved \notin untracked
    <3>1. task[u].node \in OnList /\ ptrOf[task[u].node] \notin untracked
      BY <2>1, <2>4 DEF NodeFits
    <3>2. \A i, j \in DOMAIN list : list[j] = task[u].node /\ ptrOf[list[i]] = ptrOf[task[u].node] => i <= j
      BY <2>1, <2>4 DEF NodeFits
    <3>3. ASSUME NEW i \in DOMAIN list', NEW j \in DOMAIN list',
                 list'[j] = task[u].node, ptrOf[list'[i]] = ptrOf[task[u].node]
          PROVE  i <= j
      <4>1. i \in 1 .. Len(list) + 1 /\ j \in 1 .. Len(list) + 1 /\ j # 1
        BY <1>7, <2>1, <3>3
      <4>2. CASE i = 1
        BY <1>7, <4>1, <4>2
      <4>3. CASE i # 1
        <5>1. i - 1 \in DOMAIN list /\ j - 1 \in DOMAIN list /\ (i - 1) + 1 = i /\ (j - 1) + 1 = j
          BY <1>7, <4>1, <4>3
        <5>2. list[i - 1] = list'[i] /\ list[j - 1] = list'[j]
          BY <1>7, <5>1
        <5>3. i - 1 <= j - 1
          BY <3>2, <3>3, <5>1, <5>2
        <5> QED BY <1>7, <4>1, <5>3
      <4> QED BY <4>2, <4>3
    <3> QED BY <1>4, <1>6, <2>1, <2>4, <3>1, <3>3 DEF NodeFits
  <2> QED BY <2>1, <2>2, <2>3, <2>4
<1> QED BY <1>14, <1>15, <1>16, <1>17 DEF Matched

(* The node a free takes is the one of its block.  If a node there is to be  *)
(* rewritten, its old address is in use again, and the new node of that      *)
(* address comes first.                                                      *)
LEMMA TakesItsOwn ==
  ASSUME MemTyped, BlocksApart, NodesApart, Matched,
         NEW addr \in [Nodes -> Addresses \cup {NoNode}], StandFor(addr),
         NEW t \in Threads, task[t].at = "rest", NEW p \in held[t]
  PROVE  /\ FoundAt(p) = {} => p \notin Owed
         /\ FoundAt(p) # {} =>
              LET m == list[First(FoundAt(p))] IN
              /\ addr[m] = p /\ p \in Owed
              /\ \A u \in Threads : task[u].at \in {"move", "store"} => task[u].node # m
<1>0. /\ task \in [Threads -> Tasks] /\ held \in [Threads -> SUBSET Addresses]
      /\ \A i \in DOMAIN list : list[i] \in Nodes /\ list[i] \in OnList
      /\ DOMAIN list \subseteq Nat /\ OnList \subseteq Nodes
  BY LenProperties, ElementOfSeq DEF MemTyped, OnList
<1>1. /\ \A n \in Nodes : addr[n] = ptrOf[n] \/ \E u \in Threads : task[u].at = "store" /\ task[u].node = n
      /\ \A u \in Threads : task[u].at = "store" /\ task[u].node # NoNode => addr[task[u].node] = task[u].moved
      /\ \A n \in OnList : addr[n] \in Owed
      /\ \A x \in Owed : \E n \in OnList : addr[n] = x
  BY DEF StandFor
<1>2. \A u \in Threads : /\ task[u].at = "store" => task[u].moved # p
                         /\ task[u].at = "move" => task[u].ptr # p
  BY DEF BlocksApart
<1>3. ASSUME NEW m \in OnList, addr[m] = p PROVE ptrOf[m] = p
  <2> SUFFICES ASSUME NEW u \in Threads, task[u].at = "store", task[u].node = m PROVE FALSE
    BY <1>0, <1>1, <1>3
  <2>1. m # NoNode
    BY <1>0, NoNodeAssumption
  <2> QED BY <1>1, <1>2, <1>3, <2>1
<1>4. FoundAt(p) = {} => p \notin Owed
  <2> SUFFICES ASSUME FoundAt(p) = {}, p \in Owed PROVE FALSE
    OBVIOUS
  <2>1. PICK m \in OnList : addr[m] = p
    BY <1>1
  <2> QED BY <1>3, <2>1 DEF FoundAt, OnList
<1>5. ASSUME FoundAt(p) # {}, NEW m, m = list[First(FoundAt(p))]
      PROVE  /\ addr[m] = p /\ p \in Owed
             /\ \A u \in Threads : task[u].at \in {"move", "store"} => task[u].node # m
  <2>1. PICK k \in DOMAIN list : m = list[k] /\ ptrOf[m] = p /\ \A j \in DOMAIN list : ptrOf[list[j]] = p => k <= j
    BY <1>5, FirstFound
  <2>2. m \in Nodes /\ m \in OnList /\ m # NoNode
    BY <1>0, <2>1, NoNodeAssumption
  <2>3. ASSUME NEW u \in Threads, task[u].at = "store", task[u].node = m PROVE FALSE
    <3>1. task[u].moved \notin untracked
      BY <2>2, <2>3 DEF Matched, NodeFits
    <3>2. p \notin untracked /\ \A i, j \in DOMAIN list : list[j] = m /\ ptrOf[list[i]] = p => i <= j
      BY <2>1, <2>3, <3>1 DEF Matched, NodeFits
    <3>3. p \in Owed
      BY <1>0, <3>2 DEF Owed
    <3>4. PICK i \in DOMAIN list : addr[list[i]] = p
      BY <1>1, <3>3 DEF OnList
    <3>5. ptrOf[list[i]] = p
      BY <1>0, <1>3, <3>4
    <3>6. i <= k /\ k <= i /\ i \in Nat /\ k \in Nat
      BY <1>0, <2>1, <3>2, <3>5
    <3>7. i = k
      BY <3>6
    <3>8. addr[m] = p
      BY <2>1, <3>4, <3>7
    <3> QED BY <1>1, <1>2, <2>2, <2>3, <3>8
  <2>4. addr[m] = p /\ p \in Owed
    BY <1>1, <2>1, <2>2, <2>3
  <2>5. ASSUME NEW u \in Threads, task[u].at = "move", task[u].node = m PROVE FALSE
    <3>1. ptrOf[m] = task[u].ptr
      BY <2>2, <2>5 DEF Matched, NodeFits
    <3> QED BY <1>2, <2>1, <2>5, <3>1
  <2> QED BY <2>3, <2>4, <2>5
<1> QED BY <1>4, <1>5

LEMMA UnlinkMatched ==
  ASSUME MemTyped, BlocksApart, NodesApart, Matched, NEW t \in Threads, Unlink(t)
  PROVE  Matched'
<1>0. task \in [Threads -> Tasks] /\ held \in [Threads -> SUBSET Addresses]
  BY DEF MemTyped
<1>1. PICK addr \in [Nodes -> Addresses \cup {NoNode}] : StandFor(addr)
  BY DEF Matched
<1>2. \A u \in Threads \ {t} : task'[u] = task[u] /\ held'[u] = held[u]
  BY StepIsOwn DEF MemStep
<1>3. PICK p \in held[t] :
        /\ list' = IF FoundAt(p) = {} THEN list ELSE Unlinked(First(FoundAt(p)))
        /\ held' = [held EXCEPT ![t] = @ \ {p}]
        /\ untracked' = untracked \ {p}
        /\ task' = [task EXCEPT ![t] = Releasing(p)]
  BY DEF Unlink
<1>4. task[t].at = "rest" /\ task'[t].at = "release" /\ held'[t] = held[t] \ {p} /\ UNCHANGED ptrOf /\ p \in Addresses
  BY <1>0, <1>3, TaskStates DEF Unlink
<1>5. \A u \in Threads \ {t} : p \notin held[u]
  BY DEF BlocksApart
<1>6. Owed' = Owed \ {p}
  BY <1>2, <1>3, <1>4, <1>5 DEF Owed
<1>7. \A u \in Threads : task'[u].at \in {"move", "store", "link"} => task'[u] = task[u] /\ u # t
  BY <1>2, <1>4
<1>8. \A u \in Threads : task[u].at \in {"move", "store", "link"} => task'[u] = task[u]
  BY <1>2, <1>4
<1>9. \A u \in Threads : /\ task[u].at = "store" => task[u].moved # p
                         /\ task[u].at = "move" => task[u].ptr # p
  BY <1>4, <1>5 DEF BlocksApart
<1>10. /\ \A m \in OnList' : m \in OnList /\ addr[m] # p
       /\ \A x \in Owed' : \E m \in OnList' : addr[m] = x
       /\ \A u \in Threads : task[u].at \in {"move", "store"} /\ task[u].node \in OnList => task[u].node \in OnList'
       /\ \A i, j \in DOMAIN list' : \E a, b \in DOMAIN list : list'[i] = list[a] /\ list'[j] = list[b] /\ (a <= b => i <= j)
  <2>1. CASE FoundAt(p) = {}
    <3>1. p \notin Owed /\ UNCHANGED list /\ OnList' = OnList
      BY <1>1, <1>3, <1>4, <2>1, TakesItsOwn DEF OnList
    <3> QED BY <1>1, <1>6, <3>1 DEF StandFor
  <2>2. CASE FoundAt(p) # {}
    <3>1. PICK k \in DOMAIN list : k = First(FoundAt(p))
      BY <2>2, FirstFound
    <3>2. list' = Unlinked(k)
      BY <1>3, <2>2, <3>1
    <3>3. OnList' = OnList \ {list[k]}
      <4>1. OnList' = {Unlinked(k)[i] : i \in DOMAIN Unlinked(k)}
        BY <3>2 DEF OnList
      <4> QED BY <4>1, UnlinkedApart
    <3>4. \A i, j \in DOMAIN list' : \E a, b \in DOMAIN list : list'[i] = list[a] /\ list'[j] = list[b] /\ (a <= b => i <= j)
      BY <3>2, UnlinkedInOrder
    <3>5. addr[list[k]] = p /\ \A u \in Threads : task[u].at \in {"move", "store"} => task[u].node # list[k]
      BY <1>1, <1>4, <2>2, <3>1, TakesItsOwn
    <3>6. list[k] \in OnList
      BY DEF OnList
    <3>7. \A m \in OnList' : m \in OnList /\ addr[m] # p
      BY <1>1, <3>3, <3>5, <3>6 DEF StandFor
    <3>8. \A x \in Owed' : \E m \in OnList' : addr[m] = x
      BY <1>1, <1>6, <3>3, <3>5 DEF StandFor
    <3> QED BY <3>3, <3>4, <3>5, <3>7, <3>8
  <2> QED BY <2>1, <2>2
<1>11. StandFor(addr)'
  <2>1. \A m \in Nodes : addr[m] = ptrOf'[m] \/ \E u \in Threads : task'[u].at = "store" /\ task'[u].node = m
    BY <1>1, <1>4, <1>8 DEF StandFor
  <2>2. \A u \in Threads : task'[u].at = "store" /\ task'[u].node # NoNode => addr[task'[u].node] = task'[u].moved
    BY <1>1, <1>7 DEF StandFor
  <2>3. /\ \A m \in OnList' : addr[m] \in Owed'
        /\ \A m, o \in OnList' : addr[m] = addr[o] => m = o
    BY <1>1, <1>6, <1>10 DEF StandFor
  <2> QED BY <1>10, <2>1, <2>2, <2>3 DEF StandFor
<1>12. \A u, v \in Threads : Reallocating(u)' /\ Reallocating(v)' => u = v
  BY <1>7 DEF Matched, Reallocating
<1>13. \A u \in Threads : task'[u].at = "link" => ptrOf'[task'[u].node] = task'[u].ptr
  BY <1>4, <1>7 DEF Matched
<1>14. \A u \in Threads : NodeFits(u)'
  <2> SUFFICES ASSUME NEW u \in Threads, task'[u].at \in {"move", "store"} PROVE NodeFits(u)'
    BY DEF NodeFits
  <2>1. NodeFits(u) /\ task'[u] = task[u]
    BY <1>7 DEF Matched
  <2>2. CASE task[u].at = "move"
    BY <1>3, <1>4, <1>9, <1>10, <2>1, <2>2 DEF NodeFits
  <2>3. CASE task[u].at = "store" /\ task[u].moved \in untracked
    BY <1>3, <1>9, <2>1, <2>3 DEF NodeFits
  <2>4. CASE task[u].at = "store" /\ task[u].moved \notin untracked
    <3>1. task[u].node \in OnList /\ ptrOf[task[u].node] \notin untracked
      BY <2>1, <2>4 DEF NodeFits
    <3>2. \A i, j \in DOMAIN list : list[j] = task[u].node /\ ptrOf[list[i]] = ptrOf[task[u].node] => i <= j
      BY <2>1, <2>4 DEF NodeFits
    <3>3. \A i, j \in DOMAIN list' : list'[j] = task[u].node /\ ptrOf[list'[i]] = ptrOf[task[u].node] => i <= j
      BY <1>10, <3>2
    <3>4. task'[u].at = "store" /\ task'[u].moved \notin untracked' /\ task'[u].node = task[u].node
      BY <1>3, <2>1, <2>4
    <3>5. task[u].node \in OnList'
      BY <1>10, <2>4, <3>1
    <3>6. ptrOf'[task[u].node] \notin untracked' /\ ptrOf' = ptrOf
      BY <1>3, <1>4, <3>1
    <3> QED BY <3>3, <3>4, <3>5, <3>6 DEF NodeFits
  <2> QED BY <2>1, <2>2, <2>3, <2>4
<1> QED BY <1>11, <1>12, <1>13, <1>14 DEF Matched

LEMMA FindNodeMatched ==
  ASSUME MemTyped, NodesApart, Matched, NEW t \in Threads, FindNode(t), ~overlapped'
  PROVE  Matched'
<1>0. /\ task \in [Threads -> Tasks] /\ held \in [Threads -> SUBSET Addresses]
      /\ \A i \in DOMAIN list : list[i] \in Nodes /\ list[i] \in OnList
      /\ OnList \subseteq Nodes
  BY LenProperties, ElementOfSeq DEF MemTyped, OnList
<1>1. PICK addr \in [Nodes -> Addresses \cup {NoNode}] : StandFor(addr)
  BY DEF Matched
<1>2. \A u \in Threads \ {t} : task'[u] = task[u] /\ held'[u] = held[u]
  BY StepIsOwn DEF MemStep
<1>3. PICK p \in held[t] : task' = [task EXCEPT ![t] = Moving(NodeOf(p), p)]
  BY DEF FindNode
<1>4. PICK n \in Nodes \cup {NoNode} : n = NodeOf(p)
  BY NodeOfType
<1>5. p \in Addresses /\ task'[t].at = "move" /\ task'[t].ptr = p /\ task'[t].node = n
  BY <1>0, <1>3, <1>4, TaskStates
<1>6. UNCHANGED <<list, ptrOf, held, untracked>> /\ OnList' = OnList /\ Owed' = Owed
  BY DEF FindNode, OnList, Owed
<1>7. \A u \in Threads : task[u].at \notin {"move", "store"}
  BY DEF FindNode, Reallocating
<1>8. \A m \in Nodes : addr[m] = ptrOf[m]
  BY <1>1, <1>7 DEF StandFor
<1>9. \A u \in Threads : task'[u].at \in {"move", "store"} => u = t
  BY <1>2, <1>7
<1>10. StandFor(addr)'
  BY <1>1, <1>5, <1>6, <1>8, <1>9 DEF StandFor
<1>11. IF p \in untracked THEN n = NoNode ELSE n \in OnList /\ ptrOf[n] = p
  <2>1. CASE FoundAt(p) = {}
    <3>1. n = NoNode
      BY <1>4, <2>1 DEF NodeOf
    <3>2. \A m \in OnList : ptrOf[m] # p
      BY <2>1 DEF FoundAt, OnList
    <3>3. p \notin Owed
      BY <1>0, <1>1, <1>8, <3>2 DEF StandFor
    <3> QED BY <1>5, <3>1, <3>3 DEF Owed
  <2>2. CASE FoundAt(p) # {}
    <3>1. n \in OnList /\ ptrOf[n] = p
      BY <1>0, <1>4, <2>2, FirstFound DEF NodeOf
    <3>2. p \in Owed
      BY <1>0, <1>1, <1>8, <3>1 DEF StandFor
    <3> QED BY <3>1, <3>2 DEF Owed
  <2> QED BY <2>1, <2>2
<1>12. \A u, v \in Threads : Reallocating(u)' /\ Reallocating(v)' => u = v
  BY <1>9 DEF Reallocating
<1>13. \A u \in Threads : task'[u].at = "link" => ptrOf'[task'[u].node] = task'[u].ptr
  BY <1>2, <1>5, <1>6 DEF Matched
<1>14. \A u \in Threads : NodeFits(u)'
  BY <1>5, <1>6, <1>9, <1>11 DEF NodeFits
<1> QED BY <1>10, <1>12, <1>13, <1>14 DEF Matched

LEMMA StoreMatched ==
  ASSUME MemTyped, NodesApart, Matched, NEW t \in Threads, Store(t)
  PROVE  Matched'
<1>0. /\ task \in [Threads -> Tasks] /\ ptrOf \in [Nodes -> Addresses \cup {NoNode}]
      /\ OnList \subseteq Nodes
  BY LenProperties, ElementOfSeq DEF MemTyped, OnList
<1>1. PICK addr \in [Nodes -> Addresses \cup {NoNode}] : StandFor(addr)
  BY DEF Matched
<1>2. \A u \in Threads \ {t} : task'[u] = task[u]
  BY StepIsOwn DEF MemStep
<1>3. PICK n \in Nodes \cup {NoNode}, q \in Addresses : n = task[t].node /\ q = task[t].moved
  BY <1>0, TaskShape DEF Store
<1>4. task[t].at = "store" /\ task'[t].at = "rest" /\ ptrOf' = Stored(n, q)
  BY <1>0, <1>3, TaskStates DEF Store
<1>5. UNCHANGED <<list, held, untracked>> /\ OnList' = OnList /\ Owed' = Owed
  BY DEF Store, OnList, Owed
<1>6. \A u \in Threads : task[u].at \in {"move", "store"} => u = t
  BY <1>4, AtWorkOnList DEF Reallocating
<1>7. \A u \in Threads : task'[u].at \notin {"move", "store"}
  BY <1>2, <1>4, <1>6
<1>8. \A m \in Nodes : ptrOf'[m] = IF m = n THEN q ELSE ptrOf[m]
  BY <1>0, <1>4, NoNodeAssumption DEF Stored
<1>9. \A m \in Nodes : addr[m] = ptrOf'[m]
  <2> SUFFICES ASSUME NEW m \in Nodes PROVE addr[m] = ptrOf'[m]
    OBVIOUS
  <2>1. CASE m = n
    BY <1>1, <1>3, <1>4, <1>8, <2>1, NoNodeAssumption DEF StandFor
  <2>2. CASE m # n
    BY <1>1, <1>3, <1>6, <1>8, <2>2 DEF StandFor
  <2> QED BY <2>1, <2>2
<1>10. StandFor(addr)'
  BY <1>1, <1>5, <1>7, <1>9 DEF StandFor
<1>11. \A u, v \in Threads : Reallocating(u)' /\ Reallocating(v)' => u = v
  BY <1>7 DEF Reallocating
<1>12. \A u \in Threads : task'[u].at = "link" => ptrOf'[task'[u].node] = task'[u].ptr
  <2> SUFFICES ASSUME NEW u \in Threads, u # t, task[u].at = "link" PROVE ptrOf'[task[u].node] = task[u].ptr
    BY <1>2, <1>4
  <2>1. task[u].node \in Nodes /\ task[u].node \notin OnList
    BY <1>0, TaskShape DEF NodesApart
  <2>2. n = NoNode \/ n \in OnList
    BY <1>3, <1>4, AtWorkOnList DEF Reallocating
  <2>3. task[u].node # n
    BY <2>1, <2>2, NoNodeAssumption
  <2> QED BY <1>8, <2>1, <2>3 DEF Matched
<1>13. \A u \in Threads : NodeFits(u)'
  BY <1>7 DEF NodeFits
<1> QED BY <1>10, <1>11, <1>12, <1>13 DEF Matched

LEMMA MoveMatched ==
  ASSUME MemTyped, BlocksApart, NodesApart, Matched, NEW t \in Threads, Move(t)
  PROVE  Matched'
<1>0. /\ task \in [Threads -> Tasks] /\ held \in [Threads -> SUBSET Addresses]
      /\ OnList \subseteq Nodes
      /\ \A i, j \in DOMAIN list : list[i] = list[j] => i = j
      /\ DOMAIN list \subseteq Nat /\ \A i \in DOMAIN list : list[i] \in OnList
  BY LenProperties, ElementOfSeq DEF MemTyped, OnList, NodesApart
<1>1. PICK addr \in [Nodes -> Addresses \cup {NoNode}] : StandFor(addr)
  BY DEF Matched
<1>2. \A u \in Threads \ {t} : task'[u] = task[u] /\ held'[u] = held[u]
  BY StepIsOwn DEF MemStep
<1>3. PICK n \in Nodes \cup {NoNode}, p \in Addresses : n = task[t].node /\ p = task[t].ptr
  BY <1>0, TaskShape DEF Move
<1>4. PICK q \in FreeAddresses \union {p} :
        /\ held' = [held EXCEPT ![t] = Rename(@, p, q)]
        /\ untracked' = Rename(untracked, p, q)
        /\ task' = [task EXCEPT ![t] = Storing(n, q)]
  BY <1>3 DEF Move
<1>5. task[t].at = "move" /\ p \in held[t] /\ q \in Addresses /\ (q = p \/ q \notin blocks)
  BY <1>3 DEF Move, BlocksApart, FreeAddresses
<1>6. /\ task'[t].at = "store" /\ task'[t].node = n /\ task'[t].moved = q
      /\ held'[t] = (held[t] \ {p}) \cup {q}
      /\ UNCHANGED <<list, ptrOf>> /\ OnList' = OnList
  BY <1>0, <1>3, <1>4, <1>5, TaskStates DEF Move, Rename, OnList
<1>7. \A u \in Threads \ {t} : p \notin held[u] /\ q \notin held[u]
  BY <1>5 DEF BlocksApart
<1>8. q # p => q \notin held[t] /\ q \notin untracked
  <2>1. \A u \in Threads : held[u] \subseteq blocks
    BY DEF BlocksApart
  <2>2. \A x \in untracked : \E u \in Threads : x \in held[u]
    BY DEF BlocksApart
  <2> QED BY <1>5, <2>1, <2>2
<1>9. \A u \in Threads : task[u].at \in {"move", "store"} => u = t
  BY <1>5, AtWorkOnList DEF Reallocating
<1>10. \A u \in Threads : task'[u].at \in {"move", "store"} => u = t
  BY <1>2, <1>9
<1>11. \A m \in Nodes : addr[m] = ptrOf[m]
  BY <1>1, <1>5, <1>9 DEF StandFor
<1>12. \A u, v \in Threads : Reallocating(u)' /\ Reallocating(v)' => u = v
  BY <1>10 DEF Reallocating
<1>13. \A u \in Threads : task'[u].at = "link" => ptrOf'[task'[u].node] = task'[u].ptr
  BY <1>2, <1>6 DEF Matched
<1>14. CASE p \in untracked
  <2>1. n = NoNode
    BY <1>3, <1>5, <1>14 DEF Matched, NodeFits
  <2>2. untracked' = (untracked \ {p}) \cup {q}
    BY <1>4, <1>14 DEF Rename
  <2>3. Owed' = Owed
    <3>1. \A x \in Addresses : x # p /\ x # q => (x \in Owed' <=> x \in Owed)
      BY <1>2, <1>6, <2>2 DEF Owed
    <3>2. p \notin Owed /\ q \notin Owed' /\ (q # p => q \notin Owed)
      BY <1>7, <1>8, <1>14, <2>2 DEF Owed
    <3>3. p # q => p \notin Owed'
      BY <1>2, <1>6, <1>7 DEF Owed
    <3> QED BY <3>1, <3>2, <3>3 DEF Owed
  <2>4. StandFor(addr)'
    <3>1. \A m \in Nodes : addr[m] = ptrOf'[m] \/ \E u \in Threads : task'[u].at = "store" /\ task'[u].node = m
      BY <1>6, <1>11
    <3>2. \A u \in Threads : task'[u].at = "store" /\ task'[u].node # NoNode => addr[task'[u].node] = task'[u].moved
      BY <1>6, <1>10, <2>1
    <3> QED BY <1>1, <1>6, <2>3, <3>1, <3>2 DEF StandFor
  <2>5. q \in untracked'
    BY <2>2
  <2>6. \A u \in Threads : NodeFits(u)'
    <3> SUFFICES ASSUME NEW u \in Threads, task'[u].at \in {"move", "store"} PROVE NodeFits(u)'
      BY DEF NodeFits
    <3>1. u = t
      BY <1>10
    <3> QED BY <1>6, <2>1, <2>5, <3>1 DEF NodeFits
  <2> QED BY <1>12, <1>13, <2>4, <2>6 DEF Matched
<1>15. CASE p \notin untracked
  <2>1. n \in OnList /\ n \in Nodes /\ ptrOf[n] = p /\ addr[n] = p
    <3>1. n \in OnList /\ ptrOf[n] = p
      BY <1>3, <1>5, <1>15 DEF Matched, NodeFits
    <3> QED BY <1>0, <1>11, <3>1
  <2>2. untracked' = untracked /\ q \notin untracked
    BY <1>4, <1>8, <1>15 DEF Rename
  <2>3. Owed' = (Owed \ {p}) \cup {q}
    <3>1. \A x \in Addresses : x # p /\ x # q => (x \in Owed' <=> x \in Owed)
      BY <1>2, <1>6, <2>2 DEF Owed
    <3>2. q \in Owed'
      BY <1>5, <1>6, <2>2 DEF Owed
    <3>3. p # q => p \notin Owed'
      BY <1>2, <1>6, <1>7 DEF Owed
    <3>4. Owed \subseteq Addresses /\ Owed' \subseteq Addresses
      BY DEF Owed
    <3> QED BY <3>1, <3>2, <3>3, <3>4
  <2>4. q = p \/ q \notin Owed
    BY <1>7, <1>8 DEF Owed
  <2>5. PICK a \in [Nodes -> Addresses \cup {NoNode}] : a[n] = q /\ \A m \in Nodes \ {n} : a[m] = addr[m]
    <3> DEFINE b == [addr EXCEPT ![n] = q]
    <3>1. b \in [Nodes -> Addresses \cup {NoNode}] /\ b[n] = q /\ \A m \in Nodes \ {n} : b[m] = addr[m]
      BY <1>5, <2>1
    <3> QED BY <3>1
  <2>6. \A m \in OnList : m # n => a[m] = addr[m] /\ addr[m] # p /\ addr[m] \in Owed
    BY <1>0, <1>1, <2>1, <2>5 DEF StandFor
  <2>7. StandFor(a)'
    <3>1. \A m \in Nodes : a[m] = ptrOf'[m] \/ \E u \in Threads : task'[u].at = "store" /\ task'[u].node = m
      BY <1>6, <1>11, <2>5
    <3>2. \A u \in Threads : task'[u].at = "store" /\ task'[u].node # NoNode => a[task'[u].node] = task'[u].moved
      BY <1>6, <1>10, <2>5
    <3>3. \A m \in OnList : a[m] \in Owed'
      BY <2>3, <2>5, <2>6
    <3>4. \A m, o \in OnList : a[m] = a[o] => m = o
      BY <1>1, <2>4, <2>5, <2>6 DEF StandFor
    <3>5. \A x \in Owed' : \E m \in OnList : a[m] = x
      <4> SUFFICES ASSUME NEW x \in Owed', x # q PROVE \E m \in OnList : a[m] = x
        BY <2>1, <2>5
      <4>1. x \in Owed /\ x # p
        BY <2>3
      <4>2. PICK m \in OnList : addr[m] = x
        BY <1>1, <4>1 DEF StandFor
      <4> QED BY <2>1, <2>6, <4>1, <4>2
    <3> QED BY <1>6, <3>1, <3>2, <3>3, <3>4, <3>5 DEF StandFor
  <2>8. \A i, j \in DOMAIN list : list[j] = n /\ ptrOf[list[i]] = ptrOf[n] => i <= j
    <3> SUFFICES ASSUME NEW i \in DOMAIN list, NEW j \in DOMAIN list, list[j] = n, ptrOf[list[i]] = p PROVE i <= j
      BY <2>1
    <3>1. addr[list[i]] = p /\ list[i] \in OnList
      BY <1>0, <1>11
    <3>2. i = j
      BY <1>0, <2>6, <3>1
    <3> QED BY <1>0, <3>2
  <2>9. \A u \in Threads : NodeFits(u)'
    <3> SUFFICES ASSUME NEW u \in Threads, task'[u].at \in {"move", "store"} PROVE NodeFits(u)'
      BY DEF NodeFits
    <3>1. u = t
      BY <1>10
    <3>2. ptrOf'[n] \notin untracked' /\ n \in OnList' /\ task'[t].moved \notin untracked'
      BY <1>6, <1>15, <2>1, <2>2
    <3>3. \A i, j \in DOMAIN list' : list'[j] = n /\ ptrOf'[list'[i]] = ptrOf'[n] => i <= j
      BY <1>6, <2>8
    <3> QED BY <1>6, <3>1, <3>2, <3>3 DEF NodeFits
  <2> QED BY <1>12, <1>13, <2>7, <2>9 DEF Matched
<1> QED BY <1>14, <1>15

LEMMA ReallocUntrackedMatched ==
  ASSUME MemTyped, BlocksApart, NodesApart, Matched, NEW t \in Threads, ReallocUntracked(t)
  PROVE  Matched'
<1>0. held \in [Threads -> SUBSET Addresses]
  BY DEF MemTyped
<1>1. PICK addr \in [Nodes -> Addresses \cup {NoNode}] : StandFor(addr)
  BY DEF Matched
<1>2. \A u \in Threads \ {t} : held'[u] = held[u]
  BY StepIsOwn DEF MemStep
<1>3. ~tracking /\ UNCHANGED <<list, ptrOf, task>> /\ OnList' = OnList
  BY DEF ReallocUntracked, OnList
<1>4. OnList = {} /\ \A u \in Threads : task'[u].at \notin {"link", "move", "store"}
  <2>1. DOMAIN <<>> = {}
    OBVIOUS
  <2> QED BY <1>3, <2>1 DEF NodesApart, OnList
<1>5. Owed = {}
  BY <1>1, <1>4 DEF StandFor
<1>6. Owed' = {}
  <2>1. PICK q \in FreeAddresses :
          \/ /\ held' = [held EXCEPT ![t] = @ \union {q}]
             /\ untracked' = untracked \union {q}
          \/ \E p \in held[t] : /\ held' = [held EXCEPT ![t] = Rename(@, p, q)]
                                /\ untracked' = Rename(untracked, p, q)
    BY DEF ReallocUntracked
  <2>2. \A u \in Threads : held[u] \subseteq untracked
    BY <1>0, <1>5 DEF Owed
  <2>3. CASE held' = [held EXCEPT ![t] = @ \union {q}] /\ untracked' = untracked \union {q}
    <3>1. held'[t] = held[t] \cup {q}
      BY <1>0, <2>3
    <3> QED BY <1>2, <2>2, <2>3, <3>1 DEF Owed
  <2>4. ASSUME NEW p \in held[t], held' = [held EXCEPT ![t] = Rename(@, p, q)], untracked' = Rename(untracked, p, q)
        PROVE  Owed' = {}
    <3>1. held'[t] = (held[t] \ {p}) \cup {q}
      BY <1>0, <2>4 DEF Rename
    <3>2. untracked' = (untracked \ {p}) \cup {q}
      BY <2>2, <2>4 DEF Rename
    <3>3. \A u \in Threads \ {t} : p \notin held[u]
      BY DEF BlocksApart
    <3> QED BY <1>2, <2>2, <3>1, <3>2, <3>3 DEF Owed
  <2> QED BY <2>1, <2>3, <2>4
<1>7. StandFor(addr)'
  BY <1>1, <1>3, <1>4, <1>6 DEF StandFor
<1>8. \A u \in Threads : NodeFits(u)' /\ ~Reallocating(u)'
  BY <1>4 DEF NodeFits, Reallocating
<1> QED BY <1>4, <1>7, <1>8 DEF Matched

LEMMA NextMatched == MemInv /\ [MemNext]_memVars => (~overlapped' => Matched')
<1> SUFFICES ASSUME MemInv, [MemNext]_memVars, ~overlapped' PROVE Matched'
  OBVIOUS
<1>1. MemTyped /\ BlocksApart /\ NodesApart
  BY DEF MemInv
<1>2. Matched
  <2>1. overlapped => overlapped'
    BY DEF MemNext, InitTracker, CleanupTracker, MemStep, Allocate, AddNode, AddNodeFails, Link, Unlink, ReleaseBlock,
           FindNode, Move, MoveFails, Store, ReallocUntracked, memVars
  <2> QED BY <2>1 DEF MemInv
<1>3. CASE InitTracker \/ UNCHANGED memVars
  BY <1>2, <1>3 DEF InitTracker, memVars, Matched, StandFor, Reallocating, NodeFits, OnList, Owed
<1>4. CASE CleanupTracker
  <2>1. UNCHANGED <<task, ptrOf, held>> /\ \A u \in Threads : task'[u].at = "rest"
    BY <1>4 DEF CleanupTracker, AllResting
  <2>2. OnList' = {}
    <3>1. DOMAIN <<>> = {}
      OBVIOUS
    <3> QED BY <1>4, <3>1 DEF CleanupTracker, OnList
  <2>3. Owed' = {}
    BY <1>4 DEF CleanupTracker, Owed
  <2>4. PICK addr \in [Nodes -> Addresses \cup {NoNode}] : StandFor(addr)
    BY <1>2 DEF Matched
  <2>5. StandFor(addr)'
    BY <2>1, <2>2, <2>3, <2>4 DEF StandFor
  <2>6. \A u \in Threads : NodeFits(u)' /\ ~Reallocating(u)' /\ task'[u].at # "link"
    BY <2>1 DEF NodeFits, Reallocating
  <2> QED BY <2>5, <2>6 DEF Matched
<1>5. ASSUME NEW t \in Threads, MemStep(t) PROVE Matched'
  <2>1. task \in [Threads -> Tasks] /\ \A u \in Threads \ {t} : task'[u] = task[u]
    BY <1>1, <1>5, StepIsOwn DEF MemTyped
  <2>2. CASE Allocate(t)
    <3>1. PICK p \in Addresses, kind \in {"malloc", "calloc", "strdup"} : task' = [task EXCEPT ![t] = Allocating(kind, p)]
      BY <2>2 DEF Allocate, FreeAddresses
    <3>2. task[t].at = "rest" /\ task'[t].at = "node" /\ UNCHANGED <<list, ptrOf, held, untracked>>
      BY <2>1, <2>2, <3>1, TaskStates DEF Allocate
    <3> QED BY <1>1, <1>2, <2>1, <3>2, AsideMatched
  <2>3. CASE AddNodeFails(t) \/ ReleaseBlock(t) \/ MoveFails(t)
    <3>1. task[t].at # "store" /\ task'[t].at = "rest" /\ UNCHANGED <<list, ptrOf, held, untracked>>
      BY <2>1, <2>3, TaskStates DEF AddNodeFails, ReleaseBlock, MoveFails
    <3> QED BY <1>1, <1>2, <2>1, <3>1, AsideMatched
  <2>4. CASE AddNode(t)
    BY <1>1, <1>2, <2>4, AddNodeMatched
  <2>5. CASE Link(t)
    BY <1>1, <1>2, <2>5, LinkMatched
  <2>6. CASE Unlink(t)
    BY <1>1, <1>2, <2>6, UnlinkMatched
  <2>7. CASE FindNode(t)
    BY <1>1, <1>2, <2>7, FindNodeMatched
  <2>8. CASE Move(t)
    BY <1>1, <1>2, <2>8, MoveMatched
  <2>9. CASE Store(t)
    BY <1>1, <1>2, <2>9, StoreMatched
  <2>10. CASE ReallocUntracked(t)
    BY <1>1, <1>2, <2>10, ReallocUntrackedMatched
  <2> QED BY <1>5, <2>2, <2>3, <2>4, <2>5, <2>6, <2>7, <2>8, <2>9, <2>10 DEF MemStep
<1> QED BY <1>3, <1>4, <1>5 DEF MemNext

LEMMA MemInvariant == MemSpec => []MemInv
<1>1. MemInv /\ [MemNext]_memVars => MemInv'
  <2> SUFFICES ASSUME MemInv, [MemNext]_memVars PROVE MemInv'
    OBVIOUS
  <2>1. MemTyped /\ BlocksApart /\ NodesApart
    BY DEF MemInv
  <2> QED BY <2>1, NextMemTyped, NextBlocksApart, NextNodesApart, NextMatched DEF MemInv
<1> QED BY <1>1, InitMemInv, PTL DEF MemSpec

(* What the tracker would report is what the program holds, each block once, *)
(* for any number of threads, addresses and nodes: it is the invariant above *)
(* when no call is under way, where each node's address is its own, and the  *)
(* length of the list is the number of blocks because the addresses of the   *)
(* nodes count them (c_rest_mem.c:155-331).                                  *)
THEOREM LeaksAreWhatIsHeld == MemSpec => []TrackedExactly
<1>1. ASSUME MemInv PROVE TrackedExactly
  <2> SUFFICES ASSUME AllResting, ~overlapped PROVE /\ {ptrOf[n] : n \in OnList} = (UNION {held[t] : t \in Threads}) \ untracked
                                                    /\ LeakCount = Cardinality((UNION {held[t] : t \in Threads}) \ untracked)
    BY DEF TrackedExactly
  <2>1. MemTyped /\ NodesApart /\ Matched
    BY <1>1 DEF MemInv
  <2>2. PICK addr \in [Nodes -> Addresses \cup {NoNode}] : StandFor(addr)
    BY <2>1 DEF Matched
  <2>3. (UNION {held[t] : t \in Threads}) \ untracked = Owed
    <3>1. \A t \in Threads : held[t] \subseteq Addresses
      BY <2>1 DEF MemTyped
    <3> DEFINE U == UNION {held[t] : t \in Threads}
    <3>2. \A p \in U : \E t \in Threads : p \in held[t]
      OBVIOUS
    <3>3. \A t \in Threads : held[t] \subseteq U
      OBVIOUS
    <3> HIDE DEF U
    <3>4. U \ untracked \subseteq Owed
      BY <3>1, <3>2 DEF Owed
    <3>5. Owed \subseteq U \ untracked
      BY <3>3 DEF Owed
    <3>6. U \ untracked = Owed
      BY <3>4, <3>5
    <3> QED BY <3>6 DEF U
  <2>4. Len(list) \in Nat /\ DOMAIN list = 1 .. Len(list) /\ OnList \subseteq Nodes
    BY <2>1, LenProperties, ElementOfSeq DEF MemTyped, OnList
  <2>5. \A n \in OnList : addr[n] = ptrOf[n]
    BY <2>2, <2>4 DEF StandFor, AllResting
  <2>6. /\ \A n \in OnList : ptrOf[n] \in Owed
        /\ \A m, n \in OnList : ptrOf[m] = ptrOf[n] => m = n
        /\ \A p \in Owed : \E n \in OnList : ptrOf[n] = p
    BY <2>2, <2>5 DEF StandFor
  <2>7. {ptrOf[n] : n \in OnList} = Owed
    BY <2>6
  <2>8. LeakCount = Cardinality(Owed)
    <3> DEFINE f == [i \in 1 .. Len(list) |-> ptrOf[list[i]]]
    <3>1. \A i \in 1 .. Len(list) : list[i] \in OnList
      BY <2>4 DEF OnList
    <3>2. f \in [1 .. Len(list) -> Owed]
      BY <2>6, <3>1
    <3>3. \A i, j \in 1 .. Len(list) : f[i] = f[j] => i = j
      BY <2>1, <2>4, <2>6, <3>1 DEF NodesApart
    <3>4. \A p \in Owed : \E i \in 1 .. Len(list) : f[i] = p
      BY <2>4, <2>6 DEF OnList
    <3> HIDE DEF f
    <3>5. f \in Bijection(1 .. Len(list), Owed)
      BY <3>2, <3>3, <3>4, Fun_IsBij
    <3>6. ExistsBijection(1 .. Len(list), Owed)
      BY <3>5 DEF ExistsBijection
    <3>7. Cardinality(Owed) = Len(list)
      BY <2>4, <3>6, FS_CountingElements
    <3> QED BY <3>7 DEF LeakCount
  <2> QED BY <2>3, <2>7, <2>8
<1> QED BY <1>1, MemInvariant, PTL

(* A realloc writes into a node that is still there: whatever the other      *)
(* threads free meanwhile, and though the realloc holds no mutex from its    *)
(* search on, the node it found is on the list until it has written it       *)
(* (c_rest_mem.c:308-320).                                                   *)
THEOREM FoundNodeIsAlive == MemSpec => []NodeAlive
<1>1. ASSUME MemInv PROVE NodeAlive
  BY <1>1, AtWorkOnList DEF MemInv, NodeAlive
<1> QED BY <1>1, MemInvariant, PTL

-----------------------------------------------------------------------------
(* The rate limiter: its types, and its limit for threads that come in       *)
(* order, for any threads, clients, capacity and rate.                       *)

Buckets == [tokens : 0 .. Capacity, lastRefill : 0 .. MaxTime]
Calls == [at : {"lock"}, client : Clients, need : Needs, now : 0 .. MaxTime]

(* What was granted and what is left came from the capacity and the rate,    *)
(* up to the last refill; and no time is ahead of the clock.                 *)
Account(c) ==
  buckets[c] # NoBucket =>
    /\ born[c] <= buckets[c].lastRefill /\ buckets[c].lastRefill <= clock
    /\ granted[c] + buckets[c].tokens <= Capacity + FillRate * (buckets[c].lastRefill - born[c])

TimesPast == \A t \in Callers : check[t].at = "lock" => check[t].now <= clock

LimitInv ==
  /\ LimiterTypeOK
  /\ TimesPast
  /\ ~stale => \A c \in Clients : Account(c)

-----------------------------------------------------------------------------
(* A number below the modulus is its own remainder.                          *)
LEMMA SmallRemainder ==
  ASSUME NEW n \in Nat, NEW m \in Nat, n < m
  PROVE  n % m = n
  BY SMT

(* A rate over two stretches of time is the rate over both.                  *)
LEMMA RateAdds ==
  ASSUME NEW r \in Nat, NEW a \in Int, NEW b \in Int
  PROVE  r * a + r * b = r * (a + b)
  BY SMT

(* A rate over a longer time brings no less.                                 *)
LEMMA RateGrows ==
  ASSUME NEW r \in Nat, NEW a \in Int, NEW b \in Int, a <= b
  PROVE  r * a <= r * b
  <1>1. r * a + r * (b - a) = r * b
    BY RateAdds, a + (b - a) = b
  <1>2. b - a \in Nat
    OBVIOUS
  <1>3. r * (b - a) \in Nat
    BY <1>2, SMT
  <1> QED
    BY <1>1, <1>3, SMT

(* A refill in order: what comes in is no more than the rate over the time   *)
(* since the last one, and the time of the bucket moves on with it.          *)
LEMMA RefillInOrder ==
  ASSUME NEW b \in Buckets, NEW now \in 0 .. MaxTime, b.lastRefill <= now
  PROVE  LET r == Refilled(b, now, now - b.lastRefill) IN
         /\ r \in Buckets
         /\ b.lastRefill <= r.lastRefill /\ r.lastRefill <= now
         /\ r.tokens <= b.tokens + FillRate * (r.lastRefill - b.lastRefill)
  <1> DEFINE d == now - b.lastRefill
             r == Refilled(b, now, d)
  <1>1. d \in 0 .. MaxTime /\ b.tokens \in 0 .. Capacity /\ b.lastRefill \in 0 .. MaxTime
    BY LimitAssumption DEF Buckets
  <1>2. d * FillRate = FillRate * d /\ FillRate * d \in Nat /\ FillRate * d <= FillRate * MaxTime
    <2>1. d * FillRate = FillRate * d /\ FillRate * d \in Nat
      BY <1>1, LimitAssumption, SMT
    <2>2. FillRate * d <= FillRate * MaxTime
      BY <1>1, RateGrows, LimitAssumption
    <2> QED
      BY <2>1, <2>2
  <1> DEFINE f == FillRate * d
  <1> HIDE DEF f
  <1>3. f \in Nat /\ b.tokens + f \in Nat /\ f < Modulus /\ b.tokens + f < Modulus
    <2>1. FillRate * MaxTime \in Nat
      BY LimitAssumption, SMT
    <2> QED
      BY <1>1, <1>2, <2>1, LimitAssumption, WidthAssumption DEF f
  <1>4. (d * FillRate) % Modulus = f /\ (b.tokens + f) % Modulus = b.tokens + f
    BY <1>2, <1>3, SmallRemainder, WidthAssumption DEF f
  <1>5. CASE f = 0
    <2>1. r = b
      BY <1>4, <1>5 DEF Refilled
    <2>2. FillRate * (b.lastRefill - b.lastRefill) = 0
      BY <1>1, LimitAssumption, SMT
    <2> QED
      BY <2>1, <2>2, <1>1
  <1>6. CASE f # 0
    <2> DEFINE n == IF b.tokens + f > Capacity THEN Capacity ELSE b.tokens + f
    <2>1. r = Bucket(n, now)
      BY <1>4, <1>6 DEF Refilled
    <2>2. n \in 0 .. Capacity /\ n <= b.tokens + f
      BY <1>1, <1>3, LimitAssumption
    <2>3. r.tokens = n /\ r.lastRefill = now
      BY <2>1 DEF Bucket
    <2>4. r \in Buckets
      BY <2>1, <2>2 DEF Bucket, Buckets
    <2> QED
      BY <2>2, <2>3, <2>4 DEF f
  <1> QED
    BY <1>5, <1>6, <1>3

(* Whatever the build makes of the difference of two times, a refill leaves  *)
(* a bucket.                                                                 *)
LEMMA RefillIsBucket ==
  ASSUME NEW b \in Buckets, NEW now \in 0 .. MaxTime, NEW e \in ElapsedOf(now - b.lastRefill)
  PROVE  Refilled(b, now, e) \in Buckets
  <1> DEFINE add == (e * FillRate) % Modulus
             sum == (b.tokens + add) % Modulus
  <1>1. b.tokens \in 0 .. Capacity /\ b.lastRefill \in 0 .. MaxTime
    BY DEF Buckets
  <1>2. e \in Nat
    BY <1>1, LimitAssumption, WidthAssumption DEF ElapsedOf
  <1>3. e * FillRate \in Nat
    BY <1>2, LimitAssumption, SMT
  <1>4. add \in Nat
    BY <1>3, WidthAssumption, LimitAssumption
  <1>5. sum \in Nat
    <2>1. b.tokens + add \in Nat
      BY <1>1, <1>4, LimitAssumption
    <2> QED
      BY <2>1, WidthAssumption, LimitAssumption
  <1>6. (IF sum > Capacity THEN Capacity ELSE sum) \in 0 .. Capacity
    BY <1>5, LimitAssumption
  <1>7. Bucket(IF sum > Capacity THEN Capacity ELSE sum, now) \in Buckets
    BY <1>6 DEF Bucket, Buckets
  <1> QED
    BY <1>7 DEF Refilled

-----------------------------------------------------------------------------
(* A record is not the missing bucket.                                       *)
LEMMA BucketIsThere == ASSUME NEW b \in Buckets PROVE b # NoBucket
  BY NoBucketAssumption, LimitAssumption DEF Buckets

LEMMA InitLimitInv == LimiterInit => LimitInv
  <1> SUFFICES ASSUME LimiterInit PROVE LimitInv
    OBVIOUS
  <1>1. \A t \in Callers : check[t] = Idle
    BY DEF LimiterInit
  <1>2. \A c \in Clients : buckets[c] = NoBucket
    BY DEF LimiterInit, NoBuckets
  <1>3. LimiterTypeOK
    <2>1. clock \in 0 .. MaxTime
      BY LimitAssumption DEF LimiterInit
    <2>5. initialized = FALSE /\ stale = FALSE
      BY DEF LimiterInit
    <2>2. buckets \in [Clients -> [tokens : 0 .. Capacity, lastRefill : 0 .. MaxTime] \cup {NoBucket}]
      BY DEF LimiterInit, NoBuckets
    <2>3. check \in [Callers -> {Idle} \cup [at : {"lock"}, client : Clients, need : Needs, now : 0 .. MaxTime]]
      BY DEF LimiterInit
    <2>4. born \in [Clients -> 0 .. MaxTime] /\ granted \in [Clients -> Nat]
      BY LimitAssumption DEF LimiterInit
    <2> QED
      BY <2>1, <2>2, <2>3, <2>4, <2>5 DEF LimiterTypeOK
  <1>4. TimesPast
    BY <1>1 DEF TimesPast, Idle
  <1> QED
    BY <1>2, <1>3, <1>4 DEF LimitInv, Account

(* The call a thread is in, under the mutex.                                 *)
LEMMA CallType ==
  ASSUME LimitInv, NEW t \in Callers, check[t].at = "lock"
  PROVE  check[t] \in Calls /\ check[t].now <= clock
  BY DEF LimitInv, LimiterTypeOK, TimesPast, Calls, Idle

(* The accounts that a step which only the clock or the threads take leave.  *)
LEMMA OthersKept ==
  ASSUME LimitInv, UNCHANGED <<buckets, born, granted, stale>>, clock' \in 0 .. MaxTime, clock <= clock'
  PROVE  ~stale' => \A c \in Clients : Account(c)'
  <1> SUFFICES ASSUME ~stale, NEW c \in Clients, buckets[c] # NoBucket
               PROVE  buckets[c].lastRefill <= clock' /\ Account(c)
    BY DEF Account
  <1>1. buckets[c] \in Buckets /\ clock \in 0 .. MaxTime
    BY DEF LimitInv, LimiterTypeOK, Buckets
  <1>2. Account(c)
    BY DEF LimitInv
  <1> QED
    BY <1>1, <1>2, LimitAssumption DEF Account, Buckets

(* The end of a check: b is the client's bucket as the refill left it, made  *)
(* at time t0, and g what had been granted since.                            *)
LEMMA SpendTypes ==
  ASSUME LimitInv, NEW c \in Clients, NEW n \in Needs, NEW b \in Buckets, Spend(c, n, b)
  PROVE  /\ buckets' \in [Clients -> Buckets \cup {NoBucket}]
         /\ granted' \in [Clients -> Nat]
         /\ \A d \in Clients \ {c} : buckets'[d] = buckets[d] /\ granted'[d] = granted[d]
         /\ buckets'[c] \in Buckets /\ buckets'[c].lastRefill = b.lastRefill
         /\ granted'[c] + buckets'[c].tokens
              = (IF buckets[c] = NoBucket THEN 0 ELSE granted[c]) + b.tokens
  <1> DEFINE g == IF buckets[c] = NoBucket THEN 0 ELSE granted[c]
  <1>1. /\ buckets \in [Clients -> Buckets \cup {NoBucket}] /\ granted \in [Clients -> Nat]
        /\ g \in Nat /\ n \in Nat
    BY LimitAssumption DEF LimitInv, LimiterTypeOK, Buckets
  <1>2. b.tokens \in 0 .. Capacity /\ b.lastRefill \in 0 .. MaxTime
    BY DEF Buckets
  <1>3. CASE b.tokens >= n
    <2> DEFINE r == Bucket(b.tokens - n, b.lastRefill)
    <2>1. r \in Buckets /\ r.tokens = b.tokens - n /\ r.lastRefill = b.lastRefill
      BY <1>1, <1>2, <1>3, LimitAssumption DEF Bucket, Buckets
    <2>2. buckets' = [buckets EXCEPT ![c] = r] /\ granted' = [granted EXCEPT ![c] = g + n]
      BY <1>3 DEF Spend
    <2> HIDE DEF r, g
    <2>3. buckets'[c] = r /\ granted'[c] = g + n
      BY <1>1, <2>2
    <2>4. g + n \in Nat /\ g + n + (b.tokens - n) = g + b.tokens
      BY <1>1, <1>2, LimitAssumption
    <2> QED
      BY <1>1, <2>1, <2>2, <2>3, <2>4 DEF g
  <1>4. CASE ~(b.tokens >= n)
    <2>1. buckets' = [buckets EXCEPT ![c] = b] /\ granted' = [granted EXCEPT ![c] = g]
      BY <1>4 DEF Spend
    <2> QED
      BY <1>1, <2>1
  <1> QED
    BY <1>3, <1>4

LEMMA KnownKeeps ==
  ASSUME LimitInv, NEW t \in Callers, CheckKnown(t)
  PROVE  LimitInv'
  <1> DEFINE c == check[t].client
             now == check[t].now
             b == buckets[c]
             d == now - b.lastRefill
  <1>1. check[t] \in Calls /\ now <= clock /\ c \in Clients /\ check[t].need \in Needs /\ now \in 0 .. MaxTime
    BY CallType DEF CheckKnown, Calls
  <1>2. b \in Buckets /\ b # NoBucket
    BY <1>1 DEF CheckKnown, LimitInv, LimiterTypeOK, Buckets
  <1>3. PICK e \in ElapsedOf(d) : Spend(c, check[t].need, Refilled(b, now, e))
    BY DEF CheckKnown
  <1> DEFINE r == Refilled(b, now, e)
  <1>4. r \in Buckets
    BY <1>1, <1>2, <1>3, RefillIsBucket
  <1> HIDE DEF r
  <1>5. Spend(c, check[t].need, r)
    BY <1>3 DEF r
  <1>6. /\ buckets' \in [Clients -> Buckets \cup {NoBucket}] /\ granted' \in [Clients -> Nat]
        /\ \A o \in Clients \ {c} : buckets'[o] = buckets[o] /\ granted'[o] = granted[o]
        /\ buckets'[c] \in Buckets /\ buckets'[c].lastRefill = r.lastRefill
        /\ granted'[c] + buckets'[c].tokens = granted[c] + r.tokens
    BY <1>1, <1>2, <1>4, <1>5, SpendTypes
  <1>7. LimiterTypeOK'
    BY <1>6 DEF CheckKnown, LimitInv, LimiterTypeOK, Buckets
  <1>8. TimesPast'
    BY DEF CheckKnown, LimitInv, TimesPast, LimiterTypeOK, Idle
  <1>9. ASSUME ~stale', NEW o \in Clients PROVE Account(o)'
    <2>1. ~stale /\ ~(d < 0) /\ UNCHANGED <<clock, born>>
      BY <1>9 DEF CheckKnown
    <2>2. Account(o) /\ Account(c)
      BY <1>1, <2>1 DEF LimitInv
    <2>3. CASE o # c
      BY <1>6, <2>1, <2>2, <2>3 DEF Account
    <2>4. CASE o = c
      <3>1. b.lastRefill \in 0 .. MaxTime /\ b.lastRefill <= now /\ e = d
        BY <1>1, <1>2, <1>3, <2>1, LimitAssumption DEF Buckets, ElapsedOf
      <3>2. /\ b.lastRefill <= r.lastRefill /\ r.lastRefill <= now
            /\ r.tokens <= b.tokens + FillRate * (r.lastRefill - b.lastRefill)
        BY <1>1, <1>2, <3>1, RefillInOrder DEF r
      <3>3. /\ born[c] \in Nat /\ clock \in Nat /\ granted[c] \in Nat /\ b.tokens \in Nat
            /\ r.tokens \in Nat /\ r.lastRefill \in Nat /\ now \in Nat /\ b.lastRefill \in Nat
        BY <1>1, <1>2, <1>4, LimitAssumption DEF LimitInv, LimiterTypeOK, Buckets
      <3>4. /\ born[c] <= b.lastRefill
            /\ granted[c] + b.tokens <= Capacity + FillRate * (b.lastRefill - born[c])
        BY <1>2, <2>2 DEF Account
      <3> DEFINE x == FillRate * (b.lastRefill - born[c])
                 y == FillRate * (r.lastRefill - b.lastRefill)
                 z == FillRate * (r.lastRefill - born[c])
      <3>5. x + y = z
        <4>1. (b.lastRefill - born[c]) + (r.lastRefill - b.lastRefill) = r.lastRefill - born[c]
          BY <3>3
        <4> QED
          BY <3>3, <4>1, RateAdds, LimitAssumption
      <3>6. x \in Int /\ y \in Int /\ z \in Int
        BY <3>3, LimitAssumption, SMT
      <3> HIDE DEF x, y, z
      <3>7. granted[c] + r.tokens <= Capacity + z
        <4>1. r.tokens <= b.tokens + y /\ granted[c] + b.tokens <= Capacity + x
          BY <3>2, <3>4 DEF x, y
        <4> QED
          BY <3>3, <3>5, <3>6, <4>1, LimitAssumption
      <3>8. born[c] <= r.lastRefill /\ r.lastRefill <= clock
        BY <1>1, <3>2, <3>3, <3>4
      <3> QED
        BY <1>6, <2>1, <2>4, <3>7, <3>8 DEF Account, z
    <2> QED
      BY <2>3, <2>4
  <1> QED
    BY <1>7, <1>8, <1>9 DEF LimitInv

LEMMA NewKeeps ==
  ASSUME LimitInv, NEW t \in Callers, CheckNew(t)
  PROVE  LimitInv'
  <1> DEFINE c == check[t].client
             now == check[t].now
             r == Bucket(Capacity, now)
  <1>1. check[t] \in Calls /\ now <= clock /\ c \in Clients /\ check[t].need \in Needs /\ now \in 0 .. MaxTime
    BY CallType DEF CheckNew, Calls
  <1>2. buckets[c] = NoBucket
    BY DEF CheckNew
  <1>3. r \in Buckets /\ r.tokens = Capacity /\ r.lastRefill = now
    BY <1>1, LimitAssumption DEF Bucket, Buckets
  <1>4. Spend(c, check[t].need, r)
    BY DEF CheckNew
  <1> HIDE DEF r
  <1>5. /\ buckets' \in [Clients -> Buckets \cup {NoBucket}] /\ granted' \in [Clients -> Nat]
        /\ \A o \in Clients \ {c} : buckets'[o] = buckets[o] /\ granted'[o] = granted[o]
        /\ buckets'[c] \in Buckets /\ buckets'[c].lastRefill = now
        /\ granted'[c] + buckets'[c].tokens = 0 + Capacity
    BY <1>1, <1>2, <1>3, <1>4, SpendTypes
  <1>6. born' = [born EXCEPT ![c] = now] /\ born \in [Clients -> 0 .. MaxTime] /\ UNCHANGED <<clock, initialized, stale>>
    BY DEF CheckNew, LimitInv, LimiterTypeOK
  <1>7. LimiterTypeOK'
    <2>1. check' \in [Callers -> {Idle} \cup [at : {"lock"}, client : Clients, need : Needs, now : 0 .. MaxTime]]
      BY DEF CheckNew, LimitInv, LimiterTypeOK
    <2>2. born' \in [Clients -> 0 .. MaxTime]
      BY <1>1, <1>6
    <2> QED
      BY <1>5, <1>6, <2>1, <2>2 DEF LimitInv, LimiterTypeOK, Buckets
  <1>8. TimesPast'
    BY DEF CheckNew, LimitInv, TimesPast, LimiterTypeOK, Idle
  <1>9. ASSUME ~stale', NEW o \in Clients PROVE Account(o)'
    <2>1. Account(o)
      BY <1>6, <1>9 DEF LimitInv
    <2>2. CASE o # c
      BY <1>5, <1>6, <2>1, <2>2 DEF Account
    <2>3. CASE o = c
      <3>1. born'[c] = now /\ now - now = 0 /\ FillRate * 0 = 0
        BY <1>1, <1>6, LimitAssumption
      <3> QED
        BY <1>1, <1>5, <1>6, <2>3, <3>1, LimitAssumption DEF Account
    <2> QED
      BY <2>2, <2>3
  <1> QED
    BY <1>7, <1>8, <1>9 DEF LimitInv

-----------------------------------------------------------------------------
(* Each step keeps the invariant.                                            *)
LEMMA StepKeeps == LimitInv /\ [LimiterNext]_limiterVars => LimitInv'
  <1> SUFFICES ASSUME LimitInv, [LimiterNext]_limiterVars PROVE LimitInv'
    OBVIOUS
  <1>1. CASE Tick
    <2>1. LimiterTypeOK'
      BY <1>1, LimitAssumption DEF Tick, LimitInv, LimiterTypeOK
    <2>2. TimesPast'
      <3>1. \A t \in Callers : check[t].at = "lock" => check[t].now \in 0 .. MaxTime
        BY CallType DEF Calls
      <3> QED
        BY <1>1, <3>1, LimitAssumption DEF Tick, LimitInv, TimesPast, LimiterTypeOK
    <2>3. clock' \in 0 .. MaxTime /\ clock <= clock' /\ UNCHANGED <<buckets, born, granted, stale>>
      BY <1>1, <2>1, LimitAssumption DEF Tick, LimitInv, LimiterTypeOK
    <2> QED
      BY <2>1, <2>2, <2>3, OthersKept DEF LimitInv
  <1>2. CASE InitLimiter \/ DestroyLimiter
    <2>1. LimiterTypeOK'
      BY <1>2 DEF InitLimiter, DestroyLimiter, LimitInv, LimiterTypeOK, NoBuckets
    <2>2. \A c \in Clients : buckets'[c] = NoBucket
      BY <1>2 DEF InitLimiter, DestroyLimiter, NoBuckets
    <2>3. TimesPast'
      BY <1>2 DEF InitLimiter, DestroyLimiter, LimitInv, TimesPast
    <2> QED
      BY <2>1, <2>2, <2>3 DEF LimitInv, Account
  <1>3. ASSUME NEW t \in Callers, ReadClock(t) PROVE LimitInv'
    <2>1. PICK c \in Clients, n \in Needs : check' = [check EXCEPT ![t] = Locking(c, n, clock)]
      BY <1>3 DEF ReadClock
    <2>2. clock \in 0 .. MaxTime /\ UNCHANGED <<clock, initialized, buckets, born, granted, stale>>
      BY <1>3 DEF ReadClock, LimitInv, LimiterTypeOK
    <2>3. Locking(c, n, clock) \in Calls /\ Locking(c, n, clock).now = clock
      BY <2>2 DEF Locking, Calls
    <2>4. LimiterTypeOK'
      BY <2>1, <2>2, <2>3 DEF LimitInv, LimiterTypeOK, Calls
    <2>5. TimesPast'
      <3> SUFFICES ASSUME NEW u \in Callers, check'[u].at = "lock" PROVE check'[u].now <= clock
        BY <2>2 DEF TimesPast
      <3>1. check'[u] = IF u = t THEN Locking(c, n, clock) ELSE check[u]
        BY <2>1 DEF LimitInv, LimiterTypeOK
      <3> QED
        BY <2>2, <2>3, <3>1, LimitAssumption DEF LimitInv, TimesPast
    <2>6. clock' \in 0 .. MaxTime /\ clock <= clock'
      BY <2>2, LimitAssumption
    <2> QED
      BY <2>2, <2>4, <2>5, <2>6, OthersKept DEF LimitInv
  <1>4. ASSUME NEW t \in Callers, CheckNoMemory(t) PROVE LimitInv'
    <2>1. clock \in 0 .. MaxTime /\ UNCHANGED <<clock, initialized, buckets, born, granted, stale>>
      BY <1>4 DEF CheckNoMemory, LimitInv, LimiterTypeOK
    <2>2. LimiterTypeOK' /\ TimesPast'
      BY <1>4, <2>1 DEF CheckNoMemory, LimitInv, LimiterTypeOK, TimesPast, Idle
    <2>3. clock' \in 0 .. MaxTime /\ clock <= clock'
      BY <2>1, LimitAssumption
    <2> QED
      BY <2>1, <2>2, <2>3, OthersKept DEF LimitInv
  <1>5. CASE UNCHANGED limiterVars
    BY <1>5 DEF limiterVars, LimitInv, LimiterTypeOK, TimesPast, Account
  <1> QED
    BY <1>1, <1>2, <1>3, <1>4, <1>5, KnownKeeps, NewKeeps DEF LimiterNext

(* The invariant says more than the limit: the time since the last refill    *)
(* only adds to what may have been granted.                                  *)
LEMMA InvGivesLimit == LimitInv => LimitHoldsInOrder
  <1> SUFFICES ASSUME LimitInv, ~stale, NEW c \in Clients, buckets[c] # NoBucket
               PROVE  granted[c] <= Capacity + FillRate * (clock - born[c])
    BY DEF LimitHoldsInOrder, LimitHolds
  <1>1. /\ buckets[c].tokens \in Nat /\ buckets[c].lastRefill \in Nat /\ clock \in Nat
        /\ born[c] \in Nat /\ granted[c] \in Nat
    BY LimitAssumption DEF LimitInv, LimiterTypeOK
  <1>2. /\ buckets[c].lastRefill <= clock
        /\ granted[c] + buckets[c].tokens <= Capacity + FillRate * (buckets[c].lastRefill - born[c])
    BY DEF LimitInv, Account
  <1> DEFINE x == FillRate * (buckets[c].lastRefill - born[c])
             y == FillRate * (clock - born[c])
  <1>3. x <= y
    <2>1. buckets[c].lastRefill - born[c] <= clock - born[c]
      BY <1>1, <1>2
    <2> QED
      BY <1>1, <2>1, RateGrows, LimitAssumption
  <1>4. x \in Int /\ y \in Int
    BY <1>1, LimitAssumption, SMT
  <1>5. granted[c] + buckets[c].tokens <= Capacity + x
    BY <1>2
  <1> HIDE DEF x, y
  <1>6. granted[c] <= Capacity + y
    BY <1>1, <1>3, <1>4, <1>5, LimitAssumption
  <1> QED
    BY <1>6 DEF y

(* The state of the limiter has its types in every behaviour, whatever the   *)
(* build makes of a negative time.                                           *)
THEOREM LimiterTypeCorrect == LimiterSpec => []LimiterTypeOK
  <1>1. LimitInv => LimiterTypeOK
    BY DEF LimitInv
  <1> QED
    BY <1>1, InitLimitInv, StepKeeps, PTL DEF LimiterSpec

(* As long as no thread reaches the mutex with a time older than the last    *)
(* refill, no client is granted more than the capacity and the rate allow.   *)
THEOREM LimitInOrder == LimiterSpec => []LimitHoldsInOrder
  BY InitLimitInv, StepKeeps, InvGivesLimit, PTL DEF LimiterSpec
-----------------------------------------------------------------------------
(* A behaviour of Services is one of each component, so what is proved of a  *)
(* component holds where the run composes it with the others.                *)
THEOREM ServicesRunTheirComponents == ServicesSpec => MemSpec /\ LimiterSpec /\ HotReloadSpec /\ SerialSpec
<1>1. ServicesInit => MemInit /\ LimiterInit /\ HotReloadInit /\ SerialInit
  BY DEF ServicesInit
<1>2. [ServicesNext]_servicesVars =>
        [MemNext]_memVars /\ [LimiterNext]_limiterVars /\ [HotReloadNext]_hotReloadVars /\ [SerialNext]_serialVars
  BY DEF ServicesNext, servicesVars
<1> QED BY <1>1, <1>2, PTL DEF ServicesSpec, MemSpec, LimiterSpec, HotReloadSpec, SerialSpec
=============================================================================
