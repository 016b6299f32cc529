------------------------ MODULE MultiThreadServerProofs ------------------------
(***************************************************************************)
(* Proofs about MultiThreadServer, for any number of connections, any size *)
(* of the table of workers and any number of calls of c_rest_run.          *)
(***************************************************************************)
EXTENDS MultiThreadServer, FiniteSetTheorems, WellFoundedInduction, TLAPS

USE WorkersAssumption, SlotsAssumption, RunsAssumption, KernelAssumption

CtlPcs == {"idle", "stopJoin", "stopWait", "stopReset", "stopClose", "over"}
RecordPcs == {"store", "slotLeft", "countLeft"}
JoinPcs == {"runJoin", "destroyJoin"}
WaitPcs == {"runWait", "destroyWait"}

(* Each of the two threads is in a call of its own. *)
Places == pc["main"] \in MainPcs /\ pc["ctl"] \in CtlPcs

(* The kernel's table: one descriptor at most is the listening socket, and   *)
(* every other that is in use belongs to a worker that has been accepted.    *)
Sockets ==
  /\ \A f \in Fds : fd[f] \in {"socket", "listen"} => f = sock
  /\ \A f \in Fds : fd[f] \in Workers => wfd[fd[f]] = f /\ wstate[fd[f]] # "unborn"
  /\ pc["main"] = "create" => sock = NoFd

(* What the loop variables may index: worker_count is read in one step and   *)
(* written in another, and the other thread may have reset it in between.    *)
Indices ==
  /\ pc["main"] \in RecordPcs \cup {"spawn", "record"} => fresh \in Workers
  /\ pc["main"] \in RecordPcs \cup WaitPcs => idx["main"] <= MaxSlots
  /\ pc["ctl"] = "stopWait" => idx["ctl"] <= MaxSlots

Typed == TypeOK /\ Places /\ Sockets /\ Indices
-----------------------------------------------------------------------------
LEMMA Naturals1 == Cardinality(Workers) \in Nat /\ NoFd \notin Fds /\ Fds \subseteq Nat /\ IsFiniteSet(Fds)
                   /\ Cardinality(Fds) = Cardinality(Workers) + 1
<1>1. Cardinality(Workers) \in Nat
  BY FS_CardinalityType
<1>2. IsFiniteSet(Fds) /\ Cardinality(Fds) = Cardinality(Workers) + 1
  BY <1>1, FS_Interval DEF Fds
<1> QED BY <1>1, <1>2 DEF Fds, NoFd

(* POSIX hands out the lowest descriptor, if there is one. *)
LEMMA LowestIsFree == Free # {} => Lowest \in Free
<1> SUFFICES ASSUME Free # {} PROVE \E f \in Free : \A g \in Free : f <= g
  BY DEF Lowest
<1>1. Free \subseteq Nat
  BY Naturals1 DEF Free
<1>2. PICK f \in Free : \A g \in Free : ~(<<g, f>> \in OpToRel(<, Nat))
  BY <1>1, NatLessThanWellFounded, WFMin
<1>3. \A g \in Free : ~(g < f)
  BY <1>1, <1>2 DEF OpToRel
<1> QED BY <1>1, <1>3

(* More descriptors than users: two descriptors have the same user. *)
LEMMA SharedUser ==
  ASSUME NEW T, IsFiniteSet(T), Cardinality(T) = Cardinality(Workers), NEW user \in [Fds -> T]
  PROVE  \E x, y \in Fds : x # y /\ user[x] = user[y]
<1>1. Cardinality(T) < Cardinality(Fds) /\ IsFiniteSet(Fds)
  BY Naturals1
<1> QED BY <1>1, FS_PigeonHole

(* There are descriptors enough for run's socket ... *)
LEMMA SocketFits ==
  ASSUME Typed, pc["main"] = "create"
  PROVE  Lowest \in Free
<1> SUFFICES ASSUME Free = {} PROVE FALSE
  BY LowestIsFree
<1>1. \A f \in Fds : fd[f] \in Workers /\ wfd[fd[f]] = f
  <2> SUFFICES ASSUME NEW f \in Fds PROVE fd[f] \in Workers
    BY DEF Typed, Sockets
  <2>1. fd[f] # "free" /\ f # sock
    BY Naturals1 DEF Free, Typed, Sockets
  <2> QED BY <2>1 DEF Typed, TypeOK, Sockets
<1>2. PICK user : user = fd
  OBVIOUS
<1>3. user \in [Fds -> Workers]
  BY <1>1, <1>2 DEF Typed, TypeOK
<1>4. PICK x, y \in Fds : x # y /\ user[x] = user[y]
  BY <1>3, SharedUser
<1> QED BY <1>1, <1>2, <1>4

(* ... and for the connection of a worker that has none. *)
LEMMA ConnectionFits ==
  ASSUME Typed, NEW w \in Workers, wstate[w] = "unborn"
  PROVE  Lowest \in Free
<1> SUFFICES ASSUME Free = {} PROVE FALSE
  BY LowestIsFree
<1> DEFINE T == (Workers \ {w}) \cup {NoWorker}
<1>1. \A f \in Fds : \/ fd[f] \in Workers \ {w} /\ wfd[fd[f]] = f
                     \/ fd[f] \notin Workers /\ f = sock
  <2> SUFFICES ASSUME NEW f \in Fds PROVE \/ fd[f] \in Workers \ {w} /\ wfd[fd[f]] = f
                                          \/ fd[f] \notin Workers /\ f = sock
    OBVIOUS
  <2>1. fd[f] # "free" /\ fd[f] \in {"free", "socket", "listen"} \cup Workers
    BY DEF Free, Typed, TypeOK
  <2>2. CASE fd[f] \in Workers
    BY <2>2 DEF Typed, Sockets
  <2>3. CASE fd[f] \notin Workers
    BY <2>1, <2>3 DEF Typed, Sockets
  <2> QED BY <2>2, <2>3
<1>2. PICK user : user = [f \in Fds |-> IF fd[f] \in Workers THEN fd[f] ELSE NoWorker]
  OBVIOUS
<1>3. user \in [Fds -> T]
  BY <1>1, <1>2
<1>4. IsFiniteSet(T) /\ Cardinality(T) = Cardinality(Workers)
  <2> DEFINE S == Workers \ {w}
  <2>1. IsFiniteSet(S) /\ Cardinality(S) = Cardinality(Workers) - 1 /\ NoWorker \notin S
    BY FS_RemoveElement
  <2> HIDE DEF S
  <2>2. IsFiniteSet(S \cup {NoWorker}) /\ Cardinality(S \cup {NoWorker}) = Cardinality(S) + 1
    BY <2>1, FS_AddElement
  <2> QED BY <2>1, <2>2, Naturals1 DEF S
<1> HIDE DEF T
<1>5. PICK x, y \in Fds : x # y /\ user[x] = user[y]
  BY <1>3, <1>4, SharedUser
<1> QED BY <1>1, <1>2, <1>5

LEMMA UnbornFit ==
  /\ IsFiniteSet(Unborn) /\ Cardinality(Unborn) \in Nat
  /\ Cardinality(Unborn) <= Cardinality(Workers)
<1>1. Unborn \in SUBSET Workers
  BY DEF Unborn
<1> QED BY <1>1, FS_Subset, FS_CardinalityType
-----------------------------------------------------------------------------
(* The tables that say where a join loop comes from and goes to, read out.   *)
LEMMA JoinTables ==
  /\ Joining("main") <=> pc["main"] \in JoinPcs
  /\ Joining("ctl") <=> pc["ctl"] = "stopJoin"
  /\ Waiting("main") <=> pc["main"] \in WaitPcs
  /\ Waiting("ctl") <=> pc["ctl"] = "stopWait"
  /\ WaitOf["runJoin"] = "runWait" /\ WaitOf["destroyJoin"] = "destroyWait" /\ WaitOf["stopJoin"] = "stopWait"
  /\ ResetOf["runJoin"] = "runReset" /\ ResetOf["destroyJoin"] = "destroyReset" /\ ResetOf["stopJoin"] = "stopReset"
  /\ JoinOf["main"] = JoinPcs /\ JoinOf["ctl"] = {"stopJoin"}
BY DEF Joining, Waiting, JoinOf, WaitOf, ResetOf, JoinPcs, WaitPcs

LEMMA JoinAgain ==
  /\ pc["main"] = "runWait" => (CHOOSE p \in JoinOf["main"] : WaitOf[p] = pc["main"]) = "runJoin"
  /\ pc["main"] = "destroyWait" => (CHOOSE p \in JoinOf["main"] : WaitOf[p] = pc["main"]) = "destroyJoin"
  /\ pc["ctl"] = "stopWait" => (CHOOSE p \in JoinOf["ctl"] : WaitOf[p] = pc["ctl"]) = "stopJoin"
<1>1. ASSUME pc["main"] = "runWait" PROVE \A p \in JoinOf["main"] : WaitOf[p] = pc["main"] <=> p = "runJoin"
  BY <1>1, JoinTables DEF JoinPcs
<1>2. ASSUME pc["main"] = "destroyWait" PROVE \A p \in JoinOf["main"] : WaitOf[p] = pc["main"] <=> p = "destroyJoin"
  BY <1>2, JoinTables DEF JoinPcs
<1>3. ASSUME pc["ctl"] = "stopWait" PROVE \A p \in JoinOf["ctl"] : WaitOf[p] = pc["ctl"] <=> p = "stopJoin"
  BY <1>3, JoinTables
<1> QED BY <1>1, <1>2, <1>3, JoinTables DEF JoinPcs

LEMMA TypedInit == Init => Typed
<1> SUFFICES ASSUME Init PROVE Typed
  OBVIOUS
<1> USE DEF Init
<1>1. TypeOK
  <2>1. /\ sock \in Fds \cup {NoFd} /\ fd \in [Fds -> {"free", "socket", "listen"} \cup Workers]
        /\ wfd \in [Workers -> Fds \cup {NoFd}]
    OBVIOUS
  <2>2. backlog \in 0 .. Cardinality(Workers) /\ runs \in 0 .. MaxRuns /\ late \in Nat
    BY Naturals1
  <2>3. /\ slots \in [1 .. MaxSlots -> Workers \cup {NoWorker}] /\ count \in 0 .. MaxSlots
        /\ idx \in [Actors -> 1 .. MaxSlots + 1]
    OBVIOUS
  <2>4. /\ wstate \in [Workers -> {"unborn", "accepted", "handling", "exited", "leaked"}]
        /\ claimed \in [Workers -> {"no", "joined"} \cup Actors]
        /\ pc \in [Actors -> MainPcs \cup {"stopJoin", "stopWait", "stopReset", "stopClose"}]
        /\ rc \in [Actors -> {"none", "ok", "error"}]
    BY DEF MainPcs
  <2>5. /\ running \in BOOLEAN /\ freed \in BOOLEAN /\ missed \subseteq Workers
        /\ fresh \in Workers \cup {NoWorker} /\ stopper \in Workers \cup {NoWorker}
    OBVIOUS
  <2> QED BY <2>1, <2>2, <2>3, <2>4, <2>5 DEF TypeOK
<1>2. Places /\ Sockets /\ Indices
  BY DEF Places, Sockets, Indices, MainPcs, CtlPcs, RecordPcs, WaitPcs, Actors
<1> QED BY <1>1, <1>2 DEF Typed

(* Steps that touch neither the descriptors nor the workers' state. *)
LEMMA QuietTyped ==
  ASSUME Typed, UNCHANGED <<sock, fd, wstate, wfd>>, pc'["main"] = "create" => pc["main"] = "create"
  PROVE  Sockets'
BY DEF Typed, Sockets

LEMMA RunTyped ==
  ASSUME Typed,
         \/ RunStart \/ RunCreate \/ RunCreateFails \/ RunListen \/ RunListenFails \/ RunListenClosed \/ RunTest
         \/ RunAcceptRefused \/ RunBlock \/ RunAcceptFails \/ RunAccepts
  PROVE  Typed'
<1> USE DEF Goto, Done, table, kernel, work, hist
<1>1. CASE RunStart
  <2> USE <1>1 DEF RunStart
  <2>1. TypeOK'
    BY DEF Typed, TypeOK, MainPcs, RunPcs, Actors
  <2>2. Places' /\ Sockets' /\ Indices'
    BY DEF Typed, TypeOK, Places, Sockets, Indices, MainPcs, CtlPcs, RunPcs, RecordPcs, WaitPcs, Actors
  <2> QED BY <2>1, <2>2 DEF Typed
<1>2. CASE RunCreate
  <2> USE <1>2 DEF RunCreate
  <2>1. Lowest \in Free
    BY SocketFits
  <2> DEFINE low == Lowest
  <2>2. low \in Fds /\ low # NoFd
    BY <2>1, Naturals1 DEF Free
  <2> HIDE DEF low
  <2>3. sock' = low /\ fd' = [fd EXCEPT ![low] = "socket"]
    BY DEF low
  <2>4. TypeOK'
    BY <2>2, <2>3 DEF Typed, TypeOK, MainPcs, RunPcs, Actors
  <2>5. Places' /\ Sockets' /\ Indices'
    BY <2>2, <2>3, Naturals1 DEF Typed, TypeOK, Places, Sockets, Indices, MainPcs, CtlPcs, RunPcs, RecordPcs, WaitPcs, Actors
  <2> QED BY <2>4, <2>5 DEF Typed
<1>3. CASE RunListen \/ RunListenFails
  <2> USE <1>3 DEF RunListen, RunListenFails, Open
  <2>1. TypeOK'
    <3>1. CASE RunListen
      BY <3>1 DEF Typed, TypeOK, MainPcs, RunPcs, Actors
    <3>2. CASE RunListenFails
      BY <3>2 DEF Typed, TypeOK, MainPcs, RunPcs, Actors
    <3> QED BY <3>1, <3>2
  <2>2. Places' /\ Indices'
    BY DEF Typed, TypeOK, Places, Indices, MainPcs, CtlPcs, RunPcs, RecordPcs, WaitPcs, Actors
  <2>3. Sockets'
    <3>1. CASE RunListen
      BY <3>1 DEF Typed, TypeOK, Sockets, Actors
    <3>2. CASE RunListenFails
      BY <3>2 DEF Typed, TypeOK, Sockets, Actors
    <3> QED BY <3>1, <3>2
  <2> QED BY <2>1, <2>2, <2>3 DEF Typed
<1>4. CASE RunCreateFails \/ RunListenClosed \/ RunTest \/ RunAcceptRefused \/ RunBlock \/ RunAcceptFails
  <2> USE <1>4 DEF RunCreateFails, RunListenClosed, RunTest, RunAcceptRefused, RunBlock, RunAcceptFails, AcceptFailed
  <2>1. TypeOK'
    BY DEF Typed, TypeOK, MainPcs, RunPcs, Actors
  <2>2. Places' /\ Indices' /\ pc'["main"] # "create"
    BY DEF Typed, TypeOK, Places, Indices, MainPcs, CtlPcs, RunPcs, RecordPcs, WaitPcs, Actors
  <2>3. Sockets'
    BY <2>2, QuietTyped
  <2> QED BY <2>1, <2>2, <2>3 DEF Typed
<1>5. ASSUME NEW w \in Workers, RunAccept(w) PROVE Typed'
  <2> USE <1>5 DEF RunAccept
  <2>1. Lowest \in Free
    BY ConnectionFits
  <2> DEFINE low == Lowest
  <2>2. low \in Fds /\ fd[low] = "free"
    BY <2>1 DEF Free
  <2> HIDE DEF low
  <2>3. /\ fd' = [fd EXCEPT ![low] = w] /\ wfd' = [wfd EXCEPT ![w] = low]
        /\ wstate' = [wstate EXCEPT ![w] = "accepted"]
    BY DEF low
  <2>4. TypeOK'
    BY <2>2, <2>3, Naturals1 DEF Typed, TypeOK, MainPcs, RunPcs, Actors
  <2>5. Places' /\ Indices'
    BY DEF Typed, TypeOK, Places, Indices, MainPcs, CtlPcs, RunPcs, RecordPcs, WaitPcs, Actors
  <2>6. Sockets'
    <3>1. \A f \in Fds : fd'[f] = IF f = low THEN w ELSE fd[f]
      BY <2>2, <2>3 DEF Typed, TypeOK
    <3>2. \A f \in Fds : fd[f] # w
      BY DEF Typed, Sockets
    <3> QED BY <2>2, <2>3, <3>1, <3>2 DEF Typed, TypeOK, Sockets, Actors
  <2> QED BY <2>4, <2>5, <2>6 DEF Typed
<1> QED BY <1>1, <1>2, <1>3, <1>4, <1>5 DEF RunAccepts

LEMMA TableTyped ==
  ASSUME Typed,
         \/ RunSpawn \/ RunSpawnFails \/ RunReadCount \/ RunStoreSlot \/ RunStoreCount \/ RunEnds
  PROVE  Typed'
<1> USE DEF Goto, Done, table, kernel, work, hist
<1>1. CASE RunSpawn \/ RunSpawnFails
  <2> USE <1>1 DEF RunSpawn, RunSpawnFails
  <2>1. TypeOK'
    BY DEF Typed, TypeOK, MainPcs, RunPcs, Actors
  <2>2. Places' /\ Indices'
    BY DEF Typed, TypeOK, Places, Indices, MainPcs, CtlPcs, RunPcs, RecordPcs, WaitPcs, Actors
  <2>3. Sockets'
    BY DEF Typed, TypeOK, Sockets, Actors
  <2> QED BY <2>1, <2>2, <2>3 DEF Typed
<1>2. CASE RunReadCount
  <2> USE <1>2 DEF RunReadCount, HasSlot
  <2>1. TypeOK'
    BY DEF Typed, TypeOK, Indices, MainPcs, RunPcs, Actors
  <2>2. Places' /\ Indices' /\ pc'["main"] # "create"
    BY DEF Typed, TypeOK, Places, Indices, MainPcs, CtlPcs, RunPcs, RecordPcs, WaitPcs, Actors
  <2>3. Sockets'
    BY <2>2, QuietTyped
  <2> QED BY <2>1, <2>2, <2>3 DEF Typed
<1>3. CASE RunStoreSlot \/ RunStoreCount \/ RunEnds
  <2> USE <1>3 DEF RunStoreSlot, RunStoreCount, RunEnds
  <2>1. TypeOK'
    BY DEF Typed, TypeOK, Indices, MainPcs, RunPcs, RecordPcs, Actors
  <2>2. Places' /\ Indices' /\ pc'["main"] # "create"
    BY DEF Typed, TypeOK, Places, Indices, MainPcs, CtlPcs, RunPcs, RecordPcs, WaitPcs, Actors
  <2>3. Sockets'
    BY <2>2, QuietTyped
  <2> QED BY <2>1, <2>2, <2>3 DEF Typed
<1> QED BY <1>1, <1>2, <1>3

(* Where a step of a join loop leaves the thread that takes it.              *)
LEMMA JoinMoves ==
  ASSUME Typed, NEW a \in Actors, JoinStep(a)
  PROVE  \/ /\ a = "main" /\ pc["main"] \in JoinPcs \cup WaitPcs
            /\ \E p \in JoinPcs \cup WaitPcs \cup {"runReset", "destroyReset", "idle", "over"} :
                 pc' = [pc EXCEPT !["main"] = p]
         \/ /\ a = "ctl" /\ pc["ctl"] \in {"stopJoin", "stopWait"}
            /\ \E p \in {"stopJoin", "stopWait", "stopReset", "over"} : pc' = [pc EXCEPT !["ctl"] = p]
<1> USE DEF Goto, Done
<1>1. CASE JoinSkip(a)
  <2>1. pc' = pc /\ Joining(a)
    BY <1>1 DEF JoinSkip
  <2>2. pc' = [pc EXCEPT ![a] = pc[a]]
    BY <2>1 DEF Typed, TypeOK
  <2> QED BY <2>1, <2>2, JoinTables DEF Actors
<1>2. CASE JoinBegin(a) \/ JoinOver(a) \/ JoinFails(a)
  BY <1>2, JoinTables DEF JoinBegin, JoinOver, JoinFails, Over, JoinPcs, WaitPcs, Actors
<1>3. ASSUME NEW w \in Workers, JoinEnd(a, w)
      PROVE  \/ a = "main" /\ pc["main"] \in WaitPcs
                /\ \E p \in JoinPcs : pc' = [pc EXCEPT !["main"] = p]
             \/ a = "ctl" /\ pc["ctl"] = "stopWait" /\ pc' = [pc EXCEPT !["ctl"] = "stopJoin"]
  <2> DEFINE p == CHOOSE q \in JoinOf[a] : WaitOf[q] = pc[a]
  <2>1. pc' = [pc EXCEPT ![a] = p] /\ Waiting(a)
    BY <1>3 DEF JoinEnd
  <2>2. \/ a = "main" /\ pc["main"] \in WaitPcs /\ p \in JoinPcs
        \/ a = "ctl" /\ pc["ctl"] = "stopWait" /\ p = "stopJoin"
    BY <2>1, JoinTables, JoinAgain DEF JoinPcs, WaitPcs, Actors
  <2> HIDE DEF p
  <2> QED BY <2>1, <2>2
<1> QED BY <1>1, <1>2, <1>3 DEF JoinStep

(* The join loop that both threads run, on a table both may be changing.     *)
LEMMA JoinTyped ==
  ASSUME Typed, NEW a \in Actors, JoinStep(a)
  PROVE  Typed'
<1> USE DEF Goto, Done, table, kernel, work, hist
<1>1. /\ pc' \in [Actors -> MainPcs \cup {"stopJoin", "stopWait", "stopReset", "stopClose"}]
      /\ Places' /\ (pc'["main"] = "create" => pc["main"] = "create")
  <2>1. CASE a = "main"
    <3>1. PICK p \in JoinPcs \cup WaitPcs \cup {"runReset", "destroyReset", "idle", "over"} :
            pc' = [pc EXCEPT !["main"] = p]
      BY <2>1, JoinMoves
    <3>2. p \in MainPcs /\ p # "create"
      BY DEF MainPcs, RunPcs, DestroyPcs, JoinPcs, WaitPcs
    <3> QED BY <3>1, <3>2 DEF Typed, TypeOK, Places, Actors
  <2>2. CASE a = "ctl"
    <3>1. PICK p \in {"stopJoin", "stopWait", "stopReset", "over"} : pc' = [pc EXCEPT !["ctl"] = p]
      BY <2>2, JoinMoves
    <3>2. p \in MainPcs \cup {"stopJoin", "stopWait", "stopReset", "stopClose"} /\ p \in CtlPcs
      BY DEF MainPcs, DestroyPcs, CtlPcs
    <3> QED BY <3>1, <3>2 DEF Typed, TypeOK, Places, Actors
  <2> QED BY <2>1, <2>2 DEF Actors
<1>2. Sockets'
  BY <1>1, QuietTyped DEF JoinStep, JoinSkip, JoinBegin, JoinOver, JoinFails, JoinEnd
<1>3. CASE JoinSkip(a)
  <2> USE <1>3 DEF JoinSkip
  <2>1. TypeOK'
    BY DEF Typed, TypeOK, Actors
  <2>2. Indices'
    BY JoinTables DEF Typed, TypeOK, Indices, JoinPcs, RecordPcs, WaitPcs, Actors
  <2> QED BY <1>1, <1>2, <2>1, <2>2 DEF Typed
<1>4. CASE JoinBegin(a) \/ JoinOver(a) \/ JoinFails(a)
  <2> USE <1>4 DEF JoinBegin, JoinOver, JoinFails, Over
  <2>1. TypeOK'
    BY <1>1 DEF Typed, TypeOK, Actors
  <2>2. Indices'
    BY JoinTables DEF Typed, TypeOK, Indices, JoinPcs, RecordPcs, WaitPcs, Actors
  <2> QED BY <1>1, <1>2, <2>1, <2>2 DEF Typed
<1>5. ASSUME NEW w \in Workers, JoinEnd(a, w) PROVE Typed'
  <2> USE <1>5 DEF JoinEnd
  <2>1. \/ a = "main" /\ pc[a] \in WaitPcs /\ pc'[a] \in JoinPcs
        \/ a = "ctl" /\ pc[a] = "stopWait" /\ pc'[a] = "stopJoin"
    BY JoinTables, JoinAgain DEF Typed, TypeOK, JoinPcs, WaitPcs, Actors
  <2>2. \A b \in Actors : b # a => pc'[b] = pc[b] /\ idx'[b] = idx[b]
    BY DEF Typed, TypeOK
  <2>3. idx[a] \in 1 .. MaxSlots /\ idx' = [idx EXCEPT ![a] = idx[a] + 1]
    BY <2>1 DEF Typed, TypeOK, Indices
  <2>4. TypeOK'
    BY <1>1, <2>3 DEF Typed, TypeOK
  <2>5. Indices'
    BY <2>1, <2>2 DEF Typed, TypeOK, Indices, JoinPcs, RecordPcs, WaitPcs, Actors
  <2> QED BY <1>1, <1>2, <2>4, <2>5 DEF Typed
<1> QED BY <1>3, <1>4, <1>5 DEF JoinStep

LEMMA StopTyped ==
  ASSUME Typed,
         \/ \E w \in Workers \cup {NoWorker} : StopStart(w)
         \/ StopReset \/ StopClose \/ DestroyStart \/ DestroyReset \/ DestroyClose
  PROVE  Typed'
<1> USE DEF Goto, Done, table, kernel, work, hist
<1>1. ASSUME NEW w \in Workers \cup {NoWorker}, StopStart(w) PROVE Typed'
  <2> USE <1>1 DEF StopStart
  <2>1. TypeOK'
    <3>1. pc' \in [Actors -> MainPcs \cup {"stopJoin", "stopWait", "stopReset", "stopClose"}]
      BY DEF Typed, TypeOK, Actors
    <3>2. idx' \in [Actors -> 1 .. MaxSlots + 1]
      BY DEF Typed, TypeOK, Actors
    <3> QED BY <3>1, <3>2 DEF Typed, TypeOK
  <2>2. Places' /\ Indices' /\ Sockets'
    BY DEF Typed, TypeOK, Places, Indices, Sockets, CtlPcs, RecordPcs, WaitPcs, Actors
  <2> QED BY <2>1, <2>2 DEF Typed
<1>2. CASE StopReset \/ DestroyStart \/ DestroyReset
  <2> USE <1>2 DEF StopReset, DestroyStart, DestroyReset
  <2>1. TypeOK'
    BY DEF Typed, TypeOK, MainPcs, DestroyPcs, Actors
  <2>2. Places' /\ Indices' /\ Sockets'
    BY DEF Typed, TypeOK, Places, Indices, Sockets, MainPcs, CtlPcs, DestroyPcs, RecordPcs, WaitPcs, Actors
  <2> QED BY <2>1, <2>2 DEF Typed
<1>3. CASE StopClose \/ DestroyClose
  <2> USE <1>3 DEF StopClose, DestroyClose, CloseRc
  <2>1. UNCHANGED <<sock, wstate, wfd>> /\ CloseServerSock
    OBVIOUS
  <2>2. Places' /\ Indices'
    BY DEF Typed, TypeOK, Places, Indices, MainPcs, CtlPcs, DestroyPcs, RecordPcs, WaitPcs, Actors
  <2>3. TypeOK'
    <3>1. fd' \in [Fds -> {"free", "socket", "listen"} \cup Workers]
      BY <2>1 DEF Typed, TypeOK, CloseServerSock
    <3>2. pc' \in [Actors -> MainPcs \cup {"stopJoin", "stopWait", "stopReset", "stopClose"}]
      BY DEF Typed, TypeOK, MainPcs, DestroyPcs, Actors
    <3>3. rc' \in [Actors -> {"none", "ok", "error"}] /\ freed' \in BOOLEAN
      BY DEF Typed, TypeOK
    <3> QED BY <3>1, <3>2, <3>3 DEF Typed, TypeOK
  <2>4. Sockets'
    BY <2>1 DEF Typed, TypeOK, Sockets, Actors, CloseServerSock
  <2> QED BY <2>2, <2>3, <2>4 DEF Typed
<1> QED BY <1>1, <1>2, <1>3

LEMMA OthersTyped ==
  ASSUME Typed, ClientConnects \/ \E w \in Workers : WorkerFinish(w)
  PROVE  Typed'
<1> USE DEF table, kernel, work, hist
<1>1. CASE ClientConnects
  <2> USE <1>1 DEF ClientConnects
  <2>1. backlog' \in 0 .. Cardinality(Workers)
    BY UnbornFit, Naturals1 DEF Typed, TypeOK
  <2>2. TypeOK'
    BY <2>1 DEF Typed, TypeOK
  <2>3. Places' /\ Indices' /\ Sockets'
    BY DEF Typed, Places, Indices, Sockets
  <2> QED BY <2>2, <2>3 DEF Typed
<1>2. ASSUME NEW w \in Workers, WorkerFinish(w) PROVE Typed'
  <2> USE <1>2 DEF WorkerFinish, Open
  <2>1. TypeOK'
    BY DEF Typed, TypeOK
  <2>2. Places' /\ Indices'
    BY DEF Typed, Places, Indices
  <2>3. Sockets'
    BY DEF Typed, TypeOK, Sockets
  <2> QED BY <2>1, <2>2, <2>3 DEF Typed
<1> QED BY <1>1, <1>2

LEMMA TypedStep == Typed /\ [Next]_vars => Typed'
<1> SUFFICES ASSUME Typed, [Next]_vars PROVE Typed'
  OBVIOUS
<1>1. CASE UNCHANGED vars
  BY <1>1 DEF vars, table, kernel, work, hist, Typed, TypeOK, Places, Sockets, Indices
<1>2. CASE RunStart \/ RunStep \/ Faults
  BY <1>2, RunTyped, TableTyped DEF RunStep, Faults
<1>3. CASE MainStep \/ CtlStep
  BY <1>2, <1>3, JoinTyped, StopTyped DEF MainStep, CtlStep, Actors
<1>4. CASE \/ DestroyStart \/ ClientConnects
           \/ \E w \in Workers \cup {NoWorker} : StopStart(w)
           \/ \E w \in Workers : WorkerFinish(w)
  BY <1>4, StopTyped, OthersTyped
<1> QED BY <1>1, <1>2, <1>3, <1>4 DEF Next

(* The descriptors, the table's indices and the two threads' places stay in  *)
(* range: run always finds a descriptor for the socket and the connection it *)
(* creates, and no interleaving of run, stop and destroy drives the loop     *)
(* variable of a join, or the index run stores a handle at, beyond the table.*)
THEOREM ServerTypeCorrect == Spec => []TypeOK
<1>1. Typed => TypeOK
  BY DEF Typed
<1> QED BY <1>1, TypedInit, TypedStep, PTL DEF Spec
-----------------------------------------------------------------------------
(* The connection run was blocked for when stop cleared is_running leaves it *)
(* no way back to accept: what follows is the loop's test, and the join.     *)
LateOnce == late = 0 \/ (late = 1 /\ ~running /\ pc["main"] \notin {"create", "listen", "accept", "blocked"})

(* As long as stop is not called, one thread at a time changes the table.    *)
LoopRuns ==  \* run returns only from a failed accept
  pc["main"] \in RunPcs => running /\ pc["main"] \notin {"runJoin", "runWait", "runReset"}

EmptyAbove ==
  \A i \in 1 .. MaxSlots :
    i > count /\ ~(pc["main"] = "countLeft" /\ i = idx["main"]) => slots[i] = NoWorker

Storing ==
  /\ pc["main"] = "store" => idx["main"] = count + 1
  /\ pc["main"] = "slotLeft" => idx["main"] = count /\ slots[count] = NoWorker
  /\ pc["main"] = "countLeft" => idx["main"] = count + 1 /\ slots[count + 1] = fresh

(* destroy has emptied the entries below its loop variable, in the end all.  *)
Emptied ==
  /\ pc["main"] \in {"destroyJoin", "destroyWait"} => \A i \in 1 .. count : i < idx["main"] => slots[i] = NoWorker
  /\ pc["main"] \in {"destroyReset", "destroyClose"} => \A i \in 1 .. count : slots[i] = NoWorker
  /\ \A w \in Workers : claimed[w] = "main" => pc["main"] = "destroyWait" /\ slots[idx["main"]] = w

Tracked(w) == InSlot(w) \/ w \in missed \/ (w = fresh /\ pc["main"] \in RecordPcs \cup {"record"})

Freed == freed => pc["main"] = "over" /\ Handling \subseteq missed

Alone == LoopRuns /\ EmptyAbove /\ Storing /\ Emptied /\ (\A w \in Handling : Tracked(w)) /\ Freed

Undisturbed == pc["ctl"] = "idle" => Alone

LEMMA LateInit == Init => LateOnce
BY DEF Init, LateOnce

LEMMA LateStep == Typed /\ LateOnce /\ [Next]_vars => LateOnce'
<1> SUFFICES ASSUME Typed, LateOnce, [Next]_vars PROVE LateOnce'
  OBVIOUS
<1> USE DEF Goto, Done, hist, Actors
<1>1. CASE UNCHANGED vars
  BY <1>1 DEF vars, LateOnce
<1>2. CASE RunStart
  BY <1>2 DEF RunStart, LateOnce
<1>3. CASE RunStep \/ Faults
  <2>1. CASE RunAccepts
    BY <2>1 DEF RunAccepts, RunAccept, LateOnce, Typed, TypeOK
  <2>2. CASE RunCreate \/ RunCreateFails \/ RunListen \/ RunListenFails \/ RunListenClosed \/ RunTest
    BY <2>2 DEF RunCreate, RunCreateFails, RunListen, RunListenFails, RunListenClosed, RunTest, LateOnce, Typed, TypeOK
  <2>3. CASE RunAcceptRefused \/ RunBlock \/ RunAcceptFails
    BY <2>3 DEF RunAcceptRefused, RunBlock, RunAcceptFails, AcceptFailed, LateOnce, Typed, TypeOK
  <2>4. CASE RunSpawn \/ RunSpawnFails \/ RunReadCount \/ RunStoreSlot \/ RunStoreCount \/ RunEnds
    BY <2>4 DEF RunSpawn, RunSpawnFails, RunReadCount, RunStoreSlot, RunStoreCount, RunEnds, LateOnce, Typed, TypeOK
  <2> QED BY <1>3, <2>1, <2>2, <2>3, <2>4 DEF RunStep, Faults
<1>4. ASSUME NEW a \in Actors, JoinStep(a) PROVE LateOnce'
  <2>1. UNCHANGED <<late, running>>
    BY <1>4 DEF JoinStep, JoinSkip, JoinBegin, JoinFails, JoinOver, JoinEnd
  <2>2. pc'["main"] = pc["main"] \/ pc'["main"] \in JoinPcs \cup WaitPcs \cup {"runReset", "destroyReset", "idle", "over"}
    BY <1>4, JoinMoves DEF Typed, TypeOK
  <2> QED BY <2>1, <2>2 DEF LateOnce, JoinPcs, WaitPcs
<1>5. CASE StopReset \/ StopClose \/ DestroyStart \/ DestroyReset \/ DestroyClose
  BY <1>5 DEF StopReset, StopClose, DestroyStart, DestroyReset, DestroyClose, LateOnce, Typed, TypeOK
<1>6. ASSUME NEW w \in Workers \cup {NoWorker}, StopStart(w) PROVE LateOnce'
  BY <1>6 DEF StopStart, LateOnce, Typed, TypeOK
<1>7. CASE ClientConnects \/ \E w \in Workers : WorkerFinish(w)
  BY <1>7 DEF ClientConnects, WorkerFinish, LateOnce
<1> QED BY <1>1, <1>2, <1>3, <1>4, <1>5, <1>6, <1>7 DEF Next, MainStep, CtlStep, Actors

(* After stop has cleared is_running, run accepts one connection at most.    *)
THEOREM AtMostOneLateConnection == Spec => []OneLateConnection
<1>1. LateOnce => OneLateConnection
  BY DEF LateOnce, OneLateConnection
<1> QED BY <1>1, TypedInit, TypedStep, LateInit, LateStep, PTL DEF Spec
-----------------------------------------------------------------------------
AcceptPcs == {"idle", "create", "listen", "test", "accept", "blocked", "spawn"}

LEMMA UndisturbedInit == Init => Undisturbed
BY DEF Init, Undisturbed, Alone, LoopRuns, EmptyAbove, Storing, Emptied, Handling, Freed, Actors, RunPcs

(* Steps of run between two connections: the table stays as it is. *)
LEMMA BetweenConnections ==
  ASSUME Typed, Alone, UNCHANGED <<table, claimed, missed, freed>>,
         pc["main"] \in AcceptPcs, pc'["main"] \in AcceptPcs, running' \/ pc'["main"] = "idle",
         Handling' \subseteq Handling
  PROVE  Alone'
<1> USE DEF Alone, AcceptPcs, table
<1>1. LoopRuns' /\ EmptyAbove' /\ Storing'
  BY DEF LoopRuns, EmptyAbove, Storing, RunPcs
<1>2. Emptied'
  BY DEF Emptied
<1>3. \A w \in Handling' : Tracked(w)'
  <2> SUFFICES ASSUME NEW w \in Handling' PROVE Tracked(w)'
    OBVIOUS
  <2>1. Tracked(w) /\ pc["main"] \notin RecordPcs \cup {"record"}
    BY DEF RecordPcs
  <2> QED BY <2>1 DEF Tracked, InSlot
<1>4. Freed'
  BY DEF Freed
<1> QED BY <1>1, <1>2, <1>3, <1>4

LEMMA RunAlone ==
  ASSUME Typed, Alone,
         \/ RunStart \/ RunCreate \/ RunCreateFails \/ RunListen \/ RunListenFails \/ RunListenClosed \/ RunTest
         \/ RunAcceptRefused \/ RunBlock \/ RunAcceptFails \/ RunAccepts \/ RunSpawnFails
  PROVE  Alone'
<1> USE DEF Goto, Done, table, work, hist, Actors
<1>1. UNCHANGED <<table, claimed, missed, freed>>
  BY DEF RunStart, RunCreate, RunCreateFails, RunListen, RunListenFails, RunListenClosed, RunTest, RunAcceptRefused, RunBlock,
         RunAcceptFails, RunAccepts, RunAccept, RunSpawnFails
<1>2. Handling' \subseteq Handling
  BY DEF Handling, RunStart, RunCreate, RunCreateFails, RunListen, RunListenFails, RunListenClosed, RunTest, RunAcceptRefused, RunBlock,
         RunAcceptFails, RunAccepts, RunAccept, RunSpawnFails, Typed, TypeOK
<1>3. pc["main"] \in AcceptPcs /\ pc'["main"] \in AcceptPcs /\ (running' \/ pc'["main"] = "idle")
  BY DEF RunStart, RunCreate, RunCreateFails, RunListen, RunListenFails, RunListenClosed, RunTest, RunAcceptRefused, RunBlock,
         RunAcceptFails, AcceptFailed, RunAccepts, RunAccept, RunSpawnFails, AcceptPcs, Typed, TypeOK, Alone, LoopRuns, RunPcs
<1> QED BY <1>1, <1>2, <1>3, BetweenConnections

(* A worker enters the table: no step of the way loses it, or another one.   *)
LEMMA SpawnAlone ==
  ASSUME Typed, Alone, RunSpawn \/ RunReadCount
  PROVE  Alone'
<1> USE DEF Alone, Goto, Done, table, work, hist, Actors, RecordPcs
<1>1. CASE RunSpawn
  <2> USE <1>1 DEF RunSpawn
  <2>1. pc["main"] = "spawn" /\ pc'["main"] = "record" /\ UNCHANGED <<slots, count, idx, claimed, freed, missed, running, fresh>>
    BY DEF Typed, TypeOK
  <2>2. LoopRuns' /\ EmptyAbove' /\ Storing' /\ Emptied' /\ Freed'
    BY <2>1 DEF LoopRuns, EmptyAbove, Storing, Emptied, Freed, RunPcs
  <2>3. Handling' \subseteq Handling \cup {fresh}
    BY DEF Handling, Typed, TypeOK
  <2>4. \A w \in Handling' : Tracked(w)'
    BY <2>1, <2>3 DEF Tracked, InSlot
  <2> QED BY <2>2, <2>4
<1>2. CASE RunReadCount
  <2> USE <1>2 DEF RunReadCount
  <2>1. /\ pc["main"] = "record" /\ pc'["main"] \in {"store", "test"}
        /\ UNCHANGED <<slots, count, claimed, freed, running, fresh, wstate>>
        /\ idx'["main"] = count + 1
        /\ missed' \in {missed, missed \cup {fresh}}
        /\ pc'["main"] = "test" => missed' = missed \cup {fresh}
    BY DEF Typed, TypeOK
  <2>2. LoopRuns' /\ EmptyAbove' /\ Storing' /\ Freed'
    BY <2>1 DEF LoopRuns, EmptyAbove, Storing, Freed, RunPcs
  <2>3. Emptied'
    BY <2>1 DEF Emptied
  <2>4. \A w \in Handling' : Tracked(w)'
    BY <2>1 DEF Handling, Tracked, InSlot
  <2> QED BY <2>2, <2>3, <2>4
<1> QED BY <1>1, <1>2

LEMMA StoreAlone ==
  ASSUME Typed, Alone, RunStoreSlot \/ RunStoreCount
  PROVE  Alone'
<1> USE DEF Alone, Goto, table, work, hist, Actors, RecordPcs
<1>1. CASE RunStoreSlot
  <2> USE <1>1 DEF RunStoreSlot
  <2>1. /\ \/ pc["main"] = "store" /\ pc'["main"] = "countLeft" /\ idx["main"] = count + 1
           \/ pc["main"] = "slotLeft" /\ pc'["main"] = "test" /\ idx["main"] = count /\ slots[count] = NoWorker
        /\ UNCHANGED <<count, idx, claimed, freed, missed, running, fresh, wstate>>
        /\ idx["main"] \in 1 .. MaxSlots /\ count \in Nat
        /\ \A i \in 1 .. MaxSlots : slots'[i] = IF i = idx["main"] THEN fresh ELSE slots[i]
    BY DEF Typed, TypeOK, Storing, Indices
  <2>2. LoopRuns' /\ EmptyAbove' /\ Storing' /\ Freed'
    BY <2>1 DEF LoopRuns, EmptyAbove, Storing, Freed, RunPcs, Typed, TypeOK
  <2>3. Emptied'
    BY <2>1 DEF Emptied
  <2>4. \A w \in Handling' : Tracked(w)'
    <3> SUFFICES ASSUME NEW w \in Handling' PROVE Tracked(w)'
      OBVIOUS
    <3>1. w # NoWorker /\ Tracked(w) /\ w \in Workers
      BY <2>1 DEF Handling
    <3> QED BY <2>1, <3>1 DEF Tracked, InSlot, Typed, TypeOK
  <2> QED BY <2>2, <2>3, <2>4
<1>2. CASE RunStoreCount
  <2> USE <1>2 DEF RunStoreCount
  <2>1. /\ \/ pc["main"] = "store" /\ pc'["main"] = "slotLeft" /\ slots[count + 1] = NoWorker
           \/ pc["main"] = "countLeft" /\ pc'["main"] = "test" /\ slots[count + 1] = fresh
        /\ UNCHANGED <<slots, idx, claimed, freed, missed, running, fresh, wstate>>
        /\ idx["main"] = count + 1 /\ count' = count + 1 /\ count + 1 \in 1 .. MaxSlots /\ count \in Nat
    BY DEF Typed, TypeOK, Storing, EmptyAbove, Indices
  <2>2. LoopRuns' /\ EmptyAbove' /\ Storing' /\ Freed'
    BY <2>1 DEF LoopRuns, EmptyAbove, Storing, Freed, RunPcs, Typed, TypeOK
  <2>3. Emptied'
    BY <2>1 DEF Emptied
  <2>4. \A w \in Handling' : Tracked(w)'
    BY <2>1 DEF Handling, Tracked, InSlot
  <2> QED BY <2>2, <2>3, <2>4
<1> QED BY <1>1, <1>2

(* Without stop the only join loop is destroy's, which begins after run.     *)
LEMMA JoinAlone ==
  ASSUME Typed, Alone, JoinStep("main")
  PROVE  Alone'
<1> USE DEF Alone, Goto, Done, table, work, hist, Actors, JoinPcs, WaitPcs
<1>0. pc["main"] \in {"destroyJoin", "destroyWait"}
  BY JoinMoves DEF LoopRuns, RunPcs
<1>1. CASE JoinSkip("main")
  <2> USE <1>1 DEF JoinSkip
  <2>1. /\ pc["main"] = "destroyJoin" /\ slots[idx["main"]] = NoWorker /\ idx'["main"] = idx["main"] + 1
        /\ UNCHANGED <<slots, count, claimed, freed, missed, running, fresh, wstate, pc>>
        /\ idx["main"] \in Nat
    BY <1>0, JoinTables DEF Typed, TypeOK
  <2>2. LoopRuns' /\ EmptyAbove' /\ Storing' /\ Freed'
    BY <2>1 DEF LoopRuns, EmptyAbove, Storing, Freed, Handling
  <2>3. Emptied'
    BY <2>1 DEF Emptied
  <2>4. \A w \in Handling' : Tracked(w)'
    BY <2>1 DEF Handling, Tracked, InSlot
  <2> QED BY <2>2, <2>3, <2>4
<1>2. CASE JoinBegin("main")
  <2> USE <1>2 DEF JoinBegin
  <2>1. /\ pc["main"] = "destroyJoin" /\ pc'["main"] = "destroyWait"
        /\ UNCHANGED <<slots, count, idx, freed, missed, running, fresh, wstate>>
        /\ \A w \in Workers : claimed'[w] = IF w = slots[idx["main"]] THEN "main" ELSE claimed[w]
    BY <1>0, JoinTables DEF Typed, TypeOK
  <2>2. LoopRuns' /\ EmptyAbove' /\ Storing' /\ Freed'
    BY <2>1 DEF LoopRuns, EmptyAbove, Storing, Freed, Handling, RunPcs
  <2>3. Emptied'
    BY <2>1 DEF Emptied
  <2>4. \A w \in Handling' : Tracked(w)'
    BY <2>1 DEF Handling, Tracked, InSlot, RecordPcs
  <2> QED BY <2>2, <2>3, <2>4
<1>3. CASE JoinFails("main") \/ JoinOver("main")
  <2> USE <1>3 DEF JoinFails, JoinOver, Over
  <2>1. /\ pc["main"] = "destroyJoin"
        /\ pc'["main"] = "over" \/ (pc'["main"] = "destroyReset" /\ idx["main"] > count)
        /\ UNCHANGED <<slots, count, claimed, idx, freed, missed, running, fresh, wstate>>
        /\ count \in Nat /\ idx["main"] \in Nat
    BY <1>0, JoinTables DEF Typed, TypeOK
  <2>2. LoopRuns' /\ EmptyAbove' /\ Storing' /\ Freed'
    BY <2>1 DEF LoopRuns, EmptyAbove, Storing, Freed, Handling, RunPcs
  <2>3. Emptied'
    BY <2>1 DEF Emptied
  <2>4. \A w \in Handling' : Tracked(w)'
    BY <2>1 DEF Handling, Tracked, InSlot, RecordPcs
  <2> QED BY <2>2, <2>3, <2>4
<1>4. ASSUME NEW w \in Workers, JoinEnd("main", w) PROVE Alone'
  <2> USE <1>4 DEF JoinEnd
  <2>1. /\ pc["main"] = "destroyWait" /\ pc'["main"] = "destroyJoin" /\ idx'["main"] = idx["main"] + 1
        /\ UNCHANGED <<count, freed, missed, running, fresh, wstate>>
        /\ idx["main"] \in 1 .. MaxSlots /\ wstate[w] = "exited"
    BY <1>0, JoinTables, JoinAgain DEF Typed, TypeOK, Indices
  <2>2. /\ slots[idx["main"]] = w
        /\ \A i \in 1 .. MaxSlots : slots'[i] = IF i = idx["main"] THEN NoWorker ELSE slots[i]
        /\ \A v \in Workers : claimed'[v] = IF v = w THEN "joined" ELSE claimed[v]
    BY DEF Emptied, Typed, TypeOK
  <2>3. LoopRuns' /\ EmptyAbove' /\ Storing' /\ Freed'
    <3>1. LoopRuns' /\ Storing'
      BY <2>1 DEF LoopRuns, Storing, RunPcs
    <3>2. EmptyAbove'
      BY <2>1, <2>2 DEF EmptyAbove
    <3>3. Freed'
      BY <2>1 DEF Freed
    <3> QED BY <3>1, <3>2, <3>3
  <2>4. Emptied'
    <3>1. \A i \in 1 .. count : i < idx["main"] + 1 => slots'[i] = NoWorker
      BY <2>1, <2>2 DEF Emptied, Typed, TypeOK
    <3>2. \A v \in Workers : claimed'[v] # "main"
      BY <2>1, <2>2 DEF Emptied
    <3> QED BY <2>1, <3>1, <3>2 DEF Emptied
  <2>5. \A v \in Handling' : Tracked(v)'
    <3> SUFFICES ASSUME NEW v \in Handling' PROVE Tracked(v)'
      OBVIOUS
    <3>1. Tracked(v) /\ v # w /\ v \in Workers
      BY <2>1 DEF Handling
    <3>2. count \in 0 .. MaxSlots /\ 1 .. count \subseteq 1 .. MaxSlots
      BY DEF Typed, TypeOK
    <3> QED BY <2>1, <2>2, <3>1, <3>2 DEF Tracked, InSlot, RecordPcs
  <2> QED BY <2>3, <2>4, <2>5
<1> QED BY <1>1, <1>2, <1>3, <1>4 DEF JoinStep

(* When destroy closes the socket, its loop has waited for every worker that *)
(* was in the table: the only ones left are those the table had no room for. *)
LEMMA DestroyAlone ==
  ASSUME Typed, Alone, DestroyStart \/ DestroyReset \/ DestroyClose
  PROVE  Alone'
<1> USE DEF Alone, Goto, Done, table, work, hist, Actors
<1>1. CASE DestroyStart
  <2> USE <1>1 DEF DestroyStart
  <2>1. /\ pc["main"] = "idle" /\ pc'["main"] = "destroyJoin" /\ idx'["main"] = 1
        /\ UNCHANGED <<slots, count, claimed, freed, missed, running, fresh, wstate>>
    BY DEF Typed, TypeOK
  <2>2. LoopRuns' /\ EmptyAbove' /\ Storing' /\ Freed' /\ Emptied'
    BY <2>1 DEF LoopRuns, EmptyAbove, Storing, Freed, Emptied, Handling, RunPcs
  <2>3. \A w \in Handling' : Tracked(w)'
    BY <2>1 DEF Handling, Tracked, InSlot, RecordPcs
  <2> QED BY <2>2, <2>3
<1>2. CASE DestroyReset
  <2> USE <1>2 DEF DestroyReset
  <2>1. /\ pc["main"] = "destroyReset" /\ pc'["main"] = "destroyClose" /\ count' = 0
        /\ UNCHANGED <<slots, idx, claimed, freed, missed, running, fresh, wstate>>
        /\ \A i \in 1 .. MaxSlots : slots[i] = NoWorker
    BY DEF Typed, TypeOK, EmptyAbove, Emptied
  <2>2. LoopRuns' /\ EmptyAbove' /\ Storing' /\ Freed' /\ Emptied'
    BY <2>1 DEF LoopRuns, EmptyAbove, Storing, Freed, Emptied, Handling, RunPcs
  <2>3. \A w \in Handling' : Tracked(w)'
    BY <2>1 DEF Handling, Tracked, InSlot, RecordPcs, Emptied
  <2> QED BY <2>2, <2>3
<1>3. CASE DestroyClose
  <2> USE <1>3 DEF DestroyClose
  <2>1. /\ pc["main"] = "destroyClose" /\ pc'["main"] = "over"
        /\ UNCHANGED <<slots, count, idx, claimed, missed, running, fresh, wstate>>
        /\ \A i \in 1 .. count : slots[i] = NoWorker
    BY DEF Typed, TypeOK, Emptied
  <2>2. LoopRuns' /\ EmptyAbove' /\ Storing' /\ Emptied'
    BY <2>1 DEF LoopRuns, EmptyAbove, Storing, Emptied, RunPcs
  <2>3. Handling' = Handling /\ Handling \subseteq missed
    BY <2>1 DEF Handling, Tracked, InSlot, RecordPcs
  <2>4. (\A w \in Handling' : Tracked(w)') /\ Freed'
    BY <2>1, <2>3 DEF Tracked, Freed
  <2> QED BY <2>2, <2>4
<1> QED BY <1>1, <1>2, <1>3

LEMMA OthersAlone ==
  ASSUME Typed, Alone, ClientConnects \/ \E w \in Workers : WorkerFinish(w)
  PROVE  Alone'
<1> USE DEF Alone, table, work, hist
<1>1. UNCHANGED <<slots, count, idx, claimed, freed, missed, running, fresh, pc>> /\ Handling' \subseteq Handling
  BY DEF ClientConnects, WorkerFinish, Handling, Typed, TypeOK
<1>2. LoopRuns' /\ EmptyAbove' /\ Storing' /\ Emptied' /\ Freed'
  BY <1>1 DEF LoopRuns, EmptyAbove, Storing, Emptied, Freed
<1>3. \A w \in Handling' : Tracked(w)'
  BY <1>1 DEF Tracked, InSlot
<1> QED BY <1>2, <1>3

LEMMA UndisturbedStep == Typed /\ Undisturbed /\ [Next]_vars => Undisturbed'
<1> SUFFICES ASSUME Typed, Undisturbed, [Next]_vars, pc'["ctl"] = "idle" PROVE Alone'
  BY DEF Undisturbed
<1> USE DEF Actors
<1>1. ~CtlStep /\ ~(\E w \in Workers \cup {NoWorker} : StopStart(w)) /\ pc["ctl"] = "idle"
  <2>1. CASE \E w \in Workers \cup {NoWorker} : StopStart(w)
    BY <2>1 DEF StopStart, Goto, Typed, TypeOK
  <2>2. CASE JoinStep("ctl")
    BY <2>2, JoinMoves DEF Typed, TypeOK
  <2>3. CASE StopReset \/ StopClose
    BY <2>3 DEF StopReset, StopClose, Goto, Done, Typed, TypeOK
  <2>4. CASE JoinStep("main")
    BY <2>2, <2>3, <2>1, <2>4, JoinMoves DEF Typed, TypeOK, CtlStep
  <2>5. CASE UNCHANGED vars \/ ClientConnects \/ \E w \in Workers : WorkerFinish(w)
    BY <2>1, <2>2, <2>3, <2>5 DEF vars, ClientConnects, WorkerFinish, CtlStep
  <2>6. CASE RunStart \/ DestroyStart \/ RunStep \/ DestroyReset \/ DestroyClose \/ Faults
    BY <2>1, <2>2, <2>3, <2>6 DEF RunStart, RunStep, RunCreate, RunListen, RunListenClosed, RunTest, RunAcceptRefused, RunBlock,
       RunAccepts, RunAccept, RunSpawn, RunReadCount, RunStoreSlot, RunStoreCount, RunEnds, DestroyStart, DestroyReset,
       DestroyClose, Faults, RunCreateFails, RunListenFails, RunAcceptFails, RunSpawnFails, AcceptFailed, Goto, Done, CtlStep, Typed, TypeOK
  <2> QED BY <2>1, <2>2, <2>3, <2>4, <2>5, <2>6 DEF Next, MainStep, CtlStep
<1>2. Alone
  BY <1>1 DEF Undisturbed
<1>3. CASE UNCHANGED vars
  BY <1>2, <1>3 DEF vars, table, work, hist, Alone, LoopRuns, EmptyAbove, Storing, Emptied, Handling, Tracked, InSlot, Freed
<1>4. CASE RunStart \/ Faults \/ RunStep
  <2>1. ~RunEnds
    BY <1>2 DEF RunEnds, Alone, LoopRuns, RunPcs
  <2> QED BY <1>2, <1>4, <2>1, RunAlone, SpawnAlone, StoreAlone DEF RunStep, Faults
<1>5. CASE DestroyStart \/ MainStep \/ ClientConnects \/ \E w \in Workers : WorkerFinish(w)
  BY <1>2, <1>4, <1>5, JoinAlone, DestroyAlone, OthersAlone DEF MainStep
<1> QED BY <1>1, <1>3, <1>4, <1>5 DEF Next

(* Until stop is called no running worker is forgotten, however often run    *)
(* was called and whichever accept failed: destroy can find it in the table. *)
THEOREM WorkersStayTracked == Spec => []WorkersTracked
<1>1. Undisturbed => WorkersTracked
  BY DEF Undisturbed, Alone, WorkersTracked, Tracked, RecordPcs
<1> QED BY <1>1, TypedInit, TypedStep, UndisturbedInit, UndisturbedStep, PTL DEF Spec

(* Without stop, destroy frees the context after the last tracked worker.    *)
THEOREM DestroyWaitsForWorkers == Spec => []DestroyWaits
<1>1. Undisturbed => DestroyWaits
  BY DEF Undisturbed, Alone, DestroyWaits, Freed
<1> QED BY <1>1, TypedInit, TypedStep, UndisturbedInit, UndisturbedStep, PTL DEF Spec
=============================================================================
