---------------------------- MODULE TsQueueProofs ----------------------------
(***************************************************************************)
(* Proofs about TsQueue, for any number of threads, nodes and data.        *)
(***************************************************************************)
EXTENDS TsQueue, FiniteSetTheorems, SequenceTheorems, TLAPS

(* The control part of the state: who is where, and who holds the mutex. *)
ControlType ==
  /\ pc \in [Threads -> Pcs]
  /\ owner \in Threads \cup {NoThread}
  /\ waiting \subseteq Threads
  /\ live \in BOOLEAN

Inside == {"pushTest", "popTest", "popWait", "popUnlock", "closeSet", "unlock", "destroyFree", "destroyEnd"}

(* The mutex is held by the one thread inside a critical section, and who    *)
(* sleeps does so in pop.                                                    *)
LockInv ==
  /\ \A t \in Threads : pc[t] \in Inside <=> owner = t
  /\ \A t \in waiting : pc[t] = "popLock"

(* Nobody else is in a call while the queue is being destroyed, and nobody   *)
(* is in one while it does not exist.                                        *)
AloneInv ==
  /\ \A t \in Threads : pc[t] \in DestroyPcs => live /\ \A u \in Threads \ {t} : pc[u] = "idle"
  /\ ~live => \A t \in Threads : pc[t] \in {"idle", "return"}

Control == ControlType /\ LockInv /\ AloneInv

USE NullAssumption

LEMMA ControlInit == Init => Control
BY DEF Init, Control, ControlType, LockInv, AloneInv, Pcs, Inside, DestroyPcs

(* Where the actions of the list are concerned, only pc, owner, waiting and  *)
(* live matter here.                                                         *)
LEMMA ControlStep == Control /\ [Next]_vars => Control'
<1> SUFFICES ASSUME Control, [Next]_vars PROVE Control'
  OBVIOUS
<1> USE DEF Control, ControlType, LockInv, AloneInv, Pcs, Inside, DestroyPcs, Goto, Finish
<1>1. CASE UNCHANGED vars
  BY <1>1 DEF vars, sync, calls
<1>2. ASSUME NEW t \in Threads, StartCall(t) PROVE Control'
  <2>1. ASSUME NEW ok \in BOOLEAN, InitQueue(t, ok) PROVE Control'
    BY <2>1 DEF InitQueue, sync, Quiet
  <2>2. ASSUME NEW d \in Data, PushCall(t, d) PROVE Control'
    BY <2>2 DEF PushCall, sync, Usable
  <2>3. CASE PushNoMemory(t)
    BY <2>3 DEF PushNoMemory, sync, Usable
  <2>4. CASE PopCall(t)
    BY <2>4 DEF PopCall, sync, Usable
  <2>5. CASE CloseCall(t)
    BY <2>5 DEF CloseCall, sync, Usable
  <2>6. CASE DestroyCall(t)
    BY <2>6 DEF DestroyCall, sync, Usable, Quiet
  <2> QED BY <1>2, <2>1, <2>2, <2>3, <2>4, <2>5, <2>6 DEF StartCall
<1>3. ASSUME NEW t \in Threads, Lock(t) PROVE Control'
  BY <1>3 DEF Lock, PushLock, PopLock, CloseLock, DestroyLock, Acquire
<1>4. ASSUME NEW t \in Threads, Proceed(t) PROVE Control'
  <2>1. CASE PushRefused(t)
    BY <2>1 DEF PushRefused, Release
  <2>2. CASE PushLink(t)
    BY <2>2 DEF PushLink, SignalPush, Signal
  <2>3. CASE PopWait(t)
    BY <2>3 DEF PopWait, Release
  <2>4. CASE PopEmpty(t) \/ PopDrained(t) \/ PopTake(t)
    BY <2>4 DEF PopEmpty, PopDrained, PopTake, sync
  <2>5. CASE PopUnlock(t) \/ Unlock(t)
    BY <2>5 DEF PopUnlock, Unlock, Release
  <2>6. CASE CloseSet(t)
    BY <2>6 DEF CloseSet, Signal
  <2>7. CASE DestroyFree(t) \/ DestroyClear(t)
    BY <2>7 DEF DestroyFree, DestroyClear, sync
  <2>8. CASE DestroyEnd(t)
    BY <2>8 DEF DestroyEnd, Release
  <2>9. CASE FreeNode(t) \/ Return(t)
    BY <2>9 DEF FreeNode, Return, sync
  <2> QED BY <1>4, <2>1, <2>2, <2>3, <2>4, <2>5, <2>6, <2>7, <2>8, <2>9 DEF Proceed
<1>5. ASSUME NEW t \in Threads, SpuriousWakeup(t) PROVE Control'
  BY <1>5 DEF SpuriousWakeup, calls
<1> QED BY <1>1, <1>2, <1>3, <1>4, <1>5 DEF Next

(* c_rest_mutex keeps the threads that call the queue apart: at most one of  *)
(* them is between a lock and the unlock that follows.                       *)
THEOREM MutualExclusion == Spec => []LockInv
<1>1. Control => LockInv
  BY DEF Control
<1> QED BY <1>1, ControlInit, ControlStep, PTL DEF Spec
-----------------------------------------------------------------------------
Carrying == {"pushLock", "pushTest", "freeNode", "popUnlock"}

(* The local variable `node' holds a node exactly where the call owns one,   *)
(* and a node that is about to be pushed leads nowhere.                      *)
HandInv ==
  \A t \in Threads :
    /\ pc[t] \in Carrying => hand[t] \in Nodes
    /\ pc[t] \notin Carrying \cup {"destroyFree"} => hand[t] = NoNode
    /\ pc[t] \in {"pushLock", "pushTest"} => next[hand[t]] = NoNode

(* destroy walks down the list: what it has not freed yet is the rest of it. *)
WalkInv ==
  \A t \in Threads : pc[t] = "destroyFree" =>
    \E k \in 1 .. Len(order) + 1 :
      /\ hand[t] = (IF k = Len(order) + 1 THEN NoNode ELSE order[k])
      /\ heap = {order[i] : i \in k .. Len(order)}

(* Nothing is linked once destroy has walked, nor before init. *)
EmptyInv ==
  /\ \A t \in Threads : pc[t] = "destroyEnd" => order = <<>>
  /\ ~live => order = <<>>

(* The invariants of the list, apart from who holds the mutex. *)
Struct == TypeOK /\ HandInv /\ ListWellFormed /\ OneOwner /\ WalkInv /\ EmptyInv

IInv == Control /\ Struct

LEMMA IInvInit == Init => IInv
<1> SUFFICES ASSUME Init PROVE IInv
  OBVIOUS
<1>1. Control
  BY ControlInit
<1>2. TypeOK
  <2>1. order \in Seq(Nodes) /\ size \in Nat
    BY DEF Init
  <2>2. next \in [Nodes -> Nodes \cup {NoNode}] /\ data \in [Nodes -> Data \cup {NoData}]
    BY DEF Init
  <2>3. /\ pc \in [Threads -> Pcs]
        /\ hand \in [Threads -> Nodes \cup {NoNode}]
        /\ rc \in [Threads -> {"none", "ok", "error"}]
        /\ out \in [Threads -> Data \cup {NoData}]
    BY DEF Init, Pcs
  <2> QED BY <2>1, <2>2, <2>3 DEF Init, TypeOK
<1>3. HandInv /\ ListWellFormed /\ OneOwner /\ WalkInv /\ EmptyInv
  BY DEF Init, HandInv, ListWellFormed, OneOwner, WalkInv, EmptyInv, Linked, Destroying, Carrying, DestroyPcs
<1> QED BY <1>1, <1>2, <1>3 DEF IInv, Struct

(* Actions that leave the list, the nodes and the hands alone, and move a    *)
(* thread between places where its hand means the same.                      *)
LEMMA MovesKeepStruct ==
  ASSUME Control, Struct, NEW t \in Threads,
         \/ PushNoMemory(t) \/ PopCall(t) \/ CloseCall(t) \/ DestroyCall(t)
         \/ PushLock(t) \/ PopLock(t) \/ CloseLock(t)
         \/ PushRefused(t) \/ PopEmpty(t) \/ PopWait(t) \/ PopDrained(t) \/ PopUnlock(t)
         \/ CloseSet(t) \/ Unlock(t) \/ Return(t)
         \/ SpuriousWakeup(t)
  PROVE  Struct'
<1> USE DEF Goto, Finish, PushNoMemory, PopCall, CloseCall, DestroyCall, PushLock, PopLock, CloseLock, PushRefused,
            PopEmpty, PopWait, PopDrained, PopUnlock, CloseSet, Unlock, Return, SpuriousWakeup, Acquire, Release, Signal,
            list, cells, sync, calls
<1>1. UNCHANGED <<list, cells, hand, live>>
  OBVIOUS
<1>2. pc' = pc \/ \E p \in Pcs : pc' = [pc EXCEPT ![t] = p]
  BY DEF Pcs, DestroyPcs
<1>3. TypeOK'
  BY <1>1 DEF Struct, TypeOK, Pcs, DestroyPcs
<1>4. /\ pc'[t] \in Carrying <=> pc[t] \in Carrying
      /\ pc'[t] \in {"pushLock", "pushTest"} => pc[t] \in {"pushLock", "pushTest"}
      /\ pc'[t] # "destroyFree" /\ pc'[t] # "destroyEnd" /\ pc[t] # "destroyFree" /\ pc[t] # "destroyEnd"
  BY DEF Struct, TypeOK, Pcs, DestroyPcs, Carrying, Control, ControlType, LockInv
<1>5. HandInv'
  BY <1>1, <1>2, <1>4 DEF Struct, TypeOK, HandInv, cells
<1>6. ListWellFormed'
  BY <1>1 DEF Struct, ListWellFormed
<1>7. Destroying' <=> Destroying
  BY <1>2, <1>4 DEF Destroying, Struct, TypeOK
<1>8. OneOwner'
  BY <1>1, <1>7 DEF Struct, OneOwner, Linked
<1>9. WalkInv' /\ EmptyInv'
  BY <1>1, <1>2, <1>4 DEF Struct, WalkInv, EmptyInv, TypeOK
<1> QED BY <1>3, <1>5, <1>6, <1>8, <1>9 DEF Struct

(* Outside destroyFree a thread in a call other than destroy's sees the heap *)
(* split between the list and the hands.                                     *)
LEMMA HeapSplit ==
  ASSUME Control, Struct, NEW t \in Threads, pc[t] # "destroyFree",
         pc[t] \in Inside \/ pc[t] \in Carrying \/ Usable
  PROVE  /\ ~Destroying
         /\ heap = Linked \cup ({hand[u] : u \in Threads} \ {NoNode})
         /\ \A u \in Threads : hand[u] \notin Linked
<1>1. ~Destroying
  BY DEF Control, ControlType, LockInv, AloneInv, Destroying, Usable, Inside, Carrying, DestroyPcs
<1> QED BY <1>1 DEF Struct, OneOwner

LEMMA InitQueueKeepsStruct ==
  ASSUME Control, Struct, NEW t \in Threads, NEW ok \in BOOLEAN, InitQueue(t, ok)
  PROVE  Struct'
<1> USE DEF InitQueue, Goto, Finish, cells, sync
<1>1. heap = {} /\ \A u \in Threads : pc[u] \in {"idle", "return"} /\ hand[u] = NoNode
  BY DEF Struct, OneOwner, HandInv, Control, AloneInv, Carrying
<1>2. TypeOK'
  <2>1. order' \in Seq(Nodes) /\ size' \in Nat
    OBVIOUS
  <2>2. /\ pc' \in [Threads -> Pcs]
        /\ rc' \in [Threads -> {"none", "ok", "error"}]
        /\ out' \in [Threads -> Data \cup {NoData}]
    BY DEF Struct, TypeOK, Pcs
  <2> QED BY <2>1, <2>2 DEF Struct, TypeOK
<1>3. \A u \in Threads : pc'[u] \in {"idle", "return"} /\ hand'[u] = NoNode
  BY <1>1 DEF Struct, TypeOK
<1>4. HandInv' /\ WalkInv' /\ EmptyInv'
  BY <1>3 DEF HandInv, WalkInv, EmptyInv, Carrying
<1>5. ListWellFormed' /\ OneOwner'
  BY <1>1, <1>3 DEF ListWellFormed, OneOwner, Linked
<1> QED BY <1>2, <1>4, <1>5 DEF Struct

LEMMA PushCallKeepsStruct ==
  ASSUME Control, Struct, NEW t \in Threads, NEW d \in Data, PushCall(t, d)
  PROVE  Struct'
<1> USE DEF PushCall, Goto, list, sync
<1>1. PICK n \in Nodes \ heap :
        /\ heap' = heap \cup {n}
        /\ data' = [data EXCEPT ![n] = d]
        /\ next' = [next EXCEPT ![n] = NoNode]
        /\ hand' = [hand EXCEPT ![t] = n]
  OBVIOUS
<1>2. /\ \A u \in Threads : pc[u] \notin DestroyPcs /\ pc'[u] \notin DestroyPcs
      /\ live /\ live'
  BY DEF Usable, Struct, TypeOK, DestroyPcs
<1>3. heap = Linked \cup ({hand[u] : u \in Threads} \ {NoNode}) /\ \A u \in Threads : hand[u] \notin Linked
  BY <1>2 DEF Struct, OneOwner, Destroying, DestroyPcs
<1>4. n \notin Linked /\ \A u \in Threads : hand[u] # n
  BY <1>1, <1>3
<1>5. TypeOK'
  BY <1>1 DEF Struct, TypeOK, Pcs
<1>6. HandInv'
  BY <1>1, <1>4 DEF Struct, TypeOK, HandInv, Carrying
<1>7. ListWellFormed'
  BY <1>1, <1>4 DEF Struct, TypeOK, ListWellFormed, Linked
<1>8. OneOwner'
  <2>1. \A u, v \in Threads : hand'[u] = hand'[v] /\ hand'[u] # NoNode => u = v
    BY <1>1, <1>4 DEF Struct, TypeOK, OneOwner
  <2>2. hand[t] = NoNode
    BY DEF Struct, HandInv, Carrying
  <2>3. {hand'[u] : u \in Threads} \ {NoNode} = ({hand[u] : u \in Threads} \ {NoNode}) \cup {n}
    BY <1>1, <2>2 DEF Struct, TypeOK
  <2>4. Linked' = Linked
    BY DEF Linked
  <2>5. \A u \in Threads : hand'[u] \notin Linked'
    BY <1>1, <1>3, <1>4, <2>4 DEF Struct, TypeOK
  <2> QED BY <1>1, <1>2, <1>3, <2>1, <2>3, <2>4, <2>5 DEF OneOwner
<1>9. WalkInv' /\ EmptyInv'
  BY <1>2 DEF WalkInv, EmptyInv, DestroyPcs
<1> QED BY <1>5, <1>6, <1>7, <1>8, <1>9 DEF Struct

LEMMA FreeNodeKeepsStruct ==
  ASSUME Control, Struct, NEW t \in Threads, FreeNode(t)
  PROVE  Struct'
<1> USE DEF FreeNode, Goto, list, sync
<1>1. /\ hand[t] \in Nodes
      /\ ~Destroying
      /\ heap = Linked \cup ({hand[u] : u \in Threads} \ {NoNode})
      /\ \A u \in Threads : hand[u] \notin Linked
  BY HeapSplit DEF Struct, HandInv, Carrying
<1>2. TypeOK'
  BY DEF Struct, TypeOK, Pcs
<1>3. HandInv'
  BY DEF Struct, TypeOK, HandInv, Carrying
<1>4. ListWellFormed'
  BY DEF Struct, ListWellFormed
<1>5. \A u \in Threads : pc'[u] # "destroyFree" /\ (pc'[u] = "destroyEnd" => pc[u] = "destroyEnd")
  BY <1>1 DEF Struct, TypeOK, Destroying
<1>6. OneOwner'
  <2>1. \A u, v \in Threads : hand'[u] = hand'[v] /\ hand'[u] # NoNode => u = v
    BY DEF Struct, TypeOK, OneOwner
  <2>2. {hand'[u] : u \in Threads} \ {NoNode} = ({hand[u] : u \in Threads} \ {NoNode}) \ {hand[t]}
    BY <1>1 DEF Struct, TypeOK, OneOwner
  <2>3. Linked' = Linked /\ \A u \in Threads : hand'[u] \notin Linked'
    BY <1>1 DEF Struct, TypeOK, Linked
  <2>4. heap' = Linked' \cup ({hand'[u] : u \in Threads} \ {NoNode})
    BY <1>1, <2>2, <2>3
  <2>5. ~live' => heap' = {}
    BY DEF Struct, OneOwner
  <2> QED BY <2>1, <2>3, <2>4, <2>5 DEF OneOwner
<1>7. WalkInv' /\ EmptyInv'
  BY <1>5 DEF Struct, WalkInv, EmptyInv
<1> QED BY <1>2, <1>3, <1>4, <1>6, <1>7 DEF Struct

LEMMA PushLinkKeepsStruct ==
  ASSUME Control, Struct, NEW t \in Threads, PushLink(t)
  PROVE  Struct'
<1> USE DEF PushLink, SignalPush, Signal, Goto, Finish
<1> DEFINE n == hand[t]
           len == Len(order)
<1>1. /\ n \in Nodes /\ next[n] = NoNode
      /\ ~Destroying
      /\ heap = Linked \cup ({hand[u] : u \in Threads} \ {NoNode})
      /\ \A u \in Threads : hand[u] \notin Linked
  BY HeapSplit DEF Struct, HandInv, Carrying
<1>2. /\ order \in Seq(Nodes) /\ order' \in Seq(Nodes)
      /\ len \in Nat /\ Len(order') = len + 1
      /\ DOMAIN order = 1 .. len /\ DOMAIN order' = 1 .. len + 1
      /\ order'[len + 1] = n
      /\ \A i \in 1 .. len : order'[i] = order[i] /\ order[i] \in Nodes /\ order[i] # n
  BY <1>1 DEF Struct, TypeOK, Linked
<1>3. Linked' = Linked \cup {n}
  <2>1. Linked = {order[i] : i \in 1 .. len} /\ Linked' = {order'[i] : i \in 1 .. len + 1}
    BY <1>2 DEF Linked
  <2>2. \A i \in 1 .. len + 1 : order'[i] = IF i = len + 1 THEN n ELSE order[i]
    BY <1>2
  <2> QED BY <1>2, <2>1, <2>2
<1>4. TypeOK'
  <2>1. /\ pc' \in [Threads -> Pcs]
        /\ hand' \in [Threads -> Nodes \cup {NoNode}]
        /\ rc' \in [Threads -> {"none", "ok", "error"}]
        /\ out' \in [Threads -> Data \cup {NoData}]
    BY DEF Struct, TypeOK, Pcs
  <2>2. next' \in [Nodes -> Nodes \cup {NoNode}] /\ head' \in Nodes \cup {NoNode} /\ tail' \in Nodes \cup {NoNode}
    BY <1>1 DEF Struct, TypeOK
  <2> QED BY <1>2, <2>1, <2>2 DEF Struct, TypeOK
<1>5. /\ tail # NoNode <=> len > 0
      /\ len > 0 => tail = order[len]
  BY <1>2 DEF Struct, ListWellFormed
<1>6. \A m \in Nodes : next'[m] = IF len > 0 /\ m = order[len] THEN n ELSE next[m]
  BY <1>1, <1>2, <1>5 DEF Struct, TypeOK
<1>7. ListWellFormed'
  <2>1. size' = Len(order') /\ tail' = order'[Len(order')] /\ order' # <<>>
    BY <1>2 DEF Struct, ListWellFormed
  <2>2. head' = order'[1]
    BY <1>2, <1>5 DEF Struct, ListWellFormed
  <2>3. \A i, j \in DOMAIN order' : order'[i] = order'[j] => i = j
    BY <1>2 DEF Struct, ListWellFormed
  <2>4. \A i \in DOMAIN order' :
          next'[order'[i]] = (IF i = Len(order') THEN NoNode ELSE order'[i + 1])
    <3>1. next'[n] = NoNode
      BY <1>1, <1>2, <1>6
    <3>2. ASSUME NEW i \in 1 .. len PROVE next'[order[i]] = order'[i + 1]
      <4>1. CASE i = len
        BY <1>2, <1>6, <4>1
      <4>2. CASE i < len
        BY <1>2, <1>6, <4>2 DEF Struct, ListWellFormed
      <4> QED BY <4>1, <4>2
    <3> QED BY <1>2, <3>1, <3>2
  <2> QED BY <2>1, <2>2, <2>3, <2>4 DEF ListWellFormed
<1>8. HandInv'
  <2>1. ASSUME NEW u \in Threads, pc[u] \in {"pushLock", "pushTest"}, u # t PROVE next'[hand[u]] = NoNode
    <3>1. hand[u] \in Nodes /\ next[hand[u]] = NoNode
      BY <2>1 DEF Struct, HandInv, Carrying
    <3>2. ASSUME len > 0 PROVE hand[u] # order[len]
      <4>1. order[len] \in Linked
        BY <1>2, <3>2 DEF Linked
      <4> QED BY <1>1, <4>1
    <3> QED BY <1>6, <3>1, <3>2
  <2> QED BY <2>1 DEF Struct, TypeOK, HandInv, Carrying
<1>9. OneOwner'
  <2>1. \A u, v \in Threads : hand'[u] = hand'[v] /\ hand'[u] # NoNode => u = v
    BY DEF Struct, TypeOK, OneOwner
  <2>2. {hand'[u] : u \in Threads} \ {NoNode} = ({hand[u] : u \in Threads} \ {NoNode}) \ {n}
    BY <1>1 DEF Struct, TypeOK, OneOwner
  <2>3. \A u \in Threads : hand'[u] \notin Linked'
    BY <1>1, <1>2, <1>3 DEF Struct, TypeOK, OneOwner, Linked
  <2>4. heap' = Linked' \cup ({hand'[u] : u \in Threads} \ {NoNode})
    BY <1>1, <1>3, <2>2
  <2>5. live
    BY DEF Control, AloneInv
  <2> QED BY <2>1, <2>3, <2>4, <2>5 DEF OneOwner
<1>10. WalkInv' /\ EmptyInv'
  BY <1>1 DEF Struct, TypeOK, WalkInv, EmptyInv, Destroying, Control, ControlType, LockInv, AloneInv, Inside, DestroyPcs
<1> QED BY <1>4, <1>7, <1>8, <1>9, <1>10 DEF Struct

LEMMA PopTakeKeepsStruct ==
  ASSUME Control, Struct, NEW t \in Threads, PopTake(t)
  PROVE  Struct'
<1> USE DEF PopTake, TailAfter, Goto, Finish, cells, sync
<1> DEFINE len == Len(order)
<1>1. /\ ~Destroying
      /\ heap = Linked \cup ({hand[u] : u \in Threads} \ {NoNode})
      /\ \A u \in Threads : hand[u] \notin Linked
  BY HeapSplit DEF Inside
<1>2. /\ order \in Seq(Nodes) /\ len \in Nat \ {0} /\ DOMAIN order = 1 .. len
      /\ order' \in Seq(Nodes) /\ Len(order') = len - 1 /\ DOMAIN order' = 1 .. len - 1
      /\ \A i \in 1 .. len - 1 : order'[i] = order[i + 1]
      /\ \A i \in 1 .. len : order[i] \in Nodes
      /\ \A i, j \in 1 .. len : order[i] = order[j] => i = j
      /\ head = order[1] /\ tail = order[len]
  <2>1. order \in Seq(Nodes) /\ len \in Nat \ {0}
    BY DEF Struct, TypeOK, ListWellFormed
  <2>2. order # <<>> /\ order' = Tail(order)
    BY <2>1
  <2>3. DOMAIN order = 1 .. len /\ \A i \in 1 .. len : order[i] \in Nodes
    BY <2>1
  <2>4. /\ order' \in Seq(Nodes) /\ Len(order') = len - 1 /\ DOMAIN order' = 1 .. len - 1
        /\ \A i \in 1 .. len - 1 : order'[i] = order[i + 1]
    BY <2>1, <2>2
  <2>5. \A i, j \in 1 .. len : order[i] = order[j] => i = j
    BY <2>3 DEF Struct, ListWellFormed
  <2>6. head = order[1] /\ tail = order[len]
    BY <2>2 DEF Struct, ListWellFormed
  <2> QED BY <2>1, <2>3, <2>4, <2>5, <2>6
<1>3. /\ len = 1 => next[head] = NoNode
      /\ len > 1 => next[head] = order[2]
  BY <1>2 DEF Struct, ListWellFormed
<1>4. Linked = Linked' \cup {head} /\ head \notin Linked'
  <2>1. Linked = {order[i] : i \in 1 .. len} /\ Linked' = {order'[i] : i \in 1 .. len - 1}
    BY <1>2 DEF Linked
  <2>2. \A i \in 1 .. len : i = 1 \/ (i - 1 \in 1 .. len - 1 /\ order[i] = order'[i - 1])
    BY <1>2
  <2>3. \A i \in 1 .. len - 1 : i + 1 \in 1 .. len /\ order'[i] = order[i + 1] /\ order[i + 1] # order[1]
    BY <1>2
  <2>4. head \in Linked /\ head \notin Linked'
    BY <1>2, <2>1, <2>3
  <2>5. Linked' \subseteq Linked
    BY <2>1, <2>3
  <2>6. ASSUME NEW m \in Linked PROVE m \in Linked' \cup {head}
    <3>1. PICK i \in 1 .. len : m = order[i]
      BY <2>1
    <3>2. CASE i = 1
      BY <1>2, <3>1, <3>2
    <3>3. CASE i # 1
      BY <2>1, <2>2, <3>1, <3>3
    <3> QED BY <3>2, <3>3
  <2> QED BY <2>4, <2>5, <2>6
<1>5. TypeOK'
  <2>1. /\ pc' \in [Threads -> Pcs]
        /\ hand' \in [Threads -> Nodes \cup {NoNode}]
        /\ rc' \in [Threads -> {"none", "ok", "error"}]
        /\ out' \in [Threads -> Data \cup {NoData}]
    BY <1>2 DEF Struct, TypeOK, Pcs
  <2>2. head' \in Nodes \cup {NoNode} /\ tail' \in Nodes \cup {NoNode} /\ size' \in Nat
    BY <1>2 DEF Struct, TypeOK, ListWellFormed
  <2> QED BY <1>2, <2>1, <2>2 DEF Struct, TypeOK
<1>6. ListWellFormed'
  <2>1. size' = Len(order')
    BY <1>2 DEF Struct, ListWellFormed
  <2>2. \A i, j \in DOMAIN order' : order'[i] = order'[j] => i = j
    BY <1>2
  <2> DEFINE left == order'
  <2>3. head' = (IF left = <<>> THEN NoNode ELSE left[1]) /\ tail' = (IF left = <<>> THEN NoNode ELSE left[Len(left)])
    <3>1. CASE len = 1
      <4>1. left = <<>>
        BY <1>2, <3>1
      <4> QED BY <1>3, <3>1, <4>1
    <3>2. CASE len > 1
      <4> HIDE DEF len, left
      <4>1. len \in Nat /\ left \in Seq(Nodes) /\ Len(left) = len - 1
        BY <1>2 DEF left
      <4>2. left # <<>>
        BY <3>2, <4>1
      <4>3. 1 \in 1 .. len - 1 /\ len - 1 \in 1 .. len - 1
        BY <3>2, <4>1
      <4>4. left[1] = order[1 + 1] /\ left[len - 1] = order[(len - 1) + 1]
        BY <1>2, <4>3 DEF left
      <4>5. left[1] = order[2] /\ left[Len(left)] = order[len]
        BY <4>1, <4>4
      <4>6. next[head] = order[2] /\ order[2] # NoNode
        BY <1>2, <1>3, <3>2
      <4>7. head' = order[2] /\ tail' = order[len]
        BY <1>2, <4>6
      <4> QED BY <4>2, <4>5, <4>7
    <3>3. len = 1 \/ len > 1
      BY <1>2
    <3> QED BY <3>1, <3>2, <3>3
  <2>5. \A i \in DOMAIN order' :
          next'[order'[i]] = (IF i = Len(order') THEN NoNode ELSE order'[i + 1])
    BY <1>2 DEF Struct, ListWellFormed
  <2> QED BY <2>1, <2>2, <2>3, <2>5 DEF ListWellFormed
<1>7. hand[t] = NoNode
  BY DEF Struct, HandInv, Carrying
<1>8. HandInv'
  BY <1>2 DEF Struct, TypeOK, HandInv, Carrying
<1>9. OneOwner'
  <2>1. \A u, v \in Threads : hand'[u] = hand'[v] /\ hand'[u] # NoNode => u = v
    BY <1>1, <1>2, <1>4 DEF Struct, TypeOK, OneOwner
  <2>2. {hand'[u] : u \in Threads} \ {NoNode} = ({hand[u] : u \in Threads} \ {NoNode}) \cup {head}
    BY <1>2, <1>7 DEF Struct, TypeOK
  <2>3. \A u \in Threads : hand'[u] \notin Linked'
    BY <1>1, <1>4 DEF Struct, TypeOK
  <2>4. heap' = Linked' \cup ({hand'[u] : u \in Threads} \ {NoNode})
    BY <1>1, <1>4, <2>2
  <2>5. live
    BY DEF Control, AloneInv
  <2> QED BY <2>1, <2>3, <2>4, <2>5 DEF OneOwner
<1>10. WalkInv' /\ EmptyInv'
  BY <1>1 DEF Struct, TypeOK, WalkInv, EmptyInv, Destroying, Control, ControlType, LockInv, AloneInv, Inside, DestroyPcs
<1> QED BY <1>5, <1>6, <1>8, <1>9, <1>10 DEF Struct

LEMMA DestroyLockKeepsStruct ==
  ASSUME Control, Struct, NEW t \in Threads, DestroyLock(t)
  PROVE  Struct'
<1> USE DEF DestroyLock, Acquire, Goto, list, cells
<1>1. /\ live /\ live'
      /\ \A u \in Threads \ {t} : pc[u] = "idle" /\ hand[u] = NoNode /\ pc'[u] = "idle" /\ hand'[u] = NoNode
      /\ hand[t] = NoNode /\ hand'[t] = head /\ pc'[t] = "destroyFree"
  BY DEF Struct, TypeOK, HandInv, Carrying, Control, AloneInv, DestroyPcs
<1>2. heap = Linked
  <2>1. ~Destroying
    BY <1>1 DEF Destroying
  <2> QED BY <1>1, <2>1 DEF Struct, OneOwner
<1>3. TypeOK'
  BY DEF Struct, TypeOK, Pcs, DestroyPcs
<1>4. HandInv'
  BY <1>1 DEF HandInv, Carrying
<1>5. ListWellFormed'
  BY DEF Struct, ListWellFormed
<1>6. OneOwner'
  BY <1>1 DEF OneOwner, Destroying
<1>7. WalkInv'
  <2>1. order \in Seq(Nodes) /\ DOMAIN order = 1 .. Len(order) /\ Len(order) \in Nat
    BY DEF Struct, TypeOK
  <2>2. 1 \in 1 .. Len(order) + 1
    BY <2>1
  <2>3. head = (IF 1 = Len(order) + 1 THEN NoNode ELSE order[1])
    BY <2>1 DEF Struct, ListWellFormed
  <2>4. heap = {order[i] : i \in 1 .. Len(order)}
    BY <1>2, <2>1 DEF Linked
  <2> QED BY <1>1, <2>2, <2>3, <2>4 DEF WalkInv
<1>8. EmptyInv'
  BY <1>1 DEF EmptyInv
<1> QED BY <1>3, <1>4, <1>5, <1>6, <1>7, <1>8 DEF Struct

LEMMA DestroyFreeKeepsStruct ==
  ASSUME Control, Struct, NEW t \in Threads, DestroyFree(t)
  PROVE  Struct'
<1> USE DEF DestroyFree, list, sync
<1> DEFINE len == Len(order)
<1>1. /\ live /\ live'
      /\ \A u \in Threads \ {t} : pc[u] = "idle" /\ hand[u] = NoNode /\ hand'[u] = NoNode
  BY DEF Struct, TypeOK, HandInv, Carrying, Control, AloneInv, DestroyPcs
<1>2. order \in Seq(Nodes) /\ DOMAIN order = 1 .. len /\ len \in Nat
  BY DEF Struct, TypeOK
<1>3. PICK k \in 1 .. len + 1 :
        /\ hand[t] = (IF k = len + 1 THEN NoNode ELSE order[k])
        /\ heap = {order[i] : i \in k .. len}
  BY DEF Struct, WalkInv
<1>4. k \in 1 .. len /\ hand[t] = order[k] /\ hand[t] \in Nodes
  BY <1>2, <1>3
<1>5. hand'[t] = (IF k + 1 = len + 1 THEN NoNode ELSE order[k + 1])
  BY <1>2, <1>4 DEF Struct, TypeOK, ListWellFormed
<1>6. heap' = {order[i] : i \in k + 1 .. len}
  <2>1. \A i \in k .. len : i = k \/ i \in k + 1 .. len
    BY <1>2, <1>4
  <2>2. \A i \in k + 1 .. len : i \in k .. len /\ order[i] # order[k]
    BY <1>2, <1>4 DEF Struct, ListWellFormed
  <2> QED BY <1>3, <1>4, <2>1, <2>2
<1>7. TypeOK'
  BY <1>4 DEF Struct, TypeOK
<1>8. HandInv'
  BY <1>1 DEF Struct, HandInv, Carrying
<1>9. ListWellFormed'
  BY DEF Struct, ListWellFormed
<1>10. OneOwner'
  BY <1>1 DEF OneOwner, Destroying
<1>11. WalkInv'
  <2>1. k + 1 \in 1 .. len + 1
    BY <1>2, <1>4
  <2> QED BY <1>1, <1>5, <1>6, <2>1 DEF WalkInv
<1>12. EmptyInv'
  BY <1>1 DEF EmptyInv
<1> QED BY <1>7, <1>8, <1>9, <1>10, <1>11, <1>12 DEF Struct

LEMMA DestroyClearKeepsStruct ==
  ASSUME Control, Struct, NEW t \in Threads, DestroyClear(t)
  PROVE  Struct'
<1> USE DEF DestroyClear, Goto, Finish, cells, sync
<1>1. /\ live /\ live'
      /\ \A u \in Threads \ {t} : pc[u] = "idle" /\ hand[u] = NoNode /\ pc'[u] = "idle"
      /\ pc'[t] = "destroyEnd" /\ hand' = hand /\ hand[t] = NoNode
  BY DEF Struct, TypeOK, HandInv, Carrying, Control, AloneInv, DestroyPcs
<1>2. heap = {}
  <2>1. order \in Seq(Nodes) /\ DOMAIN order = 1 .. Len(order) /\ Len(order) \in Nat
        /\ \A i \in 1 .. Len(order) : order[i] \in Nodes
    BY DEF Struct, TypeOK
  <2>2. PICK k \in 1 .. Len(order) + 1 :
          /\ hand[t] = (IF k = Len(order) + 1 THEN NoNode ELSE order[k])
          /\ heap = {order[i] : i \in k .. Len(order)}
    BY DEF Struct, WalkInv
  <2>3. k = Len(order) + 1
    BY <2>1, <2>2
  <2>4. k .. Len(order) = {}
    BY <2>1, <2>3
  <2> QED BY <2>2, <2>4
<1>3. TypeOK'
  <2>1. order' \in Seq(Nodes) /\ size' \in Nat
    OBVIOUS
  <2>2. /\ pc' \in [Threads -> Pcs]
        /\ rc' \in [Threads -> {"none", "ok", "error"}]
        /\ out' \in [Threads -> Data \cup {NoData}]
    BY DEF Struct, TypeOK, Pcs, DestroyPcs
  <2> QED BY <2>1, <2>2 DEF Struct, TypeOK
<1>4. HandInv'
  BY <1>1 DEF HandInv, Carrying
<1>5. ListWellFormed'
  BY DEF ListWellFormed
<1>6. OneOwner'
  BY <1>1, <1>2 DEF OneOwner, Linked
<1>7. WalkInv' /\ EmptyInv'
  BY <1>1 DEF WalkInv, EmptyInv
<1> QED BY <1>3, <1>4, <1>5, <1>6, <1>7 DEF Struct

LEMMA DestroyEndKeepsStruct ==
  ASSUME Control, Struct, NEW t \in Threads, DestroyEnd(t)
  PROVE  Struct'
<1> USE DEF DestroyEnd, Release, Goto, list, cells
<1>1. /\ order = <<>>
      /\ \A u \in Threads \ {t} : pc[u] = "idle" /\ pc'[u] = "idle"
      /\ \A u \in Threads : hand[u] = NoNode
      /\ pc'[t] = "return"
  BY DEF Struct, TypeOK, HandInv, EmptyInv, Carrying, Control, AloneInv, DestroyPcs
<1>2. heap = {}
  <2>1. ~Destroying
    BY <1>1 DEF Destroying
  <2> QED BY <1>1, <2>1 DEF Struct, OneOwner, Linked
<1>3. TypeOK'
  BY DEF Struct, TypeOK, Pcs
<1>4. HandInv'
  BY <1>1 DEF HandInv, Carrying
<1>5. ListWellFormed'
  BY DEF Struct, ListWellFormed
<1>6. OneOwner'
  BY <1>1, <1>2 DEF OneOwner, Linked
<1>7. WalkInv' /\ EmptyInv'
  BY <1>1 DEF WalkInv, EmptyInv
<1> QED BY <1>3, <1>4, <1>5, <1>6, <1>7 DEF Struct

LEMMA IInvStep == IInv /\ [Next]_vars => IInv'
<1> SUFFICES ASSUME IInv, [Next]_vars PROVE Struct'
  BY ControlStep DEF IInv
<1> USE DEF IInv
<1>1. CASE UNCHANGED vars
  BY <1>1 DEF vars, list, cells, sync, calls, Struct, TypeOK, HandInv, ListWellFormed, OneOwner, WalkInv, EmptyInv,
              Linked, Destroying
<1>2. ASSUME NEW t \in Threads, StartCall(t) PROVE Struct'
  BY <1>2, InitQueueKeepsStruct, PushCallKeepsStruct, MovesKeepStruct DEF StartCall
<1>3. ASSUME NEW t \in Threads, Lock(t) PROVE Struct'
  BY <1>3, MovesKeepStruct, DestroyLockKeepsStruct DEF Lock
<1>4. ASSUME NEW t \in Threads, Proceed(t) PROVE Struct'
  BY <1>4, MovesKeepStruct, PushLinkKeepsStruct, PopTakeKeepsStruct, FreeNodeKeepsStruct,
     DestroyFreeKeepsStruct, DestroyClearKeepsStruct, DestroyEndKeepsStruct DEF Proceed
<1>5. ASSUME NEW t \in Threads, SpuriousWakeup(t) PROVE Struct'
  BY <1>5, MovesKeepStruct
<1> QED BY <1>1, <1>2, <1>3, <1>4, <1>5 DEF Next

LEMMA IInvAlways == Spec => []IInv
BY IInvInit, IInvStep, PTL DEF Spec

(* Every field, and every local variable of a call, keeps its type. *)
THEOREM TypeCorrect == Spec => []TypeOK
<1>1. IInv => TypeOK
  BY DEF IInv, Struct
<1> QED BY <1>1, IInvAlways, PTL

(* However the calls interleave, head, tail, next and size describe one list *)
(* (c_rest_ts_queue_push and c_rest_ts_queue_pop relink it).                 *)
THEOREM ListStaysWellFormed == Spec => []ListWellFormed
<1>1. IInv => ListWellFormed
  BY DEF IInv, Struct
<1> QED BY <1>1, IInvAlways, PTL

(* No node of c_rest_ts_queue is leaked, freed twice or used after free,     *)
(* whichever call allocates it and whichever frees it.                       *)
THEOREM NodesHaveOneOwner == Spec => []OneOwner
<1>1. IInv => OneOwner
  BY DEF IInv, Struct
<1> QED BY <1>1, IInvAlways, PTL
-----------------------------------------------------------------------------
(* What pop has seen of the queue is still so when it gives up the mutex.    *)
WaitInv == \A t \in Threads : pc[t] = "popWait" => size = 0 /\ ~isClosed

(* Who adds an item or closes the queue holds the mutex, so no other thread  *)
(* is between the test and the sleep.                                        *)
LEMMA WaitStep == IInv /\ WaitInv /\ [Next]_vars => WaitInv'
<1> SUFFICES ASSUME IInv, WaitInv, [Next]_vars PROVE WaitInv'
  OBVIOUS
<1> USE DEF Goto, Finish, list, sync, calls
<1>1. CASE UNCHANGED vars
  BY <1>1 DEF vars, WaitInv
<1>2. ASSUME UNCHANGED <<size, isClosed>>, \A u \in Threads : pc'[u] = "popWait" => pc[u] = "popWait"
      PROVE  WaitInv'
  BY <1>2 DEF WaitInv
<1>3. ASSUME NEW t \in Threads, StartCall(t) PROVE WaitInv'
  <2>1. ASSUME NEW ok \in BOOLEAN, InitQueue(t, ok) PROVE WaitInv'
    BY <2>1 DEF InitQueue, WaitInv
  <2>2. CASE (\E d \in Data : PushCall(t, d)) \/ PushNoMemory(t) \/ PopCall(t) \/ CloseCall(t) \/ DestroyCall(t)
    BY <1>2, <2>2 DEF PushCall, PushNoMemory, PopCall, CloseCall, DestroyCall, IInv, Control, ControlType
  <2> QED BY <1>3, <2>1, <2>2 DEF StartCall
<1>4. ASSUME NEW t \in Threads, Lock(t) \/ SpuriousWakeup(t) PROVE WaitInv'
  BY <1>2, <1>4 DEF Lock, PushLock, PopLock, CloseLock, DestroyLock, SpuriousWakeup, IInv, Control, ControlType
<1>5. ASSUME NEW t \in Threads, Proceed(t) PROVE WaitInv'
  <2>1. CASE PopEmpty(t)
    BY <2>1 DEF PopEmpty, MustWait, WaitInv
  <2>2. CASE PushLink(t) \/ PopTake(t) \/ CloseSet(t) \/ DestroyClear(t)
    <3>1. pc[t] \in Inside /\ pc'[t] # "popWait" /\ \A u \in Threads \ {t} : pc'[u] = pc[u]
      BY <2>2 DEF PushLink, PopTake, CloseSet, DestroyClear, Inside, IInv, Control, ControlType
    <3>2. \A u \in Threads \ {t} : pc[u] # "popWait"
      BY <3>1 DEF IInv, Control, LockInv, Inside
    <3> QED BY <3>1, <3>2 DEF WaitInv
  <2>3. CASE \/ PushRefused(t) \/ PopWait(t) \/ PopDrained(t) \/ PopUnlock(t) \/ Unlock(t) \/ FreeNode(t)
             \/ Return(t) \/ DestroyFree(t) \/ DestroyEnd(t)
    BY <1>2, <2>3 DEF PushRefused, PopWait, PopDrained, PopUnlock, Unlock, FreeNode, Return, DestroyFree, DestroyEnd,
                      IInv, Control, ControlType
  <2> QED BY <1>5, <2>1, <2>2, <2>3 DEF Proceed
<1> QED BY <1>1, <1>3, <1>4, <1>5 DEF Next

LEMMA WaitAlways == Spec => []WaitInv
<1>1. Init => WaitInv
  BY DEF Init, WaitInv
<1> QED BY <1>1, WaitStep, IInvAlways, PTL DEF Spec

(* c_rest_ts_queue_pop holds the mutex from its test of is_closed to the     *)
(* wait, and c_rest_ts_queue_close sets the flag under that mutex.           *)
THEOREM ClosedQueueIsNotWaitedFor == Spec => NoSleepAfterClose
<1>1. Next /\ WaitInv /\ isClosed => waiting' \subseteq waiting
  <2> SUFFICES ASSUME WaitInv, isClosed, NEW t \in Threads,
                      StartCall(t) \/ Lock(t) \/ Proceed(t) \/ SpuriousWakeup(t)
               PROVE  waiting' \subseteq waiting
    BY DEF Next
  <2> USE DEF sync
  <2>1. CASE StartCall(t)
    BY <2>1 DEF StartCall, InitQueue, PushCall, PushNoMemory, PopCall, CloseCall, DestroyCall
  <2>2. CASE Lock(t)
    BY <2>2 DEF Lock, PushLock, PopLock, CloseLock, DestroyLock
  <2>3. CASE PopWait(t)
    BY <2>3 DEF PopWait, WaitInv
  <2>4. CASE Proceed(t) /\ ~PopWait(t)
    BY <2>4 DEF Proceed, PushRefused, PushLink, MayLink, PopEmpty, PopDrained, PopTake, PopUnlock,
                CloseSet, Signal, DestroyFree, DestroyClear, DestroyEnd, Unlock, FreeNode, Return
  <2>5. CASE SpuriousWakeup(t)
    BY <2>5 DEF SpuriousWakeup
  <2> QED BY <2>1, <2>2, <2>3, <2>4, <2>5
<1>2. [Next]_vars /\ WaitInv => [isClosed => waiting' \subseteq waiting]_vars
  BY <1>1
<1> QED BY <1>2, WaitAlways, PTL DEF Spec, NoSleepAfterClose
-----------------------------------------------------------------------------
LEMMA PoppersAreFinite ==
  /\ IsFiniteSet(Poppers) /\ Cardinality(Poppers) \in Nat
  /\ IsFiniteSet(Poppers') /\ Cardinality(Poppers') \in Nat
<1>1. Poppers \subseteq Threads /\ Poppers' \subseteq Threads
  BY DEF Poppers
<1> QED BY <1>1, FiniteAssumption, FS_Subset, FS_CardinalityType

(* A step that adds no item, lets nobody fall asleep and takes nobody off    *)
(* its way to an item loses no wakeup.                                       *)
LEMMA MorePoppers ==
  ASSUME IInv, NoLostWakeup, size' = size, waiting' \subseteq waiting, Poppers \subseteq Poppers'
  PROVE  NoLostWakeup'
<1>1. Cardinality(Poppers) <= Cardinality(Poppers')
  BY PoppersAreFinite, FS_Subset
<1>2. waiting' # {} => waiting # {}
  OBVIOUS
<1> QED BY <1>1, <1>2, PoppersAreFinite DEF NoLostWakeup, IInv, Struct, TypeOK

(* What push signals pays for the item it adds. *)
LEMMA PushLinkWakesOne ==
  ASSUME IInv, NoLostWakeup, NEW t \in Threads, PushLink(t)
  PROVE  NoLostWakeup'
<1> USE DEF PushLink, SignalPush, Signal, Goto, Finish
<1> SUFFICES ASSUME waiting' # {} PROVE size' <= Cardinality(Poppers')
  BY DEF NoLostWakeup
<1>1. waiting # {}
  OBVIOUS
<1>2. PICK u \in waiting : waiting' = waiting \ {u}
  BY <1>1
<1>3. u \in Threads /\ pc[u] = "popLock" /\ pc'[u] = "popLock"
  BY DEF IInv, Control, ControlType, LockInv
<1>4. Poppers' = Poppers \cup {u} /\ u \notin Poppers
  BY <1>2, <1>3 DEF Poppers, IInv, Control, ControlType
<1>5. Cardinality(Poppers') = Cardinality(Poppers) + 1
  BY <1>4, PoppersAreFinite, FS_AddElement
<1>6. size <= Cardinality(Poppers)
  BY <1>1 DEF NoLostWakeup
<1> QED BY <1>5, <1>6, PoppersAreFinite DEF IInv, Struct, TypeOK

(* A pop that takes an item was the popper counted for it. *)
LEMMA PopTakeTakesOne ==
  ASSUME IInv, NoLostWakeup, NEW t \in Threads, PopTake(t)
  PROVE  NoLostWakeup'
<1> USE DEF PopTake, Goto, Finish, sync
<1> SUFFICES ASSUME waiting' # {} PROVE size' <= Cardinality(Poppers')
  BY DEF NoLostWakeup
<1>1. t \in Poppers /\ Poppers' = Poppers \ {t}
  BY DEF Poppers, IInv, Control, ControlType, LockInv
<1>2. Cardinality(Poppers') = Cardinality(Poppers) - 1
  BY <1>1, PoppersAreFinite, FS_RemoveElement
<1>3. size <= Cardinality(Poppers)
  BY DEF NoLostWakeup
<1> QED BY <1>2, <1>3, PoppersAreFinite DEF IInv, Struct, TypeOK

LEMMA NoLostWakeupStep == IInv /\ WaitInv /\ NoLostWakeup /\ [Next]_vars => NoLostWakeup'
<1> SUFFICES ASSUME IInv, WaitInv, NoLostWakeup, [Next]_vars PROVE NoLostWakeup'
  OBVIOUS
<1> USE DEF Goto, Finish, list, sync, calls
<1>1. ASSUME size' = 0 PROVE NoLostWakeup'
  BY <1>1, PoppersAreFinite DEF NoLostWakeup
<1>2. CASE UNCHANGED vars
  BY <1>2 DEF vars, NoLostWakeup, Poppers
<1>3. ASSUME NEW t \in Threads, StartCall(t) PROVE NoLostWakeup'
  <2>1. ASSUME NEW ok \in BOOLEAN, InitQueue(t, ok) PROVE NoLostWakeup'
    BY <1>1, <2>1 DEF InitQueue
  <2>2. CASE (\E d \in Data : PushCall(t, d)) \/ PushNoMemory(t) \/ PopCall(t) \/ CloseCall(t) \/ DestroyCall(t)
    <3>1. size' = size /\ waiting' = waiting /\ pc[t] = "idle" /\ \A u \in Threads \ {t} : pc'[u] = pc[u]
      BY <2>2 DEF PushCall, PushNoMemory, PopCall, CloseCall, DestroyCall, IInv, Control, ControlType
    <3>2. Poppers \subseteq Poppers'
      BY <3>1 DEF Poppers
    <3> QED BY <3>1, <3>2, MorePoppers
  <2> QED BY <1>3, <2>1, <2>2 DEF StartCall
<1>4. ASSUME NEW t \in Threads, Lock(t) PROVE NoLostWakeup'
  <2>1. size' = size /\ waiting' = waiting
    BY <1>4 DEF Lock, PushLock, PopLock, CloseLock, DestroyLock
  <2>2. Poppers \subseteq Poppers'
    BY <1>4 DEF Lock, PushLock, PopLock, CloseLock, DestroyLock, Poppers, IInv, Control, ControlType
  <2> QED BY <2>1, <2>2, MorePoppers
<1>5. ASSUME NEW t \in Threads, Proceed(t) PROVE NoLostWakeup'
  <2>1. CASE PushLink(t)
    BY <2>1, PushLinkWakesOne
  <2>2. CASE PopTake(t)
    BY <2>2, PopTakeTakesOne
  <2>3. CASE PopEmpty(t) \/ PopWait(t) \/ PopDrained(t) \/ DestroyClear(t)
    BY <1>1, <2>3 DEF PopEmpty, MustWait, PopWait, WaitInv, PopDrained, DestroyClear
  <2>4. CASE CloseSet(t)
    <3>1. size' = size /\ waiting' \subseteq waiting /\ \A u \in Threads \ {t} : pc'[u] = pc[u]
      BY <2>4 DEF CloseSet, Signal, IInv, Control, ControlType
    <3>2. Poppers \subseteq Poppers'
      BY <2>4, <3>1 DEF CloseSet, Poppers
    <3> QED BY <3>1, <3>2, MorePoppers
  <2>5. CASE PushRefused(t) \/ PopUnlock(t) \/ Unlock(t) \/ FreeNode(t) \/ Return(t) \/ DestroyFree(t) \/ DestroyEnd(t)
    <3> USE DEF PushRefused, PopUnlock, Unlock, FreeNode, Return, DestroyFree, DestroyEnd
    <3>1. /\ size' = size /\ waiting' = waiting
          /\ pc[t] \notin {"popLock", "popTest"}
          /\ \A u \in Threads \ {t} : pc'[u] = pc[u]
      BY <2>5 DEF IInv, Control, ControlType
    <3>2. Poppers \subseteq Poppers'
      BY <3>1 DEF Poppers
    <3> QED BY <3>1, <3>2, MorePoppers
  <2> QED BY <1>5, <2>1, <2>2, <2>3, <2>4, <2>5 DEF Proceed
<1>6. ASSUME NEW t \in Threads, SpuriousWakeup(t) PROVE NoLostWakeup'
  <2>1. size' = size /\ waiting' \subseteq waiting /\ Poppers \subseteq Poppers'
    BY <1>6 DEF SpuriousWakeup, Poppers
  <2> QED BY <2>1, MorePoppers
<1> QED BY <1>2, <1>3, <1>4, <1>5, <1>6 DEF Next

(* c_rest_ts_queue_push signals once for each item: as long as a thread      *)
(* sleeps in c_rest_ts_queue_pop, every item has a popper that is awake.     *)
THEOREM WakeupsAreNotLost == Spec => []NoLostWakeup
<1>1. Init => NoLostWakeup
  BY DEF Init, NoLostWakeup
<1> QED BY <1>1, NoLostWakeupStep, IInvAlways, WaitAlways, PTL DEF Spec
-----------------------------------------------------------------------------
(* The queue as FifoQueue sees it, which does not show the lock, the nodes   *)
(* and the condition variable. *)
Items == [i \in DOMAIN order |-> data[order[i]]]
StageOf == [t \in Threads |-> Stage(t)]
ArgOf == [t \in Threads |-> IF Stage(t) = "push" THEN data[hand[t]] ELSE NoData]

LEMMA ItemsType ==
  ASSUME Struct
  PROVE  /\ order \in Seq(Nodes) /\ Len(order) \in Nat /\ DOMAIN order = 1 .. Len(order)
         /\ Items \in Seq(Data \cup {NoData}) /\ Len(Items) = Len(order) /\ DOMAIN Items = 1 .. Len(order)
         /\ \A i \in 1 .. Len(order) : order[i] \in Nodes /\ Items[i] = data[order[i]]
<1>1. order \in Seq(Nodes) /\ Len(order) \in Nat /\ DOMAIN order = 1 .. Len(order)
  BY DEF Struct, TypeOK
<1>2. \A i \in 1 .. Len(order) : order[i] \in Nodes /\ data[order[i]] \in Data \cup {NoData}
  BY <1>1 DEF Struct, TypeOK
<1> QED BY <1>1, <1>2 DEF Items

LEMMA EmptySequence == ASSUME NEW f, DOMAIN f = {}, f = [i \in DOMAIN f |-> f[i]] PROVE f = <<>>
<1>1. f \in [1 .. 0 -> {}]
  OBVIOUS
<1>2. f \in Seq({}) /\ Len(f) = 0
  BY <1>1
<1> QED BY <1>2

LEMMA FifoInit == Init => Fifo!Init
<1> SUFFICES ASSUME Init PROVE Fifo!Init
  OBVIOUS
<1>1. IInv
  BY IInvInit
<1>2. Items = <<>>
  BY <1>1, ItemsType DEF IInv, Init
<1>3. \A t \in Threads : Stage(t) = "idle"
  BY DEF Init, Stage
<1> QED BY <1>2, <1>3 DEF Init, Items, Fifo!Init

(* The call of one thread moves; the calls of the others look as before. *)
LEMMA OneStageMoves ==
  ASSUME IInv, NEW t \in Threads, NEW p \in Pcs, pc' = [pc EXCEPT ![t] = p]
  PROVE  StageOf' = [StageOf EXCEPT ![t] = Stage(t)']
<1>1. \A u \in Threads \ {t} : pc'[u] = pc[u]
  BY DEF IInv, Struct, TypeOK
<1>2. \A u \in Threads \ {t} : Stage(u)' = Stage(u)
  BY <1>1 DEF Stage
<1> QED BY <1>2 DEF StageOf

(* Steps inside a call, of which nobody outside sees anything. *)
LEMMA HiddenSteps ==
  ASSUME IInv, NEW t \in Threads,
         \/ Lock(t) \/ SpuriousWakeup(t) \/ PopEmpty(t) \/ PopWait(t) \/ PopUnlock(t) \/ Unlock(t) \/ FreeNode(t)
         \/ DestroyFree(t) \/ DestroyEnd(t)
  PROVE  UNCHANGED <<Items, isClosed, StageOf, ArgOf, rc, out>>
<1> USE DEF Lock, PushLock, PopLock, CloseLock, DestroyLock, SpuriousWakeup, PopEmpty, PopWait, PopUnlock, Unlock, FreeNode,
            DestroyFree, DestroyEnd, Goto, list, cells, sync, calls
<1>1. UNCHANGED <<order, data, isClosed, rc, out>>
  OBVIOUS
<1>2. Items' = Items
  BY <1>1 DEF Items
<1>3. \A u \in Threads : Stage(u)' = Stage(u)
  BY DEF Stage, IInv, Struct, TypeOK, DestroyPcs
<1>4. \A u \in Threads : Stage(u) = "push" => hand'[u] = hand[u]
  BY DEF Stage, IInv, Struct, TypeOK
<1>5. StageOf' = StageOf
  BY <1>3 DEF StageOf
<1>6. ArgOf' = ArgOf
  BY <1>1, <1>3, <1>4 DEF ArgOf
<1> QED BY <1>1, <1>2, <1>5, <1>6

(* A step that ends the visible part of a call: nothing is left to push. *)
LEMMA OneArgGoes ==
  ASSUME IInv, NEW t \in Threads, NEW p \in Pcs, pc' = [pc EXCEPT ![t] = p], Stage(t)' # "push",
         data' = data, \A u \in Threads \ {t} : hand'[u] = hand[u]
  PROVE  ArgOf' = [ArgOf EXCEPT ![t] = NoData]
<1>1. \A u \in Threads \ {t} : pc'[u] = pc[u]
  BY DEF IInv, Struct, TypeOK
<1>2. \A u \in Threads \ {t} : Stage(u)' = Stage(u)
  BY <1>1 DEF Stage
<1>3. \A u \in Threads \ {t} : ArgOf'[u] = ArgOf[u]
  BY <1>2 DEF ArgOf
<1>4. ArgOf'[t] = NoData
  BY DEF ArgOf
<1> QED BY <1>3, <1>4 DEF ArgOf

LEMMA CallStarts ==
  ASSUME IInv, NEW t \in Threads, PopCall(t) \/ CloseCall(t) \/ DestroyCall(t)
  PROVE  \E op \in {"pop", "close", "destroy"} : Fifo!Call(t, op, NoData)
<1> USE DEF PopCall, CloseCall, DestroyCall, Goto, list, cells, sync
<1>1. PICK p \in {"popLock", "closeLock", "destroyLock"} : pc' = [pc EXCEPT ![t] = p]
  OBVIOUS
<1>2. UNCHANGED <<order, data, isClosed, hand, rc, out>>
  OBVIOUS
<1>3. Stage(t) = "idle" /\ Stage(t)' \in {"pop", "close", "destroy"}
  BY <1>1 DEF Stage, IInv, Struct, TypeOK
<1>4. StageOf' = [StageOf EXCEPT ![t] = Stage(t)']
  BY <1>1, OneStageMoves DEF Pcs, DestroyPcs
<1>5. ArgOf' = [ArgOf EXCEPT ![t] = NoData]
  BY <1>1, <1>2, <1>3, OneArgGoes DEF Pcs, DestroyPcs
<1>6. Items' = Items
  BY <1>2 DEF Items
<1>7. StageOf[t] = "idle"
  BY <1>3 DEF StageOf
<1> QED BY <1>2, <1>3, <1>4, <1>5, <1>6, <1>7 DEF Fifo!Call, StageOf, ArgOf, Items

(* The node that push allocates is new: neither the list nor another hand    *)
(* has it, and what they hold keeps its data.                                *)
LEMMA PushStarts ==
  ASSUME IInv, NEW t \in Threads, NEW d \in Data, PushCall(t, d)
  PROVE  Fifo!Call(t, "push", d)
<1> USE DEF PushCall, Goto, list, sync
<1>1. PICK n \in Nodes \ heap : data' = [data EXCEPT ![n] = d] /\ hand' = [hand EXCEPT ![t] = n]
  OBVIOUS
<1>2. /\ heap = Linked \cup ({hand[u] : u \in Threads} \ {NoNode})
      /\ UNCHANGED <<order, isClosed, rc, out>>
  BY HeapSplit DEF IInv
<1>3. Items' = Items
  BY <1>1, <1>2, ItemsType DEF Items, Linked, IInv, Struct, TypeOK
<1>4. Stage(t) = "idle" /\ Stage(t)' = "push"
  BY DEF Stage, IInv, Struct, TypeOK
<1>5. StageOf' = [StageOf EXCEPT ![t] = "push"]
  BY <1>4, OneStageMoves DEF Pcs
<1>6. ASSUME NEW u \in Threads \ {t} PROVE ArgOf'[u] = ArgOf[u]
  <2>1. Stage(u)' = Stage(u)
    BY <1>5, <1>6 DEF StageOf
  <2>2. Stage(u) = "push" => hand[u] \in Nodes
    BY DEF Stage, IInv, Struct, TypeOK, HandInv, Carrying
  <2>3. hand'[u] = hand[u] /\ hand[u] # n
    BY <1>1, <1>2 DEF IInv, Struct, TypeOK
  <2> QED BY <1>1, <2>1, <2>2, <2>3 DEF ArgOf, IInv, Struct, TypeOK
<1>7. ArgOf'[t] = d
  BY <1>1, <1>4 DEF ArgOf, IInv, Struct, TypeOK
<1>8. ArgOf' = [ArgOf EXCEPT ![t] = d]
  BY <1>6, <1>7 DEF ArgOf
<1>9. StageOf[t] = "idle"
  BY <1>4 DEF StageOf
<1> QED BY <1>2, <1>3, <1>5, <1>8, <1>9 DEF Fifo!Call, StageOf, ArgOf, Items

(* The step at which a call takes effect. *)
LEMMA CallEffect ==
  ASSUME IInv, NEW t \in Threads, NEW p \in Pcs, NEW r, NEW d,
         Finish(t, p, r, d), Stage(t)' = "done",
         data' = data, \A u \in Threads \ {t} : hand'[u] = hand[u]
  PROVE  Fifo!Effect(t, Stage(t), r, d)
<1> USE DEF Finish, Goto
<1>1. StageOf' = [StageOf EXCEPT ![t] = "done"]
  BY OneStageMoves
<1>2. ArgOf' = [ArgOf EXCEPT ![t] = NoData]
  BY OneArgGoes
<1>3. StageOf[t] = Stage(t)
  BY DEF StageOf
<1> QED BY <1>1, <1>2, <1>3 DEF Fifo!Effect, StageOf, ArgOf

LEMMA InitQueueIsReset ==
  ASSUME IInv, NEW t \in Threads, NEW ok \in BOOLEAN, InitQueue(t, ok)
  PROVE  \E r \in {"ok", "error"} : Fifo!Reset(t, r)
<1> USE DEF InitQueue, cells, sync
<1>1. PICK r \in {"ok", "error"} : Finish(t, "return", r, NoData)
  OBVIOUS
<1>2. Stage(t) = "idle" /\ Stage(t)' = "done"
  BY DEF Stage, Finish, Goto, IInv, Struct, TypeOK
<1>3. Fifo!Effect(t, "idle", r, NoData)
  BY <1>1, <1>2, CallEffect DEF Pcs
<1>4. \A u \in Threads \ {t} : StageOf[u] = "idle"
  BY DEF StageOf, Stage, Quiet
<1>5. Items' = <<>>
  <2>1. DOMAIN Items' = {}
    BY DEF Items
  <2> QED BY <2>1, EmptySequence DEF Items
<1> QED BY <1>3, <1>4, <1>5 DEF Fifo!Reset, StageOf, Items

LEMMA PushTakesEffect ==
  ASSUME IInv, NEW t \in Threads, PushLink(t)
  PROVE  Fifo!Push(t)
<1> USE DEF PushLink, MayLink
<1>1. Stage(t) = "push" /\ Stage(t)' = "done" /\ StageOf[t] = "push" /\ hand[t] \in Nodes
  BY DEF StageOf, Stage, Finish, Goto, IInv, Struct, TypeOK, HandInv, Carrying
<1>2. Fifo!Effect(t, "push", "ok", NoData)
  BY <1>1, CallEffect DEF Pcs, IInv, Struct, TypeOK
<1>3. ArgOf[t] = data[hand[t]]
  BY <1>1 DEF ArgOf
<1>4. Items' = Append(Items, ArgOf[t])
  <2> DEFINE len == Len(order)
  <2>1. order' = Append(order, hand[t]) /\ data' = data
    OBVIOUS
  <2>2. /\ order \in Seq(Nodes) /\ len \in Nat /\ Items \in Seq(Data \cup {NoData}) /\ Len(Items) = len
        /\ \A i \in 1 .. len : Items[i] = data[order[i]]
    BY ItemsType DEF IInv
  <2>3. /\ DOMAIN order' = 1 .. len + 1 /\ order'[len + 1] = hand[t]
        /\ \A i \in 1 .. len : order'[i] = order[i]
    BY <1>1, <2>1, <2>2
  <2>4. Items' = [i \in 1 .. len + 1 |-> IF i = len + 1 THEN data[hand[t]] ELSE Items[i]]
    BY <2>1, <2>2, <2>3 DEF Items
  <2> HIDE DEF len, Items
  <2>5. Append(Items, ArgOf[t]) = [i \in 1 .. len + 1 |-> IF i = len + 1 THEN ArgOf[t] ELSE Items[i]]
    BY <2>2
  <2> QED BY <1>3, <2>4, <2>5
<1> QED BY <1>2, <1>4 DEF Fifo!Push, Items, ArgOf

LEMMA PopTakesEffect ==
  ASSUME IInv, NEW t \in Threads, PopTake(t)
  PROVE  Fifo!Pop(t)
<1> USE DEF PopTake, cells, sync
<1>1. Stage(t) = "pop" /\ Stage(t)' = "done"
  BY DEF Stage, Finish, Goto, IInv, Struct, TypeOK
<1> DEFINE len == Len(order)
<1>2. /\ order \in Seq(Nodes) /\ len \in Nat \ {0} /\ Items \in Seq(Data \cup {NoData}) /\ Len(Items) = len
      /\ order # <<>> /\ Items # <<>> /\ head = order[1]
      /\ \A i \in 1 .. len : Items[i] = data[order[i]]
  BY ItemsType DEF IInv, Struct, ListWellFormed
<1>3. data[head] = Head(Items)
  <2>1. Head(Items) = Items[1] /\ 1 \in 1 .. len
    BY <1>2
  <2> QED BY <1>2, <2>1
<1>4. Items' = Tail(Items)
  <2>1. order' = Tail(order) /\ data' = data
    OBVIOUS
  <2>2. DOMAIN order' = 1 .. len - 1 /\ \A i \in 1 .. len - 1 : order'[i] = order[i + 1]
    BY <1>2, <2>1
  <2>3. Items' = [i \in 1 .. len - 1 |-> Items[i + 1]]
    BY <1>2, <2>1, <2>2 DEF Items
  <2> HIDE DEF len, Items
  <2>4. /\ Tail(Items) \in Seq(Data \cup {NoData}) /\ Len(Tail(Items)) = len - 1
        /\ \A i \in 1 .. len - 1 : Tail(Items)[i] = Items[i + 1]
    BY <1>2
  <2>5. Tail(Items) \in [1 .. len - 1 -> Data \cup {NoData}]
    BY <2>4, LenProperties
  <2>6. Tail(Items) = [i \in 1 .. len - 1 |-> Items[i + 1]]
    BY <2>4, <2>5
  <2> QED BY <2>3, <2>6
<1>5. Fifo!Effect(t, "pop", "ok", Head(Items))
  <2>1. PICK d : d = data[head]
    OBVIOUS
  <2>2. Fifo!Effect(t, Stage(t), "ok", d)
    <3>1. \A u \in Threads \ {t} : hand'[u] = hand[u]
      BY DEF IInv, Struct, TypeOK
    <3>2. data' = data /\ Finish(t, "popUnlock", "ok", d) /\ "popUnlock" \in Pcs
      BY <2>1 DEF Pcs
    <3> HIDE DEF PopTake
    <3> QED BY <1>1, <3>1, <3>2, CallEffect
  <2> QED BY <1>1, <1>3, <2>1, <2>2 DEF Fifo!Effect
<1>6. UNCHANGED isClosed
  OBVIOUS
<1> HIDE DEF len, PopTake
<1>7. Items # <<>>
  BY <1>2
<1> QED BY <1>4, <1>5, <1>6, <1>7 DEF Fifo!Pop, Items

(* The other calls take effect without moving an item, but destroy, which    *)
(* drops them all. *)
LEMMA OtherEffects ==
  ASSUME IInv, NEW t \in Threads
  PROVE  /\ PushNoMemory(t) => Fifo!NoMemory(t)
         /\ PushRefused(t) => Fifo!Refuse(t)
         /\ PopDrained(t) => Fifo!Drained(t)
         /\ CloseSet(t) => Fifo!Close(t)
         /\ DestroyClear(t) => Fifo!Destroy(t)
<1> USE DEF list, cells, sync
<1>1. ASSUME PushNoMemory(t) PROVE Fifo!NoMemory(t)
  <2> USE <1>1 DEF PushNoMemory
  <2>1. Stage(t) = "idle" /\ Stage(t)' = "done"
    BY DEF Stage, Finish, Goto, IInv, Struct, TypeOK
  <2>2. Fifo!Effect(t, "idle", "error", NoData)
    BY <2>1, CallEffect DEF Pcs
  <2>3. Items' = Items
    BY DEF Items
  <2> QED BY <2>2, <2>3 DEF Fifo!NoMemory, Items
<1>2. ASSUME PushRefused(t) PROVE Fifo!Refuse(t)
  <2> USE <1>2 DEF PushRefused
  <2>1. Stage(t) = "push" /\ Stage(t)' = "done"
    BY DEF Stage, Finish, Goto, IInv, Struct, TypeOK
  <2>2. Fifo!Effect(t, "push", "error", NoData)
    BY <2>1, CallEffect DEF Pcs
  <2>3. Items' = Items
    BY DEF Items
  <2> QED BY <2>2, <2>3 DEF Fifo!Refuse, Items
<1>3. ASSUME PopDrained(t) PROVE Fifo!Drained(t)
  <2> USE <1>3 DEF PopDrained
  <2>1. Stage(t) = "pop" /\ Stage(t)' = "done"
    BY DEF Stage, Finish, Goto, IInv, Struct, TypeOK
  <2>2. Fifo!Effect(t, "pop", "error", NoData)
    BY <2>1, CallEffect DEF Pcs
  <2>3. Items' = Items
    BY DEF Items
  <2>4. Items = <<>>
    BY ItemsType DEF IInv, Struct, ListWellFormed
  <2> QED BY <2>2, <2>3, <2>4 DEF Fifo!Drained, Items
<1>4. ASSUME CloseSet(t) PROVE Fifo!Close(t)
  <2> USE <1>4 DEF CloseSet
  <2>1. Stage(t) = "close" /\ Stage(t)' = "done"
    BY DEF Stage, Finish, Goto, IInv, Struct, TypeOK
  <2>2. Fifo!Effect(t, "close", "ok", NoData)
    BY <2>1, CallEffect DEF Pcs
  <2>3. Items' = Items
    BY DEF Items
  <2> QED BY <2>2, <2>3 DEF Fifo!Close, Items
<1>5. ASSUME DestroyClear(t) PROVE Fifo!Destroy(t)
  <2> USE <1>5 DEF DestroyClear
  <2>1. Stage(t) = "destroy" /\ Stage(t)' = "done"
    BY DEF Stage, Finish, Goto, IInv, Struct, TypeOK, DestroyPcs
  <2>2. Fifo!Effect(t, "destroy", "ok", NoData)
    BY <2>1, CallEffect DEF Pcs, DestroyPcs
  <2>3. Items' = <<>>
    <3>1. DOMAIN Items' = {}
      BY DEF Items
    <3> QED BY <3>1, EmptySequence DEF Items
  <2>4. \A u \in Threads \ {t} : StageOf[u] = "idle"
    BY DEF StageOf, Stage, IInv, Control, AloneInv, DestroyPcs
  <2> QED BY <2>2, <2>3, <2>4 DEF Fifo!Destroy, StageOf, Items
<1> QED BY <1>1, <1>2, <1>3, <1>4, <1>5

LEMMA ReturnReturns ==
  ASSUME IInv, NEW t \in Threads, Return(t)
  PROVE  Fifo!Return(t)
<1> USE DEF Return, Finish, Goto, list, cells, sync
<1>1. Stage(t) = "done" /\ Stage(t)' = "idle" /\ StageOf[t] = "done"
  BY DEF StageOf, Stage, IInv, Struct, TypeOK, DestroyPcs
<1>2. StageOf' = [StageOf EXCEPT ![t] = "idle"]
  BY <1>1, OneStageMoves DEF Pcs
<1>3. ArgOf' = ArgOf
  <2>1. ArgOf' = [ArgOf EXCEPT ![t] = NoData]
    BY <1>1, OneArgGoes DEF Pcs
  <2>2. ArgOf[t] = NoData
    BY <1>1 DEF ArgOf
  <2> QED BY <2>1, <2>2 DEF ArgOf
<1>4. Items' = Items
  BY DEF Items
<1> QED BY <1>1, <1>2, <1>3, <1>4 DEF Fifo!Return, StageOf, ArgOf, Items

LEMMA FifoStep == IInv /\ [Next]_vars => [Fifo!Next]_Fifo!vars
<1> SUFFICES ASSUME IInv, [Next]_vars PROVE Fifo!Next \/ UNCHANGED <<Items, isClosed, StageOf, ArgOf, rc, out>>
  BY DEF Fifo!vars, Items, StageOf, ArgOf
<1>1. CASE UNCHANGED vars
  BY <1>1 DEF vars, list, cells, sync, calls, Items, StageOf, ArgOf, Stage
<1>2. ASSUME NEW t \in Threads, StartCall(t) PROVE Fifo!Next
  BY <1>2, InitQueueIsReset, PushStarts, OtherEffects, CallStarts DEF StartCall, Fifo!Next
<1>3. ASSUME NEW t \in Threads, Proceed(t)
      PROVE  Fifo!Next \/ UNCHANGED <<Items, isClosed, StageOf, ArgOf, rc, out>>
  BY <1>3, HiddenSteps, PushTakesEffect, PopTakesEffect, OtherEffects, ReturnReturns DEF Proceed, Fifo!Next
<1>4. ASSUME NEW t \in Threads, Lock(t) \/ SpuriousWakeup(t)
      PROVE  UNCHANGED <<Items, isClosed, StageOf, ArgOf, rc, out>>
  BY <1>4, HiddenSteps
<1> QED BY <1>1, <1>2, <1>3, <1>4 DEF Next

(* Every call of c_rest_ts_queue_push, pop, close, init and destroy takes    *)
(* effect at one instant between its start and its return, in an order in    *)
(* which the queue is first-in first-out.                                    *)
THEOREM QueueIsLinearizable == Spec => Linearizable
BY FifoInit, FifoStep, IInvAlways, PTL DEF Spec, Linearizable, Fifo!Spec
=============================================================================
