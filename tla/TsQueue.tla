------------------------------- MODULE TsQueue -------------------------------
(***************************************************************************)
(* c_rest_ts_queue: a singly linked list behind one mutex and one          *)
(* condition variable (src/src/c_rest_ts_queue.c).  Threads call init,     *)
(* push, pop, close and destroy; each call is cut where another thread can *)
(* run: at the lock, inside cond_wait, at the unlock, and before and after *)
(* the critical section, where nodes are allocated and freed.              *)
(*                                                                         *)
(* The wrappers of platform_posix.c return an error for a mutex or a       *)
(* condition variable only when the handle is NULL, which it never is      *)
(* between a successful init and destroy; those branches are left out.     *)
(* malloc may fail at any time.                                            *)
(***************************************************************************)
EXTENDS Naturals, Sequences, FiniteSets

CONSTANTS Threads,   (* the threads that call the queue               *)
          Nodes,     (* the addresses malloc can return for a node    *)
          Data,      (* the pointers that are pushed                  *)
          NoThread,  (* nobody holds the mutex                        *)
          NoNode,    (* a NULL node pointer                           *)
          NoData     (* a NULL data pointer                           *)

ASSUME NullAssumption ==
  /\ NoThread \notin Threads
  /\ NoNode \notin Nodes
  /\ NoData \notin Data

ASSUME FiniteAssumption == IsFiniteSet(Threads)

VARIABLES
  head, tail,  (* c_rest_ts_queue: first and last node                  *)
  size,        (* c_rest_ts_queue.size                                  *)
  isClosed,    (* c_rest_ts_queue.is_closed                             *)
  live,        (* the mutex and the condition variable exist            *)
  next, data,  (* the fields of each node                               *)
  heap,        (* the nodes that are allocated                          *)
  owner,       (* the thread that holds queue->mutex                    *)
  waiting,     (* the threads asleep in cond_wait on queue->cond        *)
  pc,          (* per thread: where it is in its call                   *)
  hand,        (* per thread: the local variable `node'                 *)
  rc, out,     (* per thread: the value returned, and *out_data         *)
  order        (* history only: the linked nodes, first to last         *)

list == <<head, tail, size, order>>
cells == <<next, data, heap>>
sync == <<owner, waiting>>
calls == <<pc, hand, rc, out>>
vars == <<list, isClosed, live, cells, sync, calls>>

Goto(t, where) == pc' = [pc EXCEPT ![t] = where]

(* The call of t goes on to `where', and will return r and hand over d. *)
Finish(t, where, r, d) ==
  /\ Goto(t, where)
  /\ rc' = [rc EXCEPT ![t] = r]
  /\ out' = [out EXCEPT ![t] = d]

(* c_rest_mutex_lock and c_rest_mutex_unlock. *)
Acquire(t) == owner = NoThread /\ owner' = t
Release(t) == owner' = NoThread

(* c_rest_cond_signal: one sleeper, if there is one, leaves cond_wait. *)
Signal ==
  IF waiting = {} THEN UNCHANGED waiting
                  ELSE \E u \in waiting : waiting' = waiting \ {u}

DestroyPcs == {"destroyLock", "destroyFree", "destroyEnd"}

(* Callers do not use a queue that is not initialised, or is being destroyed. *)
Usable == live /\ \A u \in Threads : pc[u] \notin DestroyPcs

Quiet(t) == \A u \in Threads \ {t} : pc[u] = "idle"
-----------------------------------------------------------------------------
(* c_rest_ts_queue_init, on a queue no thread is using: the fields are reset *)
(* even when the mutex or the condition variable cannot be allocated.        *)
InitQueue(t, ok) ==
  /\ pc[t] = "idle" /\ ~live /\ Quiet(t)
  /\ head' = NoNode /\ tail' = NoNode /\ size' = 0 /\ order' = <<>>
  /\ isClosed' = FALSE
  /\ live' = ok
  /\ Finish(t, "return", IF ok THEN "ok" ELSE "error", NoData)
  /\ UNCHANGED <<cells, sync, hand>>

(* c_rest_ts_queue_push up to the lock: the node is allocated outside it. *)
PushCall(t, d) ==
  /\ pc[t] = "idle" /\ Usable
  /\ \E n \in Nodes \ heap :
       /\ heap' = heap \cup {n}
       /\ data' = [data EXCEPT ![n] = d]
       /\ next' = [next EXCEPT ![n] = NoNode]
       /\ hand' = [hand EXCEPT ![t] = n]
  /\ Goto(t, "pushLock")
  /\ UNCHANGED <<list, isClosed, live, sync, rc, out>>

PushNoMemory(t) ==
  /\ pc[t] = "idle" /\ Usable
  /\ Finish(t, "return", "error", NoData)
  /\ UNCHANGED <<list, isClosed, live, cells, sync, hand>>

PushLock(t) ==
  /\ pc[t] = "pushLock"
  /\ Acquire(t)
  /\ Goto(t, "pushTest")
  /\ UNCHANGED <<list, isClosed, live, cells, waiting, hand, rc, out>>

PushRefusedLeaking(t) ==  \* the free on the closed path forgotten
  /\ pc[t] = "pushTest" /\ isClosed
  /\ Release(t)
  /\ Finish(t, "return", "error", NoData)
  /\ UNCHANGED <<list, isClosed, live, cells, waiting, hand>>

(* queue->is_closed: unlock; the node is freed outside the lock. *)
PushRefused(t) ==
  /\ pc[t] = "pushTest" /\ isClosed
  /\ Release(t)
  /\ Finish(t, "freeNode", "error", NoData)
  /\ UNCHANGED <<list, isClosed, live, cells, waiting, hand>>

MayLinkAlways == TRUE  \* is_closed not looked at under the lock
MayLink == ~isClosed

(* Signal only when the queue stops being empty. *)
SignalPushFirst == IF size = 0 THEN Signal ELSE UNCHANGED waiting
SignalPush == Signal

(* Link the node at the tail, count it, signal. *)
PushLink(t) ==
  /\ pc[t] = "pushTest" /\ MayLink
  /\ IF tail # NoNode
     THEN next' = [next EXCEPT ![tail] = hand[t]] /\ UNCHANGED head
     ELSE head' = hand[t] /\ UNCHANGED next
  /\ tail' = hand[t]
  /\ size' = size + 1
  /\ order' = Append(order, hand[t])
  /\ hand' = [hand EXCEPT ![t] = NoNode]
  /\ SignalPush
  /\ Finish(t, "unlock", "ok", NoData)
  /\ UNCHANGED <<isClosed, live, data, heap, owner>>

(* The last unlock of push, of close and of a pop that found nothing. *)
Unlock(t) ==
  /\ pc[t] = "unlock"
  /\ Release(t)
  /\ Goto(t, "return")
  /\ UNCHANGED <<list, isClosed, live, cells, waiting, hand, rc, out>>

(* C_REST_FREE of the node in hand, outside the lock. *)
FreeNode(t) ==
  /\ pc[t] = "freeNode"
  /\ heap' = heap \ {hand[t]}
  /\ hand' = [hand EXCEPT ![t] = NoNode]
  /\ Goto(t, "return")
  /\ UNCHANGED <<list, isClosed, live, next, data, sync, rc, out>>
-----------------------------------------------------------------------------
(* c_rest_ts_queue_pop. *)
PopCall(t) ==
  /\ pc[t] = "idle" /\ Usable
  /\ Goto(t, "popLock")
  /\ UNCHANGED <<list, isClosed, live, cells, sync, hand, rc, out>>

(* The first lock of pop, and the one cond_wait takes before it returns. *)
PopLock(t) ==
  /\ pc[t] = "popLock" /\ t \notin waiting
  /\ Acquire(t)
  /\ Goto(t, "popTest")
  /\ UNCHANGED <<list, isClosed, live, cells, waiting, hand, rc, out>>

MustWait == size = 0 /\ ~isClosed

(* The test of the while loop says to wait. *)
PopEmpty(t) ==
  /\ pc[t] = "popTest" /\ MustWait
  /\ Goto(t, "popWait")
  /\ UNCHANGED <<list, isClosed, live, cells, sync, hand, rc, out>>

(* Its body: c_rest_cond_wait gives up the mutex and sleeps, whatever has    *)
(* become of the queue since the test.                                       *)
PopWait(t) ==
  /\ pc[t] = "popWait"
  /\ Release(t)
  /\ waiting' = waiting \cup {t}
  /\ Goto(t, "popLock")
  /\ UNCHANGED <<list, isClosed, live, cells, hand, rc, out>>

(* pthread_cond_wait may return although nobody signalled. *)
SpuriousWakeup(t) ==
  /\ t \in waiting
  /\ waiting' = waiting \ {t}
  /\ UNCHANGED <<list, isClosed, live, cells, owner, calls>>

PopDrainedCounting(t) ==  \* size-- before the emptiness test
  /\ pc[t] = "popTest" /\ size = 0 /\ isClosed
  /\ size' = size - 1
  /\ Finish(t, "unlock", "error", NoData)
  /\ UNCHANGED <<head, tail, order, isClosed, live, cells, sync, hand>>

(* Closed and empty: *out_data = NULL and an error. *)
PopDrained(t) ==
  /\ pc[t] = "popTest" /\ size = 0 /\ isClosed
  /\ Finish(t, "unlock", "error", NoData)
  /\ UNCHANGED <<list, isClosed, live, cells, sync, hand>>

TailAfterKept(h) == tail  \* tail not reset when the last node goes
TailAfter(h) == IF h = NoNode THEN NoNode ELSE tail

(* Unlink the head. *)
PopTake(t) ==
  /\ pc[t] = "popTest" /\ size # 0
  /\ hand' = [hand EXCEPT ![t] = head]
  /\ head' = next[head]
  /\ tail' = TailAfter(next[head])
  /\ size' = size - 1
  /\ order' = Tail(order)
  /\ Finish(t, "popUnlock", "ok", data[head])
  /\ UNCHANGED <<isClosed, live, cells, sync>>

PopUnlock(t) ==
  /\ pc[t] = "popUnlock"
  /\ Release(t)
  /\ Goto(t, "freeNode")
  /\ UNCHANGED <<list, isClosed, live, cells, waiting, hand, rc, out>>
-----------------------------------------------------------------------------
(* c_rest_ts_queue_close. *)
CloseCall(t) ==
  /\ pc[t] = "idle" /\ Usable
  /\ Goto(t, "closeLock")
  /\ UNCHANGED <<list, isClosed, live, cells, sync, hand, rc, out>>

CloseLockUnheld(t) ==  \* close sets its flag without the mutex
  /\ pc[t] = "closeLock"
  /\ Goto(t, "closeSet")
  /\ UNCHANGED <<list, isClosed, live, cells, sync, hand, rc, out>>

CloseLock(t) ==
  /\ pc[t] = "closeLock"
  /\ Acquire(t)
  /\ Goto(t, "closeSet")
  /\ UNCHANGED <<list, isClosed, live, cells, waiting, hand, rc, out>>

CloseSet(t) ==
  /\ pc[t] = "closeSet"
  /\ isClosed' = TRUE
  /\ Signal
  /\ Finish(t, "unlock", "ok", NoData)
  /\ UNCHANGED <<list, live, cells, owner, hand>>

(* c_rest_ts_queue_destroy, called when no other thread is in a call. *)
DestroyCall(t) ==
  /\ pc[t] = "idle" /\ Usable /\ Quiet(t)
  /\ Goto(t, "destroyLock")
  /\ UNCHANGED <<list, isClosed, live, cells, sync, hand, rc, out>>

DestroyLock(t) ==
  /\ pc[t] = "destroyLock"
  /\ Acquire(t)
  /\ hand' = [hand EXCEPT ![t] = head]
  /\ Goto(t, "destroyFree")
  /\ UNCHANGED <<list, isClosed, live, cells, waiting, rc, out>>

(* One turn of the loop that frees the nodes, and what they carry. *)
DestroyFree(t) ==
  /\ pc[t] = "destroyFree" /\ hand[t] # NoNode
  /\ heap' = heap \ {hand[t]}
  /\ hand' = [hand EXCEPT ![t] = next[hand[t]]]
  /\ UNCHANGED <<list, isClosed, live, next, data, sync, pc, rc, out>>

DestroyClear(t) ==
  /\ pc[t] = "destroyFree" /\ hand[t] = NoNode
  /\ head' = NoNode /\ tail' = NoNode /\ size' = 0 /\ order' = <<>>
  /\ Finish(t, "destroyEnd", "ok", NoData)
  /\ UNCHANGED <<isClosed, live, cells, sync, hand>>

(* Unlock, then destroy the mutex and the condition variable. *)
DestroyEnd(t) ==
  /\ pc[t] = "destroyEnd"
  /\ Release(t)
  /\ live' = FALSE
  /\ Goto(t, "return")
  /\ UNCHANGED <<list, isClosed, cells, waiting, hand, rc, out>>

Return(t) ==
  /\ pc[t] = "return"
  /\ Finish(t, "idle", "none", NoData)
  /\ UNCHANGED <<list, isClosed, live, cells, sync, hand>>
-----------------------------------------------------------------------------
Init ==
  /\ head = NoNode /\ tail = NoNode /\ size = 0 /\ order = <<>>
  /\ isClosed = FALSE
  /\ live = FALSE
  /\ next = [n \in Nodes |-> NoNode]
  /\ data = [n \in Nodes |-> NoData]
  /\ heap = {}
  /\ owner = NoThread
  /\ waiting = {}
  /\ pc = [t \in Threads |-> "idle"]
  /\ hand = [t \in Threads |-> NoNode]
  /\ rc = [t \in Threads |-> "none"]
  /\ out = [t \in Threads |-> NoData]

StartCall(t) ==
  \/ \E ok \in BOOLEAN : InitQueue(t, ok)
  \/ \E d \in Data : PushCall(t, d)
  \/ PushNoMemory(t)
  \/ PopCall(t)
  \/ CloseCall(t)
  \/ DestroyCall(t)

Lock(t) == PushLock(t) \/ PopLock(t) \/ CloseLock(t) \/ DestroyLock(t)

Proceed(t) ==
  \/ PushRefused(t) \/ PushLink(t)
  \/ PopEmpty(t) \/ PopWait(t)
  \/ PopDrained(t) \/ PopTake(t) \/ PopUnlock(t)
  \/ CloseSet(t)
  \/ DestroyFree(t) \/ DestroyClear(t) \/ DestroyEnd(t)
  \/ Unlock(t) \/ FreeNode(t) \/ Return(t)

Next ==
  \E t \in Threads : StartCall(t) \/ Lock(t) \/ Proceed(t) \/ SpuriousWakeup(t)

Spec == Init /\ [][Next]_vars

(* The scheduler runs every thread that is inside a call, and a mutex that   *)
(* is released again and again is granted in the end.  Nobody has to call,   *)
(* and no wakeup has to be spurious.                                         *)
Fairness == \A t \in Threads : WF_vars(Proceed(t)) /\ SF_vars(Lock(t))

FairSpec == Spec /\ Fairness
-----------------------------------------------------------------------------
Pcs == {"idle", "pushLock", "pushTest", "popLock", "popTest", "popWait",
        "popUnlock", "closeLock", "closeSet", "unlock", "freeNode", "return"} \cup DestroyPcs

TypeOK ==
  /\ head \in Nodes \cup {NoNode} /\ tail \in Nodes \cup {NoNode}
  /\ size \in Nat
  /\ order \in Seq(Nodes)
  /\ isClosed \in BOOLEAN /\ live \in BOOLEAN
  /\ next \in [Nodes -> Nodes \cup {NoNode}]
  /\ data \in [Nodes -> Data \cup {NoData}]
  /\ heap \subseteq Nodes
  /\ owner \in Threads \cup {NoThread}
  /\ waiting \subseteq Threads
  /\ pc \in [Threads -> Pcs]
  /\ hand \in [Threads -> Nodes \cup {NoNode}]
  /\ rc \in [Threads -> {"none", "ok", "error"}]
  /\ out \in [Threads -> Data \cup {NoData}]

Linked == {order[i] : i \in DOMAIN order}
Destroying == \E t \in Threads : pc[t] = "destroyFree"

(* What head, tail, next and size say is one list without a cycle: size      *)
(* counts it, each node leads to the following one, and the last one to NULL *)
(* (push and pop keep the two ends, the links and the count in step).        *)
ListWellFormed ==
  /\ size = Len(order)
  /\ \A i, j \in DOMAIN order : order[i] = order[j] => i = j
  /\ head = (IF order = <<>> THEN NoNode ELSE order[1])
  /\ tail = (IF order = <<>> THEN NoNode ELSE order[Len(order)])
  /\ \A i \in DOMAIN order :
       next[order[i]] = (IF i = Len(order) THEN NoNode ELSE order[i + 1])

(* Every allocated node has exactly one owner, the list or the thread that   *)
(* pushes or pops it, so none is leaked, freed twice or used after free.     *)
OneOwner ==
  /\ \A t, u \in Threads : hand[t] = hand[u] /\ hand[t] # NoNode => t = u
  /\ ~Destroying =>
       /\ heap = Linked \cup ({hand[t] : t \in Threads} \ {NoNode})
       /\ \A t \in Threads : hand[t] \notin Linked
  /\ ~live => heap = {}

(* The threads inside pop that are not asleep. *)
Poppers == {t \in Threads : pc[t] \in {"popLock", "popTest"} /\ t \notin waiting}

(* No wakeup is lost: as long as a thread sleeps in cond_wait, there are at  *)
(* least as many threads on their way to take an item as there are items.    *)
NoLostWakeup == waiting # {} => size <= Cardinality(Poppers)

(* Once the queue is closed no pop goes to sleep any more: a thread that has *)
(* seen the queue open sleeps on that test, so close must not come between   *)
(* the two.  pop keeps the mutex from the one to the other, and close sets   *)
(* its flag under the same mutex.                                            *)
NoSleepAfterClose == [][isClosed => waiting' \subseteq waiting]_vars

(* A thread that sleeps while there is something to take does not sleep on   *)
(* until the end of time: it is woken, or others empty the queue.            *)
SleeperServed ==
  \A t \in Threads : (t \in waiting /\ size > 0) ~> (t \notin waiting \/ size = 0)

(* The call in progress of t, as FifoQueue sees it. *)
Stage(t) ==
  CASE pc[t] = "idle" -> "idle"
    [] pc[t] \in {"pushLock", "pushTest"} -> "push"
    [] pc[t] \in {"popLock", "popTest", "popWait"} -> "pop"
    [] pc[t] \in {"closeLock", "closeSet"} -> "close"
    [] pc[t] \in {"destroyLock", "destroyFree"} -> "destroy"
    [] OTHER -> "done"

Fifo == INSTANCE FifoQueue WITH
  items <- [i \in DOMAIN order |-> data[order[i]]],
  closed <- isClosed,
  stage <- [t \in Threads |-> Stage(t)],
  arg <- [t \in Threads |-> IF Stage(t) = "push" THEN data[hand[t]] ELSE NoData]

(* Each call takes effect at one instant between its start and its return,   *)
(* in an order in which the queue is first-in first-out.                     *)
Linearizable == Fifo!Spec
=============================================================================
