------------------------------- MODULE MemTracker -------------------------------
(***************************************************************************)
(* The leak tracker of src/src/c_rest_mem.c: a list of nodes, one for each *)
(* block that is out, under one mutex.  Each critical section is a step;   *)
(* the C allocator runs outside it, and c_rest_mem_realloc finds its node  *)
(* in one section and writes it after the block has moved, in none.        *)
(* A new node goes to the head: a search finds the latest node of an       *)
(* address, which matters when an address comes back before the node of    *)
(* its former owner is rewritten.                                          *)
(***************************************************************************)
EXTENDS Integers, Sequences, FiniteSets

CONSTANTS Threads, Addresses, Nodes, NoNode

ASSUME NoNodeAssumption == NoNode \notin Nodes

VARIABLES
  tracking,    (* mem_initialized                                             *)
  blocks,      (* the addresses malloc has given out                          *)
  list,        (* mem_list                                                    *)
  ptrOf,       (* node->ptr, NoNode if unset                                  *)
  task,        (* per thread: the call it is in                               *)
  held,        (* history, per thread: the blocks it has been given           *)
  untracked,   (* history: the blocks given out that never had a node, or     *)
               (* whose node a cleanup took                                   *)
  overlapped   (* history: two calls of realloc were under way at once        *)

memVars == <<tracking, blocks, list, ptrOf, task, held, untracked, overlapped>>

Resting == [at |-> "rest"]
Allocating(kind, p) == [at |-> "node", kind |-> kind, ptr |-> p]
Linking(n, p) == [at |-> "link", node |-> n, ptr |-> p]
Releasing(p) == [at |-> "release", ptr |-> p]
Moving(n, p) == [at |-> "move", node |-> n, ptr |-> p]
Storing(n, q) == [at |-> "store", node |-> n, moved |-> q]

AllResting == \A t \in Threads : task[t].at = "rest"
Reallocating(t) == task[t].at \in {"move", "store"}

FreeAddresses == Addresses \ blocks
OnList == {list[i] : i \in DOMAIN list}
FreeNodes == Nodes \ (OnList \union {task[t].node : t \in {u \in Threads : task[u].at = "link"}})

(* The search both remove_node and c_rest_mem_realloc make. *)
FoundAt(p) == {i \in DOMAIN list : ptrOf[list[i]] = p}
First(S) == CHOOSE i \in S : \A j \in S : i <= j
NodeOf(p) == IF FoundAt(p) = {} THEN NoNode ELSE list[First(FoundAt(p))]

Unlinked(k) == [i \in 1 .. Len(list) - 1 |-> IF i < k THEN list[i] ELSE list[i + 1]]

MemInit ==
  /\ tracking = FALSE /\ blocks = {} /\ list = <<>>
  /\ ptrOf = [n \in Nodes |-> NoNode]
  /\ task = [t \in Threads |-> Resting]
  /\ held = [t \in Threads |-> {}]
  /\ untracked = {} /\ overlapped = FALSE

InitTracker ==
  /\ AllResting /\ ~tracking
  /\ tracking' = TRUE
  /\ UNCHANGED <<blocks, list, ptrOf, task, held, untracked, overlapped>>

(* c_rest_mem_tracker_cleanup frees the nodes, not what they stand for. *)
CleanupTracker ==
  /\ AllResting /\ tracking
  /\ tracking' = FALSE /\ list' = <<>>
  /\ untracked' = UNION {held[t] : t \in Threads}
  /\ UNCHANGED <<blocks, ptrOf, task, held, overlapped>>

(* c_rest_mem_malloc, _calloc and _strdup up to add_node, and                *)
(* c_rest_mem_realloc of NULL, which is malloc.                              *)
Allocate(t) ==
  /\ task[t].at = "rest"
  /\ \E p \in FreeAddresses, kind \in {"malloc", "calloc", "strdup"} :
       /\ blocks' = blocks \union {p}
       /\ task' = [task EXCEPT ![t] = Allocating(kind, p)]
  /\ UNCHANGED <<tracking, list, ptrOf, held, untracked, overlapped>>

AddNode(t) ==
  /\ task[t].at = "node" /\ tracking
  /\ \E n \in FreeNodes :
       /\ ptrOf' = [ptrOf EXCEPT ![n] = task[t].ptr]
       /\ task' = [task EXCEPT ![t] = Linking(n, task[t].ptr)]
  /\ UNCHANGED <<tracking, blocks, list, held, untracked, overlapped>>

(* add_node fails: no memory, or no tracker.  The block is freed, but        *)
(* c_rest_mem_malloc keeps it and does not tell the caller where it is.      *)
AddNodeFails(t) ==
  /\ task[t].at = "node"
  /\ blocks' = IF task[t].kind = "malloc" THEN blocks ELSE blocks \ {task[t].ptr}
  /\ task' = [task EXCEPT ![t] = Resting]
  /\ UNCHANGED <<tracking, list, ptrOf, held, untracked, overlapped>>

(* Mutant: the node goes to the end of the list. *)
LinkedLast(n) == Append(list, n)

Linked(n) == <<n>> \o list

Link(t) ==
  /\ task[t].at = "link"
  /\ list' = Linked(task[t].node)
  /\ held' = [held EXCEPT ![t] = @ \union {task[t].ptr}]
  /\ task' = [task EXCEPT ![t] = Resting]
  /\ UNCHANGED <<tracking, blocks, ptrOf, untracked, overlapped>>

(* c_rest_mem_free, and c_rest_mem_realloc to 0 bytes: remove_node ...       *)
Unlink(t) ==
  /\ task[t].at = "rest" /\ tracking
  /\ \E p \in held[t] :
       /\ list' = IF FoundAt(p) = {} THEN list ELSE Unlinked(First(FoundAt(p)))
       /\ held' = [held EXCEPT ![t] = @ \ {p}]
       /\ untracked' = untracked \ {p}
       /\ task' = [task EXCEPT ![t] = Releasing(p)]
  /\ UNCHANGED <<tracking, blocks, ptrOf, overlapped>>

(* ... and, after the mutex, the free of the block. *)
ReleaseBlock(t) ==
  /\ task[t].at = "release"
  /\ blocks' = blocks \ {task[t].ptr}
  /\ task' = [task EXCEPT ![t] = Resting]
  /\ UNCHANGED <<tracking, list, ptrOf, held, untracked, overlapped>>

(* c_rest_mem_realloc: the search, under the mutex. *)
FindNode(t) ==
  /\ task[t].at = "rest" /\ tracking
  /\ \E p \in held[t] : task' = [task EXCEPT ![t] = Moving(NodeOf(p), p)]
  /\ overlapped' = (overlapped \/ \E u \in Threads \ {t} : Reallocating(u))
  /\ UNCHANGED <<tracking, blocks, list, ptrOf, held, untracked>>

Rename(s, p, q) == IF p \in s THEN (s \ {p}) \union {q} ELSE s

(* The block moves, or grows where it is; its old address is free at once. *)
Move(t) ==
  /\ task[t].at = "move"
  /\ \E q \in FreeAddresses \union {task[t].ptr} :
       /\ blocks' = Rename(blocks, task[t].ptr, q)
       /\ held' = [held EXCEPT ![t] = Rename(@, task[t].ptr, q)]
       /\ untracked' = Rename(untracked, task[t].ptr, q)
       /\ task' = [task EXCEPT ![t] = Storing(task[t].node, q)]
  /\ UNCHANGED <<tracking, list, ptrOf, overlapped>>

MoveFails(t) ==
  /\ task[t].at = "move"
  /\ task' = [task EXCEPT ![t] = Resting]
  /\ UNCHANGED <<tracking, blocks, list, ptrOf, held, untracked, overlapped>>

(* Mutant: the node keeps the old address. *)
StoredNowhere(n, q) == ptrOf

Stored(n, q) == IF n = NoNode THEN ptrOf ELSE [ptrOf EXCEPT ![n] = q]

Store(t) ==
  /\ task[t].at = "store"
  /\ ptrOf' = Stored(task[t].node, task[t].moved)
  /\ task' = [task EXCEPT ![t] = Resting]
  /\ UNCHANGED <<tracking, blocks, list, held, untracked, overlapped>>

(* c_rest_mem_realloc without a tracker: the allocator's, and no node. *)
ReallocUntracked(t) ==
  /\ task[t].at = "rest" /\ ~tracking
  /\ \E q \in FreeAddresses :
       \/ /\ blocks' = blocks \union {q}
          /\ held' = [held EXCEPT ![t] = @ \union {q}]
          /\ untracked' = untracked \union {q}
       \/ \E p \in held[t] :
            /\ blocks' = Rename(blocks, p, q)
            /\ held' = [held EXCEPT ![t] = Rename(@, p, q)]
            /\ untracked' = Rename(untracked, p, q)
  /\ UNCHANGED <<tracking, list, ptrOf, task, overlapped>>

(* c_rest_mem_tracker_print_leaks. *)
LeakCount == Len(list)

MemStep(t) ==
  \/ Allocate(t) \/ AddNode(t) \/ AddNodeFails(t) \/ Link(t)
  \/ Unlink(t) \/ ReleaseBlock(t)
  \/ FindNode(t) \/ Move(t) \/ MoveFails(t) \/ Store(t)
  \/ ReallocUntracked(t)

MemNext == InitTracker \/ CleanupTracker \/ \E t \in Threads : MemStep(t)

MemSpec == MemInit /\ [][MemNext]_memVars

(***************************************************************************)
(* Properties                                                              *)
(***************************************************************************)

(* When no call is under way, the leaks the tracker would report are the     *)
(* blocks the program holds, each once, but for those it was given while     *)
(* there was no tracker: also after an address came back to a second thread  *)
(* before the realloc that left it had rewritten its node (c_rest_mem.c:     *)
(* 155-331).  Two overlapping calls of realloc are excepted: they lose this. *)
TrackedExactly ==
  (AllResting /\ ~overlapped) =>
    LET owed == (UNION {held[t] : t \in Threads}) \ untracked IN
    /\ {ptrOf[n] : n \in OnList} = owed
    /\ LeakCount = Cardinality(owed)

(* The node a realloc found stays in the list until the realloc has written  *)
(* it, though it holds no mutex (c_rest_mem.c:308-320): no other thread's    *)
(* free takes it.  Again unless two calls of realloc overlap.                *)
NodeAlive ==
  ~overlapped =>
    \A t \in Threads :
      (Reallocating(t) /\ task[t].node # NoNode) => task[t].node \in OnList
=============================================================================
