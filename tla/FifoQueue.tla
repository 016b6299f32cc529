------------------------------ MODULE FifoQueue ------------------------------
(***************************************************************************)
(* What c_rest_ts_queue promises its callers: a first-in first-out queue   *)
(* that can be closed, every call taking effect at one instant between its *)
(* start and its return.  Nothing here mentions a lock, a condition        *)
(* variable or a list node; TsQueue implements this module.                *)
(***************************************************************************)
EXTENDS Sequences

CONSTANTS Threads,  (* the threads that call the queue *)
          Data,     (* the pointers that are pushed    *)
          NoData    (* the NULL pointer                *)

VARIABLES items,   (* what the queue holds, oldest first                *)
          closed,  (* push is refused                                   *)
          stage,   (* per thread: idle, the call in progress, or done   *)
          arg,     (* per thread: what a push in progress will add      *)
          rc,      (* per thread: what the call returns, once done      *)
          out      (* per thread: what a pop hands over, once done      *)

vars == <<items, closed, stage, arg, rc, out>>

Init ==
  /\ items = <<>>
  /\ closed = FALSE
  /\ stage = [t \in Threads |-> "idle"]
  /\ arg = [t \in Threads |-> NoData]
  /\ rc = [t \in Threads |-> "none"]
  /\ out = [t \in Threads |-> NoData]

Call(t, op, d) ==
  /\ stage[t] = "idle"
  /\ stage' = [stage EXCEPT ![t] = op]
  /\ arg' = [arg EXCEPT ![t] = d]
  /\ UNCHANGED <<items, closed, rc, out>>

(* The call of t takes effect: it will return r and hand over d. *)
Effect(t, op, r, d) ==
  /\ stage[t] = op
  /\ stage' = [stage EXCEPT ![t] = "done"]
  /\ arg' = [arg EXCEPT ![t] = NoData]
  /\ rc' = [rc EXCEPT ![t] = r]
  /\ out' = [out EXCEPT ![t] = d]

Push(t) ==
  /\ ~closed
  /\ items' = Append(items, arg[t])
  /\ Effect(t, "push", "ok", NoData)
  /\ UNCHANGED closed

(* A push is refused because the queue is closed. *)
Refuse(t) ==
  /\ closed
  /\ Effect(t, "push", "error", NoData)
  /\ UNCHANGED <<items, closed>>

(* A push runs out of memory before it reaches the queue. *)
NoMemory(t) ==
  /\ Effect(t, "idle", "error", NoData)
  /\ UNCHANGED <<items, closed>>

Pop(t) ==
  /\ items # <<>>
  /\ items' = Tail(items)
  /\ Effect(t, "pop", "ok", Head(items))
  /\ UNCHANGED closed

(* A pop gives up: nothing is left and nothing will come. *)
Drained(t) ==
  /\ items = <<>>
  /\ closed
  /\ Effect(t, "pop", "error", NoData)
  /\ UNCHANGED <<items, closed>>

Close(t) ==
  /\ closed' = TRUE
  /\ Effect(t, "close", "ok", NoData)
  /\ UNCHANGED items

(* Destroying the queue drops what it holds; only an idle queue is destroyed. *)
Destroy(t) ==
  /\ \A u \in Threads \ {t} : stage[u] = "idle"
  /\ items' = <<>>
  /\ Effect(t, "destroy", "ok", NoData)
  /\ UNCHANGED closed

Return(t) ==
  /\ stage[t] = "done"
  /\ stage' = [stage EXCEPT ![t] = "idle"]
  /\ rc' = [rc EXCEPT ![t] = "none"]
  /\ out' = [out EXCEPT ![t] = NoData]
  /\ UNCHANGED <<items, closed, arg>>

(* A destroyed queue is initialised for another use, or memory runs out. *)
Reset(t, r) ==
  /\ \A u \in Threads \ {t} : stage[u] = "idle"
  /\ items' = <<>>
  /\ closed' = FALSE
  /\ Effect(t, "idle", r, NoData)

Next ==
  \E t \in Threads :
    \/ \E d \in Data : Call(t, "push", d)
    \/ \E op \in {"pop", "close", "destroy"} : Call(t, op, NoData)
    \/ Push(t) \/ Refuse(t) \/ NoMemory(t)
    \/ Pop(t) \/ Drained(t)
    \/ Close(t) \/ Destroy(t)
    \/ \E r \in {"ok", "error"} : Reset(t, r)
    \/ Return(t)

Spec == Init /\ [][Next]_vars
=============================================================================
