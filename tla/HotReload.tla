------------------------------- MODULE HotReload -------------------------------
(***************************************************************************)
(* The file watcher of src/src/c_rest_hot_reload.c.  The application adds  *)
(* paths, starts a watcher thread, which polls once, and may poll itself   *)
(* at any time: two polls share the stored times and the state without a   *)
(* lock, and each takes two steps a path, a stat and a comparison.  The    *)
(* server's threads read the state when a client asks for the event stream.*)
(***************************************************************************)
EXTENDS Integers, Sequences

CONSTANTS Files,
          MaxVersion,  \* bound: how often a file is written
          App, Watcher \* the threads that poll

ASSUME PollersAssumption == App # Watcher

VARIABLES
  version,   (* per file: its time, which grows                                *)
  present,   (* the files that are there                                       *)
  context,   (* "none", "live" or "freed"                                      *)
  watched,   (* ctx->watched_paths                                             *)
  lastTimes, (* ctx->last_modified_times                                       *)
  hrState,   (* ctx->state                                                     *)
  handle,    (* ctx->watcher_thread is set                                     *)
  poll,      (* per thread: the poll it is in, or "idle", or "ended"           *)
  answer,    (* the answer to the latest request for the event stream          *)
  known,     (* environment, per file: the version the application has been    *)
             (* told of; a callback tells it of them all                       *)
  dropped    (* history: a poll that had noticed a change failed before it     *)
             (* called back                                                    *)

hotReloadVars == <<version, present, context, watched, lastTimes, hrState, handle, poll, answer, known, dropped>>

Pollers == {App, Watcher}
NotPolling == [at |-> "idle"]
Ended == [at |-> "ended"]
Statting(i, noticed) == [at |-> "stat", path |-> i, noticed |-> noticed]
Comparing(i, noticed, time) == [at |-> "compare", path |-> i, noticed |-> noticed, time |-> time]
Notified(noticed) == [at |-> "notify", noticed |-> noticed]

HotReloadInit ==
  /\ version = [f \in Files |-> 1]
  /\ context = "none" /\ watched = <<>> /\ lastTimes = <<>>
  /\ hrState = "INIT" /\ handle = FALSE
  /\ poll = [p \in Pollers |-> IF p = App THEN NotPolling ELSE Ended]
  /\ answer = "none"
  /\ present = Files /\ known = version /\ dropped = FALSE

(* The files change, go and come back, as their editors like. *)
ChangeFile ==
  /\ \E f \in Files :
       \/ /\ version[f] < MaxVersion
          /\ version' = [version EXCEPT ![f] = @ + 1]
          /\ present' = present \union {f}
       \/ present' = present \ {f} /\ UNCHANGED version
  /\ UNCHANGED <<context, watched, lastTimes, hrState, handle, poll, answer, known, dropped>>

InitContext ==
  /\ context = "none"
  /\ context' = "live" /\ hrState' = "INIT"
  /\ UNCHANGED <<version, present, watched, lastTimes, handle, poll, answer, known, dropped>>

AppIdle == context = "live" /\ poll[App] = NotPolling

(* c_rest_hot_reload_add_watch, which the application calls before it starts *)
(* the watcher: it moves the arrays a poll reads.  It fails without a file,  *)
(* and the application knows the one it adds.                                *)
AddWatch ==
  /\ AppIdle /\ poll[Watcher] = Ended
  /\ \E f \in Files :
       /\ \A i \in 1..Len(watched) : watched[i] # f
       /\ f \in present
       /\ watched' = Append(watched, f)
       /\ lastTimes' = Append(lastTimes, version[f])
       /\ known' = [known EXCEPT ![f] = version[f]]
  /\ UNCHANGED <<version, present, context, hrState, handle, poll, answer, dropped>>

(* c_rest_hot_reload_start; the application starts one watcher. *)
StartWatcher ==
  /\ AppIdle /\ ~handle /\ hrState # "STOPPED"
  /\ \/ /\ hrState' = "WATCHING" /\ handle' = TRUE
        /\ poll' = [poll EXCEPT ![Watcher] = Statting(1, FALSE)]
     \/ hrState' = "STOPPED" /\ UNCHANGED <<handle, poll>>
  /\ UNCHANGED <<version, present, context, watched, lastTimes, answer, known, dropped>>

(* c_rest_hot_reload_poll by the application. *)
StartPoll ==
  /\ AppIdle
  /\ poll' = [poll EXCEPT ![App] = Statting(1, FALSE)]
  /\ UNCHANGED <<version, present, context, watched, lastTimes, hrState, handle, answer, known, dropped>>

AfterPoll(p) == IF p = App THEN NotPolling ELSE Ended

(* get_file_mtime of the next path.  A path that is gone ends the poll, with *)
(* what the paths before it had told.                                        *)
PollStat(p) ==
  LET c == poll[p] IN
  /\ c.at = "stat"
  /\ \/ /\ c.path > Len(watched)
        /\ poll' = [poll EXCEPT ![p] = Notified(c.noticed)]
        /\ UNCHANGED dropped
     \/ /\ c.path <= Len(watched) /\ watched[c.path] \in present
        /\ poll' = [poll EXCEPT ![p] = Comparing(c.path, c.noticed, version[watched[c.path]])]
        /\ UNCHANGED dropped
     \/ /\ c.path <= Len(watched) /\ watched[c.path] \notin present
        /\ poll' = [poll EXCEPT ![p] = AfterPoll(p)]
        /\ dropped' = (dropped \/ c.noticed)
  /\ UNCHANGED <<version, present, context, watched, lastTimes, hrState, handle, answer, known>>

(* Mutant: only the last path counts. *)
NoticedLast(c) == c.time # lastTimes[c.path]

Noticed(c) == c.noticed \/ c.time # lastTimes[c.path]

PollCompare(p) ==
  LET c == poll[p] IN
  /\ c.at = "compare"
  /\ lastTimes' = [lastTimes EXCEPT ![c.path] = c.time]
  /\ \/ /\ poll' = [poll EXCEPT ![p] = Statting(c.path + 1, Noticed(c))]
        /\ UNCHANGED dropped
     \/ /\ c.time # lastTimes[c.path]       \* the logger fails
        /\ poll' = [poll EXCEPT ![p] = AfterPoll(p)]
        /\ dropped' = TRUE
  /\ UNCHANGED <<version, present, context, watched, hrState, handle, answer, known>>

(* The state is set before the callback runs, and nothing resets it. *)
PollNotify(p) ==
  /\ poll[p].at = "notify"
  /\ hrState' = IF poll[p].noticed THEN "CHANGED" ELSE hrState
  /\ poll' = [poll EXCEPT ![p] = IF poll[p].noticed THEN [at |-> "callback"] ELSE AfterPoll(p)]
  /\ UNCHANGED <<version, present, context, watched, lastTimes, handle, answer, known, dropped>>

Callback(p) ==
  /\ poll[p].at = "callback"
  /\ known' = version
  /\ poll' = [poll EXCEPT ![p] = AfterPoll(p)]
  /\ UNCHANGED <<version, present, context, watched, lastTimes, hrState, handle, answer, dropped>>

(* c_rest_hot_reload_destroy: the join, and everything is freed. *)
DestroyContext ==
  /\ AppIdle
  /\ handle => poll[Watcher] = Ended
  /\ context' = "freed" /\ hrState' = "STOPPED" /\ handle' = FALSE
  /\ watched' = <<>> /\ lastTimes' = <<>>
  /\ UNCHANGED <<version, present, poll, answer, known, dropped>>

(* hot_reload_sse_handler, on a thread of the server: a 503 without a        *)
(* context, or a stream that holds a reload event or nothing.  The server    *)
(* must have stopped before the context is freed.                            *)
RequestEvents ==
  /\ context # "freed"
  /\ answer' = CASE context = "none" -> "unavailable"
                 [] hrState = "CHANGED" -> "reload"
                 [] OTHER -> "stream"
  /\ UNCHANGED <<version, present, context, watched, lastTimes, hrState, handle, poll, known, dropped>>

HotReloadNext ==
  \/ ChangeFile \/ InitContext \/ AddWatch \/ StartWatcher \/ StartPoll
  \/ DestroyContext \/ RequestEvents
  \/ \E p \in Pollers : PollStat(p) \/ PollCompare(p) \/ PollNotify(p) \/ Callback(p)

HotReloadSpec == HotReloadInit /\ [][HotReloadNext]_hotReloadVars

(***************************************************************************)
(* Properties                                                              *)
(***************************************************************************)

(* Once both threads' polls are over, a time the watcher has consumed is one *)
(* the application was told of: two polls at once, in whatever order they   *)
(* stat and compare, hide no change from both (c_rest_hot_reload.c:272-303). *)
(* Excepted are polls that fail on a later path: they lose what they saw.    *)
ChangesTold ==
  ((\A p \in Pollers : poll[p] \in {NotPolling, Ended}) /\ ~dropped) =>
    \A i \in 1..Len(watched) : known[watched[i]] >= lastTimes[i]
=============================================================================
