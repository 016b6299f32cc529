# A TLA+ model of c-rest-framework

This directory is a verification project for c-rest-framework, a REST server
framework in C. It models the parts of the framework whose correctness depends
on interleaving, failure, order and the way bytes are cut: the thread-safe
queue, the server modalities, the routing tree, the handling of a connection,
the parsers and encoders on both sides of it, the services beside it (memory
tracker, rate limiter, hot reload), and the OAuth 2 example as a whole. TLC
checks the models on small instances; TLAPS proves the safety properties of the
queue, the multi-thread server, the router, the connection, the services and the
OAuth 2 example for every instance, and for messages of any length that credentials,
tokens, frame headers and answers arrive as they were sent. All of it is translated from the C sources, in their POSIX build without
`C_REST_FRAMEWORK_MULTIPLATFORM_INTEGRATION`. Paths below are relative to the
repository.

## 1. Inventory

### Components with a model

| Component | State | Operations | What is hard | What makes it correct |
|---|---|---|---|---|
| Thread-safe queue, `src/c_rest_ts_queue.c` | linked list, size, closed flag, one mutex, one condition variable | init, push, pop (blocking), close, destroy | allocation and free outside the lock, wakeups, close against waiting consumers | linearizable FIFO; list and count agree; every node has one owner; no wakeup lost |
| Multi-thread modality, `src/modality_multi_thread.c` | listening socket, running flag, table of 64 worker handles | run, stop, destroy, one worker thread per connection | run and stop share all of it without a lock; double joins; descriptor reuse | workers are known and joined; shutting down ends; destroy waits |
| Router, `src/router.c` | tree of segments with handler lists, two middleware chains | add, use, use_post, match, dispatch | backtracking over siblings, variables bound on return, half-made registrations | the right route, its variables, its latest handler |
| Connection, `src/modality.c` | parser, request, response, keep-alive | `c_rest_handle_connection` with the parser callbacks | bytes cut anywhere, pipelining, errors in the middle, keep-alive | one answer per request, in order; the loop ends |
| Parser, `src/parser.c` | automaton over bytes, two growing buffers | init, execute, should_keep_alive, destroy | input cut anywhere, reused buffers, chunks, failing reallocations | the request that was sent, once, and not early |
| Middlewares and response, `src/middleware.c`, `src/response.c` | status, headers, headers_sent | CORS, redirect, HSTS, auth, OAuth2; json, html, redirect, send | several actors may answer; header and body are two writes | no second answer |
| ORM middleware and handlers, `src/c_orm_middleware.c`, `src/c_orm_crud.c` | `req->db_conn` | start, end, five CRUD handlers | early returns between start and end | committed only on success; released |
| Serial modalities, `src/modality_{single_thread,sync,multi_process,async,greenthread,message_passing}.c`, `src/modality.c` | context, listening socket, running flag, database pool | init, run, stop, destroy | stop at any point of run; failing socket creation, bind, listen and accept; descriptors reused | a late connection at most; nothing outlives the context |
| Multipart, `src/multipart.c` | automaton, boundary match | execute with callbacks | data that looks like a boundary | parts exact |
| SSE, `src/c_rest_sse.c` | unread bytes, event being built | serialize, parse, init_response, send_event | several events or half a line per call; refused copies | every event once, in order |
| WebSocket, `src/websocket.c` | none | frame header codec, mask | three forms of length | round trip |
| Request and forms, `src/request.c`, `src/client.c`, `src/c_rest_str_utils.c` | lists filled on the first question | query, form, cookie, credentials; url coding | partial lists after a refusal | answers are values that were given |
| Response, `src/response.c` | header list, body, flags | set_header, json, redirect, cookie, etag, send, write_chunk, serialize | each step may fail, several answers | what a peer reads is framed |
| Tokens, `src/c_rest_crypto.c`, `src/c_rest_jwt_middleware.c`, `src/c_rest_base64.c` | none | sign, verify, hash, middleware, base64 | everything compared in encoded form | the genuine token opens the gate, no other |
| Memory tracker, `src/c_rest_mem.c` | list of nodes, one mutex | malloc, calloc, strdup, realloc, free, cleanup | realloc works outside the lock | leaks reported are the blocks out |
| Rate limiter, `src/c_rest_rate_limit.c` | buckets, one mutex | init, check, destroy | clock read before the lock, unsigned arithmetic | no more granted than capacity and rate |
| Hot reload, `src/c_rest_hot_reload.c` | watched paths, times, state | add_watch, start, poll, SSE handler, destroy | two polls without a lock | changes are told |
| OAuth 2 example, `examples/oauth2/src` | accounts, token, library context, what main holds | six handlers, password grant, main | handlers side by side; failures of memory, database and network | grants mean verified accounts; logout ends access; nothing leaks |

### How they interact

`c_rest_run` (a modality) accepts a socket and calls `c_rest_handle_connection`
on a thread of its own. That function feeds the parser, whose callbacks fill
the request, and calls `c_rest_router_dispatch`, which runs the middlewares,
matches the path, calls the handler and runs the post middlewares. Middlewares
and handlers write the answer through `c_rest_response_send`; when nobody has
answered and dispatch returned ok, the connection does. The context, with the
router in it, is shared by all workers and read only while the server runs. The
queue is a library component that no modality uses; applications do. So are the
rate limiter, the tracker and the hot reload: each is shared by whatever threads
call it and calls none of the others. A handler asks its request for parameters
and credentials, which are parsed then, and builds its response header by
header. The OAuth 2 example is such an application: its handlers share c-orm's
tables, and its client library sends the form that they read.

### Not modelled

* TLS (`src/tls.c`): a wrapper of OpenSSL or mbedTLS; `Connection` keeps only
  whether it is configured, `OAuth2Main` whether its context is held.
* HTTP/2 and HTTP/3 hooks: frame stubs without sessions.
* OpenAPI, GraphQL, compression, templates: functions from text to text; a model
  would be a transliteration.
* The digests of `src/c_rest_crypto.c`: arithmetic; `JwtAuth` takes them to be
  injective.
* Hash map, list, pool, string and other utilities: sequential, well reached by
  unit tests. The hash map appears as a function in `RateLimiter`.
* The WebSocket upgrade, files sent from disk, the asynchronous client and the
  proxy: an answer or a forwarded call, without state of their own.
* The Windows and DOS platform layers: the models follow the POSIX build.

`PROJECT.json` lists every source file under its component.

## 2. Plan

Order, most important first; all of it is done:

1. `FifoQueue`, `TsQueue`: the queue and what it promises; `TsQueueProofs`.
2. `MultiThreadServer`: run, stop, destroy and the workers.
3. `RouteTree` (the tree as a value, shared), `Router` (registration).
4. `Connection`, on `RouteTree`: connection, dispatch, middlewares, transactions.
5. `MemTracker`, `RateLimiter`, `HotReload`, `SerialServer`, instantiated together
   in `Services`.
6. The codecs and parsers, as operators: `HttpParser`, `Multipart`, `SseParser`,
   `WebSocket`, `Base64`, `FormData`, `RequestData`, `Response`, `JwtAuth`;
   `Streams` puts a writer and a reader around each.
7. `OAuth2Server`, `OAuth2Client`, `OAuth2Main`, composed in `OAuth2`.

8. Proofs: `TsQueueProofs`, `MultiThreadServerProofs`, `RouteTreeProofs`,
   `RouterProofs`, `ConnectionProofs`, `ServicesProofs`, `OAuth2Proofs`,
   `StreamsProofs`.

Left for later: the TLS handshake in `Connection`; short writes; the setters of a
context while it runs. The modules hold no RECURSIVE operator: recursion is written as
recursive functions or folds.

## 3. Modules

| Module | Models | Notes |
|---|---|---|
| `FifoQueue` | what the queue promises | each call takes effect at one instant |
| `TsQueue` | `c_rest_ts_queue.c` | one action per stretch of code between scheduling points |
| `TsQueueProofs` | | theorems on `TsQueue` |
| `MultiThreadServer` | `modality_multi_thread.c`, sockets and threads of `platform_posix.c` | |
| `MultiThreadServerProofs` | | theorems on `MultiThreadServer` |
| `RouteTree` | the tree of `router.c` and `match_route` as operators | used by the next two |
| `RouteTreeProofs` | | lemmas: what the loops of `router.c` return |
| `Router` | `c_rest_router_add` | |
| `RouterProofs` | | theorems on `Router` |
| `Connection` | `modality.c`, dispatch of `router.c`, `middleware.c`, `c_orm_*.c`, the sends of `response.c` | |
| `ConnectionProofs` | | theorems on `Connection` |
| `HttpParser` | `parser.c` | a fold over bytes; also what a callback is told |
| `Multipart`, `SseParser`, `WebSocket`, `Base64` | `multipart.c`, `c_rest_sse.c`, `websocket.c`, `c_rest_base64.c` | operators |
| `FormData`, `RequestData` | forms and url coding of `client.c` and `c_rest_str_utils.c`; `request.c` | operators |
| `Response` | `response.c`, the SSE head of `c_rest_sse.c` | operators; each yields the response and a code |
| `JwtAuth` | tokens and passwords of `c_rest_crypto.c`, `c_rest_jwt_middleware.c` | operators |
| `Streams` | a writer, the cuts of the wire, the reader | one message a behaviour |
| `StreamsProofs` | | theorems on `Streams`; lemmas on `Base64`, `WebSocket`, `Response`, `JwtAuth` |
| `MemTracker`, `RateLimiter`, `HotReload`, `SerialServer` | `c_rest_mem.c`, `c_rest_rate_limit.c`, `c_rest_hot_reload.c`, the serial `modality_*.c` with `modality.c` | state machines |
| `Services` | the four above, one of them in a behaviour | they call none of one another |
| `ServicesProofs` | | theorems on `MemTracker`, `RateLimiter`, `HotReload`, `SerialServer`; `Services` runs them unchanged |
| `OAuth2Server`, `OAuth2Client`, `OAuth2Main` | `examples/oauth2/src`, the synchronous request of `client.c` | handlers, library and main |
| `OAuth2` | their composition with network and callers | |
| `OAuth2Proofs` | | theorems on `OAuth2` |
| `MC*` | instances for TLC | |

### TsQueue

`head`, `tail`, `size`, `isClosed`, `next`, `data` are the fields of the C
structures, `heap` the allocated nodes, `owner` and `waiting` the mutex and the
condition variable. A thread tests the queue in one step (`PopEmpty`) and goes to
sleep in the next (`PopWait`): only the mutex keeps the others out of between. `pc[t]` is where thread t is in its call, `hand[t]` its local
`node`, `rc[t]` and `out[t]` what it will return. `order` is a history
variable, the linked nodes in order; the invariants tie the pointers to it.
A call is cut at the lock, in `cond_wait`, at the unlock, and around the
allocation and the free that happen outside the lock. A critical section is one
step, apart from that one and the loop of destroy. `SpuriousWakeup` is what POSIX allows.
Locking or signalling fails only for a NULL handle, so those branches are left
out. Callers are assumed to use a queue between init and destroy only, and to
destroy it when no other call is in progress.

### MultiThreadServer

Two actors: `main` calls run and later destroy, `ctl` calls stop, as a thread of
its own or as a worker (a request handler that calls `c_rest_stop`). They
share `running`, `sock`, `slots` and `count` without a lock, so every read and
write of `count` and `slots` that the other side can fall between is a step:
`workers[worker_count++] = handle` is a read and two stores in either order. The
kernel side is a table of descriptors (the lowest free one is given out), a
backlog, and joins that fail on a thread already joined or being joined and on
the caller itself. A blocked accept keeps the listening socket alive. Faults:
the creation of the socket, bind or listen, accept, and the allocation of the worker's
arguments.

### RouteTree and Router

A node is named by the segments from the root to it, which is unique because
`find_or_add_child` never makes a second child with the same segment; `kids` and
`handlers` keep the list order, which decides everything. `MatchAt` is the loop of
`match_route` at all nodes at once, given what the nodes one segment further
answer, and `Match` is the recursive function that applies it once for each
segment left. In `Router` each registration may fail
at any allocation and leaves what it has made. One failure is silent: a variable
node whose name cannot be copied is kept (`nameless`), the registration succeeds, and
`match_route` takes the length of the missing name when it binds that variable
(`Crashes`). `born` and `latest` are history
variables that the reference definitions use. Failing allocations inside
`match_route` itself (a variable that is silently dropped) are left out, and
`Connection` takes the memory of the registrations as granted.

### Connection

The peer sends requests as units (request line, headers, pieces of the body);
`recv` delivers any prefix of what has been sent. A buffer that reaches past the
end of a request loses the rest, as in the code, where the bytes after
`on_complete` belong to the parser that is about to be destroyed. What a parser
makes of a buffer that begins in mid-request is not followed: the model stops in
`lost`. Writes fail at any time; header and body are two writes, and a failed
write stands for a lost connection. Allocations fail in the parser, in
its callbacks and in answers. Handlers are the ORM ones, and `user`, a handler of the
application. While that, or a middleware of the application's own (`hook`), runs
(`AppRuns`), the application may set the status (`AppSets`) and answer with the
status that is set (`AppSends`) any number of times and in any order; `UserReturns`,
`Skip` or `HookFails` ends its turn with either result. `revised` notes the
requests that it turned from success to error or back after the answer was out or
the transaction ended, or let go on after refusing them; `CommitMeansSuccess`
excepts those and nothing else. A verifier
accepts or refuses. The middleware chains and routes, the database pool and whether
TLS is configured are constants; with TLS the redirect has nothing to do (`Skip`).

### Streams and the codecs

A message is written by the encoder of the code (or, where the repository only
reads, by the definitions of `MCStreams`), cut anywhere into pieces, and read by the
decoder of the code. Characters are delimiters or words whose letters play no
part. `reader` is the state of the parser, request or response, `got` what the
application was given, `faults` how many allocations or writes were refused.
Copies of strings, list nodes and header lines may be the ones refused; the
operators say what is left behind, as in the code: an SSE buffer whose first lines
were taken is read again, a parameter list stays partial, an answer is begun
twice. `HttpParser` keeps the parser's two buffers with their old contents, since
a C string that is reset by its length only can be read past it. `PeerReads` in
`Response` is what an HTTP client takes for the body of what was written; it is
external and follows Content-Length and chunked encoding.

### Services

`MemTracker`: each critical section is a step, the allocator runs outside of them,
and realloc is three steps (find under the lock, move, write without it). An
address that was freed or moved away from may be given out at once. `overlapped` notes that two
reallocs were under way at the same time, which the properties except.

`RateLimiter`: check is two steps, the clock and the critical section; arithmetic is
modulo `Modulus`, and a negative difference becomes a large number or 0, as
converting it is undefined. `stale` notes that it happened.

`HotReload`: a poll is a stat and a comparison per path, then the callback; the
watcher thread and the application poll at once, with nothing between
them. A stat may fail on any path.

`SerialServer`: the context's life in each modality but the multi-thread one.
Only SINGLE_THREAD creates a socket; SYNC accepts on the number it never
set; the run of the others returns. stop is a second actor with two steps, the
flag and the close. The descriptors behave as in `MultiThreadServer`.

### OAuth2

A handler is cut at each call of c-orm, which is atomic, and at its answer; `rows`
are the tables, `handler[c]` where the handler of caller c's connection is and
the memory it holds. A grant of the library is cut at the pieces of the
request, at sending, at the answer, at its copy and at its reading; `orphans` are
parts of HTTP clients that nobody points at any more. main acquires context, TLS,
router, database, routes and documents in order, and serves. When it was stopped the
handlers are done, router and TLS are given up, and the context is not, because
`c_rest_destroy` closes the socket a second time, fails and returns
(`mt_destroy_cleans_up`); it is where stop did not get to closing it, or the number
names another file by then (`Stopped`). When `c_rest_run` fails, router and TLS are given up at
once (`RunFails`), and `c_rest_destroy` waits for the handlers only then (`Joined`): one that
returns before finds its router gone, which may end the process (`Dangles`). Programs use
the library; browsers send requests of their own, also with keys missing, wrong
grant types and tokens nobody was given. A caller waits for the answer to one
request before it makes another, as both calls of the library return only then.
There is a single token, as in the
code, where it is a constant.

## 4. Runs

| Run | Instance and bounds | Shows |
|---|---|---|
| `ts_queue` | 3 threads, 2 nodes, 2 data; calls unbounded | `ListWellFormed`, `OneOwner`, `NoLostWakeup`, `NoSleepAfterClose`, `SleeperServed`, and that `TsQueue` implements `FifoQueue` |
| `mt_server` | 3 connections, 2 table entries, 2 calls of run | `OneLateConnection`, `WorkersTracked`, `DestroyWaits`, `ShutdownCompletes` |
| `mt_graceful_shutdown` | 3 connections, 3 entries, 1 run | violated: a worker outlives a shutdown that reported success |
| `mt_destroy_cleans_up` | the same | violated: destroy after stop frees nothing |
| `router` | 8 patterns (literals, 2 variables, a wildcard, an empty segment), 3 registrations, 2 methods, all paths of up to 3 segments | `MatchIsPreferred`, `VarsOfTheMatch`, `LatestHandlerServes`, `AddIsLocal` |
| `connection` | 2 requests of 7 kinds, window 2; 5 routes, 5 + 2 middlewares, two of them the application's; without TLS | `AnswersIncrease`, `CommitMeansSuccess`, `CloseIsLast`, `HangUpEnds` |
| `connection_released` | 1 request; with TLS | violated: a request finished with its connection borrowed |
| `streams` | per kind 1 to 50 messages; every cut; 2 faults; answers of up to 3 calls | `HttpRoundTrip`, `MultipartPartsExact`, `SseEventsExact`, `WsHeaderRoundTrip`, `ParametersTrue`, `CredentialsRoundTrip`, `TokenOpensTheGate`, `AnswerIsFramed` |
| `sse_stream` | an event stream of up to 3 calls, no fault | violated: the peer of an event stream reads nothing |
| `services` | 2 threads, 3 addresses, 2 nodes; 2 callers, 1 client, capacity 2, rate 1, 3 seconds; 2 files, 2 versions; 3 connections, 2 runs, 7 modalities | `TrackedExactly`, `NodeAlive`, `LimitHoldsInOrder`, `ChangesTold`, `OneTardyConnection`, `DestroyReleases` |
| `rate_limit` | the limiter of `services` alone | violated: tokens from a negative time |
| `oauth2` | a program and a browser, 3 requests, 1 fault, 1 application, 2 accounts of one person | `GrantMeansVerified`, `GrantServed`, `LogoutEndsAccess`, `EverythingReleased` |

Why the bounds are enough to be of interest. Three threads give a pusher, a
sleeper and a thread that wakes up for an item another takes, which is where
wakeups are lost; two nodes give the empty, the one-element and the two-element
list, with addresses reused. Three connections against two table entries fill
the table; two runs cover a second run after an accept that failed. Three
registrations make siblings, a branch that must be given up, and a handler
that replaces one. Two requests cover pipelining, the keep-alive decision and the
state carried from one turn to the next.

In `streams` the messages are chosen for their boundaries: lengths 125, 126,
65,535 and 65,536 of frames, data that begins a boundary and breaks off at each
place, a line break inside a field, the length of a chunk and the word the parser
refuses inside a body, credentials of 0 to 4 octets, a token changed in each of its
pieces. Two threads on three addresses let an address come back while a
realloc has its old node in hand. Three seconds with a capacity of two let a
bucket fill, empty and be refilled twice, and a time be older than the refill.
Two files make the poll that notices one and fails on the other. Two callers
and three requests make a logout between the login and the request of
another. Elsewhere one fault at a time reaches every error path from every state, and errors
inside error paths are not looked at; in `streams` two calls may fail, because what
the first leaves in a response shows when another is answered.

Only `router` uses symmetry, in the methods, which its definitions do not tell
apart; others check temporal properties. Deadlock is not checked
because every one of the systems may stop: a queue nobody calls, a server that is
shut down, all registrations made, a connection closed. `HangUpEnds`,
`ShutdownCompletes` and `SleeperServed` say what must not stop.

### Fairness

* `TsQueue`: weak fairness for a thread inside a call, strong fairness for
  taking the mutex (a thread that asks again and again is not starved for
  ever). Nobody has to call, no wakeup has to be spurious.
* `MultiThreadServer`: weak fairness for the steps of run, stop and destroy and
  for each worker's end. The last is an assumption on the peers, not on the code:
  `recv` has no timeout, so a worker ends when its peer hangs up, which
  is what `HangUpEnds` shows. Faults and clients need not come.
* `Connection`: weak fairness for the serving thread, the return of a handler or a
  middleware of the application included (what it sets or sends before is not
  fair, so that it may not go on for ever); none for the peer.
* The other modules state safety only. Their loops wait for callers, clients or
  files, which need not come; the shutdown of an accept loop is checked in
  `MultiThreadServer`.

### What the violated runs show

* `mt_graceful_shutdown`. `c_rest_modality.h` promises that stop makes the framework "stop
  accepting connections and shutdown gracefully". stop resets
  `worker_count` while run increments it, the worker accepted last disappears
  from the table, and neither join loop waits for it, although both calls return ok.
* `mt_destroy_cleans_up`. Only the Windows build resets `server_sock` after stop has
  closed it. On POSIX destroy closes it again, gets EBADF and returns before it
  frees anything.
* `connection_released`. The post hook is to "commit/rollback transactions and
  release the connection", but dispatch reaches the post chain only if no
  middleware stops, a route is found and its handler succeeds.
* `sse_stream`. `USAGE.md:298` says that SSE "abstracts the underlying chunked HTTP
  response". `c_rest_sse_init_response` sends its head like any answer: with
  `Content-Length: 0`. The events are written after a body that has already ended.
* `rate_limit`. The clock is read before the mutex. A thread that was
  overtaken has a time older than the bucket's last refill; the negative
  difference, as a `size_t`, fills the bucket and moves its time back.

## 5. Proofs

Eight modules hold theorems; they hold for all values of the constants that meet
the named assumptions, which TLC evaluates in the runs. In parentheses is the
property a run checks on one instance. The invariants are proved from inductive
ones, with one step for each action.

| Module | Theorems, and the property each states |
|---|---|
| `TsQueueProofs` | `MutualExclusion`, `TypeCorrect` (`TypeOK`), `ListStaysWellFormed` (`ListWellFormed`), `NodesHaveOneOwner` (`OneOwner`), `ClosedQueueIsNotWaitedFor` (`NoSleepAfterClose`), `WakeupsAreNotLost` (`NoLostWakeup`), `QueueIsLinearizable` (`Linearizable`: `TsQueue` implements `FifoQueue`) |
| `MultiThreadServerProofs` | `ServerTypeCorrect` (`TypeOK`), `AtMostOneLateConnection` (`OneLateConnection`), `WorkersStayTracked` (`WorkersTracked`), `DestroyWaitsForWorkers` (`DestroyWaits`) |
| `RouterProofs`, on the lemmas of `RouteTreeProofs` | `RouterTypeCorrect` (`TypeOK`), `LastRegistrationServes` (`LatestHandlerServes`), `MatchTakesThePreferred` (`MatchIsPreferred`), `VariablesOfTheMatch` (`VarsOfTheMatch`), `RegistrationIsLocal` (`AddIsLocal`) |
| `ConnectionProofs` | `ConnectionTypeCorrect` (`TypeOK`), `AnswersComeInOrder` (`AnswersIncrease`), `CommittedRequestsSucceed` (`CommitMeansSuccess`), `ClosingRequestIsLast` (`CloseIsLast`) |
| `ServicesProofs` | `LimiterTypeCorrect`, `LimitInOrder` (`LimitHoldsInOrder`), `LeaksAreWhatIsHeld` (`TrackedExactly`), `FoundNodeIsAlive` (`NodeAlive`), `NoChangeIsHidden` (`ChangesTold`), `OneConnectionIsTardy` (`OneTardyConnection`), `FreedContextIsReleased` (`DestroyReleases`), `ServicesRunTheirComponents` |
| `OAuth2Proofs` | `GrantsAreVerified` (`GrantMeansVerified`), `GrantsAreServed` (`GrantServed`), `LogoutClosesAccess` (`LogoutEndsAccess`), `NothingIsKept` (`EverythingReleased`) |
| `StreamsProofs` | `CredentialsSurviveTheHeader` (`CredentialsRoundTrip`), `OnlyItsTokenOpens` (`TokenOpensTheGate`), `HeadersSurviveTheCut` (`WsHeaderRoundTrip`), `AnswersAreFramed` (`AnswerIsFramed`) |

### Assumptions on the constants

* Null values are none of the things they stand beside: `NullAssumption`,
  `NoBucketAssumption`, `NoNodeAssumption`, and `KernelAssumption` (no worker is
  named like a state of a descriptor).
* `FiniteAssumption`, `WorkersAssumption`: finitely many threads, workers; used to
  count them, and so that the kernel's table has room for all.
* Types and sizes: `SlotsAssumption`, `RunsAssumption`, `AddsAssumption`,
  `LimitAssumption`, `SegmentsAssumption`, `PatternsAssumption`,
  `ConfigAssumption` (the chains, routes and requests are made of what the module
  knows).
* `WidthAssumption`: within the horizon neither times nor `capacity + rate * time`
  reach the width of `size_t`; for the real width that is a matter of rates
  chosen, not of time.
* `PollersAssumption`: the application and the watcher are two threads.
* `AccountsAssumption`: an account is a pair, and neither half is null: the library
  copies strings it was given, and a null one is no form field.

* `MessagesAssumption` says how the messages of four kinds are made, and allows any
  number of any length. Credentials are C strings, without a NUL, and a user name
  has no colon (RFC 7617 forbids it, and the code splits at the first). A given token
  is any list of texts; but one that bears the signature of its first two texts was
  signed with the secret: nobody forges an HMAC. A frame is any one whose length is
  below 2^31, the largest number of the model; the code itself writes 32 bits.
  An answer begins with a new response.
* `NullAssumption` of `Streams` and `SaysAssumption`: no text is null, and a handler
  answers with the calls the property is about.

### The queue

None of the properties is inductive by itself. The inductive invariant `IInv` has
two halves. `Control` speaks of control alone: the types of
`pc`, `owner` and `waiting`; `LockInv`, the pc values inside a critical section are exactly
those of the mutex's owner; and `AloneInv`, while a thread destroys the queue the
others are idle, and while the queue does not exist every thread is idle or about to
return. `Struct` adds the data: `TypeOK`,
`ListWellFormed`, `OneOwner`, and three parts that make them inductive:
`HandInv` (a thread carries a node exactly at the pc values where its local is
live), `WalkInv` (what destroy has still to free is the rest of the list) and
`EmptyInv` (a queue that is not live holds nothing). `OneOwner` alone does not
survive a push, because nothing says that the node in hand is not linked;
`ListWellFormed` alone does not survive a pop, because nothing says that no
other thread is half way through one. Each action that touches the list or the
heap has a lemma; all others are covered by one lemma about steps that only move
control. `NoLostWakeup` is then preserved because a push that adds an
item to a queue with sleepers signals one of them into `Poppers`, and a pop that
leaves `Poppers` with an item takes one away; its lemmas count with
`FiniteSetTheorems`. `NoSleepAfterClose` rests on `WaitInv`: what pop has seen of the queue
is still so when it gives up the mutex, since who adds or closes holds the mutex, so that
no other thread gets in between its test and its sleep.

`QueueIsLinearizable` needs the invariant for one thing: the item a critical section
takes from `head` is the first of the abstract queue. `StageOf` and `ArgOf` are
the refinement mapping's per-thread parts; one lemma says that a step moves the
stage of one thread only, and each action is then an abstract step of that thread
or a stutter.

### The multi-thread server

`TypeOK` is not inductive: that a descriptor is found for each connection needs to
know who holds the others (`Sockets`: one listens or is about to, each of the
rest belongs to one worker, which counting turns into a free one), and that an
index stays in the table needs to know which indices the locals of two threads may
have (`Indices`; run holds one it read before stop reset the counter). `LateOnce`
adds to `OneLateConnection` that after the late connection no way leads back to
accept. `Alone` is what holds of the table as long as stop was not called, so that
only one thread changes it: entries above the counter are empty, every worker that
runs is in the table, in the hand of run, or was one too many, and what destroy
has passed is empty. Its lemmas follow a worker into the table through the read
and the two stores of `workers[worker_count++]`. `Undisturbed` asks for it only until
stop is called, as the code does not keep it any longer.

### The router

The loops of `router.c` are recursive functions over a counter. What such a function
returns is proved without an induction rule: of the numbers for which a claim would be
wrong there is a least, and it is refuted (`WellFoundedInduction`, on sets). A loop
over a list, `LoopExists`, is treated once for all of them. `Match` counts the
segments that are left, so that its claims are made of all nodes of a level: `Right`
says that the answer at a node is one of `Fitting`, the nodes below it whose
remaining segments fit, and that it is `Ahead` of all others of them in the order of
the child lists; `Bound` says what the variables are; `Local` says how the answer may
differ after a registration. Each of the three is proved for the loop at one node
from the same of its children, then for all levels. The trees are those that
`c_rest_router_add` makes (`Listed`, `OnceEach`); that every registration, complete
or broken off, yields one again, `Extended` by nodes that are at the front of their
lists, is what `RouterProofs` takes from the lemmas. Its invariants tie the history
variables to the lists: `ByAge`, a child list is in the order of age, and
`HandlersCurrent`, the first handler of a method is the latest registered.
`MatchIsPreferred` and `VarsOfTheMatch` follow, as the node that is ahead is
the one that branches off to the youngest child.

### The connection

`Typed` says besides the types what a parser has read: a request is dispatched
with its request line read, and what was read of a request and what is still to
come are never more units than it was sent as (`UnitsFit`, which counts). On it rest
three invariants. `Answered`: what is still to come begins with a request about which nothing
has been done, and while a request is served it is `sent` or `broken` that stands
for an answer to it. `AnswersIncrease` alone does not exclude
that a second answer is on its way. `Committed`: the transaction of the request being served has
not ended before the post chain; unless the request is revised, no error was told
when the framework's own middlewares and handlers run, a status of success means that
none was told, and a committed transaction leaves a status of success. What the application
does at its turns (`CommittedApplication`) is where the three are needed at once.
`LastOne`: a request that asked to close, once served, is the last on the list, and
the loop has yet to test keep-alive. Lemmas on what reading, serving and the peer
leave alone keep each action's step to what it changes.

### The services

`LimitHoldsInOrder` compares what was granted with the clock, and is
not inductive: a bucket may hold tokens that were never paid for. `LimitInv` adds
`Account`, which charges tokens granted and tokens left together against the capacity and
the rate up to the *last refill*, and that no time in hand is ahead of the
clock (`TimesPast`). A check spends what it grants, so their sum stays; a refill
in order adds at most the rate times what it moves the last refill by
(`RefillInOrder`, where `WidthAssumption` keeps the product from wrapping); a
refill out of order makes `stale` true and ends the claim.

`MemInv` is about what the nodes would say once a realloc in progress has written
its node. `BlocksApart`: a block that is out is in the hands of one thread or one call.
`NodesApart`: a node is on the list once, or with the call that links it. `Matched`,
as long as no two reallocs overlapped: there is an assignment of addresses to nodes,
equal to `ptrOf` but for the node to be rewritten, that makes the list a bijection
with the blocks owed (`StandFor`), and the node of the realloc is the one of its block
(`NodeFits`). The difficult step is the free of a block whose address a realloc has just left: the
old node still has the address, but `NodeFits` keeps every other node with it in
front, so that the search meets the right one (`TakesItsOwn`). This is where it
matters that a node is linked at the head. The length of the list is the number of blocks
because of the bijection.

`HotReloadInv`: a time that was consumed is one the application knows, or one that some
poll in progress has noticed and will tell (`ToldOrPending`), and no recorded
time is newer than its file (`TimesReal`). `SerialInv`: the descriptor that
listens is the one the context remembers (`SocketKnown`), the pool of a first run
is in the context until it is given up (`PoolKnown`), and after the tardy connection
the loop is over (`TardyOnce`). `ServicesRunTheirComponents` says that a behaviour of
`Services` is one of each component's own specification, where these theorems are
stated.

### The OAuth 2 example

The four properties speak of a call that has returned, a handler that is done or a
main that has come to an end; `IInv` says what holds on the way. `MainFits`, `HandlerFits`
and `CallHolds` list what each may hold where it is, so that whatever fails, the
freeing of that place leaves what `EverythingReleased` allows. The end of main moves
every other caller at most from a server that serves to one that does not
(`MainGoesOn`); the end of the process alone touches the handlers, and leaves each
done, with nothing held and nothing said (`DanglesKeeps`).
`GrantFits` follows a grant through both sides: while the library waits, the
request of the handler is the one the library sent, a handler past a check
has passed it for the accounts of *this* call, and no handler, copy or reading
turns a refusal into a 200. That accounts are only ever added keeps it true while other
handlers run (`CallerStays`). `ServeFits` is the converse: as long as the failures are
those of the beginning of the call, the answer is the token. It rests on the
lemmas about `Response` (`SendIs`, `JsonDictIs`, `PeerReadsIs`, `ReplyIs`): the bytes
a handler's answer puts on the connection, with the headers in the order
`set_header` leaves them in, are read by the peer as that answer. `AccessFits` ties a
request that may tell the secret, and a logout that is to be answered, to `opened`
while the token is saved, and `TokensFit` ties the saved token to `session`; alone,
`LogoutEndsAccess` does not say what a request will find that has not looked yet.
The proof needs a caller not to begin a grant while a request of its own is
still with the server: the answer to that request would be taken for the grant's.

### The streams

What a text of any length becomes is proved like the loops of the router: by a least
counterexample, where a definition is recursive, and place by place, where it is a
function. `MessageInv` and `FrameInv` say what has happened to a message so far.

*Base64.* Four characters carry the number that three octets make. `SextetsOfGroup`
and `OctetsOfGroup` take such a number apart in both ways; `Lengths` says how many
octets and characters there are with 0, 1 or 2 octets left over, with padding and
without. `DecodeOfEncode` follows. The credentials have the colon found by
`CredentialsRead`: it is the first, as the name has none.

*Tokens.* One way, `SignedVerifies`; the other, what verifies bears a signature, which
makes it one of the tokens that were signed, and those give back their own payload.
`RefusalIsRead` follows a refusal through the response to the peer.

*Frames.* A byte is taken apart into bits (`BitsExist`), so that `Xor` with one octet
twice is nothing (`MaskedTwice`), and so that the flags of the first two bytes do not
touch the opcode and the short length (`FirstByte`, `SecondByte`). `LengthFormed` gives
the three forms of a length. The header's size can be read from its second byte; a
piece that has this byte is refused for being shorter, one that does not for having
fewer than two.

*Answers.* Each operation of `Response` has a lemma that says what it leaves when it
succeeds and when it fails at any step. `WholeInv`: nothing was sent, and what a
failed call left behind (a header, a body, a length) is one of the few things that a
later call mends or that two failures were needed for; or an answer was sent, and it
reads as the text that was said. `ChunksInv`: what the peer makes of the marks so
far is what was said, and whatever whole chunk follows is read after it. That is not a
matter of the last write alone: the reader goes through the chunks from the start, and
`ReadShifted` says that what it makes of a tail does not depend on what stands before
it, `MoreRead` that a chunk at the end is therefore added to the text and to nothing
else. The properties alone say nothing of the response, on which the next call
works.

### What is only model-checked

* The liveness properties (`SleeperServed`, `ShutdownCompletes`, `HangUpEnds`):
  fairness and ENABLED are outside the prover's reach.
* `HttpRoundTrip`, `MultipartPartsExact`, `SseEventsExact`, `ParametersTrue`: what the
  parsers make of a message byte by byte, over automata with up to a dozen states.
  Each is a fold, so that a proof for every message is an induction over data with an
  invariant of its own for every state of the parser and every cut.
* What the violated runs check, as it is false.

## 6. Limits

* A closed queue wakes one sleeper only: close signals once, and the thread it
  wakes passes nothing on. No document promises more, so no property is stated;
  it is listed among the hazards.
* stop called before run has set `is_running` is forgotten. The model has
  this behaviour; `ShutdownCompletes` is stated from the moment the flag is clear.
* Short writes, TLS errors and errors inside error paths are not modelled.
* `Connection` stops where a parser begins in the middle of a request that was
  pipelined and dropped; `HttpParser` models what it would read.
* A registration whose variable name could not be allocated answers ok and leaves
  a node that brings `match_route` down (`router.c:104`, `742`). The models have it.
* An application may answer with an error and set a status of success after that, or
  set an error after the transaction has ended: the transaction is committed
  all the same. `CommitMeansSuccess` excepts these requests (`revised`).
* A path that ends on a node without handlers is answered 405 and hides a
  variable route; prefixes of middlewares are compared as strings, so that `/api`
  covers `/apix`; the CORS preflight is never answered. The models have
  all three; the repository does not say what is meant.
* The result of `pthread_create` is ignored by the platform layer: what is
  joined then is out of the model. A worker that cannot be started leaves its
  client's socket open.
* What the properties except, because the code is known to do otherwise: two
  overlapping reallocs of the memory tracker; a hot-reload poll that fails after it has noticed a
  change; SSE events after a refused allocation; an answer after a call that failed
  between two writes (the head, or the size of a chunk, is already with the peer), and
  a redirect or a buffer after two failures (a length or a body of an earlier answer
  may be left, `response.c:295`); an HTTP header with an empty
  value; a piece that begins with the word MALFORMED, which the parser refuses;
  the leaks that the comment of `EverythingReleased` names; and the pools that
  each further run on the same context loses (`modality.c:194`).
* The OAuth 2 example saves one constant token: a login of one person opens the
  secret for all, a logout closes it for all. Its README speaks of "the current
  session token". A save or a revoke that fails is ignored, and nothing ever
  expires. The model has all of it, and `LogoutEndsAccess` is stated for what is left.
* In `OAuth2Main` a failing `c_orm_oauth2_create_tables` is ignored, as in the code: the
  queries that fail without tables are those of the handlers that may fail anyway, each a
  fault of the bound. What main gives up can be given up, but for the context: a
  `c_rest_router_destroy` that failed would make it return with the rest. That stop
  waits for the handlers is `MultiThreadServer`'s matter; with more than 64
  connections it does not wait for all.
* The hazards no property covers are in `PROJECT.json` with the reason.

## 7. Running

    tlc -workers 2 -config MCTsQueue.cfg MCTsQueue
    tlapm TsQueueProofs.tla    (and the other seven *Proofs modules)

Every pair of module and configuration is listed in `PROJECT.json`; the slowest runs
take about three minutes.
