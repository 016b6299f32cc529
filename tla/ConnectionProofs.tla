--------------------------- MODULE ConnectionProofs ---------------------------
(***************************************************************************)
(* Proofs about Connection, for any configuration of routes and of         *)
(* middlewares and any number of requests, pipelined in any way.           *)
(***************************************************************************)
EXTENDS Connection, RouteTreeProofs, FiniteSetTheorems, SequenceTheorems, TLAPS

HandlerPcs == {"pre", "user"} \cup CrudPcs
ServePcs == HandlerPcs \cup {"post", "reply", "clean"}

(* A request that is dispatched has been read at least as far as its line.   *)
HasRead ==
  /\ pc \in {"dispatch"} \cup ServePcs => parser.req # 0 /\ parser.named
  /\ pc \in ServePcs => status # 0
  /\ parser.req # 0 /\ (pc = "recv" \/ parser.named) => parser.got > 0
  /\ parser.req = 0 => parser.got = 0
  /\ pc \in {"user"} \cup CrudPcs => link = 1

(* What has been read of a request, and what is still to come, are parts of  *)
(* the units it was sent as: none is taken twice.                            *)
UnitsFit ==
  \A r \in DOMAIN asked :
    UnitsIn(stream, r) + (IF parser.req = r THEN parser.got ELSE 0) <= Len(Units(r, asked[r]))

Typed == TypeOK /\ HasRead /\ UnitsFit

IsLine(i) == stream[i].part = "line"

(* The requests that anything has been done about. *)
Seen == {wire[i].req : i \in DOMAIN wire} \cup {ended[i].req : i \in DOMAIN ended}
          \cup {served[i].req : i \in DOMAIN served}

(* Request lines arrive in the order of the requests, and the next to come   *)
(* is of a request that nothing has been done about: whatever is dropped,    *)
(* the loop cannot come back to a request.                                   *)
InOrder ==
  /\ \A i, j \in DOMAIN stream : i < j /\ IsLine(i) /\ IsLine(j) => stream[i].of < stream[j].of
  /\ \A i \in DOMAIN stream : IsLine(i) => parser.req < stream[i].of
  /\ \A i \in DOMAIN stream, r \in Seen : IsLine(i) => r < stream[i].of
  /\ \A r \in Seen : parser.req # 0 => r <= parser.req /\ (pc \in {"recv", "dispatch"} => r < parser.req)

(* headers_sent, or a broken connection, stands for an answer to the request *)
(* that is being served.                                                     *)
Unanswered == pc \in ServePcs /\ ~sent /\ ~broken => \A j \in DOMAIN wire : wire[j].req < parser.req

Answered == InOrder /\ Unanswered /\ AnswersIncrease

(* The transaction of the request being served: not ended before the post    *)
(* chain, once in it.  Unless the application revised it, what the framework *)
(* finds told so far is no error, the status tells of any error the peer was *)
(* told of, and a committed transaction leaves a status of success.          *)
NotEnded == \A i \in DOMAIN ended : ended[i].req # parser.req
NoErrorTold == \A j \in DOMAIN wire : wire[j].req = parser.req => wire[j].status < 400 \/ parser.req \in revised
Ending ==
  /\ pc \in HandlerPcs => NotEnded
  /\ pc = "post" /\ dbConn => NotEnded
  /\ pc \in HandlerPcs /\ ~AppRuns => NoErrorTold
  /\ pc \in HandlerPcs \cup {"post"} /\ status < 400 => NoErrorTold
  /\ pc \in {"post", "reply"} =>
       \A i \in DOMAIN ended : ended[i].req = parser.req /\ ended[i].how = "commit" =>
                                status < 400 \/ parser.req \in revised

Committed == Ending /\ CommitMeansSuccess

(* A request that asks to close is the latest served, and what the loop will *)
(* look at before it reads again.                                            *)
LastOne ==
  \A i \in DOMAIN served : served[i].close =>
    /\ i = Len(served)
    /\ pc = "closed" \/ (pc \in ServePcs \cup {"next"} /\ parser.req \in DOMAIN asked /\ Closing)
-----------------------------------------------------------------------------
(* How many units of a request there are in a sequence of units.             *)
Places(s, r) == {i \in 1 .. Len(s) : s[i].of = r}

LEMMA UnitsInType ==
  ASSUME NEW S, NEW s \in Seq(S), NEW r
  PROVE  UnitsIn(s, r) = Cardinality(Places(s, r)) /\ IsFiniteSet(Places(s, r)) /\ UnitsIn(s, r) \in Nat
<1>1. Len(s) \in Nat /\ DOMAIN s = 1 .. Len(s)
  BY LenProperties
<1>2. IsFiniteSet(1 .. Len(s)) /\ Places(s, r) \in SUBSET (1 .. Len(s))
  BY <1>1, FS_Interval DEF Places
<1>3. IsFiniteSet(Places(s, r))
  BY <1>2, FS_Subset
<1> QED BY <1>1, <1>3, FS_CardinalityType DEF UnitsIn, Places

LEMMA UnitsInConcat ==
  ASSUME NEW S, NEW s \in Seq(S), NEW t \in Seq(S), NEW r
  PROVE  UnitsIn(s \o t, r) = UnitsIn(s, r) + UnitsIn(t, r)
<1> DEFINE n == Len(s)
           A == Places(s, r)
           B == Places(t, r)
           C == {j \in (n + 1) .. (n + Len(t)) : t[j - n].of = r}
<1>1. /\ Len(s) \in Nat /\ Len(t) \in Nat /\ s \o t \in Seq(S) /\ Len(s \o t) = Len(s) + Len(t)
      /\ \A i \in 1 .. Len(s) + Len(t) : (s \o t)[i] = IF i <= Len(s) THEN s[i] ELSE t[i - Len(s)]
  BY LenProperties, ConcatProperties
<1>2. Places(s \o t, r) = A \cup C
  <2>1. \A i \in 1 .. n : i \in 1 .. n + Len(t) /\ (s \o t)[i] = s[i]
    BY <1>1
  <2>2. \A i \in (n + 1) .. (n + Len(t)) : i \in 1 .. n + Len(t) /\ (s \o t)[i] = t[i - n]
    BY <1>1
  <2>3. 1 .. n + Len(t) = 1 .. n \cup (n + 1) .. (n + Len(t))
    BY <1>1
  <2> QED BY <1>1, <2>1, <2>2, <2>3 DEF Places
<1>3. A \cap C = {}
  BY <1>1 DEF Places
<1>4. IsFiniteSet(A) /\ IsFiniteSet(B)
  BY UnitsInType
<1>5. IsFiniteSet(C) /\ Cardinality(C) = Cardinality(B)
  <2> DEFINE f == [i \in B |-> i + n]
  <2>1. f \in Bijection(B, C)
    <3>1. f \in [B -> C]
      BY <1>1 DEF Places
    <3>2. \A x, y \in B : f[x] = f[y] => x = y
      BY <1>1 DEF Places
    <3>3. \A y \in C : \E x \in B : f[x] = y
      <4> SUFFICES ASSUME NEW y \in C PROVE y - n \in B /\ f[y - n] = y
        OBVIOUS
      <4>1. y - n \in 1 .. Len(t)
        BY <1>1
      <4>2. y - n \in B
        BY <4>1 DEF Places
      <4> QED BY <1>1, <4>1, <4>2
    <3> HIDE DEF f, B, C
    <3> QED BY <3>1, <3>2, <3>3 DEF Bijection, Injection, Surjection, IsInjective
  <2> HIDE DEF f, B, C
  <2> QED BY <1>4, <2>1, FS_Bijection DEF ExistsBijection
<1> HIDE DEF A, B, C
<1>6. Cardinality(A \cup C) = Cardinality(A) + Cardinality(C)
  <2>1. Cardinality(A \cup C) = Cardinality(A) + Cardinality(C) - Cardinality(A \cap C)
    BY <1>4, <1>5, FS_Union
  <2>2. Cardinality(A \cap C) = 0 /\ Cardinality(A) \in Nat /\ Cardinality(C) \in Nat
    BY <1>3, <1>4, <1>5, FS_EmptySet, FS_CardinalityType
  <2> QED BY <2>1, <2>2
<1> QED BY <1>1, <1>2, <1>5, <1>6, UnitsInType DEF A, B

LEMMA UnitsInParts ==
  ASSUME NEW S, NEW s \in Seq(S), NEW k \in 0 .. Len(s), NEW r
  PROVE  /\ SubSeq(s, 1, k) \in Seq(S) /\ SubSeq(s, k + 1, Len(s)) \in Seq(S)
         /\ UnitsIn(s, r) = UnitsIn(SubSeq(s, 1, k), r) + UnitsIn(SubSeq(s, k + 1, Len(s)), r)
<1>1. Len(s) \in Nat /\ \A i \in 1 .. Len(s) : s[i] \in S
  BY LenProperties, ElementOfSeq
<1>2. SubSeq(s, 1, k) \in Seq(S) /\ SubSeq(s, k + 1, Len(s)) \in Seq(S)
  BY <1>1, SubSeqProperties
<1>3. SubSeq(s, 1, k) \o SubSeq(s, k + 1, Len(s)) = s
  <2>1. 1 \in 1 .. Len(s) + 1 /\ k \in 1 - 1 .. Len(s) /\ Len(s) \in k .. Len(s)
    BY <1>1
  <2>2. SubSeq(s, 1, k) \o SubSeq(s, k + 1, Len(s)) = SubSeq(s, 1, Len(s))
    BY <2>1, ConcatAdjacentSubSeq
  <2> QED BY <2>2, SubSeqFull
<1> DEFINE a == SubSeq(s, 1, k)
           b == SubSeq(s, k + 1, Len(s))
<1>4. a \in Seq(S) /\ b \in Seq(S) /\ a \o b = s
  BY <1>2, <1>3
<1> HIDE DEF a, b
<1>5. UnitsIn(a \o b, r) = UnitsIn(a, r) + UnitsIn(b, r)
  BY <1>4, UnitsInConcat
<1> QED BY <1>2, <1>4, <1>5 DEF a, b

LEMMA UnitsOfRequest ==
  ASSUME NEW i, NEW q \in Requests
  PROVE  /\ Units(i, q) \in Seq([of : {i}, part : {"line", "headers", "body"}])
         /\ Len(Units(i, q)) = 2 + q.pieces /\ q.pieces \in Nat
         /\ Units(i, q)[1].part = "line"
         /\ \A j \in 2 .. Len(Units(i, q)) : Units(i, q)[j].part # "line"
         /\ UnitsIn(Units(i, q), i) = Len(Units(i, q))
         /\ \A r : r # i => UnitsIn(Units(i, q), r) = 0
<1> DEFINE S == [of : {i}, part : {"line", "headers", "body"}]
           h == <<[of |-> i, part |-> "line"], [of |-> i, part |-> "headers"]>>
           b == [j \in 1 .. q.pieces |-> [of |-> i, part |-> "body"]]
           u == Units(i, q)
<1>1. q.pieces \in Nat
  BY ConfigAssumption
<1>2. h \in Seq(S) /\ Len(h) = 2 /\ h[1].part = "line" /\ h[2].part = "headers"
  OBVIOUS
<1>3. b \in Seq(S) /\ Len(b) = q.pieces /\ \A j \in 1 .. q.pieces : b[j].part = "body"
  <2>1. b \in [1 .. q.pieces -> S]
    OBVIOUS
  <2>2. \A j \in 1 .. q.pieces : b[j].part = "body"
    OBVIOUS
  <2> HIDE DEF b, S
  <2>3. b \in Seq(S)
    BY <1>1, <2>1
  <2>4. Len(b) = q.pieces
    BY <1>1, <2>1, <2>3, LenProperties
  <2> QED BY <2>2, <2>3, <2>4
<1>4. u = h \o b
  BY DEF Units
<1>0. \A x \in S : x.of = i
  OBVIOUS
<1> HIDE DEF h, b, u, S
<1>5. /\ u \in Seq(S) /\ Len(u) = 2 + q.pieces
      /\ \A j \in 1 .. 2 + q.pieces : u[j] = IF j <= 2 THEN h[j] ELSE b[j - 2]
  <2>1. /\ h \o b \in Seq(S) /\ Len(h \o b) = Len(h) + Len(b)
        /\ \A j \in 1 .. Len(h) + Len(b) : (h \o b)[j] = IF j <= Len(h) THEN h[j] ELSE b[j - Len(h)]
    BY <1>2, <1>3, ConcatProperties
  <2> QED BY <1>2, <1>3, <1>4, <2>1
<1>6. u[1].part = "line" /\ \A j \in 2 .. Len(u) : u[j].part # "line"
  <2>1. u[1] = h[1] /\ u[2] = h[2]
    BY <1>1, <1>5
  <2>2. \A j \in 3 .. Len(u) : j - 2 \in 1 .. q.pieces /\ u[j] = b[j - 2]
    BY <1>1, <1>5
  <2>3. \A j \in 2 .. Len(u) : j = 2 \/ j \in 3 .. Len(u)
    BY <1>1, <1>5
  <2> QED BY <1>2, <1>3, <2>1, <2>2, <2>3
<1>7. \A j \in 1 .. Len(u) : u[j].of = i
  BY <1>0, <1>5, ElementOfSeq
<1>8. UnitsIn(u, i) = Len(u)
  <2>1. Places(u, i) = 1 .. Len(u) /\ Len(u) \in Nat
    BY <1>1, <1>5, <1>7 DEF Places
  <2>2. Cardinality(1 .. Len(u)) = Len(u)
    <3>1. 1 \in Int /\ Len(u) \in Int
      BY <2>1
    <3>2. Cardinality(1 .. Len(u)) = IF 1 > Len(u) THEN 0 ELSE Len(u) - 1 + 1
      BY <3>1, FS_Interval
    <3> QED BY <2>1, <3>2
  <2> QED BY <1>5, <2>1, <2>2, UnitsInType
<1>9. ASSUME NEW r, r # i PROVE UnitsIn(u, r) = 0
  <2>1. Places(u, r) = {}
    BY <1>7, <1>9 DEF Places
  <2> QED BY <1>5, <2>1, UnitsInType, FS_EmptySet
<1> QED BY <1>1, <1>5, <1>6, <1>8, <1>9 DEF u, S
-----------------------------------------------------------------------------
Statuses == {200, 204, 301, 400, 401, 404, 405, 500}
Answers == [req : DOMAIN asked, status : Statuses]
Endings == [req : DOMAIN asked, how : {"commit", "rollback"}]
Services == [req : DOMAIN asked, close : BOOLEAN]

(* The tree that the routes make, and what it has for a request.             *)
LEMMA TreeType == Tree \in Trees(DOMAIN Routes)
<1> DEFINE n == Len(Routes)
           T == Trees(DOMAIN Routes)
           Body(f) == [i \in 0 .. n |-> IF i = 0 THEN EmptyTree
                                        ELSE AddRoute(f[i - 1], Routes[i].method, Routes[i].path, i)]
           built == CHOOSE f : f = Body(f)
           step == [i \in 1 .. n |-> [t \in T |-> AddRoute(t, Routes[i].method, Routes[i].path, i)]]
<1>1. n \in Nat /\ DOMAIN Routes = 1 .. n
  BY ConfigAssumption, LenProperties
<1>2. \A i \in 1 .. n : Routes[i].method \in Methods /\ Routes[i].path \in Seq(Segments \cup {Empty})
  BY <1>1, ConfigAssumption
<1>3. EmptyTree \in T
  BY EmptyTreeType
<1>4. \A i \in 1 .. n, t \in T : AddRoute(t, Routes[i].method, Routes[i].path, i) \in T
  BY <1>1, <1>2, AddRouteType
<1>5. Tree = built[n]
  BY DEF Tree
<1> HIDE DEF T, n
<1>6. step \in Steps(n, T) /\ \A i \in 1 .. n, t \in T : step[i][t] = AddRoute(t, Routes[i].method, Routes[i].path, i)
  BY <1>4 DEF Steps
<1> HIDE DEF step
<1>7. PICK g : Loop(g, n, T, EmptyTree, step)
  <2>1. PICK e \in T : e = EmptyTree
    BY <1>3
  <2>2. \E g : Loop(g, n, T, e, step)
    BY <1>1, <1>6, LoopExists
  <2> QED BY <2>1, <2>2
<1>8. \A i \in 1 .. n : i - 1 \in 0 .. n /\ i \in 0 .. n
  BY <1>1
<1>9. /\ g \in [0 .. n -> T] /\ g[0] = EmptyTree
      /\ \A i \in 1 .. n : g[i] = AddRoute(g[i - 1], Routes[i].method, Routes[i].path, i)
  <2>1. g \in [0 .. n -> T] /\ g[0] = EmptyTree /\ \A i \in 1 .. n : g[i] = step[i][g[i - 1]]
    BY <1>7 DEF Loop
  <2> QED BY <1>6, <1>8, <2>1
<1>10. g = Body(g)
  <2>1. \A i \in 0 .. n : i # 0 => i \in 1 .. n
    BY <1>1
  <2> QED BY <1>9, <2>1
<1> HIDE DEF Body
<1>11. built = Body(built)
  BY <1>10
<1> HIDE DEF built
<1>12. /\ built[0] = EmptyTree
       /\ \A i \in 1 .. n : built[i] = AddRoute(built[i - 1], Routes[i].method, Routes[i].path, i)
  <2> DEFINE h == built
  <2>1. h = Body(built)
    BY <1>11
  <2>2. 0 \in 0 .. n /\ \A i \in 1 .. n : i # 0
    BY <1>1
  <2> HIDE DEF h
  <2>3. h[0] = EmptyTree /\ \A i \in 1 .. n : h[i] = AddRoute(built[i - 1], Routes[i].method, Routes[i].path, i)
    BY <1>8, <2>1, <2>2 DEF Body
  <2> QED BY <2>3 DEF h
<1> DEFINE Good == {i \in 0 .. n : built[i] \in T}
<1>13. 0 \in Good /\ \A i \in 1 .. n : i - 1 \in Good => i \in Good
  <2>1. 0 \in Good
    BY <1>1, <1>3, <1>12
  <2>2. ASSUME NEW i \in 1 .. n, i - 1 \in Good PROVE i \in Good
    BY <1>4, <1>8, <1>12, <2>2
  <2> QED BY <2>1, <2>2
<1> HIDE DEF Good
<1>14. n \in Good
  <2>1. 0 .. n \subseteq Good
    BY <1>1, <1>13, CountUp
  <2> QED BY <1>1, <2>1
<1> QED BY <1>5, <1>14 DEF Good, T

LEMMA RoutingIsTotal ==
  \A q \in Requests : /\ Routing[q].kind \in {"notFound", "noMethod", "handler"}
                      /\ Routing[q].kind = "handler" => Routing[q].run \in DOMAIN Routes
<1> SUFFICES ASSUME NEW q \in Requests
             PROVE  /\ Routing[q].kind \in {"notFound", "noMethod", "handler"}
                    /\ Routing[q].kind = "handler" => Routing[q].run \in DOMAIN Routes
  OBVIOUS
<1>1. Routing[q] = Resolve(Tree, q.path, q.method) /\ q.path \in Seq(Segments \cup {Empty})
  BY ConfigAssumption DEF Routing
<1> QED BY <1>1, TreeType, ResolveType

LEMMA Chains ==
  /\ Len(Pre) \in Nat /\ DOMAIN Pre = 1 .. Len(Pre)
  /\ Len(Post) \in Nat /\ DOMAIN Post = 1 .. Len(Post)
<1>1. Pre \in Seq(Elems(Pre)) /\ Post \in Seq(Elems(Post))
  BY ConfigAssumption
<1> QED BY <1>1, LenProperties

(* What is known while a request is served. *)
LEMMA Served ==
  ASSUME Typed, pc \in {"dispatch"} \cup ServePcs
  PROVE  /\ parser.req \in DOMAIN asked /\ parser.req # 0 /\ parser.got \in Nat /\ Request \in Requests
         /\ pc # "dispatch" => status \in Statuses
<1>1. /\ parser.req \in 0 .. Len(asked) /\ parser.req # 0 /\ parser.got \in Nat /\ asked \in Seq(Requests)
      /\ pc # "dispatch" => status \in Statuses
  BY DEF Typed, TypeOK, HasRead, Statuses
<1>2. Len(asked) \in Nat /\ DOMAIN asked = 1 .. Len(asked)
  BY <1>1, LenProperties
<1>3. parser.req \in 1 .. Len(asked)
  BY <1>1, <1>2
<1> QED BY <1>1, <1>2, <1>3, ElementOfSeq DEF Request

LEMMA SendTyped ==
  ASSUME Typed, pc \in ServePcs, NEW r \in Results, NEW s \in Statuses, NEW body, Send(r, s, body), asked' = asked
  PROVE  wire' \in Seq(Answers) /\ sent' \in BOOLEAN /\ broken' \in BOOLEAN
<1>1. wire \in Seq(Answers) /\ sent \in BOOLEAN /\ broken \in BOOLEAN
  BY DEF Typed, TypeOK, Answers, Statuses
<1>2. [req |-> parser.req, status |-> s] \in Answers
  BY Served DEF Answers
<1>3. Append(wire, [req |-> parser.req, status |-> s]) \in Seq(Answers)
  BY <1>1, <1>2, AppendProperties
<1> QED BY <1>1, <1>3 DEF Send, SentFlag

(* A step of serving a request leaves the reading of it alone. *)
LEMMA ServingTyped ==
  ASSUME Typed, pc \in {"dispatch"} \cup ServePcs,
         UNCHANGED <<asked, hungUp, stream, parser, failed>>,
         broken' \in BOOLEAN, sent' \in BOOLEAN, dbConn' \in BOOLEAN, rc' \in Results, status' \in Statuses,
         wire' \in Seq(Answers), ended' \in Seq(Endings), held' \subseteq DOMAIN asked, served' \in Seq(Services),
         revised' \subseteq DOMAIN asked, pc' \in ServePcs \cup {"next"}, link' \in Nat \ {0},
         pc' = "pre" => link' <= Len(Pre) + 1, pc' = "post" => link' <= Len(Post) + 1,
         pc' \in {"user"} \cup CrudPcs => link' = 1
  PROVE  Typed'
<1>1. parser.req # 0 /\ parser.named /\ parser.got > 0
  BY DEF Typed, HasRead
<1>2. HasRead'
  BY <1>1 DEF HasRead, Statuses
<1>3. UnitsFit'
  BY DEF Typed, UnitsFit
<1>4. TypeOK'
  BY <1>1 DEF Typed, TypeOK, Answers, Endings, Services, Statuses, ServePcs, HandlerPcs, CrudPcs, Request
<1> QED BY <1>2, <1>3, <1>4 DEF Typed

LEMMA DispatchTyped ==
  ASSUME Typed, Dispatch
  PROVE  Typed'
<1> USE DEF Dispatch, peer, response, hist, Restart
<1>1. [req |-> parser.req, close |-> parser.got >= 2 /\ Request.close] \in Services /\ served \in Seq(Services)
  <2>1. Request.close \in BOOLEAN
    BY Served, ConfigAssumption
  <2> QED BY <2>1, Served DEF Services, Typed, TypeOK
<1>2. served' \in Seq(Services)
  BY <1>1, AppendProperties
<1>3. /\ UNCHANGED <<asked, hungUp, stream, parser, failed>> /\ revised' \subseteq DOMAIN asked
      /\ broken' \in BOOLEAN /\ sent' \in BOOLEAN /\ dbConn' \in BOOLEAN /\ rc' \in Results /\ status' \in Statuses
      /\ wire' \in Seq(Answers) /\ ended' \in Seq(Endings) /\ held' \subseteq DOMAIN asked
  BY DEF Typed, TypeOK, Answers, Endings, Statuses
<1>4. pc' = "pre" /\ link' = 1 /\ 1 <= Len(Pre) + 1
  BY Chains
<1> QED BY <1>2, <1>3, <1>4, ServingTyped DEF ServePcs, HandlerPcs, CrudPcs

LEMMA MiddlewareTyped ==
  ASSUME Typed, Middleware
  PROVE  Typed'
<1> USE DEF peer, response, hist
<1>1. pc \in {"pre", "post"} /\ pc \in ServePcs
  BY DEF Middleware, Skip, HookFails, StartTransaction, EndTransaction, Cors, Redirect, Unauthorised, Authorise,
         ServePcs, HandlerPcs
<1>2. /\ UNCHANGED <<asked, hungUp, stream, parser, failed, held, served>>
  BY DEF Middleware, Skip, HookFails, StartTransaction, EndTransaction, Cors, Redirect, Unauthorised, Authorise
<1>3. /\ broken \in BOOLEAN /\ sent \in BOOLEAN /\ dbConn \in BOOLEAN /\ rc \in Results /\ status \in Statuses
      /\ wire \in Seq(Answers) /\ ended \in Seq(Endings) /\ held \subseteq DOMAIN asked /\ served \in Seq(Services)
  BY <1>1, Served DEF Typed, TypeOK, Answers, Endings, Services, Statuses
<1>4. /\ link' \in {link, link + 1} /\ pc' \in {pc, "reply"} /\ rc' \in Results
      /\ pc' = pc => link' = link + 1
  <2> USE <1>3 DEF Onward, Results
  <2>1. CASE Skip("pre", Pre) \/ Skip("post", Post) \/ StartTransaction \/ EndTransaction \/ Authorise
    BY <2>1 DEF Skip, StartTransaction, EndTransaction, Authorise
  <2>2. CASE HookFails("pre", Pre) \/ HookFails("post", Post)
    BY <1>1, <2>2 DEF HookFails
  <2>3. ASSUME NEW r \in Results, Cors(r) \/ Redirect(r)
        PROVE  link' = link + 1 /\ pc' \in {pc, "reply"} /\ rc' \in Results
    BY <2>3 DEF Cors, Redirect
  <2>4. ASSUME NEW r \in Results, Unauthorised(r, 401) PROVE link' = link /\ pc' = "reply" /\ rc' \in Results
    BY <2>4 DEF Unauthorised
  <2> QED BY <1>1, <2>1, <2>2, <2>3, <2>4 DEF Middleware
<1>5. link' \in Nat \ {0} /\ (pc' = "pre" => link' <= Len(Pre) + 1) /\ (pc' = "post" => link' <= Len(Post) + 1)
  <2>1. link \in Nat \ {0}
    BY DEF Typed, TypeOK
  <2>2. CASE pc' = "reply"
    BY <1>4, <2>1, <2>2
  <2>3. CASE pc' # "reply"
    <3>1. pc' = pc /\ link' = link + 1
      BY <1>4, <2>3
    <3>2. link \in DOMAIN (IF pc = "pre" THEN Pre ELSE Post)
      BY <1>1, <2>3, <3>1 DEF Middleware, Skip, HookFails, StartTransaction, EndTransaction, Cors, Redirect, Unauthorised,
             Authorise, Runs
    <3> QED BY <1>1, <2>1, <3>1, <3>2, Chains
  <2> QED BY <2>2, <2>3
<1>6. status' \in Statuses /\ wire' \in Seq(Answers) /\ sent' \in BOOLEAN /\ broken' \in BOOLEAN
  <2>1. ASSUME NEW r \in Results, Redirect(r) PROVE status' \in Statuses /\ wire' \in Seq(Answers) /\ sent' \in BOOLEAN /\ broken' \in BOOLEAN
    <3>1. Send(r, 301, FALSE) /\ asked' = asked /\ status' = 301
      BY <1>2, <2>1 DEF Redirect
    <3>2. 301 \in Statuses /\ 401 \in Statuses
      BY DEF Statuses
    <3> QED BY <1>1, <3>1, <3>2, SendTyped
  <2>2. ASSUME NEW r \in Results, Unauthorised(r, 401) PROVE status' \in Statuses /\ wire' \in Seq(Answers) /\ sent' \in BOOLEAN /\ broken' \in BOOLEAN
    <3>1. Send(r, 401, TRUE) /\ asked' = asked /\ status' = 401
      BY <1>2, <2>2 DEF Unauthorised
    <3>2. 301 \in Statuses /\ 401 \in Statuses
      BY DEF Statuses
    <3> QED BY <1>1, <3>1, <3>2, SendTyped
  <2>3. CASE \/ Skip("pre", Pre) \/ Skip("post", Post) \/ HookFails("pre", Pre) \/ HookFails("post", Post)
             \/ StartTransaction \/ EndTransaction \/ (\E r \in Results : Cors(r)) \/ Authorise
    BY <1>3, <2>3 DEF Skip, HookFails, StartTransaction, EndTransaction, Cors, Authorise, Statuses
  <2> QED BY <2>1, <2>2, <2>3 DEF Middleware
<1>7. dbConn' \in BOOLEAN /\ ended' \in Seq(Endings)
  <2>1. [req |-> parser.req, how |-> Outcome] \in Endings
    BY <1>1, Served DEF Endings, Outcome
  <2>2. Append(ended, [req |-> parser.req, how |-> Outcome]) \in Seq(Endings)
    BY <1>3, <2>1, AppendProperties
  <2>3. (DbPool \/ dbConn) \in BOOLEAN
    BY <1>3, ConfigAssumption
  <2> QED BY <1>3, <2>2, <2>3 DEF Middleware, Skip, HookFails, StartTransaction, EndTransaction, Cors, Redirect, Unauthorised, Authorise
<1>8. pc' \in ServePcs \cup {"next"} /\ pc' \notin {"user"} \cup CrudPcs
  BY <1>1, <1>4 DEF ServePcs, CrudPcs
<1>9. revised' \subseteq DOMAIN asked
  <2>1. revised' \subseteq revised \cup {parser.req}
    BY DEF Middleware, Skip, HookFails, StartTransaction, EndTransaction, Cors, Redirect, Unauthorised, Authorise,
           Revise
  <2> QED BY <1>1, <2>1, Served DEF Typed, TypeOK
<1> QED BY <1>1, <1>2, <1>3, <1>4, <1>5, <1>6, <1>7, <1>8, <1>9, ServingTyped

LEMMA RouteTyped ==
  ASSUME Typed, Route
  PROVE  Typed' /\ pc' \in {"reply", "post", "user"} \cup CrudPcs
<1> USE DEF Route, peer, response, hist, Restart
<1>1. pc \in {"dispatch"} \cup ServePcs /\ pc \in ServePcs
  BY DEF ServePcs, HandlerPcs
<1>2. /\ Routing[Request].kind \in {"notFound", "noMethod", "handler"}
      /\ Routing[Request].kind = "handler" => Routes[Routing[Request].run].handler \in {"crudList", "crud", "crudDelete", "user"}
  BY <1>1, Served, RoutingIsTotal, ConfigAssumption
<1>3. pc' \in {"reply", "post", "user"} \cup CrudPcs /\ rc' \in Results
  <2>1. rc \in Results
    BY DEF Typed, TypeOK
  <2> QED BY <1>2, <2>1 DEF CrudPcs, Results
<1>4. /\ UNCHANGED <<asked, hungUp, stream, parser, failed>> /\ revised' \subseteq DOMAIN asked
      /\ broken' \in BOOLEAN /\ sent' \in BOOLEAN /\ dbConn' \in BOOLEAN
      /\ wire' \in Seq(Answers) /\ ended' \in Seq(Endings) /\ held' \subseteq DOMAIN asked /\ served' \in Seq(Services)
  BY DEF Typed, TypeOK, Answers, Endings, Services, Statuses
<1>5. status' \in Statuses
  BY <1>1, Served DEF Statuses
<1>6. link' = 1 /\ 1 <= Len(Pre) + 1 /\ 1 <= Len(Post) + 1
  BY Chains
<1>7. pc' \in ServePcs \cup {"next"}
  BY <1>3 DEF ServePcs, HandlerPcs
<1>8. Typed'
  BY <1>1, <1>3, <1>4, <1>5, <1>6, <1>7, ServingTyped
<1> QED BY <1>3, <1>8

LEMMA HandlerTyped ==
  ASSUME Typed, Handler
  PROVE  /\ Typed' /\ pc \in {"user"} \cup CrudPcs /\ pc' \in {"post", "reply"}
         /\ UNCHANGED <<asked, hungUp, stream, parser, failed, dbConn, ended, held, served, revised>>
<1> USE DEF peer, response, hist
<1>1. pc \in {"user"} \cup CrudPcs /\ pc \in ServePcs /\ pc # "dispatch"
  BY DEF Handler, Crud, CrudUnconnected, UserReturns, ServePcs, HandlerPcs, CrudPcs
<1>2. UNCHANGED <<asked, hungUp, stream, parser, failed, dbConn, ended, held, served, revised, link>>
  BY DEF Handler, Crud, CrudUnconnected, UserReturns
<1>3. /\ broken \in BOOLEAN /\ sent \in BOOLEAN /\ dbConn \in BOOLEAN /\ rc \in Results /\ status \in Statuses
      /\ wire \in Seq(Answers) /\ ended \in Seq(Endings) /\ held \subseteq DOMAIN asked /\ served \in Seq(Services)
  BY <1>1, Served DEF Typed, TypeOK, Answers, Endings, Services, Statuses
<1>4. pc' \in {"post", "reply"} /\ rc' \in Results
  <2> USE <1>3 DEF AfterHandler, Onward, Results
  <2>1. ASSUME NEW r \in Results, Crud(r) \/ CrudUnconnected(r)
        PROVE  pc' \in {"post", "reply"} /\ rc' \in Results
    BY <2>1 DEF Crud, CrudUnconnected
  <2>2. ASSUME NEW r \in Results, UserReturns(r)
        PROVE  pc' \in {"post", "reply"} /\ rc' \in Results
    BY <2>2 DEF UserReturns
  <2> QED BY <2>1, <2>2 DEF Handler
<1>5. status' \in Statuses /\ wire' \in Seq(Answers) /\ sent' \in BOOLEAN /\ broken' \in BOOLEAN
  <2> DEFINE Sound == status' \in Statuses /\ wire' \in Seq(Answers) /\ sent' \in BOOLEAN /\ broken' \in BOOLEAN
  <2>0. 200 \in Statuses /\ 204 \in Statuses /\ 400 \in Statuses /\ 500 \in Statuses
    BY DEF Statuses
  <2>1. ASSUME NEW r \in Results, Crud(r) PROVE Sound
    <3>1. CASE pc = "crudDelete"
      BY <1>3, <2>0, <2>1, <3>1 DEF Crud
    <3>2. CASE pc # "crudDelete"
      <4>1. Send(r, 200, TRUE) /\ status' = 200
        BY <2>1, <3>2 DEF Crud
      <4> QED BY <1>1, <1>2, <2>0, <4>1, SendTyped
    <3> QED BY <3>1, <3>2
  <2>2. ASSUME NEW r \in Results, CrudUnconnected(r) PROVE Sound
    <3>1. CASE pc # "crudList"
      BY <1>3, <2>0, <2>2, <3>1 DEF CrudUnconnected
    <3>2. CASE pc = "crudList"
      <4>1. Send(r, 500, TRUE) /\ status' = 500
        BY <2>2, <3>2 DEF CrudUnconnected
      <4> QED BY <1>1, <1>2, <2>0, <4>1, SendTyped
    <3> QED BY <3>1, <3>2
  <2>3. ASSUME NEW r \in Results, UserReturns(r) PROVE Sound
    BY <1>3, <2>3 DEF UserReturns
  <2> QED BY <2>1, <2>2, <2>3 DEF Handler
<1>6. /\ link' \in Nat \ {0} /\ (pc' = "pre" => link' <= Len(Pre) + 1) /\ revised' \subseteq DOMAIN asked
      /\ dbConn' \in BOOLEAN /\ ended' \in Seq(Endings) /\ held' \subseteq DOMAIN asked /\ served' \in Seq(Services)
  BY <1>2, <1>3, <1>4 DEF Typed, TypeOK
<1>7. pc' = "post" => link' <= Len(Post) + 1
  BY <1>1, <1>2, Chains DEF Typed, HasRead
<1>8. pc' \in ServePcs \cup {"next"} /\ pc' \notin {"user"} \cup CrudPcs
  BY <1>4 DEF ServePcs, CrudPcs
<1> QED BY <1>1, <1>2, <1>4, <1>5, <1>6, <1>7, <1>8, ServingTyped

LEMMA ApplicationTyped ==
  ASSUME Typed, Application
  PROVE  Typed' /\ pc \in ServePcs
<1> USE DEF peer, response, hist
<1>1. pc \in {"pre", "user", "post"} /\ pc \in ServePcs /\ pc # "dispatch"
  BY DEF Application, AppSets, AppSends, AppRuns, ServePcs, HandlerPcs
<1>2. UNCHANGED <<asked, hungUp, stream, parser, failed, pc, link, rc, dbConn, ended, held, served>>
  BY DEF Application, AppSets, AppSends
<1>3. /\ broken \in BOOLEAN /\ sent \in BOOLEAN /\ dbConn \in BOOLEAN /\ rc \in Results /\ status \in Statuses
      /\ wire \in Seq(Answers) /\ ended \in Seq(Endings) /\ held \subseteq DOMAIN asked /\ served \in Seq(Services)
      /\ link \in Nat \ {0} /\ (pc = "pre" => link <= Len(Pre) + 1) /\ (pc = "post" => link <= Len(Post) + 1)
      /\ parser.req \in DOMAIN asked /\ revised \subseteq DOMAIN asked /\ (pc \in {"user"} \cup CrudPcs => link = 1)
  BY <1>1, Served DEF Typed, TypeOK, HasRead, Answers, Endings, Services, Statuses
<1>4. ASSUME NEW s \in {200, 400}, AppSets(s) PROVE Typed'
  <2>1. status' \in Statuses /\ revised' \subseteq DOMAIN asked /\ UNCHANGED <<broken, sent, wire>>
    BY <1>3, <1>4 DEF AppSets, Revise, Statuses
  <2> QED BY <1>1, <1>2, <1>3, <2>1, ServingTyped
<1>5. ASSUME NEW r \in Results, AppSends(r) PROVE Typed'
  <2>1. PICK s \in Statuses : s = status
    BY <1>3
  <2>2. Send(r, s, TRUE) /\ UNCHANGED <<status, revised>>
    BY <1>5, <2>1 DEF AppSends
  <2>3. wire' \in Seq(Answers) /\ sent' \in BOOLEAN /\ broken' \in BOOLEAN
    BY <1>1, <1>2, <2>2, SendTyped
  <2> QED BY <1>1, <1>2, <1>3, <2>2, <2>3, ServingTyped
<1> QED BY <1>1, <1>4, <1>5 DEF Application

LEMMA FinishTyped ==
  ASSUME Typed, PostDone \/ (\E r \in Results : Reply(r)) \/ NoReply \/ Clean
  PROVE  Typed'
<1> USE DEF peer, response, hist
<1>1. pc \in ServePcs /\ pc # "dispatch"
  BY DEF PostDone, Reply, NoReply, Clean, ServePcs, HandlerPcs, CrudPcs
<1>2. UNCHANGED <<asked, hungUp, stream, parser, failed, ended, served, link, status>>
  BY DEF PostDone, Reply, NoReply, Clean
<1>3. /\ broken \in BOOLEAN /\ sent \in BOOLEAN /\ dbConn \in BOOLEAN /\ rc \in Results /\ status \in Statuses
      /\ wire \in Seq(Answers) /\ ended \in Seq(Endings) /\ held \subseteq DOMAIN asked /\ served \in Seq(Services)
      /\ link \in Nat \ {0} /\ parser.req \in DOMAIN asked
  BY <1>1, Served DEF Typed, TypeOK, Answers, Endings, Services, Statuses
<1>4. /\ pc' \in {"reply", "clean", "next"} /\ rc' \in Results /\ dbConn' \in BOOLEAN
      /\ held' \subseteq DOMAIN asked /\ revised' \subseteq DOMAIN asked
  <2>1. revised \subseteq DOMAIN asked
    BY DEF Typed, TypeOK
  <2> QED BY <1>3, <2>1 DEF PostDone, Reply, NoReply, Clean, Results
<1>5. wire' \in Seq(Answers) /\ sent' \in BOOLEAN /\ broken' \in BOOLEAN
  <2>1. ASSUME NEW r \in Results, Reply(r) PROVE wire' \in Seq(Answers) /\ sent' \in BOOLEAN /\ broken' \in BOOLEAN
    <3>1. PICK s \in Statuses : s = status
      BY <1>3
    <3>2. Send(r, s, TRUE)
      BY <2>1, <3>1 DEF Reply
    <3> QED BY <1>1, <1>2, <3>2, SendTyped
  <2> QED BY <1>3, <2>1 DEF PostDone, NoReply, Clean
<1>6. pc' \in ServePcs \cup {"next"} /\ pc' \notin {"pre", "post", "user"} \cup CrudPcs
  BY <1>4 DEF ServePcs, CrudPcs
<1> QED BY <1>1, <1>2, <1>3, <1>4, <1>5, <1>6, ServingTyped

LEMMA TurnTyped ==
  ASSUME Typed, Turn
  PROVE  Typed'
<1> USE DEF Turn, peer, hist
<1>1. Len(asked) \in Nat
  BY LenProperties DEF Typed, TypeOK
<1>2. HasRead'
  BY DEF HasRead, FreshParser, ServePcs, HandlerPcs, CrudPcs
<1>3. parser' = FreshParser /\ FreshParser \in [req : 0 .. Len(asked), got : Nat, named : BOOLEAN]
  BY <1>1 DEF FreshParser
<1>4. TypeOK'
  <2>1. parser'.req = 0 /\ pc' \in {"recv", "closed"} /\ link' = 1 /\ rc' = "ok" /\ status' = 0
        /\ failed' = FALSE /\ sent' = FALSE
    BY <1>3 DEF FreshParser
  <2>2. UNCHANGED <<asked, stream, hungUp, broken, dbConn, wire, ended, held, served, revised>>
    OBVIOUS
  <2>3. parser' \in [req : 0 .. Len(asked'), got : Nat, named : BOOLEAN]
    BY <1>3
  <2>4. /\ asked' \in Seq(Requests) /\ Len(asked') <= MaxRequests
        /\ stream' \in Seq([of : DOMAIN asked', part : {"line", "headers", "body"}])
        /\ hungUp' \in BOOLEAN /\ broken' \in BOOLEAN /\ dbConn' \in BOOLEAN
    BY <2>2 DEF Typed, TypeOK
  <2>5. /\ wire' \in Seq([req : DOMAIN asked', status : {200, 204, 301, 400, 401, 404, 405, 500}])
        /\ ended' \in Seq([req : DOMAIN asked', how : {"commit", "rollback"}])
        /\ held' \subseteq DOMAIN asked' /\ revised' \subseteq DOMAIN asked'
        /\ served' \in Seq([req : DOMAIN asked', close : BOOLEAN])
    BY <2>2 DEF Typed, TypeOK
  <2> HIDE DEF Turn
  <2>6. failed' \in BOOLEAN /\ sent' \in BOOLEAN
    BY <2>1
  <2>7. pc' \in {"recv", "lost", "dispatch", "pre", "user", "post", "reply", "clean", "next", "closed"} \cup CrudPcs
    BY <2>1
  <2>8. link' \in Nat \ {0} /\ (pc' = "pre" => link' <= Len(Pre) + 1) /\ (pc' = "post" => link' <= Len(Post) + 1)
    BY <2>1
  <2>9. rc' \in Results /\ status' \in {0, 200, 204, 301, 400, 401, 404, 405, 500}
    BY <2>1 DEF Results
  <2>10. (parser.req # 0 => parser.got <= Len(Units(parser.req, Request)))'
    BY <2>1
  <2>11. (pc \in {"dispatch", "pre", "post"} => parser.got > 0 /\ parser.named)'
    BY <2>1
  <2> QED BY <2>3, <2>4, <2>5, <2>6, <2>7, <2>8, <2>9, <2>10, <2>11 DEF TypeOK
<1>5. UnitsFit'
  <2>0. parser'.req = 0 /\ \A r \in DOMAIN asked : r # 0
    BY <1>3, LenProperties DEF FreshParser, Typed, TypeOK
  <2> SUFFICES ASSUME NEW r \in DOMAIN asked PROVE UnitsIn(stream, r) + 0 <= Len(Units(r, asked[r]))
    BY <2>0 DEF UnitsFit
  <2>1. /\ UnitsIn(stream, r) + (IF parser.req = r THEN parser.got ELSE 0) <= Len(Units(r, asked[r]))
        /\ parser.got \in Nat
    BY DEF Typed, UnitsFit, TypeOK
  <2>2. UnitsIn(stream, r) \in Nat
    BY UnitsInType DEF Typed, TypeOK
  <2>3. Len(Units(r, asked[r])) \in Nat
    BY UnitsOfRequest, ElementOfSeq, LenProperties DEF Typed, TypeOK
  <2> QED BY <2>1, <2>2, <2>3
<1> QED BY <1>2, <1>4, <1>5 DEF Typed
-----------------------------------------------------------------------------
UnitTypes == [of : DOMAIN asked, part : {"line", "headers", "body"}]

LEMMA UnitsAreCounted ==
  ASSUME NEW S, NEW s \in Seq(S), NEW r, NEW i \in 1 .. Len(s), s[i].of = r
  PROVE  /\ UnitsIn(s, r) >= 1
         /\ \A j \in 1 .. Len(s) : j # i /\ s[j].of = r => UnitsIn(s, r) >= 2
<1>1. UnitsIn(s, r) = Cardinality(Places(s, r)) /\ IsFiniteSet(Places(s, r)) /\ UnitsIn(s, r) \in Nat
  BY UnitsInType
<1>2. i \in Places(s, r)
  BY DEF Places
<1>3. UnitsIn(s, r) >= 1
  <2>1. {i} \in SUBSET Places(s, r) /\ Cardinality({i}) = 1
    BY <1>2, FS_Singleton
  <2> QED BY <1>1, <2>1, FS_Subset
<1>4. ASSUME NEW j \in 1 .. Len(s), j # i, s[j].of = r PROVE UnitsIn(s, r) >= 2
  <2> DEFINE A == {i}
  <2>1. IsFiniteSet(A) /\ Cardinality(A) = 1 /\ j \notin A /\ A \cup {j} \in SUBSET Places(s, r)
    BY <1>2, <1>4, FS_Singleton DEF Places
  <2> HIDE DEF A
  <2>2. Cardinality(A \cup {j}) = IF j \in A THEN Cardinality(A) ELSE Cardinality(A) + 1
    BY <2>1, FS_AddElement, Zenon
  <2>3. Cardinality(A \cup {j}) = 1 + 1
    BY <2>1, <2>2, Zenon
  <2>4. Cardinality(A \cup {j}) <= UnitsIn(s, r)
    BY <1>1, <2>1, FS_Subset
  <2> QED BY <1>1, <2>3, <2>4
<1> QED BY <1>3, <1>4

(* A longer piece of the stream holds no fewer units of a request. *)
LEMMA UnitsInLonger ==
  ASSUME NEW S, NEW s \in Seq(S), NEW k \in 1 .. Len(s), NEW i \in 1 .. k, NEW r
  PROVE  UnitsIn(SubSeq(s, 1, i), r) <= UnitsIn(SubSeq(s, 1, k), r)
<1>1. Len(s) \in Nat /\ \A j \in 1 .. Len(s) : s[j] \in S
  BY LenProperties, ElementOfSeq
<1> DEFINE a == SubSeq(s, 1, i)
           b == SubSeq(s, 1, k)
<1>2. /\ a \in Seq(S) /\ Len(a) = i /\ \A j \in 1 .. i : a[j] = s[j]
  <2>1. \A j \in 1 .. i : s[j] \in S
    BY <1>1
  <2>2. /\ a \in Seq(S) /\ Len(a) = IF 1 <= i THEN i - 1 + 1 ELSE 0
        /\ \A j \in 1 .. i - 1 + 1 : a[j] = s[1 + j - 1]
    BY <2>1, SubSeqProperties
  <2> QED BY <2>2
<1>3. /\ b \in Seq(S) /\ Len(b) = k /\ \A j \in 1 .. k : b[j] = s[j]
  <2>1. \A j \in 1 .. k : s[j] \in S
    BY <1>1
  <2>2. /\ b \in Seq(S) /\ Len(b) = IF 1 <= k THEN k - 1 + 1 ELSE 0
        /\ \A j \in 1 .. k - 1 + 1 : b[j] = s[1 + j - 1]
    BY <2>1, SubSeqProperties
  <2> QED BY <2>2
<1> HIDE DEF a, b
<1>4. Places(a, r) \in SUBSET Places(b, r)
  BY <1>2, <1>3 DEF Places
<1>5. IsFiniteSet(Places(b, r)) /\ UnitsIn(b, r) = Cardinality(Places(b, r)) /\ UnitsIn(a, r) = Cardinality(Places(a, r))
  BY <1>2, <1>3, UnitsInType
<1>6. UnitsIn(a, r) <= UnitsIn(b, r)
  BY <1>4, <1>5, FS_Subset
<1> QED BY <1>6 DEF a, b

LEMMA BufferType ==
  ASSUME Typed, NEW k \in DOMAIN stream
  PROVE  /\ Len(stream) \in Nat /\ DOMAIN stream = 1 .. Len(stream) /\ stream \in Seq(UnitTypes)
         /\ Buffer(k) \in Seq(UnitTypes) /\ Len(Buffer(k)) = k /\ \A j \in 1 .. k : Buffer(k)[j] = stream[j]
<1>1. stream \in Seq(UnitTypes) /\ Len(stream) \in Nat /\ DOMAIN stream = 1 .. Len(stream)
  BY LenProperties DEF Typed, TypeOK, UnitTypes
<1>2. \A j \in 1 .. k : stream[j] \in UnitTypes
  BY <1>1, ElementOfSeq
<1>3. /\ Buffer(k) \in Seq(UnitTypes) /\ Len(Buffer(k)) = IF 1 <= k THEN k - 1 + 1 ELSE 0
      /\ \A j \in 1 .. k - 1 + 1 : Buffer(k)[j] = stream[1 + j - 1]
  BY <1>1, <1>2, SubSeqProperties DEF Buffer
<1> QED BY <1>1, <1>3

(* basic_execute takes from the buffer what belongs to its request, and the  *)
(* rest of the stream holds what is left.                                    *)
LEMMA ParseTakes ==
  ASSUME Typed, pc = "recv", NEW k \in DOMAIN stream
  PROVE  /\ Parse(parser, Buffer(k)) \in [req : DOMAIN asked, got : Nat, named : BOOLEAN]
         /\ Parse(parser, Buffer(k)).req = IF parser.req = 0 THEN stream[1].of ELSE parser.req
         /\ Parse(parser, Buffer(k)).named = parser.named
         /\ Parse(parser, Buffer(k)).got = parser.got + UnitsIn(Buffer(k), Parse(parser, Buffer(k)).req)
         /\ UnitsIn(Buffer(k), Parse(parser, Buffer(k)).req) \in Nat
         /\ parser.got > 0 \/ UnitsIn(Buffer(k), Parse(parser, Buffer(k)).req) >= 1
         /\ SubSeq(stream, k + 1, Len(stream)) \in Seq(UnitTypes)
         /\ \A r \in DOMAIN asked :
              /\ UnitsIn(SubSeq(stream, k + 1, Len(stream)), r) \in Nat
              /\ UnitsIn(SubSeq(stream, k + 1, Len(stream)), r)
                   + (IF Parse(parser, Buffer(k)).req = r THEN Parse(parser, Buffer(k)).got ELSE 0)
                 <= Len(Units(r, asked[r]))
<1> DEFINE r == IF parser.req = 0 THEN stream[1].of ELSE parser.req
           n == UnitsIn(Buffer(k), r)
           P == Parse(parser, Buffer(k))
           rest == SubSeq(stream, k + 1, Len(stream))
<1>1. /\ Len(stream) \in Nat /\ DOMAIN stream = 1 .. Len(stream) /\ stream \in Seq(UnitTypes)
      /\ Buffer(k) \in Seq(UnitTypes) /\ Len(Buffer(k)) = k /\ \A j \in 1 .. k : Buffer(k)[j] = stream[j]
  BY BufferType
<1>2. /\ parser \in [req : 0 .. Len(asked), got : Nat, named : BOOLEAN]
      /\ Len(asked) \in Nat /\ DOMAIN asked = 1 .. Len(asked)
      /\ parser.req = 0 => parser.got = 0
      /\ parser.req # 0 => parser.got > 0
  BY LenProperties DEF Typed, TypeOK, HasRead
<1>3. 1 \in 1 .. k /\ 1 \in 1 .. Len(stream) /\ k \in 1 .. Len(stream) /\ k \in 0 .. Len(stream)
  BY <1>1
<1>4. stream[1] \in UnitTypes /\ stream[1].of \in DOMAIN asked
  <2>1. stream[1] \in UnitTypes
    BY <1>1, <1>3, ElementOfSeq
  <2> QED BY <2>1 DEF UnitTypes
<1>5. r \in DOMAIN asked
  BY <1>2, <1>4
<1>6. n \in Nat
  BY <1>1, UnitsInType
<1>7. P = [parser EXCEPT !.req = r, !.got = parser.got + n]
  BY <1>1, <1>3 DEF Parse
<1> HIDE DEF r, n, P
<1>8. P \in [req : DOMAIN asked, got : Nat, named : BOOLEAN] /\ P.req = r /\ P.named = parser.named /\ P.got = parser.got + n
  <2>1. \A g : P = [parser EXCEPT !.req = r, !.got = g] /\ g \in Nat =>
                P \in [req : DOMAIN asked, got : Nat, named : BOOLEAN] /\ P.req = r /\ P.named = parser.named /\ P.got = g
    BY <1>2, <1>5
  <2>2. parser.got + n \in Nat
    BY <1>2, <1>6
  <2> QED BY <1>7, <2>1, <2>2
<1>9. parser.got > 0 \/ n >= 1
  <2>1. CASE parser.req = 0
    <3>1. Buffer(k)[1].of = r /\ 1 \in 1 .. Len(Buffer(k))
      BY <1>1, <1>3, <2>1 DEF r
    <3> QED BY <1>1, <3>1, UnitsAreCounted DEF n
  <2> QED BY <1>2, <2>1
<1>10. rest \in Seq(UnitTypes)
  BY <1>1, <1>3, UnitsInParts
<1>11. ASSUME NEW x \in DOMAIN asked
       PROVE  UnitsIn(rest, x) \in Nat /\ UnitsIn(rest, x) + (IF P.req = x THEN P.got ELSE 0) <= Len(Units(x, asked[x]))
  <2>1. UnitsIn(stream, x) = UnitsIn(Buffer(k), x) + UnitsIn(rest, x)
    BY <1>1, <1>3, UnitsInParts DEF Buffer
  <2>2. UnitsIn(Buffer(k), x) \in Nat /\ UnitsIn(rest, x) \in Nat /\ UnitsIn(stream, x) \in Nat
    BY <1>1, <1>10, UnitsInType
  <2>3. UnitsIn(stream, x) + (IF parser.req = x THEN parser.got ELSE 0) <= Len(Units(x, asked[x]))
    BY DEF Typed, UnitsFit
  <2>4. Len(Units(x, asked[x])) \in Nat
    BY UnitsOfRequest, ElementOfSeq, LenProperties DEF Typed, TypeOK
  <2> HIDE DEF P, rest
  <2>5. CASE x = r
    <3>1. P.req = x /\ P.got = parser.got + n /\ n = UnitsIn(Buffer(k), x) /\ parser.got \in Nat
      BY <1>2, <1>8, <2>5 DEF n
    <3>2. parser.req = x \/ parser.got = 0
      BY <1>2, <2>5 DEF r
    <3> QED BY <2>1, <2>2, <2>3, <2>4, <3>1, <3>2
  <2>6. CASE x # r
    <3>1. P.req # x /\ parser.req # x
      BY <1>2, <1>8, <2>6 DEF r
    <3> QED BY <2>1, <2>2, <2>3, <2>4, <3>1
  <2> QED BY <2>5, <2>6
<1> HIDE DEF P, rest
<1>12. P.req = r /\ n = UnitsIn(Buffer(k), P.req)
  BY <1>8 DEF n
<1> QED BY <1>6, <1>8, <1>9, <1>10, <1>11, <1>12 DEF P, rest, r

(* A step of reading leaves what has been answered alone. *)
LEMMA ReadingTyped ==
  ASSUME Typed, pc = "recv",
         UNCHANGED <<asked, hungUp, broken, link, rc, status, sent, dbConn, wire, ended, held, served, revised>>,
         failed' \in BOOLEAN, stream' \in Seq(UnitTypes),
         parser' \in [req : 0 .. Len(asked), got : Nat, named : BOOLEAN],
         parser'.req = 0 => parser'.got = 0,
         pc' \in {"recv", "lost", "closed", "dispatch", "next"},
         pc' = "dispatch" => parser'.req # 0 /\ parser'.named,
         parser'.req # 0 /\ (pc' = "recv" \/ parser'.named) => parser'.got > 0,
         \A r \in DOMAIN asked :
           UnitsIn(stream', r) + (IF parser'.req = r THEN parser'.got ELSE 0) <= Len(Units(r, asked[r]))
  PROVE  Typed'
<1>1. HasRead'
  BY DEF HasRead, ServePcs, HandlerPcs, CrudPcs
<1>2. UnitsFit'
  BY DEF UnitsFit, UnitsIn
<1>3. TypeOK'
  <2>1. parser'.req # 0 => parser'.got <= Len(Units(parser'.req, asked[parser'.req]))
    <3> SUFFICES ASSUME parser'.req # 0 PROVE parser'.got <= Len(Units(parser'.req, asked[parser'.req]))
      OBVIOUS
    <3>1. asked \in Seq(Requests) /\ Len(asked) \in Nat /\ DOMAIN asked = 1 .. Len(asked)
      BY LenProperties DEF Typed, TypeOK
    <3>2. PICK r \in DOMAIN asked : r = parser'.req
      BY <3>1
    <3>3. UnitsIn(stream', r) + parser'.got <= Len(Units(r, asked[r]))
      BY <3>2
    <3>4. PICK s \in Seq(UnitTypes) : s = stream'
      OBVIOUS
    <3>5. UnitsIn(s, r) \in Nat
      BY UnitsInType
    <3>6. Len(Units(r, asked[r])) \in Nat /\ parser'.got \in Nat
      BY <3>1, UnitsOfRequest, ElementOfSeq
    <3> QED BY <3>2, <3>3, <3>4, <3>5, <3>6
  <2>2. (parser.req # 0 => parser.got <= Len(Units(parser.req, Request)))'
    BY <2>1 DEF Request
  <2>3. (pc \in {"dispatch", "pre", "post"} => parser.got > 0 /\ parser.named)'
    OBVIOUS
  <2>4. stream' \in Seq([of : DOMAIN asked', part : {"line", "headers", "body"}])
    BY DEF UnitTypes
  <2> QED BY <2>2, <2>3, <2>4 DEF Typed, TypeOK
<1> QED BY <1>1, <1>2, <1>3 DEF Typed

LEMMA RecvTyped ==
  ASSUME Typed, NEW k \in DOMAIN stream, NEW n \in BOOLEAN, Recv(k, n)
  PROVE  Typed'
<1> DEFINE P == Parse(parser, Buffer(k))
           rest == SubSeq(stream, k + 1, Len(stream))
<1>1. /\ P \in [req : DOMAIN asked, got : Nat, named : BOOLEAN]
      /\ P.got = parser.got + UnitsIn(Buffer(k), P.req)
      /\ UnitsIn(Buffer(k), P.req) \in Nat
      /\ parser.got > 0 \/ UnitsIn(Buffer(k), P.req) >= 1
      /\ rest \in Seq(UnitTypes)
      /\ \A r \in DOMAIN asked : UnitsIn(rest, r) + (IF P.req = r THEN P.got ELSE 0) <= Len(Units(r, asked[r]))
  BY ParseTakes DEF Recv
<1>2. /\ pc = "recv" /\ stream' = rest /\ parser' = [P EXCEPT !.named = P.named /\ n]
      /\ pc' \in {"recv", "dispatch", "next"} /\ (pc' = "dispatch" => parser'.named)
      /\ UNCHANGED <<asked, hungUp, broken, link, rc, status, sent, dbConn, wire, ended, held, served, revised, failed>>
  BY DEF Recv, peer, response, hist
<1>3. Len(asked) \in Nat /\ DOMAIN asked = 1 .. Len(asked) /\ parser.got \in Nat /\ failed \in BOOLEAN
  BY LenProperties DEF Typed, TypeOK
<1> HIDE DEF P, rest
<1>4. P.got > 0
  BY <1>1, <1>3
<1>5. /\ parser' \in [req : DOMAIN asked, got : Nat, named : BOOLEAN] /\ parser'.req = P.req /\ parser'.got = P.got
  BY <1>1, <1>2
<1>6. parser' \in [req : 0 .. Len(asked), got : Nat, named : BOOLEAN] /\ parser'.req # 0
  BY <1>3, <1>5
<1>7. \A r \in DOMAIN asked :
        UnitsIn(stream', r) + (IF parser'.req = r THEN parser'.got ELSE 0) <= Len(Units(r, asked[r]))
  BY <1>1, <1>2, <1>5
<1> QED BY <1>1, <1>2, <1>3, <1>4, <1>5, <1>6, <1>7, ReadingTyped

(* A unit that the parser could not keep, other than a request line, has     *)
(* another of the same request before it.                                    *)
LEMMA ParseFailsTyped ==
  ASSUME Typed, NEW k \in DOMAIN stream, NEW i \in 1 .. k, NEW n \in BOOLEAN, ParseFails(k, i, n)
  PROVE  Typed'
<1> DEFINE P == Parse(parser, Buffer(k))
           Q == Parse(parser, Buffer(i))
           rest == SubSeq(stream, k + 1, Len(stream))
<1>1. pc = "recv" /\ ~Garbled(parser, Buffer(k)) /\ stream[i].of = P.req
  BY DEF ParseFails
<1>2. /\ Len(stream) \in Nat /\ DOMAIN stream = 1 .. Len(stream) /\ stream \in Seq(UnitTypes)
      /\ Buffer(k) \in Seq(UnitTypes) /\ Len(Buffer(k)) = k /\ \A j \in 1 .. k : Buffer(k)[j] = stream[j]
  BY BufferType
<1>3. i \in DOMAIN stream /\ k \in 1 .. Len(stream)
  BY <1>2
<1>4. /\ Buffer(i) \in Seq(UnitTypes) /\ Len(Buffer(i)) = i /\ \A j \in 1 .. i : Buffer(i)[j] = stream[j]
  BY <1>3, BufferType
<1>5. /\ P \in [req : DOMAIN asked, got : Nat, named : BOOLEAN]
      /\ P.req = IF parser.req = 0 THEN stream[1].of ELSE parser.req
      /\ P.got = parser.got + UnitsIn(Buffer(k), P.req) /\ UnitsIn(Buffer(k), P.req) \in Nat
      /\ rest \in Seq(UnitTypes)
      /\ \A r \in DOMAIN asked : UnitsIn(rest, r) \in Nat
      /\ \A r \in DOMAIN asked : UnitsIn(rest, r) + (IF P.req = r THEN P.got ELSE 0) <= Len(Units(r, asked[r]))
  BY <1>1, ParseTakes
<1>6. /\ Q \in [req : DOMAIN asked, got : Nat, named : BOOLEAN]
      /\ Q.req = IF parser.req = 0 THEN stream[1].of ELSE parser.req
      /\ Q.got = parser.got + UnitsIn(Buffer(i), Q.req) /\ UnitsIn(Buffer(i), Q.req) \in Nat
  BY <1>1, <1>3, ParseTakes
<1>7. UnitsIn(Buffer(i), Q.req) <= UnitsIn(Buffer(k), Q.req)
  BY <1>2, <1>3, UnitsInLonger DEF Buffer
<1>8. /\ stream' = rest /\ parser' = [Q EXCEPT !.got = Q.got - 1, !.named = Q.named /\ n /\ stream[i].part # "line"]
      /\ pc' = (IF parser'.named THEN "dispatch" ELSE "next")
      /\ UNCHANGED <<asked, hungUp, broken, link, rc, status, sent, dbConn, wire, ended, held, served, revised, failed>>
  BY DEF ParseFails, peer, response, hist
<1>9. /\ Len(asked) \in Nat /\ DOMAIN asked = 1 .. Len(asked) /\ parser.got \in Nat /\ failed \in BOOLEAN
      /\ parser.req # 0 => parser.got > 0
  BY <1>1, LenProperties DEF Typed, TypeOK, HasRead
<1>10. P.req = Q.req /\ stream[i].of = Q.req /\ i \in 1 .. Len(Buffer(i)) /\ 1 \in 1 .. Len(Buffer(i)) /\ 1 \in 1 .. k
  BY <1>1, <1>3, <1>4, <1>5, <1>6
<1>11. parser.req = 0 => stream[1].part = "line"
  BY <1>1, <1>2, <1>10 DEF Garbled
<1> HIDE DEF P, Q, rest
<1>12. Buffer(i)[i].of = Q.req /\ UnitsIn(Buffer(i), Q.req) >= 1
  BY <1>4, <1>10, UnitsAreCounted
<1>13. stream[i].part # "line" => Q.got - 1 > 0
  <2>1. CASE parser.req # 0
    BY <1>6, <1>9, <1>12, <2>1
  <2>2. CASE parser.req = 0 /\ stream[i].part # "line"
    <3>1. i # 1 /\ Buffer(i)[1].of = Q.req /\ Buffer(i)[i].of = Q.req
      BY <1>4, <1>6, <1>10, <1>11, <1>12, <2>2
    <3>2. UnitsIn(Buffer(i), Q.req) >= 2
      BY <1>4, <1>10, <3>1, UnitsAreCounted
    <3> QED BY <1>6, <1>9, <3>2
  <2> QED BY <2>1, <2>2
<1>14. Q.got - 1 \in Nat /\ Q.got - 1 <= P.got
  <2>1. P.got = parser.got + UnitsIn(Buffer(k), Q.req) /\ UnitsIn(Buffer(k), Q.req) \in Nat
    BY <1>5, <1>10
  <2>2. Q.got = parser.got + UnitsIn(Buffer(i), Q.req) /\ UnitsIn(Buffer(i), Q.req) \in Nat
    BY <1>6
  <2> QED BY <1>7, <1>9, <1>12, <2>1, <2>2
<1>15. /\ parser' \in [req : DOMAIN asked, got : Nat, named : BOOLEAN] /\ parser'.req = Q.req /\ parser'.got = Q.got - 1
       /\ parser'.named => stream[i].part # "line"
  <2>1. \A g, b : parser' = [Q EXCEPT !.got = g, !.named = b] /\ g \in Nat /\ b \in BOOLEAN =>
          /\ parser' \in [req : DOMAIN asked, got : Nat, named : BOOLEAN]
          /\ parser'.req = Q.req /\ parser'.got = g /\ parser'.named = b
    BY <1>6
  <2>2. (Q.named /\ n /\ stream[i].part # "line") \in BOOLEAN
    BY <1>6
  <2> QED BY <1>8, <1>14, <2>1, <2>2
<1>16. parser' \in [req : 0 .. Len(asked), got : Nat, named : BOOLEAN] /\ parser'.req # 0
  BY <1>9, <1>15
<1>17. ASSUME NEW r \in DOMAIN asked
       PROVE  UnitsIn(stream', r) + (IF parser'.req = r THEN parser'.got ELSE 0) <= Len(Units(r, asked[r]))
  <2>1. UnitsIn(rest, r) \in Nat /\ UnitsIn(rest, r) + (IF P.req = r THEN P.got ELSE 0) <= Len(Units(r, asked[r]))
    BY <1>5
  <2>2. Len(Units(r, asked[r])) \in Nat
    BY UnitsOfRequest, ElementOfSeq DEF Typed, TypeOK
  <2>3. (IF parser'.req = r THEN parser'.got ELSE 0) <= (IF P.req = r THEN P.got ELSE 0)
    BY <1>5, <1>10, <1>14, <1>15
  <2>4. (IF parser'.req = r THEN parser'.got ELSE 0) \in Nat /\ (IF P.req = r THEN P.got ELSE 0) \in Nat
    BY <1>5, <1>15
  <2> QED BY <1>8, <2>1, <2>2, <2>3, <2>4
<1>18. /\ pc' \in {"recv", "lost", "closed", "dispatch", "next"} /\ (pc' = "dispatch" => parser'.named) /\ pc' # "recv"
       /\ failed' \in BOOLEAN
  BY <1>8, <1>9
<1>19. stream' \in Seq(UnitTypes) /\ (parser'.named => parser'.got > 0)
  BY <1>5, <1>8, <1>13, <1>15
<1> HIDE DEF ParseFails
<1> QED BY <1>1, <1>8, <1>16, <1>17, <1>18, <1>19, ReadingTyped

LEMMA ReceiveTyped ==
  ASSUME Typed, Receive
  PROVE  Typed'
<1>1. CASE NoParser \/ RecvFails \/ \E k \in DOMAIN stream : RecvGarbled(k)
  <2> DEFINE Stays ==
        /\ pc = "recv"
        /\ UNCHANGED <<asked, hungUp, broken, link, rc, status, sent, dbConn, wire, ended, held, served, revised>>
        /\ failed' \in {failed, TRUE} /\ stream' = stream /\ parser' = parser
        /\ pc' \in {"lost", "closed", "dispatch", "next"}
        /\ pc' = "dispatch" => parser.req # 0 /\ parser.named
  <2>1. ASSUME NoParser PROVE Stays
    BY <2>1 DEF NoParser, peer, response, hist
  <2>2. ASSUME RecvFails PROVE Stays
    BY <2>2 DEF RecvFails, peer, response, hist
  <2>3. ASSUME \E k \in DOMAIN stream : RecvGarbled(k) PROVE Stays
    BY <2>3 DEF RecvGarbled, peer, response, hist
  <2>4. Stays
    BY <1>1, <2>1, <2>2, <2>3
  <2>5. failed \in BOOLEAN
    BY DEF Typed, TypeOK
  <2>6. Stays /\ failed' \in BOOLEAN
    BY <2>4, <2>5
  <2>7. /\ stream \in Seq(UnitTypes) /\ parser \in [req : 0 .. Len(asked), got : Nat, named : BOOLEAN]
        /\ parser.req = 0 => parser.got = 0
        /\ parser.req # 0 => parser.got > 0
    BY <2>6 DEF Typed, TypeOK, HasRead, UnitTypes
  <2>8. \A r \in DOMAIN asked :
          UnitsIn(stream', r) + (IF parser'.req = r THEN parser'.got ELSE 0) <= Len(Units(r, asked[r]))
    BY <2>6 DEF Typed, UnitsFit
  <2> QED BY <2>6, <2>7, <2>8, ReadingTyped
<1> QED BY <1>1, RecvTyped, ParseFailsTyped DEF Receive

(* What the peer does changes what is still to come, nothing that was read.  *)
LEMMA PeerTyped ==
  ASSUME Typed, ~Over,
         UNCHANGED <<pc, parser, failed, link, rc, status, sent, dbConn, wire, ended, held, served, revised>>,
         hungUp' \in BOOLEAN, broken' \in BOOLEAN,
         asked' \in Seq(Requests), Len(asked') <= MaxRequests, Len(asked) <= Len(asked'),
         \A i \in DOMAIN asked : asked'[i] = asked[i],
         stream' \in Seq([of : DOMAIN asked', part : {"line", "headers", "body"}]),
         \A r \in DOMAIN asked' :
           UnitsIn(stream', r) + (IF parser.req = r THEN parser.got ELSE 0) <= Len(Units(r, asked'[r]))
  PROVE  Typed'
<1>1. HasRead'
  BY DEF Typed, HasRead
<1>2. UnitsFit'
  BY DEF UnitsFit, UnitsIn
<1>3. /\ asked \in Seq(Requests) /\ Len(asked) \in Nat /\ DOMAIN asked = 1 .. Len(asked)
      /\ Len(asked') \in Nat /\ DOMAIN asked' = 1 .. Len(asked')
  BY LenProperties DEF Typed, TypeOK
<1>4. DOMAIN asked \subseteq DOMAIN asked' /\ 0 .. Len(asked) \subseteq 0 .. Len(asked')
  BY <1>3
<1>5. TypeOK'
  <2>1. parser'.req # 0 => parser'.got <= Len(Units(parser'.req, asked'[parser'.req]))
    <3> SUFFICES ASSUME parser.req # 0 PROVE parser.got <= Len(Units(parser.req, asked'[parser.req]))
      OBVIOUS
    <3>1. PICK r \in DOMAIN asked : r = parser.req
      BY <1>3 DEF Typed, TypeOK
    <3>2. parser.got <= Len(Units(r, asked[r])) /\ asked'[r] = asked[r]
      BY <3>1 DEF Typed, TypeOK, Request
    <3> QED BY <3>1, <3>2
  <2>2. /\ parser' \in [req : 0 .. Len(asked'), got : Nat, named : BOOLEAN]
        /\ held' \subseteq DOMAIN asked' /\ revised' \subseteq DOMAIN asked'
    BY <1>4 DEF Typed, TypeOK
  <2>3. wire' \in Seq([req : DOMAIN asked', status : {200, 204, 301, 400, 401, 404, 405, 500}])
    <3> DEFINE A == [req : DOMAIN asked, status : {200, 204, 301, 400, 401, 404, 405, 500}]
               B == [req : DOMAIN asked', status : {200, 204, 301, 400, 401, 404, 405, 500}]
    <3>1. A \subseteq B /\ wire \in Seq(A) /\ wire' = wire
      BY <1>4 DEF Typed, TypeOK
    <3> HIDE DEF A, B
    <3>2. wire' \in Seq(B)
      BY <3>1, SeqMonotonic
    <3> QED BY <3>2 DEF B
  <2>4. ended' \in Seq([req : DOMAIN asked', how : {"commit", "rollback"}])
    <3>1. /\ [req : DOMAIN asked, how : {"commit", "rollback"}] \subseteq [req : DOMAIN asked', how : {"commit", "rollback"}]
          /\ ended \in Seq([req : DOMAIN asked, how : {"commit", "rollback"}])
      BY <1>4 DEF Typed, TypeOK
    <3> QED BY <3>1, SeqMonotonic
  <2>5. served' \in Seq([req : DOMAIN asked', close : BOOLEAN])
    <3>1. /\ [req : DOMAIN asked, close : BOOLEAN] \subseteq [req : DOMAIN asked', close : BOOLEAN]
          /\ served \in Seq([req : DOMAIN asked, close : BOOLEAN])
      BY <1>4 DEF Typed, TypeOK
    <3> QED BY <3>1, SeqMonotonic
  <2>6. /\ failed' \in BOOLEAN /\ sent' \in BOOLEAN /\ dbConn' \in BOOLEAN
        /\ pc' \in {"recv", "lost", "dispatch", "pre", "user", "post", "reply", "clean", "next", "closed"} \cup CrudPcs
        /\ (pc \in {"dispatch", "pre", "post"} => parser.got > 0 /\ parser.named)'
        /\ link' \in Nat \ {0} /\ (pc' = "pre" => link' <= Len(Pre) + 1) /\ (pc' = "post" => link' <= Len(Post) + 1)
        /\ rc' \in Results /\ status' \in {0, 200, 204, 301, 400, 401, 404, 405, 500}
    BY DEF Typed, TypeOK
  <2>7. (parser.req # 0 => parser.got <= Len(Units(parser.req, Request)))'
    BY <2>1 DEF Request
  <2> QED BY <2>2, <2>3, <2>4, <2>5, <2>6, <2>7 DEF TypeOK
<1> QED BY <1>1, <1>2, <1>5 DEF Typed

LEMMA AskTyped ==
  ASSUME Typed, NEW q \in Requests, Ask(q)
  PROVE  Typed'
<1> DEFINE n == Len(asked) + 1
           u == Units(n, q)
           T == [of : DOMAIN asked', part : {"line", "headers", "body"}]
<1>1. /\ ~Over /\ asked' = Append(asked, q) /\ stream' = stream \o u /\ Len(asked) < MaxRequests
      /\ UNCHANGED <<hungUp, broken, pc, parser, failed, link, rc, status, sent, dbConn, wire, ended, held, served, revised>>
  BY DEF Ask, response, hist
<1>2. /\ asked \in Seq(Requests) /\ Len(asked) \in Nat /\ DOMAIN asked = 1 .. Len(asked)
      /\ stream \in Seq(UnitTypes) /\ hungUp \in BOOLEAN /\ broken \in BOOLEAN
      /\ parser \in [req : 0 .. Len(asked), got : Nat, named : BOOLEAN]
  BY LenProperties DEF Typed, TypeOK, UnitTypes
<1>3. /\ asked' \in Seq(Requests) /\ Len(asked') = n /\ asked'[n] = q
      /\ \A i \in 1 .. Len(asked) : asked'[i] = asked[i]
  BY <1>1, <1>2, AppendProperties
<1>4. DOMAIN asked' = 1 .. n /\ n \in Nat /\ n \notin DOMAIN asked
  BY <1>2, <1>3, LenProperties
<1>5. /\ u \in Seq([of : {n}, part : {"line", "headers", "body"}])
      /\ UnitsIn(u, n) = Len(Units(n, q)) /\ (\A r : r # n => UnitsIn(u, r) = 0)
      /\ Len(Units(n, q)) \in Nat
  <2>1. PICK c \in Nat : c = n
    BY <1>4
  <2>2. /\ Units(c, q) \in Seq([of : {c}, part : {"line", "headers", "body"}])
        /\ UnitsIn(Units(c, q), c) = Len(Units(c, q)) /\ (\A r : r # c => UnitsIn(Units(c, q), r) = 0)
        /\ Len(Units(c, q)) = 2 + q.pieces /\ q.pieces \in Nat
    BY UnitsOfRequest
  <2> HIDE DEF n
  <2> QED BY <2>1, <2>2
<1>6. UnitTypes \subseteq T /\ [of : {n}, part : {"line", "headers", "body"}] \subseteq T
  BY <1>2, <1>4 DEF UnitTypes
<1> HIDE DEF u, T
<1>7. stream \in Seq(T) /\ u \in Seq(T)
  BY <1>2, <1>5, <1>6, SeqMonotonic
<1>8. stream' \in Seq(T)
  BY <1>1, <1>7, ConcatProperties
<1>9. ASSUME NEW r \in DOMAIN asked'
      PROVE  UnitsIn(stream', r) + (IF parser.req = r THEN parser.got ELSE 0) <= Len(Units(r, asked'[r]))
  <2>1. UnitsIn(stream \o u, r) = UnitsIn(stream, r) + UnitsIn(u, r) /\ UnitsIn(stream, r) \in Nat
    BY <1>7, UnitsInConcat, UnitsInType
  <2>2. CASE r # n
    <3>1. r \in DOMAIN asked
      BY <1>2, <1>4, <2>2
    <3>2. UnitsIn(stream, r) + (IF parser.req = r THEN parser.got ELSE 0) <= Len(Units(r, asked[r]))
      BY <3>1 DEF Typed, UnitsFit
    <3>3. UnitsIn(stream', r) = UnitsIn(stream, r) /\ asked'[r] = asked[r]
      BY <1>1, <1>2, <1>3, <1>5, <2>1, <2>2, <3>1
    <3> QED BY <3>2, <3>3
  <2>3. CASE r = n
    <3>1. UnitsIn(stream, n) = 0
      <4>1. Len(stream) \in Nat /\ \A i \in 1 .. Len(stream) : stream[i] \in UnitTypes
        BY <1>2, LenProperties, ElementOfSeq
      <4>2. Places(stream, n) = {}
        BY <1>4, <4>1 DEF Places, UnitTypes
      <4> QED BY <1>2, <4>2, UnitsInType, FS_EmptySet
    <3>2. parser.req # n
      BY <1>2
    <3> QED BY <1>1, <1>3, <1>5, <2>1, <2>3, <3>1, <3>2
  <2> QED BY <2>2, <2>3
<1>10. Len(asked') <= MaxRequests /\ Len(asked) <= Len(asked')
  BY <1>1, <1>2, <1>3, ConfigAssumption
<1>11. hungUp' \in BOOLEAN /\ broken' \in BOOLEAN
  BY <1>1, <1>2
<1>12. stream' \in Seq([of : DOMAIN asked', part : {"line", "headers", "body"}])
  BY <1>8 DEF T
<1>13. \A i \in DOMAIN asked : asked'[i] = asked[i]
  BY <1>2, <1>3
<1> HIDE DEF n
<1> QED BY <1>1, <1>3, <1>9, <1>10, <1>11, <1>12, <1>13, PeerTyped

LEMMA LeaveTyped ==
  ASSUME Typed, Break \/ \E k \in 0 .. Len(stream) : HangUp(k)
  PROVE  Typed'
<1>1. /\ stream \in Seq(UnitTypes) /\ asked \in Seq(Requests) /\ Len(asked) \in Nat /\ Len(asked) <= MaxRequests
      /\ \A r \in DOMAIN asked :
           UnitsIn(stream, r) + (IF parser.req = r THEN parser.got ELSE 0) <= Len(Units(r, asked[r]))
      /\ hungUp \in BOOLEAN /\ broken \in BOOLEAN /\ parser.got \in Nat
  BY LenProperties DEF Typed, TypeOK, UnitTypes, UnitsFit
<1>2. CASE Break
  <2>1. /\ ~Over /\ UNCHANGED <<asked, hungUp, stream, pc, parser, failed, link, rc, status, sent, dbConn, wire,
                                ended, held, served, revised>>
        /\ broken' = TRUE
    BY <1>2 DEF Break, peer, response, hist
  <2> QED BY <1>1, <2>1, PeerTyped DEF UnitTypes
<1>3. CASE \E k \in 0 .. Len(stream) : HangUp(k)
  <2>1. PICK k \in 0 .. Len(stream) : HangUp(k)
    BY <1>3
  <2> DEFINE a == SubSeq(stream, 1, k)
             b == SubSeq(stream, k + 1, Len(stream))
  <2>2. /\ ~Over /\ UNCHANGED <<asked, broken, pc, parser, failed, link, rc, status, sent, dbConn, wire,
                                ended, held, served, revised>>
        /\ hungUp' = TRUE /\ stream' = a
    BY <2>1 DEF HangUp, response, hist
  <2>3. a \in Seq(UnitTypes) /\ b \in Seq(UnitTypes) /\ \A r : UnitsIn(stream, r) = UnitsIn(a, r) + UnitsIn(b, r)
    BY <1>1, UnitsInParts
  <2> HIDE DEF a, b
  <2>4. ASSUME NEW r \in DOMAIN asked
        PROVE  UnitsIn(stream', r) + (IF parser.req = r THEN parser.got ELSE 0) <= Len(Units(r, asked[r]))
    <3>1. UnitsIn(stream, r) = UnitsIn(a, r) + UnitsIn(b, r) /\ UnitsIn(a, r) \in Nat /\ UnitsIn(b, r) \in Nat
      BY <2>3, UnitsInType
    <3>2. Len(Units(r, asked[r])) \in Nat
      BY <1>1, UnitsOfRequest, ElementOfSeq
    <3> QED BY <1>1, <2>2, <3>1, <3>2
  <2>5. stream' \in Seq([of : DOMAIN asked', part : {"line", "headers", "body"}])
    BY <2>2, <2>3 DEF UnitTypes
  <2> QED BY <1>1, <2>2, <2>4, <2>5, PeerTyped
<1> QED BY <1>2, <1>3

LEMMA TypedInit == Init => Typed
<1> SUFFICES ASSUME Init PROVE Typed
  OBVIOUS
<1> USE DEF Init, FreshParser
<1>1. asked = <<>> /\ asked \in Seq(Requests) /\ Len(asked) = 0 /\ DOMAIN asked = {}
  <2>1. <<>> \in Seq(Requests)
    BY EmptySeq
  <2> QED BY <2>1, LenProperties
<1>2. /\ stream \in Seq([of : DOMAIN asked, part : {"line", "headers", "body"}])
      /\ wire \in Seq([req : DOMAIN asked, status : {200, 204, 301, 400, 401, 404, 405, 500}])
      /\ ended \in Seq([req : DOMAIN asked, how : {"commit", "rollback"}])
      /\ served \in Seq([req : DOMAIN asked, close : BOOLEAN])
  BY EmptySeq
<1>3. parser \in [req : 0 .. Len(asked), got : Nat, named : BOOLEAN] /\ Len(asked) <= MaxRequests
  BY <1>1, ConfigAssumption
<1>4. TypeOK
  <2>1. /\ hungUp = FALSE /\ broken = FALSE /\ failed = FALSE /\ sent = FALSE /\ dbConn = FALSE
        /\ pc = "recv" /\ parser.req = 0 /\ link = 1 /\ rc = "ok" /\ status = 0 /\ held = {} /\ revised = {}
    OBVIOUS
  <2> HIDE DEF Init, FreshParser
  <2>2. parser.req # 0 => parser.got <= Len(Units(parser.req, Request))
    BY <2>1
  <2>3. /\ pc \in {"recv", "lost", "dispatch", "pre", "user", "post", "reply", "clean", "next", "closed"} \cup CrudPcs
        /\ pc \in {"dispatch", "pre", "post"} => parser.got > 0 /\ parser.named
        /\ link \in Nat \ {0} /\ (pc = "pre" => link <= Len(Pre) + 1) /\ (pc = "post" => link <= Len(Post) + 1)
        /\ rc \in Results /\ status \in {0, 200, 204, 301, 400, 401, 404, 405, 500} /\ held \subseteq DOMAIN asked /\ revised \subseteq DOMAIN asked
    BY <2>1 DEF Results
  <2> QED BY <1>1, <1>2, <1>3, <2>1, <2>2, <2>3, Zenon DEF TypeOK
<1>5. HasRead
  BY DEF HasRead, ServePcs, HandlerPcs, CrudPcs
<1>6. UnitsFit
  BY <1>1 DEF UnitsFit
<1> QED BY <1>4, <1>5, <1>6 DEF Typed

LEMMA TypedStep == Typed /\ [Next]_vars => Typed'
<1> SUFFICES ASSUME Typed, [Next]_vars PROVE Typed'
  OBVIOUS
<1>1. CASE Next
  BY <1>1, AskTyped, LeaveTyped, ReceiveTyped, DispatchTyped, MiddlewareTyped, RouteTyped, HandlerTyped, ApplicationTyped,
     FinishTyped, TurnTyped DEF Next, Serve
<1>2. CASE UNCHANGED vars
  BY <1>2 DEF vars, peer, response, hist, Typed, TypeOK, HasRead, UnitsFit, Request
<1> QED BY <1>1, <1>2

LEMMA TypedAlways == Spec => []Typed
BY TypedInit, TypedStep, PTL DEF Spec

(* The variables keep their types at any length of the exchange, and a       *)
(* parser never reads more of a request than there is of it.                 *)
THEOREM ConnectionTypeCorrect == Spec => []TypeOK
<1>1. Typed => TypeOK
  BY DEF Typed
<1> QED BY <1>1, TypedAlways, PTL
-----------------------------------------------------------------------------
LEMMA InAppend ==
  \A S : \A s \in Seq(S), e \in S :
    /\ Len(s) \in Nat /\ DOMAIN s = 1 .. Len(s)
    /\ DOMAIN Append(s, e) = 1 .. Len(s) + 1
    /\ \A i \in DOMAIN s : i \in DOMAIN Append(s, e) /\ Append(s, e)[i] = s[i] /\ i < Len(s) + 1
    /\ Append(s, e)[Len(s) + 1] = e
    /\ \A i \in DOMAIN Append(s, e) : i \in DOMAIN s \/ i = Len(s) + 1
<1> SUFFICES ASSUME NEW S, NEW s \in Seq(S), NEW e \in S
             PROVE  /\ Len(s) \in Nat /\ DOMAIN s = 1 .. Len(s)
                    /\ DOMAIN Append(s, e) = 1 .. Len(s) + 1
                    /\ \A i \in DOMAIN s : i \in DOMAIN Append(s, e) /\ Append(s, e)[i] = s[i] /\ i < Len(s) + 1
                    /\ Append(s, e)[Len(s) + 1] = e
                    /\ \A i \in DOMAIN Append(s, e) : i \in DOMAIN s \/ i = Len(s) + 1
  OBVIOUS
<1>1. /\ Len(s) \in Nat /\ DOMAIN s = 1 .. Len(s)
      /\ Append(s, e) \in Seq(S) /\ Len(Append(s, e)) = Len(s) + 1 /\ Append(s, e)[Len(s) + 1] = e
      /\ \A i \in 1 .. Len(s) : Append(s, e)[i] = s[i]
  BY LenProperties, AppendProperties
<1>2. DOMAIN Append(s, e) = 1 .. Len(s) + 1
  BY <1>1, LenProperties
<1> QED BY <1>1, <1>2

ServingStep ==
  Middleware \/ Route \/ Handler \/ Application \/ PostDone \/ (\E r \in Results : Reply(r)) \/ NoReply \/ Clean

(* Answers go out through c_rest_response_send only. *)
Writes ==
  \/ UNCHANGED <<wire, sent, broken>>
  \/ \E r \in Results, s \in Statuses, body \in BOOLEAN : Send(r, s, body)

(* What serving a request does to the histories: transactions end in the     *)
(* post chain only.                                                          *)
LEMMA ServingFrame ==
  ASSUME Typed, ServingStep
  PROVE  /\ pc \in ServePcs /\ pc' \in ServePcs \cup {"next"}
         /\ UNCHANGED <<asked, stream, parser, failed, served>>
         /\ Writes /\ revised \subseteq revised'
         /\ ended' = ended \/ (EndTransaction /\ dbConn /\ ended' = Append(ended, [req |-> parser.req, how |-> Outcome]))
<1> USE DEF peer, response, hist
<1>1. pc \in ServePcs
  BY DEF ServingStep, Middleware, Skip, HookFails, StartTransaction, EndTransaction, Cors, Redirect, Unauthorised,
         Authorise, Route, Handler, Crud, CrudUnconnected, UserReturns, Application, AppSets, AppSends,
         AppRuns, PostDone, Reply, NoReply, Clean, ServePcs, HandlerPcs
<1>2. pc' \in ServePcs \cup {"next"}
  <2>1. CASE Middleware
    BY <1>1, <2>1 DEF Middleware, Skip, HookFails, StartTransaction, EndTransaction, Cors, Redirect, Unauthorised,
         Authorise, Onward, ServePcs, HandlerPcs
  <2>2. CASE Route \/ Handler
    BY <2>2, RouteTyped, HandlerTyped DEF ServePcs, HandlerPcs
  <2>3. CASE PostDone \/ (\E r \in Results : Reply(r)) \/ NoReply \/ Clean
    BY <2>3 DEF PostDone, Reply, NoReply, Clean, ServePcs
  <2>4. CASE Application
    BY <1>1, <2>4 DEF Application, AppSets, AppSends
  <2> QED BY <2>1, <2>2, <2>3, <2>4 DEF ServingStep
<1>3. UNCHANGED <<asked, stream, parser, failed, served>> /\ revised \subseteq revised'
  BY DEF ServingStep, Middleware, Skip, HookFails, StartTransaction, EndTransaction, Cors, Redirect, Unauthorised,
         Authorise, Route, Handler, Crud, CrudUnconnected, UserReturns, Application, AppSets, AppSends, Revise, PostDone,
         Reply, NoReply, Clean
<1>4. Writes
  <2>0. 200 \in Statuses /\ 301 \in Statuses /\ 400 \in Statuses /\ 401 \in Statuses /\ 500 \in Statuses
    BY DEF Statuses
  <2>1. CASE Middleware
    <3>1. ASSUME NEW r \in Results, Redirect(r) PROVE Writes
      <4>1. PICK s \in Statuses : s = 301
        BY <2>0
      <4>2. Send(r, s, FALSE)
        BY <3>1, <4>1 DEF Redirect
      <4> QED BY <4>2 DEF Writes
    <3>2. ASSUME NEW r \in Results, Unauthorised(r, 401) PROVE Writes
      <4>1. PICK s \in Statuses : s = 401
        BY <2>0
      <4>2. Send(r, s, TRUE)
        BY <3>2, <4>1 DEF Unauthorised
      <4> QED BY <4>2 DEF Writes
    <3>3. CASE \/ Skip("pre", Pre) \/ Skip("post", Post) \/ HookFails("pre", Pre) \/ HookFails("post", Post)
               \/ StartTransaction \/ EndTransaction \/ (\E r \in Results : Cors(r)) \/ Authorise
      BY <3>3 DEF Skip, HookFails, StartTransaction, EndTransaction, Cors, Authorise, Writes
    <3> QED BY <2>1, <3>1, <3>2, <3>3 DEF Middleware
  <2>2. CASE Handler
    <3>1. ASSUME NEW r \in Results, Crud(r) PROVE Writes
      <4>1. PICK s \in Statuses : s = 200
        BY <2>0
      <4>2. UNCHANGED <<wire, sent, broken>> \/ Send(r, s, TRUE)
        BY <3>1, <4>1 DEF Crud
      <4> QED BY <4>2 DEF Writes
    <3>2. ASSUME NEW r \in Results, CrudUnconnected(r) PROVE Writes
      <4>1. PICK s \in Statuses : s = 500
        BY <2>0
      <4>2. UNCHANGED <<wire, sent, broken>> \/ Send(r, s, TRUE)
        BY <3>2, <4>1 DEF CrudUnconnected
      <4> QED BY <4>2 DEF Writes
    <3>3. ASSUME NEW r \in Results, UserReturns(r) PROVE Writes
      BY <3>3 DEF UserReturns, Writes
    <3> QED BY <2>2, <3>1, <3>2, <3>3 DEF Handler
  <2>5. CASE Application
    <3>1. ASSUME NEW r \in Results, AppSends(r) PROVE Writes
      <4>1. PICK s \in Statuses : s = status
        BY <1>1, Served DEF ServePcs, HandlerPcs, CrudPcs
      <4>2. Send(r, s, TRUE)
        BY <3>1, <4>1 DEF AppSends
      <4> QED BY <4>2 DEF Writes
    <3>2. ASSUME NEW s, AppSets(s) PROVE Writes
      BY <3>2 DEF AppSets, Writes
    <3> QED BY <2>5, <3>1, <3>2 DEF Application
  <2>3. CASE \E r \in Results : Reply(r)
    <3>1. PICK r \in Results : Reply(r)
      BY <2>3
    <3>2. PICK s \in Statuses : s = status
      BY <1>1, Served DEF ServePcs, HandlerPcs, CrudPcs
    <3>3. Send(r, s, TRUE)
      BY <3>1, <3>2 DEF Reply
    <3> QED BY <3>3 DEF Writes
  <2>4. CASE Route \/ PostDone \/ NoReply \/ Clean
    BY <2>4 DEF Route, PostDone, NoReply, Clean, Writes
  <2> QED BY <2>1, <2>2, <2>3, <2>4, <2>5 DEF ServingStep
<1>5. ended' = ended \/ (EndTransaction /\ dbConn /\ ended' = Append(ended, [req |-> parser.req, how |-> Outcome]))
  <2>1. CASE EndTransaction
    BY <2>1 DEF EndTransaction
  <2>2. CASE ~EndTransaction
    BY <2>2 DEF ServingStep, Middleware, Skip, HookFails, StartTransaction, Cors, Redirect, Unauthorised,
         Authorise, Route, Handler, Crud, CrudUnconnected, UserReturns, Application, AppSets, AppSends, PostDone, Reply,
         NoReply, Clean
  <2> QED BY <2>1, <2>2
<1> QED BY <1>1, <1>2, <1>3, <1>4, <1>5

(* Nothing has been done about a request that has not been sent. *)
LEMMA SeenWasAsked ==
  ASSUME Typed
  PROVE  Seen \subseteq DOMAIN asked /\ DOMAIN asked = 1 .. Len(asked) /\ Len(asked) \in Nat
<1>1. wire \in Seq(Answers) /\ ended \in Seq(Endings) /\ served \in Seq(Services) /\ asked \in Seq(Requests)
  BY DEF Typed, TypeOK, Answers, Endings, Services, Statuses
<1>2. /\ \A i \in DOMAIN wire : wire[i] \in Answers
      /\ \A i \in DOMAIN ended : ended[i] \in Endings
      /\ \A i \in DOMAIN served : served[i] \in Services
  BY <1>1, LenProperties, ElementOfSeq
<1>3. /\ \A i \in DOMAIN wire : wire[i].req \in DOMAIN asked
      /\ \A i \in DOMAIN ended : ended[i].req \in DOMAIN asked
      /\ \A i \in DOMAIN served : served[i].req \in DOMAIN asked
  BY <1>2 DEF Answers, Endings, Services
<1> QED BY <1>1, <1>3, LenProperties DEF Seen

LEMMA InOrderServing ==
  ASSUME Typed, InOrder, UNCHANGED <<stream, parser>>, parser.req # 0,
         \A r \in Seen' : r \in Seen \/ r = parser.req,
         pc' \notin {"recv", "dispatch"}
  PROVE  InOrder'
<1>1. /\ \A i, j \in DOMAIN stream : i < j /\ IsLine(i) /\ IsLine(j) => stream[i].of < stream[j].of
      /\ \A i \in DOMAIN stream : IsLine(i) => parser.req < stream[i].of
      /\ \A i \in DOMAIN stream, r \in Seen : IsLine(i) => r < stream[i].of
      /\ \A r \in Seen : r <= parser.req
  BY DEF InOrder
<1>2. parser.req \in Nat
  BY DEF Typed, TypeOK
<1>3. \A i \in DOMAIN stream, r \in Seen' : IsLine(i) => r < stream[i].of
  BY <1>1
<1>4. \A r \in Seen' : r <= parser.req
  BY <1>1, <1>2
<1> QED BY <1>1, <1>3, <1>4 DEF InOrder, IsLine

(* A step that serves the request keeps the answers in order: it sends at    *)
(* most one, and only if none was sent for this request.                     *)
LEMMA AnsweredServing ==
  ASSUME Typed, Answered, ServingStep
  PROVE  Answered'
<1>1. /\ pc \in ServePcs /\ pc' \in ServePcs \cup {"next"} /\ UNCHANGED <<asked, stream, parser, served>>
      /\ Writes
      /\ ended' = ended \/ ended' = Append(ended, [req |-> parser.req, how |-> Outcome])
  BY ServingFrame
<1>2. parser.req \in DOMAIN asked /\ parser.req # 0 /\ parser.req \in Nat
  BY <1>1, Served DEF Typed, TypeOK
<1>3. wire \in Seq(Answers) /\ ended \in Seq(Endings) /\ broken \in BOOLEAN /\ sent \in BOOLEAN
  BY DEF Typed, TypeOK, Answers, Endings, Statuses
<1>4. \/ wire' = wire /\ (~sent' /\ ~broken' => ~sent /\ ~broken)
      \/ /\ ~sent /\ ~broken /\ (sent' \/ broken')
         /\ \E s \in Statuses : wire' = Append(wire, [req |-> parser.req, status |-> s])
  BY <1>1, <1>3 DEF Writes, Send, SentFlag
<1>5. \/ wire' = wire
      \/ /\ ~sent /\ ~broken /\ (sent' \/ broken')
         /\ DOMAIN wire' = 1 .. Len(wire) + 1 /\ DOMAIN wire = 1 .. Len(wire) /\ Len(wire) \in Nat
         /\ \A i \in DOMAIN wire : wire'[i] = wire[i]
         /\ wire'[Len(wire) + 1].req = parser.req
  <2>1. CASE wire' = wire
    BY <2>1
  <2>2. ASSUME NEW s \in Statuses, wire' = Append(wire, [req |-> parser.req, status |-> s])
        PROVE  /\ DOMAIN wire' = 1 .. Len(wire) + 1 /\ DOMAIN wire = 1 .. Len(wire) /\ Len(wire) \in Nat
               /\ \A i \in DOMAIN wire : wire'[i] = wire[i]
               /\ wire'[Len(wire) + 1].req = parser.req
    <3>1. [req |-> parser.req, status |-> s] \in Answers
      BY <1>2 DEF Answers
    <3>2. /\ DOMAIN wire' = 1 .. Len(wire) + 1 /\ DOMAIN wire = 1 .. Len(wire) /\ Len(wire) \in Nat
          /\ \A i \in DOMAIN wire : wire'[i] = wire[i]
          /\ wire'[Len(wire) + 1] = [req |-> parser.req, status |-> s]
      BY <1>3, <2>2, <3>1, InAppend
    <3> QED BY <3>2
  <2> QED BY <1>4, <2>1, <2>2
<1>6. \A i \in DOMAIN wire' : wire'[i].req \in {wire[j].req : j \in DOMAIN wire} \cup {parser.req}
  <2>1. CASE wire' = wire
    BY <2>1
  <2>2. CASE wire' # wire
    <3> SUFFICES ASSUME NEW i \in DOMAIN wire'
                 PROVE  wire'[i].req \in {wire[j].req : j \in DOMAIN wire} \cup {parser.req}
      OBVIOUS
    <3>1. i \in DOMAIN wire \/ i = Len(wire) + 1
      BY <1>5, <2>2
    <3> QED BY <1>5, <2>2, <3>1
  <2> QED BY <2>1, <2>2
<1>7. \A i \in DOMAIN ended' : ended'[i].req \in {ended[j].req : j \in DOMAIN ended} \cup {parser.req}
  <2>1. CASE ended' = ended
    BY <2>1
  <2>2. CASE ended' = Append(ended, [req |-> parser.req, how |-> Outcome])
    <3>1. [req |-> parser.req, how |-> Outcome] \in Endings
      BY <1>2 DEF Endings, Outcome
    <3>2. /\ \A i \in DOMAIN ended : ended'[i] = ended[i]
          /\ ended'[Len(ended) + 1] = [req |-> parser.req, how |-> Outcome]
          /\ \A i \in DOMAIN ended' : i \in DOMAIN ended \/ i = Len(ended) + 1
      BY <1>3, <2>2, <3>1, InAppend
    <3> QED BY <3>2
  <2> QED BY <1>1, <2>1, <2>2
<1>8. \A r \in Seen' : r \in Seen \/ r = parser.req
  BY <1>1, <1>6, <1>7 DEF Seen
<1>9. InOrder'
  BY <1>1, <1>2, <1>8, InOrderServing DEF Answered, ServePcs, HandlerPcs, CrudPcs
<1>10. (pc \in ServePcs /\ ~sent /\ ~broken => \A j \in DOMAIN wire : wire[j].req < parser.req)'
  BY <1>1, <1>4, <1>5 DEF Answered, Unanswered
<1>11. \A i, j \in DOMAIN wire' : i < j => wire'[i].req < wire'[j].req
  <2>1. CASE wire' = wire
    BY <2>1 DEF Answered, AnswersIncrease
  <2>2. CASE wire' # wire
    <3>1. \A j \in DOMAIN wire : wire[j].req < parser.req
      BY <1>1, <1>5, <2>2 DEF Answered, Unanswered
    <3> SUFFICES ASSUME NEW i \in DOMAIN wire', NEW j \in DOMAIN wire', i < j
                 PROVE  wire'[i].req < wire'[j].req
      OBVIOUS
    <3>2. i \in DOMAIN wire /\ (j \in DOMAIN wire \/ j = Len(wire) + 1)
      BY <1>5, <2>2
    <3> QED BY <1>5, <2>2, <3>1, <3>2 DEF Answered, AnswersIncrease
  <2> QED BY <2>1, <2>2
<1> QED BY <1>9, <1>10, <1>11 DEF Answered, Unanswered, AnswersIncrease

LEMMA RestOfStream ==
  ASSUME Typed, NEW k \in DOMAIN stream
  PROVE  LET rest == SubSeq(stream, k + 1, Len(stream)) IN
         /\ DOMAIN rest = 1 .. Len(stream) - k
         /\ \A i \in DOMAIN rest : rest[i] = stream[i + k] /\ i + k \in DOMAIN stream
<1> DEFINE rest == SubSeq(stream, k + 1, Len(stream))
<1>1. /\ Len(stream) \in Nat /\ DOMAIN stream = 1 .. Len(stream) /\ stream \in Seq(UnitTypes)
  BY BufferType
<1>2. \A i \in k + 1 .. Len(stream) : stream[i] \in UnitTypes
  BY <1>1, ElementOfSeq
<1>3. /\ rest \in Seq(UnitTypes)
      /\ Len(rest) = IF k + 1 <= Len(stream) THEN Len(stream) - (k + 1) + 1 ELSE 0
      /\ \A i \in 1 .. Len(stream) - (k + 1) + 1 : rest[i] = stream[k + 1 + i - 1]
  BY <1>1, <1>2, SubSeqProperties
<1> HIDE DEF rest
<1>4. Len(rest) = Len(stream) - k /\ \A i \in 1 .. Len(stream) - k : rest[i] = stream[i + k]
  <2>1. k \in 1 .. Len(stream) /\ Len(stream) - (k + 1) + 1 = Len(stream) - k /\ \A i \in Nat : k + 1 + i - 1 = i + k
    BY <1>1
  <2>2. Len(rest) = Len(stream) - k
    BY <1>1, <1>3, <2>1
  <2>3. \A i \in 1 .. Len(stream) - k : rest[i] = stream[k + 1 + i - 1] /\ i \in Nat
    BY <1>3, <2>1
  <2> QED BY <2>1, <2>2, <2>3
<1>5. DOMAIN rest = 1 .. Len(stream) - k
  BY <1>3, <1>4, LenProperties
<1>6. \A i \in DOMAIN rest : rest[i] = stream[i + k] /\ i + k \in DOMAIN stream
  BY <1>1, <1>4, <1>5
<1> QED BY <1>5, <1>6 DEF rest

(* Reading on: k units less to come, and a parser that is at the same        *)
(* request or begins with the request line at the front.                     *)
LEMMA InOrderReading ==
  ASSUME Typed, InOrder, pc = "recv", Seen' = Seen, NEW k \in 0 .. Len(stream),
         DOMAIN stream' = 1 .. Len(stream) - k,
         \A i \in DOMAIN stream' : stream'[i] = stream[i + k] /\ i + k \in DOMAIN stream,
         \/ parser'.req = parser.req
         \/ k # 0 /\ IsLine(1) /\ parser'.req = stream[1].of
  PROVE  InOrder'
<1>1. Len(stream) \in Nat /\ DOMAIN stream = 1 .. Len(stream) /\ stream \in Seq(UnitTypes)
  BY LenProperties DEF Typed, TypeOK, UnitTypes
<1>2. /\ \A i, j \in DOMAIN stream : i < j /\ IsLine(i) /\ IsLine(j) => stream[i].of < stream[j].of
      /\ \A i \in DOMAIN stream : IsLine(i) => parser.req < stream[i].of
      /\ \A i \in DOMAIN stream, r \in Seen : IsLine(i) => r < stream[i].of
      /\ \A r \in Seen : parser.req # 0 => r < parser.req
  BY DEF InOrder
<1>3. \A i \in DOMAIN stream' : (IsLine(i)' <=> IsLine(i + k)) /\ stream'[i].of = stream[i + k].of
  BY DEF IsLine
<1>4. \A i, j \in DOMAIN stream' : i < j /\ IsLine(i)' /\ IsLine(j)' => stream'[i].of < stream'[j].of
  <2> SUFFICES ASSUME NEW i \in DOMAIN stream', NEW j \in DOMAIN stream', i < j, IsLine(i)', IsLine(j)'
               PROVE  stream'[i].of < stream'[j].of
    OBVIOUS
  <2>1. i + k \in DOMAIN stream /\ j + k \in DOMAIN stream /\ i + k < j + k /\ IsLine(i + k) /\ IsLine(j + k)
    BY <1>1, <1>3
  <2>2. stream[i + k].of < stream[j + k].of
    BY <1>2, <2>1
  <2> QED BY <1>3, <2>2
<1>5. \A i \in DOMAIN stream' : IsLine(i)' => parser'.req < stream'[i].of
  <2> SUFFICES ASSUME NEW i \in DOMAIN stream', IsLine(i)' PROVE parser'.req < stream'[i].of
    OBVIOUS
  <2>1. i + k \in DOMAIN stream /\ IsLine(i + k) /\ stream'[i].of = stream[i + k].of
    BY <1>3
  <2>2. CASE parser'.req = parser.req
    BY <1>2, <2>1, <2>2
  <2>3. CASE k # 0 /\ IsLine(1) /\ parser'.req = stream[1].of
    <3>1. 1 \in DOMAIN stream /\ 1 < i + k
      BY <1>1, <2>3
    <3> QED BY <1>2, <2>1, <2>3, <3>1
  <2> QED BY <2>2, <2>3
<1>6. \A i \in DOMAIN stream', r \in Seen' : IsLine(i)' => r < stream'[i].of
  <2> SUFFICES ASSUME NEW i \in DOMAIN stream', NEW r \in Seen, IsLine(i)' PROVE r < stream'[i].of
    OBVIOUS
  <2>1. i + k \in DOMAIN stream /\ IsLine(i + k) /\ stream'[i].of = stream[i + k].of
    BY <1>3
  <2> QED BY <1>2, <2>1
<1>7. \A r \in Seen' : parser'.req # 0 => r < parser'.req
  <2> SUFFICES ASSUME NEW r \in Seen, parser'.req # 0 PROVE r < parser'.req
    OBVIOUS
  <2>1. CASE parser'.req = parser.req
    BY <1>2, <2>1
  <2>2. CASE k # 0 /\ IsLine(1) /\ parser'.req = stream[1].of
    <3>1. 1 \in DOMAIN stream
      BY <1>1, <2>2
    <3> QED BY <1>2, <2>2, <3>1
  <2> QED BY <2>1, <2>2
<1>8. \A r \in Seen' : parser'.req # 0 => r <= parser'.req
  <2>1. Seen \subseteq Nat
    BY SeenWasAsked
  <2>2. parser'.req \in Int \/ parser'.req = 0
    <3>1. parser.req \in Nat
      BY DEF Typed, TypeOK
    <3>2. k # 0 => stream[1].of \in Nat
      <4>1. k # 0 => stream[1] \in UnitTypes
        BY <1>1, ElementOfSeq
      <4> QED BY <4>1, SeenWasAsked DEF UnitTypes
    <3> QED BY <3>1, <3>2
  <2> QED BY <1>7, <2>1, <2>2
<1> QED BY <1>4, <1>5, <1>6, <1>7, <1>8 DEF InOrder

LEMMA AnsweredReceive ==
  ASSUME Typed, Answered, Receive
  PROVE  Answered'
<1> USE DEF peer, response, hist
<1>1. pc = "recv" /\ pc' \in {"recv", "dispatch", "next", "lost", "closed"} /\ UNCHANGED <<asked, wire, ended, served>>
  BY DEF Receive, NoParser, Recv, ParseFails, RecvGarbled, RecvFails
<1>2. Seen' = Seen
  BY <1>1 DEF Seen
<1>3. Len(stream) \in Nat /\ DOMAIN stream = 1 .. Len(stream)
  BY LenProperties DEF Typed, TypeOK
<1>4. InOrder'
  <2>1. ASSUME UNCHANGED <<stream, parser>> PROVE InOrder'
    <3>1. 0 \in 0 .. Len(stream) /\ DOMAIN stream' = 1 .. Len(stream) - 0
      BY <1>3, <2>1
    <3>2. \A i \in DOMAIN stream' : stream'[i] = stream[i + 0] /\ i + 0 \in DOMAIN stream
      BY <1>3, <2>1
    <3>3. parser'.req = parser.req
      BY <2>1
    <3> QED BY <1>1, <1>2, <3>1, <3>2, <3>3, InOrderReading DEF Answered
  <2>2. ASSUME NEW k \in DOMAIN stream,
               ~Garbled(parser, Buffer(k)), stream' = SubSeq(stream, k + 1, Len(stream)),
               parser'.req = Parse(parser, Buffer(k)).req
        PROVE  InOrder'
    <3>1. /\ DOMAIN stream' = 1 .. Len(stream) - k /\ k \in 0 .. Len(stream) /\ k # 0
          /\ \A i \in DOMAIN stream' : stream'[i] = stream[i + k] /\ i + k \in DOMAIN stream
      BY <1>3, <2>2, RestOfStream
    <3>2. Buffer(k)[1] = stream[1]
      BY <1>3, BufferType
    <3>3. parser'.req = IF parser.req = 0 THEN stream[1].of ELSE parser.req
      BY <1>1, <2>2, ParseTakes
    <3>4. parser'.req = parser.req \/ (k # 0 /\ IsLine(1) /\ parser'.req = stream[1].of)
      <4>1. parser.req = 0 => stream[1].part = "line"
        BY <2>2, <3>2 DEF Garbled
      <4>2. k # 0
        BY <3>1
      <4>3. CASE parser.req = 0
        <5>1. IsLine(1) /\ parser'.req = stream[1].of
          BY <3>3, <4>1, <4>3 DEF IsLine
        <5> QED BY <4>2, <5>1
      <4>4. CASE parser.req # 0
        BY <3>3, <4>4
      <4> QED BY <4>3, <4>4
    <3> QED BY <1>1, <1>2, <3>1, <3>4, InOrderReading DEF Answered
  <2>3. ASSUME NEW k \in DOMAIN stream, NEW n \in BOOLEAN, Recv(k, n) PROVE InOrder'
    <3>1. ~Garbled(parser, Buffer(k)) /\ stream' = SubSeq(stream, k + 1, Len(stream))
      BY <2>3 DEF Recv
    <3>2. parser'.req = Parse(parser, Buffer(k)).req
      <4>1. Parse(parser, Buffer(k)) \in [req : DOMAIN asked, got : Nat, named : BOOLEAN]
        BY <1>1, ParseTakes
      <4>2. parser' = [Parse(parser, Buffer(k)) EXCEPT !.named = Parse(parser, Buffer(k)).named /\ n]
        BY <2>3 DEF Recv
      <4> QED BY <4>1, <4>2
    <3> QED BY <2>2, <3>1, <3>2
  <2>4. ASSUME NEW k \in DOMAIN stream, NEW i \in 1 .. k, NEW n \in BOOLEAN, ParseFails(k, i, n) PROVE InOrder'
    <3>1. ~Garbled(parser, Buffer(k)) /\ stream' = SubSeq(stream, k + 1, Len(stream))
      BY <2>4 DEF ParseFails
    <3>2. i \in DOMAIN stream
      BY <1>3
    <3>3. /\ Parse(parser, Buffer(i)) \in [req : DOMAIN asked, got : Nat, named : BOOLEAN]
          /\ Parse(parser, Buffer(i)).req = IF parser.req = 0 THEN stream[1].of ELSE parser.req
      BY <1>1, <3>2, ParseTakes
    <3>4. Parse(parser, Buffer(k)).req = IF parser.req = 0 THEN stream[1].of ELSE parser.req
      BY <1>1, ParseTakes
    <3>5. parser' = [Parse(parser, Buffer(i)) EXCEPT !.got = Parse(parser, Buffer(i)).got - 1,
                                                    !.named = Parse(parser, Buffer(i)).named /\ n /\ stream[i].part # "line"]
      BY <2>4 DEF ParseFails
    <3>6. parser'.req = Parse(parser, Buffer(i)).req
      BY <3>3, <3>5
    <3> QED BY <2>2, <3>1, <3>3, <3>4, <3>6
  <2> QED BY <2>1, <2>3, <2>4 DEF Receive, NoParser, RecvGarbled, RecvFails
<1>5. Unanswered'
  BY <1>1 DEF Unanswered, ServePcs, HandlerPcs, CrudPcs
<1>6. AnswersIncrease'
  BY <1>1 DEF Answered, AnswersIncrease
<1> QED BY <1>4, <1>5, <1>6 DEF Answered

LEMMA AnsweredDispatch ==
  ASSUME Typed, Answered, Dispatch
  PROVE  Answered'
<1>1. /\ pc = "dispatch" /\ pc' = "pre" /\ UNCHANGED <<stream, parser, wire, ended, sent, broken>>
      /\ served' = Append(served, [req |-> parser.req, close |-> parser.got >= 2 /\ Request.close])
  BY DEF Dispatch
<1>2. parser.req \in DOMAIN asked /\ parser.req # 0 /\ parser.got \in Nat
  BY <1>1, Served
<1>3. \A i \in DOMAIN served' : served'[i].req \in {served[j].req : j \in DOMAIN served} \cup {parser.req}
  <2>1. [req |-> parser.req, close |-> parser.got >= 2 /\ Request.close] \in Services /\ served \in Seq(Services)
    BY <1>2 DEF Services, Typed, TypeOK
  <2>2. /\ \A i \in DOMAIN served : served'[i] = served[i]
        /\ served'[Len(served) + 1] = [req |-> parser.req, close |-> parser.got >= 2 /\ Request.close]
        /\ \A i \in DOMAIN served' : i \in DOMAIN served \/ i = Len(served) + 1
    BY <1>1, <2>1, InAppend
  <2> QED BY <2>2
<1>4. \A r \in Seen' : r \in Seen \/ r = parser.req
  BY <1>1, <1>3 DEF Seen
<1>5. InOrder'
  BY <1>1, <1>2, <1>4, InOrderServing DEF Answered
<1>6. \A j \in DOMAIN wire : wire[j].req < parser.req
  <2>1. \A j \in DOMAIN wire : wire[j].req \in Seen
    BY DEF Seen
  <2> QED BY <1>1, <1>2, <2>1 DEF Answered, InOrder
<1> QED BY <1>1, <1>5, <1>6 DEF Answered, Unanswered, AnswersIncrease

LEMMA AnsweredTurn ==
  ASSUME Typed, Answered, Turn
  PROVE  Answered'
<1>1. pc' \in {"recv", "closed"} /\ parser'.req = 0 /\ UNCHANGED <<asked, stream, wire, ended, served>>
  BY DEF Turn, FreshParser, peer, hist
<1>2. Seen' = Seen /\ \A i : IsLine(i)' = IsLine(i)
  BY <1>1 DEF Seen, IsLine
<1>3. \A i \in DOMAIN stream : 0 < stream[i].of
  <2>1. \A i \in DOMAIN stream : stream[i] \in UnitTypes
    <3>1. stream \in Seq(UnitTypes) /\ DOMAIN stream = 1 .. Len(stream)
      BY LenProperties DEF Typed, TypeOK, UnitTypes
    <3> QED BY <3>1, ElementOfSeq
  <2> QED BY <2>1, SeenWasAsked DEF UnitTypes
<1>4. InOrder'
  BY <1>1, <1>2, <1>3 DEF Answered, InOrder
<1> QED BY <1>1, <1>4 DEF Answered, Unanswered, AnswersIncrease, ServePcs, HandlerPcs, CrudPcs

(* The line of a new request comes after all the others. *)
LEMMA AnsweredAsk ==
  ASSUME Typed, Answered, NEW q \in Requests, Ask(q)
  PROVE  Answered'
<1> DEFINE n == Len(asked) + 1
           u == Units(n, q)
           m == Len(stream)
<1>1. stream' = stream \o u /\ UNCHANGED <<pc, parser, wire, ended, served, sent, broken>>
  BY DEF Ask, response, hist
<1>2. /\ Seen' = Seen /\ Seen \subseteq 1 .. Len(asked) /\ Len(asked) \in Nat /\ n \in Nat
      /\ parser.req \in 0 .. Len(asked)
  <2>1. Seen' = Seen
    BY <1>1 DEF Seen
  <2>2. Seen \subseteq 1 .. Len(asked) /\ Len(asked) \in Nat
    BY SeenWasAsked
  <2> QED BY <2>1, <2>2 DEF Typed, TypeOK
<1>3. /\ u \in Seq([of : {n}, part : {"line", "headers", "body"}]) /\ Len(u) \in Nat
      /\ \A j \in 1 .. Len(u) : u[j].of = n /\ (u[j].part = "line" => j = 1)
  <2>1. PICK c \in Nat : c = n
    BY <1>2
  <2> DEFINE v == Units(c, q)
  <2>2. /\ v \in Seq([of : {c}, part : {"line", "headers", "body"}]) /\ Len(v) \in Nat
        /\ \A j \in 2 .. Len(v) : v[j].part # "line"
    <3>1. /\ v \in Seq([of : {c}, part : {"line", "headers", "body"}])
          /\ \A j \in 2 .. Len(v) : v[j].part # "line"
      BY UnitsOfRequest
    <3> HIDE DEF v
    <3> QED BY <3>1, LenProperties
  <2> HIDE DEF v
  <2>3. \A j \in 1 .. Len(v) : v[j] \in [of : {c}, part : {"line", "headers", "body"}]
    BY <2>2, ElementOfSeq
  <2>4. \A j \in 1 .. Len(v) : v[j].of = c /\ (v[j].part = "line" => j = 1)
    BY <2>2, <2>3
  <2> HIDE DEF n
  <2> QED BY <2>1, <2>2, <2>4 DEF v
<1>4. /\ stream \in Seq(UnitTypes) /\ m \in Nat /\ DOMAIN stream = 1 .. m
      /\ \A i \in 1 .. m : stream[i].of \in 1 .. Len(asked)
  <2>1. stream \in Seq(UnitTypes) /\ m \in Nat /\ DOMAIN stream = 1 .. m
    BY LenProperties DEF Typed, TypeOK, UnitTypes
  <2>2. \A i \in 1 .. m : stream[i] \in UnitTypes
    BY <2>1, ElementOfSeq
  <2> QED BY <2>1, <2>2, SeenWasAsked DEF UnitTypes
<1> HIDE DEF u
<1>5. /\ DOMAIN stream' = 1 .. m + Len(u)
      /\ \A i \in 1 .. m + Len(u) : stream'[i] = IF i <= m THEN stream[i] ELSE u[i - m]
  <2> DEFINE A == [of : {n}, part : {"line", "headers", "body"}]
  <2>1. stream \in Seq(UnitTypes \cup A) /\ u \in Seq(UnitTypes \cup A)
    <3>1. UnitTypes \subseteq UnitTypes \cup A /\ A \subseteq UnitTypes \cup A
      OBVIOUS
    <3> QED BY <1>3, <1>4, <3>1, SeqMonotonic
  <2> HIDE DEF A
  <2>2. /\ stream' \in Seq(UnitTypes \cup A) /\ Len(stream') = m + Len(u)
        /\ \A i \in 1 .. m + Len(u) : stream'[i] = IF i <= m THEN stream[i] ELSE u[i - m]
    BY <1>1, <2>1, ConcatProperties
  <2> QED BY <2>2, LenProperties
(* Each line of the longer stream was there before or is the new one. *)
<1>6. \A i \in DOMAIN stream' :
        \/ /\ i \in DOMAIN stream /\ stream'[i] = stream[i] /\ stream'[i].of < n
        \/ /\ i > m /\ stream'[i].of = n /\ (stream'[i].part = "line" => i = m + 1)
  <2> SUFFICES ASSUME NEW i \in DOMAIN stream'
               PROVE  \/ /\ i \in DOMAIN stream /\ stream'[i] = stream[i] /\ stream'[i].of < n
                      \/ /\ i > m /\ stream'[i].of = n /\ (stream'[i].part = "line" => i = m + 1)
    OBVIOUS
  <2>1. CASE i <= m
    <3>1. i \in 1 .. m /\ stream'[i] = stream[i] /\ stream[i].of \in 1 .. Len(asked)
      BY <1>3, <1>4, <1>5, <2>1
    <3> QED BY <1>2, <1>4, <3>1
  <2>2. CASE i > m
    <3>1. i - m \in 1 .. Len(u) /\ stream'[i] = u[i - m] /\ i \in Nat
      BY <1>3, <1>4, <1>5, <2>2
    <3>2. stream'[i].of = n /\ (stream'[i].part = "line" => i - m = 1)
      BY <1>3, <3>1
    <3> QED BY <1>4, <2>2, <3>1, <3>2
  <2>3. i \in Nat
    BY <1>3, <1>4, <1>5
  <2> QED BY <1>4, <2>1, <2>2, <2>3
<1>7. InOrder'
  <2> HIDE DEF n, m
  <2>1. \A i, j \in DOMAIN stream' : i < j /\ IsLine(i)' /\ IsLine(j)' => stream'[i].of < stream'[j].of
    <3> SUFFICES ASSUME NEW i \in DOMAIN stream', NEW j \in DOMAIN stream', i < j, IsLine(i)', IsLine(j)'
                 PROVE  stream'[i].of < stream'[j].of
      OBVIOUS
    <3>1. i \in Nat /\ j \in Nat
      BY <1>3, <1>4, <1>5
    <3>2. CASE j \in DOMAIN stream /\ stream'[j] = stream[j]
      <4>1. i \in DOMAIN stream /\ stream'[i] = stream[i]
        BY <1>4, <1>6, <3>1, <3>2
      <4> QED BY <3>2, <4>1 DEF Answered, InOrder, IsLine
    <3>3. CASE j > m /\ stream'[j].of = n /\ j = m + 1
      BY <1>4, <1>6, <3>1, <3>3
    <3> QED BY <1>6, <3>2, <3>3 DEF IsLine
  <2>2. \A i \in DOMAIN stream' : IsLine(i)' => parser'.req < stream'[i].of
    <3> SUFFICES ASSUME NEW i \in DOMAIN stream', IsLine(i)' PROVE parser.req < stream'[i].of
      BY <1>1
    <3>1. CASE i \in DOMAIN stream /\ stream'[i] = stream[i]
      BY <3>1 DEF Answered, InOrder, IsLine
    <3>2. CASE stream'[i].of = n
      BY <1>2, <3>2 DEF n
    <3> QED BY <1>6, <3>1, <3>2
  <2>3. \A i \in DOMAIN stream', r \in Seen' : IsLine(i)' => r < stream'[i].of
    <3> SUFFICES ASSUME NEW i \in DOMAIN stream', NEW r \in Seen, IsLine(i)' PROVE r < stream'[i].of
      BY <1>2
    <3>1. CASE i \in DOMAIN stream /\ stream'[i] = stream[i]
      BY <3>1 DEF Answered, InOrder, IsLine
    <3>2. CASE stream'[i].of = n
      BY <1>2, <3>2 DEF n
    <3> QED BY <1>6, <3>1, <3>2
  <2>4. \A r \in Seen' : parser'.req # 0 => r <= parser'.req /\ (pc' \in {"recv", "dispatch"} => r < parser'.req)
    BY <1>1, <1>2 DEF Answered, InOrder
  <2> QED BY <2>1, <2>2, <2>3, <2>4 DEF InOrder
<1> QED BY <1>1, <1>7 DEF Answered, Unanswered, AnswersIncrease

LEMMA AnsweredLeave ==
  ASSUME Typed, Answered, Break \/ (\E k \in 0 .. Len(stream) : HangUp(k)) \/ UNCHANGED vars
  PROVE  Answered'
<1>1. /\ UNCHANGED <<pc, parser, wire, ended, served, sent>> /\ (broken' = broken \/ broken' = TRUE)
      /\ \A i \in DOMAIN stream' : i \in DOMAIN stream /\ stream'[i] = stream[i]
  <2>1. CASE Break \/ UNCHANGED vars
    BY <2>1 DEF Break, vars, peer, response, hist
  <2>2. CASE \E k \in 0 .. Len(stream) : HangUp(k)
    <3>1. PICK k \in 0 .. Len(stream) : HangUp(k)
      BY <2>2
    <3>2. /\ UNCHANGED <<pc, parser, wire, ended, served, sent, broken>> /\ stream' = SubSeq(stream, 1, k)
      BY <3>1 DEF HangUp, response, hist
    <3>3. /\ Len(stream) \in Nat /\ DOMAIN stream = 1 .. Len(stream) /\ stream \in Seq(UnitTypes)
      BY LenProperties DEF Typed, TypeOK, UnitTypes
    <3>4. \A i \in 1 .. k : i \in DOMAIN stream /\ stream[i] \in UnitTypes
      BY <3>3, ElementOfSeq
    <3>5. /\ stream' \in Seq(UnitTypes) /\ Len(stream') = IF 1 <= k THEN k - 1 + 1 ELSE 0
          /\ \A i \in 1 .. k - 1 + 1 : stream'[i] = stream[1 + i - 1]
      BY <3>2, <3>3, <3>4, SubSeqProperties
    <3>6. Len(stream') = k /\ DOMAIN stream' = 1 .. k
      BY <3>3, <3>5, LenProperties
    <3>7. \A i \in 1 .. k : stream'[i] = stream[i]
      BY <3>3, <3>5
    <3> QED BY <3>2, <3>4, <3>6, <3>7
  <2> QED BY <2>1, <2>2
<1>2. Seen' = Seen /\ \A i \in DOMAIN stream' : IsLine(i)' = IsLine(i)
  BY <1>1 DEF Seen, IsLine
<1>3. InOrder'
  <2> USE <1>1, <1>2 DEF Answered, InOrder
  <2>1. \A i, j \in DOMAIN stream' : i < j /\ IsLine(i)' /\ IsLine(j)' => stream'[i].of < stream'[j].of
    OBVIOUS
  <2>2. \A i \in DOMAIN stream' : IsLine(i)' => parser'.req < stream'[i].of
    OBVIOUS
  <2>3. \A i \in DOMAIN stream', r \in Seen' : IsLine(i)' => r < stream'[i].of
    OBVIOUS
  <2> QED BY <2>1, <2>2, <2>3
<1>4. broken' = FALSE => broken = FALSE
  BY <1>1
<1>5. broken \in BOOLEAN
  BY DEF Typed, TypeOK
<1> QED BY <1>1, <1>3, <1>5 DEF Answered, Unanswered, AnswersIncrease

LEMMA AnsweredStep == Typed /\ Answered /\ [Next]_vars => Answered'
<1> SUFFICES ASSUME Typed, Answered, [Next]_vars PROVE Answered'
  OBVIOUS
<1>1. CASE ServingStep
  BY <1>1, AnsweredServing
<1>2. CASE Receive \/ Dispatch \/ Turn
  BY <1>2, AnsweredReceive, AnsweredDispatch, AnsweredTurn
<1>3. CASE \E q \in Requests : Ask(q)
  BY <1>3, AnsweredAsk
<1>4. CASE Break \/ (\E k \in 0 .. Len(stream) : HangUp(k)) \/ UNCHANGED vars
  BY <1>4, AnsweredLeave
<1> QED BY <1>1, <1>2, <1>3, <1>4 DEF Next, Serve, ServingStep

LEMMA AnsweredInit == Init => Answered
<1> SUFFICES ASSUME Init PROVE Answered
  OBVIOUS
<1>1. /\ stream = <<>> /\ wire = <<>> /\ ended = <<>> /\ served = <<>> /\ pc = "recv"
  BY DEF Init
<1>2. DOMAIN <<>> = {}
  OBVIOUS
<1>3. Seen = {}
  BY <1>1, <1>2 DEF Seen
<1> QED BY <1>1, <1>2, <1>3 DEF Answered, InOrder, Unanswered, AnswersIncrease, ServePcs, HandlerPcs, CrudPcs

(* However requests are pipelined and whatever fails, the answers that go    *)
(* out are for ever later requests: none is answered twice or out of turn.   *)
THEOREM AnswersComeInOrder == Spec => []AnswersIncrease
<1>1. Spec => []Answered
  BY TypedAlways, AnsweredInit, AnsweredStep, PTL DEF Spec
<1>2. Answered => AnswersIncrease
  BY DEF Answered
<1> QED BY <1>1, <1>2, PTL
-----------------------------------------------------------------------------
(* All that is new on the wire is an answer with status s. *)
Out(s) == \A j \in DOMAIN wire' : \/ j \in DOMAIN wire /\ wire'[j] = wire[j]
                                  \/ wire'[j].req = parser.req /\ wire'[j].status = s

LEMMA SendOut ==
  ASSUME Typed, pc \in ServePcs, NEW r, NEW s \in Statuses, NEW body, Send(r, s, body)
  PROVE  Out(s)
<1> DEFINE e == [req |-> parser.req, status |-> s]
<1>1. wire \in Seq(Answers) /\ e \in Answers
  BY Served DEF Typed, TypeOK, Answers, Statuses
<1>2. e.req = parser.req /\ e.status = s
  OBVIOUS
<1>3. wire' = wire \/ wire' = Append(wire, e)
  BY DEF Send
<1> HIDE DEF e
<1>4. CASE wire' = wire
  BY <1>4 DEF Out
<1>5. CASE wire' = Append(wire, e)
  <2>1. /\ \A i \in DOMAIN wire : wire'[i] = wire[i]
        /\ wire'[Len(wire) + 1] = e
        /\ \A i \in DOMAIN wire' : i \in DOMAIN wire \/ i = Len(wire) + 1
    BY <1>1, <1>5, InAppend
  <2> QED BY <1>2, <2>1 DEF Out
<1> QED BY <1>3, <1>4, <1>5

(* While the request is handled its transaction has not ended: an answer of  *)
(* any status may go out, if the post chain will know of an error.           *)
LEMMA CommittedHandling ==
  ASSUME Typed, Committed, pc \in HandlerPcs, ~AppRuns, parser' = parser, ended' = ended, revised \subseteq revised',
         NEW s \in Statuses, Out(s), s < 400 \/ pc' = "reply" \/ (pc' = "post" /\ status' = s)
  PROVE  Committed'
<1>1. NotEnded /\ NoErrorTold /\ CommitMeansSuccess
  BY DEF Committed, Ending
<1>2. pc' \in {"post", "reply"} => pc' \notin HandlerPcs
  BY DEF HandlerPcs, CrudPcs
<1>3. NotEnded'
  BY <1>1 DEF NotEnded
<1>4. s < 400 => NoErrorTold'
  BY <1>1 DEF NoErrorTold, Out
<1>5. pc' # "reply"
        => /\ (pc' \in HandlerPcs => NoErrorTold')
           /\ status' < 400 => NoErrorTold'
  BY <1>2, <1>4
<1>6. Ending'
  <2>1. pc' = "reply" => pc' \notin HandlerPcs \cup {"post"}
    BY <1>2
  <2>2. \A i \in DOMAIN ended' : ended'[i].req # parser'.req
    BY <1>3 DEF NotEnded
  <2> QED BY <1>3, <1>5, <2>1, <2>2 DEF Ending
<1>7. CommitMeansSuccess'
  <2>1. \A i, j \in DOMAIN ended' : ended'[i].req = ended'[j].req => i = j
    BY <1>1 DEF CommitMeansSuccess
  <2>2. \A i \in DOMAIN ended', j \in DOMAIN wire' :
          ended'[i].how = "commit" /\ wire'[j].req = ended'[i].req => wire'[j].status < 400 \/ wire'[j].req \in revised'
    BY <1>1 DEF CommitMeansSuccess, NotEnded, Out
  <2> QED BY <2>1, <2>2 DEF CommitMeansSuccess
<1> QED BY <1>6, <1>7 DEF Committed

(* What the application does at its turns: it answers with the status that   *)
(* is set, and where it takes back what was told the request is revised.     *)
LEMMA CommittedApplication ==
  ASSUME Typed, Committed, Application
  PROVE  Committed'
<1> USE DEF peer, response, hist
<1>1. /\ pc \in {"pre", "user", "post"} /\ pc \in ServePcs /\ AppRuns
      /\ UNCHANGED <<asked, parser, pc, link, dbConn, ended>> /\ revised \subseteq revised'
  BY DEF Application, AppSets, AppSends, Revise, AppRuns, ServePcs, HandlerPcs
<1>2. AppRuns' /\ (NotEnded => NotEnded')
  BY <1>1 DEF AppRuns, Runs, Request, Covers, NotEnded
<1>3. /\ status \in Statuses /\ \A t \in Statuses : t < 400 <=> ~(t >= 400)
      /\ status < 400 => NoErrorTold
      /\ pc = "post" => \A i \in DOMAIN ended : ended[i].req = parser.req /\ ended[i].how = "commit" =>
                                                status < 400 \/ parser.req \in revised
      /\ pc # "post" => NotEnded
      /\ CommitMeansSuccess
  BY <1>1, Served DEF Committed, Ending, HandlerPcs, Statuses
<1>4. SUFFICES /\ status' < 400 => NoErrorTold'
               /\ pc = "post" => \A i \in DOMAIN ended : ended[i].req = parser.req /\ ended[i].how = "commit" =>
                                                         status' < 400 \/ parser.req \in revised'
               /\ CommitMeansSuccess'
  BY <1>1, <1>2, <1>4 DEF Committed, Ending, HandlerPcs, CrudPcs
<1>5. ASSUME NEW s \in {200, 400}, AppSets(s)
      PROVE  /\ status' < 400 => NoErrorTold'
             /\ pc = "post" => \A i \in DOMAIN ended : ended[i].req = parser.req /\ ended[i].how = "commit" =>
                                                       status' < 400 \/ parser.req \in revised'
             /\ CommitMeansSuccess'
  <2>1. /\ status' = s /\ s \in Statuses /\ wire' = wire
        /\ (s < 400 <=> status >= 400) /\ (Told # {} \/ Ended) => parser.req \in revised'
    BY <1>5 DEF AppSets, Revise, Statuses
  <2>2. CommitMeansSuccess'
    BY <1>1, <1>3, <2>1 DEF CommitMeansSuccess
  <2>3. ASSUME status' < 400 PROVE NoErrorTold'
    <3>1. CASE status < 400
      BY <1>1, <1>3, <2>1, <3>1 DEF NoErrorTold
    <3>2. CASE status >= 400
      <4>1. Told # {} => parser.req \in revised'
        BY <2>1, <2>3, <3>2
      <4>2. \A j \in DOMAIN wire : wire[j].req = parser.req => Told # {}
        BY DEF Told
      <4> QED BY <1>1, <2>1, <4>1, <4>2 DEF NoErrorTold
    <3> QED BY <1>3, <3>1, <3>2
  <2>4. ASSUME pc = "post", NEW i \in DOMAIN ended, ended[i].req = parser.req, ended[i].how = "commit"
        PROVE  status' < 400 \/ parser.req \in revised'
    <3>1. Ended /\ (status < 400 \/ parser.req \in revised)
      BY <1>3, <2>4 DEF Ended
    <3>2. CASE status >= 400
      <4>1. ~(status < 400)
        BY <1>3, <3>2
      <4> QED BY <1>1, <3>1, <4>1
    <3>3. CASE s < 400
      BY <2>1, <3>3
    <3>4. CASE ~(status >= 400) /\ ~(s < 400)
      BY <2>1, <3>1, <3>4
    <3> QED BY <3>2, <3>3, <3>4
  <2> QED BY <2>2, <2>3, <2>4
<1>6. ASSUME NEW r \in Results, AppSends(r)
      PROVE  /\ status' < 400 => NoErrorTold'
             /\ pc = "post" => \A i \in DOMAIN ended : ended[i].req = parser.req /\ ended[i].how = "commit" =>
                                                       status' < 400 \/ parser.req \in revised'
             /\ CommitMeansSuccess'
  <2>1. PICK s \in Statuses : s = status
    BY <1>3
  <2>2. Send(r, s, TRUE) /\ status' = s /\ revised' = revised
    BY <1>6, <2>1 DEF AppSends
  <2>3. Out(s)
    BY <1>1, <2>2, SendOut
  <2>4. status' < 400 => NoErrorTold'
    BY <1>1, <1>3, <2>1, <2>2, <2>3 DEF NoErrorTold, Out
  <2>5. ASSUME NEW i \in DOMAIN ended', NEW j \in DOMAIN wire', ended'[i].how = "commit", wire'[j].req = ended'[i].req
        PROVE  wire'[j].status < 400 \/ wire'[j].req \in revised'
    <3>1. CASE j \in DOMAIN wire /\ wire'[j] = wire[j]
      BY <1>1, <1>3, <2>2, <2>5, <3>1 DEF CommitMeansSuccess
    <3>2. CASE wire'[j].req = parser.req /\ wire'[j].status = s
      <4>1. i \in DOMAIN ended /\ ended[i].req = parser.req /\ ended[i].how = "commit"
        BY <1>1, <2>5, <3>2
      <4>2. status < 400 \/ parser.req \in revised
        BY <1>3, <4>1 DEF NotEnded
      <4> QED BY <2>1, <2>2, <3>2, <4>2
    <3> QED BY <2>3, <3>1, <3>2 DEF Out
  <2>6. \A i, j \in DOMAIN ended' : ended'[i].req = ended'[j].req => i = j
    BY <1>1, <1>3 DEF CommitMeansSuccess
  <2>7. CommitMeansSuccess'
    BY <2>5, <2>6 DEF CommitMeansSuccess
  <2> QED BY <1>3, <2>1, <2>2, <2>4, <2>7
<1> QED BY <1>5, <1>6 DEF Application

LEMMA CommittedEnd ==
  ASSUME Typed, Committed, EndTransaction
  PROVE  Committed'
<1> DEFINE e == [req |-> parser.req, how |-> Outcome]
<1>1. /\ pc = "post" /\ pc' = "post" /\ UNCHANGED <<parser, status, wire, revised>> /\ dbConn' = FALSE
      /\ ended' = IF dbConn THEN Append(ended, e) ELSE ended
  BY DEF EndTransaction, response, peer, hist
<1>2. /\ pc = "post" /\ dbConn => \A i \in DOMAIN ended : ended[i].req # parser.req
      /\ status < 400 => NoErrorTold
      /\ \A i \in DOMAIN ended : ended[i].req = parser.req /\ ended[i].how = "commit" =>
                                status < 400 \/ parser.req \in revised
      /\ CommitMeansSuccess /\ (NoErrorTold => NoErrorTold')
  BY <1>1 DEF Committed, Ending, NotEnded, NoErrorTold
<1>3. e \in Endings /\ ended \in Seq(Endings) /\ status \in Nat
  <2>1. pc \in {"dispatch"} \cup ServePcs /\ pc # "dispatch"
    BY <1>1 DEF ServePcs
  <2> QED BY <2>1, Served DEF Endings, Outcome, Statuses, Typed, TypeOK
<1>4. e.req = parser.req /\ (e.how = "commit" => status < 400)
  BY <1>3 DEF Outcome
<1> HIDE DEF e
<1>5. CASE ~dbConn
  <2>1. Ending'
    BY <1>1, <1>2, <1>5 DEF Ending, HandlerPcs, CrudPcs
  <2>2. CommitMeansSuccess'
    BY <1>1, <1>2, <1>5 DEF CommitMeansSuccess
  <2> QED BY <2>1, <2>2 DEF Committed
<1>6. CASE dbConn
  <2>1. /\ \A i \in DOMAIN ended' : \/ i \in DOMAIN ended /\ ended'[i] = ended[i] /\ ended[i].req # parser.req
                                    \/ i = Len(ended) + 1 /\ ended'[i] = e
    <3>1. /\ \A i \in DOMAIN ended : ended'[i] = ended[i]
          /\ ended'[Len(ended) + 1] = e
          /\ \A i \in DOMAIN ended' : i \in DOMAIN ended \/ i = Len(ended) + 1
      BY <1>1, <1>3, <1>6, InAppend
    <3> QED BY <1>1, <1>2, <1>6, <3>1
  <2>2. \A i \in DOMAIN ended' : ended'[i].req = parser.req /\ ended'[i].how = "commit" =>
                                 status < 400 \/ parser.req \in revised
    BY <1>4, <2>1
  <2>3. Ending'
    BY <1>1, <1>2, <2>2 DEF Ending, HandlerPcs, CrudPcs
  <2>4. \A i, j \in DOMAIN ended' : ended'[i].req = ended'[j].req => i = j
    <3> SUFFICES ASSUME NEW i \in DOMAIN ended', NEW j \in DOMAIN ended', ended'[i].req = ended'[j].req PROVE i = j
      OBVIOUS
    <3>1. CASE i \in DOMAIN ended /\ ended'[i] = ended[i] /\ ended[i].req # parser.req
      <4>1. j \in DOMAIN ended /\ ended'[j] = ended[j]
        BY <1>4, <2>1, <3>1
      <4> QED BY <1>2, <3>1, <4>1 DEF CommitMeansSuccess
    <3>2. CASE i = Len(ended) + 1 /\ ended'[i] = e
      BY <1>4, <2>1, <3>2
    <3> QED BY <2>1, <3>1, <3>2
  <2>5. ASSUME NEW i \in DOMAIN ended', NEW j \in DOMAIN wire', ended'[i].how = "commit", wire'[j].req = ended'[i].req
        PROVE  wire'[j].status < 400 \/ wire'[j].req \in revised'
    <3>1. CASE i \in DOMAIN ended /\ ended'[i] = ended[i]
      BY <1>1, <1>2, <2>5, <3>1 DEF CommitMeansSuccess
    <3>2. CASE ended'[i] = e
      <4>1. status < 400 /\ wire[j].req = parser.req /\ j \in DOMAIN wire
        BY <1>1, <1>4, <2>5, <3>2
      <4> QED BY <1>1, <1>2, <4>1 DEF NoErrorTold
    <3> QED BY <2>1, <3>1, <3>2
  <2> QED BY <2>3, <2>4, <2>5 DEF Committed, CommitMeansSuccess
<1> QED BY <1>3, <1>5, <1>6 DEF Typed, TypeOK

(* After the post chain the status decides: what the framework answers       *)
(* itself is what the transaction was ended by.                              *)
LEMMA CommittedReply ==
  ASSUME Typed, Committed, (\E r \in Results : Reply(r)) \/ NoReply \/ Clean
  PROVE  Committed'
<1>1. pc \in {"reply", "clean"} /\ pc \in ServePcs /\ pc' \in {"clean", "next"} /\ UNCHANGED <<parser, ended, status, revised>>
  BY DEF Reply, NoReply, Clean, response, hist, ServePcs
<1>2. pc' \notin HandlerPcs \cup {"post", "reply"}
  BY <1>1 DEF HandlerPcs, CrudPcs
<1>3. Ending'
  BY <1>2 DEF Ending
<1>4. CommitMeansSuccess'
  <2>1. CASE wire' = wire
    BY <1>1, <2>1 DEF Committed, CommitMeansSuccess
  <2>2. ASSUME NEW r \in Results, Reply(r) PROVE CommitMeansSuccess'
    <3>1. pc = "reply" /\ \A i \in DOMAIN ended : ended[i].req = parser.req /\ ended[i].how = "commit" =>
                                                 status < 400 \/ parser.req \in revised
      BY <2>2 DEF Reply, Committed, Ending
    <3>2. PICK s \in Statuses : s = status
      BY <1>1, Served
    <3>3. Send(r, s, TRUE)
      BY <2>2, <3>2 DEF Reply
    <3>4. Out(s)
      BY <1>1, <3>3, SendOut
    <3>5. ASSUME NEW i \in DOMAIN ended, NEW j \in DOMAIN wire', ended[i].how = "commit", wire'[j].req = ended[i].req
          PROVE  wire'[j].status < 400 \/ wire'[j].req \in revised'
      <4>1. CASE j \in DOMAIN wire /\ wire'[j] = wire[j]
        BY <1>1, <3>5, <4>1 DEF Committed, CommitMeansSuccess
      <4>2. CASE wire'[j].req = parser.req /\ wire'[j].status = s
        BY <1>1, <3>1, <3>2, <3>5, <4>2
      <4> QED BY <3>4, <4>1, <4>2 DEF Out
    <3> QED BY <1>1, <3>5 DEF Committed, CommitMeansSuccess
  <2> QED BY <2>1, <2>2 DEF NoReply, Clean
<1> QED BY <1>3, <1>4 DEF Committed

LEMMA OutUnchanged ==
  ASSUME wire' = wire, NEW s
  PROVE  Out(s)
BY DEF Out

(* A middleware of the application's that goes on: if it told the peer of an *)
(* error the request is revised from then on.                                *)
LEMMA CommittedSkip ==
  ASSUME Typed, Committed, NEW at \in {"pre", "post"}, NEW chain, at = "pre" => chain = Pre, Skip(at, chain)
  PROVE  Committed'
<1> USE DEF peer, response, hist
<1>1. /\ pc = at /\ UNCHANGED <<pc, parser, status, dbConn, wire, ended>> /\ revised \subseteq revised'
      /\ pc = "pre" /\ AppRuns /\ (\E t \in Told : t >= 400) => parser.req \in revised'
  BY DEF Skip, Revise, AppRuns
<1>2. CommitMeansSuccess' /\ (NotEnded => NotEnded') /\ (NoErrorTold => NoErrorTold')
  BY <1>1 DEF Committed, CommitMeansSuccess, NotEnded, NoErrorTold
<1>3. CASE at = "post"
  <2>1. pc' \notin HandlerPcs
    BY <1>1, <1>3 DEF HandlerPcs, CrudPcs
  <2> QED BY <1>1, <1>2, <1>3, <2>1 DEF Committed, Ending
<1>4. CASE at = "pre"
  <2>1. pc = "pre" /\ pc \in HandlerPcs /\ pc \in ServePcs
    BY <1>1, <1>4 DEF HandlerPcs, ServePcs
  <2>2. NoErrorTold'
    <3>1. CASE ~AppRuns
      BY <1>2, <2>1, <3>1 DEF Committed, Ending
    <3>2. CASE AppRuns
      <4> SUFFICES ASSUME NEW k \in DOMAIN wire, wire[k].req = parser.req
                   PROVE  wire[k].status < 400 \/ parser.req \in revised'
        BY <1>1 DEF NoErrorTold
      <4>1. wire \in Seq(Answers)
        BY DEF Typed, TypeOK, Answers, Statuses
      <4>2. wire[k].status \in Statuses
        <5>1. wire[k] \in Answers
          BY <4>1, LenProperties, ElementOfSeq
        <5> QED BY <5>1 DEF Answers
      <4>3. wire[k].status \in Told
        BY DEF Told
      <4>4. wire[k].status < 400 \/ wire[k].status >= 400
        BY <4>2 DEF Statuses
      <4> QED BY <1>1, <2>1, <3>2, <4>3, <4>4
    <3> QED BY <3>1, <3>2
  <2> QED BY <1>1, <1>2, <2>1, <2>2 DEF Committed, Ending
<1> QED BY <1>3, <1>4

LEMMA CommittedMiddleware ==
  ASSUME Typed, Committed, Middleware
  PROVE  Committed'
<1> USE DEF peer, response, hist
<1>0. 301 \in Statuses /\ 401 \in Statuses
  BY DEF Statuses
<1>1. CASE EndTransaction
  BY <1>1, CommittedEnd
<1>2. CASE Skip("pre", Pre) \/ Skip("post", Post)
  BY <1>2, CommittedSkip
<1>3. CASE HookFails("pre", Pre) \/ HookFails("post", Post)
  <2>1. pc \in {"pre", "post"} /\ pc' = "reply" /\ UNCHANGED <<parser, ended, wire, status, revised>>
    BY <1>3 DEF HookFails, Onward
  <2>2. pc' \notin HandlerPcs /\ pc \in HandlerPcs \cup {"post"}
    BY <2>1 DEF HandlerPcs, CrudPcs
  <2> QED BY <2>1, <2>2 DEF Committed, Ending, NotEnded, CommitMeansSuccess
<1>4. CASE StartTransaction \/ (\E r \in Results : Cors(r) \/ Redirect(r) \/ Unauthorised(r, 401)) \/ Authorise
  <2>1. /\ pc = "pre" /\ pc \in HandlerPcs /\ pc \in ServePcs /\ ~AppRuns
        /\ parser' = parser /\ ended' = ended /\ revised' = revised /\ pc' \in {"pre", "reply"}
    BY <1>4 DEF StartTransaction, Cors, Redirect, Unauthorised, Authorise, Onward, HandlerPcs, ServePcs, AppRuns,
           Runs
  <2>2. PICK s \in Statuses : s = 301
    BY <1>0
  <2>3. CASE wire' = wire
    BY <2>1, <2>2, <2>3, OutUnchanged, CommittedHandling
  <2>4. ASSUME NEW r \in Results, Redirect(r) PROVE Committed'
    <3>1. Send(r, s, FALSE)
      BY <2>2, <2>4 DEF Redirect
    <3>2. Out(s)
      BY <2>1, <3>1, SendOut
    <3> QED BY <2>1, <2>2, <3>2, CommittedHandling
  <2>5. ASSUME NEW r \in Results, Unauthorised(r, 401) PROVE Committed'
    <3>1. PICK t \in Statuses : t = 401
      BY <1>0
    <3>2. Send(r, t, TRUE) /\ pc' = "reply"
      BY <2>5, <3>1 DEF Unauthorised, Onward
    <3>3. Out(t)
      BY <2>1, <3>2, SendOut
    <3> QED BY <2>1, <3>2, <3>3, CommittedHandling
  <2>6. wire' = wire \/ \E r \in Results : Redirect(r) \/ Unauthorised(r, 401)
    BY <1>4 DEF StartTransaction, Cors, Authorise
  <2> QED BY <2>3, <2>4, <2>5, <2>6
<1> QED BY <1>1, <1>2, <1>3, <1>4 DEF Middleware

LEMMA CommittedHandler ==
  ASSUME Typed, Committed, Route \/ Handler
  PROVE  Committed'
<1> USE DEF peer, response, hist
<1>0. 200 \in Statuses /\ 500 \in Statuses
  BY DEF Statuses
<1>1. CASE \E r \in Results : UserReturns(r)
  <2>1. pc = "user" /\ pc' \in {"post", "reply"} /\ UNCHANGED <<parser, status, wire, ended, revised>>
    BY <1>1 DEF UserReturns, AfterHandler, Onward
  <2>2. pc \in HandlerPcs /\ pc' \notin HandlerPcs
    BY <2>1 DEF HandlerPcs, CrudPcs
  <2> QED BY <2>1, <2>2 DEF Committed, Ending, NotEnded, NoErrorTold, CommitMeansSuccess
<1>2. CASE Route \/ \E r \in Results : Crud(r) \/ CrudUnconnected(r)
  <2>1. /\ pc \in HandlerPcs /\ pc \in ServePcs /\ parser' = parser /\ ended' = ended /\ revised' = revised
    BY <1>2 DEF Route, Crud, CrudUnconnected, HandlerPcs, ServePcs
  <2>2. ~AppRuns
    <3>1. pc \in CrudPcs \/ (pc = "pre" /\ link = Len(Pre) + 1)
      BY <1>2 DEF Route, Crud, CrudUnconnected
    <3>2. Len(Pre) + 1 \notin DOMAIN Pre
      BY Chains
    <3> QED BY <3>1, <3>2 DEF AppRuns, Runs, CrudPcs
  <2>3. CASE wire' = wire
    <3>1. PICK s \in Statuses : s = 200
      BY <1>0
    <3> QED BY <2>1, <2>2, <2>3, <3>1, OutUnchanged, CommittedHandling
  <2>4. ASSUME NEW r \in Results, NEW s \in Statuses, Send(r, s, TRUE), status' = s, pc' \in {"post", "reply"}
        PROVE  Committed'
    <3>1. Out(s)
      BY <2>1, <2>4, SendOut
    <3> QED BY <2>1, <2>2, <2>4, <3>1, CommittedHandling
  <2>5. CASE Route
    BY <2>3, <2>5 DEF Route
  <2>6. ASSUME NEW r \in Results, Crud(r) PROVE Committed'
    <3>1. PICK s \in Statuses : s = 200
      BY <1>0
    <3>2. wire' = wire \/ (Send(r, s, TRUE) /\ status' = s)
      BY <2>6, <3>1 DEF Crud
    <3>3. pc' \in {"post", "reply"}
      BY <2>6 DEF Crud, AfterHandler, Onward
    <3> QED BY <2>3, <2>4, <3>2, <3>3
  <2>7. ASSUME NEW r \in Results, CrudUnconnected(r) PROVE Committed'
    <3>1. PICK s \in Statuses : s = 500
      BY <1>0
    <3>2. wire' = wire \/ (Send(r, s, TRUE) /\ status' = s)
      BY <2>7, <3>1 DEF CrudUnconnected
    <3>3. pc' \in {"post", "reply"}
      BY <2>7 DEF CrudUnconnected, AfterHandler, Onward
    <3> QED BY <2>3, <2>4, <3>2, <3>3
  <2> QED BY <1>2, <2>5, <2>6, <2>7
<1> QED BY <1>1, <1>2 DEF Handler

LEMMA CommittedStep == Typed /\ Answered /\ Committed /\ [Next]_vars => Committed'
<1> SUFFICES ASSUME Typed, Answered, Committed, [Next]_vars PROVE Committed'
  OBVIOUS
<1> USE DEF peer, response, hist
<1>1. CASE Middleware
  BY <1>1, CommittedMiddleware
<1>2. CASE Route \/ Handler \/ Application
  BY <1>2, CommittedHandler, CommittedApplication
<1>3. CASE (\E r \in Results : Reply(r)) \/ NoReply \/ Clean
  BY <1>3, CommittedReply
<1>4. CASE PostDone
  <2>1. pc = "post" /\ pc' = "reply" /\ UNCHANGED <<parser, ended, wire, status, revised>>
    BY <1>4 DEF PostDone
  <2> QED BY <2>1 DEF Committed, Ending, CommitMeansSuccess, HandlerPcs, CrudPcs
<1>5. CASE Receive \/ Turn
  <2>1. pc' \in {"recv", "dispatch", "next", "lost", "closed"} /\ UNCHANGED <<wire, ended, revised>>
    BY <1>5 DEF Receive, NoParser, Recv, ParseFails, RecvGarbled, RecvFails, Turn
  <2> QED BY <2>1 DEF Committed, Ending, CommitMeansSuccess, HandlerPcs, CrudPcs
<1>6. CASE Dispatch
  <2>1. pc = "dispatch" /\ pc' = "pre" /\ UNCHANGED <<parser, ended, wire, revised>>
    BY <1>6 DEF Dispatch
  <2>2. parser.req \in Nat /\ parser.req # 0
    BY <2>1, Served DEF Typed, TypeOK
  <2>3. \A r \in Seen : r < parser.req
    BY <2>1, <2>2 DEF Answered, InOrder
  <2>4. (\A i \in DOMAIN ended : ended[i].req \in Seen) /\ \A j \in DOMAIN wire : wire[j].req \in Seen
    BY DEF Seen
  <2>5. (\A i \in DOMAIN ended : ended[i].req # parser.req) /\ \A j \in DOMAIN wire : wire[j].req # parser.req
    BY <2>2, <2>3, <2>4
  <2> QED BY <2>1, <2>5 DEF Committed, Ending, NotEnded, NoErrorTold, CommitMeansSuccess, HandlerPcs, CrudPcs
<1>7. CASE \/ Break \/ (\E q \in Requests : Ask(q)) \/ (\E k \in 0 .. Len(stream) : HangUp(k)) \/ UNCHANGED vars
  <2>1. UNCHANGED <<pc, parser, link, ended, wire, status, dbConn, revised>>
    BY <1>7 DEF Break, Ask, HangUp, vars
  <2>2. AppRuns' <=> AppRuns
    <3>1. CASE pc \in {"pre", "post"}
      <4>1. Request' = Request
        <5>1. parser.req \in DOMAIN asked /\ asked \in Seq(Requests)
          BY <3>1, Served DEF ServePcs, HandlerPcs, Typed, TypeOK
        <5>2. asked'[parser.req] = asked[parser.req]
          BY <1>7, <5>1, InAppend DEF Break, Ask, HangUp, vars
        <5> QED BY <2>1, <5>2 DEF Request
      <4> QED BY <2>1, <3>1, <4>1 DEF AppRuns, Runs, Covers
    <3>2. CASE pc \notin {"pre", "post"}
      BY <2>1, <3>2 DEF AppRuns
    <3> QED BY <3>1, <3>2
  <2> QED BY <2>1, <2>2 DEF Committed, Ending, NotEnded, NoErrorTold, CommitMeansSuccess
<1> QED BY <1>1, <1>2, <1>3, <1>4, <1>5, <1>6, <1>7 DEF Next, Serve

LEMMA CommittedInit == Init => Committed
BY DEF Init, Committed, Ending, NotEnded, NoErrorTold, CommitMeansSuccess, HandlerPcs, CrudPcs

(* A transaction ends once, and commits only a request whose peer is told of *)
(* success, by whichever of the middlewares, the handler or the framework,   *)
(* unless the application takes back what it told one of the two.            *)
THEOREM CommittedRequestsSucceed == Spec => []CommitMeansSuccess
<1>1. Spec => []Answered
  BY TypedAlways, AnsweredInit, AnsweredStep, PTL DEF Spec
<1>2. Spec => []Committed
  BY <1>1, TypedAlways, CommittedInit, CommittedStep, PTL DEF Spec
<1>3. Committed => CommitMeansSuccess
  BY DEF Committed
<1> QED BY <1>2, <1>3, PTL
-----------------------------------------------------------------------------
(* What stands of an earlier service when the loop does not read on. *)
LEMMA LastOneKept ==
  ASSUME Typed, LastOne, UNCHANGED <<parser, served>>, \A r \in DOMAIN asked : r \in DOMAIN asked' /\ asked'[r] = asked[r],
         pc' = pc \/ (pc \in ServePcs /\ pc' \in ServePcs \cup {"next"})
  PROVE  LastOne'
<1>1. pc # pc' => pc # "closed"
  BY DEF ServePcs, HandlerPcs, CrudPcs
<1>2. parser.req \in DOMAIN asked /\ Closing => parser'.req \in DOMAIN asked' /\ Closing'
  BY DEF Closing, Request
<1> QED BY <1>1, <1>2 DEF LastOne

LEMMA LastOneStep == Typed /\ LastOne /\ [Next]_vars => LastOne'
<1> SUFFICES ASSUME Typed, LastOne, [Next]_vars PROVE LastOne'
  OBVIOUS
<1> USE DEF peer, response, hist
<1>0. served \in Seq(Services) /\ asked \in Seq(Requests)
  BY DEF Typed, TypeOK, Services
<1>1. CASE ServingStep
  <2>1. pc \in ServePcs /\ pc' \in ServePcs \cup {"next"} /\ UNCHANGED <<asked, parser, served>>
    BY <1>1, ServingFrame
  <2> QED BY <2>1, LastOneKept
<1>2. CASE Receive
  <2>1. pc = "recv" /\ UNCHANGED served
    BY <1>2 DEF Receive, NoParser, Recv, ParseFails, RecvGarbled, RecvFails
  <2>2. \A i \in DOMAIN served : ~served[i].close
    BY <2>1 DEF LastOne, ServePcs, HandlerPcs, CrudPcs
  <2> QED BY <2>1, <2>2 DEF LastOne
<1>3. CASE Dispatch
  <2> DEFINE e == [req |-> parser.req, close |-> parser.got >= 2 /\ Request.close]
  <2>1. pc = "dispatch" /\ pc' = "pre" /\ UNCHANGED <<asked, parser>> /\ served' = Append(served, e)
    BY <1>3 DEF Dispatch
  <2>2. \A i \in DOMAIN served : ~served[i].close
    BY <2>1 DEF LastOne, ServePcs, HandlerPcs, CrudPcs
  <2>3. parser.req \in DOMAIN asked /\ parser.req # 0 /\ Request.close \in BOOLEAN
    BY <2>1, Served, ConfigAssumption
  <2>4. e \in Services /\ (e.close => Closing)
    BY <2>3 DEF Services, Closing
  <2> HIDE DEF e
  <2>5. /\ \A i \in DOMAIN served : served'[i] = served[i]
        /\ served'[Len(served) + 1] = e /\ Len(served') = Len(served) + 1
        /\ \A i \in DOMAIN served' : i \in DOMAIN served \/ i = Len(served) + 1
    BY <1>0, <2>1, <2>4, InAppend, AppendProperties
  <2>6. Closing => Closing'
    BY <2>1 DEF Closing, Request
  <2>7. pc' \in ServePcs \cup {"next"}
    BY <2>1 DEF ServePcs, HandlerPcs
  <2> SUFFICES ASSUME NEW i \in DOMAIN served', served'[i].close
               PROVE  i = Len(served') /\ parser'.req \in DOMAIN asked' /\ Closing'
    BY <2>7 DEF LastOne
  <2>8. i = Len(served) + 1
    BY <2>2, <2>5
  <2> QED BY <2>1, <2>3, <2>4, <2>5, <2>6, <2>8
<1>4. CASE Turn
  <2>1. pc = "next" /\ served' = served /\ pc' = IF KeepAlive THEN "recv" ELSE "closed"
    BY <1>4 DEF Turn
  <2>2. ASSUME NEW i \in DOMAIN served, served[i].close PROVE i = Len(served) /\ pc' = "closed"
    BY <2>1, <2>2 DEF LastOne, KeepAlive
  <2> QED BY <2>1, <2>2 DEF LastOne
<1>5. CASE \/ Break \/ (\E k \in 0 .. Len(stream) : HangUp(k)) \/ UNCHANGED vars
  <2>1. UNCHANGED <<pc, parser, asked, served>>
    BY <1>5 DEF Break, HangUp, vars
  <2> QED BY <2>1, LastOneKept
<1>6. CASE \E q \in Requests : Ask(q)
  <2>1. PICK q \in Requests : Ask(q)
    BY <1>6
  <2>2. UNCHANGED <<pc, parser, served>> /\ asked' = Append(asked, q)
    BY <2>1 DEF Ask
  <2>3. \A r \in DOMAIN asked : r \in DOMAIN asked' /\ asked'[r] = asked[r]
    BY <1>0, <2>2, InAppend
  <2> QED BY <2>2, <2>3, LastOneKept
<1> QED BY <1>1, <1>2, <1>3, <1>4, <1>5, <1>6 DEF Next, Serve, ServingStep

(* A request that asks to close the connection is the last one dispatched,   *)
(* whatever its handler does and however much was pipelined behind it.       *)
THEOREM ClosingRequestIsLast == Spec => []CloseIsLast
<1>1. Init => LastOne
  BY DEF Init, LastOne
<1>2. Spec => []LastOne
  BY <1>1, TypedAlways, LastOneStep, PTL DEF Spec
<1>3. Typed /\ LastOne => CloseIsLast
  <2> SUFFICES ASSUME Typed, LastOne, NEW i \in DOMAIN served, i < Len(served), served[i].close PROVE FALSE
    BY DEF CloseIsLast
  <2>1. i = Len(served) /\ Len(served) \in Nat
    BY LenProperties DEF LastOne, Typed, TypeOK
  <2> QED BY <2>1
<1> QED BY <1>2, <1>3, TypedAlways, PTL
=============================================================================
