------------------------------ MODULE OAuth2Proofs ------------------------------
(***************************************************************************)
(* What the OAuth 2 example promises, for every set of callers, accounts   *)
(* and failures: a grant means that both checks were passed, a grant that  *)
(* meets no failure is served, a logout ends the access, and what was      *)
(* acquired is given up.                                                   *)
(***************************************************************************)
EXTENDS OAuth2, SequenceTheorems, TLAPS

-----------------------------------------------------------------------------
(* The inductive invariant: the shape of the variables, and what fits the    *)
(* step that main, each handler and each call of the library has reached.    *)
IsReply(r) == r = NULL \/ DOMAIN r = {"status", "body"}
IsHandler(h) == DOMAIN h = {"pc", "req", "heap", "reply"} /\ IsReply(h.reply)
IsCall(k) ==
  /\ DOMAIN k = {"pc", "heap", "user", "answer", "rc", "sure", "since"}
  /\ IsReply(k.answer) /\ k.sure \in BOOLEAN /\ k.since \in Nat

Shaped ==
  /\ DOMAIN handler = Callers /\ \A c \in Callers : IsHandler(handler[c])
  /\ DOMAIN call = Callers /\ \A c \in Callers : IsCall(call[c])
  /\ lib \in [Callers -> AppAccounts \cup {NULL}]
  /\ DOMAIN orphans = Callers
  /\ opened \in [Callers -> BOOLEAN] /\ session \in BOOLEAN
  /\ faults \in Nat
  /\ DOMAIN main = {"pc", "held", "routes"}

(* What main holds where it is, and when the routes are there. *)
MainFits ==
  LET before == main.routes = {} IN
  \/ MainAt("context") /\ main.held = {} /\ before
  \/ MainAt("tls") /\ main.held \subseteq {"context"} /\ before
  \/ MainAt("router") /\ main.held \subseteq {"context", "tls"} /\ before
  \/ MainAt("connect") /\ main.held \subseteq {"context", "tls", "router"} /\ before
  \/ MainAt("routes") /\ main.held \subseteq {"context", "tls", "router", "database"} /\ before
  \/ /\ main.pc \in {"documents", "running"} /\ ~before
     /\ main.held \subseteq {"context", "tls", "router", "database"}
  \/ MainAt("exited") /\ main.held \subseteq {"database"} \cup (IF before THEN {} ELSE {"tls"})
  \/ main.pc \in {"stopped", "failing"} /\ main.held \subseteq {"context", "database"}
  \/ MainAt("failed") /\ main.held \subseteq {"database"}
  \/ MainAt("crashed")

(* Where main is once it has served.                                         *)
HasServed == main.pc \in {"running", "stopped", "failing", "failed", "crashed"}

(* What a handler has allocated where it is; only when it is done has it     *)
(* answered.                                                                 *)
HandlerFits(c) ==
  LET h == handler[c]
      in(routes, pcs) == h.pc \in pcs /\ h.req.route \in routes
  IN
  /\ h.pc = "done" \/ h.reply = NULL
  /\ \/ h.pc \in {"idle", "start", "done"} /\ h.heap = {}
     \/ in({"token"}, {"client", "user"}) /\ h.heap \subseteq {"basic"}
     \/ in({"token"}, {"save", "answer"}) /\ h.heap \subseteq {"basic", "access", "refresh"}
     \/ in({"login"}, {"user"}) /\ h.heap = {}
     \/ in({"login"}, {"save", "answer"}) /\ h.heap \subseteq {"access", "refresh"}
     \/ in({"logout"}, {"revoke"}) /\ h.heap \subseteq {"bearer"}
     \/ in({"logout"}, {"answer"}) /\ h.heap = {}
     \/ in({"secret"}, {"lookup"}) /\ h.heap \subseteq {"bearer"}
     \/ in({"secret"}, {"answer"}) /\ h.heap \subseteq {"bearer", "row"}
     \/ in({"clients", "users"}, {"insert"}) /\ h.heap \subseteq {"query"}
     \/ in({"clients", "users"}, {"answer"}) /\ h.heap = {}

(* What a call of the library holds where it is; it is made for an account   *)
(* of the application and a person's, once the server runs, and by a caller  *)
(* that waits for nothing else.                                              *)
AllPieces == {"auth", "body", "headers", "request"}

CallHolds(k) ==
  \/ k.pc \in {"idle", "prepare"} /\ k.heap = {}
  \/ k.pc \in {"send", "wait"} /\ k.heap = AllPieces
  \/ k.pc = "copy" /\ k.heap \subseteq AllPieces \cup {"response"}
  \/ k.pc = "read" /\ k.heap = {"copy"}
  \/ k.pc = "returned" /\ k.heap \ {"request"} = IF k.rc = "ok" THEN {"token"} ELSE {}

CallFits(c) ==
  LET k == call[c] IN
  /\ CallHolds(k)
  /\ k.since <= faults /\ (k.pc = "idle" => ~k.sure)
  /\ k.pc = "idle" \/ (lib[c] \in AppAccounts /\ k.user \in UserAccounts /\ HasServed)
  /\ k.pc \in {"idle", "wait"} \/ handler[c].pc = "idle"
  /\ orphans[c] = {} \/ faults > 0

(* A handler that is past a check of a grant has passed it, and what comes   *)
(* back to the library says so only then.                                    *)
Verified(c) == lib[c] \in apps /\ call[c].user \in users
Granting(reply) == reply # NULL /\ reply.status = 200

GrantFits(c) ==
  LET h == handler[c]
      k == call[c]
  IN
  /\ k.pc = "wait" =>
       /\ h.req = GrantRequest(c)
       /\ h.pc = "user" => lib[c] \in apps
       /\ h.pc \in {"save", "answer"} => Verified(c)
       /\ h.pc = "done" /\ Granting(h.reply) => Verified(c)
  /\ k.pc = "copy" /\ Granting(k.answer) => Verified(c)
  /\ k.pc = "read" /\ k.answer.status = 200 => Verified(c)
  /\ k.pc = "returned" /\ k.rc = "ok" => Verified(c)

(* As long as nothing has failed, the answer to a grant that is sure to pass *)
(* the checks is the token, if the route is there and the server is.         *)
Granted == [status |-> 200, body |-> <<Demo>>]
Unrouted == "token" \notin main.routes

ServeFits(c) ==
  LET h == handler[c]
      k == call[c]
  IN
  k.sure =>
    /\ Verified(c)
    /\ faults = k.since =>
         /\ k.pc = "wait" /\ h.pc = "done" => h.reply = Granted \/ ~Serving \/ Unrouted
         /\ k.pc \in {"copy", "read"} => k.answer = Granted \/ ~Serving \/ Unrouted
         /\ k.pc = "returned" => k.rc = "ok" \/ ~Serving \/ Unrouted

(* While the token is saved, every request that could tell the secret or     *)
(* answer a logout began, or revoked, in time to say that it was.            *)
AccessFits(c) ==
  LET h == handler[c] IN
  /\ Demo \in tokens /\ h.pc \in {"start", "lookup"} /\ h.req.route = "secret" => opened[c]
  /\ Demo \in tokens /\ h.pc = "answer" /\ h.req.route = "logout" => opened[c]
  /\ h.pc = "answer" /\ h.req.route = "secret" => opened[c]
  /\ h.pc = "done" /\ h.req.route = "secret" /\ Granting(h.reply) => opened[c]

TokensFit == tokens \subseteq {Demo} /\ (Demo \in tokens => session)

CallerFits(c) == HandlerFits(c) /\ CallFits(c) /\ GrantFits(c) /\ ServeFits(c)

IInv ==
  /\ Shaped /\ MainFits /\ TokensFit
  /\ \A c \in Callers : CallerFits(c) /\ AccessFits(c)

-----------------------------------------------------------------------------
(* The answers.  IsResponse names what a response of Response.tla is made of *)
(* while a handler answers.                                                  *)
IsResponse(r, status, headers, body, len, sent, wire, rc) ==
  /\ DOMAIN r = {"status", "headers", "body", "bodyLen", "chunked", "headersSent", "wire", "rc"}
  /\ r.status = status /\ r.headers = headers /\ r.body = body /\ r.bodyLen = len
  /\ r.chunked = FALSE /\ r.headersSent = sent /\ r.wire = wire /\ r.rc = rc

LEMMA Updates ==
  ASSUME NEW status, NEW headers, NEW body, NEW len, NEW sent, NEW wire, NEW rc, NEW x,
         NEW r, IsResponse(r, status, headers, body, len, sent, wire, rc)
  PROVE  /\ IsResponse([r EXCEPT !.rc = x], status, headers, body, len, sent, wire, x)
         /\ IsResponse([r EXCEPT !.status = x], x, headers, body, len, sent, wire, rc)
         /\ IsResponse([r EXCEPT !.headers = x], status, x, body, len, sent, wire, rc)
         /\ IsResponse([r EXCEPT !.wire = x], status, headers, body, len, sent, x, rc)
         /\ IsResponse([r EXCEPT !.headersSent = x], status, headers, body, len, x, wire, rc)
<1>1. IsResponse([r EXCEPT !.rc = x], status, headers, body, len, sent, wire, x)
  BY DEF IsResponse
<1>2. IsResponse([r EXCEPT !.status = x], x, headers, body, len, sent, wire, rc)
  BY DEF IsResponse
<1>3. IsResponse([r EXCEPT !.headers = x], status, x, body, len, sent, wire, rc)
  BY DEF IsResponse
<1>4. IsResponse([r EXCEPT !.wire = x], status, headers, body, len, sent, x, rc)
  BY DEF IsResponse
<1>5. IsResponse([r EXCEPT !.headersSent = x], status, headers, body, len, x, wire, rc)
  BY DEF IsResponse
<1>. QED  BY <1>1, <1>2, <1>3, <1>4, <1>5

LEMMA NewIs == IsResponse(R!NewResponse, 200, <<>>, NULL, 0, FALSE, <<>>, "ok")
<1>. QED  BY DEF R!NewResponse, IsResponse

(* Setting the status changes that alone. *)
LEMMA SetStatusIs ==
  ASSUME NEW status, NEW headers, NEW body, NEW len, NEW sent, NEW wire, NEW rc, NEW other,
         NEW r, IsResponse(r, status, headers, body, len, sent, wire, rc)
  PROVE  IsResponse(R!SetStatus(r, other), other, headers, body, len, sent, wire, "ok")
<1>1. PICK ok : ok = "ok"
  OBVIOUS
<1>2. PICK s : s = [r EXCEPT !.rc = ok]
  OBVIOUS
<1>3. IsResponse(s, status, headers, body, len, sent, wire, ok)
  BY <1>2, Updates
<1>4. IsResponse([s EXCEPT !.status = other], other, headers, body, len, sent, wire, ok)
  BY <1>3, Updates
<1>5. R!SetStatus(r, other) = [s EXCEPT !.status = other]
  BY <1>1, <1>2 DEF R!SetStatus, R!Ok
<1>. QED  BY <1>1, <1>4, <1>5

LEMMA StatusIs ==
  ASSUME NEW status
  PROVE  IsResponse(R!SetStatus(R!NewResponse, status), status, <<>>, NULL, 0, FALSE, <<>>, "ok")
<1>1. PICK first, none, len, sent, ok : first = 200 /\ none = <<>> /\ len = 0 /\ sent = FALSE /\ ok = "ok"
  OBVIOUS
<1>2. PICK r : r = R!NewResponse
  OBVIOUS
<1>3. IsResponse(r, first, none, NULL, len, sent, none, ok)
  BY <1>1, <1>2, NewIs DEF IsResponse
<1>4. IsResponse(R!SetStatus(r, status), status, none, NULL, len, sent, none, "ok")
  BY <1>3, SetStatusIs
<1>. QED  BY <1>1, <1>2, <1>4 DEF IsResponse

LEMMA ShortSequences ==
  ASSUME NEW a, NEW b
  PROVE  /\ <<a>> \o <<b>> = <<a, b>>
         /\ <<>> \o <<a>> = <<a>> /\ <<a>> \o <<>> = <<a>>
         /\ Tail(<<a, b>>) = <<b>>
<1>1. <<a>> \o <<b>> = <<a, b>>
  <2>1. /\ <<a>> \in Seq({a, b}) /\ Len(<<a>>) = 1 /\ <<a>>[1] = a
        /\ <<b>> \in Seq({a, b}) /\ Len(<<b>>) = 1 /\ <<b>>[1] = b
        /\ <<a, b>> \in Seq({a, b}) /\ Len(<<a, b>>) = 2 /\ <<a, b>>[1] = a /\ <<a, b>>[2] = b
    OBVIOUS
  <2>2. PICK p \in Seq({a, b}), q \in Seq({a, b}) : p = <<a>> /\ q = <<b>>
    BY <2>1
  <2>3. PICK t \in Seq({a, b}) : t = <<a, b>>
    BY <2>1
  <2>4. p \o q \in Seq({a, b}) /\ Len(p \o q) = 2 /\ (p \o q)[1] = a /\ (p \o q)[2] = b
    <3>1. Len(p) = 1 /\ p[1] = a /\ Len(q) = 1 /\ q[1] = b
      BY <2>1, <2>2
    <3>. QED  BY <3>1, ConcatProperties
  <2>5. PICK u \in Seq({a, b}) : u = p \o q
    BY <2>4
  <2>6. Len(t) = Len(u) /\ \A i \in 1 .. Len(t) : t[i] = u[i]
    BY <2>1, <2>3, <2>4, <2>5
  <2>7. t = u
    BY <2>6, SeqEqual
  <2>. QED  BY <2>2, <2>3, <2>5, <2>7
<1>2. <<>> \o <<a>> = <<a>> /\ <<a>> \o <<>> = <<a>>
  <2>1. <<a>> \in Seq({a})
    OBVIOUS
  <2>. QED  BY <2>1, ConcatEmptySeq
<1>3. Tail(<<a, b>>) = <<b>>
  <2> DEFINE s == <<a, b>>
  <2>1. s \in Seq({a, b}) /\ Len(s) = 2 /\ s # <<>>
    OBVIOUS
  <2>2. s[2] = b
    OBVIOUS
  <2> HIDE DEF s
  <2>3. Tail(s) \in Seq({a, b}) /\ Len(Tail(s)) = 1 /\ Tail(s)[1] = b
    BY <2>1, <2>2
  <2>4. <<b>> \in Seq({a, b}) /\ Len(<<b>>) = 1 /\ <<b>>[1] = b
    OBVIOUS
  <2>5. PICK t \in Seq({a, b}) : t = Tail(s)
    BY <2>3
  <2>6. PICK u \in Seq({a, b}) : u = <<b>>
    BY <2>4
  <2>7. Len(t) = Len(u) /\ \A i \in 1 .. Len(t) : t[i] = u[i]
    BY <2>3, <2>4, <2>5, <2>6
  <2>8. t = u
    BY <2>7, SeqEqual
  <2>. QED  BY <2>5, <2>6, <2>8 DEF s
<1>. QED  BY <1>1, <1>2, <1>3

LEMMA IndexNone ==
  ASSUME NEW key
  PROVE  R!IndexOf(<<>>, key) = 0
<1>. QED  BY DEF R!IndexOf, R!SelectInSeq

LEMMA IndexOther ==
  ASSUME NEW key, NEW h, h[1] # key
  PROVE  R!IndexOf(<<h>>, key) = 0
<1>. QED  BY DEF R!IndexOf, R!SelectInSeq

LEMMA IndexNeither ==
  ASSUME NEW key, NEW g, NEW h, g[1] # key, h[1] # key
  PROVE  R!IndexOf(<<g, h>>, key) = 0
<1>. QED  BY DEF R!IndexOf, R!SelectInSeq

LEMMA IndexFirst ==
  ASSUME NEW key, NEW g, NEW h, g[1] = key, h[1] # key
  PROVE  R!IndexOf(<<g, h>>, key) = 1
<1>1. {i \in 1 .. Len(<<g, h>>) : <<g, h>>[i][1] = key} = {1}
  OBVIOUS
<1>2. R!Min({1}) = 1
  BY DEF R!Min
<1>. QED  BY <1>1, <1>2 DEF R!IndexOf, R!SelectInSeq

(* A header that is not there is put before the others; refused, it changes  *)
(* nothing but rc.                                                           *)
LEMMA HeaderIs ==
  ASSUME NEW status, NEW headers, NEW body, NEW len, NEW sent, NEW wire, NEW rc, NEW key, NEW value,
         NEW r, IsResponse(r, status, headers, body, len, sent, wire, rc),
         R!IndexOf(headers, key) = 0
  PROVE  /\ IsResponse(R!SetHeader(r, key, value, FALSE), status, <<<<key, value>>>> \o headers, body, len, sent, wire, "ok")
         /\ IsResponse(R!SetHeader(r, key, value, TRUE), status, headers, body, len, sent, wire, "error")
<1>1. IsResponse(R!Ok(r), status, headers, body, len, sent, wire, "ok")
  BY Updates DEF R!Ok
<1>2. IsResponse(R!Error(r), status, headers, body, len, sent, wire, "error")
  BY Updates DEF R!Error
<1>3. r.headers = headers /\ R!Ok(r).headers = headers
  BY <1>1 DEF IsResponse
<1>4. R!SetHeader(r, key, value, FALSE) = [R!Ok(r) EXCEPT !.headers = <<<<key, value>>>> \o headers]
  BY <1>3 DEF R!SetHeader
<1>5. R!SetHeader(r, key, value, TRUE) = R!Error(r)
  BY DEF R!SetHeader
<1>6. IsResponse(R!SetHeader(r, key, value, FALSE), status, <<<<key, value>>>> \o headers, body, len, sent, wire, "ok")
  <2> DEFINE h == <<<<key, value>>>> \o headers
             s == R!Ok(r)
  <2>1. R!SetHeader(r, key, value, FALSE) = [s EXCEPT !.headers = h]
    BY <1>4
  <2>2. IsResponse(s, status, headers, body, len, sent, wire, "ok")
    BY <1>1
  <2> HIDE DEF h, s
  <2>3. IsResponse([s EXCEPT !.headers = h], status, h, body, len, sent, wire, "ok")
    BY <2>2, Updates
  <2>4. IsResponse(R!SetHeader(r, key, value, FALSE), status, h, body, len, sent, wire, "ok")
    BY <2>1, <2>3
  <2>. QED  BY <2>4 DEF h
<1>. QED  BY <1>2, <1>5, <1>6

(* What send puts on the connection: the head, and the body if there is one. *)
LEMMA SendIs ==
  ASSUME NEW status, NEW headers, NEW body, NEW len, NEW rc,
         NEW r, IsResponse(r, status, headers, body, len, FALSE, <<>>, rc),
         R!IndexOf(headers, "Content-Length") = 0
  PROVE  LET all == <<<<"Content-Length", len>>>> \o headers
             head == <<>> \o <<R!HeadMark(status, all)>>
             wire == IF body = NULL \/ len = 0 THEN head ELSE head \o R!Chars(body)
         IN  IsResponse(R!Send(r, "none"), status, all, body, len, TRUE, wire, "ok")
<1> DEFINE all == <<<<"Content-Length", len>>>> \o headers
           head == <<>> \o <<R!HeadMark(status, all)>>
           r1 == R!SetHeader(r, "Content-Length", len, FALSE)
           r2 == R!PutHead(r1, "none")
           r3 == R!PutBody(r2, "none")
           r4 == R!MarkSent(r3)
           wire == IF body = NULL \/ len = 0 THEN head ELSE head \o R!Chars(body)
<1>1. IsResponse(r1, status, all, body, len, FALSE, <<>>, "ok")
  BY HeaderIs
<1>2. IsResponse(r2, status, all, body, len, FALSE, head, "ok")
  <2> HIDE DEF r1
  <2>1. r1.status = status /\ r1.headers = all /\ r1.wire = <<>>
    BY <1>1 DEF IsResponse
  <2>2. r2 = [r1 EXCEPT !.wire = head]
    BY <2>1 DEF R!PutHead, R!Write
  <2> HIDE DEF head, r2
  <2>3. IsResponse([r1 EXCEPT !.wire = head], status, all, body, len, FALSE, head, "ok")
    <3> HIDE DEF all
    <3>. QED  BY <1>1, Updates
  <2>. QED  BY <2>2, <2>3
<1>3. IsResponse(r3, status, all, body, len, FALSE, wire, "ok")
  <2> HIDE DEF r2
  <2>1. r2.body = body /\ r2.bodyLen = len /\ r2.wire = head
    BY <1>2 DEF IsResponse
  <2>2. r3 = IF body = NULL \/ len = 0 THEN r2 ELSE [r2 EXCEPT !.wire = head \o R!Chars(body)]
    BY <2>1 DEF R!PutBody, R!Write
  <2> DEFINE more == head \o R!Chars(body)
  <2>3. IsResponse([r2 EXCEPT !.wire = more], status, all, body, len, FALSE, more, "ok")
    <3> HIDE DEF all, head, more
    <3>. QED  BY <1>2, Updates
  <2> HIDE DEF all, head, r3
  <2>. QED  BY <1>2, <2>2, <2>3
<1>4. IsResponse(r4, status, all, body, len, TRUE, wire, "ok")
  <2>1. r4 = [r3 EXCEPT !.headersSent = TRUE]
    BY DEF R!MarkSent
  <2> HIDE DEF r3, r4, wire
  <2>. QED  BY <1>3, <2>1, Updates
<1>5. R!Send(r, "none") = r4
  <2>1. r.headersSent = FALSE /\ r.chunked = FALSE /\ r.bodyLen = len
    BY DEF IsResponse
  <2>2. r1.rc = "ok" /\ r2.rc = "ok" /\ r3.rc = "ok"
    BY <1>1, <1>2, <1>3 DEF IsResponse
  <2>3. R!Framed(r, "none") = r1
    BY <2>1 DEF R!Framed
  <2>4. R!PutHead(r1, "none") = r2 /\ R!PutBody(r2, "none") = r3 /\ R!MarkSent(r3) = r4
    OBVIOUS
  <2> HIDE DEF r1, r2, r3, r4
  <2>. QED  BY <2>1, <2>2, <2>3, <2>4 DEF R!Send, R!Then
<1>. QED  BY <1>4, <1>5

(* What json_dict leaves behind, of a response that only has a status, when  *)
(* nothing is refused and when the header is.                                *)
LEMMA JsonDictIs ==
  ASSUME NEW status, NEW x,
         NEW r, IsResponse(r, status, <<>>, NULL, 0, FALSE, <<>>, "ok")
  PROVE  LET all == <<<<"Content-Length", 1>>, <<"Content-Type", "application/json">>>>
             head == <<R!HeadMark(status, all)>>
             wire == IF <<x>> = NULL THEN head ELSE head \o <<<<"char", x>>>>
         IN  /\ IsResponse(R!JsonDict(r, <<x>>, "none"), status, all, <<x>>, 1, TRUE, wire, "ok")
             /\ IsResponse(R!JsonDict(r, <<x>>, "type"), status, <<>>, NULL, 0, FALSE, <<>>, "error")
<1> DEFINE type == <<"Content-Type", "application/json">>
           all == <<<<"Content-Length", 1>>, type>>
           head == <<R!HeadMark(status, all)>>
           wire == IF <<x>> = NULL THEN head ELSE head \o <<<<"char", x>>>>
           good == R!SetHeader(r, "Content-Type", "application/json", FALSE)
           bad == R!SetHeader(r, "Content-Type", "application/json", TRUE)
           kept == [good EXCEPT !.body = <<x>>, !.bodyLen = 1]
<1>1. R!IndexOf(<<>>, "Content-Type") = 0
  BY IndexNone
<1>2. IsResponse(good, status, <<type>>, NULL, 0, FALSE, <<>>, "ok")
  <2>1. IsResponse(good, status, <<type>> \o <<>>, NULL, 0, FALSE, <<>>, "ok")
    BY <1>1, HeaderIs
  <2>2. <<type>> \o <<>> = <<type>>
    OBVIOUS
  <2>. QED  BY <2>1, <2>2
<1>3. IsResponse(bad, status, <<>>, NULL, 0, FALSE, <<>>, "error")
  BY <1>1, HeaderIs
<1>4. IsResponse(kept, status, <<type>>, <<x>>, 1, FALSE, <<>>, "ok")
  <2> HIDE DEF good, type
  <2>. QED  BY <1>2 DEF IsResponse
<1>5. R!IndexOf(<<type>>, "Content-Length") = 0
  BY IndexOther
<1>6. IsResponse(R!Send(kept, "none"), status, all, <<x>>, 1, TRUE, wire, "ok")
  <2> DEFINE all2 == <<<<"Content-Length", 1>>>> \o <<type>>
             head2 == <<>> \o <<R!HeadMark(status, all2)>>
             wire2 == IF <<x>> = NULL \/ 1 = 0 THEN head2 ELSE head2 \o R!Chars(<<x>>)
  <2>1. IsResponse(R!Send(kept, "none"), status, all2, <<x>>, 1, TRUE, wire2, "ok")
    <3> HIDE DEF kept, type
    <3>. QED  BY <1>4, <1>5, SendIs
  <2>2. all2 = all
    <3> HIDE DEF type
    <3>. QED  BY ShortSequences
  <2>3. head2 = head
    <3> HIDE DEF all, all2
    <3>. QED  BY <2>2, ShortSequences
  <2>4. R!Chars(<<x>>) = <<<<"char", x>>>>
    BY DEF R!Chars
  <2> HIDE DEF kept, all, all2, head, head2
  <2>5. wire2 = wire
    BY <2>3, <2>4
  <2>. QED  BY <2>1, <2>2, <2>5
<1>7. R!JsonDict(r, <<x>>, "none") = R!Send(kept, "none")
  <2>1. good.rc = "ok" /\ kept.rc = "ok"
    BY <1>2, <1>4 DEF IsResponse
  <2>2. R!KeepText(good, <<x>>, "none") = kept
    <3>1. Len(<<x>>) = 1
      OBVIOUS
    <3> HIDE DEF good
    <3>. QED  BY <3>1 DEF R!KeepText
  <2>3. R!SetHeader(r, "Content-Type", "application/json", "none" = "type") = good
    OBVIOUS
  <2> HIDE DEF good, kept
  <2>. QED  BY <2>1, <2>2, <2>3 DEF R!JsonDict, R!Say, R!Then
<1>8. R!JsonDict(r, <<x>>, "type") = bad
  <2>1. bad.rc = "error"
    BY <1>3 DEF IsResponse
  <2>2. R!SetHeader(r, "Content-Type", "application/json", "type" = "type") = bad
    OBVIOUS
  <2> HIDE DEF bad
  <2>. QED  BY <2>1, <2>2 DEF R!JsonDict, R!Say, R!Then
<1>. QED  BY <1>3, <1>6, <1>7, <1>8

(* The peer reads the whole body of such an answer.                          *)
LEMMA PeerReadsIs ==
  ASSUME NEW status, NEW x
  PROVE  LET all == <<<<"Content-Length", 1>>, <<"Content-Type", "application/json">>>>
         IN  R!PeerReads(<<R!HeadMark(status, all)>> \o <<<<"char", x>>>>).body = <<x>>
<1> DEFINE all == <<<<"Content-Length", 1>>, <<"Content-Type", "application/json">>>>
           head == R!HeadMark(status, all)
           wire == <<head>> \o <<<<"char", x>>>>
<1>1. wire # <<>> /\ wire[1] = head /\ Tail(wire) = <<<<"char", x>>>>
  <2> HIDE DEF head
  <2>1. wire = <<head, <<"char", x>>>>
    BY ShortSequences
  <2>2. Tail(wire) = <<<<"char", x>>>>
    <3>1. PICK mark : mark = <<"char", x>>
      OBVIOUS
    <3>2. Tail(<<head, mark>>) = <<mark>>
      BY ShortSequences
    <3> HIDE DEF wire
    <3>. QED  BY <2>1, <3>1, <3>2
  <2>3. wire # <<>> /\ wire[1] = head
    <3>1. wire[1] = head
      BY <2>1
    <3>2. Len(wire) = 2
      BY <2>1
    <3>. QED  BY <3>1, <3>2
  <2>. QED  BY <2>2, <2>3
<1>2. head[2].headers = all
  BY DEF R!HeadMark
<1>3. R!HeaderOf(head[2], "Transfer-Encoding") = NULL
  BY <1>2, IndexNeither DEF R!HeaderOf
<1>4. R!HeaderOf(head[2], "Content-Length") = 1
  BY <1>2, IndexFirst DEF R!HeaderOf
<1>5. R!Texts(SubSeq(<<<<"char", x>>>>, 1, 1)) = <<x>>
  BY DEF R!Texts
<1>6. Len(<<<<"char", x>>>>) = 1
  OBVIOUS
<1> HIDE DEF wire, head
<1>7. R!PeerReads(wire) = R!Whole(<<x>>)
  <2> DEFINE rest == <<<<"char", x>>>>
             h == head[2]
  <2>1. wire # <<>> /\ wire[1][2] = h /\ Tail(wire) = rest
    BY <1>1
  <2>2. R!HeaderOf(h, "Transfer-Encoding") # "chunked" /\ R!HeaderOf(h, "Content-Length") = 1
    BY <1>3, <1>4, NullAssumption
  <2>3. R!Texts(SubSeq(rest, 1, 1)) = <<x>> /\ ~(Len(rest) < 1)
    BY <1>5, <1>6
  <2> HIDE DEF rest, h
  <2>. QED  BY <2>1, <2>2, <2>3 DEF R!PeerReads
<1>8. R!Whole(<<x>>).body = <<x>>
  BY DEF R!Whole
<1>. QED  BY <1>7, <1>8 DEF wire, head

(* What the peer gets of a handler's answer of one value: nothing at all, or *)
(* an answer with the handler's status; and, if nothing was refused, the     *)
(* token where that is what was said.                                        *)
LEMMA ReplyIs ==
  ASSUME NEW status, NEW x, NEW fault \in {"none", "type"}, NEW reply,
         \/ reply = ReplyOf(R!JsonDict(R!SetStatus(R!NewResponse, status), <<x>>, fault), FALSE)
         \/ reply = ReplyOf(R!JsonDict(R!SetStatus(R!NewResponse, status), <<x>>, fault), TRUE)
  PROVE  /\ IsReply(reply) /\ (reply = NULL \/ reply.status = status)
         /\ fault = "none" /\ x = Demo => reply = [status |-> status, body |-> <<Demo>>]
<1> DEFINE res == R!JsonDict(R!SetStatus(R!NewResponse, status), <<x>>, fault)
           all == <<<<"Content-Length", 1>>, <<"Content-Type", "application/json">>>>
           head == <<R!HeadMark(status, all)>>
           wire == IF <<x>> = NULL THEN head ELSE head \o <<<<"char", x>>>>
           strict == IF res.rc = "ok" THEN res ELSE R!NewResponse
           lenient == IF res.rc = "ok" THEN res ELSE R!Send(res, "none")
           Heard(out) == IF out.wire = <<>> THEN NULL ELSE [status |-> out.status, body |-> R!PeerReads(out.wire).body]
<1>1. fault = "none" => IsResponse(res, status, all, <<x>>, 1, TRUE, wire, "ok")
  BY StatusIs, JsonDictIs
<1>2. fault = "type" => IsResponse(res, status, <<>>, NULL, 0, FALSE, <<>>, "error")
  BY StatusIs, JsonDictIs
<1>3. R!Send(res, "none").status = status \/ fault = "none"
  <2> SUFFICES ASSUME fault = "type" PROVE R!Send(res, "none").status = status
    OBVIOUS
  <2> HIDE DEF res
  <2> DEFINE sent == <<<<"Content-Length", 0>>>> \o <<>>
             first == <<>> \o <<R!HeadMark(status, sent)>>
             sends == IF NULL = NULL \/ 0 = 0 THEN first ELSE first \o R!Chars(NULL)
  <2>1. IsResponse(R!Send(res, "none"), status, sent, NULL, 0, TRUE, sends, "ok")
    BY <1>2, IndexNone, SendIs
  <2> HIDE DEF sent, first, sends
  <2>. QED  BY <2>1 DEF IsResponse
<1>4. PICK out : reply = Heard(out) /\ (out = strict \/ out = lenient)
  BY DEF ReplyOf
<1>5. out.wire = <<>> \/ out.status = status
  <2>1. CASE fault = "none"
    BY <1>1, <1>4, <2>1 DEF IsResponse
  <2>2. CASE fault = "type"
    BY <1>2, <1>3, <1>4, <2>2, NewIs DEF IsResponse
  <2>. QED  BY <2>1, <2>2
<1>6. IsReply(reply) /\ (reply = NULL \/ reply.status = status)
  BY <1>4, <1>5 DEF IsReply
<1>7. ASSUME fault = "none", x = Demo
      PROVE  reply = [status |-> status, body |-> <<Demo>>]
  <2>1. out.status = status /\ out.wire = head \o <<<<"char", Demo>>>>
    BY <1>1, <1>4, <1>7, NullAssumption DEF IsResponse
  <2>2. head \o <<<<"char", Demo>>>> # <<>>
    BY ShortSequences
  <2>3. R!PeerReads(head \o <<<<"char", Demo>>>>).body = <<Demo>>
    BY PeerReadsIs
  <2> HIDE DEF head
  <2>. QED  BY <1>4, <2>1, <2>2, <2>3
<1>. QED  BY <1>6, <1>7

-----------------------------------------------------------------------------
(* The moves of a handler.  It alone changes, and what its request is stays. *)
Moved(c, pc, heap) ==
  /\ DOMAIN handler' = Callers
  /\ \A x \in Callers \ {c} : handler'[x] = handler[x]
  /\ IsHandler(handler'[c])
  /\ handler'[c].pc = pc /\ handler'[c].heap = heap /\ handler'[c].req = handler[c].req

LEMMA FaultyIs ==
  ASSUME faults \in Nat, NEW n \in Nat, Faulty(n)
  PROVE  faults' \in Nat /\ faults' = faults + n
<1>. QED  BY DEF Faulty

(* A handler that goes on has not answered.                                  *)
LEMMA GotoIs ==
  ASSUME Shaped, NEW c \in Callers, NEW pc, NEW heap, Goto(c, pc, heap)
  PROVE  Moved(c, pc, heap) /\ handler'[c].reply = handler[c].reply
<1>1. DOMAIN handler = Callers /\ IsHandler(handler[c])
  BY DEF Shaped
<1>2. PICK h : h = handler[c]
  OBVIOUS
<1>3. DOMAIN h = {"pc", "req", "heap", "reply"} /\ IsReply(h.reply)
  BY <1>1, <1>2 DEF IsHandler
<1>4. /\ DOMAIN handler' = Callers
      /\ \A x \in Callers \ {c} : handler'[x] = handler[x]
  BY <1>1 DEF Goto
<1>5. /\ handler'[c].pc = pc /\ handler'[c].heap = heap
      /\ handler'[c].req = h.req /\ handler'[c].reply = h.reply
  BY <1>1, <1>2, <1>3 DEF Goto
<1>6. DOMAIN handler'[c] = {"pc", "req", "heap", "reply"}
  BY <1>1, <1>2, <1>3 DEF Goto
<1>. QED  BY <1>2, <1>3, <1>4, <1>5, <1>6 DEF Moved, IsHandler

(* A handler that gives up what it holds is done, and says nothing.          *)
LEMMA GiveUpIs ==
  ASSUME Shaped, NEW c \in Callers, NEW freed, GiveUp(c, freed)
  PROVE  /\ Moved(c, "done", handler[c].heap \ freed) /\ handler'[c].reply = handler[c].reply
         /\ faults' \in Nat /\ faults < faults'
<1>1. DOMAIN handler = Callers /\ IsHandler(handler[c]) /\ faults \in Nat
  BY DEF Shaped
<1>2. PICK h : h = handler[c]
  OBVIOUS
<1>3. DOMAIN h = {"pc", "req", "heap", "reply"} /\ IsReply(h.reply)
  BY <1>1, <1>2 DEF IsHandler
<1>4. /\ DOMAIN handler' = Callers
      /\ \A x \in Callers \ {c} : handler'[x] = handler[x]
  BY <1>1 DEF GiveUp
<1>5. /\ handler'[c].pc = "done" /\ handler'[c].heap = h.heap \ freed
      /\ handler'[c].req = h.req /\ handler'[c].reply = h.reply
  BY <1>1, <1>2, <1>3 DEF GiveUp
<1>6. DOMAIN handler'[c] = {"pc", "req", "heap", "reply"}
  BY <1>1, <1>2, <1>3 DEF GiveUp
<1>7. faults' \in Nat /\ faults < faults'
  BY <1>1 DEF GiveUp, Faulty
<1>. QED  BY <1>2, <1>3, <1>4, <1>5, <1>6, <1>7 DEF Moved, IsHandler

(* A handler that finishes has answered as it meant to, or not at all, or    *)
(* something more has failed.                                                *)
LEMMA FinishIs ==
  ASSUME Shaped, NEW c \in Callers, NEW status, NEW x, NEW freed, NEW n \in Nat,
         Finish(c, status, <<x>>, freed, FALSE, n) \/ Finish(c, status, <<x>>, freed, TRUE, n)
  PROVE  /\ Moved(c, "done", handler[c].heap \ freed)
         /\ handler'[c].reply = NULL \/ handler'[c].reply.status = status
         /\ faults' \in Nat /\ faults + n <= faults'
         /\ faults' = faults + n /\ x = Demo => handler'[c].reply = [status |-> status, body |-> <<Demo>>]
<1>1. DOMAIN handler = Callers /\ IsHandler(handler[c]) /\ faults \in Nat
  BY DEF Shaped
<1>2. PICK h : h = handler[c]
  OBVIOUS
<1>3. DOMAIN h = {"pc", "req", "heap", "reply"}
  BY <1>1, <1>2 DEF IsHandler
<1> DEFINE Meant(fault) == ReplyOf(R!JsonDict(R!SetStatus(R!NewResponse, status), <<x>>, fault), FALSE)
           Lenient(fault) == ReplyOf(R!JsonDict(R!SetStatus(R!NewResponse, status), <<x>>, fault), TRUE)
           Done(reply) == handler' = [handler EXCEPT ![c].pc = "done", ![c].heap = @ \ freed, ![c].reply = reply]
<1>4. PICK fault \in {"none", "type"} :
        /\ Faulty(IF fault = "none" THEN n ELSE n + 1)
        /\ Done(Meant(fault)) \/ Done(Lenient(fault))
  BY Zenon DEF Finish
<1>5. PICK reply : (reply = Meant(fault) \/ reply = Lenient(fault)) /\ Done(reply)
  <2> HIDE DEF Meant, Lenient
  <2>. QED  BY <1>4
<1>6. /\ IsReply(reply) /\ (reply = NULL \/ reply.status = status)
      /\ fault = "none" /\ x = Demo => reply = [status |-> status, body |-> <<Demo>>]
  BY <1>4, <1>5, ReplyIs
<1>7. /\ DOMAIN handler' = Callers
      /\ \A y \in Callers \ {c} : handler'[y] = handler[y]
  BY <1>1, <1>5
<1>8. /\ handler'[c].pc = "done" /\ handler'[c].heap = h.heap \ freed
      /\ handler'[c].req = h.req /\ handler'[c].reply = reply
  BY <1>1, <1>2, <1>3, <1>5
<1>9. DOMAIN handler'[c] = {"pc", "req", "heap", "reply"}
  BY <1>1, <1>2, <1>3, <1>5
<1>10. Moved(c, "done", handler[c].heap \ freed)
  BY <1>2, <1>6, <1>7, <1>8, <1>9 DEF Moved, IsHandler
<1>11. faults' \in Nat /\ faults + n <= faults' /\ (faults' = faults + n => fault = "none")
  BY <1>1, <1>4 DEF Faulty
<1>12. handler'[c].reply = NULL \/ handler'[c].reply.status = status
  BY <1>6, <1>8
<1>13. faults' = faults + n /\ x = Demo => handler'[c].reply = [status |-> status, body |-> <<Demo>>]
  BY <1>6, <1>8, <1>11
<1>. QED  BY <1>10, <1>11, <1>12, <1>13

-----------------------------------------------------------------------------
(* What the others do.  Accounts are only added, failures only counted, and  *)
(* main, once it serves, only comes to its end.                              *)
Grows == apps \subseteq apps' /\ users \subseteq users' /\ faults' \in Nat /\ faults <= faults'

MainGoesOn ==
  HasServed => HasServed' /\ main'.routes = main.routes /\ (main'.pc = "running" => main.pc = "running")

Untouched(c) ==
  handler'[c] = handler[c] /\ call'[c] = call[c] /\ lib'[c] = lib[c] /\ orphans'[c] = orphans[c]

(* What holds of a caller still does while it does nothing itself.           *)
LEMMA CallerStays ==
  ASSUME Shaped, NEW c \in Callers, CallerFits(c), Untouched(c), Grows, MainGoesOn
  PROVE  CallerFits(c)'
<1>1. HandlerFits(c)'
  BY DEF CallerFits, HandlerFits, Untouched
<1>2. /\ handler'[c] = handler[c] /\ call'[c] = call[c] /\ lib'[c] = lib[c] /\ orphans'[c] = orphans[c]
      /\ faults \in Nat /\ faults' \in Nat /\ faults <= faults' /\ call[c].since \in Nat
      /\ call[c].sure \in BOOLEAN
  BY DEF Untouched, Grows, Shaped, IsCall
<1>3. CallFits(c)'
  <2>1. CallFits(c)
    BY DEF CallerFits
  <2>2. CallHolds(call[c]) /\ call[c].since <= faults'
    BY <1>2, <2>1 DEF CallFits
  <2>3. call[c].pc = "idle" \/ (lib[c] \in AppAccounts /\ call[c].user \in UserAccounts /\ HasServed')
    BY <2>1 DEF CallFits, MainGoesOn
  <2>4. orphans[c] = {} \/ faults' > 0
    BY <1>2, <2>1 DEF CallFits
  <2>. QED  BY <1>2, <2>1, <2>2, <2>3, <2>4 DEF CallFits, CallHolds
<1>4. Verified(c) => Verified(c)'
  BY <1>2 DEF Verified, Grows
<1>5. GrantFits(c)'
  <2>1. GrantFits(c)
    BY DEF CallerFits
  <2>2. GrantRequest(c)' = GrantRequest(c)
    BY <1>2 DEF GrantRequest
  <2>3. lib[c] \in apps => lib[c] \in apps'
    BY DEF Grows
  <2>. QED  BY <1>2, <1>4, <2>1, <2>2, <2>3 DEF GrantFits, Granting
<1>6. ServeFits(c)'
  <2>1. ServeFits(c) /\ CallFits(c)
    BY DEF CallerFits
  <2> SUFFICES ASSUME call[c].sure
               PROVE  ServeFits(c)'
    BY <1>2 DEF ServeFits
  <2>2. Verified(c)'
    BY <1>4, <2>1 DEF ServeFits
  <2>3. faults' = call[c].since => faults = call[c].since
    BY <1>2, <2>1 DEF CallFits
  <2>4. call[c].pc # "idle" => (Unrouted => Unrouted') /\ (~Serving => ~Serving')
    BY <2>1 DEF CallFits, MainGoesOn, HasServed, Unrouted, Serving
  <2>. QED  BY <1>2, <2>1, <2>2, <2>3, <2>4 DEF ServeFits, Granted
<1>. QED  BY <1>1, <1>3, <1>5, <1>6 DEF CallerFits

(* A step of a handler: what is left to show is what it depends on.          *)
LEMMA HandlerMoves ==
  ASSUME IInv, NEW c \in Callers, NEW pc, NEW heap, handler[c].pc # "idle", Moved(c, pc, heap), pc # "idle", Grows,
         UNCHANGED <<clientVars, main>>,
         opened' \in [Callers -> BOOLEAN], session' \in BOOLEAN,
         HandlerFits(c)',
         call[c].pc = "wait" =>
           /\ pc = "user" => lib[c] \in apps
           /\ pc \in {"save", "answer"} => Verified(c)
           /\ pc = "done" /\ Granting(handler'[c].reply) => Verified(c)
           /\ pc = "done" /\ Verified(c) => faults < faults' \/ handler'[c].reply = Granted,
         TokensFit', \A x \in Callers : AccessFits(x)'
  PROVE  IInv'
<1>1. /\ Shaped /\ MainFits
      /\ call' = call /\ lib' = lib /\ orphans' = orphans /\ main' = main
      /\ \A x \in Callers : CallerFits(x)
  BY DEF IInv, clientVars
<1>2. Shaped'
  <2>1. DOMAIN handler' = Callers /\ \A x \in Callers : IsHandler(handler'[x])
    BY <1>1 DEF Shaped, Moved
  <2>. QED  BY <1>1, <2>1 DEF Shaped, Grows
<1>3. MainFits'
  BY <1>1 DEF MainFits, MainAt
<1>4. MainGoesOn
  BY <1>1 DEF MainGoesOn, HasServed
<1>5. ASSUME NEW x \in Callers, x # c
      PROVE  CallerFits(x)'
  <2>1. Untouched(x)
    BY <1>1, <1>5 DEF Moved, Untouched
  <2>. QED  BY <1>1, <1>4, <2>1, CallerStays
<1>6. /\ call'[c] = call[c] /\ lib'[c] = lib[c] /\ orphans'[c] = orphans[c]
      /\ faults \in Nat /\ faults' \in Nat /\ faults <= faults' /\ call[c].since \in Nat /\ call[c].sure \in BOOLEAN
      /\ handler'[c].pc = pc /\ handler'[c].req = handler[c].req
      /\ CallFits(c) /\ GrantFits(c) /\ ServeFits(c)
  BY <1>1 DEF Shaped, IsCall, Grows, Moved, CallerFits
<1>7. call[c].pc \in {"idle", "wait"}
  BY <1>6 DEF CallFits
<1>8. CallFits(c)'
  <2>1. call[c].since <= faults' /\ (orphans[c] = {} \/ faults' > 0)
    BY <1>6 DEF CallFits
  <2>. QED  BY <1>1, <1>6, <1>7, <2>1 DEF CallFits, CallHolds, HasServed
<1>9. Verified(c) => Verified(c)'
  BY <1>6 DEF Verified, Grows
<1>10. GrantFits(c)'
  <2>1. GrantRequest(c)' = GrantRequest(c)
    BY <1>6 DEF GrantRequest
  <2>2. lib[c] \in apps => lib[c] \in apps'
    BY DEF Grows
  <2>. QED  BY <1>6, <1>7, <1>9, <2>1, <2>2 DEF GrantFits, Granting
<1>11. ServeFits(c)'
  <2> SUFFICES ASSUME call[c].sure
               PROVE  ServeFits(c)'
    BY <1>6 DEF ServeFits
  <2>1. Verified(c) /\ Verified(c)'
    BY <1>6, <1>9 DEF ServeFits
  <2>2. faults' = call[c].since => ~(faults < faults')
    BY <1>6 DEF CallFits
  <2>. QED  BY <1>6, <1>7, <2>1, <2>2 DEF ServeFits, Granted
<1>12. CallerFits(c)'
  BY <1>8, <1>10, <1>11 DEF CallerFits
<1>. QED  BY <1>2, <1>3, <1>5, <1>12 DEF IInv

(* The same where the tokens are left alone.                                 *)
LEMMA QuietMoves ==
  ASSUME IInv, NEW c \in Callers, NEW pc, NEW heap, handler[c].pc # "idle", Moved(c, pc, heap), pc # "idle", Grows,
         UNCHANGED <<clientVars, main>>, UNCHANGED <<tokens, opened, session>>,
         HandlerFits(c)',
         call[c].pc = "wait" =>
           /\ pc = "user" => lib[c] \in apps
           /\ pc \in {"save", "answer"} => Verified(c)
           /\ pc = "done" /\ Granting(handler'[c].reply) => Verified(c)
           /\ pc = "done" /\ Verified(c) => faults < faults' \/ handler'[c].reply = Granted,
         AccessFits(c)'
  PROVE  IInv'
<1>1. opened' \in [Callers -> BOOLEAN] /\ session' \in BOOLEAN
  BY DEF IInv, Shaped
<1>2. TokensFit'
  BY DEF IInv, TokensFit
<1>3. ASSUME NEW x \in Callers
      PROVE  AccessFits(x)'
  <2>1. CASE x = c
    BY <2>1
  <2>2. CASE x # c
    <3>1. handler'[x] = handler[x] /\ opened'[x] = opened[x] /\ tokens' = tokens
      BY <2>2 DEF Moved
    <3>. QED  BY <3>1 DEF IInv, AccessFits, Granting
  <2>. QED  BY <2>1, <2>2
<1>. QED  BY <1>1, <1>2, <1>3, HandlerMoves

(* A handler that refuses, after a failure or what is no sound grant.        *)
LEMMA RefusalKeeps ==
  ASSUME IInv, NEW c \in Callers, handler[c].pc # "idle", Moved(c, "done", {}),
         handler'[c].reply = NULL \/ handler'[c].reply.status # 200,
         faults' \in Nat, faults <= faults', faults < faults' \/ call[c].pc # "wait" \/ ~Verified(c),
         UNCHANGED <<clientVars, main>>, UNCHANGED <<rows, opened, session>>
  PROVE  IInv'
<1>1. Grows
  BY DEF Grows, rows
<1>2. HandlerFits(c)'
  BY DEF HandlerFits, Moved
<1>3. ~Granting(handler'[c].reply)
  BY DEF Granting
<1>4. AccessFits(c)'
  BY <1>3 DEF AccessFits, Moved, Granting
<1>5. UNCHANGED <<tokens, opened, session>>
  BY DEF rows
<1>. QED  BY <1>1, <1>2, <1>3, <1>4, <1>5, QuietMoves

(* A refusal of the code.                                                    *)
LEMMA FinishKeeps ==
  ASSUME IInv, NEW c \in Callers, handler[c].pc # "idle",
         NEW status, status # 200, NEW x, NEW freed, NEW n \in Nat,
         Finish(c, status, <<x>>, freed, FALSE, n) \/ Finish(c, status, <<x>>, freed, TRUE, n), handler[c].heap \subseteq freed,
         n > 0 \/ call[c].pc # "wait" \/ ~Verified(c),
         UNCHANGED <<clientVars, main>>, UNCHANGED <<rows, opened, session>>
  PROVE  IInv'
<1>1. Shaped /\ faults \in Nat
  BY DEF IInv, Shaped
<1>2. /\ Moved(c, "done", handler[c].heap \ freed)
      /\ handler'[c].reply = NULL \/ handler'[c].reply.status = status
      /\ faults' \in Nat /\ faults + n <= faults'
  BY <1>1, FinishIs
<1>3. handler[c].heap \ freed = {}
  OBVIOUS
<1>4. Moved(c, "done", {})
  BY <1>2, <1>3
<1>5. faults <= faults' /\ (n > 0 => faults < faults')
  BY <1>1, <1>2
<1>. QED  BY <1>2, <1>4, <1>5, RefusalKeeps

(* What a grant's request says is what the library was given.                *)
LEMMA GrantIs ==
  ASSUME IInv, NEW c \in Callers, call[c].pc = "wait"
  PROVE  /\ handler[c].req.route = "token" /\ handler[c].req.basic = lib[c]
         /\ Param(c, "grant_type") = "password"
         /\ Both(c, "client_id", "client_secret") /\ App(c) = lib[c]
         /\ Both(c, "username", "password") /\ User(c) = call[c].user
<1> DEFINE app == lib[c]
           user == call[c].user
           form == handler[c].req.form
<1>1. handler[c].req = GrantRequest(c) /\ app \in AppAccounts /\ user \in UserAccounts
  BY DEF IInv, CallerFits, CallFits, GrantFits
<1>2. handler[c].req.route = "token" /\ handler[c].req.basic = lib[c] /\ form = GrantForm(app, user)
  BY <1>1 DEF GrantRequest
<1>3. /\ app = <<app[1], app[2]>> /\ app[1] # NULL /\ app[2] # NULL
      /\ user = <<user[1], user[2]>> /\ user[1] # NULL /\ user[2] # NULL
  BY <1>1, AccountsAssumption
<1> HIDE DEF app, user, form
<1>4. /\ DOMAIN form = {"grant_type", "client_id", "client_secret", "username", "password"}
      /\ form["grant_type"] = "password" /\ form["client_id"] = app[1] /\ form["client_secret"] = app[2]
      /\ form["username"] = user[1] /\ form["password"] = user[2]
  BY <1>2 DEF GrantForm
<1>5. /\ Param(c, "grant_type") = "password" /\ Param(c, "client_id") = app[1] /\ Param(c, "client_secret") = app[2]
      /\ Param(c, "username") = user[1] /\ Param(c, "password") = user[2]
  BY <1>4 DEF Param, form
<1>6. Both(c, "client_id", "client_secret") /\ Both(c, "username", "password")
  BY <1>3, <1>5 DEF Both
<1>7. App(c) = app /\ User(c) = user
  BY <1>3, <1>5 DEF App, User
<1>. QED  BY <1>2, <1>5, <1>6, <1>7 DEF app, user

LEMMA RefuseKeeps ==
  ASSUME IInv, NEW c \in Callers, handler[c].pc # "idle", NEW error, NEW freed, NEW n \in Nat,
         \/ Refuse(c, error, freed, n) /\ handler[c].heap \subseteq freed
         \/ RefuseAndIgnore(c, error, n) /\ handler[c].heap = {},
         n > 0 \/ call[c].pc # "wait" \/ ~Verified(c),
         UNCHANGED <<clientVars, main>>, UNCHANGED <<rows, opened, session>>
  PROVE  IInv'
<1>1. PICK status : status = 400
  OBVIOUS
<1>2. status # 200
  BY <1>1
<1>3. Refuse(c, error, freed, n) => Finish(c, status, <<error>>, freed, FALSE, n)
  BY <1>1, Zenon DEF Refuse
<1>4. RefuseAndIgnore(c, error, n) => Finish(c, status, <<error>>, {}, TRUE, n)
  BY <1>1, Zenon DEF RefuseAndIgnore
<1>5. CASE Refuse(c, error, freed, n) /\ handler[c].heap \subseteq freed
  BY <1>2, <1>3, <1>5, FinishKeeps
<1>6. CASE RefuseAndIgnore(c, error, n) /\ handler[c].heap = {}
  <2>1. handler[c].heap \subseteq {}
    BY <1>6
  <2>. QED  BY <1>2, <1>4, <1>6, <2>1, FinishKeeps
<1>. QED  BY <1>5, <1>6

(* A handler that goes on with all rows as they are.                         *)
LEMMA GotoKeeps ==
  ASSUME IInv, NEW c \in Callers, NEW pc, NEW heap, handler[c].pc \notin {"idle", "done"}, pc \notin {"idle", "done"},
         Goto(c, pc, heap), Grows, UNCHANGED <<clientVars, main>>, UNCHANGED <<tokens, opened, session>>,
         Moved(c, pc, heap) /\ handler'[c].reply = NULL => HandlerFits(c)',
         call[c].pc = "wait" =>
           /\ pc = "user" => lib[c] \in apps
           /\ pc \in {"save", "answer"} => Verified(c),
         pc \in {"start", "lookup", "answer"} => handler[c].req.route \notin {"secret", "logout"} \/ opened[c] \/
                                                (pc = "lookup" /\ Demo \notin tokens)
  PROVE  IInv'
<1>1. Moved(c, pc, heap) /\ handler'[c].reply = handler[c].reply
  BY GotoIs DEF IInv
<1>2. handler[c].reply = NULL
  BY DEF IInv, CallerFits, HandlerFits
<1>3. HandlerFits(c)'
  BY <1>1, <1>2
<1>4. AccessFits(c)'
  BY <1>1 DEF AccessFits, Moved
<1>. QED  BY <1>1, <1>3, <1>4, QuietMoves

(* oauth2_token_handler.                                                     *)
LEMMA TokenStartKeeps ==
  ASSUME IInv, NEW c \in Callers, TokenStart(c), UNCHANGED <<clientVars, main>>
  PROVE  IInv'
<1>1. /\ handler[c].pc = "start" /\ handler[c].req.route = "token" /\ handler[c].heap = {}
      /\ UNCHANGED <<rows, opened, session>> /\ faults \in Nat
  BY DEF IInv, Shaped, CallerFits, HandlerFits, TokenStart, At
<1>2. call[c].pc = "wait" => Param(c, "grant_type") = "password" /\ Both(c, "client_id", "client_secret")
  BY GrantIs
<1>3. \A error : RefuseAndIgnore(c, error, 1) => IInv'
  BY <1>1, RefuseKeeps
<1>4. \A error : RefuseAndIgnore(c, error, 0) /\ call[c].pc # "wait" => IInv'
  BY <1>1, RefuseKeeps
<1>5. \A error : Refuse(c, error, {}, 0) /\ call[c].pc # "wait" => IInv'
  BY <1>1, RefuseKeeps
<1>6. ASSUME NEW heap \in SUBSET {"basic"}, Goto(c, "client", heap), Faulty(0)
      PROVE  IInv'
  <2>1. Grows
    BY <1>1, <1>6, FaultyIs DEF Grows, rows
  <2>2. Moved(c, "client", heap) /\ handler'[c].reply = NULL => HandlerFits(c)'
    BY <1>1 DEF Moved, HandlerFits
  <2>3. UNCHANGED <<tokens, opened, session>>
    BY <1>1 DEF rows
  <2>. QED  BY <1>1, <1>6, <2>1, <2>2, <2>3, GotoKeeps
<1>. QED  BY <1>2, <1>3, <1>4, <1>5, <1>6, NullAssumption DEF TokenStart

LEMMA TokenClientKeeps ==
  ASSUME IInv, NEW c \in Callers, TokenClient(c), UNCHANGED <<clientVars, main>>
  PROVE  IInv'
<1> DEFINE known == (IF "basic" \in handler[c].heap THEN handler[c].req.basic ELSE App(c)) \in apps
<1>1. /\ handler[c].pc = "client" /\ handler[c].req.route = "token" /\ handler[c].heap \subseteq {"basic"}
      /\ UNCHANGED <<rows, opened, session>> /\ faults \in Nat
  BY DEF IInv, Shaped, CallerFits, HandlerFits, TokenClient, At
<1>2. call[c].pc = "wait" => (known <=> lib[c] \in apps) /\ Both(c, "username", "password")
  BY GrantIs
<1>3. \A error : Refuse(c, error, {"basic"}, 1) => IInv'
  BY <1>1, RefuseKeeps
<1>4. \A error : Refuse(c, error, {"basic"}, 0) /\ (call[c].pc # "wait" \/ ~Verified(c)) => IInv'
  BY <1>1, RefuseKeeps
<1>5. ASSUME Goto(c, "user", handler[c].heap), Faulty(0), known
      PROVE  IInv'
  <2>1. Grows
    BY <1>1, <1>5, FaultyIs DEF Grows, rows
  <2>2. Moved(c, "user", handler[c].heap) /\ handler'[c].reply = NULL => HandlerFits(c)'
    BY <1>1 DEF Moved, HandlerFits
  <2>3. UNCHANGED <<tokens, opened, session>>
    BY <1>1 DEF rows
  <2>. QED  BY <1>1, <1>2, <1>5, <2>1, <2>2, <2>3, GotoKeeps
<1>6. ~known => call[c].pc # "wait" \/ ~Verified(c)
  BY <1>2 DEF Verified
<1>. QED  BY <1>2, <1>3, <1>4, <1>5, <1>6 DEF TokenClient

(* oauth2_login_handler                                                      *)
LEMMA LoginStartKeeps ==
  ASSUME IInv, NEW c \in Callers, LoginStart(c), UNCHANGED <<clientVars, main>>
  PROVE  IInv'
<1>1. /\ handler[c].pc = "start" /\ handler[c].req.route = "login" /\ handler[c].heap = {}
      /\ UNCHANGED <<rows, opened, session>> /\ faults \in Nat
  BY DEF IInv, Shaped, CallerFits, HandlerFits, LoginStart, At
<1>2. call[c].pc # "wait"
  BY <1>1, GrantIs
<1>3. \A error, n : RefuseAndIgnore(c, error, n) /\ n \in Nat => IInv'
  BY <1>1, <1>2, RefuseKeeps
<1>4. ASSUME Goto(c, "user", {}), Faulty(0)
      PROVE  IInv'
  <2>1. Grows
    BY <1>1, <1>4, FaultyIs DEF Grows, rows
  <2>2. Moved(c, "user", {}) /\ handler'[c].reply = NULL => HandlerFits(c)'
    BY <1>1 DEF Moved, HandlerFits
  <2>3. UNCHANGED <<tokens, opened, session>>
    BY <1>1 DEF rows
  <2>. QED  BY <1>1, <1>2, <1>4, <2>1, <2>2, <2>3, GotoKeeps
<1>. QED  BY <1>3, <1>4 DEF LoginStart

(* The check that the two have in common.                                    *)
LEMMA VerifyUserKeeps ==
  ASSUME IInv, NEW c \in Callers, VerifyUser(c), UNCHANGED <<clientVars, main>>
  PROVE  IInv'
<1>1. /\ handler[c].pc = "user" /\ handler[c].heap \subseteq {"basic"}
      /\ handler[c].req.route = "token" \/ (handler[c].req.route = "login" /\ handler[c].heap = {})
      /\ UNCHANGED <<rows, opened, session>> /\ faults \in Nat /\ Shaped
  BY DEF IInv, Shaped, CallerFits, HandlerFits, VerifyUser
<1>2. call[c].pc = "wait" => User(c) = call[c].user /\ lib[c] \in apps
  BY <1>1, GrantIs DEF IInv, CallerFits, GrantFits
<1>3. \A error : Refuse(c, error, {"basic"}, 1) => IInv'
  BY <1>1, RefuseKeeps
<1>4. \A error : Refuse(c, error, {"basic"}, 0) /\ User(c) \notin users => IInv'
  <2>1. User(c) \notin users => call[c].pc # "wait" \/ ~Verified(c)
    BY <1>2 DEF Verified
  <2>. QED  BY <1>1, <2>1, RefuseKeeps
<1>5. ASSUME GiveUp(c, {"basic"})
      PROVE  IInv'
  <2>1. /\ Moved(c, "done", handler[c].heap \ {"basic"}) /\ handler'[c].reply = handler[c].reply
        /\ faults' \in Nat /\ faults < faults'
    BY <1>1, <1>5, GiveUpIs
  <2>2. handler[c].heap \ {"basic"} = {} /\ handler[c].reply = NULL
    BY <1>1 DEF IInv, CallerFits, HandlerFits
  <2>3. Moved(c, "done", {}) /\ handler'[c].reply = NULL /\ faults <= faults'
    BY <1>1, <2>1, <2>2
  <2>. QED  BY <1>1, <2>1, <2>3, RefusalKeeps
<1>6. ASSUME Goto(c, "save", handler[c].heap \cup {"access", "refresh"}), Faulty(0), User(c) \in users
      PROVE  IInv'
  <2>1. Grows
    BY <1>1, <1>6, FaultyIs DEF Grows, rows
  <2>2. Moved(c, "save", handler[c].heap \cup {"access", "refresh"}) /\ handler'[c].reply = NULL => HandlerFits(c)'
    BY <1>1 DEF Moved, HandlerFits
  <2>3. UNCHANGED <<tokens, opened, session>>
    BY <1>1 DEF rows
  <2>4. call[c].pc = "wait" => Verified(c)
    BY <1>2, <1>6 DEF Verified
  <2>. QED  BY <1>1, <1>6, <2>1, <2>2, <2>3, <2>4, GotoKeeps
<1>. QED  BY <1>3, <1>4, <1>5, <1>6 DEF VerifyUser

(* The token is saved, or could not be, and the handler goes on.             *)
LEMMA SaveTokenKeeps ==
  ASSUME IInv, NEW c \in Callers, SaveToken(c), UNCHANGED <<clientVars, main>>
  PROVE  IInv'
<1> DEFINE heap == handler[c].heap
<1>1. /\ handler[c].pc = "save" /\ handler[c].reply = NULL
      /\ \/ handler[c].req.route = "token" /\ heap \subseteq {"basic", "access", "refresh"}
         \/ handler[c].req.route = "login" /\ heap \subseteq {"access", "refresh"}
      /\ apps' = apps /\ users' = users /\ faults \in Nat /\ Shaped
      /\ opened \in [Callers -> BOOLEAN] /\ session \in BOOLEAN /\ TokensFit
      /\ \A x \in Callers : AccessFits(x)
  BY DEF IInv, Shaped, CallerFits, HandlerFits, SaveToken
<1>2. Moved(c, "answer", heap) /\ handler'[c].reply = NULL
  BY <1>1, GotoIs DEF SaveToken
<1>3. Grows
  <2>1. Faulty(0) \/ Faulty(1)
    BY DEF SaveToken
  <2>. QED  BY <1>1, <2>1 DEF Faulty, Grows
<1>4. HandlerFits(c)'
  BY <1>1, <1>2 DEF Moved, HandlerFits
<1>5. call[c].pc = "wait" => Verified(c)
  BY <1>1 DEF IInv, CallerFits, GrantFits
<1>6. \/ tokens' = tokens \cup {Demo} /\ opened' = [x \in Callers |-> TRUE] /\ session' = TRUE
      \/ tokens' = tokens /\ opened' = opened /\ session' = session
  BY DEF SaveToken
<1>7. opened' \in [Callers -> BOOLEAN] /\ session' \in BOOLEAN /\ TokensFit'
  BY <1>1, <1>6 DEF TokensFit
<1>8. ASSUME NEW x \in Callers
      PROVE  AccessFits(x)'
  <2>1. CASE opened' = [y \in Callers |-> TRUE]
    <3>1. opened'[x]
      BY <2>1
    <3>. QED  BY <3>1 DEF AccessFits
  <2>2. CASE tokens' = tokens /\ opened' = opened
    <3>1. CASE x = c
      BY <1>1, <1>2, <3>1 DEF AccessFits, Moved
    <3>2. CASE x # c
      <4>1. handler'[x] = handler[x]
        BY <1>2, <3>2 DEF Moved
      <4>. QED  BY <1>1, <2>2, <4>1 DEF AccessFits, Granting
    <3>. QED  BY <3>1, <3>2
  <2>. QED  BY <1>6, <2>1, <2>2
<1>. QED  BY <1>1, <1>2, <1>3, <1>4, <1>5, <1>7, <1>8, HandlerMoves

(* An answer that is meant, with all rows as they are.                       *)
LEMMA AnswerKeeps ==
  ASSUME IInv, NEW c \in Callers, handler[c].pc # "idle", Moved(c, "done", {}),
         faults' \in Nat, faults <= faults',
         call[c].pc = "wait" => Verified(c) /\ (faults' = faults => handler'[c].reply = Granted),
         handler[c].req.route = "secret" => opened[c],
         UNCHANGED <<clientVars, main>>, UNCHANGED <<rows, opened, session>>
  PROVE  IInv'
<1>1. Grows
  BY DEF Grows, rows
<1>2. HandlerFits(c)'
  BY DEF HandlerFits, Moved
<1>3. faults \in Nat
  BY DEF IInv, Shaped
<1>4. call[c].pc = "wait" => Verified(c) /\ (faults < faults' \/ handler'[c].reply = Granted)
  BY <1>3
<1>5. AccessFits(c)'
  BY DEF AccessFits, Moved, Granting
<1>6. UNCHANGED <<tokens, opened, session>>
  BY DEF rows
<1>. QED  BY <1>1, <1>2, <1>4, <1>5, <1>6, QuietMoves

LEMMA AnswerTokenKeeps ==
  ASSUME IInv, NEW c \in Callers, AnswerToken(c), UNCHANGED <<clientVars, main>>
  PROVE  IInv'
<1> DEFINE freed == {"basic", "access", "refresh"}
<1>1. /\ handler[c].pc = "answer" /\ handler[c].req.route = "token" /\ handler[c].heap \ freed = {}
      /\ UNCHANGED <<rows, opened, session>> /\ Shaped /\ faults \in Nat
  BY DEF IInv, Shaped, CallerFits, HandlerFits, AnswerToken, At
<1>2. call[c].pc = "wait" => Verified(c)
  BY <1>1 DEF IInv, CallerFits, GrantFits
<1>3. PICK status, n : status = 200 /\ n = 0
  OBVIOUS
<1>4. Finish(c, status, <<Demo>>, freed, FALSE, n)
  BY <1>3, Zenon DEF AnswerToken
<1>5. n \in Nat
  BY <1>3
<1> HIDE DEF freed
<1>6. /\ Moved(c, "done", handler[c].heap \ freed)
      /\ faults' \in Nat /\ faults + n <= faults'
      /\ faults' = faults + n => handler'[c].reply = [status |-> status, body |-> <<Demo>>]
  BY <1>1, <1>4, <1>5, FinishIs
<1>7. Moved(c, "done", {})
  BY <1>1, <1>6
<1>8. faults' \in Nat /\ faults <= faults' /\ (faults' = faults => handler'[c].reply = Granted)
  BY <1>1, <1>3, <1>6 DEF Granted
<1>. QED  BY <1>1, <1>2, <1>7, <1>8, AnswerKeeps

LEMMA AnswerLoginKeeps ==
  ASSUME IInv, NEW c \in Callers, AnswerLogin(c), UNCHANGED <<clientVars, main>>
  PROVE  IInv'
<1> DEFINE freed == {"access", "refresh"}
<1>1. /\ handler[c].pc = "answer" /\ handler[c].req.route = "login" /\ handler[c].heap \ freed = {}
      /\ UNCHANGED <<rows, opened, session>> /\ Shaped /\ faults \in Nat
  BY DEF IInv, Shaped, CallerFits, HandlerFits, AnswerLogin, At
<1>2. call[c].pc # "wait"
  BY <1>1, GrantIs
<1>3. PICK status, n : status = 200 /\ n = 0
  OBVIOUS
<1>4. Finish(c, status, <<Demo>>, freed, FALSE, n)
  BY <1>3, Zenon DEF AnswerLogin
<1>5. n \in Nat
  BY <1>3
<1> HIDE DEF freed
<1>6. Moved(c, "done", handler[c].heap \ freed) /\ faults' \in Nat /\ faults + n <= faults'
  BY <1>1, <1>4, <1>5, FinishIs
<1>7. Moved(c, "done", {}) /\ faults' \in Nat /\ faults <= faults'
  BY <1>1, <1>3, <1>6
<1>. QED  BY <1>1, <1>2, <1>7, AnswerKeeps


(* oauth2_logout_handler and oauth2_secret_handler.                          *)
LEMMA BearerStartKeeps ==
  ASSUME IInv, NEW c \in Callers, BearerStart(c), UNCHANGED <<clientVars, main>>
  PROVE  IInv'
<1>1. /\ handler[c].pc = "start" /\ handler[c].req.route \in {"logout", "secret"} /\ handler[c].heap = {}
      /\ UNCHANGED <<rows, opened, session>> /\ faults \in Nat /\ AccessFits(c)
  BY DEF IInv, Shaped, CallerFits, HandlerFits, BearerStart, At
<1>2. call[c].pc # "wait"
  BY <1>1, GrantIs
<1>3. PICK status : status = 401
  OBVIOUS
<1>4. status # 200
  BY <1>3
<1>5. \A n : Finish(c, 401, <<"unauthorized">>, {}, FALSE, n) => Finish(c, status, <<"unauthorized">>, {}, FALSE, n)
  BY <1>3, Zenon
<1>6. \A n : n \in Nat /\ Finish(c, status, <<"unauthorized">>, {}, FALSE, n) => IInv'
  BY <1>1, <1>2, <1>4, FinishKeeps
<1>7. ASSUME NEW pc, pc = IF handler[c].req.route = "logout" THEN "revoke" ELSE "lookup",
             Goto(c, pc, {"bearer"}), Faulty(0)
      PROVE  IInv'
  <2>1. Grows
    BY <1>1, <1>7, FaultyIs DEF Grows, rows
  <2>2. Moved(c, pc, {"bearer"}) /\ handler'[c].reply = NULL => HandlerFits(c)'
    BY <1>1, <1>7 DEF Moved, HandlerFits
  <2>3. UNCHANGED <<tokens, opened, session>>
    BY <1>1 DEF rows
  <2>4. pc = "lookup" => opened[c] \/ Demo \notin tokens
    BY <1>1, <1>7 DEF AccessFits
  <2>5. pc \in {"revoke", "lookup"}
    BY <1>7
  <2>. QED  BY <1>1, <1>2, <1>7, <2>1, <2>2, <2>3, <2>4, <2>5, GotoKeeps
<1>8. 0 \in Nat /\ 1 \in Nat
  OBVIOUS
<1>9. \/ Finish(c, 401, <<"unauthorized">>, {}, FALSE, 0) \/ Finish(c, 401, <<"unauthorized">>, {}, FALSE, 1)
      \/ \E pc : /\ pc = IF handler[c].req.route = "logout" THEN "revoke" ELSE "lookup"
                 /\ Goto(c, pc, {"bearer"}) /\ Faulty(0)
  BY Zenon DEF BearerStart
<1>10. CASE Finish(c, 401, <<"unauthorized">>, {}, FALSE, 0)
  BY <1>5, <1>6, <1>8, <1>10, Zenon
<1>11. CASE Finish(c, 401, <<"unauthorized">>, {}, FALSE, 1)
  BY <1>5, <1>6, <1>8, <1>11, Zenon
<1>. QED  BY <1>7, <1>9, <1>10, <1>11, Zenon

LEMMA RevokeKeeps ==
  ASSUME IInv, NEW c \in Callers, Revoke(c), UNCHANGED <<clientVars, main>>
  PROVE  IInv'
<1>1. /\ handler[c].pc = "revoke" /\ handler[c].req.route = "logout" /\ handler[c].heap \ {"bearer"} = {}
      /\ handler[c].reply = NULL
      /\ apps' = apps /\ users' = users /\ session' = session /\ faults \in Nat /\ Shaped
      /\ opened \in [Callers -> BOOLEAN] /\ session \in BOOLEAN /\ TokensFit
      /\ \A x \in Callers : AccessFits(x)
  BY DEF IInv, Shaped, CallerFits, HandlerFits, Revoke
<1>2. call[c].pc # "wait"
  BY <1>1, GrantIs
<1>3. Moved(c, "answer", {}) /\ handler'[c].reply = NULL
  BY <1>1, GotoIs DEF Revoke
<1>4. Grows
  <2>1. Faulty(0) \/ Faulty(1)
    BY DEF Revoke
  <2>. QED  BY <1>1, <2>1 DEF Faulty, Grows
<1>5. HandlerFits(c)'
  BY <1>1, <1>3 DEF Moved, HandlerFits
<1>6. /\ tokens' \subseteq tokens /\ opened' \in [Callers -> BOOLEAN]
      /\ \A x \in Callers : x # c => opened'[x] = opened[x]
      /\ Demo \in tokens' => opened'[c]
  <2>1. CASE /\ tokens' = tokens \ {handler[c].req.bearer}
             /\ opened' = [opened EXCEPT ![c] = handler[c].req.bearer # Demo]
    BY <1>1, <2>1
  <2>2. CASE opened' = [opened EXCEPT ![c] = TRUE] /\ tokens' = tokens
    BY <1>1, <2>2
  <2>. QED  BY <2>1, <2>2 DEF Revoke
<1>7. TokensFit'
  BY <1>1, <1>6 DEF TokensFit
<1>8. ASSUME NEW x \in Callers
      PROVE  AccessFits(x)'
  <2>1. CASE x = c
    BY <1>1, <1>3, <1>6, <2>1 DEF AccessFits, Moved
  <2>2. CASE x # c
    <3>1. handler'[x] = handler[x] /\ opened'[x] = opened[x] /\ (Demo \in tokens' => Demo \in tokens)
      BY <1>3, <1>6, <2>2 DEF Moved
    <3>. QED  BY <1>1, <3>1 DEF AccessFits, Granting
  <2>. QED  BY <2>1, <2>2
<1>. QED  BY <1>1, <1>2, <1>3, <1>4, <1>5, <1>6, <1>7, <1>8, HandlerMoves

LEMMA AnswerLogoutKeeps ==
  ASSUME IInv, NEW c \in Callers, AnswerLogout(c), UNCHANGED <<clientVars, main>>
  PROVE  IInv'
<1>1. /\ handler[c].pc = "answer" /\ handler[c].req.route = "logout" /\ handler[c].heap \ {} = {}
      /\ UNCHANGED <<rows, opened>> /\ session' = (session /\ opened[c]) /\ faults \in Nat /\ Shaped
      /\ opened \in [Callers -> BOOLEAN] /\ session \in BOOLEAN /\ TokensFit
      /\ \A x \in Callers : AccessFits(x)
  BY DEF IInv, Shaped, CallerFits, HandlerFits, AnswerLogout, At
<1>2. call[c].pc # "wait"
  BY <1>1, GrantIs
<1>3. PICK status, text, n, freed : status = 200 /\ text = "bye" /\ n = 0 /\ freed = {}
  OBVIOUS
<1>4. Finish(c, status, <<text>>, freed, FALSE, n)
  BY <1>3, Zenon DEF AnswerLogout
<1>5. Shaped /\ n \in Nat
  BY <1>1, <1>3
<1>6. Moved(c, "done", handler[c].heap \ freed) /\ faults' \in Nat /\ faults + n <= faults'
  BY <1>4, <1>5, FinishIs
<1>7. Moved(c, "done", {}) /\ Grows
  BY <1>1, <1>3, <1>6 DEF Grows, rows
<1>8. HandlerFits(c)'
  BY <1>7 DEF Moved, HandlerFits
<1>9. opened' \in [Callers -> BOOLEAN] /\ session' \in BOOLEAN /\ tokens' = tokens /\ opened' = opened
  BY <1>1 DEF rows
<1>10. TokensFit'
  <2>1. Demo \in tokens => session /\ opened[c]
    BY <1>1 DEF TokensFit, AccessFits
  <2>. QED  BY <1>1, <1>9, <2>1 DEF TokensFit
<1>11. ASSUME NEW x \in Callers
       PROVE  AccessFits(x)'
  <2>1. CASE x = c
    BY <1>1, <1>7, <2>1 DEF AccessFits, Moved
  <2>2. CASE x # c
    <3>1. handler'[x] = handler[x]
      BY <1>7, <2>2 DEF Moved
    <3>. QED  BY <1>1, <1>9, <3>1 DEF AccessFits, Granting
  <2>. QED  BY <2>1, <2>2
<1>. QED  BY <1>1, <1>2, <1>7, <1>8, <1>9, <1>10, <1>11, HandlerMoves

LEMMA LookupKeeps ==
  ASSUME IInv, NEW c \in Callers, Lookup(c), UNCHANGED <<clientVars, main>>
  PROVE  IInv'
<1> DEFINE live == handler[c].req.bearer \in tokens
<1>1. /\ handler[c].pc = "lookup" /\ handler[c].req.route = "secret" /\ handler[c].heap \subseteq {"bearer"}
      /\ UNCHANGED <<rows, opened, session>> /\ faults \in Nat /\ AccessFits(c) /\ TokensFit
  BY DEF IInv, Shaped, CallerFits, HandlerFits, Lookup
<1>2. call[c].pc # "wait"
  BY <1>1, GrantIs
<1>3. ASSUME NEW k \in {0, 1}, Finish(c, 401, <<"unauthorized">>, {"bearer"}, FALSE, k)
      PROVE  IInv'
  <2>1. PICK status, n : status = 401 /\ n = k
    OBVIOUS
  <2>2. Finish(c, status, <<"unauthorized">>, {"bearer"}, FALSE, n)
    BY <1>3, <2>1, Zenon
  <2>3. status # 200 /\ n \in Nat
    BY <2>1
  <2>. QED  BY <1>1, <1>2, <2>2, <2>3, FinishKeeps
<1>4. ASSUME Goto(c, "answer", {"bearer", "row"}), Faulty(0), live
      PROVE  IInv'
  <2>1. Grows
    BY <1>1, <1>4, FaultyIs DEF Grows, rows
  <2>2. Moved(c, "answer", {"bearer", "row"}) /\ handler'[c].reply = NULL => HandlerFits(c)'
    BY <1>1 DEF Moved, HandlerFits
  <2>3. UNCHANGED <<tokens, opened, session>>
    BY <1>1 DEF rows
  <2>4. opened[c]
    BY <1>1, <1>4 DEF AccessFits, TokensFit
  <2>. QED  BY <1>1, <1>2, <1>4, <2>1, <2>2, <2>3, <2>4, GotoKeeps
<1>5. 0 \in {0, 1} /\ 1 \in {0, 1}
  OBVIOUS
<1>. QED  BY <1>3, <1>4, <1>5, Zenon DEF Lookup

LEMMA AnswerSecretKeeps ==
  ASSUME IInv, NEW c \in Callers, AnswerSecret(c), UNCHANGED <<clientVars, main>>
  PROVE  IInv'
<1> DEFINE freed == {"bearer", "row"}
<1>1. /\ handler[c].pc = "answer" /\ handler[c].req.route = "secret" /\ handler[c].heap \ freed = {}
      /\ UNCHANGED <<rows, opened, session>> /\ Shaped /\ faults \in Nat
  BY DEF IInv, Shaped, CallerFits, HandlerFits, AnswerSecret, At
<1>2. call[c].pc # "wait" /\ opened[c]
  BY <1>1, GrantIs DEF IInv, AccessFits
<1>3. PICK status, n : status = 200 /\ n = 0
  OBVIOUS
<1>4. Finish(c, status, <<"secret">>, freed, FALSE, n)
  BY <1>3, Zenon DEF AnswerSecret
<1>5. n \in Nat
  BY <1>3
<1> HIDE DEF freed
<1>6. Moved(c, "done", handler[c].heap \ freed) /\ faults' \in Nat /\ faults + n <= faults'
  BY <1>1, <1>4, <1>5, FinishIs
<1>7. Moved(c, "done", {}) /\ faults' \in Nat /\ faults <= faults'
  BY <1>1, <1>3, <1>6
<1>. QED  BY <1>1, <1>2, <1>7, AnswerKeeps

(* oauth2_register_client_handler                                            *)
LEMMA RegisterClientKeeps ==
  ASSUME IInv, NEW c \in Callers, RegisterClient(c), UNCHANGED <<clientVars, main>>
  PROVE  IInv'
<1> DEFINE taken == Named(apps, App(c))
           given == Both(c, "client_id", "client_secret")
<1>1. /\ handler[c].req.route = "clients" /\ handler[c].pc \in {"start", "insert", "answer"}
      /\ handler[c].pc = "start" => handler[c].heap = {}
      /\ handler[c].pc = "insert" => handler[c].heap \subseteq {"query"}
      /\ handler[c].pc = "answer" => handler[c].heap = {}
      /\ UNCHANGED <<users, tokens, opened, session>> /\ faults \in Nat
  BY DEF IInv, Shaped, CallerFits, HandlerFits, RegisterClient, At
<1>2. call[c].pc # "wait"
  BY <1>1, GrantIs
<1>3. apps' = apps => UNCHANGED <<rows, opened, session>>
  BY <1>1 DEF rows
<1>4. CASE handler[c].pc = "start" /\ Prepare(c, given) /\ apps' = apps
  <2>1. \A error, n : n \in Nat /\ RefuseAndIgnore(c, error, n) => IInv'
    BY <1>1, <1>2, <1>3, <1>4, RefuseKeeps
  <2>2. ASSUME Goto(c, "insert", {"query"}), Faulty(0)
        PROVE  IInv'
    <3>1. Grows
      BY <1>1, <1>3, <1>4, <2>2, FaultyIs DEF Grows, rows
    <3>2. Moved(c, "insert", {"query"}) /\ handler'[c].reply = NULL => HandlerFits(c)'
      BY <1>1 DEF Moved, HandlerFits
    <3>. QED  BY <1>1, <1>2, <1>4, <2>2, <3>1, <3>2, GotoKeeps
  <2>. QED  BY <1>4, <2>1, <2>2 DEF Prepare
<1>5. CASE handler[c].pc = "insert" /\ NotInserted(c, taken) /\ apps' = apps
  <2>1. PICK n \in 0 .. 1 : Finish(c, 400, <<"server_error">>, {"query"}, TRUE, n)
    <3>1. NotInserted(c, taken)
      BY <1>5
    <3> HIDE DEF taken
    <3>. QED  BY <3>1, Zenon DEF NotInserted
  <2>2. PICK status : status = 400
    OBVIOUS
  <2>3. Finish(c, status, <<"server_error">>, {"query"}, TRUE, n)
    BY <2>1, <2>2, Zenon
  <2>4. status # 200 /\ n \in Nat
    BY <2>1, <2>2
  <2>. QED  BY <1>1, <1>2, <1>3, <1>5, <2>3, <2>4, FinishKeeps
<1>6. CASE handler[c].pc = "insert" /\ Inserted(c, taken) /\ apps' = apps \cup {App(c)}
  <2>1. Goto(c, "answer", {}) /\ Faulty(0)
    BY <1>6 DEF Inserted
  <2>2. Grows
    BY <1>1, <1>6, <2>1, FaultyIs DEF Grows
  <2>3. Moved(c, "answer", {}) /\ handler'[c].reply = NULL => HandlerFits(c)'
    BY <1>1 DEF Moved, HandlerFits
  <2>. QED  BY <1>1, <1>2, <1>6, <2>1, <2>2, <2>3, GotoKeeps
<1>7. CASE handler[c].pc = "answer" /\ Finish(c, 201, <<"created">>, {}, FALSE, 0) /\ apps' = apps
  <2>1. PICK status, n : status = 201 /\ n = 0
    OBVIOUS
  <2>2. Finish(c, status, <<"created">>, {}, FALSE, n)
    BY <1>7, <2>1, Zenon
  <2>3. status # 200 /\ n \in Nat /\ handler[c].heap \subseteq {}
    BY <1>1, <1>7, <2>1
  <2>4. handler[c].pc = "answer" /\ apps' = apps
    BY <1>7
  <2>. QED  BY <1>2, <1>3, <2>2, <2>3, <2>4, FinishKeeps
<1>. QED  BY <1>4, <1>5, <1>6, <1>7, Zenon DEF RegisterClient, At

(* oauth2_register_user_handler                                              *)
LEMMA RegisterUserKeeps ==
  ASSUME IInv, NEW c \in Callers, RegisterUser(c), UNCHANGED <<clientVars, main>>
  PROVE  IInv'
<1> DEFINE taken == Named(users, User(c))
           given == Both(c, "username", "password")
<1>1. /\ handler[c].req.route = "users" /\ handler[c].pc \in {"start", "insert", "answer"}
      /\ handler[c].pc = "start" => handler[c].heap = {}
      /\ handler[c].pc = "insert" => handler[c].heap \subseteq {"query"}
      /\ handler[c].pc = "answer" => handler[c].heap = {}
      /\ UNCHANGED <<apps, tokens, opened, session>> /\ faults \in Nat
  BY DEF IInv, Shaped, CallerFits, HandlerFits, RegisterUser, At
<1>2. call[c].pc # "wait"
  BY <1>1, GrantIs
<1>3. users' = users => UNCHANGED <<rows, opened, session>>
  BY <1>1 DEF rows
<1>4. CASE handler[c].pc = "start" /\ Prepare(c, given) /\ users' = users
  <2>1. \A error, n : n \in Nat /\ RefuseAndIgnore(c, error, n) => IInv'
    BY <1>1, <1>2, <1>3, <1>4, RefuseKeeps
  <2>2. ASSUME Goto(c, "insert", {"query"}), Faulty(0)
        PROVE  IInv'
    <3>1. Grows
      BY <1>1, <1>3, <1>4, <2>2, FaultyIs DEF Grows, rows
    <3>2. Moved(c, "insert", {"query"}) /\ handler'[c].reply = NULL => HandlerFits(c)'
      BY <1>1 DEF Moved, HandlerFits
    <3>. QED  BY <1>1, <1>2, <1>4, <2>2, <3>1, <3>2, GotoKeeps
  <2>. QED  BY <1>4, <2>1, <2>2 DEF Prepare
<1>5. CASE handler[c].pc = "insert" /\ NotInserted(c, taken) /\ users' = users
  <2>1. PICK n \in 0 .. 1 : Finish(c, 400, <<"server_error">>, {"query"}, TRUE, n)
    <3>1. NotInserted(c, taken)
      BY <1>5
    <3> HIDE DEF taken
    <3>. QED  BY <3>1, Zenon DEF NotInserted
  <2>2. PICK status : status = 400
    OBVIOUS
  <2>3. Finish(c, status, <<"server_error">>, {"query"}, TRUE, n)
    BY <2>1, <2>2, Zenon
  <2>4. status # 200 /\ n \in Nat
    BY <2>1, <2>2
  <2>. QED  BY <1>1, <1>2, <1>3, <1>5, <2>3, <2>4, FinishKeeps
<1>6. CASE handler[c].pc = "insert" /\ Inserted(c, taken) /\ users' = users \cup {User(c)}
  <2>1. Goto(c, "answer", {}) /\ Faulty(0)
    BY <1>6 DEF Inserted
  <2>2. Grows
    BY <1>1, <1>6, <2>1, FaultyIs DEF Grows
  <2>3. Moved(c, "answer", {}) /\ handler'[c].reply = NULL => HandlerFits(c)'
    BY <1>1 DEF Moved, HandlerFits
  <2>. QED  BY <1>1, <1>2, <1>6, <2>1, <2>2, <2>3, GotoKeeps
<1>7. CASE handler[c].pc = "answer" /\ Finish(c, 201, <<"created">>, {}, FALSE, 0) /\ users' = users
  <2>1. PICK status, n : status = 201 /\ n = 0
    OBVIOUS
  <2>2. Finish(c, status, <<"created">>, {}, FALSE, n)
    BY <1>7, <2>1, Zenon
  <2>3. status # 200 /\ n \in Nat /\ handler[c].heap \subseteq {}
    BY <1>1, <1>7, <2>1
  <2>4. handler[c].pc = "answer" /\ users' = users
    BY <1>7
  <2>. QED  BY <1>2, <1>3, <2>2, <2>3, <2>4, FinishKeeps
<1>. QED  BY <1>4, <1>5, <1>6, <1>7, Zenon DEF RegisterUser, At

LEMMA ServerKeeps ==
  ASSUME IInv, NEW c \in Callers, ServerStep(c), UNCHANGED <<clientVars, main>>
  PROVE  IInv'
<1>. QED  BY TokenStartKeeps, TokenClientKeeps, LoginStartKeeps, VerifyUserKeeps, SaveTokenKeeps,
             AnswerTokenKeeps, AnswerLoginKeeps, BearerStartKeeps, RevokeKeeps, AnswerLogoutKeeps, LookupKeeps,
             AnswerSecretKeeps, RegisterClientKeeps, RegisterUserKeeps DEF ServerStep

-----------------------------------------------------------------------------
(* The steps of a caller.                                                    *)
LEMMA CallerMoves ==
  ASSUME IInv, NEW c \in Callers, Shaped', main' = main, Grows, UNCHANGED <<tokens, session>>,
         \A x \in Callers \ {c} : Untouched(x) /\ opened'[x] = opened[x],
         CallerFits(c)', AccessFits(c)'
  PROVE  IInv'
<1>1. MainFits' /\ MainGoesOn
  BY DEF IInv, MainFits, MainAt, MainGoesOn, HasServed
<1>2. TokensFit'
  BY DEF IInv, TokensFit
<1>3. ASSUME NEW x \in Callers, x # c
      PROVE  CallerFits(x)' /\ AccessFits(x)'
  <2>1. Shaped /\ CallerFits(x) /\ AccessFits(x) /\ Untouched(x) /\ opened'[x] = opened[x]
    BY <1>3 DEF IInv
  <2>2. CallerFits(x)'
    BY <1>1, <2>1, CallerStays
  <2>3. AccessFits(x)'
    BY <2>1 DEF AccessFits, Granting, Untouched
  <2>. QED  BY <2>2, <2>3
<1>. QED  BY <1>1, <1>2, <1>3 DEF IInv

(* What a call of the library does to the call alone.                        *)
Called(c) ==
  DOMAIN call' = Callers /\ (\A x \in Callers \ {c} : call'[x] = call[x]) /\ IsCall(call'[c])

LEMMA LibraryMoves ==
  ASSUME IInv, NEW c \in Callers, UNCHANGED <<rows, handler, opened, session, main>>,
         Called(c), Grows,
         lib' \in [Callers -> AppAccounts \cup {NULL}], DOMAIN orphans' = Callers,
         \A x \in Callers \ {c} : lib'[x] = lib[x] /\ orphans'[x] = orphans[x],
         CallFits(c)', GrantFits(c)', ServeFits(c)'
  PROVE  IInv'
<1>1. /\ handler' = handler /\ opened' = opened /\ session' = session /\ tokens' = tokens /\ main' = main
      /\ Shaped /\ HandlerFits(c) /\ AccessFits(c)
  BY DEF IInv, CallerFits, rows
<1>2. Shaped'
  <2>1. \A x \in Callers : IsCall(call'[x])
    BY <1>1 DEF Called, Shaped
  <2>. QED  BY <1>1, <2>1 DEF Shaped, Called, Grows
<1>3. HandlerFits(c)' /\ AccessFits(c)'
  BY <1>1 DEF HandlerFits, AccessFits, Granting
<1>4. CallerFits(c)'
  BY <1>3 DEF CallerFits
<1>5. \A x \in Callers \ {c} : Untouched(x) /\ opened'[x] = opened[x]
  BY <1>1 DEF Untouched, Called
<1>. QED  BY <1>1, <1>2, <1>3, <1>4, <1>5, CallerMoves

(* The library's string and HTTP client come and go between the calls.       *)
LEMMA BetweenCalls ==
  ASSUME IInv, NEW c \in Callers, UNCHANGED <<rows, handler, opened, session, main>>,
         call[c].pc = "idle", call' = call, Grows,
         lib' \in [Callers -> AppAccounts \cup {NULL}], DOMAIN orphans' = Callers,
         \A x \in Callers \ {c} : lib'[x] = lib[x] /\ orphans'[x] = orphans[x],
         orphans'[c] = orphans[c] \/ faults < faults', ~call[c].sure
  PROVE  IInv'
<1>1. /\ Shaped /\ CallFits(c) /\ faults \in Nat /\ faults' \in Nat /\ faults <= faults' /\ call[c].since \in Nat
      /\ call'[c] = call[c]
  BY DEF IInv, Shaped, CallerFits, IsCall, Grows
<1>2. Called(c)
  BY <1>1 DEF Shaped, Called
<1>3. CallFits(c)'
  BY <1>1 DEF CallFits, CallHolds
<1>4. GrantFits(c)' /\ ServeFits(c)'
  BY <1>1 DEF GrantFits, ServeFits
<1>. QED  BY <1>2, <1>3, <1>4, LibraryMoves

(* oauth2_client_init and oauth2_client_cleanup                              *)
LEMMA InitLibraryKeeps ==
  ASSUME IInv, NEW c \in Callers, NEW app \in AppAccounts, InitLibrary(c, app),
         UNCHANGED <<rows, handler, opened, session, main>>
  PROVE  IInv'
<1>1. /\ call[c].pc = "idle" /\ ~call[c].sure /\ call' = call /\ faults \in Nat
      /\ lib \in [Callers -> AppAccounts \cup {NULL}] /\ DOMAIN orphans = Callers
  BY DEF IInv, Shaped, CallerFits, CallFits, InitLibrary
<1>2. CASE Faulty(0) /\ lib' = [lib EXCEPT ![c] = app] /\ UNCHANGED orphans
  <2>1. Grows
    BY <1>1, <1>2, FaultyIs DEF Grows, rows
  <2>. QED  BY <1>1, <1>2, <2>1, BetweenCalls
<1>3. ASSUME NEW left, Faulty(1), orphans' = [orphans EXCEPT ![c] = @ \cup left], UNCHANGED lib
      PROVE  IInv'
  <2>1. Grows /\ faults < faults'
    BY <1>1, <1>3, FaultyIs DEF Grows, rows
  <2>. QED  BY <1>1, <1>3, <2>1, BetweenCalls
<1>. QED  BY <1>2, <1>3 DEF InitLibrary

LEMMA CleanUpLibraryKeeps ==
  ASSUME IInv, NEW c \in Callers, CleanUpLibrary(c), UNCHANGED <<rows, handler, opened, session, main>>
  PROVE  IInv'
<1>1. /\ call[c].pc = "idle" /\ ~call[c].sure /\ call' = call /\ faults \in Nat
      /\ lib \in [Callers -> AppAccounts \cup {NULL}] /\ DOMAIN orphans = Callers
      /\ lib' = [lib EXCEPT ![c] = NULL]
  BY DEF IInv, Shaped, CallerFits, CallFits, CleanUpLibrary
<1>2. CASE Faulty(0) /\ UNCHANGED orphans
  <2>1. Grows
    BY <1>1, <1>2, FaultyIs DEF Grows, rows
  <2>. QED  BY <1>1, <1>2, <2>1, BetweenCalls
<1>3. ASSUME NEW left, Faulty(1), orphans' = [orphans EXCEPT ![c] = @ \cup left]
      PROVE  IInv'
  <2>1. Grows /\ faults < faults'
    BY <1>1, <1>3, FaultyIs DEF Grows, rows
  <2>. QED  BY <1>1, <1>3, <2>1, BetweenCalls
<1>. QED  BY <1>2, <1>3 DEF CleanUpLibrary

(* What a step of a call leaves of the call.                                 *)
LEMMA StepIs ==
  ASSUME Shaped, NEW c \in Callers, NEW pc, NEW heap, Step(c, pc, heap)
  PROVE  /\ Called(c) /\ call'[c].pc = pc /\ call'[c].heap = heap
         /\ call'[c].user = call[c].user /\ call'[c].answer = call[c].answer /\ call'[c].rc = call[c].rc
         /\ call'[c].sure = call[c].sure /\ call'[c].since = call[c].since
<1>1. DOMAIN call = Callers /\ IsCall(call[c])
  BY DEF Shaped
<1>2. PICK k : k = call[c]
  OBVIOUS
<1>3. DOMAIN k = {"pc", "heap", "user", "answer", "rc", "sure", "since"}
  BY <1>1, <1>2 DEF IsCall
<1>4. DOMAIN call' = Callers /\ \A x \in Callers \ {c} : call'[x] = call[x]
  BY <1>1 DEF Step
<1>5. /\ call'[c].pc = pc /\ call'[c].heap = heap
      /\ call'[c].user = k.user /\ call'[c].answer = k.answer /\ call'[c].rc = k.rc
      /\ call'[c].sure = k.sure /\ call'[c].since = k.since
  BY <1>1, <1>2, <1>3 DEF Step
<1>6. DOMAIN call'[c] = {"pc", "heap", "user", "answer", "rc", "sure", "since"}
  BY <1>1, <1>2, <1>3 DEF Step
<1>. QED  BY <1>1, <1>2, <1>4, <1>5, <1>6 DEF Called, IsCall

LEMMA ReturnIs ==
  ASSUME Shaped, NEW c \in Callers, NEW rc, NEW heap, Return(c, rc, heap)
  PROVE  /\ Called(c) /\ call'[c].pc = "returned" /\ call'[c].heap = heap /\ call'[c].rc = rc
         /\ call'[c].user = call[c].user
         /\ call'[c].sure = call[c].sure /\ call'[c].since = call[c].since
<1>1. DOMAIN call = Callers /\ IsCall(call[c])
  BY DEF Shaped
<1>2. PICK k : k = call[c]
  OBVIOUS
<1>3. DOMAIN k = {"pc", "heap", "user", "answer", "rc", "sure", "since"}
  BY <1>1, <1>2 DEF IsCall
<1>4. DOMAIN call' = Callers /\ \A x \in Callers \ {c} : call'[x] = call[x]
  BY <1>1 DEF Return
<1>5. /\ call'[c].pc = "returned" /\ call'[c].heap = heap /\ call'[c].rc = rc
      /\ call'[c].user = k.user /\ call'[c].answer = k.answer
      /\ call'[c].sure = k.sure /\ call'[c].since = k.since
  BY <1>1, <1>2, <1>3 DEF Return
<1>6. DOMAIN call'[c] = {"pc", "heap", "user", "answer", "rc", "sure", "since"}
  BY <1>1, <1>2, <1>3 DEF Return
<1>. QED  BY <1>1, <1>2, <1>4, <1>5, <1>6 DEF Called, IsCall

(* An answer is taken in.                                                    *)
Taken(c, pc, answer, heap) == call' = [call EXCEPT ![c].pc = pc, ![c].answer = answer, ![c].heap = heap]

LEMMA TakenIs ==
  ASSUME Shaped, NEW c \in Callers, NEW pc, NEW answer, IsReply(answer), NEW heap, Taken(c, pc, answer, heap)
  PROVE  /\ Called(c) /\ call'[c].pc = pc /\ call'[c].answer = answer /\ call'[c].heap = heap
         /\ call'[c].user = call[c].user
         /\ call'[c].sure = call[c].sure /\ call'[c].since = call[c].since
<1>1. DOMAIN call = Callers /\ IsCall(call[c])
  BY DEF Shaped
<1>2. PICK k : k = call[c]
  OBVIOUS
<1>3. DOMAIN k = {"pc", "heap", "user", "answer", "rc", "sure", "since"}
  BY <1>1, <1>2 DEF IsCall
<1>4. DOMAIN call' = Callers /\ \A x \in Callers \ {c} : call'[x] = call[x]
  BY <1>1 DEF Taken
<1>5. /\ call'[c].pc = pc /\ call'[c].answer = answer /\ call'[c].heap = heap
      /\ call'[c].user = k.user /\ call'[c].sure = k.sure /\ call'[c].since = k.since
  BY <1>1, <1>2, <1>3 DEF Taken
<1>6. DOMAIN call'[c] = {"pc", "heap", "user", "answer", "rc", "sure", "since"}
  BY <1>1, <1>2, <1>3 DEF Taken
<1>. QED  BY <1>1, <1>2, <1>4, <1>5, <1>6 DEF Called, IsCall

(* A call goes on while no request of it is with the server.                 *)
LEMMA CallGoesOn ==
  ASSUME IInv, NEW c \in Callers, call[c].pc \notin {"idle", "wait"},
         UNCHANGED <<rows, handler, opened, session, main, lib, orphans>>, Called(c), Grows,
         call'[c].user = call[c].user, call'[c].sure = call[c].sure, call'[c].since = call[c].since,
         call'[c].pc \notin {"idle", "wait"}, CallHolds(call'[c]),
         call'[c].pc = "copy" /\ Granting(call'[c].answer) => Verified(c),
         call'[c].pc = "read" /\ call'[c].answer.status = 200 => Verified(c),
         call'[c].pc = "returned" /\ call'[c].rc = "ok" => Verified(c),
         faults' = faults /\ call[c].sure /\ faults = call[c].since /\ Serving /\ ~Unrouted =>
           /\ call'[c].pc \in {"copy", "read"} => call'[c].answer = Granted
           /\ call'[c].pc = "returned" => call'[c].rc = "ok"
  PROVE  IInv'
<1>1. /\ Shaped /\ CallFits(c) /\ GrantFits(c) /\ ServeFits(c)
      /\ handler' = handler /\ main' = main /\ lib' = lib /\ orphans' = orphans /\ apps' = apps /\ users' = users
      /\ faults \in Nat /\ faults' \in Nat /\ faults <= faults' /\ call[c].since \in Nat /\ call[c].sure \in BOOLEAN
  BY DEF IInv, Shaped, CallerFits, IsCall, Grows, rows
<1>2. Verified(c)' = Verified(c)
  BY <1>1 DEF Verified
<1>3. CallFits(c)'
  BY <1>1 DEF CallFits, CallHolds, HasServed
<1>4. GrantFits(c)'
  BY <1>1, <1>2 DEF GrantFits, Granting
<1>5. ServeFits(c)'
  <2> SUFFICES ASSUME call[c].sure
               PROVE  ServeFits(c)'
    BY <1>1 DEF ServeFits
  <2>1. Verified(c)'
    BY <1>1, <1>2 DEF ServeFits
  <2>2. faults' = call[c].since => faults' = faults /\ faults = call[c].since
    BY <1>1 DEF CallFits
  <2>3. Serving' = Serving /\ Unrouted' = Unrouted
    BY <1>1 DEF Serving, Unrouted
  <2>. QED  BY <1>1, <2>1, <2>2, <2>3 DEF ServeFits, Granted
<1>6. /\ lib' \in [Callers -> AppAccounts \cup {NULL}] /\ DOMAIN orphans' = Callers
      /\ \A x \in Callers \ {c} : lib'[x] = lib[x] /\ orphans'[x] = orphans[x]
  BY <1>1 DEF Shaped
<1>7. UNCHANGED <<rows, handler, opened, session, main>>
  OBVIOUS
<1>. QED  BY <1>3, <1>4, <1>5, <1>6, <1>7, LibraryMoves

LEMMA PiecesAre == PiecesUpTo(Len(Pieces)) = AllPieces
<1>1. Len(Pieces) = 4 /\ Pieces[1] = "auth" /\ Pieces[2] = "body" /\ Pieces[3] = "headers" /\ Pieces[4] = "request"
  BY DEF Pieces
<1>2. \A j : j \in 1 .. 4 <=> j = 1 \/ j = 2 \/ j = 3 \/ j = 4
  OBVIOUS
<1>. QED  BY <1>1, <1>2 DEF PiecesUpTo, AllPieces

LEMMA PrepareRequestKeeps ==
  ASSUME IInv, NEW c \in Callers, PrepareRequest(c), UNCHANGED <<rows, handler, opened, session, main>>
  PROVE  IInv'
<1>1. Shaped /\ faults \in Nat /\ call[c].pc = "prepare"
  BY DEF IInv, Shaped, PrepareRequest
<1>2. UNCHANGED <<rows, handler, opened, session, main, lib, orphans>>
  BY DEF PrepareRequest
<1>3. CASE Faulty(0) /\ Step(c, "send", PiecesUpTo(Len(Pieces)))
  <2>1. Step(c, "send", AllPieces)
    BY <1>3, PiecesAre
  <2>2. /\ Called(c) /\ call'[c].pc = "send" /\ call'[c].heap = AllPieces
        /\ call'[c].user = call[c].user /\ call'[c].sure = call[c].sure /\ call'[c].since = call[c].since
    BY <1>1, <2>1, StepIs
  <2>3. Grows /\ CallHolds(call'[c])
    BY <1>1, <1>2, <1>3, <2>2, FaultyIs DEF Grows, rows, CallHolds
  <2>. QED  BY <1>1, <1>2, <2>2, <2>3, CallGoesOn
<1>4. ASSUME NEW lost \in SUBSET {"request"}, Faulty(1), Return(c, "error", lost)
      PROVE  IInv'
  <2>1. /\ Called(c) /\ call'[c].pc = "returned" /\ call'[c].heap = lost /\ call'[c].rc = "error"
        /\ call'[c].user = call[c].user /\ call'[c].sure = call[c].sure /\ call'[c].since = call[c].since
    BY <1>1, <1>4, ReturnIs
  <2>2. Grows /\ faults' # faults
    BY <1>1, <1>2, <1>4, FaultyIs DEF Grows, rows
  <2>3. CallHolds(call'[c])
    BY <2>1 DEF CallHolds
  <2>. QED  BY <1>1, <1>2, <2>1, <2>2, <2>3, CallGoesOn
<1>. QED  BY <1>3, <1>4 DEF PrepareRequest

LEMMA SendFailsKeeps ==
  ASSUME IInv, NEW c \in Callers, SendFails(c)
  PROVE  IInv'
<1>1. /\ Shaped /\ faults \in Nat /\ call[c].pc = "send" /\ call[c].heap = AllPieces
      /\ UNCHANGED <<rows, handler, opened, session, main, lib, orphans>>
  BY DEF IInv, Shaped, CallerFits, CallFits, CallHolds, SendFails
<1>2. PICK answer, heap : answer = NULL /\ heap = call[c].heap
  OBVIOUS
<1>3. Taken(c, "copy", answer, heap)
  BY <1>1, <1>2 DEF SendFails, Receive, Shaped, Taken
<1>4. IsReply(answer)
  BY <1>2 DEF IsReply
<1>5. /\ Called(c) /\ call'[c].pc = "copy" /\ call'[c].answer = NULL /\ call'[c].heap = AllPieces
      /\ call'[c].user = call[c].user /\ call'[c].sure = call[c].sure /\ call'[c].since = call[c].since
  <2>1. /\ Called(c) /\ call'[c].pc = "copy" /\ call'[c].answer = answer /\ call'[c].heap = heap
        /\ call'[c].user = call[c].user /\ call'[c].sure = call[c].sure /\ call'[c].since = call[c].since
    BY <1>1, <1>3, <1>4, TakenIs
  <2>. QED  BY <1>1, <1>2, <2>1
<1>6. Grows /\ (faults' = faults => ~Serving)
  BY <1>1 DEF SendFails, Faulty, Grows, rows
<1>7. CallHolds(call'[c]) /\ ~Granting(call'[c].answer)
  BY <1>5 DEF CallHolds, Granting
<1>. QED  BY <1>1, <1>5, <1>6, <1>7, CallGoesOn

(* The rest of c_rest_client_request_sync.                                   *)
LEMMA CopyAnswerKeeps ==
  ASSUME IInv, NEW c \in Callers, CopyAnswer(c), UNCHANGED <<rows, handler, opened, session, main>>
  PROVE  IInv'
<1> DEFINE rest == Held(c) \ {"response", "request", "headers", "body", "auth"}
           answer == call[c].answer
<1>1. /\ Shaped /\ faults \in Nat /\ call[c].pc = "copy" /\ rest = {} /\ IsReply(answer)
      /\ UNCHANGED <<rows, handler, opened, session, main, lib, orphans>>
  BY DEF IInv, Shaped, IsCall, CallerFits, CallFits, CallHolds, CopyAnswer, Held, AllPieces
<1>2. Granting(answer) => Verified(c)
  BY <1>1 DEF IInv, CallerFits, GrantFits
<1>3. call[c].sure /\ faults = call[c].since /\ Serving /\ ~Unrouted => answer = Granted
  BY <1>1 DEF IInv, CallerFits, ServeFits
<1>4. ASSUME NEW lost \in SUBSET {"request"}, Return(c, "error", rest \cup lost),
             faults' \in Nat, faults <= faults', faults' = faults => answer = NULL
      PROVE  IInv'
  <2>1. /\ Called(c) /\ call'[c].pc = "returned" /\ call'[c].heap = rest \cup lost /\ call'[c].rc = "error"
        /\ call'[c].user = call[c].user /\ call'[c].sure = call[c].sure /\ call'[c].since = call[c].since
    <3> HIDE DEF rest
    <3>. QED  BY <1>1, <1>4, ReturnIs
  <2>2. Grows
    BY <1>1, <1>4 DEF Grows, rows
  <2>3. CallHolds(call'[c])
    BY <1>1, <2>1 DEF CallHolds
  <2>4. faults' = faults => answer # Granted
    BY <1>4, NullAssumption DEF Granted
  <2> HIDE DEF rest, answer
  <2>. QED  BY <1>1, <1>3, <2>1, <2>2, <2>3, <2>4, CallGoesOn
<1>5. ASSUME NEW got, IsReply(got), got.status = answer.status, answer # NULL,
             call' = [call EXCEPT ![c].pc = "read", ![c].answer = got, ![c].heap = rest \cup {"copy"}],
             faults' \in Nat, faults <= faults', faults' = faults => got = answer
      PROVE  IInv'
  <2>1. PICK heap : heap = rest \cup {"copy"}
    OBVIOUS
  <2>2. Taken(c, "read", got, heap)
    BY <1>5, <2>1 DEF Taken
  <2>3. IsReply(got)
    BY <1>5
  <2>4. /\ Called(c) /\ call'[c].pc = "read" /\ call'[c].answer = got /\ call'[c].heap = heap
        /\ call'[c].user = call[c].user /\ call'[c].sure = call[c].sure /\ call'[c].since = call[c].since
    BY <1>1, <2>2, <2>3, TakenIs
  <2>5. Grows
    BY <1>1, <1>5 DEF Grows, rows
  <2>6. CallHolds(call'[c])
    BY <1>1, <2>1, <2>4 DEF CallHolds
  <2>7. got.status = 200 => Verified(c)
    BY <1>2, <1>5 DEF Granting
  <2>8. faults' = faults /\ call[c].sure /\ faults = call[c].since /\ Serving /\ ~Unrouted => got = Granted
    BY <1>3, <1>5
  <2>9. call[c].pc = "copy" /\ UNCHANGED <<rows, handler, opened, session, main, lib, orphans>>
    BY <1>1
  <2> HIDE DEF rest, answer
  <2>. QED  BY <2>4, <2>5, <2>6, <2>7, <2>8, <2>9, CallGoesOn
<1>6. CASE answer = NULL /\ Faulty(0) /\ Return(c, "error", rest)
  <2>1. PICK none \in SUBSET {"request"} : none = {}
    OBVIOUS
  <2>2. rest = rest \cup none
    BY <2>1
  <2>3. Return(c, "error", rest \cup none)
    BY <1>6, <2>2
  <2>. QED  BY <1>1, <1>4, <1>6, <2>3, FaultyIs
<1>7. ASSUME NEW lost \in SUBSET {"request"}, Faulty(1), Return(c, "error", rest \cup lost)
      PROVE  IInv'
  <2>1. faults' \in Nat /\ faults < faults'
    BY <1>1, <1>7, FaultyIs
  <2>. QED  BY <1>1, <1>4, <1>7, <2>1
<1>8. ASSUME answer # NULL,
             NEW got \in {answer, [answer EXCEPT !.body = <<>>]},
             Faulty(IF got = answer THEN 0 ELSE 1),
             call' = [call EXCEPT ![c].pc = "read", ![c].answer = got, ![c].heap = rest \cup {"copy"}]
      PROVE  IInv'
  <2>1. DOMAIN answer = {"status", "body"}
    BY <1>1, <1>8 DEF IsReply
  <2>2. IsReply(got) /\ got.status = answer.status
    <3> HIDE DEF answer
    <3>. QED  BY <1>8, <2>1 DEF IsReply
  <2>3. faults' \in Nat /\ faults <= faults' /\ (faults' = faults => got = answer)
    BY <1>1, <1>8 DEF Faulty
  <2>. QED  BY <1>5, <1>8, <2>2, <2>3
<1>. QED  BY <1>6, <1>7, <1>8 DEF CopyAnswer

(* The rest of the grant.                                                    *)
LEMMA ReadAnswerKeeps ==
  ASSUME IInv, NEW c \in Callers, ReadAnswer(c), UNCHANGED <<rows, handler, opened, session, main>>
  PROVE  IInv'
<1> DEFINE granted == call[c].answer.status = 200 /\ call[c].answer.body # <<>>
<1>1. /\ Shaped /\ faults \in Nat /\ call[c].pc = "read" /\ Held(c) \ {"copy"} = {}
      /\ UNCHANGED <<rows, handler, opened, session, main, lib, orphans>>
  BY DEF IInv, Shaped, CallerFits, CallFits, CallHolds, ReadAnswer, Held
<1>2. granted => Verified(c)
  BY <1>1 DEF IInv, CallerFits, GrantFits
<1>3. call[c].sure /\ faults = call[c].since /\ Serving /\ ~Unrouted => granted
  <2>1. call[c].sure /\ faults = call[c].since /\ Serving /\ ~Unrouted => call[c].answer = Granted
    BY <1>1 DEF IInv, CallerFits, ServeFits
  <2>2. Granted.status = 200 /\ Granted.body = <<Demo>>
    BY DEF Granted
  <2>3. <<Demo>> # <<>>
    OBVIOUS
  <2>. QED  BY <2>1, <2>2, <2>3
<1>4. ASSUME NEW rc \in {"ok", "error"}, NEW heap, heap = IF rc = "ok" THEN {"token"} ELSE {},
             Return(c, rc, heap), faults' \in Nat, faults <= faults',
             rc = "ok" => granted, faults' = faults /\ granted => rc = "ok"
      PROVE  IInv'
  <2>1. /\ Called(c) /\ call'[c].pc = "returned" /\ call'[c].heap = heap /\ call'[c].rc = rc
        /\ call'[c].user = call[c].user /\ call'[c].sure = call[c].sure /\ call'[c].since = call[c].since
    BY <1>1, <1>4, ReturnIs
  <2>2. Grows
    BY <1>1, <1>4 DEF Grows, rows
  <2>3. CallHolds(call'[c])
    BY <1>4, <2>1 DEF CallHolds
  <2> HIDE DEF granted
  <2>. QED  BY <1>1, <1>2, <1>3, <1>4, <2>1, <2>2, <2>3, CallGoesOn
<1>5. CASE ~granted /\ Faulty(0) /\ Return(c, "error", Held(c) \ {"copy"})
  <2>1. faults' \in Nat /\ faults <= faults'
    BY <1>1, <1>5, FaultyIs
  <2>2. Return(c, "error", {})
    BY <1>1, <1>5
  <2>. QED  BY <1>4, <1>5, <2>1, <2>2
<1>6. CASE granted /\ Faulty(1) /\ Return(c, "error", Held(c) \ {"copy"})
  <2> HIDE DEF granted
  <2>1. faults' \in Nat /\ faults < faults'
    BY <1>1, <1>6, FaultyIs
  <2>2. PICK heap : heap = Held(c) \ {"copy"}
    OBVIOUS
  <2>3. Return(c, "error", heap) /\ heap = {}
    BY <1>1, <1>6, <2>2
  <2>. QED  BY <1>1, <1>4, <1>6, <2>1, <2>3
<1>7. CASE granted /\ Faulty(0) /\ Return(c, "ok", (Held(c) \ {"copy"}) \cup {"token"})
  <2> HIDE DEF granted
  <2>1. faults' \in Nat /\ faults <= faults'
    BY <1>1, <1>7, FaultyIs
  <2>2. PICK heap : heap = (Held(c) \ {"copy"}) \cup {"token"}
    OBVIOUS
  <2>3. Return(c, "ok", heap) /\ heap = {"token"}
    BY <1>1, <1>7, <2>2
  <2>. QED  BY <1>4, <1>7, <2>1, <2>3
<1>. QED  BY <1>5, <1>6, <1>7 DEF ReadAnswer

(* A call begins, and is over.                                               *)
LEMMA NoCallIs == IsCall(NoCall) /\ NoCall.pc = "idle" /\ NoCall.heap = {} /\ ~NoCall.sure /\ NoCall.since = 0
<1>. QED  BY DEF NoCall, IsCall, IsReply

LEMMA TakeTokenKeeps ==
  ASSUME IInv, NEW c \in Callers, TakeToken(c), UNCHANGED <<rows, handler, opened, session, main>>
  PROVE  IInv'
<1>1. /\ Shaped /\ CallFits(c) /\ faults' = faults /\ faults \in Nat /\ call' = [call EXCEPT ![c] = NoCall]
      /\ lib' = lib /\ orphans' = orphans
  BY DEF IInv, Shaped, CallerFits, TakeToken
<1>2. PICK k : k = NoCall
  OBVIOUS
<1>3. IsCall(k) /\ k.pc = "idle" /\ k.heap = {} /\ ~k.sure /\ k.since = 0
  BY <1>2, NoCallIs
<1>4. call' = [call EXCEPT ![c] = k]
  BY <1>1, <1>2
<1>5. Called(c) /\ call'[c] = k
  BY <1>1, <1>3, <1>4 DEF Shaped, Called
<1>6. Grows
  BY <1>1 DEF Grows, rows
<1>7. CallFits(c)'
  BY <1>1, <1>3, <1>5 DEF CallFits, CallHolds
<1>8. GrantFits(c)' /\ ServeFits(c)'
  BY <1>3, <1>5 DEF GrantFits, ServeFits
<1>9. /\ lib' \in [Callers -> AppAccounts \cup {NULL}] /\ DOMAIN orphans' = Callers
      /\ \A x \in Callers \ {c} : lib'[x] = lib[x] /\ orphans'[x] = orphans[x]
  BY <1>1 DEF Shaped
<1>. QED  BY <1>5, <1>6, <1>7, <1>8, <1>9, LibraryMoves

LEMMA CallGrantKeeps ==
  ASSUME IInv, NEW c \in Callers, NEW user \in UserAccounts, CallGrant(c, user)
  PROVE  IInv'
<1>1. /\ Shaped /\ CallFits(c) /\ faults' = faults /\ faults \in Nat /\ Serving /\ handler[c].pc = "idle"
      /\ lib[c] \in AppAccounts
      /\ UNCHANGED <<rows, handler, opened, session, main, lib, orphans>>
  BY DEF IInv, Shaped, CallerFits, CallGrant, Grant, serverVars
<1>2. PICK sure \in BOOLEAN : sure = (lib[c] \in apps /\ user \in users)
  OBVIOUS
<1>3. call' = [call EXCEPT ![c] = [NoCall EXCEPT !.pc = "prepare", !.user = user, !.sure = sure, !.since = faults]]
  BY <1>2 DEF CallGrant, Grant
<1>4. PICK k : k = [NoCall EXCEPT !.pc = "prepare", !.user = user, !.sure = sure, !.since = faults]
  OBVIOUS
<1>5. IsCall(k) /\ k.pc = "prepare" /\ k.heap = {} /\ k.user = user /\ k.sure = sure /\ k.since = faults
  BY <1>1, <1>4 DEF NoCall, IsCall, IsReply
<1>6. Called(c) /\ call'[c] = k
  <2>1. call' = [call EXCEPT ![c] = k]
    BY <1>3, <1>4
  <2>. QED  BY <1>1, <1>5, <2>1 DEF Shaped, Called
<1>7. Grows
  BY <1>1 DEF Grows, rows
<1>8. CallFits(c)'
  BY <1>1, <1>5, <1>6 DEF CallFits, CallHolds, HasServed, Serving
<1>9. GrantFits(c)'
  BY <1>5, <1>6 DEF GrantFits
<1>10. ServeFits(c)'
  BY <1>1, <1>2, <1>5, <1>6 DEF ServeFits, Verified, rows
<1>11. /\ lib' \in [Callers -> AppAccounts \cup {NULL}] /\ DOMAIN orphans' = Callers
       /\ \A x \in Callers \ {c} : lib'[x] = lib[x] /\ orphans'[x] = orphans[x]
  BY <1>1 DEF Shaped
<1>. QED  BY <1>1, <1>6, <1>7, <1>8, <1>9, <1>10, <1>11, LibraryMoves

LEMMA ClientKeeps ==
  ASSUME IInv, NEW c \in Callers, ClientStep(c), UNCHANGED <<rows, handler, opened, session, main>>
  PROVE  IInv'
<1>. QED  BY PrepareRequestKeeps, CopyAnswerKeeps, ReadAnswerKeeps, TakeTokenKeeps, CleanUpLibraryKeeps DEF ClientStep

(* A request arrives: its handler holds nothing and has not answered, or     *)
(* there is none and the answer is no grant.                                 *)
LEMMA ArriveIs ==
  ASSUME IInv, NEW c \in Callers, NEW req, Arrive(c, req), UNCHANGED <<tokens, session>>
  PROVE  /\ DOMAIN handler' = Callers /\ (\A x \in Callers : IsHandler(handler'[x]))
         /\ opened' \in [Callers -> BOOLEAN]
         /\ \A x \in Callers \ {c} : handler'[x] = handler[x] /\ opened'[x] = opened[x]
         /\ handler'[c].req = req
         /\ handler'[c].pc = "start" \/ (handler'[c].pc = "done" /\ ~Granting(handler'[c].reply) /\ req.route \notin main.routes)
         /\ HandlerFits(c)' /\ AccessFits(c)'
<1> DEFINE served == [Resting EXCEPT !.pc = "start", !.req = req]
           lost == [Resting EXCEPT !.pc = "done", !.req = req, !.reply = [status |-> 404, body |-> <<>>]]
<1>1. Shaped /\ TokensFit
  BY DEF IInv
<1>2. PICK h : h = IF req.route \in main.routes THEN served ELSE lost
  OBVIOUS
<1>3. handler' = [handler EXCEPT ![c] = h] /\ opened' = [opened EXCEPT ![c] = session]
  BY <1>2 DEF Arrive
<1>4. /\ DOMAIN h = {"pc", "req", "heap", "reply"} /\ h.req = req /\ h.heap = {}
      /\ \/ h.pc = "start" /\ h.reply = NULL
         \/ h.pc = "done" /\ h.reply = [status |-> 404, body |-> <<>>] /\ req.route \notin main.routes
  <2>1. CASE req.route \in main.routes
    BY <1>2, <2>1 DEF Resting
  <2>2. CASE req.route \notin main.routes
    BY <1>2, <2>2 DEF Resting
  <2>. QED  BY <2>1, <2>2
<1>5. IsHandler(h) /\ (h.pc = "done" => ~Granting(h.reply))
  BY <1>4 DEF IsHandler, IsReply, Granting
<1>6. handler'[c] = h /\ opened'[c] = session
  BY <1>1, <1>3 DEF Shaped
<1>7. /\ DOMAIN handler' = Callers /\ opened' \in [Callers -> BOOLEAN]
      /\ \A x \in Callers \ {c} : handler'[x] = handler[x] /\ opened'[x] = opened[x]
  BY <1>1, <1>3 DEF Shaped
<1>8. \A x \in Callers : IsHandler(handler'[x])
  BY <1>1, <1>5, <1>6, <1>7 DEF Shaped
<1>9. HandlerFits(c)'
  BY <1>4, <1>6 DEF HandlerFits
<1>10. AccessFits(c)'
  BY <1>1, <1>4, <1>5, <1>6 DEF AccessFits, TokensFit, Granting
<1>. QED  BY <1>4, <1>5, <1>6, <1>7, <1>8, <1>9, <1>10

(* The answer is taken from the connection, and its handler is gone.         *)
LEMMA RestIs ==
  ASSUME Shaped, NEW c \in Callers, handler' = [handler EXCEPT ![c] = Resting]
  PROVE  /\ DOMAIN handler' = Callers /\ (\A x \in Callers : IsHandler(handler'[x]))
         /\ \A x \in Callers \ {c} : handler'[x] = handler[x]
         /\ handler'[c].pc = "idle"
         /\ HandlerFits(c)' /\ AccessFits(c)'
<1>1. handler'[c] = Resting /\ DOMAIN handler' = Callers /\ \A x \in Callers \ {c} : handler'[x] = handler[x]
  BY DEF Shaped
<1>2. Resting.pc = "idle" /\ Resting.heap = {} /\ Resting.reply = NULL /\ IsHandler(Resting)
  BY DEF Resting, IsHandler, IsReply
<1>3. \A x \in Callers : IsHandler(handler'[x])
  BY <1>1, <1>2 DEF Shaped
<1>4. HandlerFits(c)' /\ AccessFits(c)'
  BY <1>1, <1>2 DEF HandlerFits, AccessFits
<1>. QED  BY <1>1, <1>2, <1>3, <1>4

(* The library sends its request.                                            *)
LEMMA SendRequestKeeps ==
  ASSUME IInv, NEW c \in Callers, SendRequest(c)
  PROVE  IInv'
<1>1. /\ Shaped /\ CallFits(c) /\ ServeFits(c) /\ call[c].pc = "send" /\ faults' = faults /\ faults \in Nat
      /\ UNCHANGED <<rows, session, faults, lib, orphans, main>>
  BY DEF IInv, Shaped, CallerFits, SendRequest
<1>2. PICK req, heap : req = GrantRequest(c) /\ heap = Held(c)
  OBVIOUS
<1>3. Arrive(c, req) /\ Step(c, "wait", heap)
  BY <1>2 DEF SendRequest
<1>4. /\ Called(c) /\ call'[c].pc = "wait" /\ call'[c].heap = heap
      /\ call'[c].user = call[c].user /\ call'[c].sure = call[c].sure /\ call'[c].since = call[c].since
  BY <1>1, <1>3, StepIs
<1>5. UNCHANGED <<tokens, session>> /\ apps' = apps /\ users' = users /\ lib' = lib /\ main' = main /\ orphans' = orphans
  BY <1>1 DEF rows
<1>6. /\ DOMAIN handler' = Callers /\ (\A x \in Callers : IsHandler(handler'[x]))
      /\ opened' \in [Callers -> BOOLEAN]
      /\ \A x \in Callers \ {c} : handler'[x] = handler[x] /\ opened'[x] = opened[x]
      /\ handler'[c].req = req
      /\ handler'[c].pc = "start" \/ (handler'[c].pc = "done" /\ ~Granting(handler'[c].reply) /\ req.route \notin main.routes)
      /\ HandlerFits(c)' /\ AccessFits(c)'
  BY <1>3, <1>5, ArriveIs
<1>7. Grows
  BY <1>1, <1>5 DEF Grows
<1>8. Shaped'
  <2>1. \A x \in Callers : IsCall(call'[x])
    BY <1>1, <1>4 DEF Called, Shaped
  <2>. QED  BY <1>1, <1>4, <1>5, <1>6, <2>1 DEF Shaped, Called
<1>9. CallFits(c)'
  <2>1. call[c].heap = AllPieces
    BY <1>1 DEF CallFits, CallHolds
  <2>2. heap = AllPieces
    BY <1>2, <2>1 DEF Held
  <2>. QED  BY <1>1, <1>4, <1>5, <2>2 DEF CallFits, CallHolds, HasServed
<1>10. GrantRequest(c)' = req /\ req.route = "token"
  BY <1>2, <1>4, <1>5 DEF GrantRequest
<1>11. GrantFits(c)'
  BY <1>4, <1>6, <1>10 DEF GrantFits, Granting
<1>12. ServeFits(c)'
  <2>1. handler'[c].pc = "done" => Unrouted'
    BY <1>5, <1>6, <1>10 DEF Unrouted
  <2>2. Verified(c)' = Verified(c)
    BY <1>4, <1>5 DEF Verified
  <2>. QED  BY <1>1, <1>4, <2>1, <2>2 DEF ServeFits
<1>13. \A x \in Callers \ {c} : Untouched(x) /\ opened'[x] = opened[x]
  BY <1>4, <1>5, <1>6 DEF Untouched, Called
<1>14. CallerFits(c)'
  BY <1>6, <1>9, <1>11, <1>12 DEF CallerFits
<1>. QED  BY <1>5, <1>6, <1>7, <1>8, <1>13, <1>14, CallerMoves

(* Another request is made, and its answer looked at.                        *)
LEMMA IdleMoves ==
  ASSUME IInv, NEW c \in Callers, call[c].pc = "idle", UNCHANGED <<rows, session, faults, lib, call, orphans, main>>,
         DOMAIN handler' = Callers, \A x \in Callers : IsHandler(handler'[x]),
         opened' \in [Callers -> BOOLEAN],
         \A x \in Callers \ {c} : handler'[x] = handler[x] /\ opened'[x] = opened[x],
         HandlerFits(c)', AccessFits(c)'
  PROVE  IInv'
<1>1. /\ Shaped /\ CallFits(c) /\ faults' = faults /\ faults \in Nat /\ UNCHANGED <<tokens, session>>
      /\ apps' = apps /\ users' = users /\ lib' = lib /\ main' = main /\ orphans' = orphans /\ call' = call
  BY DEF IInv, Shaped, CallerFits, rows
<1>2. Grows /\ Shaped'
  BY <1>1 DEF Grows, Shaped
<1>3. CallFits(c)'
  BY <1>1 DEF CallFits, CallHolds
<1>4. GrantFits(c)' /\ ServeFits(c)'
  BY <1>1 DEF GrantFits, ServeFits, CallFits
<1>5. CallerFits(c)'
  BY <1>3, <1>4 DEF CallerFits
<1>6. \A x \in Callers \ {c} : Untouched(x) /\ opened'[x] = opened[x]
  BY <1>1 DEF Untouched
<1>. QED  BY <1>1, <1>2, <1>5, <1>6, CallerMoves

LEMMA AskKeeps ==
  ASSUME IInv, NEW c \in Callers, NEW req, Ask(c, req)
  PROVE  IInv'
<1>1. call[c].pc = "idle" /\ Arrive(c, req) /\ UNCHANGED <<rows, session, faults, lib, call, orphans, main>>
  BY DEF Ask, clientVars
<1>2. UNCHANGED <<tokens, session>>
  BY <1>1 DEF rows
<1>. QED  BY <1>1, <1>2, ArriveIs, IdleMoves

LEMMA HearKeeps ==
  ASSUME IInv, NEW c \in Callers, Hear(c)
  PROVE  IInv'
<1>1. /\ Shaped /\ call[c].pc = "idle" /\ handler' = [handler EXCEPT ![c] = Resting] /\ opened' = opened
      /\ UNCHANGED <<rows, session, faults, lib, call, orphans, main>>
  BY DEF IInv, Hear
<1>2. opened' \in [Callers -> BOOLEAN]
  BY <1>1 DEF Shaped
<1>3. /\ DOMAIN handler' = Callers /\ (\A x \in Callers : IsHandler(handler'[x]))
      /\ \A x \in Callers \ {c} : handler'[x] = handler[x] /\ opened'[x] = opened[x]
      /\ HandlerFits(c)' /\ AccessFits(c)'
  BY <1>1, RestIs
<1>. QED  BY <1>1, <1>2, <1>3, IdleMoves

(* The answer to the library arrives, or the connection fails.               *)
LEMMA AnswerArrivesKeeps ==
  ASSUME IInv, NEW c \in Callers, AnswerArrives(c)
  PROVE  IInv'
<1>1. /\ Shaped /\ CallFits(c) /\ GrantFits(c) /\ ServeFits(c) /\ call[c].pc = "wait" /\ handler[c].pc = "done"
      /\ faults \in Nat /\ IsReply(handler[c].reply) /\ handler' = [handler EXCEPT ![c] = Resting]
      /\ UNCHANGED <<rows, opened, session, lib, orphans, main>>
  BY DEF IInv, Shaped, IsHandler, CallerFits, AnswerArrives
<1>2. /\ DOMAIN handler' = Callers /\ (\A x \in Callers : IsHandler(handler'[x]))
      /\ \A x \in Callers \ {c} : handler'[x] = handler[x]
      /\ handler'[c].pc = "idle"
      /\ HandlerFits(c)' /\ AccessFits(c)'
  BY <1>1, RestIs
<1>3. PICK answer : /\ Receive(c, answer) /\ faults' \in Nat /\ faults <= faults'
                    /\ answer = NULL \/ answer = handler[c].reply
                    /\ faults' = faults => answer = handler[c].reply
  <2>1. CASE Receive(c, handler[c].reply) /\ Faulty(0)
    BY <1>1, <2>1, FaultyIs
  <2>2. CASE Receive(c, NULL) /\ Faulty(1)
    <3>1. faults' \in Nat /\ faults < faults'
      BY <1>1, <2>2, FaultyIs
    <3>. QED  BY <1>1, <2>2, <3>1
  <2>. QED  BY <2>1, <2>2 DEF AnswerArrives
<1>4. PICK heap : heap = call[c].heap \cup (IF answer = NULL THEN {} ELSE {"response"})
  OBVIOUS
<1>5. Taken(c, "copy", answer, heap)
  BY <1>1, <1>3, <1>4 DEF Receive, Shaped, Taken
<1>6. IsReply(answer)
  BY <1>1, <1>3 DEF IsReply
<1>7. /\ Called(c) /\ call'[c].pc = "copy" /\ call'[c].answer = answer /\ call'[c].heap = heap
      /\ call'[c].user = call[c].user /\ call'[c].sure = call[c].sure /\ call'[c].since = call[c].since
  BY <1>1, <1>5, <1>6, TakenIs
<1>8. UNCHANGED <<tokens, session>> /\ apps' = apps /\ users' = users /\ lib' = lib /\ main' = main /\ orphans' = orphans
  BY <1>1 DEF rows
<1>9. Grows
  BY <1>3, <1>8 DEF Grows
<1>10. Shaped'
  <2>1. \A x \in Callers : IsCall(call'[x])
    BY <1>1, <1>7 DEF Called, Shaped
  <2>. QED  BY <1>1, <1>2, <1>3, <1>7, <1>8, <2>1 DEF Shaped, Called
<1>11. call[c].since \in Nat /\ call[c].sure \in BOOLEAN
  BY <1>1 DEF Shaped, IsCall
<1>12. CallFits(c)'
  <2>1. heap \subseteq AllPieces \cup {"response"}
    BY <1>1, <1>4 DEF CallFits, CallHolds
  <2>2. CallHolds(call'[c])
    BY <1>7, <2>1 DEF CallHolds
  <2>3. /\ call[c].since <= faults' /\ (orphans[c] = {} \/ faults' > 0)
        /\ lib[c] \in AppAccounts /\ call[c].user \in UserAccounts /\ HasServed'
    BY <1>1, <1>3, <1>8, <1>11 DEF CallFits, HasServed
  <2>. QED  BY <1>2, <1>7, <1>8, <2>2, <2>3 DEF CallFits, CallHolds
<1>13. Verified(c)' = Verified(c)
  BY <1>7, <1>8 DEF Verified
<1>14. GrantFits(c)'
  BY <1>1, <1>3, <1>7, <1>13 DEF GrantFits, Granting
<1>15. ServeFits(c)'
  <2> SUFFICES ASSUME call[c].sure
               PROVE  ServeFits(c)'
    BY <1>7, <1>11 DEF ServeFits
  <2>1. faults' = call[c].since => faults' = faults /\ faults = call[c].since
    BY <1>1, <1>3, <1>11 DEF CallFits
  <2>2. Unrouted' = Unrouted /\ Granted' = Granted /\ Serving' = Serving
    BY <1>8 DEF Unrouted, Granted, Serving
  <2>. QED  BY <1>1, <1>3, <1>7, <1>13, <2>1, <2>2 DEF ServeFits
<1>16. \A x \in Callers \ {c} : Untouched(x) /\ opened'[x] = opened[x]
  BY <1>1, <1>2, <1>7, <1>8 DEF Untouched, Called
<1>17. CallerFits(c)'
  BY <1>2, <1>12, <1>14, <1>15 DEF CallerFits
<1>. QED  BY <1>2, <1>8, <1>9, <1>10, <1>16, <1>17, CallerMoves

-----------------------------------------------------------------------------
(* The steps of main: what it holds follows where it is, and no caller       *)
(* notices but for the routes and the end.                                   *)
LEMMA MainMoves ==
  ASSUME IInv, UNCHANGED <<rows, handler, opened, session, clientVars>>, faults' \in Nat, faults <= faults',
         DOMAIN main' = {"pc", "held", "routes"}, MainFits', MainGoesOn
  PROVE  IInv'
<1>1. /\ Shaped /\ TokensFit /\ handler' = handler /\ opened' = opened /\ session' = session /\ tokens' = tokens
      /\ apps' = apps /\ users' = users /\ call' = call /\ lib' = lib /\ orphans' = orphans
  BY DEF IInv, rows, clientVars
<1>2. Shaped' /\ TokensFit' /\ Grows
  BY <1>1 DEF Shaped, TokensFit, Grows
<1>3. ASSUME NEW c \in Callers
      PROVE  CallerFits(c)' /\ AccessFits(c)'
  <2>1. Untouched(c)
    BY <1>1 DEF Untouched
  <2>2. CallerFits(c) /\ AccessFits(c)
    BY DEF IInv
  <2>3. CallerFits(c)'
    BY <1>1, <1>2, <2>1, <2>2, CallerStays
  <2>4. AccessFits(c)'
    BY <1>1, <2>2 DEF AccessFits, Granting
  <2>. QED  BY <2>3, <2>4
<1>. QED  BY <1>2, <1>3 DEF IInv

(* Main goes on with more, or exits with less.                               *)
LEMMA GainIs ==
  ASSUME Shaped, NEW pc, NEW what, Gain(pc, what)
  PROVE  /\ DOMAIN main' = {"pc", "held", "routes"} /\ main'.pc = pc
         /\ main'.held = main.held \cup what /\ main'.routes = main.routes
         /\ faults' \in Nat /\ faults <= faults'
<1>1. DOMAIN main = {"pc", "held", "routes"} /\ faults \in Nat
  BY DEF Shaped
<1>. QED  BY <1>1 DEF Gain, Faulty

LEMMA QuitIs ==
  ASSUME Shaped, NEW freed, NEW n \in Nat, Quit(freed, n)
  PROVE  /\ DOMAIN main' = {"pc", "held", "routes"} /\ main'.pc = "exited"
         /\ main'.held = main.held \ freed /\ main'.routes = main.routes
         /\ faults' \in Nat /\ faults <= faults'
<1>1. DOMAIN main = {"pc", "held", "routes"} /\ faults \in Nat
  BY DEF Shaped
<1>. QED  BY <1>1 DEF Quit, Faulty

LEMMA ReturnedIs ==
  ASSUME Shaped, NEW pc, NEW freed, Returned(pc, freed)
  PROVE  /\ DOMAIN main' = {"pc", "held", "routes"} /\ main'.pc = pc
         /\ main'.held = main.held \ freed /\ main'.routes = main.routes
         /\ faults' = faults /\ faults \in Nat
<1>1. DOMAIN main = {"pc", "held", "routes"} /\ faults \in Nat
  BY DEF Shaped
<1>. QED  BY <1>1 DEF Returned

(* The process ends while handlers are under way: they are done and have     *)
(* said nothing, and the others are as they were.                            *)
LEMMA DanglesKeeps ==
  ASSUME IInv, Dangles, UNCHANGED <<rows, opened, session, clientVars>>
  PROVE  IInv'
<1>1. /\ Shaped /\ TokensFit /\ DOMAIN handler = Callers /\ \A c \in Callers : IsHandler(handler[c])
      /\ opened' = opened /\ session' = session /\ tokens' = tokens /\ apps' = apps /\ users' = users
      /\ call' = call /\ lib' = lib /\ orphans' = orphans
      /\ MainAt("failing") /\ Returned("crashed", {})
  BY DEF IInv, Shaped, rows, clientVars, Dangles
<1>2. /\ DOMAIN main' = {"pc", "held", "routes"} /\ main'.pc = "crashed" /\ main'.routes = main.routes
      /\ faults' = faults /\ faults \in Nat
  BY <1>1, ReturnedIs
<1>3. MainFits' /\ MainGoesOn /\ HasServed' /\ ~Serving'
  BY <1>1, <1>2 DEF MainFits, MainAt, MainGoesOn, HasServed, Serving
<1>4. TokensFit' /\ Grows
  BY <1>1, <1>2 DEF TokensFit, Grows
<1>5. /\ DOMAIN handler' = Callers
      /\ \A c \in Callers : ~UnderWay(c) => handler'[c] = handler[c]
      /\ \A c \in Callers : UnderWay(c) => handler'[c] = [handler[c] EXCEPT !.pc = "done", !.heap = {}]
  BY DEF Dangles
<1>6. ASSUME NEW c \in Callers, UnderWay(c)
      PROVE  /\ IsHandler(handler'[c]) /\ handler'[c].pc = "done" /\ handler'[c].heap = {}
             /\ handler'[c].req = handler[c].req /\ handler'[c].reply = NULL
  <2>1. handler'[c] = [handler[c] EXCEPT !.pc = "done", !.heap = {}]
    BY <1>5, <1>6
  <2>2. IsHandler(handler[c])
    BY <1>1
  <2>3. handler[c].pc # "done" /\ handler[c].reply = NULL
    BY <1>6 DEF IInv, CallerFits, HandlerFits, UnderWay
  <2>. QED  BY <2>1, <2>2, <2>3 DEF IsHandler, IsReply
<1>7. Shaped'
  <2>1. \A c \in Callers : IsHandler(handler'[c])
    BY <1>1, <1>5, <1>6
  <2>. QED  BY <1>1, <1>2, <1>5, <2>1 DEF Shaped
<1>8. ASSUME NEW c \in Callers, ~UnderWay(c)
      PROVE  CallerFits(c)' /\ AccessFits(c)'
  <2>1. CallerFits(c) /\ AccessFits(c) /\ handler'[c] = handler[c]
    BY <1>5, <1>8 DEF IInv
  <2>2. Untouched(c)
    BY <1>1, <2>1 DEF Untouched
  <2>3. CallerFits(c)'
    BY <1>1, <1>3, <1>4, <2>1, <2>2, CallerStays
  <2>4. AccessFits(c)'
    BY <1>1, <2>1 DEF AccessFits, Granting
  <2>. QED  BY <2>3, <2>4
<1>9. ASSUME NEW c \in Callers, UnderWay(c)
      PROVE  CallerFits(c)' /\ AccessFits(c)'
  <2>1. CallFits(c) /\ GrantFits(c) /\ ServeFits(c) /\ call[c].pc \in {"idle", "wait"} /\ call[c].sure \in BOOLEAN
    BY <1>1, <1>9 DEF IInv, CallerFits, CallFits, UnderWay, Shaped, IsCall
  <2>2. HandlerFits(c)' /\ AccessFits(c)'
    BY <1>6, <1>9 DEF HandlerFits, AccessFits, Granting
  <2>3. CallFits(c)'
    BY <1>1, <1>2, <1>3, <2>1 DEF CallFits, CallHolds
  <2>4. Verified(c)' = Verified(c) /\ GrantRequest(c)' = GrantRequest(c)
    BY <1>1 DEF Verified, GrantRequest
  <2>5. GrantFits(c)'
    BY <1>1, <1>6, <1>9, <2>1, <2>4 DEF GrantFits, Granting
  <2>6. ServeFits(c)'
    BY <1>1, <1>2, <1>3, <2>1, <2>4 DEF ServeFits
  <2>. QED  BY <2>2, <2>3, <2>5, <2>6 DEF CallerFits
<1>. QED  BY <1>3, <1>4, <1>7, <1>8, <1>9 DEF IInv

LEMMA MainKeeps ==
  ASSUME IInv, MainNext, ~Dangles, UNCHANGED clientVars
  PROVE  IInv'
<1>1. /\ Shaped /\ MainFits /\ faults \in Nat /\ DOMAIN main = {"pc", "held", "routes"}
      /\ UNCHANGED <<rows, handler, opened, session, clientVars>>
  BY DEF IInv, Shaped, MainNext
<1>2. 0 \in Nat /\ 1 \in Nat
  OBVIOUS
<1>3. ASSUME NEW pc, NEW what, Gain(pc, what), ~HasServed,
             DOMAIN main' = {"pc", "held", "routes"} /\ main'.pc = pc
               /\ main'.held = main.held \cup what /\ main'.routes = main.routes => MainFits'
      PROVE  IInv'
  <2>1. MainGoesOn
    BY <1>3 DEF MainGoesOn, HasServed, MainAt
  <2>. QED  BY <1>1, <1>3, <2>1, GainIs, MainMoves
<1>4. ASSUME NEW freed, NEW n \in Nat, Quit(freed, n), ~HasServed,
             DOMAIN main' = {"pc", "held", "routes"} /\ main'.pc = "exited"
               /\ main'.held = main.held \ freed /\ main'.routes = main.routes => MainFits'
      PROVE  IInv'
  <2>1. DOMAIN main' = {"pc", "held", "routes"} /\ main'.pc = "exited" /\ main'.routes = main.routes
    BY <1>1, <1>4, QuitIs
  <2>2. MainGoesOn
    BY <1>4, <2>1 DEF MainGoesOn, HasServed, MainAt
  <2>. QED  BY <1>1, <1>4, <2>2, QuitIs, MainMoves
<1>5. ASSUME NEW pc, NEW freed, Returned(pc, freed), pc \in {"stopped", "failing", "failed"},
              DOMAIN main' = {"pc", "held", "routes"} /\ main'.pc = pc
                /\ main'.held = main.held \ freed /\ main'.routes = main.routes => MainFits'
       PROVE  IInv'
  <2>1. /\ DOMAIN main' = {"pc", "held", "routes"} /\ main'.pc = pc /\ main'.routes = main.routes
        /\ main'.held = main.held \ freed /\ faults' = faults
    BY <1>1, <1>5, ReturnedIs
  <2>2. MainGoesOn
    BY <1>5, <2>1 DEF MainGoesOn, HasServed
  <2>. QED  BY <1>1, <1>5, <2>1, <2>2, MainMoves
<1>6. CASE InitContext
  <2>1. MainAt("context") /\ (Gain("tls", {"context"}) \/ Quit({}, 1))
    BY <1>6 DEF InitContext
  <2>. QED  BY <1>1, <1>2, <1>3, <1>4, <2>1 DEF MainFits, MainAt, HasServed
<1>7. CASE LoadTls
  <2>1. MainAt("tls")
    BY <1>7 DEF LoadTls
  <2>2. ASSUME NEW what \in {{}, {"tls"}}, Gain("router", what)
        PROVE  IInv'
    BY <1>1, <1>3, <2>1, <2>2 DEF MainFits, MainAt, HasServed
  <2>3. CASE Faulty(1) /\ main' = [main EXCEPT !.pc = "router"]
    <3>1. /\ DOMAIN main' = {"pc", "held", "routes"} /\ main'.pc = "router"
          /\ main'.held = main.held /\ main'.routes = main.routes
      BY <1>1, <2>3
    <3>2. MainFits' /\ MainGoesOn
      BY <1>1, <2>1, <3>1 DEF MainFits, MainAt, MainGoesOn, HasServed
    <3>3. faults' \in Nat /\ faults <= faults'
      BY <1>1, <2>3, FaultyIs
    <3>. QED  BY <1>1, <3>1, <3>2, <3>3, MainMoves
  <2>. QED  BY <1>7, <2>2, <2>3 DEF LoadTls
<1>8. CASE InitRouter
  <2>1. MainAt("router") /\ (Gain("connect", {"router"}) \/ Quit({"tls", "context"}, 1))
    BY <1>8 DEF InitRouter
  <2>. QED  BY <1>1, <1>2, <1>3, <1>4, <2>1 DEF MainFits, MainAt, HasServed
<1>9. CASE Connect
  <2>1. MainAt("connect")
    BY <1>9 DEF Connect
  <2>2. ASSUME NEW n \in 0 .. 1, Faulty(n),
               main' = [main EXCEPT !.pc = "routes", !.held = @ \cup {"database"}]
        PROVE  IInv'
    <3>1. /\ DOMAIN main' = {"pc", "held", "routes"} /\ main'.pc = "routes"
          /\ main'.held = main.held \cup {"database"} /\ main'.routes = main.routes
      BY <1>1, <2>2
    <3>2. MainFits' /\ MainGoesOn
      BY <1>1, <2>1, <3>1 DEF MainFits, MainAt, MainGoesOn, HasServed
    <3>3. faults' \in Nat /\ faults <= faults'
      BY <1>1, <2>2, FaultyIs
    <3>. QED  BY <1>1, <3>1, <3>2, <3>3, MainMoves
  <2>3. CASE Quit({"router", "tls", "context"}, 1)
    BY <1>1, <1>2, <1>4, <2>1, <2>3 DEF MainFits, MainAt, HasServed
  <2>. QED  BY <1>9, <2>2, <2>3 DEF Connect
<1>10. CASE InitServer
  <2>1. MainAt("routes")
    BY <1>10 DEF InitServer
  <2>2. ASSUME NEW routes, routes # {}, NEW n \in Nat, Faulty(n),
               main' = [main EXCEPT !.pc = "documents", !.routes = routes]
        PROVE  IInv'
    <3>1. /\ DOMAIN main' = {"pc", "held", "routes"} /\ main'.pc = "documents"
          /\ main'.held = main.held /\ main'.routes = routes
      BY <1>1, <2>2
    <3>2. MainFits' /\ MainGoesOn
      BY <1>1, <2>1, <2>2, <3>1 DEF MainFits, MainAt, MainGoesOn, HasServed
    <3>3. faults' \in Nat /\ faults <= faults'
      BY <1>1, <2>2, FaultyIs
    <3>. QED  BY <1>1, <3>1, <3>2, <3>3, MainMoves
  <2>3. Routes # {} /\ \A route : Routes \ {route} # {}
    BY DEF Routes
  <2>4. CASE Quit({"router", "tls", "context"}, 1)
    BY <1>1, <1>2, <1>4, <2>1, <2>4 DEF MainFits, MainAt, HasServed
  <2>5. CASE Faulty(1) /\ main' = [main EXCEPT !.pc = "crashed"]
    <3>1. DOMAIN main' = {"pc", "held", "routes"} /\ main'.pc = "crashed"
      BY <1>1, <2>5
    <3>2. MainFits' /\ MainGoesOn
      BY <2>1, <3>1 DEF MainFits, MainAt, MainGoesOn, HasServed
    <3>3. faults' \in Nat /\ faults <= faults'
      BY <1>1, <2>5, FaultyIs
    <3>. QED  BY <1>1, <3>1, <3>2, <3>3, MainMoves
  <2>. QED  BY <1>2, <1>10, <2>2, <2>3, <2>4, <2>5 DEF InitServer
<1>11. CASE EnableDocuments
  <2>1. MainAt("documents") /\ (Gain("running", {}) \/ Quit({"router", "context"}, 1))
    BY <1>11 DEF EnableDocuments
  <2>. QED  BY <1>1, <1>2, <1>3, <1>4, <2>1 DEF MainFits, MainAt, HasServed
<1>12. CASE Stopped
  <2>1. PICK destroyed \in SUBSET {"context"} :
          MainAt("running") /\ Returned("stopped", {"router", "tls"} \cup destroyed)
    BY <1>12 DEF Stopped
  <2>. QED  BY <1>1, <1>5, <2>1 DEF MainFits, MainAt
<1>13. CASE RunFails
  <2>1. MainAt("running") /\ Returned("failing", {"router", "tls"})
    BY <1>13 DEF RunFails
  <2>. QED  BY <1>1, <1>5, <2>1 DEF MainFits, MainAt
<1>14. CASE Joined
  <2>1. MainAt("failing") /\ (Returned("failed", {"context"}) \/ Returned("stopped", {}))
    BY <1>14 DEF Joined
  <2>. QED  BY <1>1, <1>5, <2>1 DEF MainFits, MainAt
<1>. QED  BY <1>6, <1>7, <1>8, <1>9, <1>10, <1>11, <1>12, <1>13, <1>14 DEF MainNext

-----------------------------------------------------------------------------
(* The invariant holds at first, and every step keeps it.                    *)
LEMMA InitFits == Init => IInv
<1> SUFFICES ASSUME Init PROVE IInv
  OBVIOUS
<1>1. /\ tokens = {} /\ session = FALSE /\ faults = 0
      /\ handler = [c \in Callers |-> Resting] /\ opened = [c \in Callers |-> FALSE]
      /\ lib = [c \in Callers |-> NULL] /\ call = [c \in Callers |-> NoCall] /\ orphans = [c \in Callers |-> {}]
      /\ main = [pc |-> "context", held |-> {}, routes |-> {}]
  BY DEF Init, ServerInit, ClientInit, MainInit
<1>2. Resting.pc = "idle" /\ Resting.heap = {} /\ Resting.reply = NULL /\ IsHandler(Resting)
  BY DEF Resting, IsHandler, IsReply
<1>3. Shaped
  <2>1. lib \in [Callers -> AppAccounts \cup {NULL}]
    BY <1>1
  <2>2. \A c \in Callers : IsHandler(handler[c]) /\ IsCall(call[c])
    BY <1>1, <1>2, NoCallIs
  <2>3. DOMAIN main = {"pc", "held", "routes"}
    BY <1>1
  <2>. QED  BY <1>1, <2>1, <2>2, <2>3 DEF Shaped
<1>4. MainFits /\ TokensFit
  BY <1>1 DEF MainFits, MainAt, TokensFit
<1>5. ASSUME NEW c \in Callers
      PROVE  CallerFits(c) /\ AccessFits(c)
  <2>1. HandlerFits(c) /\ AccessFits(c)
    BY <1>1, <1>2 DEF HandlerFits, AccessFits
  <2>2. CallFits(c)
    BY <1>1, NoCallIs DEF CallFits, CallHolds
  <2>3. GrantFits(c) /\ ServeFits(c)
    BY <1>1, NoCallIs DEF GrantFits, ServeFits
  <2>. QED  BY <2>1, <2>2, <2>3 DEF CallerFits
<1>. QED  BY <1>3, <1>4, <1>5 DEF IInv

LEMMA StuttersKeep ==
  ASSUME IInv, UNCHANGED vars
  PROVE  IInv'
<1>1. UNCHANGED <<rows, handler, opened, session, clientVars>> /\ faults' = faults /\ main' = main
  BY DEF vars, serverVars
<1>2. faults' \in Nat /\ faults <= faults' /\ DOMAIN main' = {"pc", "held", "routes"} /\ MainFits' /\ MainGoesOn
  BY <1>1 DEF IInv, Shaped, MainFits, MainAt, MainGoesOn, HasServed
<1>. QED  BY <1>1, <1>2, MainMoves

LEMMA NextKeeps ==
  ASSUME IInv, Next
  PROVE  IInv'
<1>1. CASE MainNext /\ UNCHANGED <<clientVars, calls>>
  BY <1>1, MainKeeps, DanglesKeeps DEF MainNext
<1>2. ASSUME NEW c \in Callers, ServerStep(c), UNCHANGED <<clientVars, main, calls>>
      PROVE  IInv'
  BY <1>2, ServerKeeps
<1>3. ASSUME NEW c \in Callers, ClientStep(c), UNCHANGED <<rows, handler, opened, session, main, calls>>
      PROVE  IInv'
  BY <1>3, ClientKeeps
<1>4. ASSUME NEW c \in Callers, NEW app \in AppAccounts, InitLibrary(c, app),
             UNCHANGED <<rows, handler, opened, session, main, calls>>
      PROVE  IInv'
  BY <1>4, InitLibraryKeeps
<1>5. \A c \in Callers : SendRequest(c) \/ SendFails(c) \/ AnswerArrives(c) \/ Hear(c) => IInv'
  BY SendRequestKeeps, SendFailsKeeps, AnswerArrivesKeeps, HearKeeps
<1>6. \A c \in Callers, user \in UserAccounts : CallGrant(c, user) => IInv'
  BY CallGrantKeeps
<1>7. \A c \in Callers : \A req : Ask(c, req) => IInv'
  BY AskKeeps
<1>. QED  BY <1>1, <1>2, <1>3, <1>4, <1>5, <1>6, <1>7 DEF Next

LEMMA Invariance == Spec => []IInv
<1>1. IInv /\ [Next]_vars => IInv'
  BY NextKeeps, StuttersKeep
<1>. QED  BY InitFits, <1>1, PTL DEF Spec

-----------------------------------------------------------------------------
(* A grant the library was given means an application and a person whose     *)
(* accounts the database has, whatever fails in the two checks of            *)
(* oauth2_token_handler (oauth2_server.c:332-409, oauth2_client.c:115-182).  *)
THEOREM GrantsAreVerified == Spec => []GrantMeansVerified
<1>1. IInv => GrantMeansVerified
  BY DEF IInv, CallerFits, GrantFits, Verified, GrantMeansVerified
<1>. QED  BY Invariance, <1>1, PTL

(* A grant for accounts that were there before it, on whose way nothing      *)
(* failed, is given as long as the server runs and the route is there:       *)
(* the form, both checks, the answer and its reading fit together            *)
(* (oauth2_client.c:115-182, oauth2_server.c:260-409).                       *)
THEOREM GrantsAreServed == Spec => []GrantServed
<1>1. IInv => GrantServed
  BY DEF IInv, CallerFits, ServeFits, GrantServed, Unrouted
<1>. QED  BY Invariance, <1>1, PTL

(* After a logout that could revoke the token was answered, the secret is    *)
(* told only where the token was saved again since the request began, of     *)
(* however many requests are on their way (oauth2_server.c:560-641).         *)
THEOREM LogoutClosesAccess == Spec => []LogoutEndsAccess
<1>1. IInv => LogoutEndsAccess
  BY DEF IInv, AccessFits, Granting, LogoutEndsAccess
<1>. QED  BY Invariance, <1>1, PTL

(* No handler, no grant and no exit of main keeps what it acquired, but for  *)
(* what is named in EverythingReleased (oauth2_server.c:190-760,             *)
(* oauth2_client.c:115-182, client.c:99-440, main.c:180-270,                 *)
(* modality.c:230-270).                                                      *)
THEOREM NothingIsKept == Spec => []EverythingReleased
<1>1. ASSUME IInv
      PROVE  EverythingReleased
  <2>1. ASSUME NEW c \in Callers
        PROVE  /\ handler[c].pc = "done" => handler[c].heap = {}
               /\ call[c].pc = "returned" => Held(c) \ {"request"} = IF call[c].rc = "ok" THEN {"token"} ELSE {}
               /\ orphans[c] # {} => faults > 0
    <3>1. HandlerFits(c) /\ CallFits(c)
      BY <1>1 DEF IInv, CallerFits
    <3>2. handler[c].pc = "done" => handler[c].heap = {}
      BY <3>1 DEF HandlerFits
    <3>3. call[c].pc = "returned" => Held(c) \ {"request"} = IF call[c].rc = "ok" THEN {"token"} ELSE {}
      BY <3>1 DEF CallFits, CallHolds, Held
    <3>. QED  BY <3>1, <3>2, <3>3 DEF CallFits
  <2>2. main.pc = "exited" => main.held \subseteq {"database"} \cup (IF main.routes = {} THEN {} ELSE {"tls"})
    BY <1>1 DEF IInv, MainFits, MainAt
  <2>3. /\ main.pc = "stopped" => main.held \subseteq {"database", "context"}
        /\ main.pc = "failed" => main.held \subseteq {"database"}
    BY <1>1 DEF IInv, MainFits, MainAt
  <2>. QED  BY <2>1, <2>2, <2>3 DEF EverythingReleased
<1>. QED  BY Invariance, <1>1, PTL
=============================================================================
