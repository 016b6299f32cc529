-------------------------------- MODULE Streams --------------------------------
(***************************************************************************)
(* What one peer writes and the other reads: a request, a multipart body,  *)
(* a stream of events, the header of a frame, the parameters of a request, *)
(* its credentials, an answer.  A behaviour carries one message; bytes     *)
(* arrive in pieces cut anywhere, and memory may fail.                     *)
(***************************************************************************)
EXTENDS Integers, Sequences, SequencesExt

CONSTANTS NULL,
          Boundary,
          Messages,        \* of a kind: a list of what was meant (sent), the bytes (input), the first reader
          SseFaults,       \* what memory may refuse, and how often
          RequestFaults,
          ResponseFaults,
          MaxFaults,
          Says,            \* the steps a handler may take to answer
          MaxSays

S == INSTANCE SseParser
M == INSTANCE Multipart
W == INSTANCE WebSocket
Q == INSTANCE RequestData
R == INSTANCE Response
J == INSTANCE JwtAuth

(* How the messages of a kind are made.  Credentials are C strings that the  *)
(* client has put in its header; the user's name has no colon.               *)
Octet == 0 .. 255
Credentials(m) ==
  /\ m.sent.user \in Seq(Octet \ {0, Q!COLON}) /\ m.sent.password \in Seq(Octet \ {0})
  /\ m.reader.auth = Q!BasicHeader(m.sent.user, m.sent.password) /\ m.reader.auth # NULL

(* A token is any list of texts; but nobody makes the signature of another   *)
(* token than was signed with the secret, over a payload in signed.          *)
Token(m) ==
  LET tokens == {J!Sign(p, m.sent.secret) : p \in m.sent.signed}
      given == J!Q!AuthBearer([auth |-> m.reader])
  IN
  /\ \A p \in m.sent.signed \cup {m.sent.payload} : p \in Seq(Octet)
  /\ given # NULL /\ Len(given) = 3 /\ given[3] = J!Hmac(m.sent.secret, SubSeq(given, 1, 2)) => given \in tokens
  /\ m.sent.genuine <=> given = J!Sign(m.sent.payload, m.sent.secret)
  /\ m.sent.genuine => given # NULL

(* A frame is masked with four octets, or not, and has any length below 2^31. *)
FrameLength(n) == n \in Nat /\ n \div 65536 < 32768
Frame(m) ==
  LET h == m.sent.parsed IN
  /\ h = [ok |-> TRUE, fin |-> h.fin, rsv1 |-> h.rsv1, rsv2 |-> h.rsv2, rsv3 |-> h.rsv3, opcode |-> h.opcode,
          masked |-> h.masked, length |-> h.length, key |-> h.key, headerLength |-> Len(m.input)]
  /\ {h.fin, h.rsv1, h.rsv2, h.rsv3, h.masked} \subseteq BOOLEAN
  /\ h.opcode \in 0 .. 15 /\ FrameLength(h.length)
  /\ h.key \in [1 .. 4 -> Octet] /\ (~h.masked => h.key = <<0, 0, 0, 0>>)
  /\ m.sent.key = h.key /\ m.sent.payload \in Seq(Octet)
  /\ m.input = W!WsSerialize(h, 14) /\ m.reader = <<>>

ASSUME MessagesAssumption ==
  \A k \in DOMAIN Messages : \A i \in DOMAIN Messages[k] :
    LET m == Messages[k][i] IN
    /\ k = "credentials" => Credentials(m)
    /\ k = "token" => Token(m)
    /\ k = "frame" => Frame(m)
    /\ k = "answer" => m.reader = R!NewResponse

(* Nothing is not a text, and not the value of a header.                     *)
IsText(t) == t \in Seq(Range(t)) /\ t # NULL
Refusals == {"missing", "signature", "payload", "invalid_request"}

ASSUME NullAssumption == NULL # "chunked" /\ \A error \in Refusals : IsText(<<error>>)

(* What a handler may say in a whole answer, and in one in chunks.           *)
ASSUME SaysAssumption ==
  /\ \A say \in Says["whole"] :
       \/ say.op = "json" /\ IsText(say.text)
       \/ say.op \in {"refuse", "redirect", "cookie", "etag"}
  /\ \A say \in Says["chunks"] :
       \/ say = [op |-> "chunk", text |-> say.text] /\ IsText(say.text)
       \/ say.op = "cookie"

VARIABLES kind, sent, input, reader,
          got,     \* what the reader was told, in order
          rc,      \* of the last call
          faults,  \* how many allocations or writes failed
          excused  \* a piece ended inside a header line, or a call failed that had written

vars == <<kind, sent, input, reader, got, rc, faults, excused>>

Init ==
  \E k \in DOMAIN Messages : \E i \in DOMAIN Messages[k] :
    /\ kind = k
    /\ sent = Messages[k][i].sent /\ input = Messages[k][i].input /\ reader = Messages[k][i].reader
    /\ got = <<>> /\ rc = "none" /\ faults = 0 /\ excused = FALSE

Piece(k) == SubSeq(input, 1, k)
Arrives(k) == input' = SubSeq(input, k + 1, Len(input))

(* The connection gives its parser what has arrived. *)
ReadRequest ==
  /\ kind = "http"
  /\ \E k \in 1 .. Len(input) : reader' = S!HttpExecute(reader, Piece(k)) /\ Arrives(k)
  /\ UNCHANGED <<kind, sent, got, rc, faults, excused>>

ReadParts ==
  /\ kind = "multipart"
  /\ \E k \in 1 .. Len(input) :
       LET loop == FoldLeft(M!MpByte, reader, Piece(k)) IN
       /\ reader' = M!MpExecute(reader, Piece(k)) /\ Arrives(k)
       /\ excused' = (excused \/ (loop.at \in {"field", "value"} /\ loop.run # <<>>))
  /\ UNCHANGED <<kind, sent, got, rc, faults>>

(* A client of a stream of events: it parses what has come, and asks again   *)
(* without new bytes for the events that came along with another.            *)
ReadEvents ==
  /\ kind = "events" /\ rc # "crash"
  /\ \E k \in 0 .. Len(input), fail \in SseFaults :
     \E r \in {S!SseParse(reader, Piece(k), fail)} :
       /\ faults < MaxFaults \/ r.rc \in {"more", "event"}
       /\ reader' = r.parser /\ rc' = r.rc /\ Arrives(k)
       /\ got' = IF r.rc = "event" THEN Append(got, r.event) ELSE got
       /\ faults' = IF r.rc \in {"more", "event"} THEN faults ELSE faults + 1
  /\ UNCHANGED <<kind, sent, excused>>

(* The bytes of a frame's header that are there are parsed from the start.   *)
ReadFrame ==
  /\ kind = "frame"
  /\ \E k \in 1 .. Len(input) : reader' = reader \o Piece(k) /\ Arrives(k)
  /\ got' = <<W!WsParse(reader')>>
  /\ UNCHANGED <<kind, sent, rc, faults, excused>>

(* A handler asks for a parameter; got holds the last answer. *)
AskParameter ==
  /\ kind = "request"
  /\ \E part \in DOMAIN reader.text, key \in sent.keys, fault \in RequestFaults :
     \E a \in {Q!Ask(reader, part, key, fault)} :
       /\ fault = Q!NoFault \/ (faults < MaxFaults /\ reader.list[part] = <<>>)
       /\ reader' = a.req /\ rc' = a.rc
       /\ got' = <<[part |-> part, key |-> key, value |-> a.value]>>
       /\ faults' = IF fault = Q!NoFault THEN faults ELSE faults + 1
  /\ UNCHANGED <<kind, sent, input, excused>>

AskCredentials ==
  /\ kind = "credentials"
  /\ got' = <<Q!AuthBasic(reader)>>
  /\ UNCHANGED <<kind, sent, input, reader, rc, faults, excused>>

(* The middleware before a handler looks at the token of a request. *)
AskToken ==
  /\ kind = "token"
  /\ got' = <<J!JwtMiddleware(reader, sent.secret, {sent.payload}, R!NewResponse)>>
  /\ UNCHANGED <<kind, sent, input, reader, rc, faults, excused>>

(* A handler answers in a few steps.  After the last chunk it says no more.  *)
Answered(say, fault) ==
  CASE say.op = "json" -> R!Say(reader, "application/json", say.text, fault)
    [] say.op = "refuse" -> R!OAuth2Error(reader, "invalid_request", fault)
    [] say.op = "redirect" -> R!Redirect(reader, "elsewhere", say.status, fault)
    [] say.op = "cookie" -> R!SetCookie(reader, say.text, fault # "none")
    [] say.op = "etag" -> R!CheckEtag(reader, "tag", say.ifNoneMatch, fault # "none")
    [] say.op = "chunk" -> R!WriteChunk(reader, say.text, fault)
    [] say.op = "open" -> R!SseInit(reader, fault)
    [] say.op = "event" -> R!WriteChunk(reader, S!Serialize(say.event), fault)
    [] say.op = "keepAlive" -> R!WriteChunk(reader, S!KeepAliveLine, fault)

Text(say) ==
  CASE say.op \in {"json", "chunk"} -> say.text
    [] say.op = "refuse" -> <<"invalid_request">>
    [] say.op = "event" -> S!Serialize(say.event)
    [] say.op = "keepAlive" -> S!KeepAliveLine
    [] OTHER -> <<>>

LastChunk == [op |-> "chunk", text |-> <<>>]
Ended == got # <<>> /\ got[Len(got)] = [say |-> LastChunk, ok |-> TRUE]

Answer ==
  /\ kind = "answer" /\ Len(got) < MaxSays /\ ~Ended
  /\ \E say \in Says[sent.plan], fault \in ResponseFaults :
       /\ fault = "none" \/ faults < MaxFaults
       /\ (sent.plan = "stream") => ((got = <<>>) <=> (say.op = "open"))
       /\ reader' = Answered(say, fault)
       /\ rc' = reader'.rc
       /\ got' = Append(got, [say |-> say, ok |-> rc' = "ok"])
       /\ faults' = IF fault = "none" THEN faults ELSE faults + 1
       /\ excused' = (excused \/ (rc' # "ok" /\ reader'.wire # reader.wire))
  /\ UNCHANGED <<kind, sent, input>>

Next ==
  \/ ReadRequest \/ ReadParts \/ ReadEvents \/ ReadFrame
  \/ AskParameter \/ AskCredentials \/ AskToken \/ Answer

Spec == Init /\ [][Next]_vars

-----------------------------------------------------------------------------
(* However the bytes are cut, the connection's callbacks are told the        *)
(* request that was sent, once, and not before its last byte: no header,     *)
(* byte of the body or completion is lost, doubled or early.  A piece that   *)
(* begins with the word MALFORMED is refused, and excepted here.             *)
HttpRoundTrip ==
  kind = "http" /\ ~reader.hasError =>
    /\ (reader.at = "done") <=> (Len(input) <= Len(sent.after))
    /\ reader.at = "done" => reader.out = sent.request

(* However a multipart body is cut, no part has data that was not sent in    *)
(* it, even where the data looks like the beginning of a boundary, and a     *)
(* part that ended has all of it; without a cut inside a header line its     *)
(* headers are whole as well.                                                *)
MultipartPartsExact ==
  kind = "multipart" =>
    /\ ~reader.failed
    /\ \A i \in DOMAIN reader.parts :
         LET p == reader.parts[i] IN
         /\ IsPrefix(p.data, sent[i].data)
         /\ p.ended => p.data = sent[i].data
         /\ p.headersDone /\ ~excused => p.fields = sent[i].fields /\ p.values = sent[i].values
    /\ input = <<>> => reader.ended /\ Len(reader.parts) = Len(sent)

(* While memory lasts, a client gets the events of a stream whole, in order  *)
(* and once, however the stream is cut and however often it asks; when all   *)
(* bytes have come and nothing is left to give, it has had every event.      *)
SseEventsExact ==
  kind = "events" /\ faults = 0 =>
    /\ IsPrefix(got, sent)
    /\ input = <<>> /\ rc = "more" => got = sent

(* Of a frame's header fewer bytes than it has are refused, and all of them  *)
(* are the header that was written, with its length in the form its size     *)
(* calls for; masking twice gives the payload back.                          *)
WsHeaderRoundTrip ==
  kind = "frame" =>
    /\ got # <<>> => IF input = <<>> THEN got[1] = sent.parsed ELSE ~got[1].ok
    /\ W!Unmask(W!Unmask(sent.payload, sent.key), sent.key) = sent.payload

(* The parameters that a client encodes and a request decodes: an answer is  *)
(* a value that was given for the key, whatever memory was refused; without  *)
(* a refusal it is the last one given, and not found means not given.  The   *)
(* client's own parser agrees with its encoder, but for no fields at all: it *)
(* reads one without a key from an empty body.                               *)
GivenFor(part, key) == SelectSeq(sent.given[part], LAMBDA kv : kv[1] = key)

ParametersTrue ==
  kind = "request" =>
    /\ \A i \in DOMAIN got :
         LET given == GivenFor(got[i].part, got[i].key) IN
         /\ rc = "ok" => \E j \in DOMAIN given : given[j][2] = got[i].value
         /\ faults = 0 => IF given = <<>> THEN rc = "notFound"
                          ELSE rc = "ok" /\ got[i].value = given[Len(given)][2]
    /\ sent.given["form"] # <<>> => Q!ClientFields(Q!FormText(sent.given["form"])) = sent.given["form"]

(* Credentials survive the client's header, base64 and the handler's         *)
(* reading: the user's name and a password that may itself have colons; and  *)
(* octets of any length survive both alphabets of base64.  A hash of the     *)
(* password verifies that password and no other.                             *)
CredentialsRoundTrip ==
  kind = "credentials" =>
    /\ \A i \in DOMAIN got : got[i] = [ok |-> TRUE, user |-> sent.user, password |-> sent.password]
    /\ \A padded \in BOOLEAN :
         Q!B64!Decode(Q!B64!Encode(sent.password, padded), ~padded) = [ok |-> TRUE, data |-> sent.password]
    /\ \A password \in {sent.user, sent.password} :
         J!VerifyPassword(password, J!HashPassword(sent.password, <<7, 0, 255, 9>>)) <=> password = sent.password

(* The handler behind the middleware runs exactly for the token that was     *)
(* signed with its secret, over the payload the application accepts: not for *)
(* one with another secret, one changed in any piece, cut or extended.       *)
(* Whoever is refused reads a whole answer that says 401.                    *)
TokenOpensTheGate ==
  kind = "token" =>
    \A i \in DOMAIN got :
      /\ got[i].next <=> sent.genuine
      /\ got[i].next => got[i].context = sent.payload /\ got[i].res.wire = <<>>
      /\ ~got[i].next => R!PeerReads(got[i].res.wire).complete /\ got[i].res.wire[1][2].status = 401

(* An answer that was begun is framed: when a call that brings its own text  *)
(* has succeeded, the peer reads that text whole, whatever failed before; a  *)
(* redirect is whole, and so is an answer of which nothing was sent and that *)
(* is written to a buffer, when one call failed at the most.  Of chunks the  *)
(* peer reads those that were said, and knows the end only when the handler  *)
(* ended it.  Excepted is what comes after a call that failed between two of *)
(* its writes: the head, or the size of a chunk, stays with the peer.        *)
Said(ops) == \E i \in DOMAIN got : got[i].ok /\ got[i].say.op \in ops
SaidText == FlattenSeq([i \in DOMAIN got |-> IF got[i].ok THEN Text(got[i].say) ELSE <<>>])

AnswerIsFramed ==
  kind = "answer" /\ ~excused =>
    LET peer == R!PeerReads(reader.wire) IN
    /\ sent.plan = "whole" =>
         /\ Said({"json", "refuse"}) => peer = R!Whole(SaidText)
         /\ Said({"redirect"}) /\ faults <= 1 => peer.complete
         /\ reader.wire = <<>> /\ faults <= 1 => R!PeerReads(R!SerializeResponse(reader, FALSE).marks).complete
    /\ sent.plan = "chunks" => peer.body = SaidText /\ (peer.complete <=> Ended)

(* USAGE.md:298 says of events that the framework "abstracts the underlying  *)
(* chunked HTTP response": the peer reads what was sent.                     *)
StreamReachesPeer ==
  kind = "answer" /\ sent.plan = "stream" => R!PeerReads(reader.wire).body = SaidText
=============================================================================
