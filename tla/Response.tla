------------------------------- MODULE Response -------------------------------
(***************************************************************************)
(* What a handler says, src/src/response.c: headers in a list that grows   *)
(* at the head, a body, and the two ways to put them on the connection, at *)
(* once or in chunks.  Every operation yields the response after it, with  *)
(* rc; fault names the step of the operation that fails, if any.           *)
(***************************************************************************)
EXTENDS Integers, Sequences, SequencesExt

CONSTANT NULL

(* A response, and wire, what its connection was given: marks (a kind and    *)
(* what is in it) for the head, the size of a chunk, a character, the end of *)
(* a chunk.                                                                  *)
NewResponse ==
  [status |-> 200, headers |-> <<>>, body |-> NULL, bodyLen |-> 0, chunked |-> FALSE,
   headersSent |-> FALSE, wire |-> <<>>, rc |-> "ok"]

HeadMark(status, headers) == <<"head", [status |-> status, headers |-> headers]>>
Chars(s) == [i \in DOMAIN s |-> <<"char", s[i]>>]
SizeMark(n) == <<"size", n>>
ChunkEnd == <<"crlf", 0>>

Ok(res) == [res EXCEPT !.rc = "ok"]
Error(res) == [res EXCEPT !.rc = "error"]
Write(res, marks) == [res EXCEPT !.wire = @ \o marks]

(* One step after another, as long as none fails. *)
Then(res, Step(_)) == IF res.rc = "ok" THEN Step(res) ELSE res

IndexOf(headers, key) == SelectInSeq(headers, LAMBDA h : h[1] = key)

(* Mutant: a header that is there is kept. *)
SetHeaderOnce(res, key, value, fails) ==
  IF fails THEN Error(res)
  ELSE IF key # "Set-Cookie" /\ IndexOf(res.headers, key) # 0 THEN Ok(res)
  ELSE [Ok(res) EXCEPT !.headers = <<<<key, value>>>> \o @]

(* c_rest_response_set_header: the value of a header that is there is        *)
(* replaced, but every cookie is a header of its own.                        *)
SetHeader(res, key, value, fails) ==
  LET i == IF key = "Set-Cookie" THEN 0 ELSE IndexOf(res.headers, key)
  IN  IF fails THEN Error(res)
      ELSE IF i # 0 THEN [Ok(res) EXCEPT !.headers[i] = <<key, value>>]
      ELSE [Ok(res) EXCEPT !.headers = <<<<key, value>>>> \o @]

(* c_rest_response_set_status *)
SetStatus(res, status) == [Ok(res) EXCEPT !.status = status]

(* The steps of c_rest_response_send: a length unless the body comes in      *)
(* chunks, the head, the body.                                               *)
Framed(res, fault) ==
  IF res.chunked THEN Ok(res) ELSE SetHeader(res, "Content-Length", res.bodyLen, fault = "length")

PutHead(res, fault) ==
  IF fault = "head" THEN Error(res) ELSE Write(res, <<HeadMark(res.status, res.headers)>>)

PutBody(res, fault) ==
  IF res.body = NULL \/ res.bodyLen = 0 THEN res
  ELSE IF fault = "rest" THEN Error(res) ELSE Write(res, Chars(res.body))

MarkSent(res) == [res EXCEPT !.headersSent = TRUE]

(* c_rest_response_send *)
Send(res, fault) ==
  LET head(r) == PutHead(r, fault)
      body(r) == PutBody(r, fault)
  IN  IF res.headersSent THEN Error(res)
      ELSE Then(Then(Then(Framed(res, fault), head), body), MarkSent)

(* c_rest_response_json and _html: the old body is given up before there is  *)
(* memory for the new one, and its length is kept.                           *)
KeepText(res, text, fault) ==
  IF fault = "body" THEN [Error(res) EXCEPT !.body = NULL]
  ELSE [res EXCEPT !.body = text, !.bodyLen = Len(text)]

Say(res, type, text, fault) ==
  LET kept(r) == KeepText(r, text, fault)
      send(r) == Send(r, fault)
  IN  Then(Then(SetHeader(res, "Content-Type", type, fault = "type"), kept), send)

(* c_rest_response_json_dict through _json_obj: the pairs are the text. *)
JsonDict(res, pairs, fault) == Say(res, "application/json", pairs, fault)

(* c_rest_response_oauth2_error *)
OAuth2Error(res, error, fault) == JsonDict(SetStatus(res, 400), <<error>>, fault)

(* c_rest_response_redirect *)
Redirect(res, url, status, fault) ==
  LET send(r) == Send(r, fault)
  IN  Then(SetHeader(SetStatus(res, IF status \in 300 .. 399 THEN status ELSE 302), "Location", url,
                     fault = "type"), send)

(* c_rest_response_set_cookie *)
SetCookie(res, cookie, fails) == SetHeader(res, "Set-Cookie", cookie, fails)

(* c_rest_response_check_etag; an error means here that the tags match. *)
CheckEtag(res, etag, ifNoneMatch, fails) ==
  LET match(r) == IF ifNoneMatch = etag THEN Error(SetStatus(r, 304)) ELSE r
  IN  Then(SetHeader(res, "ETag", etag, fails), match)

(* c_rest_response_write_chunk: the first one sends the head; when something *)
(* else has sent it, the bytes are written as they are.  Of a chunk the size *)
(* is written, then the bytes, if any, then the end.                         *)
Opened(res, fault) ==
  LET chunked(r) == [r EXCEPT !.chunked = TRUE]
      send(r) == Send(r, fault)
  IN  IF res.headersSent THEN Ok(res)
      ELSE Then(Then(SetHeader(res, "Transfer-Encoding", "chunked", fault = "type"), chunked), send)

WriteUnless(res, marks, fails) == IF fails THEN Error(res) ELSE Write(res, marks)

WriteChunk(res, chunk, fault) ==
  LET size(r) == WriteUnless(r, IF r.chunked THEN <<SizeMark(Len(chunk))>> ELSE <<>>,
                             r.chunked /\ fault = "rest")
      data(r) == WriteUnless(r, Chars(chunk), chunk # <<>> /\ fault = IF r.chunked THEN "data" ELSE "rest")
      end(r) == WriteUnless(r, IF r.chunked THEN <<ChunkEnd>> ELSE <<>>, r.chunked /\ fault = "end")
  IN  Then(Then(Then(Opened(res, fault), size), data), end)

(* c_rest_response_serialize: the whole answer in a buffer; a length that is *)
(* among the headers is taken for the body's.                                *)
SerializeResponse(res, fails) ==
  LET r == IF res.chunked \/ IndexOf(res.headers, "Content-Length") # 0 THEN Ok(res)
           ELSE SetHeader(res, "Content-Length", res.bodyLen, fails)
  IN  [res |-> r,
       marks |-> IF r.rc # "ok" THEN <<>>
                 ELSE <<HeadMark(IF r.status = 0 THEN 200 ELSE r.status, r.headers)>>
                        \o (IF r.body = NULL THEN <<>> ELSE Chars(r.body))]

(* c_rest_response_cleanup *)
Clean(res) == [res EXCEPT !.headers = <<>>, !.body = NULL]

(* c_rest_sse_init_response *)
SseInit(res, fault) ==
  LET type(r) == SetHeader(r, "Content-Type", "text/event-stream", fault = "type")
      cache(r) == SetHeader(r, "Cache-Control", "no-cache", fault = "cache")
      alive(r) == SetHeader(r, "Connection", "keep-alive", fault = "alive")
      send(r) == Send(r, fault)
  IN  Then(Then(Then(Then(SetStatus(res, 200), type), cache), alive), send)

-----------------------------------------------------------------------------
(* The peer: it reads a body as the head announces it, as long as that, or   *)
(* in chunks until an empty one.                                             *)
HeaderOf(head, key) ==
  LET i == IndexOf(head.headers, key) IN IF i = 0 THEN NULL ELSE head.headers[i][2]

Whole(body) == [complete |-> TRUE, body |-> body]
Partial(body) == [complete |-> FALSE, body |-> body]

Texts(marks) == [i \in DOMAIN marks |-> marks[i][2]]

ReadChunks(rest) ==
  LET f[i \in 1 .. Len(rest) + 1] ==
        IF i > Len(rest) \/ rest[i][1] # "size" THEN Partial(<<>>)
        ELSE LET n == rest[i][2] IN
          IF i + n + 1 > Len(rest) \/ rest[i + n + 1] # ChunkEnd THEN Partial(<<>>)
          ELSE IF n = 0 THEN Whole(<<>>)
          ELSE [f[i + n + 2] EXCEPT !.body = Texts(SubSeq(rest, i + 1, i + n)) \o @]
  IN  f[1]

PeerReads(wire) ==
  IF wire = <<>> THEN Partial(<<>>)
  ELSE LET head == wire[1][2]
           rest == Tail(wire)
       IN  IF HeaderOf(head, "Transfer-Encoding") = "chunked" THEN ReadChunks(rest)
           ELSE LET n == HeaderOf(head, "Content-Length") IN
                IF Len(rest) < n THEN Partial(Texts(rest)) ELSE Whole(Texts(SubSeq(rest, 1, n)))
=============================================================================
