------------------------------ MODULE HttpParser ------------------------------
(***************************************************************************)
(* The incremental request parser, basic_execute in src/src/parser.c, as a *)
(* fold over what it is given.  A character is a delimiter or a word whose *)
(* letters play no part; only whole words are told apart.  The two buffers *)
(* of the parser are C strings that are reset by their length alone: what  *)
(* they held stays readable until the next character is written.           *)
(***************************************************************************)
EXTENDS Integers, Sequences, SequencesExt

CONSTANT NULL

SP == "SP"
CR == "CR"
LF == "LF"
COLON == "COLON"

(* strtoul of a string: what does not begin with a number is 0. *)
Numerals == [n \in {"0", "1", "2", "3"} |-> CHOOSE i \in 0 .. 3 : ToString(i) = n]
Number(s) == IF s # NULL /\ s # <<>> /\ Head(s) \in DOMAIN Numerals THEN Numerals[Head(s)] ELSE 0

(* basic_init; out collects what the callbacks were told. *)
HttpFresh ==
  [at |-> "method", hasError |-> FALSE, keepAlive |-> TRUE, contentLength |-> 0, chunked |-> FALSE,
   buf |-> NULL, bufLen |-> 0, key |-> NULL, keyLen |-> 0, bodyRead |-> 0, chunkLeft |-> 0,
   out |-> [method |-> NULL, url |-> NULL, headers |-> <<>>, body |-> <<>>, completed |-> 0, errors |-> 0]]

Written(s, len, c) == Append(IF len = 0 THEN <<>> ELSE SubSeq(s, 1, len), c)

(* append_buf *)
AppendBuf(p, c) == [p EXCEPT !.buf = Written(@, p.bufLen, c), !.bufLen = @ + 1]
AppendKey(p, c) == [p EXCEPT !.key = Written(@, p.keyLen, c), !.keyLen = @ + 1]

Upto(s, len) == IF len = 0 THEN <<>> ELSE SubSeq(s, 1, len)

Finished(p) == [p EXCEPT !.at = "done", !.out.completed = @ + 1]

(* The end of a header line.  The comparisons read the key as a C string,    *)
(* the callback gets its length; leading spaces of the value are skipped.    *)
SkipSpaces(s) ==
  LET i == SelectInSeq(s, LAMBDA c : c # SP) IN IF i = 0 THEN <<>> ELSE SubSeq(s, i, Len(s))

HeaderDone(p) ==
  LET v == SkipSpaces(p.buf)
      is(name) == p.key = <<name>>
  IN  [p EXCEPT
        !.contentLength = IF is("Content-Length") THEN Number(v) ELSE @,
        !.chunked = @ \/ (is("Transfer-Encoding") /\ Contains(v, "chunked")),
        !.keepAlive = @ /\ ~(is("Connection") /\ v = <<"close">>),
        !.out.headers = Append(@, [key |-> Upto(p.key, p.keyLen), value |-> v]),
        !.keyLen = 0, !.bufLen = 0, !.at = "key"]

(* The empty line: a request without a body is complete. *)
HeadersDone(p) ==
  IF ~p.chunked /\ p.contentLength = 0 THEN Finished(p)
  ELSE IF p.chunked THEN [p EXCEPT !.at = "size", !.bufLen = 0]
  ELSE [p EXCEPT !.at = "body"]

(* Mutant: the body ends a byte late. *)
BodyByteLate(p, c) ==
  LET q == [p EXCEPT !.out.body = Append(@, c), !.bodyRead = @ + 1]
  IN  IF q.bodyRead > q.contentLength THEN Finished(q) ELSE q

BodyByte(p, c) ==
  LET q == [p EXCEPT !.out.body = Append(@, c), !.bodyRead = @ + 1]
  IN  IF q.bodyRead >= q.contentLength THEN Finished(q) ELSE q

(* The line of a chunk's size; a size of 0 ends the body at once, and what   *)
(* follows it is left unread.                                                *)
SizeDone(p) ==
  LET n == Number(p.buf)
      q == [p EXCEPT !.chunkLeft = n, !.bufLen = 0]
  IN  IF n = 0 THEN Finished(q) ELSE [q EXCEPT !.at = "data"]

ChunkByte(p, c) ==
  LET q == [p EXCEPT !.out.body = Append(@, c), !.chunkLeft = @ - 1]
  IN  IF q.chunkLeft = 0 THEN [q EXCEPT !.at = "crlf"] ELSE q

(* One turn of the loop.  In state done execute returns: nothing changes. *)
HttpByte(p, c) ==
  CASE p.at = "method" ->
         IF c = SP THEN [p EXCEPT !.out.method = Upto(p.buf, p.bufLen), !.bufLen = 0, !.at = "url"]
         ELSE IF c \in {CR, LF} THEN p ELSE AppendBuf(p, c)
    [] p.at = "url" ->
         IF c = SP THEN [p EXCEPT !.out.url = Upto(p.buf, p.bufLen), !.bufLen = 0, !.at = "version"]
         ELSE AppendBuf(p, c)
    [] p.at = "version" -> IF c = LF THEN [p EXCEPT !.at = "key", !.bufLen = 0] ELSE p
    [] p.at = "key" ->
         IF c = CR THEN p
         ELSE IF c = LF THEN IF p.keyLen = 0 THEN HeadersDone(p) ELSE p
         ELSE IF c = COLON THEN [p EXCEPT !.at = "value", !.bufLen = 0]
         ELSE AppendKey(p, c)
    [] p.at = "value" -> IF c = CR THEN p ELSE IF c = LF THEN HeaderDone(p) ELSE AppendBuf(p, c)
    [] p.at = "done" -> p
    [] p.at = "body" -> BodyByte(p, c)
    [] p.at = "size" -> IF c = CR THEN p ELSE IF c = LF THEN SizeDone(p) ELSE AppendBuf(p, c)
    [] p.at = "data" -> ChunkByte(p, c)
    [] p.at = "crlf" -> IF c = LF THEN [p EXCEPT !.at = "size", !.bufLen = 0] ELSE p

(* basic_execute.  A buffer that begins with the word MALFORMED is an error  *)
(* wherever the parser is; afterwards every call fails.                      *)
HttpExecute(p, data) ==
  IF p.hasError THEN p
  ELSE IF data # <<>> /\ Head(data) = "MALFORMED"
       THEN [p EXCEPT !.hasError = TRUE, !.out.errors = @ + 1]
       ELSE FoldLeft(HttpByte, p, data)
=============================================================================
