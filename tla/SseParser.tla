------------------------------- MODULE SseParser -------------------------------
(***************************************************************************)
(* Server-sent events, src/src/c_rest_sse.c: events are written as lines,  *)
(* and read back from a stream that arrives in pieces.  The parser keeps   *)
(* the unread bytes and the event that is being built; a call returns at   *)
(* most one event.  Every string is a copy from the heap: memory may fail. *)
(***************************************************************************)
EXTENDS HttpParser

None == [id |-> NULL, event |-> NULL, data |-> NULL, retry |-> -1]

SseFresh == [buffer |-> <<>>, capacity |-> "none", current |-> None]

-----------------------------------------------------------------------------
(* c_rest_sse_serialize *)
Field(name, value) == <<name, COLON, SP>> \o value \o <<LF>>

(* Mutant: a line break in the data is written as it is. *)
DataLinesBroken(s) == <<"data", COLON, SP>> \o s \o <<LF>>

DataLines(s) ==
  FoldLeft(LAMBDA out, c : IF c = LF THEN out \o <<LF, "data", COLON, SP>> ELSE Append(out, c),
           <<"data", COLON, SP>>, s) \o <<LF>>

Serialize(e) ==
  (IF e.id = NULL THEN <<>> ELSE Field("id", e.id))
    \o (IF e.event = NULL THEN <<>> ELSE Field("event", e.event))
    \o (IF e.retry < 0 THEN <<>> ELSE Field("retry", <<ToString(e.retry)>>))
    \o (IF e.data = NULL THEN <<>> ELSE DataLines(e.data))
    \o <<LF>>

(* c_rest_sse_send_keepalive: a comment. *)
KeepAliveLine == <<COLON, SP, LF, LF>>
-----------------------------------------------------------------------------
(* append_to_string: nothing is appended to a string that does not exist.    *)
AppendTo(dest, s) == IF s = <<>> THEN dest ELSE IF dest = NULL THEN s ELSE dest \o s

Line(name, hasColon, value) == [name |-> name, hasColon |-> hasColon, value |-> value]

(* A line without its end: the name before the colon, and the value after it *)
(* without one leading space.                                                *)
Split(l) ==
  LET colon == SelectInSeq(l, LAMBDA c : c = COLON)
      rest == SubSeq(l, colon + 1, Len(l))
  IN  IF colon = 0 THEN Line(l, FALSE, <<>>)
      ELSE Line(SubSeq(l, 1, colon - 1), TRUE, IF rest # <<>> /\ Head(rest) = SP THEN Tail(rest) ELSE rest)

(* What a line does to the event that is being built. *)
TakeLine(e, l, f) ==
  CASE f.hasColon /\ f.name = <<"event">> -> [e EXCEPT !.event = AppendTo(NULL, f.value)]
    [] f.hasColon /\ f.name = <<"id">> -> [e EXCEPT !.id = AppendTo(NULL, f.value)]
    [] f.hasColon /\ f.name = <<"data">> ->
         [e EXCEPT !.data = AppendTo(IF @ = NULL THEN @ ELSE AppendTo(@, <<LF>>), f.value)]
    [] f.hasColon /\ f.name = <<"retry">> -> [e EXCEPT !.retry = Number(f.value)]
    [] ~f.hasColon /\ l = <<"event">> -> [e EXCEPT !.event = <<>>]
    [] ~f.hasColon /\ l = <<"data">> /\ e.data # NULL -> [e EXCEPT !.data = AppendTo(@, <<LF>>)]
    [] OTHER -> e

(* The strings a line has copied, an empty one the fields of the event: each *)
(* may be the one that finds no memory.                                      *)
Copies(e, l, f) ==
  IF l = <<>> THEN (IF e.id = NULL /\ e.event = NULL /\ e.data = NULL THEN 0 ELSE 1)
  ELSE CASE f.name = <<"data">> ->
              (IF e.data = NULL THEN 0 ELSE 1) + (IF f.value = <<>> THEN 0 ELSE 1)
         [] f.name = <<"event">> \/ f.name = <<"id">> ->
              IF f.value # <<>> \/ (f.name = <<"event">> /\ ~f.hasColon) THEN 1 ELSE 0
         [] OTHER -> 0

(* What is left of the event when the k-th copy fails. *)
TakeHalf(e, l, f, k) ==
  CASE l # <<>> /\ f.name = <<"event">> -> [e EXCEPT !.event = NULL]
    [] l # <<>> /\ f.name = <<"id">> -> [e EXCEPT !.id = NULL]
    [] l # <<>> /\ f.name = <<"data">> /\ k = 2 -> [e EXCEPT !.data = AppendTo(@, <<LF>>)]
    [] OTHER -> e

IsSet(e) == e # None

(* A complete line of a buffer, without LF and one CR before it. *)
LineAt(buffer, first, last) ==
  SubSeq(buffer, first, IF last > first /\ buffer[last - 1] = CR THEN last - 2 ELSE last - 1)

(* One turn of the loop of c_rest_sse_parse: the line that ends at last, if  *)
(* nothing has ended the loop.  An empty line completes an event that has    *)
(* any field; a line that begins with a colon is a comment.  fail names a    *)
(* line by its position, and the copy that is refused there: the lines       *)
(* before it have been taken, but the buffer is left as it was.              *)
AtLine(r, l, last, fail) ==
  LET taken == [r EXCEPT !.next = last + 1] IN
  IF l # <<>> /\ Head(l) = COLON THEN taken
  ELSE IF fail.line = r.next /\ fail.copy <= Copies(r.current, l, Split(l))
  THEN [rc |-> "noMemory", next |-> 1, current |-> TakeHalf(r.current, l, Split(l), fail.copy)]
  ELSE IF l = <<>> THEN [taken EXCEPT !.rc = IF IsSet(r.current) THEN "event" ELSE "more"]
  ELSE [taken EXCEPT !.current = TakeLine(@, l, Split(l))]

ParseLines(buffer, e, fail) ==
  FoldLeftDomain(LAMBDA r, i : IF r.rc # "more" \/ buffer[i] # LF THEN r
                               ELSE AtLine(r, LineAt(buffer, r.next, i), i, fail),
                 [rc |-> "more", next |-> 1, current |-> e], buffer)

(* What a call comes to.  The caller cannot tell "noMemory" from "more": the *)
(* code of both is 1 (C_REST_ERROR_GENERIC), which calls for more bytes.     *)
Answer(rc, event, p) == [rc |-> rc, event |-> event, parser |-> p]

(* c_rest_sse_parse.  The first bytes need a buffer (position 0 of fail);    *)
(* when it is refused they are lost, and the capacity is wrong: the next     *)
(* bytes are written through NULL.  The event, when there is one, is a copy  *)
(* of current, which starts again; the buffer loses what was read.           *)
AfterParse(p, data, buffer, r) ==
  Answer(r.rc, IF r.rc = "event" THEN r.current ELSE None,
         [buffer |-> SubSeq(buffer, r.next, Len(buffer)),
          capacity |-> IF data = <<>> THEN p.capacity ELSE "enough",
          current |-> IF r.rc = "event" THEN None ELSE r.current])

SseParse(p, data, fail) ==
  IF data # <<>> /\ p.capacity = "claimed" THEN Answer("crash", None, p)
  ELSE IF data # <<>> /\ p.capacity = "none" /\ fail.line = 0
       THEN Answer("noMemory", None, [p EXCEPT !.capacity = "claimed"])
  ELSE AfterParse(p, data, p.buffer \o data, ParseLines(p.buffer \o data, p.current, fail))
=============================================================================
