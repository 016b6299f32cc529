------------------------------ MODULE Multipart ------------------------------
(***************************************************************************)
(* The streaming parser of multipart bodies, src/src/multipart.c.  What a  *)
(* callback is given points into the buffer of the call: run holds the     *)
(* bytes since the mark, and is gone when the call ends.                   *)
(***************************************************************************)
EXTENDS HttpParser

CONSTANT Boundary  (* the characters of the boundary *)

DASH == "DASH"

(* c_rest_multipart_parser_init; parts collects what the callbacks were told *)
MpFresh ==
  [at |-> "start", index |-> 0, match |-> 0, run |-> <<>>, failed |-> FALSE, ended |-> FALSE, parts |-> <<>>]

NewPart == [fields |-> <<>>, values |-> <<>>, headersDone |-> FALSE, data |-> <<>>, ended |-> FALSE]

Fails(p) == [p EXCEPT !.failed = TRUE]

OfPart(p, name, x) ==
  LET last == Len(p.parts) IN
  CASE name = "field" -> [p EXCEPT !.parts[last].fields = Append(@, x)]
    [] name = "value" -> [p EXCEPT !.parts[last].values = Append(@, x)]
    [] name = "data" -> [p EXCEPT !.parts[last].data = @ \o x]
    [] name = "headersDone" -> [p EXCEPT !.parts[last].headersDone = TRUE]
    [] name = "ended" -> [p EXCEPT !.parts[last].ended = TRUE]

(* A callback on the bytes since the mark is left out when there are none. *)
Tell(p, name) == IF p.run = <<>> THEN p ELSE OfPart(p, name, p.run)

Marked(p, at) == [p EXCEPT !.at = at, !.run = <<>>]
Keep(p, c) == [p EXCEPT !.run = Append(@, c)]

PartData(p, c) ==
  IF c = CR THEN [Tell(p, "data") EXCEPT !.at = "almostBoundary"] ELSE Keep(p, c)

(* Mutant: c is taken for data without being looked at. *)
BackToDataBlindly(p, seen, c) == Keep(Marked(OfPart(p, "data", seen), "data"), c)

(* What looked like a boundary is data, and c is looked at again as such. *)
BackToData(p, seen, c) == PartData(Marked(OfPart(p, "data", seen), "data"), c)

(* How much of CR LF -- boundary has been seen. *)
Seen(k) == <<CR, LF>> \o (IF k = 0 THEN <<>> ELSE IF k = 1 THEN <<DASH>>
                          ELSE <<DASH, DASH>> \o SubSeq(Boundary, 1, k - 2))

BoundaryByte(p, c) ==
  LET k == p.match
      wanted == IF k < 2 THEN DASH ELSE Boundary[k - 1]
  IN  IF k < Len(Boundary) + 2
      THEN IF c = wanted THEN [p EXCEPT !.match = @ + 1] ELSE BackToData(p, Seen(k), c)
      ELSE IF c = CR THEN [OfPart(p, "ended", TRUE) EXCEPT !.at = "partStart"]
      ELSE IF c = DASH THEN [p EXCEPT !.at = "almostEnd"]
      ELSE Fails(p)

Expect(p, c, wanted, q) == IF c = wanted THEN q ELSE Fails(p)

StartByte(p, c) ==
  IF p.at = "start" THEN Expect(p, c, DASH, [p EXCEPT !.index = @ + 1, !.at = IF p.index = 0 THEN "start" ELSE "boundary"])
  ELSE IF p.index - 2 < Len(Boundary) THEN Expect(p, c, Boundary[p.index - 1], [p EXCEPT !.index = @ + 1])
  ELSE Expect(p, c, CR, [p EXCEPT !.at = "partStart"])

HeaderValue(p, c) ==
  IF c = CR THEN [Tell(p, "value") EXCEPT !.at = "valueEnd"] ELSE Keep(p, c)

(* One turn of the loop of c_rest_multipart_parser_execute. *)
MpByte(p, c) ==
  IF p.failed THEN p
  ELSE CASE p.at \in {"start", "boundary"} -> StartByte(p, c)
    [] p.at = "partStart" -> Expect(p, c, LF, Marked([p EXCEPT !.parts = Append(@, NewPart)], "field"))
    [] p.at = "field" ->
         IF c = CR THEN [p EXCEPT !.at = "headersEnd"]
         ELSE IF c = COLON THEN [Tell(p, "field") EXCEPT !.at = "valueStart"]
         ELSE Keep(p, c)
    [] p.at = "headersEnd" -> Expect(p, c, LF, [OfPart(p, "headersDone", TRUE) EXCEPT !.at = "dataStart"])
    [] p.at = "valueStart" -> IF c = SP THEN Marked(p, "valueStart") ELSE HeaderValue(Marked(p, "value"), c)
    [] p.at = "value" -> HeaderValue(p, c)
    [] p.at = "valueEnd" -> Expect(p, c, LF, Marked(p, "field"))
    [] p.at = "dataStart" -> PartData(Marked(p, "data"), c)
    [] p.at = "data" -> PartData(p, c)
    [] p.at = "almostBoundary" ->
         IF c = LF THEN [p EXCEPT !.at = "nextBoundary", !.match = 0] ELSE BackToData(p, <<CR>>, c)
    [] p.at = "nextBoundary" -> BoundaryByte(p, c)
    [] p.at = "almostEnd" -> Expect(p, c, DASH, [p EXCEPT !.at = "end"])
    [] p.at = "end" -> Expect(p, c, CR, [OfPart(p, "ended", TRUE) EXCEPT !.ended = TRUE, !.at = "epilogue"])
    [] p.at = "epilogue" -> p

(* The end of a call: the data since the mark is handed over, and any other  *)
(* bytes since the mark are not.                                             *)
CallEnds(p) == [IF p.at = "data" /\ ~p.failed THEN Tell(p, "data") ELSE p EXCEPT !.run = <<>>]

(* c_rest_multipart_parser_execute *)
MpExecute(p, data) == CallEnds(FoldLeft(MpByte, p, data))
=============================================================================
