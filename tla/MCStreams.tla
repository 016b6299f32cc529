------------------------------- MODULE MCStreams -------------------------------
EXTENDS Streams, FiniteSetsExt

CR == S!CR
LF == S!LF
SP == S!SP
COLON == S!COLON
DASH == M!DASH
CRLF == <<CR, LF>>

Listed(cases) == FoldSet(LAMBDA c, list : Append(list, c), <<>>, cases)

Case(s, i, r) == [sent |-> s, input |-> i, reader |-> r]

-----------------------------------------------------------------------------
(* Requests: without a body, with a length, in chunks; one with a body that  *)
(* has the refused word inside, one that another request follows.            *)
Header(key, value) == <<key, COLON, SP>> \o value \o CRLF
HttpCase(method, headers, body, encoded, after) ==
  Case([request |-> [method |-> <<method>>, url |-> <<"/", "a">>,
                     headers |-> [i \in DOMAIN headers |-> [key |-> <<headers[i][1]>>, value |-> headers[i][2]]],
                     body |-> body, completed |-> 1, errors |-> 0],
        after |-> after],
       <<method, SP, "/", "a", SP, "HTTP/1.1">> \o CRLF
         \o FlattenSeq([i \in DOMAIN headers |-> Header(headers[i][1], headers[i][2])]) \o CRLF
         \o encoded \o after,
       S!HttpFresh)

Host == <<"Host", <<"h", COLON, "1">>>>

HttpCases ==
  {HttpCase("GET", <<Host, <<"Connection", <<"close">>>>>>, <<>>, <<>>, <<"GET", SP, "/">>),
   HttpCase("POST", <<Host, <<"Content-Length", <<"3">>>>>>, <<"x", LF, "MALFORMED">>,
            <<"x", LF, "MALFORMED">>, <<>>),
   HttpCase("PUT", <<<<"Transfer-Encoding", <<"chunked">>>>, Host>>, <<"x", CR, LF, "y">>,
            <<"3">> \o CRLF \o <<"x", CR, LF>> \o CRLF \o <<"1">> \o CRLF \o <<"y">> \o CRLF \o <<"0">> \o CRLF,
            CRLF)}

-----------------------------------------------------------------------------
(* Parts whose data looks like the boundary for a while. *)
PartText(p) ==
  FlattenSeq([i \in DOMAIN p.fields |-> p.fields[i] \o <<COLON, SP>> \o p.values[i] \o CRLF]) \o CRLF \o p.data

MultipartCase(parts) ==
  Case(parts,
       <<DASH, DASH>> \o Boundary
         \o FlattenSeq([i \in DOMAIN parts |-> CRLF \o PartText(parts[i]) \o CRLF \o <<DASH, DASH>> \o Boundary])
         \o <<DASH, DASH>> \o CRLF \o <<"z">>,
       M!MpFresh)

PartOf(fields, values, data) == [fields |-> fields, values |-> values, data |-> data]

MultipartCases ==
  {MultipartCase(<<PartOf(<<<<"n", "m">>, <<"t">>>>, <<<<"v", "w">>, <<"u">>>>, <<"a", CR, LF, DASH, DASH, Boundary[1], "c">>),
                   PartOf(<<>>, <<>>, <<CR, CR, LF, DASH, CR, LF, "d", CR>>)>>),
   MultipartCase(<<PartOf(<<<<"n">>>>, <<<<"v">>>>, <<>>)>>)}

-----------------------------------------------------------------------------
Event(id, event, data, retry) == [id |-> id, event |-> event, data |-> data, retry |-> retry]

EventStreams ==
  {<<Event(NULL, <<"e">>, <<"x", LF, LF, "y">>, -1), Event(<<"1">>, NULL, <<"x">>, 2), Event(NULL, NULL, NULL, 0)>>}

EventCase(es) ==
  Case(es,
       FlattenSeq([i \in DOMAIN es |-> (IF i = 2 THEN S!KeepAliveLine ELSE <<>>) \o S!Serialize(es[i])]),
       S!SseFresh)

NoMemoryFault == [line |-> -1, copy |-> 0]

-----------------------------------------------------------------------------
FrameHeader(fin, opcode, masked, length, key) ==
  [fin |-> fin, rsv1 |-> ~fin, rsv2 |-> FALSE, rsv3 |-> fin, opcode |-> opcode, masked |-> masked,
   length |-> length, key |-> key]

FrameCase(h) ==
  LET bytes == W!WsSerialize(h, 14) IN
  Case([payload |-> <<0, 1, 127, 255, 128, 3>>, key |-> h.key,
        parsed |-> [ok |-> TRUE, fin |-> h.fin, rsv1 |-> h.rsv1, rsv2 |-> h.rsv2, rsv3 |-> h.rsv3,
                    opcode |-> h.opcode, masked |-> h.masked, length |-> h.length, key |-> h.key,
                    headerLength |-> Len(bytes)]],
       bytes, <<>>)

FrameCases ==
  {FrameCase(FrameHeader(fin, IF fin THEN 8 ELSE 15, masked, length,
                         IF masked THEN <<255, 0, 165, 1>> ELSE <<0, 0, 0, 0>>)) :
     fin \in BOOLEAN, masked \in BOOLEAN, length \in {0, 125, 126, 255, 256, 65535, 65536, 16777216}}

-----------------------------------------------------------------------------
FieldLists ==
  {<<>>,
   <<<<<<"k">>, <<"x", "SP", "AMP">>>>, <<<<"k">>, <<"EQ", "PCT", "2">>>>>>,
   <<<<<<"EQ">>, <<>>>>, <<<<"k">>, <<"PLUS">>>>, <<<<"PCT">>, <<"B", "SEMI">>>>>>}

Cookies == <<<<<<"k">>, <<"EQ">>>>, <<<<"j">>, <<>>>>, <<<<"k">>, <<"x">>>>>>
CookieText == <<"k", "EQ", "EQ", "SEMI", "SP", "z", "SEMI", "SP", "j", "EQ", "SEMI", "k", "EQ", "x">>

RequestCase(query, form, cookie) ==
  Case([given |-> [query |-> query, form |-> form, cookie |-> IF cookie = NULL THEN <<>> ELSE Cookies],
        keys |-> {<<"k">>, <<"EQ">>, <<"j">>}],
       <<>>,
       Q!RequestOf([query |-> IF query = <<>> THEN NULL ELSE Q!FormText(query),
                    form |-> IF form = <<>> THEN NULL ELSE Q!FormText(form), cookie |-> cookie], NULL))

RequestCases == {RequestCase(q, f, c) : q \in FieldLists, f \in FieldLists, c \in {NULL, CookieText}}

MCRequestFaults == {Q!NoFault} \cup [piece : 1 .. 3, node : BOOLEAN]

-----------------------------------------------------------------------------
Octets == {0, 58, 255}
Words == {<<>>} \cup {<<a>> : a \in Octets} \cup {<<a, b>> : a \in Octets, b \in {58, 97}} \cup {<<58, 200, 62>>, <<1, 2, 3, 4>>}
TextWords == {w \in Words : \A i \in DOMAIN w : w[i] # 0}

CredentialCases ==
  {Case([user |-> u, password |-> p], <<>>,
        Q!RequestOf([query |-> NULL, form |-> NULL, cookie |-> NULL], Q!BasicHeader(u, p))) :
     u \in {w \in TextWords : \A i \in DOMAIN w : w[i] # 58}, p \in TextWords}

-----------------------------------------------------------------------------
(* A token as it was signed, and changed in every piece. *)
Payload == <<123, 58, 255, 125>>
Signed(payload, secret) == J!Sign(payload, secret)
Genuine == Signed(Payload, "secret")
Forged ==
  <<Signed(Payload, "other"), Signed(<<1>>, "secret"), SubSeq(Genuine, 1, 2), <<>>, Genuine \o <<Genuine[3]>>,
    <<Genuine[1], Signed(<<1>>, "secret")[2], Genuine[3]>>, <<Genuine[2], Genuine[2], Genuine[3]>>>>

TokenCase(auth, genuine) ==
  Case([secret |-> "secret", payload |-> Payload, signed |-> {Payload, <<1>>}, genuine |-> genuine], <<>>, auth)

TokenCases ==
  <<TokenCase(Q!BearerHeader(Genuine), TRUE), TokenCase(NULL, FALSE), TokenCase(Q!BasicHeader(<<1>>, <<2>>), FALSE)>>
    \o [i \in DOMAIN Forged |-> TokenCase(Q!BearerHeader(Forged[i]), FALSE)]

-----------------------------------------------------------------------------
AnswerCases(plans) == [i \in DOMAIN plans |-> Case([plan |-> plans[i]], <<>>, R!NewResponse)]

Json(text) == [op |-> "json", text |-> text]
Chunk(text) == [op |-> "chunk", text |-> text]

MCSays ==
  [whole |-> {Json(<<"x">>), Json(<<"y", "z", "y", "z">>), [op |-> "refuse"], [op |-> "redirect", status |-> 200],
              [op |-> "cookie", text |-> <<"c">>], [op |-> "etag", ifNoneMatch |-> "tag"],
              [op |-> "etag", ifNoneMatch |-> NULL]},
   chunks |-> {Chunk(<<"x">>), Chunk(<<"y", "z">>), Chunk(<<>>), [op |-> "cookie", text |-> <<"c">>]},
   stream |-> {[op |-> "open"], [op |-> "keepAlive"],
               [op |-> "event", event |-> Event(NULL, <<"e">>, <<"x">>, -1)]}]

MCResponseFaults == {"none", "type", "body", "length", "head", "rest", "data", "end"}

EventCases == {EventCase(es) : es \in EventStreams}

AllMessages ==
  [http |-> Listed(HttpCases), multipart |-> Listed(MultipartCases), events |-> Listed(EventCases),
   frame |-> Listed(FrameCases), request |-> Listed(RequestCases), credentials |-> Listed(CredentialCases),
   token |-> TokenCases, answer |-> AnswerCases(<<"whole", "chunks", "stream">>)]
StreamMessages == [answer |-> AnswerCases(<<"stream">>)]

MCSseFaults == {NoMemoryFault} \cup [line : {0, 1, 8}, copy : 1 .. 2]
NoResponseFaults == {"none"}
MCBoundary == <<"b", "o">>
=============================================================================
