------------------------------ MODULE RequestData ------------------------------
(***************************************************************************)
(* What a handler asks of its request, src/src/request.c: parameters of    *)
(* the query, of the form in the body and of the cookies are parsed when   *)
(* they are first asked for, into lists that grow at the head; memory may  *)
(* fail in the middle.                                                     *)
(***************************************************************************)
EXTENDS FormData

CONSTANT NULL

B64 == INSTANCE Base64

COLON == 58  (* an octet of the credentials *)

(* A request as the connection hands it over; text has the query, the body   *)
(* and the value of the Cookie header, NULL when there is none.              *)
RequestOf(text, auth) ==
  [text |-> text, auth |-> auth, list |-> [part \in DOMAIN text |-> <<>>]]

(* A refused allocation: the piece it is refused for, and whether the node   *)
(* of the list or one of its strings is asked for.                           *)
NoFault == [piece |-> 0, node |-> FALSE]

(* The loops end at the end of the text: a last piece that is empty is not   *)
(* looked at.                                                                *)
PiecesOf(text, sep) ==
  LET p == Pieces(text, sep) IN IF p[Len(p)] = <<>> THEN SubSeq(p, 1, Len(p) - 1) ELSE p

(* parse_query_if_needed and c_rest_request_parse_urlencoded, the same loop  *)
(* over two texts: a refused node ends it and keeps what was read, a refused *)
(* string drops the parameter.                                               *)
ParsePieces(pieces, last, fault) ==
  LET param(kv) == <<UrlDecode(kv[1]), UrlDecode(kv[2])>>
      all == [i \in 1 .. last |-> IF i = fault.piece THEN <<>> ELSE <<param(KeyAndValue(pieces[i]))>>]
  IN  [rc |-> IF last < Len(pieces) THEN "oom" ELSE "ok", list |-> Reverse(FlattenSeq(all))]

ParseParams(text, fault) ==
  LET pieces == PiecesOf(text, AMP)
  IN  ParsePieces(pieces, IF fault.node THEN fault.piece - 1 ELSE Len(pieces), fault)

(* parse_cookies_if_needed: spaces before a name are skipped, pieces without *)
(* an equals sign are too, nothing is decoded, and no failure is told.       *)
NoSpaces(s) == SelectInSeq(s, LAMBDA c : c # SP)
Skip(s) == IF NoSpaces(s) = 0 THEN <<>> ELSE SubSeq(s, NoSpaces(s), Len(s))

CookiePieces(pieces, fault) ==
  LET all == [i \in DOMAIN pieces |->
                IF i = fault.piece \/ ~Contains(pieces[i], EQ) THEN <<>> ELSE <<KeyAndValue(Skip(pieces[i]))>>]
  IN  [rc |-> "ok", list |-> Reverse(FlattenSeq(all))]

ParseCookies(text, fault) == CookiePieces(PiecesOf(text, SEMI), fault)

(* c_rest_request_get_query, _get_form_param and _get_cookie.  A list that   *)
(* is not empty is not parsed again, a request without the text has no list. *)
ListOf(list, text, part, fault) ==
  IF list # <<>> \/ text = NULL THEN [rc |-> "ok", list |-> list]
  ELSE IF part = "cookie" THEN ParseCookies(text, fault) ELSE ParseParams(text, fault)

Search(req, part, key, parsed) ==
  LET i == SelectInSeq(parsed.list, LAMBDA kv : kv[1] = key)
      found == parsed.rc = "ok" /\ i # 0
  IN  [rc |-> IF parsed.rc # "ok" THEN parsed.rc ELSE IF found THEN "ok" ELSE "notFound",
       value |-> IF found THEN parsed.list[i][2] ELSE NULL,
       req |-> [req EXCEPT !.list[part] = parsed.list]]

Ask(req, part, key, fault) == Search(req, part, key, ListOf(req.list[part], req.text[part], part, fault))

-----------------------------------------------------------------------------
(* c_rest_client_build_auth_basic and _build_auth_bearer *)
BasicHeader(user, password) ==
  [scheme |-> "Basic", text |-> B64!Encode(user \o <<COLON>> \o password, TRUE)]
BearerHeader(token) == [scheme |-> "Bearer", text |-> token]

(* c_rest_request_get_auth_basic: the credentials are C strings, the user's  *)
(* name ends at the first colon.                                             *)
NoUser == [ok |-> FALSE, user |-> <<>>, password |-> <<>>]
UpTo(octets, nul) == IF nul = 0 THEN octets ELSE SubSeq(octets, 1, nul - 1)
BeforeZero(octets) == UpTo(octets, SelectInSeq(octets, LAMBDA o : o = 0))

AtColon(s, colon) ==
  IF colon = 0 THEN NoUser
  ELSE [ok |-> TRUE, user |-> SubSeq(s, 1, colon - 1), password |-> SubSeq(s, colon + 1, Len(s))]

UserOf(decoded) ==
  LET s == BeforeZero(decoded.data) IN
  IF decoded.ok THEN AtColon(s, SelectInSeq(s, LAMBDA o : o = COLON)) ELSE NoUser

AuthBasic(req) ==
  IF req.auth = NULL \/ req.auth.scheme # "Basic" THEN NoUser ELSE UserOf(B64!Decode(req.auth.text, FALSE))

(* c_rest_request_get_auth_bearer; NULL stands for its failure *)
AuthBearer(req) ==
  IF req.auth = NULL \/ req.auth.scheme # "Bearer" THEN NULL ELSE req.auth.text
=============================================================================
