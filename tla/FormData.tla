------------------------------- MODULE FormData -------------------------------
(***************************************************************************)
(* Form fields: how the client of src/src/client.c writes them, and how it *)
(* and the request of src/src/request.c read them back.  A character is a  *)
(* letter, or one of the characters the format gives a meaning to.         *)
(***************************************************************************)
EXTENDS Integers, Sequences, SequencesExt

SP == "SP"      AMP == "AMP"    EQ == "EQ"      PCT == "PCT"
PLUS == "PLUS"  SEMI == "SEMI"  NUL == "NUL"

(* The two digits of a character that is not written as it is. *)
Hex == [AMP |-> <<"2", "6">>, EQ |-> <<"3", "D">>, PCT |-> <<"2", "5">>,
        PLUS |-> <<"2", "B">>, SEMI |-> <<"3", "B">>]
HexDigits == {"2", "3", "5", "6", "B", "D"}

(* Mutant: a plus sign is written as it is. *)
EncodeCharPlus(c) ==
  IF c = SP THEN <<PLUS>> ELSE IF c \in DOMAIN Hex \ {PLUS} THEN <<PCT>> \o Hex[c] ELSE <<c>>

(* c_rest_client_url_encode *)
EncodeChar(c) == IF c = SP THEN <<PLUS>> ELSE IF c \in DOMAIN Hex THEN <<PCT>> \o Hex[c] ELSE <<c>>
UrlEncode(s) == FlattenSeq([i \in DOMAIN s |-> EncodeChar(s[i])])

(* c_rest_client_build_form_urlencoded; a field is a pair of key and value.  *)
FormText(fields) ==
  FlattenSeq([i \in DOMAIN fields |->
                (IF i > 1 THEN <<AMP>> ELSE <<>>)
                  \o UrlEncode(fields[i][1]) \o <<EQ>> \o UrlEncode(fields[i][2])])

(* What a percent sign and two characters stand for: strtol reads what is    *)
(* not a number as 0, the end of a string; pairs of digits for characters    *)
(* that play no part here are letters of their own.                          *)
ByStrtol(a, b) ==
  IF \E c \in DOMAIN Hex : Hex[c] = <<a, b>> THEN CHOOSE c \in DOMAIN Hex : Hex[c] = <<a, b>>
  ELSE IF a \in HexDigits THEN "other" ELSE NUL

(* c_rest_url_decode, and c_rest_client_url_decode, which leaves a percent   *)
(* sign alone that no two digits follow.                                     *)
Decoded(s, strict) ==
  LET n == Len(s)
      f[i \in 1 .. n + 1] ==
        IF i > n THEN <<>>
        ELSE IF s[i] = PCT /\ i + 2 <= n /\ (strict => {s[i + 1], s[i + 2]} \subseteq HexDigits)
             THEN <<ByStrtol(s[i + 1], s[i + 2])>> \o f[i + 3]
        ELSE <<IF s[i] = PLUS THEN SP ELSE s[i]>> \o f[i + 1]
  IN  f[1]

(* A C string ends at its first NUL. *)
CString(s) ==
  LET end == SelectInSeq(s, LAMBDA c : c = NUL) IN IF end = 0 THEN s ELSE SubSeq(s, 1, end - 1)

UrlDecode(s) == CString(Decoded(s, FALSE))
ClientUrlDecode(s) == CString(Decoded(s, TRUE))

(* The pieces of a text between separators. *)
Pieces(s, sep) ==
  LET ends == SetToSortSeq({i \in DOMAIN s : s[i] = sep} \cup {Len(s) + 1}, <)
  IN  [k \in DOMAIN ends |-> SubSeq(s, IF k = 1 THEN 1 ELSE ends[k - 1] + 1, ends[k] - 1)]

(* A piece at its first equals sign; without one it is a key. *)
KeyAndValue(piece) ==
  LET eq == SelectInSeq(piece, LAMBDA c : c = EQ)
  IN  IF eq = 0 THEN <<piece, <<>>>> ELSE <<SubSeq(piece, 1, eq - 1), SubSeq(piece, eq + 1, Len(piece))>>

(* c_rest_client_parse_form_urlencoded: as many fields as there are pieces.  *)
ClientFields(text) ==
  LET pieces == Pieces(text, AMP)
  IN  [i \in DOMAIN pieces |-> LET kv == KeyAndValue(pieces[i])
                               IN  <<ClientUrlDecode(kv[1]), ClientUrlDecode(kv[2])>>]
=============================================================================
