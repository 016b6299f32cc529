-------------------------------- MODULE JwtAuth --------------------------------
(***************************************************************************)
(* Signed tokens and hashed passwords, src/src/c_rest_crypto.c, and the    *)
(* middleware that asks for a token, src/src/c_rest_jwt_middleware.c.  The *)
(* digests of the crypto library are taken to be injective.                *)
(***************************************************************************)
EXTENDS Integers, Sequences

CONSTANT NULL

B64 == INSTANCE Base64
Q == INSTANCE RequestData
R == INSTANCE Response

Hmac(secret, text) == [secret |-> secret, text |-> text]
Pbkdf2(password, salt) == [password |-> password, salt |-> salt]

(* A token is the list of the texts between its dots, {"alg":"HS256",...}    *)
(* the first.                                                                *)
JwtHeader == <<30, 51>>

(* c_rest_jwt_sign_hs256 *)
Sign(payload, secret) ==
  LET text == <<B64!Encode(JwtHeader, FALSE), B64!Encode(payload, FALSE)>>
  IN  Append(text, Hmac(secret, text))

(* Mutant: the signature is not compared. *)
VerifyUnsigned(token, secret) ==
  IF Len(token) # 3 THEN [ok |-> FALSE, payload |-> <<>>]
  ELSE LET p == B64!Decode(token[2], TRUE) IN [ok |-> p.ok, payload |-> p.data]

(* c_rest_jwt_verify_hs256: all that follows the second dot is the signature *)
(* of all that goes before it; the header is not looked at.  The payload is  *)
(* a C string.                                                               *)
Verify(token, secret) ==
  IF Len(token) # 3 \/ token[3] # Hmac(secret, SubSeq(token, 1, 2)) THEN [ok |-> FALSE, payload |-> <<>>]
  ELSE LET p == B64!Decode(token[2], TRUE) IN [ok |-> p.ok, payload |-> p.data]

(* c_rest_hash_password and c_rest_verify_password *)
HashPassword(password, salt) ==
  [alg |-> "pbkdf2-sha256", salt |-> B64!Encode(salt, TRUE), hash |-> Pbkdf2(password, salt)]

VerifyPassword(password, hashed) ==
  LET salt == B64!Decode(hashed.salt, FALSE)
  IN  salt.ok /\ hashed.alg = "pbkdf2-sha256" /\ hashed.hash = Pbkdf2(password, salt.data)

(* c_rest_jwt_middleware.  The next handler runs only when it returns OK;    *)
(* otherwise an answer has been sent.  The application's callback takes the   *)
(* payloads in accepted.                                                     *)
Refuse(res, text) ==
  R!Say(R!SetHeader(R!SetStatus(res, 401), "WWW-Authenticate", "Bearer", FALSE), "text/html", <<text>>, "none")

JwtMiddleware(auth, secret, accepted, res) ==
  LET refused(text) == [next |-> FALSE, context |-> NULL, res |-> Refuse(res, text)] IN
  LET token == Q!AuthBearer([auth |-> auth]) IN
  IF token = NULL THEN refused("missing")
  ELSE LET v == Verify(token, secret) IN
       IF ~v.ok THEN refused("signature")
       ELSE IF v.payload \notin accepted THEN refused("payload")
       ELSE [next |-> TRUE, context |-> v.payload, res |-> res]
=============================================================================
