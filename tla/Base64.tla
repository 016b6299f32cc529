-------------------------------- MODULE Base64 --------------------------------
(***************************************************************************)
(* src/src/c_rest_base64.c.  An octet is a number below 256, a character   *)
(* of the encoded text is the number of its sextet, in either alphabet;    *)
(* Pad is the equals sign and Junk any character outside the alphabet.     *)
(***************************************************************************)
EXTENDS Integers, Sequences

Pad == 64
Junk == 65

(* What the places of a group count for. *)
SextetWeights == <<262144, 4096, 64, 1>>
OctetWeights == <<65536, 256, 1>>

CeilDiv(n, d) == (n + d - 1) \div d

(* encode_internal: four characters for three octets, a missing octet is 0;  *)
(* the characters of missing octets are equals signs, or left out.           *)
OctetAt(s, i) == IF i <= Len(s) THEN s[i] ELSE 0
Triple(s, g) == OctetAt(s, 3 * g + 1) * 65536 + OctetAt(s, 3 * g + 2) * 256 + OctetAt(s, 3 * g + 3)
Kept(n) == 4 * CeilDiv(n, 3) - ((3 - (n % 3)) % 3)

Encode(s, padded) ==
  [i \in 1 .. (IF padded THEN 4 * CeilDiv(Len(s), 3) ELSE Kept(Len(s))) |->
     IF i > Kept(Len(s)) THEN Pad
     ELSE (Triple(s, (i - 1) \div 4) \div SextetWeights[((i - 1) % 4) + 1]) % 64]

(* Mutant: one equals sign at most is counted. *)
PadLengthOne(t, isUrl) ==
  IF t # <<>> /\ t[Len(t)] = Pad THEN 1 ELSE IF isUrl THEN (4 - (Len(t) % 4)) % 4 ELSE 0

PadLength(t, isUrl) ==
  IF t # <<>> /\ t[Len(t)] = Pad THEN (IF Len(t) > 1 /\ t[Len(t) - 1] = Pad THEN 2 ELSE 1)
  ELSE IF isUrl THEN (4 - (Len(t) % 4)) % 4 ELSE 0

(* decode_internal.  An equals sign is taken for 0 in the last two places of *)
(* any group, and an error in the first two; a group that ends early reads 0.*)
SextetAt(t, i) == IF i > Len(t) \/ t[i] = Pad THEN 0 ELSE t[i]
Quad(t, g) ==
  SextetAt(t, 4 * g + 1) * 262144 + SextetAt(t, 4 * g + 2) * 4096 + SextetAt(t, 4 * g + 3) * 64
    + SextetAt(t, 4 * g + 4)

Malformed(t, isUrl) ==
  \/ ~isUrl /\ Len(t) % 4 # 0
  \/ \E i \in DOMAIN t : t[i] = Junk \/ (t[i] = Pad /\ (i - 1) % 4 < 2)
  \/ Len(t) % 4 = 1

DecodedLength(t, isUrl) ==
  LET pad == PadLength(t, isUrl) IN ((Len(t) + pad) \div 4) * 3 - pad

Decode(t, isUrl) ==
  IF Malformed(t, isUrl) THEN [ok |-> FALSE, data |-> <<>>]
  ELSE [ok |-> TRUE,
        data |-> [i \in 1 .. DecodedLength(t, isUrl) |->
                    (Quad(t, (i - 1) \div 3) \div OctetWeights[((i - 1) % 3) + 1]) % 256]]
=============================================================================
