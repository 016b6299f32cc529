------------------------------ MODULE WebSocket ------------------------------
(***************************************************************************)
(* The frame headers of src/src/websocket.c: written by one peer, and read *)
(* by the other from as many bytes as have arrived.  Lengths stay below    *)
(* 2^31, the largest number of the model checker.                          *)
(***************************************************************************)
EXTENDS Integers, Sequences

Bit(flag, weight) == IF flag THEN weight ELSE 0
HasBit(byte, weight) == (byte \div weight) % 2 = 1

(* Exclusive or of two bytes. *)
XorBit(a, b, weight) == Bit(HasBit(a, weight) # HasBit(b, weight), weight)
Xor(a, b) ==
  XorBit(a, b, 128) + XorBit(a, b, 64) + XorBit(a, b, 32) + XorBit(a, b, 16)
    + XorBit(a, b, 8) + XorBit(a, b, 4) + XorBit(a, b, 2) + XorBit(a, b, 1)

(* n as k bytes, most significant first; and the value of such bytes, of     *)
(* which all but the last four are 0.                                        *)
Weights == <<1, 256, 65536, 16777216>>
BigEndian(n, k) == [i \in 1 .. k |-> IF k - i > 3 THEN 0 ELSE (n \div Weights[k - i + 1]) % 256]
Value(bytes) ==
  LET last(j) == IF j > Len(bytes) THEN 0 ELSE bytes[Len(bytes) - j + 1] * Weights[j]
  IN  last(4) + last(3) + last(2) + last(1)

WsError == [ok |-> FALSE]

(* Mutant: off by one at the first limit. *)
LengthBytesOffByOne(n) ==
  IF n <= 126 THEN <<n>> ELSE IF n <= 65535 THEN <<126>> \o BigEndian(n, 2) ELSE <<127>> \o BigEndian(n, 8)

LengthBytes(n) ==
  IF n < 126 THEN <<n>> ELSE IF n <= 65535 THEN <<126>> \o BigEndian(n, 2) ELSE <<127>> \o BigEndian(n, 8)

(* c_rest_websocket_serialize_frame_header into a buffer of max bytes; no    *)
(* bytes when it is too small.                                               *)
WsSerialize(h, max) ==
  LET len == LengthBytes(h.length)
      bytes == <<h.opcode + Bit(h.fin, 128) + Bit(h.rsv1, 64) + Bit(h.rsv2, 32) + Bit(h.rsv3, 16),
                 Head(len) + Bit(h.masked, 128)>>
                 \o Tail(len) \o (IF h.masked THEN h.key ELSE <<>>)
  IN  IF max < Len(bytes) THEN <<>> ELSE bytes

(* How many bytes of extended length a second byte announces. *)
Extended(b2) == LET n == b2 % 128 IN IF n = 126 THEN 2 ELSE IF n = 127 THEN 8 ELSE 0

(* c_rest_websocket_parse_frame_header on the bytes that are there *)
WsParse(data) ==
  IF Len(data) < 2 THEN WsError
  ELSE LET b1 == data[1]
           b2 == data[2]
           masked == HasBit(b2, 128)
           ext == Extended(b2)
           offset == 2 + ext
           size == offset + (IF masked THEN 4 ELSE 0)
       IN  IF Len(data) < size \/ (ext = 8 /\ \E i \in 3 .. 6 : data[i] # 0) THEN WsError
           ELSE [ok |-> TRUE, fin |-> HasBit(b1, 128), rsv1 |-> HasBit(b1, 64), rsv2 |-> HasBit(b1, 32),
                 rsv3 |-> HasBit(b1, 16), opcode |-> b1 % 16, masked |-> masked,
                 length |-> IF ext = 0 THEN b2 % 128 ELSE Value(SubSeq(data, 3, offset)),
                 key |-> IF masked THEN SubSeq(data, offset + 1, size) ELSE <<0, 0, 0, 0>>,
                 headerLength |-> size]

(* c_rest_websocket_unmask_payload, which also masks *)
Unmask(payload, key) == [i \in DOMAIN payload |-> Xor(payload[i], key[((i - 1) % 4) + 1])]
=============================================================================
