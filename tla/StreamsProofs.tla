----------------------------- MODULE StreamsProofs -----------------------------
(***************************************************************************)
(* What one side writes the other reads, for messages of any length.       *)
(***************************************************************************)
EXTENDS Streams, Base64, SequenceTheorems, FiniteSetTheorems, WellFoundedInduction, TLAPS

(* Three octets as a number, and what is taken from it by place. *)
IsGroup(x) == x \in Nat /\ x < 16777216
Sextet(x, k) == (x \div SextetWeights[k + 1]) % 64
OctetOf(x, k) == (x \div OctetWeights[k + 1]) % 256
Joined(a, b, c, d) == a * 262144 + b * 4096 + c * 64 + d

-----------------------------------------------------------------------------
(* Base64.  A number by its quotient and its remainder, for the divisors of  *)
(* a group.                                                                  *)
LEMMA Quotients ==
  ASSUME NEW q \in Nat, NEW r \in Nat
  PROVE  /\ r < 64 => (64 * q + r) \div 64 = q /\ (64 * q + r) % 64 = r
         /\ r < 256 => (256 * q + r) \div 256 = q /\ (256 * q + r) % 256 = r
         /\ r < 4096 => (4096 * q + r) \div 4096 = q
         /\ r < 65536 => (65536 * q + r) \div 65536 = q
         /\ r < 262144 => (262144 * q + r) \div 262144 = q
<1>1. r < 64 => (64 * q + r) \div 64 = q /\ (64 * q + r) % 64 = r
  BY SMT
<1>2. r < 256 => (256 * q + r) \div 256 = q /\ (256 * q + r) % 256 = r
  BY SMT
<1>3. r < 4096 => (4096 * q + r) \div 4096 = q
  BY SMT
<1>4. r < 65536 => (65536 * q + r) \div 65536 = q
  BY SMT
<1>5. r < 262144 => (262144 * q + r) \div 262144 = q
  BY SMT
<1>. QED  BY <1>1, <1>2, <1>3, <1>4, <1>5, SMT

LEMMA DivideBy64 ==
  ASSUME NEW n \in Nat
  PROVE  \E q \in Nat, r \in 0 .. 63 : n = 64 * q + r
<1>1. n \div 64 \in Nat
  BY SMT
<1>2. n % 64 \in 0 .. 63
  BY SMT
<1>3. n = 64 * (n \div 64) + (n % 64)
  BY SMT
<1>. QED  BY <1>1, <1>2, <1>3

(* The four sextets of a group are the group, and so are its three octets.   *)
LEMMA SextetsOfNumber ==
  ASSUME NEW t \in Nat, t < 16777216
  PROVE  /\ (t \div 262144) % 64 \in 0 .. 63 /\ (t \div 4096) % 64 \in 0 .. 63
         /\ (t \div 64) % 64 \in 0 .. 63 /\ (t \div 1) % 64 \in 0 .. 63
         /\ ((t \div 262144) % 64) * 262144 + ((t \div 4096) % 64) * 4096
              + ((t \div 64) % 64) * 64 + ((t \div 1) % 64) = t
<1>1. PICK q1 \in Nat, s4 \in 0 .. 63 : t = 64 * q1 + s4
  BY DivideBy64, SMT
<1>2. PICK q2 \in Nat, s3 \in 0 .. 63 : q1 = 64 * q2 + s3
  BY DivideBy64, SMT
<1>3. PICK s1 \in Nat, s2 \in 0 .. 63 : q2 = 64 * s1 + s2
  BY DivideBy64, SMT
<1>4. s1 \in 0 .. 63
  BY <1>1, <1>2, <1>3, SMT
<1>5. t \div 1 = t /\ t % 64 = s4
  BY <1>1, Quotients, SMT
<1>6. t \div 64 = q1 /\ q1 % 64 = s3
  BY <1>1, <1>2, Quotients, SMT
<1>7. t \div 4096 = q2 /\ q2 % 64 = s2
  <2>1. t = 4096 * q2 + (64 * s3 + s4) /\ 64 * s3 + s4 \in Nat /\ 64 * s3 + s4 < 4096
    BY <1>1, <1>2, SMT
  <2>. QED  BY <1>3, <2>1, Quotients, SMT
<1>8. t \div 262144 = s1 /\ s1 % 64 = s1
  <2>1. t = 262144 * s1 + (4096 * s2 + 64 * s3 + s4) /\ 4096 * s2 + 64 * s3 + s4 \in Nat
        /\ 4096 * s2 + 64 * s3 + s4 < 262144
    BY <1>1, <1>2, <1>3, SMT
  <2>2. s1 = 64 * 0 + s1 /\ s1 \in Nat /\ s1 < 64
    BY <1>4, SMT
  <2>3. s1 % 64 = s1
    BY <2>2, Quotients, SMT
  <2>. QED  BY <2>1, <2>3, Quotients, SMT
<1>9. s1 * 262144 + s2 * 4096 + s3 * 64 + s4 = t
  BY <1>1, <1>2, <1>3, SMT
<1> DEFINE d1 == (t \div 262144) % 64
           d2 == (t \div 4096) % 64
           d3 == (t \div 64) % 64
           d4 == (t \div 1) % 64
<1>10. d1 = s1 /\ d2 = s2 /\ d3 = s3 /\ d4 = s4
  BY <1>5, <1>6, <1>7, <1>8, SMT
<1> HIDE DEF d1, d2, d3, d4
<1>11. /\ d1 \in 0 .. 63 /\ d2 \in 0 .. 63 /\ d3 \in 0 .. 63 /\ d4 \in 0 .. 63
       /\ d1 * 262144 + d2 * 4096 + d3 * 64 + d4 = t
  BY <1>4, <1>9, <1>10, SMT
<1>. QED  BY <1>11, SMT DEF d1, d2, d3, d4

LEMMA SextetsOfGroup ==
  ASSUME NEW x, IsGroup(x)
  PROVE  /\ \A k \in 0 .. 3 : Sextet(x, k) \in 0 .. 63
         /\ Joined(Sextet(x, 0), Sextet(x, 1), Sextet(x, 2), Sextet(x, 3)) = x
<1>1. /\ Sextet(x, 0) = (x \div 262144) % 64 /\ Sextet(x, 1) = (x \div 4096) % 64
      /\ Sextet(x, 2) = (x \div 64) % 64 /\ Sextet(x, 3) = (x \div 1) % 64
  BY SMT DEF Sextet, SextetWeights
<1>2. x \in Nat /\ x < 16777216
  BY SMT DEF IsGroup
<1>3. /\ (x \div 262144) % 64 \in 0 .. 63 /\ (x \div 4096) % 64 \in 0 .. 63
      /\ (x \div 64) % 64 \in 0 .. 63 /\ (x \div 1) % 64 \in 0 .. 63
      /\ ((x \div 262144) % 64) * 262144 + ((x \div 4096) % 64) * 4096
           + ((x \div 64) % 64) * 64 + ((x \div 1) % 64) = x
  BY <1>2, SextetsOfNumber, SMT
<1>4. /\ Sextet(x, 0) \in 0 .. 63 /\ Sextet(x, 1) \in 0 .. 63 /\ Sextet(x, 2) \in 0 .. 63 /\ Sextet(x, 3) \in 0 .. 63
      /\ Sextet(x, 0) * 262144 + Sextet(x, 1) * 4096 + Sextet(x, 2) * 64 + Sextet(x, 3) = x
  BY <1>1, <1>3, SMT
<1>5. \A k \in 0 .. 3 : Sextet(x, k) \in 0 .. 63
  BY <1>4, SMT
<1>. QED  BY <1>4, <1>5, SMT DEF Joined

LEMMA OctetsOfGroup ==
  ASSUME NEW a \in Octet, NEW b \in Octet, NEW c \in Octet, NEW x, x = a * 65536 + b * 256 + c
  PROVE  /\ IsGroup(x)
         /\ OctetOf(x, 0) = a /\ OctetOf(x, 1) = b /\ OctetOf(x, 2) = c
         /\ b = 0 /\ c = 0 => Sextet(x, 2) = 0
         /\ c = 0 => Sextet(x, 3) = 0
<1>1. a \in Nat /\ b \in Nat /\ c \in Nat /\ a < 256 /\ b < 256 /\ c < 256 /\ x \in Nat /\ x < 16777216
  BY SMT DEF Octet
<1>2. x \div 1 = x /\ (x \div 1) % 256 = c
  <2>1. x = 256 * (256 * a + b) + c /\ 256 * a + b \in Nat
    BY <1>1, SMT
  <2>2. x \div 1 = x
    BY <1>1, SMT
  <2>3. x % 256 = c
    BY <1>1, <2>1, Quotients, SMT
  <2>. QED  BY <2>2, <2>3, SMT
<1>3. (x \div 256) % 256 = b
  <2> DEFINE m == 256 * a + b
  <2>1. x = 256 * m + c /\ m \in Nat
    BY <1>1, SMT
  <2>2. m % 256 = b
    BY <1>1, Quotients, SMT
  <2> HIDE DEF m
  <2>3. x \div 256 = m
    BY <1>1, <2>1, Quotients, SMT
  <2>. QED  BY <2>2, <2>3, SMT
<1>4. (x \div 65536) % 256 = a
  <2>1. x = 65536 * a + (256 * b + c) /\ 256 * b + c \in Nat /\ 256 * b + c < 65536
    BY <1>1, SMT
  <2>2. a = 256 * 0 + a
    BY <1>1, SMT
  <2>3. a % 256 = a
    BY <1>1, <2>2, Quotients, SMT
  <2>. QED  BY <1>1, <2>1, <2>3, Quotients, SMT
<1>5. c = 0 => (x \div 1) % 64 = 0
  <2>1. c = 0 => x = 64 * (1024 * a + 4 * b) + 0 /\ 1024 * a + 4 * b \in Nat
    BY <1>1, SMT
  <2>. QED  BY <1>2, <2>1, Quotients, SMT
<1>6. b = 0 /\ c = 0 => (x \div 64) % 64 = 0
  <2>1. b = 0 /\ c = 0 => x = 64 * (1024 * a) + 0 /\ 1024 * a = 64 * (16 * a) + 0 /\ 1024 * a \in Nat /\ 16 * a \in Nat
    BY <1>1, SMT
  <2>. QED  BY <2>1, Quotients, SMT
<1>7. /\ Sextet(x, 2) = (x \div 64) % 64 /\ Sextet(x, 3) = (x \div 1) % 64
      /\ OctetOf(x, 0) = (x \div 65536) % 256 /\ OctetOf(x, 1) = (x \div 256) % 256 /\ OctetOf(x, 2) = (x \div 1) % 256
  BY SMT DEF Sextet, SextetWeights, OctetOf, OctetWeights
<1>8. IsGroup(x)
  BY <1>1, SMT DEF IsGroup
<1>9. OctetOf(x, 0) = a /\ OctetOf(x, 1) = b /\ OctetOf(x, 2) = c
  BY <1>2, <1>3, <1>4, <1>7, SMT
<1>10. (b = 0 /\ c = 0 => Sextet(x, 2) = 0) /\ (c = 0 => Sextet(x, 3) = 0)
  BY <1>5, <1>6, <1>7, SMT
<1>. QED  BY <1>8, <1>9, <1>10, SMT

(* How long an encoded text is, by the octets of its last group.             *)
LEMMA Lengths ==
  ASSUME NEW n \in Nat
  PROVE  LET q == n \div 3
             r == n % 3
         IN  /\ q \in Nat /\ r \in 0 .. 2 /\ n = 3 * q + r
             /\ r = 0 => CeilDiv(n, 3) = q /\ Kept(n) = 4 * q
             /\ r = 1 => CeilDiv(n, 3) = q + 1 /\ Kept(n) = 4 * q + 2
             /\ r = 2 => CeilDiv(n, 3) = q + 1 /\ Kept(n) = 4 * q + 3
             /\ CeilDiv(n, 3) \in Nat /\ Kept(n) \in Nat /\ Kept(n) <= 4 * CeilDiv(n, 3)
<1> DEFINE q == n \div 3
           r == n % 3
<1>1. q \in Nat /\ r \in 0 .. 2 /\ n = 3 * q + r
  BY SMT
<1>2. r = 0 => (n + 2) \div 3 = q
  BY SMT
<1>3. r # 0 => (n + 2) \div 3 = q + 1
  BY SMT
<1>4. CeilDiv(n, 3) = (n + 2) \div 3
  BY n + 3 - 1 = n + 2 DEF CeilDiv
<1> HIDE DEF q, r
<1>5. r = 0 \/ r = 1 \/ r = 2
  BY <1>1
<1>6. (3 - 0) % 3 = 0 /\ (3 - 1) % 3 = 2 /\ (3 - 2) % 3 = 1
  BY SMT
<1>7. Kept(n) = 4 * CeilDiv(n, 3) - ((3 - r) % 3)
  BY DEF Kept, r
<1>. QED  BY <1>1, <1>2, <1>3, <1>4, <1>5, <1>6, <1>7 DEF q, r

(* The octets of a group, those that are missing too.                        *)
LEMMA OctetAtIs ==
  ASSUME NEW s \in Seq(Octet), NEW i \in Nat \ {0}
  PROVE  OctetAt(s, i) \in Octet
<1>1. CASE i <= Len(s)
  <2>1. i \in 1 .. Len(s)
    BY <1>1
  <2>. QED  BY <1>1, <2>1, ElementOfSeq DEF OctetAt
<1>2. CASE ~(i <= Len(s))
  BY <1>2 DEF OctetAt, Octet
<1>. QED  BY <1>1, <1>2

LEMMA TripleIs ==
  ASSUME NEW s \in Seq(Octet), NEW g \in Nat
  PROVE  /\ IsGroup(Triple(s, g))
         /\ OctetOf(Triple(s, g), 0) = OctetAt(s, 3 * g + 1)
         /\ OctetOf(Triple(s, g), 1) = OctetAt(s, 3 * g + 2)
         /\ OctetOf(Triple(s, g), 2) = OctetAt(s, 3 * g + 3)
         /\ OctetAt(s, 3 * g + 2) = 0 /\ OctetAt(s, 3 * g + 3) = 0 => Sextet(Triple(s, g), 2) = 0
         /\ OctetAt(s, 3 * g + 3) = 0 => Sextet(Triple(s, g), 3) = 0
<1>1. OctetAt(s, 3 * g + 1) \in Octet /\ OctetAt(s, 3 * g + 2) \in Octet /\ OctetAt(s, 3 * g + 3) \in Octet
  BY OctetAtIs
<1>2. Triple(s, g) = OctetAt(s, 3 * g + 1) * 65536 + OctetAt(s, 3 * g + 2) * 256 + OctetAt(s, 3 * g + 3)
  BY SMT DEF Triple
<1>. QED  BY <1>1, <1>2, OctetsOfGroup, SMT

(* The weights of the places, and the place of a character in its group.     *)
LEMMA PlaceInGroup ==
  ASSUME NEW g \in Nat, NEW k \in Nat
  PROVE  /\ k < 4 => ((4 * g + k + 1) - 1) \div 4 = g /\ ((4 * g + k + 1) - 1) % 4 = k
         /\ k < 3 => ((3 * g + k + 1) - 1) \div 3 = g /\ ((3 * g + k + 1) - 1) % 3 = k
<1>1. k < 4 => (4 * g + k) \div 4 = g /\ (4 * g + k) % 4 = k
  BY SMT
<1>2. k < 3 => (3 * g + k) \div 3 = g /\ (3 * g + k) % 3 = k
  BY SMT
<1>3. (4 * g + k + 1) - 1 = 4 * g + k /\ (3 * g + k + 1) - 1 = 3 * g + k
  BY SMT
<1>. QED  BY <1>1, <1>2, <1>3

(* What a text is encoded as.                                                *)
LEMMA EncodeIs ==
  ASSUME NEW s \in Seq(Octet), NEW padded \in BOOLEAN
  PROVE  LET t == Encode(s, padded)
             n == Len(s)
         IN  /\ Len(t) = (IF padded THEN 4 * CeilDiv(n, 3) ELSE Kept(n))
             /\ DOMAIN t = 1 .. Len(t) /\ Len(t) \in Nat
             /\ \A i \in 1 .. Len(t) : i > Kept(n) => t[i] = Pad
             /\ \A g \in Nat, k \in 0 .. 3 :
                  LET i == 4 * g + k + 1
                  IN  i <= Len(t) /\ i <= Kept(n) =>
                        t[i] = Sextet(Triple(s, g), k)
<1> DEFINE t == Encode(s, padded)
           n == Len(s)
           size == IF padded THEN 4 * CeilDiv(n, 3) ELSE Kept(n)
           Char(i) == IF i > Kept(n) THEN Pad ELSE Sextet(Triple(s, (i - 1) \div 4), (i - 1) % 4)
<1>1. n \in Nat /\ size \in Nat
  <2>1. n \in Nat
    BY LenProperties
  <2>2. CeilDiv(n, 3) \in Nat /\ Kept(n) \in Nat
    BY <2>1, Lengths
  <2>. QED  BY <2>1, <2>2
<1>2. t = [i \in 1 .. size |-> Char(i)]
  BY DEF Encode, Sextet
<1> HIDE DEF size, t, Char
<1>3. DOMAIN t = 1 .. size /\ Len(t) = size /\ \A i \in 1 .. size : t[i] = Char(i)
  BY <1>1, <1>2
<1>4. ASSUME NEW i \in 1 .. size, i > Kept(n) PROVE t[i] = Pad
  BY <1>3, <1>4 DEF Char
<1>5. ASSUME NEW g \in Nat, NEW k \in 0 .. 3, 4 * g + k + 1 <= size, 4 * g + k + 1 <= Kept(n)
      PROVE  t[4 * g + k + 1] = Sextet(Triple(s, g), k)
  <2> DEFINE i == 4 * g + k + 1
  <2>1. (i - 1) \div 4 = g /\ (i - 1) % 4 = k /\ i \in Nat \ {0}
    BY PlaceInGroup
  <2>2. Kept(n) \in Nat
    BY <1>1, Lengths
  <2>3. i \in 1 .. size
    BY <1>1, <1>5
  <2>4. i <= Kept(n)
    BY <1>5
  <2> HIDE DEF i
  <2>5. ~(i > Kept(n))
    BY <2>1, <2>2, <2>4
  <2>6. t[i] = Sextet(Triple(s, g), k)
    BY <1>3, <2>1, <2>3, <2>5 DEF Char
  <2>. QED  BY <2>6 DEF i
<1>6. Len(t) = size /\ DOMAIN t = 1 .. Len(t) /\ Len(t) \in Nat
  BY <1>1, <1>3
<1>7. size = IF padded THEN 4 * CeilDiv(n, 3) ELSE Kept(n)
  BY DEF size
<1>. QED  BY <1>4, <1>5, <1>6, <1>7 DEF t

(* What a group is decoded as, of what it was encoded as: a character that   *)
(* was left out, or is an equals sign, stands for a sextet that is 0.        *)
LEMMA SextetIs ==
  ASSUME NEW s \in Seq(Octet), NEW padded \in BOOLEAN,
         NEW g \in Nat, g < CeilDiv(Len(s), 3), NEW k \in 0 .. 3
  PROVE  SextetAt(Encode(s, padded), 4 * g + k + 1) = Sextet(Triple(s, g), k)
<1> DEFINE t == Encode(s, padded)
           n == Len(s)
           i == 4 * g + k + 1
           x == Sextet(Triple(s, g), k)
<1>1. n \in Nat /\ Kept(n) \in Nat /\ CeilDiv(n, 3) \in Nat /\ i \in Nat \ {0} /\ Kept(n) <= 4 * CeilDiv(n, 3)
  <2>1. n \in Nat
    BY LenProperties
  <2>2. Kept(n) \in Nat /\ CeilDiv(n, 3) \in Nat /\ Kept(n) <= 4 * CeilDiv(n, 3)
    BY <2>1, Lengths
  <2>. QED  BY <2>1, <2>2
<1>2. /\ Len(t) = (IF padded THEN 4 * CeilDiv(n, 3) ELSE Kept(n))
      /\ \A j \in 1 .. Len(t) : j > Kept(n) => t[j] = Pad
      /\ i <= Len(t) /\ i <= Kept(n) => t[i] = x
  BY EncodeIs
<1>3. IsGroup(Triple(s, g))
  BY TripleIs
<1>4. x \in 0 .. 63
  BY <1>3, SextetsOfGroup
<1>5. CASE i <= Kept(n)
  <2>1. i <= Len(t)
    <3> HIDE DEF t, i, n
    <3>. QED  BY <1>1, <1>2, <1>5
  <2>2. t[i] = x
    BY <1>2, <1>5, <2>1
  <2>3. t[i] # Pad
    <3> HIDE DEF t, x, i
    <3>. QED  BY <1>4, <2>2 DEF Pad
  <2> HIDE DEF t, x, i
  <2>4. SextetAt(t, i) = x
    BY <1>1, <1>2, <2>1, <2>2, <2>3 DEF SextetAt
  <2>. QED  BY <2>4 DEF t, x, i
<1>6. CASE ~(i <= Kept(n))
  <2>1. i > Len(t) \/ t[i] = Pad
    <3>1. Len(t) \in Nat
      BY <1>1, <1>2
    <3> HIDE DEF t, i
    <3>. QED  BY <1>1, <1>2, <1>6, <3>1
  <2>2. SextetAt(t, i) = 0
    <3> HIDE DEF t, i
    <3>. QED  BY <2>1 DEF SextetAt
  <2>3. /\ k = 2 \/ k = 3
        /\ OctetAt(s, 3 * g + 3) = 0
        /\ k = 2 => OctetAt(s, 3 * g + 2) = 0
    <3>1. PICK q \in Nat, r \in 0 .. 2 :
            /\ n = 3 * q + r
            /\ r = 0 => CeilDiv(n, 3) = q /\ Kept(n) = 4 * q
            /\ r = 1 => CeilDiv(n, 3) = q + 1 /\ Kept(n) = 4 * q + 2
            /\ r = 2 => CeilDiv(n, 3) = q + 1 /\ Kept(n) = 4 * q + 3
      BY <1>1, Lengths
    <3>2. g = q /\ r # 0 /\ (r = 1 => k = 2 \/ k = 3) /\ (r = 2 => k = 3)
      BY <1>6, <3>1
    <3>3. ~(3 * g + 3 <= n) /\ (r = 1 => ~(3 * g + 2 <= n))
      BY <3>1, <3>2
    <3>. QED  BY <3>2, <3>3 DEF OctetAt
  <2>4. x = 0
    <3>1. /\ OctetAt(s, 3 * g + 2) = 0 /\ OctetAt(s, 3 * g + 3) = 0 => Sextet(Triple(s, g), 2) = 0
          /\ OctetAt(s, 3 * g + 3) = 0 => Sextet(Triple(s, g), 3) = 0
      BY TripleIs
    <3>. QED  BY <2>3, <3>1
  <2>. QED  BY <2>2, <2>4
<1>. QED  BY <1>5, <1>6

LEMMA QuadIs ==
  ASSUME NEW s \in Seq(Octet), NEW padded \in BOOLEAN,
         NEW g \in Nat, g < CeilDiv(Len(s), 3)
  PROVE  Quad(Encode(s, padded), g) = Triple(s, g)
<1> DEFINE t == Encode(s, padded)
           x == Triple(s, g)
<1>1. IsGroup(x)
  BY TripleIs
<1>2. /\ SextetAt(t, 4 * g + 0 + 1) = Sextet(x, 0) /\ SextetAt(t, 4 * g + 1 + 1) = Sextet(x, 1)
      /\ SextetAt(t, 4 * g + 2 + 1) = Sextet(x, 2) /\ SextetAt(t, 4 * g + 3 + 1) = Sextet(x, 3)
  BY SextetIs
<1> HIDE DEF t, x
<1>3. /\ SextetAt(t, 4 * g + 1) = Sextet(x, 0) /\ SextetAt(t, 4 * g + 2) = Sextet(x, 1)
      /\ SextetAt(t, 4 * g + 3) = Sextet(x, 2) /\ SextetAt(t, 4 * g + 4) = Sextet(x, 3)
  BY <1>2
<1>4. Joined(Sextet(x, 0), Sextet(x, 1), Sextet(x, 2), Sextet(x, 3)) = x
  BY <1>1, SextetsOfGroup
<1>5. Quad(t, g) = x
  BY <1>3, <1>4, SMT DEF Quad, Joined
<1>. QED  BY <1>5 DEF t, x

LEMMA SextetsAreLetters ==
  \A c \in 0 .. 63 : c # Pad /\ c # Junk
BY DEF Pad, Junk

(* Octets survive base64, with equals signs and without.                     *)
LEMMA DecodeOfEncode ==
  ASSUME NEW s \in Seq(Octet), NEW padded \in BOOLEAN
  PROVE  Decode(Encode(s, padded), ~padded) = [ok |-> TRUE, data |-> s]
<1> DEFINE t == Encode(s, padded)
           n == Len(s)
<1>1. /\ n \in Nat
      /\ Len(t) = (IF padded THEN 4 * CeilDiv(n, 3) ELSE Kept(n))
      /\ DOMAIN t = 1 .. Len(t) /\ Len(t) \in Nat
      /\ \A i \in 1 .. Len(t) : i > Kept(n) => t[i] = Pad
  BY EncodeIs
<1>2. PICK q \in Nat, r \in 0 .. 2 :
        /\ n = 3 * q + r
        /\ r = 0 => CeilDiv(n, 3) = q /\ Kept(n) = 4 * q
        /\ r = 1 => CeilDiv(n, 3) = q + 1 /\ Kept(n) = 4 * q + 2
        /\ r = 2 => CeilDiv(n, 3) = q + 1 /\ Kept(n) = 4 * q + 3
  BY <1>1, Lengths
<1>3. ASSUME NEW i \in 1 .. Len(t), i <= Kept(n)
      PROVE  t[i] \in 0 .. 63
  <2>1. PICK g \in Nat, k \in 0 .. 3 : i = 4 * g + k + 1
    <3>1. (i - 1) \div 4 \in Nat /\ (i - 1) % 4 \in 0 .. 3 /\ i - 1 = 4 * ((i - 1) \div 4) + ((i - 1) % 4)
      BY <1>1, SMT
    <3>2. i = 4 * ((i - 1) \div 4) + ((i - 1) % 4) + 1
      BY <1>1, <3>1, SMT
    <3>. QED  BY <3>1, <3>2
  <2>2. t[i] = Sextet(Triple(s, g), k)
    <3>1. 4 * g + k + 1 <= Len(t) /\ 4 * g + k + 1 <= Kept(n)
      BY <1>1, <1>3, <2>1
    <3>2. t[4 * g + k + 1] = Sextet(Triple(s, g), k)
      BY <3>1, EncodeIs
    <3>. QED  BY <2>1, <3>2
  <2>3. IsGroup(Triple(s, g))
    BY TripleIs
  <2>4. Sextet(Triple(s, g), k) \in 0 .. 63
    BY <2>3, SextetsOfGroup
  <2>. QED  BY <2>2, <2>4
<1>10. ASSUME NEW i \in 1 .. Len(t), i <= Kept(n)
       PROVE  t[i] # Pad /\ t[i] # Junk
  <2>1. t[i] \in 0 .. 63
    BY <1>3, <1>10
  <2> HIDE DEF t
  <2>. QED  BY <2>1, SextetsAreLetters
<1>11. \A i \in 1 .. Len(t) : i <= Kept(n) => t[i] # Pad /\ t[i] # Junk
  <2> HIDE DEF t, n
  <2>. QED  BY <1>10
<1> HIDE DEF t, n
<1>4. ~Malformed(t, ~padded)
  <2>1. ~(~~padded /\ Len(t) % 4 # 0)
    <3>1. padded => Len(t) = 4 * CeilDiv(n, 3) /\ CeilDiv(n, 3) \in Nat
      BY <1>1, <1>2
    <3>2. \A m \in Nat : (4 * m) % 4 = 0
      BY SMT
    <3>. QED  BY <3>1, <3>2
  <2>2. Len(t) % 4 # 1
    <3>1. \A m \in Nat : (4 * m) % 4 = 0 /\ (4 * m + 2) % 4 = 2 /\ (4 * m + 3) % 4 = 3
      BY SMT
    <3>2. Len(t) = 4 * q \/ Len(t) = 4 * (q + 1) \/ Len(t) = 4 * q + 2 \/ Len(t) = 4 * q + 3
      <4>1. r = 0 \/ r = 1 \/ r = 2
        OBVIOUS
      <4>2. padded => Len(t) = 4 * CeilDiv(n, 3)
        BY <1>1
      <4>3. ~padded => Len(t) = Kept(n)
        BY <1>1
      <4>. QED  BY <1>2, <4>1, <4>2, <4>3
    <3>. QED  BY <3>1, <3>2
  <2>3. ASSUME NEW i \in 1 .. Len(t) PROVE t[i] # Junk /\ ~(t[i] = Pad /\ (i - 1) % 4 < 2)
    <3>1. CASE i <= Kept(n)
      BY <1>11, <3>1
    <3>2. CASE ~(i <= Kept(n))
      <4>1. t[i] = Pad
        BY <1>1, <1>2, <3>2
      <4>2. i - 1 = 4 * q + 2 \/ i - 1 = 4 * q + 3
        BY <1>1, <1>2, <3>2
      <4>3. (4 * q + 2) % 4 = 2 /\ (4 * q + 3) % 4 = 3
        BY SMT
      <4>. QED  BY <4>1, <4>2, <4>3 DEF Junk, Pad
    <3>. QED  BY <3>1, <3>2
  <2>. QED  BY <1>1, <2>1, <2>2, <2>3 DEF Malformed
<1>5. DecodedLength(t, ~padded) = n
  <2>1. PadLength(t, ~padded) = 4 * CeilDiv(n, 3) - Kept(n)
    <3>1. CASE padded /\ r = 0
      <4>1. t # <<>> => t[Len(t)] # Pad
        <5> SUFFICES ASSUME t # <<>> PROVE t[Len(t)] # Pad
          OBVIOUS
        <5>1. Len(t) \in 1 .. Len(t) /\ Len(t) <= Kept(n)
          <6>1. Len(t) # 0
            BY <1>1
          <6>. QED  BY <1>1, <1>2, <3>1, <6>1
        <5>. QED  BY <1>11, <5>1
      <4>. QED  BY <1>2, <3>1, <4>1 DEF PadLength
    <3>2. CASE padded /\ r = 1
      <4>1. Len(t) = 4 * q + 4 /\ Kept(n) = 4 * q + 2 /\ CeilDiv(n, 3) = q + 1
        BY <1>1, <1>2, <3>2
      <4>2. t[Len(t)] = Pad /\ t[Len(t) - 1] = Pad /\ Len(t) > 1
        BY <1>1, <4>1
      <4>3. t # <<>>
        BY <4>1
      <4>. QED  BY <3>2, <4>1, <4>2, <4>3 DEF PadLength
    <3>3. CASE padded /\ r = 2
      <4>1. Len(t) = 4 * q + 4 /\ Kept(n) = 4 * q + 3 /\ CeilDiv(n, 3) = q + 1
        BY <1>1, <1>2, <3>3
      <4>2. t[Len(t)] = Pad
        BY <1>1, <4>1
      <4>3. t[Len(t) - 1] # Pad
        <5>1. Len(t) - 1 \in 1 .. Len(t) /\ Len(t) - 1 <= Kept(n)
          BY <4>1
        <5>. QED  BY <1>11, <5>1
      <4>4. t # <<>>
        BY <4>1
      <4>. QED  BY <3>3, <4>1, <4>2, <4>3, <4>4 DEF PadLength
    <3>4. CASE ~padded
      <4>1. Len(t) = Kept(n)
        BY <1>1, <3>4
      <4>2. t # <<>> => t[Len(t)] # Pad
        <5> SUFFICES ASSUME t # <<>> PROVE t[Len(t)] # Pad
          OBVIOUS
        <5>1. Len(t) \in 1 .. Len(t) /\ Len(t) <= Kept(n)
          <6>1. Len(t) # 0
            BY <1>1
          <6>. QED  BY <1>1, <4>1, <6>1
        <5>. QED  BY <1>11, <5>1
      <4>3. /\ (4 * q) % 4 = 0 /\ (4 * q + 2) % 4 = 2 /\ (4 * q + 3) % 4 = 3
            /\ (4 - 0) % 4 = 0 /\ (4 - 2) % 4 = 2 /\ (4 - 3) % 4 = 1
        BY SMT
      <4>4. (4 - (Len(t) % 4)) % 4 = 4 * CeilDiv(n, 3) - Kept(n)
        BY <1>2, <4>1, <4>3, SMTT(40)
      <4>. QED  BY <3>4, <4>2, <4>4 DEF PadLength
    <3>. QED  BY <1>2, <3>1, <3>2, <3>3, <3>4
  <2>2. (Len(t) + (4 * CeilDiv(n, 3) - Kept(n))) \div 4 = CeilDiv(n, 3)
    <3>1. CASE ~padded
      <4>1. Len(t) + (4 * CeilDiv(n, 3) - Kept(n)) = 4 * CeilDiv(n, 3) /\ CeilDiv(n, 3) \in Nat
        BY <1>1, <1>2, <3>1, SMTT(40)
      <4>2. \A m \in Nat : (4 * m) \div 4 = m
        BY SMT
      <4>. QED  BY <4>1, <4>2
    <3>2. CASE padded
      <4>1. PICK m \in Nat, d \in 0 .. 2 : m = CeilDiv(n, 3) /\ d = 4 * CeilDiv(n, 3) - Kept(n)
        BY <1>2
      <4>2. Len(t) + d = 4 * m + d
        BY <1>1, <3>2, <4>1
      <4>3. (4 * m + d) \div 4 = m
        BY SMT
      <4>. QED  BY <4>1, <4>2, <4>3
    <3>. QED  BY <3>1, <3>2
  <2>3. CeilDiv(n, 3) * 3 - (4 * CeilDiv(n, 3) - Kept(n)) = n
    BY <1>2
  <2>. QED  BY <2>1, <2>2, <2>3 DEF DecodedLength
<1> DEFINE Out(i) == OctetOf(Quad(t, (i - 1) \div 3), (i - 1) % 3)
<1>6. ASSUME NEW i \in 1 .. n PROVE Out(i) = s[i]
  <2>1. PICK g \in Nat, k \in 0 .. 2 : i = 3 * g + k + 1 /\ (i - 1) \div 3 = g /\ (i - 1) % 3 = k
    <3>1. (i - 1) \div 3 \in Nat /\ (i - 1) % 3 \in 0 .. 2 /\ i - 1 = 3 * ((i - 1) \div 3) + ((i - 1) % 3)
      BY <1>1, SMT
    <3>2. i = 3 * ((i - 1) \div 3) + ((i - 1) % 3) + 1
      BY <1>1, <3>1, SMT
    <3>. QED  BY <3>1, <3>2
  <2>2. g < CeilDiv(n, 3)
    BY <1>1, <1>2, <2>1, SMTT(40)
  <2>3. Quad(t, g) = Triple(s, g)
    BY <2>2, QuadIs DEF t, n
  <2>4. k = 0 \/ k = 1 \/ k = 2
    OBVIOUS
  <2>5. OctetOf(Triple(s, g), k) = OctetAt(s, 3 * g + k + 1)
    <3>1. /\ OctetOf(Triple(s, g), 0) = OctetAt(s, 3 * g + 1)
          /\ OctetOf(Triple(s, g), 1) = OctetAt(s, 3 * g + 2)
          /\ OctetOf(Triple(s, g), 2) = OctetAt(s, 3 * g + 3)
      BY TripleIs
    <3>. QED  BY <2>4, <3>1
  <2>6. OctetAt(s, i) = s[i]
    BY <1>1 DEF OctetAt, n
  <2>. QED  BY <2>1, <2>3, <2>5, <2>6
<1>7. [i \in 1 .. n |-> Out(i)] = s
  <2> HIDE DEF Out
  <2>1. [i \in 1 .. n |-> Out(i)] = [i \in 1 .. n |-> s[i]]
    BY <1>6
  <2>2. s = [i \in 1 .. n |-> s[i]]
    BY LenProperties DEF n
  <2>. QED  BY <2>1, <2>2
<1>8. Decode(t, ~padded) = [ok |-> TRUE, data |-> [i \in 1 .. DecodedLength(t, ~padded) |-> Out(i)]]
  <2>. QED  BY <1>4 DEF Decode, OctetOf
<1> HIDE DEF Out
<1>9. Decode(t, ~padded) = [ok |-> TRUE, data |-> s]
  BY <1>5, <1>7, <1>8
<1>. QED  BY <1>9 DEF t

(* The codec of requests, and that of tokens, is this one.                   *)
LEMMA RequestCodec ==
  ASSUME NEW s, NEW b
  PROVE  Q!B64!Encode(s, b) = Encode(s, b) /\ Q!B64!Decode(s, b) = Decode(s, b)
<1>1. Q!B64!Encode(s, b) = Encode(s, b)
  BY DEF Q!B64!Encode, Encode, Q!B64!Pad, Pad, Q!B64!Kept, Kept, Q!B64!CeilDiv, CeilDiv, Q!B64!Triple, Triple,
         Q!B64!OctetAt, OctetAt, Q!B64!SextetWeights, SextetWeights
<1>2. Q!B64!Malformed(s, b) = Malformed(s, b)
  BY DEF Q!B64!Malformed, Malformed, Q!B64!Pad, Pad, Q!B64!Junk, Junk
<1>3. Q!B64!DecodedLength(s, b) = DecodedLength(s, b)
  BY DEF Q!B64!DecodedLength, DecodedLength, Q!B64!PadLength, PadLength, Q!B64!Pad, Pad
<1>4. \A g : Q!B64!Quad(s, g) = Quad(s, g)
  BY DEF Q!B64!Quad, Quad, Q!B64!SextetAt, SextetAt, Q!B64!Pad, Pad
<1>5. Q!B64!OctetWeights = OctetWeights
  BY DEF Q!B64!OctetWeights, OctetWeights
<1>6. Q!B64!Decode(s, b) = Decode(s, b)
  BY <1>2, <1>3, <1>4, <1>5 DEF Q!B64!Decode, Decode
<1>. QED  BY <1>1, <1>6

LEMMA TokenCodec ==
  ASSUME NEW s, NEW b
  PROVE  J!B64!Encode(s, b) = Encode(s, b) /\ J!B64!Decode(s, b) = Decode(s, b)
<1>1. J!B64!Encode(s, b) = Encode(s, b)
  BY DEF J!B64!Encode, Encode, J!B64!Pad, Pad, J!B64!Kept, Kept, J!B64!CeilDiv, CeilDiv, J!B64!Triple, Triple,
         J!B64!OctetAt, OctetAt, J!B64!SextetWeights, SextetWeights
<1>2. J!B64!Malformed(s, b) = Malformed(s, b)
  BY DEF J!B64!Malformed, Malformed, J!B64!Pad, Pad, J!B64!Junk, Junk
<1>3. J!B64!DecodedLength(s, b) = DecodedLength(s, b)
  BY DEF J!B64!DecodedLength, DecodedLength, J!B64!PadLength, PadLength, J!B64!Pad, Pad
<1>4. \A g : J!B64!Quad(s, g) = Quad(s, g)
  BY DEF J!B64!Quad, Quad, J!B64!SextetAt, SextetAt, J!B64!Pad, Pad
<1>5. J!B64!OctetWeights = OctetWeights
  BY DEF J!B64!OctetWeights, OctetWeights
<1>6. J!B64!Decode(s, b) = Decode(s, b)
  BY <1>2, <1>3, <1>4, <1>5 DEF J!B64!Decode, Decode
<1>. QED  BY <1>1, <1>6

-----------------------------------------------------------------------------
(* Credentials.  The first place of an octet in a text, or none.             *)
LEMMA SmallestOne ==
  ASSUME NEW i \in Int, NEW U \in SUBSET Int, i \in U, \A j \in U : i <= j
  PROVE  Q!Min(U) = i
<1> DEFINE Least(x) == x \in U /\ \A y \in U : x =< y
<1>1. Least(i)
  OBVIOUS
<1>2. ASSUME NEW x, Least(x) PROVE x = i
  <2>1. x \in Int /\ i <= x /\ x <= i
    BY <1>2
  <2>. QED  BY <2>1
<1>3. Q!Min(U) = CHOOSE x : Least(x)
  BY Zenon DEF Q!Min
<1> HIDE DEF Least
<1>. QED  BY <1>1, <1>2, <1>3

LEMMA CredentialsRead ==
  ASSUME NEW user \in Seq(Octet \ {0, 58}), NEW password \in Seq(Octet \ {0})
  PROVE  Q!UserOf([ok |-> TRUE, data |-> user \o <<58>> \o password])
           = [ok |-> TRUE, user |-> user, password |-> password]
<1> DEFINE s == user \o <<58>> \o password
           n == Len(user)
<1>1. /\ n \in Nat /\ Len(password) \in Nat
      /\ s \in Seq(Octet \ {0}) /\ Len(s) = n + 1 + Len(password)
      /\ \A i \in 1 .. n : s[i] = user[i] /\ user[i] # 58
      /\ s[n + 1] = 58
      /\ \A i \in 1 .. Len(password) : s[n + 1 + i] = password[i]
  <2>1. user \in Seq(Octet \ {0}) /\ <<58>> \in Seq(Octet \ {0})
    BY DEF Octet
  <2>. QED  BY <2>1
<1> HIDE DEF s, n
<1>2. Q!BeforeZero(s) = s
  <2>1. \A i \in 1 .. Len(s) : s[i] # 0
    BY <1>1
  <2>2. Q!SelectInSeq(s, LAMBDA o : o = 0) = 0
    BY <2>1 DEF Q!SelectInSeq
  <2>. QED  BY <2>2 DEF Q!BeforeZero, Q!UpTo
<1>3. Q!SelectInSeq(s, LAMBDA o : o = Q!COLON) = n + 1
  <2> DEFINE I == {i \in 1 .. Len(s) : s[i] = 58}
  <2>1. n + 1 \in I /\ \A j \in I : n + 1 <= j
    BY <1>1
  <2>2. Q!Min(I) = n + 1
    <3>1. n + 1 \in Int /\ I \in SUBSET Int
      BY <1>1
    <3> HIDE DEF I
    <3>. QED  BY <2>1, <3>1, SmallestOne
  <2>. QED  BY <2>1, <2>2 DEF Q!SelectInSeq, Q!COLON
<1>4. SubSeq(s, 1, n) = user
  BY <1>1 DEF s, n
<1>5. SubSeq(s, n + 2, Len(s)) = password
  BY <1>1 DEF s, n
<1>6. Q!AtColon(s, n + 1) = [ok |-> TRUE, user |-> user, password |-> password]
  <2>1. n + 1 # 0 /\ (n + 1) - 1 = n /\ (n + 1) + 1 = n + 2
    BY <1>1
  <2>. QED  BY <1>4, <1>5, <2>1 DEF Q!AtColon
<1>. QED  BY <1>2, <1>3, <1>6 DEF Q!UserOf, s

LEMMA CredentialsSurvive ==
  ASSUME NEW m, Credentials(m)
  PROVE  /\ Q!AuthBasic([auth |-> m.reader.auth]) = [ok |-> TRUE, user |-> m.sent.user, password |-> m.sent.password]
         /\ Q!AuthBasic(m.reader) = Q!AuthBasic([auth |-> m.reader.auth])
<1> DEFINE user == m.sent.user
           password == m.sent.password
           s == user \o <<58>> \o password
<1>1. /\ user \in Seq(Octet \ {0, 58}) /\ password \in Seq(Octet \ {0})
      /\ m.reader.auth = Q!BasicHeader(user, password) /\ m.reader.auth # NULL
  BY DEF Credentials, Q!COLON
<1> HIDE DEF user, password
<1>2. s \in Seq(Octet)
  <2>1. user \in Seq(Octet) /\ password \in Seq(Octet) /\ <<58>> \in Seq(Octet)
    BY <1>1 DEF Octet
  <2>. QED  BY <2>1
<1>3. Q!BasicHeader(user, password) = [scheme |-> "Basic", text |-> Encode(s, TRUE)]
  BY RequestCodec DEF Q!BasicHeader, Q!COLON
<1>4. Q!B64!Decode(Encode(s, TRUE), FALSE) = [ok |-> TRUE, data |-> s]
  <2>1. Decode(Encode(s, TRUE), ~TRUE) = [ok |-> TRUE, data |-> s]
    <3> HIDE DEF s
    <3>. QED  BY <1>2, DecodeOfEncode
  <2>2. Q!B64!Decode(Encode(s, TRUE), FALSE) = Decode(Encode(s, TRUE), FALSE)
    BY RequestCodec
  <2>. QED  BY <2>1, <2>2
<1>5. Q!UserOf([ok |-> TRUE, data |-> s]) = [ok |-> TRUE, user |-> user, password |-> password]
  BY <1>1, CredentialsRead
<1> HIDE DEF s
<1>6. m.reader.auth.scheme = "Basic" /\ m.reader.auth.text = Encode(s, TRUE)
  BY <1>1, <1>3
<1>7. Q!AuthBasic([auth |-> m.reader.auth]) = Q!UserOf([ok |-> TRUE, data |-> s])
  BY <1>1, <1>4, <1>6 DEF Q!AuthBasic
<1>8. Q!AuthBasic(m.reader) = Q!AuthBasic([auth |-> m.reader.auth])
  BY DEF Q!AuthBasic
<1>. QED  BY <1>5, <1>7, <1>8 DEF user, password

(* A hash verifies the password it was made of, and no other.                *)
LEMMA HashVerifies ==
  ASSUME NEW one, NEW other, NEW salt \in Seq(Octet)
  PROVE  J!VerifyPassword(one, J!HashPassword(other, salt)) <=> one = other
<1>0. PICK code : code = J!B64!Encode(salt, TRUE)
  OBVIOUS
<1>4. PICK read : read = J!B64!Decode(code, FALSE)
  OBVIOUS
<1>1. read = [ok |-> TRUE, data |-> salt]
  <2>1. Decode(Encode(salt, TRUE), ~TRUE) = [ok |-> TRUE, data |-> salt]
    BY DecodeOfEncode
  <2>2. read = Decode(code, FALSE) /\ code = Encode(salt, TRUE)
    BY <1>0, <1>4, TokenCodec
  <2>. QED  BY <2>1, <2>2
<1>2. J!Pbkdf2(other, salt) = J!Pbkdf2(one, salt) <=> one = other
  <2>1. /\ J!Pbkdf2(other, salt).password = other
        /\ J!Pbkdf2(one, salt).password = one
    BY DEF J!Pbkdf2
  <2>. QED  BY <2>1
<1> DEFINE hashed == J!HashPassword(other, salt)
<1>3. hashed.alg = "pbkdf2-sha256" /\ hashed.salt = J!B64!Encode(salt, TRUE) /\ hashed.hash = J!Pbkdf2(other, salt)
  BY DEF J!HashPassword
<1> HIDE DEF hashed
<1>5. read.ok /\ read.data = salt /\ hashed.salt = code
  BY <1>0, <1>1, <1>3
<1>6. J!VerifyPassword(one, hashed) <=>
        J!B64!Decode(hashed.salt, FALSE).ok /\ hashed.alg = "pbkdf2-sha256"
          /\ hashed.hash = J!Pbkdf2(one, J!B64!Decode(hashed.salt, FALSE).data)
  BY Zenon DEF J!VerifyPassword
<1>7. J!VerifyPassword(one, hashed) <=> hashed.hash = J!Pbkdf2(one, salt)
  BY <1>3, <1>4, <1>5, <1>6
<1>. QED  BY <1>2, <1>3, <1>7 DEF hashed

-----------------------------------------------------------------------------
(* A behaviour is about one message, and what it is told of credentials and  *)
(* tokens is what the code makes of them.                                    *)
OfMessage ==
  \E i \in DOMAIN Messages[kind] :
    /\ sent = Messages[kind][i].sent
    /\ kind \in {"credentials", "token"} => reader = Messages[kind][i].reader

Told ==
  /\ kind = "credentials" => \A i \in DOMAIN got : got[i] = Q!AuthBasic(reader)
  /\ kind = "token" =>
       \A i \in DOMAIN got : got[i] = J!JwtMiddleware(reader, sent.secret, {sent.payload}, R!NewResponse)

MessageInv == kind \in DOMAIN Messages /\ OfMessage /\ Told

LEMMA MessageInvariant == Spec => []MessageInv
<1>1. Init => MessageInv
  BY DEF Init, MessageInv, OfMessage, Told
<1>2. MessageInv /\ [Next]_vars => MessageInv'
  <2> SUFFICES ASSUME MessageInv, [Next]_vars PROVE MessageInv'
    OBVIOUS
  <2>1. kind' = kind /\ sent' = sent /\ (kind \in {"credentials", "token"} => reader' = reader)
    BY DEF Next, vars, ReadRequest, ReadParts, ReadEvents, ReadFrame, AskParameter, AskCredentials, AskToken, Answer
  <2>2. (kind \in DOMAIN Messages /\ OfMessage)'
    BY <2>1 DEF MessageInv, OfMessage
  <2>3. CASE AskCredentials
    BY <2>2, <2>3 DEF AskCredentials, MessageInv, Told
  <2>4. CASE AskToken
    BY <2>2, <2>4 DEF AskToken, MessageInv, Told
  <2>5. CASE ~AskCredentials /\ ~AskToken
    <3>1. kind \in {"credentials", "token"} => got' = got
      BY <2>5 DEF Next, vars, ReadRequest, ReadParts, ReadEvents, ReadFrame, AskParameter, Answer
    <3>. QED  BY <2>1, <2>2, <3>1 DEF MessageInv, Told
  <2>. QED  BY <2>3, <2>4, <2>5
<1>. QED  BY <1>1, <1>2, PTL DEF Spec

(* Credentials survive the client's header, base64 and the handler's         *)
(* reading, whatever octets they are of; and a hash verifies its password.   *)
THEOREM CredentialsSurviveTheHeader == Spec => []CredentialsRoundTrip
<1>1. MessageInv => CredentialsRoundTrip
  <2> SUFFICES ASSUME MessageInv, kind = "credentials"
               PROVE  /\ \A i \in DOMAIN got : got[i] = [ok |-> TRUE, user |-> sent.user, password |-> sent.password]
                      /\ \A padded \in BOOLEAN :
                           Q!B64!Decode(Q!B64!Encode(sent.password, padded), ~padded)
                             = [ok |-> TRUE, data |-> sent.password]
                      /\ \A password \in {sent.user, sent.password} :
                           J!VerifyPassword(password, J!HashPassword(sent.password, <<7, 0, 255, 9>>))
                             <=> password = sent.password
    BY DEF CredentialsRoundTrip
  <2>1. PICK i \in DOMAIN Messages["credentials"] :
          sent = Messages["credentials"][i].sent /\ reader = Messages["credentials"][i].reader
    BY DEF MessageInv, OfMessage
  <2>2. PICK m : m = Messages["credentials"][i]
    OBVIOUS
  <2>3. Credentials(m)
    BY <2>1, <2>2, MessagesAssumption DEF MessageInv
  <2>4. \A j \in DOMAIN got : got[j] = Q!AuthBasic(m.reader)
    BY <2>1, <2>2 DEF MessageInv, Told
  <2>5. Q!AuthBasic(m.reader) = [ok |-> TRUE, user |-> sent.user, password |-> sent.password]
    BY <2>1, <2>2, <2>3, CredentialsSurvive
  <2>6. sent.password \in Seq(Octet)
    BY <2>1, <2>2, <2>3 DEF Credentials
  <2>7. ASSUME NEW padded \in BOOLEAN
        PROVE  Q!B64!Decode(Q!B64!Encode(sent.password, padded), ~padded) = [ok |-> TRUE, data |-> sent.password]
    BY <2>6, RequestCodec, DecodeOfEncode
  <2>8. <<7, 0, 255, 9>> \in Seq(Octet)
    BY DEF Octet
  <2>9. ASSUME NEW password
        PROVE  J!VerifyPassword(password, J!HashPassword(sent.password, <<7, 0, 255, 9>>)) <=> password = sent.password
    <3>1. PICK salt \in Seq(Octet) : salt = <<7, 0, 255, 9>>
      BY <2>8
    <3>2. J!VerifyPassword(password, J!HashPassword(sent.password, salt)) <=> password = sent.password
      BY HashVerifies
    <3>. QED  BY <3>1, <3>2, Zenon
  <2>10. \A j \in DOMAIN got : got[j] = [ok |-> TRUE, user |-> sent.user, password |-> sent.password]
    BY <2>4, <2>5
  <2>. QED  BY <2>7, <2>9, <2>10
<1>. QED  BY <1>1, MessageInvariant, PTL

-----------------------------------------------------------------------------
(* The headers of a response.  The smallest number of a set is there, and    *)
(* induction up to n is by the least number that a property would not hold   *)
(* for.                                                                      *)
LEMMA Least ==
  ASSUME NEW U \in SUBSET Nat, U # {}
  PROVE  \E i \in U : \A j \in U : i <= j
<1>1. PICK i \in U : \A j \in U : ~(<<j, i>> \in OpToRel(<, Nat))
  BY NatLessThanWellFounded, WFMin
<1>2. ASSUME NEW j \in U PROVE i <= j
  <2>1. i \in Nat /\ j \in Nat /\ ~(<<j, i>> \in OpToRel(<, Nat))
    BY <1>1
  <2>. QED  BY <2>1 DEF OpToRel
<1>. QED  BY <1>2

LEMMA Counting ==
  ASSUME NEW n \in Nat, NEW T, 0 \in T, \A i \in 1 .. n : i - 1 \in T => i \in T
  PROVE  0 .. n \subseteq T
<1> SUFFICES ASSUME (0 .. n) \ T # {} PROVE FALSE
  OBVIOUS
<1>1. (0 .. n) \ T \in SUBSET Nat
  OBVIOUS
<1>2. PICK i \in (0 .. n) \ T : \A j \in (0 .. n) \ T : i <= j
  BY <1>1, Least
<1>3. i \in 1 .. n /\ i - 1 \in 0 .. n /\ ~(i <= i - 1)
  BY <1>2
<1>. QED  BY <1>2, <1>3

HeaderValue(headers, key) ==
  IF R!IndexOf(headers, key) = 0 THEN NULL ELSE headers[R!IndexOf(headers, key)][2]
HasHeader(headers, key) == R!IndexOf(headers, key) # 0
IsList(headers) == \E H : headers \in Seq(H)

LEMMA IndexIs ==
  ASSUME NEW H, NEW headers \in Seq(H), NEW key
  PROVE  LET i == R!IndexOf(headers, key)
         IN  /\ i \in 0 .. Len(headers)
             /\ i = 0 => \A j \in 1 .. Len(headers) : headers[j][1] # key
             /\ i # 0 => headers[i][1] = key /\ \A j \in 1 .. (i - 1) : headers[j][1] # key
<1> DEFINE I == {j \in 1 .. Len(headers) : headers[j][1] = key}
           i == R!IndexOf(headers, key)
<1>1. i = IF I # {} THEN R!Min(I) ELSE 0
  BY DEF R!IndexOf, R!SelectInSeq
<1>2. Len(headers) \in Nat /\ I \in SUBSET Nat
  OBVIOUS
<1>3. CASE I = {}
  BY <1>1, <1>2, <1>3
<1>4. CASE I # {}
  <2> DEFINE First(x) == x \in I /\ \A y \in I : x =< y
  <2>1. PICK x \in I : \A y \in I : x <= y
    BY <1>2, <1>4, Least
  <2>2. R!Min(I) = CHOOSE y : First(y)
    BY Zenon DEF R!Min
  <2>3. First(x)
    BY <2>1
  <2>4. First(R!Min(I))
    <3> HIDE DEF First
    <3>. QED  BY <2>2, <2>3
  <2>5. i \in I /\ \A y \in I : i <= y
    BY <1>1, <1>4, <2>4
  <2> HIDE DEF i
  <2>6. i \in 1 .. Len(headers) /\ headers[i][1] = key
    BY <2>5
  <2>7. ASSUME NEW j \in 1 .. (i - 1) PROVE headers[j][1] # key
    <3>1. j \in 1 .. Len(headers) /\ ~(i <= j)
      BY <1>2, <2>6
    <3>. QED  BY <2>5, <3>1
  <2>. QED  BY <1>2, <2>6, <2>7 DEF i
<1>. QED  BY <1>3, <1>4

(* A header put before the others, and one in the place of the one with its  *)
(* key.                                                                      *)
LEMMA PutBefore ==
  ASSUME NEW headers, IsList(headers), NEW key, NEW value
  PROVE  LET more == <<<<key, value>>>> \o headers
         IN  /\ IsList(more)
             /\ HasHeader(more, key) /\ HeaderValue(more, key) = value
             /\ \A k : k # key => (HasHeader(more, k) <=> HasHeader(headers, k))
                                  /\ HeaderValue(more, k) = HeaderValue(headers, k)
<1> DEFINE pair == <<key, value>>
           more == <<pair>> \o headers
<1>1. PICK H : headers \in Seq(H)
  BY DEF IsList
<1>2. PICK G : G = H \cup {pair}
  OBVIOUS
<1>3. headers \in Seq(G) /\ <<pair>> \in Seq(G)
  BY <1>1, <1>2
<1>4. pair[1] = key /\ pair[2] = value
  OBVIOUS
<1> HIDE DEF pair
<1>5. /\ more \in Seq(G) /\ Len(headers) \in Nat /\ Len(more) = Len(headers) + 1
      /\ more[1] = pair
      /\ \A j \in 1 .. Len(headers) : more[j + 1] = headers[j]
  BY <1>3
<1> HIDE DEF more
<1>6. R!IndexOf(more, key) = 1
  BY <1>4, <1>5, IndexIs
<1>7. ASSUME NEW k, k # key
      PROVE  /\ R!IndexOf(headers, k) = 0 => R!IndexOf(more, k) = 0
             /\ R!IndexOf(headers, k) # 0 => R!IndexOf(more, k) = R!IndexOf(headers, k) + 1
  <2> DEFINE i == R!IndexOf(headers, k)
             j == R!IndexOf(more, k)
  <2>1. /\ i \in 0 .. Len(headers)
        /\ i = 0 => \A n \in 1 .. Len(headers) : headers[n][1] # k
        /\ i # 0 => headers[i][1] = k /\ \A n \in 1 .. (i - 1) : headers[n][1] # k
    BY <1>3, IndexIs
  <2>2. /\ j \in 0 .. Len(more)
        /\ j = 0 => \A n \in 1 .. Len(more) : more[n][1] # k
        /\ j # 0 => more[j][1] = k /\ \A n \in 1 .. (j - 1) : more[n][1] # k
    BY <1>5, IndexIs
  <2> HIDE DEF i, j
  <2>3. j # 1
    BY <1>4, <1>5, <1>7, <2>2
  <2>4. j # 0 => i # 0 /\ i <= j - 1
    <3> SUFFICES ASSUME j # 0 PROVE i # 0 /\ i <= j - 1
      OBVIOUS
    <3>1. j - 1 \in 1 .. Len(headers) /\ headers[j - 1][1] = k
      BY <1>5, <2>2, <2>3
    <3>. QED  BY <1>5, <2>1, <3>1
  <2>5. i # 0 => j # 0 /\ j <= i + 1
    <3> SUFFICES ASSUME i # 0 PROVE j # 0 /\ j <= i + 1
      OBVIOUS
    <3>1. i \in 1 .. Len(headers) /\ i + 1 \in 1 .. Len(more) /\ more[i + 1][1] = k
      BY <1>5, <2>1
    <3>. QED  BY <1>5, <2>2, <3>1
  <2>6. (i = 0 => j = 0) /\ (i # 0 => j = i + 1)
    BY <1>5, <2>1, <2>2, <2>4, <2>5
  <2>. QED  BY <2>6 DEF i, j
<1>8. HasHeader(more, key) /\ HeaderValue(more, key) = value
  BY <1>4, <1>5, <1>6 DEF HasHeader, HeaderValue
<1>9. ASSUME NEW k, k # key
      PROVE  (HasHeader(more, k) <=> HasHeader(headers, k)) /\ HeaderValue(more, k) = HeaderValue(headers, k)
  <2>1. R!IndexOf(headers, k) \in 0 .. Len(headers)
    BY <1>3, IndexIs
  <2>. QED  BY <1>5, <1>7, <1>9, <2>1 DEF HasHeader, HeaderValue
<1>10. IsList(more)
  BY <1>5 DEF IsList
<1>. QED  BY <1>8, <1>9, <1>10 DEF more, pair

LEMMA PutInPlace ==
  ASSUME NEW headers, IsList(headers), NEW key, HasHeader(headers, key), NEW value
  PROVE  LET other == [headers EXCEPT ![R!IndexOf(headers, key)] = <<key, value>>]
         IN  /\ IsList(other)
             /\ \A k : HasHeader(other, k) <=> HasHeader(headers, k)
             /\ HeaderValue(other, key) = value
             /\ \A k : k # key => HeaderValue(other, k) = HeaderValue(headers, k)
<1> DEFINE pair == <<key, value>>
           at == R!IndexOf(headers, key)
           other == [headers EXCEPT ![at] = pair]
<1>1. PICK H : headers \in Seq(H)
  BY DEF IsList
<1>2. PICK G : G = H \cup {pair}
  OBVIOUS
<1>3. headers \in Seq(G) /\ pair \in G
  BY <1>1, <1>2
<1>4. pair[1] = key /\ pair[2] = value
  OBVIOUS
<1>5. at \in 1 .. Len(headers) /\ headers[at][1] = key /\ \A n \in 1 .. (at - 1) : headers[n][1] # key
  BY <1>3, IndexIs DEF HasHeader
<1> HIDE DEF pair, at
<1>6. /\ other \in Seq(G) /\ Len(headers) \in Nat /\ Len(other) = Len(headers)
      /\ other[at] = pair
      /\ \A j \in 1 .. Len(headers) : j # at => other[j] = headers[j]
  BY <1>3, <1>5
<1> HIDE DEF other
<1>7. \A j \in 1 .. Len(headers) : other[j][1] = headers[j][1]
  BY <1>4, <1>5, <1>6
<1>8. ASSUME NEW k
      PROVE  R!IndexOf(other, k) = R!IndexOf(headers, k) /\ R!IndexOf(headers, k) \in 0 .. Len(headers)
  <2> DEFINE i == R!IndexOf(headers, k)
             j == R!IndexOf(other, k)
  <2>1. /\ i \in 0 .. Len(headers)
        /\ i = 0 => \A n \in 1 .. Len(headers) : headers[n][1] # k
        /\ i # 0 => headers[i][1] = k /\ \A n \in 1 .. (i - 1) : headers[n][1] # k
    BY <1>3, IndexIs
  <2>2. /\ j \in 0 .. Len(other)
        /\ j = 0 => \A n \in 1 .. Len(other) : other[n][1] # k
        /\ j # 0 => other[j][1] = k /\ \A n \in 1 .. (j - 1) : other[n][1] # k
    BY <1>6, IndexIs
  <2> HIDE DEF i, j
  <2>3. j # 0 => headers[j][1] = k /\ i # 0
    BY <1>6, <1>7, <2>1, <2>2
  <2>4. i # 0 => other[i][1] = k /\ j # 0
    BY <1>6, <1>7, <2>1, <2>2
  <2>5. i = j
    BY <1>6, <1>7, <2>1, <2>2, <2>3, <2>4
  <2>. QED  BY <2>1, <2>5 DEF i, j
<1>9. ASSUME NEW k
      PROVE  HasHeader(other, k) <=> HasHeader(headers, k)
  BY <1>8 DEF HasHeader
<1>10. HeaderValue(other, key) = value
  <2>1. R!IndexOf(other, key) = at /\ at # 0
    BY <1>5, <1>8 DEF at
  <2>. QED  BY <1>4, <1>6, <2>1 DEF HeaderValue
<1>11. ASSUME NEW k, k # key
       PROVE  HeaderValue(other, k) = HeaderValue(headers, k)
  <2> DEFINE i == R!IndexOf(headers, k)
  <2>1. R!IndexOf(other, k) = i /\ i \in 0 .. Len(headers) /\ (i # 0 => headers[i][1] = k)
    BY <1>3, <1>8, IndexIs
  <2> HIDE DEF i
  <2>2. i # 0 => i # at /\ other[i] = headers[i]
    BY <1>5, <1>6, <1>11, <2>1
  <2>3. HeaderValue(other, k) = IF i = 0 THEN NULL ELSE other[i][2]
    BY <2>1 DEF HeaderValue
  <2>4. HeaderValue(headers, k) = IF i = 0 THEN NULL ELSE headers[i][2]
    BY DEF HeaderValue, i
  <2>. QED  BY <2>2, <2>3, <2>4
<1>12. IsList(other)
  BY <1>6 DEF IsList
<1>. QED  BY <1>9, <1>10, <1>11, <1>12 DEF other, pair, at

(* A response, the fields an operation leaves alone, and its headers but for *)
(* those with some keys.                                                     *)
Fields == {"status", "headers", "body", "bodyLen", "chunked", "headersSent", "wire", "rc"}
IsRes(r) == DOMAIN r = Fields /\ IsList(r.headers)
SameAnswer(s, r) == s.status = r.status /\ s.body = r.body /\ s.bodyLen = r.bodyLen /\ s.chunked = r.chunked
SameWire(s, r) == s.headersSent = r.headersSent /\ s.wire = r.wire
SameHeadersBut(s, r, keys) ==
  \A k : k \notin keys => (HasHeader(s.headers, k) <=> HasHeader(r.headers, k))
                          /\ HeaderValue(s.headers, k) = HeaderValue(r.headers, k)

LEMMA RcUpdated ==
  ASSUME NEW r, IsRes(r), NEW x, NEW s, s = [r EXCEPT !.rc = x]
  PROVE  IsRes(s) /\ SameAnswer(s, r) /\ SameWire(s, r) /\ s.headers = r.headers /\ s.rc = x
BY DEF Fields, IsRes, SameAnswer, SameWire

LEMMA WireUpdated ==
  ASSUME NEW r, IsRes(r), NEW x, NEW s, s = [r EXCEPT !.wire = x]
  PROVE  IsRes(s) /\ SameAnswer(s, r) /\ s.headersSent = r.headersSent /\ s.headers = r.headers /\ s.rc = r.rc
         /\ s.wire = x
BY DEF Fields, IsRes, SameAnswer

LEMMA SentUpdated ==
  ASSUME NEW r, IsRes(r), NEW x, NEW s, s = [r EXCEPT !.headersSent = x]
  PROVE  IsRes(s) /\ SameAnswer(s, r) /\ s.wire = r.wire /\ s.headers = r.headers /\ s.rc = r.rc
         /\ s.headersSent = x
BY DEF Fields, IsRes, SameAnswer

LEMMA HeadersUpdated ==
  ASSUME NEW r, IsRes(r), NEW x, IsList(x), NEW s, s = [r EXCEPT !.headers = x]
  PROVE  IsRes(s) /\ SameAnswer(s, r) /\ SameWire(s, r) /\ s.rc = r.rc /\ s.headers = x
BY DEF Fields, IsRes, SameAnswer, SameWire

LEMMA StatusUpdated ==
  ASSUME NEW r, IsRes(r), NEW x, NEW s, s = [r EXCEPT !.status = x]
  PROVE  IsRes(s) /\ s.status = x /\ s.body = r.body /\ s.bodyLen = r.bodyLen /\ s.chunked = r.chunked
         /\ SameWire(s, r) /\ s.headers = r.headers /\ s.rc = r.rc
BY DEF Fields, IsRes, SameWire

LEMMA BodyUpdated ==
  ASSUME NEW r, IsRes(r), NEW x, NEW s, s = [r EXCEPT !.body = x]
  PROVE  IsRes(s) /\ s.body = x /\ s.bodyLen = r.bodyLen /\ s.chunked = r.chunked /\ s.status = r.status
         /\ SameWire(s, r) /\ s.headers = r.headers /\ s.rc = r.rc
BY DEF Fields, IsRes, SameWire

LEMMA LengthUpdated ==
  ASSUME NEW r, IsRes(r), NEW x, NEW s, s = [r EXCEPT !.bodyLen = x]
  PROVE  IsRes(s) /\ s.body = r.body /\ s.bodyLen = x /\ s.chunked = r.chunked /\ s.status = r.status
         /\ SameWire(s, r) /\ s.headers = r.headers /\ s.rc = r.rc
BY DEF Fields, IsRes, SameWire

LEMMA ChunkedUpdated ==
  ASSUME NEW r, IsRes(r), NEW x, NEW s, s = [r EXCEPT !.chunked = x]
  PROVE  IsRes(s) /\ s.body = r.body /\ s.bodyLen = r.bodyLen /\ s.chunked = x /\ s.status = r.status
         /\ SameWire(s, r) /\ s.headers = r.headers /\ s.rc = r.rc
BY DEF Fields, IsRes, SameWire

LEMMA OkIs ==
  ASSUME NEW r, IsRes(r), NEW s, s = R!Ok(r)
  PROVE  IsRes(s) /\ SameAnswer(s, r) /\ SameWire(s, r) /\ s.headers = r.headers /\ s.rc = "ok"
<1>1. PICK x : x = "ok"
  OBVIOUS
<1>2. s = [r EXCEPT !.rc = x]
  BY <1>1 DEF R!Ok
<1>3. IsRes(s) /\ SameAnswer(s, r) /\ SameWire(s, r) /\ s.headers = r.headers /\ s.rc = x
  BY <1>2, RcUpdated
<1>. QED  BY <1>1, <1>3

LEMMA ErrorIs ==
  ASSUME NEW r, IsRes(r), NEW s, s = R!Error(r)
  PROVE  IsRes(s) /\ SameAnswer(s, r) /\ SameWire(s, r) /\ s.headers = r.headers /\ s.rc = "error"
<1>1. PICK x : x = "error"
  OBVIOUS
<1>2. s = [r EXCEPT !.rc = x]
  BY <1>1 DEF R!Error
<1>3. IsRes(s) /\ SameAnswer(s, r) /\ SameWire(s, r) /\ s.headers = r.headers /\ s.rc = x
  BY <1>2, RcUpdated
<1>. QED  BY <1>1, <1>3

LEMMA SetHeaderIs ==
  ASSUME NEW r, IsRes(r), NEW key, NEW value, NEW fails \in BOOLEAN, NEW s, s = R!SetHeader(r, key, value, fails)
  PROVE  /\ IsRes(s) /\ SameAnswer(s, r) /\ SameWire(s, r) /\ SameHeadersBut(s, r, {key})
         /\ fails => s.headers = r.headers /\ s.rc = "error"
         /\ ~fails => s.rc = "ok" /\ HasHeader(s.headers, key) /\ HeaderValue(s.headers, key) = value
<1> DEFINE i == IF key = "Set-Cookie" THEN 0 ELSE R!IndexOf(r.headers, key)
           more == <<<<key, value>>>> \o r.headers
           other == [r.headers EXCEPT ![R!IndexOf(r.headers, key)] = <<key, value>>]
<1>1. IsList(r.headers)
  BY DEF IsRes
<1>2. CASE fails
  <2>1. s = R!Error(r)
    BY <1>2 DEF R!SetHeader
  <2>. QED  BY <1>2, <2>1, ErrorIs DEF SameHeadersBut
<1>5. PICK t : t = R!Ok(r)
  OBVIOUS
<1>6. IsRes(t) /\ SameAnswer(t, r) /\ SameWire(t, r) /\ t.headers = r.headers /\ t.rc = "ok"
  BY <1>5, OkIs
<1>3. CASE ~fails /\ i = 0
  <2>1. s = [t EXCEPT !.headers = more]
    BY <1>3, <1>5, <1>6 DEF R!SetHeader
  <2>2. /\ IsList(more) /\ HasHeader(more, key) /\ HeaderValue(more, key) = value
        /\ \A k : k # key => (HasHeader(more, k) <=> HasHeader(r.headers, k))
                             /\ HeaderValue(more, k) = HeaderValue(r.headers, k)
    BY <1>1, PutBefore
  <2> HIDE DEF more
  <2>3. IsRes(s) /\ SameAnswer(s, t) /\ SameWire(s, t) /\ s.rc = t.rc /\ s.headers = more
    BY <1>6, <2>1, <2>2, HeadersUpdated
  <2>4. SameAnswer(s, r) /\ SameWire(s, r) /\ s.rc = "ok"
    BY <1>6, <2>3 DEF SameAnswer, SameWire
  <2>. QED  BY <1>3, <2>2, <2>3, <2>4 DEF SameHeadersBut
<1>4. CASE ~fails /\ i # 0
  <2>1. s = [t EXCEPT !.headers = other]
    BY <1>4, <1>5, <1>6 DEF R!SetHeader
  <2>2. HasHeader(r.headers, key)
    BY <1>4 DEF HasHeader
  <2>3. /\ IsList(other) /\ HeaderValue(other, key) = value
        /\ \A k : HasHeader(other, k) <=> HasHeader(r.headers, k)
        /\ \A k : k # key => HeaderValue(other, k) = HeaderValue(r.headers, k)
    <3>1. PICK headers : headers = r.headers
      OBVIOUS
    <3>. QED  BY <1>1, <2>2, <3>1, PutInPlace
  <2> HIDE DEF other
  <2>4. IsRes(s) /\ SameAnswer(s, t) /\ SameWire(s, t) /\ s.rc = t.rc /\ s.headers = other
    BY <1>6, <2>1, <2>3, HeadersUpdated
  <2>5. SameAnswer(s, r) /\ SameWire(s, r) /\ s.rc = "ok"
    BY <1>6, <2>4 DEF SameAnswer, SameWire
  <2>. QED  BY <1>4, <2>2, <2>3, <2>4, <2>5 DEF SameHeadersBut
<1>. QED  BY <1>2, <1>3, <1>4

(* What Send leaves: an answer whose head is sent is left alone, and refused;*)
(* otherwise a success is the head and the body.                             *)
Begun(s, r) ==
  LET head == r.wire \o <<R!HeadMark(s.status, s.headers)>>
  IN  IF r.body = NULL \/ r.bodyLen = 0 THEN head ELSE head \o R!Chars(r.body)

LEMMA FramedIs ==
  ASSUME NEW r, IsRes(r), NEW fault, NEW s, s = R!Framed(r, fault)
  PROVE  /\ IsRes(s) /\ SameAnswer(s, r) /\ SameWire(s, r) /\ SameHeadersBut(s, r, {"Content-Length"})
         /\ s.rc \in {"ok", "error"}
         /\ s.rc # "ok" => s.headers = r.headers /\ fault = "length"
         /\ r.chunked => s.headers = r.headers /\ s.rc = "ok"
         /\ s.rc = "ok" /\ ~r.chunked =>
              HasHeader(s.headers, "Content-Length") /\ HeaderValue(s.headers, "Content-Length") = r.bodyLen
<1>1. CASE r.chunked
  <2>1. s = R!Ok(r)
    BY <1>1 DEF R!Framed
  <2>. QED  BY <1>1, <2>1, OkIs DEF SameHeadersBut
<1>2. CASE ~r.chunked
  <2>0. PICK key : key = "Content-Length"
    OBVIOUS
  <2>1. PICK fails \in BOOLEAN : fails = (fault = "length")
    OBVIOUS
  <2>2. s = R!SetHeader(r, key, r.bodyLen, fails)
    BY <1>2, <2>0, <2>1 DEF R!Framed
  <2>3. /\ IsRes(s) /\ SameAnswer(s, r) /\ SameWire(s, r) /\ SameHeadersBut(s, r, {key})
        /\ fails => s.headers = r.headers /\ s.rc = "error"
        /\ ~fails => s.rc = "ok" /\ HasHeader(s.headers, key) /\ HeaderValue(s.headers, key) = r.bodyLen
    BY <2>2, SetHeaderIs
  <2>. QED  BY <1>2, <2>0, <2>1, <2>3
<1>. QED  BY <1>1, <1>2

LEMMA PutHeadIs ==
  ASSUME NEW r, IsRes(r), NEW fault, NEW s, s = R!PutHead(r, fault), r.rc = "ok"
  PROVE  /\ IsRes(s) /\ SameAnswer(s, r) /\ s.headersSent = r.headersSent /\ s.headers = r.headers
         /\ s.rc \in {"ok", "error"} /\ (s.rc = "ok" <=> fault # "head")
         /\ s.rc # "ok" => s.wire = r.wire
         /\ s.rc = "ok" => s.wire = r.wire \o <<R!HeadMark(r.status, r.headers)>>
<1>1. CASE fault = "head"
  <2>1. s = R!Error(r)
    BY <1>1 DEF R!PutHead
  <2>. QED  BY <1>1, <2>1, ErrorIs DEF SameWire
<1>2. CASE fault # "head"
  <2>1. PICK w : w = r.wire \o <<R!HeadMark(r.status, r.headers)>>
    OBVIOUS
  <2>2. s = [r EXCEPT !.wire = w]
    BY <1>2, <2>1 DEF R!PutHead, R!Write
  <2>3. IsRes(s) /\ SameAnswer(s, r) /\ s.headersSent = r.headersSent /\ s.headers = r.headers /\ s.rc = r.rc
        /\ s.wire = w
    BY <2>2, WireUpdated
  <2>. QED  BY <1>2, <2>1, <2>3
<1>. QED  BY <1>1, <1>2

LEMMA PutBodyIs ==
  ASSUME NEW r, IsRes(r), NEW fault, NEW s, s = R!PutBody(r, fault), r.rc = "ok"
  PROVE  /\ IsRes(s) /\ SameAnswer(s, r) /\ s.headersSent = r.headersSent /\ s.headers = r.headers
         /\ s.rc \in {"ok", "error"} /\ (s.rc # "ok" => fault = "rest" /\ s.wire = r.wire)
         /\ s.rc = "ok" => s.wire = IF r.body = NULL \/ r.bodyLen = 0 THEN r.wire ELSE r.wire \o R!Chars(r.body)
<1>1. CASE r.body = NULL \/ r.bodyLen = 0
  <2>1. s = r
    BY <1>1 DEF R!PutBody
  <2>. QED  BY <1>1, <2>1 DEF SameAnswer
<1>2. CASE ~(r.body = NULL \/ r.bodyLen = 0) /\ fault = "rest"
  <2>1. s = R!Error(r)
    BY <1>2 DEF R!PutBody
  <2>. QED  BY <1>2, <2>1, ErrorIs DEF SameWire
<1>3. CASE ~(r.body = NULL \/ r.bodyLen = 0) /\ fault # "rest"
  <2>1. PICK w : w = r.wire \o R!Chars(r.body)
    OBVIOUS
  <2>2. s = [r EXCEPT !.wire = w]
    BY <1>3, <2>1 DEF R!PutBody, R!Write
  <2>3. IsRes(s) /\ SameAnswer(s, r) /\ s.headersSent = r.headersSent /\ s.headers = r.headers /\ s.rc = r.rc
        /\ s.wire = w
    BY <2>2, WireUpdated
  <2>. QED  BY <1>3, <2>1, <2>3
<1>. QED  BY <1>1, <1>2, <1>3

LEMMA MarkSentIs ==
  ASSUME NEW r, IsRes(r), NEW s, s = R!MarkSent(r)
  PROVE  IsRes(s) /\ SameAnswer(s, r) /\ s.wire = r.wire /\ s.headers = r.headers /\ s.rc = r.rc /\ s.headersSent
<1>1. PICK x : x = TRUE
  OBVIOUS
<1>2. s = [r EXCEPT !.headersSent = x]
  BY <1>1 DEF R!MarkSent
<1>. QED  BY <1>1, <1>2, SentUpdated

LEMMA SendIs ==
  ASSUME NEW r, IsRes(r), NEW fault, NEW s, s = R!Send(r, fault)
  PROVE  /\ IsRes(s) /\ SameAnswer(s, r) /\ SameHeadersBut(s, r, {"Content-Length"})
         /\ s.rc \in {"ok", "error"}
         /\ r.headersSent => s.rc = "error" /\ SameWire(s, r) /\ s.headers = r.headers
         /\ r.chunked => s.headers = r.headers
         /\ ~r.headersSent /\ s.rc = "ok" =>
              /\ s.headersSent /\ s.wire = Begun(s, r)
              /\ ~r.chunked => HasHeader(s.headers, "Content-Length") /\ HeaderValue(s.headers, "Content-Length") = r.bodyLen
         /\ ~r.headersSent /\ s.rc # "ok" =>
              /\ ~s.headersSent /\ fault \in {"length", "head", "rest"}
              /\ s.headers = r.headers
                 \/ (HasHeader(s.headers, "Content-Length") /\ HeaderValue(s.headers, "Content-Length") = r.bodyLen)
<1>1. CASE r.headersSent
  <2>1. s = R!Error(r)
    BY <1>1 DEF R!Send
  <2>. QED  BY <1>1, <2>1, ErrorIs DEF SameHeadersBut
<1>2. CASE ~r.headersSent
  <2>1. PICK r1 : r1 = R!Framed(r, fault)
    OBVIOUS
  <2>2. PICK r2 : r2 = R!PutHead(r1, fault)
    OBVIOUS
  <2>3. PICK r3 : r3 = R!PutBody(r2, fault)
    OBVIOUS
  <2>4. PICK r4 : r4 = R!MarkSent(r3)
    OBVIOUS
  <2>5. s = IF r1.rc # "ok" THEN r1 ELSE IF r2.rc # "ok" THEN r2 ELSE IF r3.rc # "ok" THEN r3 ELSE r4
    BY <1>2, <2>1, <2>2, <2>3, <2>4 DEF R!Send, R!Then
  <2>6. /\ IsRes(r1) /\ SameAnswer(r1, r) /\ SameWire(r1, r) /\ SameHeadersBut(r1, r, {"Content-Length"})
        /\ r1.rc \in {"ok", "error"}
        /\ r1.rc # "ok" => r1.headers = r.headers /\ fault = "length"
        /\ r.chunked => r1.headers = r.headers /\ r1.rc = "ok"
        /\ r1.rc = "ok" /\ ~r.chunked =>
             HasHeader(r1.headers, "Content-Length") /\ HeaderValue(r1.headers, "Content-Length") = r.bodyLen
    BY <2>1, FramedIs
  <2>7. CASE r1.rc # "ok"
    <3>1. s = r1
      BY <2>5, <2>7
    <3>. QED  BY <1>2, <2>6, <2>7, <3>1 DEF SameWire
  <2>8. CASE r1.rc = "ok"
    <3>1. /\ IsRes(r2) /\ SameAnswer(r2, r1) /\ r2.headersSent = r1.headersSent /\ r2.headers = r1.headers
          /\ r2.rc \in {"ok", "error"} /\ (r2.rc = "ok" <=> fault # "head")
          /\ r2.rc # "ok" => r2.wire = r1.wire
          /\ r2.rc = "ok" => r2.wire = r1.wire \o <<R!HeadMark(r1.status, r1.headers)>>
      BY <2>2, <2>6, <2>8, PutHeadIs
    <3>2. SameAnswer(r2, r) /\ ~r2.headersSent /\ SameHeadersBut(r2, r, {"Content-Length"})
      BY <1>2, <2>6, <3>1 DEF SameAnswer, SameWire, SameHeadersBut
    <3>3. CASE r2.rc # "ok"
      <4>1. s = r2
        BY <2>5, <2>8, <3>3
      <4>. QED  BY <1>2, <2>6, <2>8, <3>1, <3>2, <3>3, <4>1
    <3>4. CASE r2.rc = "ok"
      <4>1. /\ IsRes(r3) /\ SameAnswer(r3, r2) /\ r3.headersSent = r2.headersSent /\ r3.headers = r2.headers
            /\ r3.rc \in {"ok", "error"} /\ (r3.rc # "ok" => fault = "rest" /\ r3.wire = r2.wire)
            /\ r3.rc = "ok" => r3.wire = IF r2.body = NULL \/ r2.bodyLen = 0 THEN r2.wire ELSE r2.wire \o R!Chars(r2.body)
        BY <2>3, <3>1, <3>4, PutBodyIs
      <4>2. SameAnswer(r3, r) /\ ~r3.headersSent /\ SameHeadersBut(r3, r, {"Content-Length"})
        BY <3>1, <3>2, <4>1 DEF SameAnswer, SameHeadersBut
      <4>3. CASE r3.rc # "ok"
        <5>1. s = r3
          BY <2>5, <2>8, <3>4, <4>3
        <5>. QED  BY <1>2, <2>6, <2>8, <3>1, <4>1, <4>2, <4>3, <5>1
      <4>4. CASE r3.rc = "ok"
        <5>1. s = r4
          BY <2>5, <2>8, <3>4, <4>4
        <5>2. IsRes(s) /\ SameAnswer(s, r3) /\ s.wire = r3.wire /\ s.headers = r3.headers /\ s.rc = r3.rc /\ s.headersSent
          BY <2>4, <4>1, <5>1, MarkSentIs
        <5>3. SameAnswer(s, r) /\ SameHeadersBut(s, r, {"Content-Length"})
          BY <4>2, <5>2 DEF SameAnswer, SameHeadersBut
        <5>4. s.headers = r1.headers /\ s.status = r1.status
          BY <2>6, <3>1, <4>1, <5>2, <5>3 DEF SameAnswer
        <5>5. s.wire = Begun(s, r)
          <6>1. r1.wire = r.wire /\ r2.body = r.body /\ r2.bodyLen = r.bodyLen
            BY <2>6, <3>2 DEF SameAnswer, SameWire
          <6>2. r2.wire = r.wire \o <<R!HeadMark(s.status, s.headers)>>
            BY <3>1, <3>4, <5>4, <6>1
          <6>3. CASE r.body = NULL \/ r.bodyLen = 0
            <7>1. s.wire = r2.wire
              BY <4>1, <4>4, <5>2, <6>1, <6>3
            <7>. QED  BY <6>2, <6>3, <7>1 DEF Begun
          <6>4. CASE ~(r.body = NULL \/ r.bodyLen = 0)
            BY <4>1, <4>4, <5>2, <6>1, <6>2, <6>4 DEF Begun
          <6>. QED  BY <6>3, <6>4
        <5>. QED  BY <1>2, <2>6, <2>8, <4>4, <5>2, <5>3, <5>4, <5>5
      <4>. QED  BY <4>3, <4>4
    <3>. QED  BY <3>3, <3>4
  <2>. QED  BY <2>7, <2>8
<1>. QED  BY <1>1, <1>2

SameLength(s, r) ==
  /\ HasHeader(s.headers, "Content-Length") <=> HasHeader(r.headers, "Content-Length")
  /\ HeaderValue(s.headers, "Content-Length") = HeaderValue(r.headers, "Content-Length")
LengthIs(s, n) == HasHeader(s.headers, "Content-Length") /\ HeaderValue(s.headers, "Content-Length") = n

(* What a call with its own text leaves.                                     *)
SaidIs(s, r, text, fault) ==
  /\ IsRes(s) /\ s.chunked = r.chunked /\ SameHeadersBut(s, r, {"Content-Type", "Content-Length"})
  /\ s.rc \in {"ok", "error"}
  /\ r.headersSent => s.rc = "error" /\ SameWire(s, r)
  /\ ~r.headersSent /\ s.rc = "ok" =>
       /\ s.headersSent /\ s.body = text /\ s.bodyLen = Len(text) /\ LengthIs(s, Len(text))
       /\ s.wire = LET head == r.wire \o <<R!HeadMark(s.status, s.headers)>>
                   IN  IF text = NULL \/ Len(text) = 0 THEN head ELSE head \o R!Chars(text)
  /\ ~r.headersSent /\ s.rc # "ok" =>
       /\ ~s.headersSent /\ fault # "none"
       /\ \/ s.body \in {NULL, r.body} /\ s.bodyLen = r.bodyLen /\ SameLength(s, r)
          \/ s.body = text /\ s.bodyLen = Len(text) /\ (SameLength(s, r) \/ LengthIs(s, Len(text)))

LEMMA KeepTextIs ==
  ASSUME NEW r, IsRes(r), NEW text, NEW fault, NEW s, s = R!KeepText(r, text, fault), r.rc = "ok"
  PROVE  /\ IsRes(s) /\ SameWire(s, r) /\ s.headers = r.headers /\ s.chunked = r.chunked /\ s.status = r.status
         /\ s.rc \in {"ok", "error"}
         /\ s.rc = "ok" => s.body = text /\ s.bodyLen = Len(text)
         /\ s.rc # "ok" => s.body = NULL /\ s.bodyLen = r.bodyLen /\ fault = "body"
<1>1. CASE fault = "body"
  <2>1. PICK t : t = R!Error(r)
    OBVIOUS
  <2>2. IsRes(t) /\ SameAnswer(t, r) /\ SameWire(t, r) /\ t.headers = r.headers /\ t.rc = "error"
    BY <2>1, ErrorIs
  <2>3. s = [t EXCEPT !.body = NULL]
    BY <1>1, <2>1 DEF R!KeepText
  <2>4. IsRes(s) /\ s.body = NULL /\ s.bodyLen = t.bodyLen /\ s.chunked = t.chunked /\ s.status = t.status
        /\ SameWire(s, t) /\ s.headers = t.headers /\ s.rc = t.rc
    BY <2>2, <2>3, BodyUpdated
  <2>. QED  BY <1>1, <2>2, <2>4 DEF SameAnswer, SameWire
<1>2. CASE fault # "body"
  <2>1. PICK t : t = [r EXCEPT !.body = text]
    OBVIOUS
  <2>2. PICK n : n = Len(text)
    OBVIOUS
  <2>3. s = [t EXCEPT !.bodyLen = n]
    BY <1>2, <2>1, <2>2 DEF R!KeepText
  <2>4. IsRes(t) /\ t.body = text /\ t.bodyLen = r.bodyLen /\ t.chunked = r.chunked /\ t.status = r.status
        /\ SameWire(t, r) /\ t.headers = r.headers /\ t.rc = r.rc
    BY <2>1, BodyUpdated
  <2>5. IsRes(s) /\ s.body = t.body /\ s.bodyLen = n /\ s.chunked = t.chunked /\ s.status = t.status
        /\ SameWire(s, t) /\ s.headers = t.headers /\ s.rc = t.rc
    BY <2>3, <2>4, LengthUpdated
  <2>. QED  BY <1>2, <2>2, <2>4, <2>5 DEF SameWire
<1>. QED  BY <1>1, <1>2

LEMMA SayIs ==
  ASSUME NEW r, IsRes(r), ~r.chunked, NEW type, NEW text, NEW fault, NEW s, s = R!Say(r, type, text, fault)
  PROVE  SaidIs(s, r, text, fault) /\ s.status = r.status
<1>1. PICK key : key = "Content-Type"
  OBVIOUS
<1>2. PICK fails \in BOOLEAN : fails = (fault = "type")
  OBVIOUS
<1>3. PICK r1 : r1 = R!SetHeader(r, key, type, fails)
  OBVIOUS
<1>4. PICK r2 : r2 = R!KeepText(r1, text, fault)
  OBVIOUS
<1>5. PICK r3 : r3 = R!Send(r2, fault)
  OBVIOUS
<1>6. s = IF r1.rc # "ok" THEN r1 ELSE IF r2.rc # "ok" THEN r2 ELSE r3
  BY <1>1, <1>2, <1>3, <1>4, <1>5 DEF R!Say, R!Then
<1>7. /\ IsRes(r1) /\ SameAnswer(r1, r) /\ SameWire(r1, r) /\ SameHeadersBut(r1, r, {key})
      /\ fails => r1.headers = r.headers /\ r1.rc = "error"
      /\ ~fails => r1.rc = "ok"
  BY <1>3, SetHeaderIs
<1>8. SameHeadersBut(r1, r, {"Content-Type", "Content-Length"}) /\ SameLength(r1, r)
  BY <1>1, <1>7 DEF SameHeadersBut, SameLength
<1>9. CASE r1.rc # "ok"
  <2>1. s = r1 /\ r1.rc = "error" /\ fault = "type"
    BY <1>2, <1>6, <1>7, <1>9
  <2>. QED  BY <1>7, <1>8, <2>1 DEF SaidIs, SameAnswer, SameWire
<1>10. CASE r1.rc = "ok"
  <2>1. /\ IsRes(r2) /\ SameWire(r2, r1) /\ r2.headers = r1.headers /\ r2.chunked = r1.chunked /\ r2.status = r1.status
        /\ r2.rc \in {"ok", "error"}
        /\ r2.rc = "ok" => r2.body = text /\ r2.bodyLen = Len(text)
        /\ r2.rc # "ok" => r2.body = NULL /\ r2.bodyLen = r1.bodyLen /\ fault = "body"
    BY <1>4, <1>7, <1>10, KeepTextIs
  <2>2. /\ SameWire(r2, r) /\ r2.chunked = r.chunked /\ r2.status = r.status
        /\ SameHeadersBut(r2, r, {"Content-Type", "Content-Length"}) /\ SameLength(r2, r)
    BY <1>7, <1>8, <2>1 DEF SameWire, SameAnswer, SameHeadersBut, SameLength
  <2>3. CASE r2.rc # "ok"
    <3>1. s = r2 /\ r2.rc = "error" /\ fault = "body" /\ r2.bodyLen = r.bodyLen /\ r2.body = NULL
      BY <1>6, <1>7, <1>10, <2>1, <2>3 DEF SameAnswer
    <3>. QED  BY <2>1, <2>2, <3>1 DEF SaidIs, SameWire
  <2>4. CASE r2.rc = "ok"
    <3>1. s = r3
      BY <1>6, <1>10, <2>4
    <3>2. /\ IsRes(s) /\ SameAnswer(s, r2) /\ SameHeadersBut(s, r2, {"Content-Length"})
          /\ s.rc \in {"ok", "error"}
          /\ r2.headersSent => s.rc = "error" /\ SameWire(s, r2) /\ s.headers = r2.headers
          /\ ~r2.headersSent /\ s.rc = "ok" =>
               /\ s.headersSent /\ s.wire = Begun(s, r2)
               /\ ~r2.chunked => HasHeader(s.headers, "Content-Length") /\ HeaderValue(s.headers, "Content-Length") = r2.bodyLen
          /\ ~r2.headersSent /\ s.rc # "ok" =>
               /\ ~s.headersSent /\ fault \in {"length", "head", "rest"}
               /\ s.headers = r2.headers
                  \/ (HasHeader(s.headers, "Content-Length") /\ HeaderValue(s.headers, "Content-Length") = r2.bodyLen)
      BY <1>5, <2>1, <3>1, SendIs
    <3>3. s.chunked = r.chunked /\ s.status = r.status /\ SameHeadersBut(s, r, {"Content-Type", "Content-Length"})
      BY <2>2, <3>2 DEF SameAnswer, SameHeadersBut
    <3>4. r2.headersSent = r.headersSent /\ r2.wire = r.wire /\ r2.body = text /\ r2.bodyLen = Len(text) /\ ~r2.chunked
      BY <2>1, <2>2, <2>4 DEF SameWire
    <3>5. s.body = text /\ s.bodyLen = Len(text)
      BY <3>2, <3>4 DEF SameAnswer
    <3>6. r.headersSent => s.rc = "error" /\ SameWire(s, r)
      BY <3>2, <3>4 DEF SameWire
    <3>7. ~r.headersSent /\ s.rc = "ok" =>
            /\ s.headersSent /\ LengthIs(s, Len(text))
            /\ s.wire = LET head == r.wire \o <<R!HeadMark(s.status, s.headers)>>
                        IN  IF text = NULL \/ Len(text) = 0 THEN head ELSE head \o R!Chars(text)
      BY <3>2, <3>4 DEF Begun, LengthIs
    <3>8. ~r.headersSent /\ s.rc # "ok" => ~s.headersSent /\ fault # "none" /\ (SameLength(s, r) \/ LengthIs(s, Len(text)))
      <4>1. s.headers = r2.headers => SameLength(s, r)
        BY <2>2 DEF SameLength
      <4>. QED  BY <3>2, <3>4, <4>1 DEF LengthIs
    <3>. QED  BY <3>2, <3>3, <3>5, <3>6, <3>7, <3>8 DEF SaidIs
  <2>. QED  BY <2>3, <2>4
<1>. QED  BY <1>9, <1>10

LEMMA SetStatusIs ==
  ASSUME NEW r, IsRes(r), NEW status, NEW s, s = R!SetStatus(r, status)
  PROVE  IsRes(s) /\ s.body = r.body /\ s.bodyLen = r.bodyLen /\ s.chunked = r.chunked /\ SameWire(s, r)
         /\ s.headers = r.headers /\ s.rc = "ok" /\ s.status = status
<1>1. PICK t : t = R!Ok(r)
  OBVIOUS
<1>2. IsRes(t) /\ SameAnswer(t, r) /\ SameWire(t, r) /\ t.headers = r.headers /\ t.rc = "ok"
  BY <1>1, OkIs
<1>3. s = [t EXCEPT !.status = status]
  BY <1>1 DEF R!SetStatus
<1>4. IsRes(s) /\ s.status = status /\ s.body = t.body /\ s.bodyLen = t.bodyLen /\ s.chunked = t.chunked
      /\ SameWire(s, t) /\ s.headers = t.headers /\ s.rc = t.rc
  BY <1>2, <1>3, StatusUpdated
<1>. QED  BY <1>2, <1>4 DEF SameAnswer, SameWire

LEMMA OAuth2ErrorIs ==
  ASSUME NEW r, IsRes(r), ~r.chunked, NEW error, NEW fault, NEW s, s = R!OAuth2Error(r, error, fault)
  PROVE  SaidIs(s, r, <<error>>, fault)
<1>1. PICK status, type : status = 400 /\ type = "application/json"
  OBVIOUS
<1>2. PICK t : t = R!SetStatus(r, status)
  OBVIOUS
<1>3. IsRes(t) /\ t.body = r.body /\ t.bodyLen = r.bodyLen /\ t.chunked = r.chunked /\ SameWire(t, r)
      /\ t.headers = r.headers
  BY <1>2, SetStatusIs
<1>4. s = R!Say(t, type, <<error>>, fault)
  BY <1>1, <1>2 DEF R!OAuth2Error, R!JsonDict
<1>5. PICK text : text = <<error>>
  OBVIOUS
<1>6. SaidIs(s, t, text, fault)
  BY <1>3, <1>4, <1>5, SayIs
<1>7. SaidIs(s, r, text, fault)
  BY <1>3, <1>6 DEF SaidIs, SameWire, SameHeadersBut, SameLength
<1>. QED  BY <1>5, <1>7

(* What a redirect leaves: it sends the body that is there.                  *)
RedirectedIs(s, r, fault) ==
  /\ IsRes(s) /\ s.chunked = r.chunked /\ SameHeadersBut(s, r, {"Location", "Content-Length"})
  /\ s.rc \in {"ok", "error"} /\ s.body = r.body /\ s.bodyLen = r.bodyLen
  /\ r.headersSent => s.rc = "error" /\ SameWire(s, r)
  /\ ~r.headersSent /\ s.rc = "ok" => s.headersSent /\ LengthIs(s, r.bodyLen) /\ s.wire = Begun(s, r)
  /\ ~r.headersSent /\ s.rc # "ok" =>
       ~s.headersSent /\ fault # "none" /\ (SameLength(s, r) \/ LengthIs(s, r.bodyLen))

LEMMA RedirectIs ==
  ASSUME NEW r, IsRes(r), ~r.chunked, NEW url, NEW status, NEW fault, NEW s, s = R!Redirect(r, url, status, fault)
  PROVE  RedirectedIs(s, r, fault)
<1>1. PICK key : key = "Location"
  OBVIOUS
<1>2. PICK fails \in BOOLEAN : fails = (fault = "type")
  OBVIOUS
<1>3. PICK number : number = IF status \in 300 .. 399 THEN status ELSE 302
  OBVIOUS
<1>4. PICK r1 : r1 = R!SetStatus(r, number)
  OBVIOUS
<1>5. PICK r2 : r2 = R!SetHeader(r1, key, url, fails)
  OBVIOUS
<1>6. PICK r3 : r3 = R!Send(r2, fault)
  OBVIOUS
<1>7. s = IF r2.rc # "ok" THEN r2 ELSE r3
  BY <1>1, <1>2, <1>3, <1>4, <1>5, <1>6 DEF R!Redirect, R!Then
<1>8. IsRes(r1) /\ r1.body = r.body /\ r1.bodyLen = r.bodyLen /\ r1.chunked = r.chunked /\ SameWire(r1, r)
      /\ r1.headers = r.headers
  BY <1>4, SetStatusIs
<1>9. /\ IsRes(r2) /\ SameAnswer(r2, r1) /\ SameWire(r2, r1) /\ SameHeadersBut(r2, r1, {key})
      /\ fails => r2.headers = r1.headers /\ r2.rc = "error"
      /\ ~fails => r2.rc = "ok"
  BY <1>5, <1>8, SetHeaderIs
<1>10. SameHeadersBut(r2, r, {"Location", "Content-Length"}) /\ SameLength(r2, r)
  BY <1>1, <1>8, <1>9 DEF SameHeadersBut, SameLength
<1>11. SameWire(r2, r) /\ r2.body = r.body /\ r2.bodyLen = r.bodyLen /\ r2.chunked = r.chunked
  BY <1>8, <1>9 DEF SameWire, SameAnswer
<1>12. CASE r2.rc # "ok"
  <2>1. s = r2 /\ r2.rc = "error" /\ fault = "type"
    BY <1>2, <1>7, <1>9, <1>12
  <2>. QED  BY <1>9, <1>10, <1>11, <2>1 DEF RedirectedIs, SameWire
<1>13. CASE r2.rc = "ok"
  <2>1. s = r3
    BY <1>7, <1>13
  <2>2. /\ IsRes(s) /\ SameAnswer(s, r2) /\ SameHeadersBut(s, r2, {"Content-Length"})
        /\ s.rc \in {"ok", "error"}
        /\ r2.headersSent => s.rc = "error" /\ SameWire(s, r2) /\ s.headers = r2.headers
        /\ ~r2.headersSent /\ s.rc = "ok" =>
             /\ s.headersSent /\ s.wire = Begun(s, r2)
             /\ ~r2.chunked => HasHeader(s.headers, "Content-Length") /\ HeaderValue(s.headers, "Content-Length") = r2.bodyLen
        /\ ~r2.headersSent /\ s.rc # "ok" =>
             /\ ~s.headersSent /\ fault \in {"length", "head", "rest"}
             /\ s.headers = r2.headers
                \/ (HasHeader(s.headers, "Content-Length") /\ HeaderValue(s.headers, "Content-Length") = r2.bodyLen)
    BY <1>6, <1>9, <2>1, SendIs
  <2>3. s.chunked = r.chunked /\ SameHeadersBut(s, r, {"Location", "Content-Length"})
        /\ s.body = r.body /\ s.bodyLen = r.bodyLen
    BY <1>10, <1>11, <2>2 DEF SameAnswer, SameHeadersBut
  <2>4. r2.headersSent = r.headersSent /\ r2.wire = r.wire /\ ~r2.chunked
    BY <1>11 DEF SameWire
  <2>5. r.headersSent => s.rc = "error" /\ SameWire(s, r)
    BY <2>2, <2>4 DEF SameWire
  <2>6. ~r.headersSent /\ s.rc = "ok" => s.headersSent /\ LengthIs(s, r.bodyLen) /\ s.wire = Begun(s, r)
    BY <1>11, <2>2, <2>4 DEF Begun, LengthIs
  <2>7. ~r.headersSent /\ s.rc # "ok" =>
          ~s.headersSent /\ fault # "none" /\ (SameLength(s, r) \/ LengthIs(s, r.bodyLen))
    <3>1. s.headers = r2.headers => SameLength(s, r)
      BY <1>10 DEF SameLength
    <3>. QED  BY <1>11, <2>2, <2>4, <3>1 DEF LengthIs
  <2>. QED  BY <2>2, <2>3, <2>5, <2>6, <2>7 DEF RedirectedIs
<1>. QED  BY <1>12, <1>13

(* A cookie and a tag are headers, and send nothing.                         *)
NotedIs(s, r) ==
  /\ IsRes(s) /\ s.chunked = r.chunked /\ SameWire(s, r) /\ s.body = r.body /\ s.bodyLen = r.bodyLen
  /\ s.rc \in {"ok", "error"} /\ SameHeadersBut(s, r, {"Set-Cookie", "ETag"})

LEMMA CookieIs ==
  ASSUME NEW r, IsRes(r), NEW cookie, NEW fails \in BOOLEAN
  PROVE  NotedIs(R!SetCookie(r, cookie, fails), r)
<1>1. PICK key : key = "Set-Cookie"
  OBVIOUS
<1>2. PICK s : s = R!SetHeader(r, key, cookie, fails)
  OBVIOUS
<1>3. /\ IsRes(s) /\ SameAnswer(s, r) /\ SameWire(s, r) /\ SameHeadersBut(s, r, {key})
      /\ s.rc \in {"ok", "error"}
  BY <1>2, SetHeaderIs
<1>4. NotedIs(s, r)
  BY <1>1, <1>3 DEF NotedIs, SameAnswer, SameHeadersBut
<1>. QED  BY <1>1, <1>2, <1>4 DEF R!SetCookie

LEMMA EtagIs ==
  ASSUME NEW r, IsRes(r), NEW etag, NEW ifNoneMatch, NEW fails \in BOOLEAN
  PROVE  NotedIs(R!CheckEtag(r, etag, ifNoneMatch, fails), r)
<1>1. PICK key, number : key = "ETag" /\ number = 304
  OBVIOUS
<1>2. PICK r1 : r1 = R!SetHeader(r, key, etag, fails)
  OBVIOUS
<1>3. PICK r2 : r2 = R!SetStatus(r1, number)
  OBVIOUS
<1>4. PICK r3 : r3 = R!Error(r2)
  OBVIOUS
<1>5. PICK s : s = IF r1.rc = "ok" /\ ifNoneMatch = etag THEN r3 ELSE r1
  OBVIOUS
<1>6. s = R!CheckEtag(r, etag, ifNoneMatch, fails)
  BY <1>1, <1>2, <1>3, <1>4, <1>5 DEF R!CheckEtag, R!Then
<1>7. /\ IsRes(r1) /\ SameAnswer(r1, r) /\ SameWire(r1, r) /\ SameHeadersBut(r1, r, {key})
      /\ r1.rc \in {"ok", "error"}
  BY <1>2, SetHeaderIs
<1>8. NotedIs(r1, r)
  BY <1>1, <1>7 DEF NotedIs, SameAnswer, SameHeadersBut
<1>9. IsRes(r2) /\ r2.body = r1.body /\ r2.bodyLen = r1.bodyLen /\ r2.chunked = r1.chunked /\ SameWire(r2, r1)
      /\ r2.headers = r1.headers
  BY <1>3, <1>7, SetStatusIs
<1>10. IsRes(r3) /\ SameAnswer(r3, r2) /\ SameWire(r3, r2) /\ r3.headers = r2.headers /\ r3.rc = "error"
  BY <1>4, <1>9, ErrorIs
<1>11. NotedIs(r3, r)
  BY <1>8, <1>9, <1>10 DEF NotedIs, SameAnswer, SameWire, SameHeadersBut
<1>12. NotedIs(s, r)
  BY <1>5, <1>8, <1>11
<1>. QED  BY <1>6, <1>12

-----------------------------------------------------------------------------
(* The peer of an answer that is whole.                                      *)
LEMMA CharsAre ==
  ASSUME NEW T, NEW text \in Seq(T)
  PROVE  /\ R!Chars(text) \in Seq({"char"} \X T) /\ Len(R!Chars(text)) = Len(text)
         /\ R!Texts(R!Chars(text)) = text
<1>1. /\ R!Chars(text) = [i \in 1 .. Len(text) |-> <<"char", text[i]>>]
      /\ Len(text) \in Nat
  BY DEF R!Chars
<1>2. R!Chars(text) \in Seq({"char"} \X T) /\ Len(R!Chars(text)) = Len(text)
  BY <1>1
<1>3. R!Texts(R!Chars(text)) = [i \in 1 .. Len(text) |-> text[i]]
  BY <1>1 DEF R!Texts
<1>4. text = [i \in 1 .. Len(text) |-> text[i]]
  OBVIOUS
<1>. QED  BY <1>2, <1>3, <1>4

LEMMA PeerReadsWhole ==
  ASSUME NEW status, NEW headers, NEW T, NEW text \in Seq(T), NEW wire,
         ~HasHeader(headers, "Transfer-Encoding"), HeaderValue(headers, "Content-Length") = Len(text),
         \/ wire = <<>> \o <<R!HeadMark(status, headers)>> /\ text = <<>>
         \/ wire = (<<>> \o <<R!HeadMark(status, headers)>>) \o R!Chars(text)
  PROVE  R!PeerReads(wire) = R!Whole(text) /\ wire # <<>> /\ wire[1] = R!HeadMark(status, headers)
<1>1. PICK head : head = R!HeadMark(status, headers)
  OBVIOUS
<1>2. PICK chars : chars = R!Chars(text)
  OBVIOUS
<1>3. PICK M1 : M1 = {head} \cup ({"char"} \X T)
  OBVIOUS
<1>4. chars \in Seq({"char"} \X T) /\ Len(chars) = Len(text) /\ R!Texts(chars) = text
  BY <1>2, CharsAre
<1>5. chars \in Seq(M1) /\ <<head>> \in Seq(M1)
  BY <1>3, <1>4
<1>6. wire = <<head>> \o chars
  <2>1. <<>> \o <<head>> = <<head>>
    BY <1>5
  <2>2. text = <<>> => chars = <<>>
    BY <1>4
  <2>3. text = <<>> => <<head>> \o chars = <<head>>
    BY <1>5, <2>2
  <2>. QED  BY <1>1, <1>2, <2>1, <2>3
<1>7. wire # <<>> /\ wire[1] = head /\ Tail(wire) = chars
  <2>1. wire \in Seq(M1) /\ Len(wire) = 1 + Len(chars) /\ wire[1] = head
    BY <1>5, <1>6
  <2>2. /\ Tail(wire) \in Seq(M1) /\ Len(Tail(wire)) = Len(chars)
        /\ \A i \in 1 .. Len(chars) : Tail(wire)[i] = chars[i]
    BY <1>5, <1>6, <2>1
  <2>3. Tail(wire) = chars
    BY <1>5, <2>2, SeqEqual
  <2>. QED  BY <2>1, <2>3
<1>8. head[2].headers = headers
  BY <1>1 DEF R!HeadMark
<1>9. /\ R!HeaderOf(head[2], "Transfer-Encoding") = NULL
      /\ R!HeaderOf(head[2], "Content-Length") = Len(text)
  BY <1>8 DEF R!HeaderOf, HasHeader, HeaderValue
<1>10. R!PeerReads(wire) = IF Len(chars) < Len(text) THEN R!Partial(R!Texts(chars))
                           ELSE R!Whole(R!Texts(SubSeq(chars, 1, Len(text))))
  BY <1>7, <1>9, NullAssumption DEF R!PeerReads
<1>11. ~(Len(chars) < Len(text)) /\ SubSeq(chars, 1, Len(text)) = chars
  BY <1>4
<1>. QED  BY <1>1, <1>4, <1>7, <1>10, <1>11

(* What is said of a list of texts grows with the list.                      *)
Flat(ss, f) == f = [i \in 1 .. Len(ss) |-> IF i = 1 THEN ss[i] ELSE f[i - 1] \o ss[i]]

LEMMA FlatExists ==
  ASSUME NEW ss, Len(ss) \in Nat
  PROVE  \E f : Flat(ss, f)
<1> DEFINE Upto(k, f) == f = [i \in 1 .. k |-> IF i = 1 THEN ss[i] ELSE f[i - 1] \o ss[i]]
           T == {k \in 0 .. Len(ss) : \E f : Upto(k, f)}
<1>1. 0 \in T
  <2>1. \E f : Upto(0, f)
    <3>1. Upto(0, [i \in 1 .. 0 |-> 0])
      OBVIOUS
    <3>2. PICK f : f = [i \in 1 .. 0 |-> 0]
      OBVIOUS
    <3> HIDE DEF Upto
    <3>. QED  BY <3>1, <3>2
  <2> HIDE DEF Upto
  <2>. QED  BY <2>1
<1>2. ASSUME NEW k \in 1 .. Len(ss), k - 1 \in T PROVE k \in T
  <2>1. PICK f : Upto(k - 1, f)
    BY <1>2
  <2> DEFINE g == [i \in 1 .. k |-> IF i = k THEN (IF i = 1 THEN ss[i] ELSE f[i - 1] \o ss[i]) ELSE f[i]]
  <2>2. ASSUME NEW i \in 1 .. k PROVE g[i] = IF i = 1 THEN ss[i] ELSE g[i - 1] \o ss[i]
    <3>1. CASE i = k
      <4>1. i # 1 => i - 1 \in 1 .. k /\ i - 1 # k
        BY <1>2, <3>1
      <4>. QED  BY <3>1, <4>1
    <3>2. CASE i # k
      <4>1. i \in 1 .. (k - 1) /\ (i # 1 => i - 1 \in 1 .. k /\ i - 1 # k)
        BY <1>2, <3>2
      <4>2. f[i] = IF i = 1 THEN ss[i] ELSE f[i - 1] \o ss[i]
        BY <2>1, <4>1
      <4>. QED  BY <3>2, <4>1, <4>2
    <3>. QED  BY <3>1, <3>2
  <2>3. g = [i \in 1 .. k |-> g[i]]
    OBVIOUS
  <2> HIDE DEF g
  <2>4. Upto(k, g)
    BY <2>2, <2>3
  <2> HIDE DEF Upto
  <2>5. \E h : Upto(k, h)
    BY <2>4
  <2>. QED  BY <2>5
<1>3. 0 .. Len(ss) \subseteq T
  <2> HIDE DEF T
  <2>. QED  BY <1>1, <1>2, Counting
<1>4. \E f : Upto(Len(ss), f)
  <2> HIDE DEF Upto
  <2>. QED  BY <1>3
<1>. QED  BY <1>4 DEF Flat

LEMMA FlattenGrows ==
  ASSUME NEW A, NEW ss \in Seq(A), NEW B, NEW x \in Seq(B)
  PROVE  FlattenSeq(Append(ss, x)) = FlattenSeq(ss) \o x
<1> DEFINE n == Len(ss)
<1>1. PICK tt : tt = Append(ss, x)
  OBVIOUS
<1>2. n \in Nat /\ Len(tt) = n + 1 /\ tt[n + 1] = x /\ \A i \in 1 .. n : tt[i] = ss[i]
  BY <1>1
<1> DEFINE f == CHOOSE f : Flat(ss, f)
           g == CHOOSE g : Flat(tt, g)
<1>3. FlattenSeq(ss) = IF Len(ss) = 0 THEN ss ELSE f[Len(ss)]
  BY DEF FlattenSeq, Flat
<1>4. FlattenSeq(tt) = IF Len(tt) = 0 THEN tt ELSE g[Len(tt)]
  BY DEF FlattenSeq, Flat
<1>5. Flat(ss, f) /\ Flat(tt, g)
  BY <1>2, FlatExists
<1> HIDE DEF f, g
<1>6. FlattenSeq(ss) = (IF n = 0 THEN ss ELSE f[n]) /\ FlattenSeq(tt) = g[n + 1]
  BY <1>2, <1>3, <1>4
<1>7. \A i \in 1 .. n : f[i] = IF i = 1 THEN ss[i] ELSE f[i - 1] \o ss[i]
  BY <1>5 DEF Flat
<1>8. \A i \in 1 .. n + 1 : g[i] = IF i = 1 THEN tt[i] ELSE g[i - 1] \o tt[i]
  BY <1>2, <1>5 DEF Flat
<1> HIDE DEF n
<1> DEFINE T == {i \in 0 .. n : i > 0 => f[i] = g[i]}
<1>9. 0 \in T
  BY <1>2
<1>10. ASSUME NEW i \in 1 .. n, i - 1 \in T PROVE i \in T
  <2>1. i \in 1 .. n + 1 /\ tt[i] = ss[i]
    BY <1>2
  <2>2. i # 1 => f[i - 1] = g[i - 1]
    BY <1>2, <1>10
  <2>3. f[i] = g[i]
    BY <1>7, <1>8, <2>1, <2>2
  <2>. QED  BY <1>2, <2>3
<1>11. 0 .. n \subseteq T
  <2> HIDE DEF T
  <2>. QED  BY <1>2, <1>9, <1>10, Counting
<1>12. CASE n = 0
  <2>1. ss = <<>> /\ <<>> \o x = x
    BY <1>12 DEF n
  <2>2. g[1] = x
    BY <1>2, <1>8, <1>12
  <2>. QED  BY <1>1, <1>6, <1>12, <2>1, <2>2
<1>13. CASE n # 0
  <2>1. f[n] = g[n]
    BY <1>2, <1>11, <1>13
  <2>2. g[n + 1] = g[n] \o x
    <3>1. n + 1 \in 1 .. n + 1 /\ n + 1 # 1 /\ (n + 1) - 1 = n
      BY <1>2, <1>13
    <3>2. g[n + 1] = g[(n + 1) - 1] \o tt[n + 1]
      BY <1>8, <3>1
    <3>. QED  BY <1>2, <3>1, <3>2
  <2>. QED  BY <1>1, <1>6, <1>13, <2>1, <2>2
<1>. QED  BY <1>12, <1>13

-----------------------------------------------------------------------------
(* What was said, after one more call.                                       *)
SaidIn(list, ops) == \E i \in DOMAIN list : list[i].ok /\ list[i].say.op \in ops
TextOf(call) == IF call.ok THEN Text(call.say) ELSE <<>>
SpokenIn(list) == FlattenSeq([i \in DOMAIN list |-> TextOf(list[i])])

LEMMA CallAdded ==
  ASSUME NEW list, IsList(list), NEW call, NEW more, more = Append(list, call), IsList(TextOf(call))
  PROVE  /\ IsList(more) /\ more # <<>> /\ more[Len(more)] = call
         /\ \A ops : SaidIn(more, ops) <=> SaidIn(list, ops) \/ (call.ok /\ call.say.op \in ops)
         /\ SpokenIn(more) = SpokenIn(list) \o TextOf(call)
<1>1. PICK H : list \in Seq(H)
  BY DEF IsList
<1>2. PICK G : G = H \cup {call}
  OBVIOUS
<1>3. list \in Seq(G) /\ call \in G
  BY <1>1, <1>2
<1> DEFINE n == Len(list)
<1>4. /\ n \in Nat /\ more \in Seq(G) /\ Len(more) = n + 1 /\ more[n + 1] = call
      /\ DOMAIN list = 1 .. n /\ DOMAIN more = 1 .. n + 1
      /\ \A i \in 1 .. n : more[i] = list[i]
  BY <1>3
<1>5. IsList(more) /\ more # <<>> /\ more[Len(more)] = call
  BY <1>4 DEF IsList
<1> HIDE DEF n
<1>6. ASSUME NEW ops
      PROVE  SaidIn(more, ops) <=> SaidIn(list, ops) \/ (call.ok /\ call.say.op \in ops)
  <2>1. 1 .. n + 1 = (1 .. n) \cup {n + 1}
    BY <1>4
  <2>. QED  BY <1>4, <2>1, Zenon DEF SaidIn
<1> DEFINE ss == [i \in DOMAIN list |-> TextOf(list[i])]
           tt == [i \in DOMAIN more |-> TextOf(more[i])]
           A == {TextOf(list[i]) : i \in DOMAIN list}
<1>7. ss \in Seq(A) /\ Len(ss) = n
  <2>1. ss \in [1 .. n -> A]
    BY <1>4
  <2> HIDE DEF ss, A
  <2>. QED  BY <1>4, <2>1, DOMAIN ss = 1 .. n
<1>8. tt = Append(ss, TextOf(call))
  <2>1. PICK text : text = TextOf(call)
    OBVIOUS
  <2>2. \A i \in 1 .. n : ss[i] = TextOf(list[i])
    BY <1>4
  <2>3. tt = [i \in 1 .. n + 1 |-> TextOf(more[i])]
    BY <1>4
  <2>4. \A i \in 1 .. n + 1 : tt[i] = IF i = n + 1 THEN text ELSE ss[i]
    BY <1>4, <2>1, <2>2
  <2> HIDE DEF ss, A
  <2>5. PICK B : B = A \cup {text}
    OBVIOUS
  <2>6. ss \in Seq(B) /\ text \in B
    BY <1>7, <2>5
  <2>7. /\ Append(ss, text) \in Seq(B) /\ Len(Append(ss, text)) = n + 1
        /\ \A i \in 1 .. n + 1 : Append(ss, text)[i] = IF i = n + 1 THEN text ELSE ss[i]
    BY <1>4, <1>7, <2>6
  <2>8. tt \in Seq(B) /\ Len(tt) = n + 1
    <3>1. \A i \in 1 .. n + 1 : tt[i] \in B
      BY <1>4, <1>7, <2>4, <2>6
    <3>2. DOMAIN tt = 1 .. n + 1
      BY <2>3
    <3>3. tt = [i \in 1 .. n + 1 |-> tt[i]]
      BY <2>3
    <3> HIDE DEF tt
    <3>4. tt \in [1 .. n + 1 -> B]
      BY <3>1, <3>3
    <3>. QED  BY <1>4, <3>2, <3>4
  <2> HIDE DEF tt
  <2>9. tt = Append(ss, text)
    BY <1>4, <2>4, <2>7, <2>8, SeqEqual
  <2>. QED  BY <2>1, <2>9
<1>9. SpokenIn(list) = FlattenSeq(ss) /\ SpokenIn(more) = FlattenSeq(tt)
  BY DEF SpokenIn
<1> HIDE DEF ss, tt, A
<1>10. PICK B : TextOf(call) \in Seq(B)
  BY DEF IsList
<1>11. FlattenSeq(Append(ss, TextOf(call))) = FlattenSeq(ss) \o TextOf(call)
  BY <1>7, <1>10, FlattenGrows
<1>. QED  BY <1>5, <1>6, <1>8, <1>9, <1>11

(* A whole answer of which nothing was sent has no body, but for what a call *)
(* that failed has left; one that was sent is what the last word in it said. *)
Unsaid(r, n) ==
  /\ n = 0 => r.body = NULL /\ r.bodyLen = 0 /\ ~HasHeader(r.headers, "Content-Length")
  /\ n <= 1 =>
       /\ (r.body = NULL /\ r.bodyLen = 0) \/ (IsText(r.body) /\ r.bodyLen = Len(r.body))
       /\ HasHeader(r.headers, "Content-Length") => HeaderValue(r.headers, "Content-Length") = r.bodyLen

Plain(r) == IsRes(r) /\ ~r.chunked /\ ~HasHeader(r.headers, "Transfer-Encoding")

Waiting(r, list, n) ==
  r.wire = <<>> /\ SpokenIn(list) = <<>> /\ ~SaidIn(list, {"json", "refuse", "redirect"}) /\ Unsaid(r, n)

Closed(r, list, n) ==
  /\ r.wire # <<>>
  /\ \/ /\ SaidIn(list, {"json", "refuse"}) /\ ~SaidIn(list, {"redirect"})
        /\ R!PeerReads(r.wire) = R!Whole(SpokenIn(list))
     \/ /\ ~SaidIn(list, {"json", "refuse"})
        /\ n <= 1 => R!PeerReads(r.wire).complete

WholeAnswer(r, list, n) == IF r.headersSent THEN Closed(r, list, n) ELSE Waiting(r, list, n)

LEMMA TextIsList == ASSUME NEW t, IsText(t) PROVE IsList(t)
BY DEF IsText, IsList

LEMMA NothingIsList == IsList(<<>>)
<1>1. <<>> \in Seq({})
  OBVIOUS
<1>. QED  BY <1>1 DEF IsList

LEMMA NothingAdded == ASSUME NEW t, IsList(t) PROVE t \o <<>> = t /\ <<>> \o t = t
<1>1. PICK H : t \in Seq(H)
  BY DEF IsList
<1>. QED  BY <1>1

(* A call that sends nothing, on an answer that is sent or waits.            *)
LEMMA QuietCall ==
  ASSUME NEW r, NEW s, s.headersSent <=> r.headersSent, s.wire = r.wire, NEW list, IsList(list), IsList(SpokenIn(list)), NEW call, NEW more,
         more = Append(list, call), NEW n \in Nat, NEW k \in Nat, n <= k,
         ~(call.ok /\ call.say.op \in {"json", "refuse", "redirect"}), TextOf(call) = <<>>,
         WholeAnswer(r, list, n), ~r.headersSent => Unsaid(s, k)
  PROVE  WholeAnswer(s, more, k)
<1>1. IsList(TextOf(call))
  BY NothingIsList
<1>2. /\ \A ops : SaidIn(more, ops) <=> SaidIn(list, ops) \/ (call.ok /\ call.say.op \in ops)
      /\ SpokenIn(more) = SpokenIn(list) \o TextOf(call)
  BY <1>1, CallAdded
<1>3. SpokenIn(more) = SpokenIn(list)
  BY <1>2, NothingAdded
<1>4. \A ops \in {{"json", "refuse", "redirect"}, {"json", "refuse"}, {"redirect"}} : SaidIn(more, ops) <=> SaidIn(list, ops)
  BY <1>2
<1>. QED  BY <1>3, <1>4 DEF WholeAnswer, Closed, Waiting

(* The call that sends the answer.                                           *)
LEMMA ClosingCall ==
  ASSUME NEW r, ~r.headersSent, NEW s, s.headersSent, NEW list, IsList(list), NEW call, NEW more,
         more = Append(list, call), NEW n \in Nat, NEW k \in Nat, n <= k, call.ok, IsList(TextOf(call)),
         WholeAnswer(r, list, n), s.wire # <<>>,
         \/ call.say.op \in {"json", "refuse"} /\ R!PeerReads(s.wire) = R!Whole(TextOf(call))
         \/ call.say.op \notin {"json", "refuse"} /\ (n <= 1 => R!PeerReads(s.wire).complete)
  PROVE  WholeAnswer(s, more, k)
<1>2. /\ \A ops : SaidIn(more, ops) <=> SaidIn(list, ops) \/ (call.ok /\ call.say.op \in ops)
      /\ SpokenIn(more) = SpokenIn(list) \o TextOf(call)
  BY CallAdded
<1>3. SpokenIn(more) = TextOf(call)
  BY <1>2, NothingAdded DEF WholeAnswer, Waiting
<1>4. ~SaidIn(list, {"json", "refuse"}) /\ ~SaidIn(list, {"redirect"})
  BY DEF WholeAnswer, Waiting, SaidIn
<1>5. \A ops \in {{"json", "refuse"}, {"redirect"}} : SaidIn(more, ops) <=> call.say.op \in ops
  BY <1>2, <1>4
<1>. QED  BY <1>3, <1>5 DEF WholeAnswer, Closed

LEMMA PlainKept ==
  ASSUME NEW r, Plain(r), NEW s, IsRes(s), s.chunked = r.chunked, NEW keys, "Transfer-Encoding" \notin keys,
         SameHeadersBut(s, r, keys)
  PROVE  Plain(s)
BY DEF Plain, SameHeadersBut

(* Of the faults, one more when something failed.                            *)
Counted(fault, n, k) == n \in Nat /\ k = IF fault = "none" THEN n ELSE n + 1

LEMMA TextCall ==
  ASSUME NEW r, Plain(r), NEW text, IsText(text), NEW fault, NEW s, SaidIs(s, r, text, fault),
         NEW list, IsList(list), IsList(SpokenIn(list)), NEW call, NEW more, more = Append(list, call),
         NEW n, NEW k, Counted(fault, n, k), WholeAnswer(r, list, n), s.rc = "ok" \/ s.wire = r.wire,
         call.ok <=> s.rc = "ok", call.say.op \in {"json", "refuse"}, Text(call.say) = text
  PROVE  Plain(s) /\ WholeAnswer(s, more, k)
<1>1. Plain(s)
  <2>1. PICK keys : keys = {"Content-Type", "Content-Length"}
    OBVIOUS
  <2>2. IsRes(s) /\ s.chunked = r.chunked /\ SameHeadersBut(s, r, keys) /\ "Transfer-Encoding" \notin keys
    BY <2>1 DEF SaidIs
  <2>. QED  BY <2>2, PlainKept
<1>2. n \in Nat /\ k \in Nat /\ n <= k /\ (fault # "none" => k = n + 1)
  BY DEF Counted
<1>3. CASE ~r.headersSent /\ s.rc = "ok"
  <2>1. /\ s.headersSent /\ LengthIs(s, Len(text))
        /\ s.wire = LET head == r.wire \o <<R!HeadMark(s.status, s.headers)>>
                    IN  IF text = NULL \/ Len(text) = 0 THEN head ELSE head \o R!Chars(text)
    BY <1>3 DEF SaidIs
  <2>2. text # NULL /\ r.wire = <<>> /\ text \in Seq(Range(text))
    BY <1>3 DEF IsText, WholeAnswer, Waiting
  <2>3. PICK T : text \in Seq(T)
    BY <2>2
  <2>4. Len(text) = 0 => text = <<>>
    BY <2>3
  <2>5. \/ s.wire = <<>> \o <<R!HeadMark(s.status, s.headers)>> /\ text = <<>>
        \/ s.wire = (<<>> \o <<R!HeadMark(s.status, s.headers)>>) \o R!Chars(text)
    BY <2>1, <2>2, <2>4
  <2>6. PICK status, headers : status = s.status /\ headers = s.headers
    OBVIOUS
  <2>7. PICK wire : wire = s.wire
    OBVIOUS
  <2>8. ~HasHeader(headers, "Transfer-Encoding") /\ HeaderValue(headers, "Content-Length") = Len(text)
    BY <1>1, <2>1, <2>6 DEF Plain, LengthIs
  <2>9. \/ wire = <<>> \o <<R!HeadMark(status, headers)>> /\ text = <<>>
        \/ wire = (<<>> \o <<R!HeadMark(status, headers)>>) \o R!Chars(text)
    BY <2>5, <2>6, <2>7, Zenon
  <2>10. R!PeerReads(wire) = R!Whole(text) /\ wire # <<>>
    BY <2>3, <2>8, <2>9, PeerReadsWhole
  <2>11. TextOf(call) = text /\ IsList(text) /\ call.ok
    BY <1>3, TextIsList DEF TextOf
  <2>12. R!PeerReads(s.wire) = R!Whole(TextOf(call)) /\ s.wire # <<>> /\ IsList(TextOf(call))
    BY <2>7, <2>10, <2>11
  <2>13. WholeAnswer(s, more, k)
    BY <1>2, <1>3, <2>1, <2>11, <2>12, ClosingCall
  <2>. QED  BY <1>1, <2>13
<1>4. CASE r.headersSent \/ s.rc # "ok"
  <2>1. (s.headersSent <=> r.headersSent) /\ s.wire = r.wire /\ s.rc # "ok" /\ ~call.ok
    BY <1>4 DEF SaidIs, SameWire
  <2>2. TextOf(call) = <<>>
    BY <2>1 DEF TextOf
  <2>3. ~r.headersSent => Unsaid(s, k)
    <3>1. SUFFICES ASSUME ~r.headersSent PROVE Unsaid(s, k)
      OBVIOUS
    <3>2. Unsaid(r, n) /\ k = n + 1
      BY <1>2, <2>1, <3>1 DEF WholeAnswer, Waiting, SaidIs
    <3>3. \/ s.body \in {NULL, r.body} /\ s.bodyLen = r.bodyLen /\ SameLength(s, r)
          \/ s.body = text /\ s.bodyLen = Len(text) /\ (SameLength(s, r) \/ LengthIs(s, Len(text)))
      BY <2>1, <3>1 DEF SaidIs
    <3>4. SUFFICES ASSUME n = 0
                   PROVE  /\ (s.body = NULL /\ s.bodyLen = 0) \/ (IsText(s.body) /\ s.bodyLen = Len(s.body))
                          /\ HasHeader(s.headers, "Content-Length") =>
                               HeaderValue(s.headers, "Content-Length") = s.bodyLen
      BY <1>2, <3>2 DEF Unsaid
    <3>5. r.body = NULL /\ r.bodyLen = 0 /\ ~HasHeader(r.headers, "Content-Length")
      BY <3>2, <3>4 DEF Unsaid
    <3>. QED  BY <3>3, <3>5 DEF SameLength, LengthIs
  <2>4. WholeAnswer(s, more, k)
    BY <1>2, <2>1, <2>2, <2>3, QuietCall
  <2>. QED  BY <1>1, <2>4
<1>. QED  BY <1>3, <1>4 DEF SaidIs

LEMMA RedirectCall ==
  ASSUME NEW r, Plain(r), NEW fault, NEW s, RedirectedIs(s, r, fault),
         NEW list, IsList(list), IsList(SpokenIn(list)), NEW call, NEW more, more = Append(list, call),
         NEW n, NEW k, Counted(fault, n, k), WholeAnswer(r, list, n), s.rc = "ok" \/ s.wire = r.wire,
         call.ok <=> s.rc = "ok", call.say.op = "redirect", Text(call.say) = <<>>
  PROVE  Plain(s) /\ WholeAnswer(s, more, k)
<1>1. Plain(s)
  <2>1. PICK keys : keys = {"Location", "Content-Length"}
    OBVIOUS
  <2>2. IsRes(s) /\ s.chunked = r.chunked /\ SameHeadersBut(s, r, keys) /\ "Transfer-Encoding" \notin keys
    BY <2>1 DEF RedirectedIs
  <2>. QED  BY <2>2, PlainKept
<1>2. n \in Nat /\ k \in Nat /\ n <= k /\ (fault # "none" => k = n + 1)
  BY DEF Counted
<1>0. TextOf(call) = <<>>
  BY DEF TextOf
<1>3. CASE ~r.headersSent /\ s.rc = "ok"
  <2>1. s.headersSent /\ LengthIs(s, r.bodyLen) /\ s.wire = Begun(s, r) /\ call.ok
    BY <1>3 DEF RedirectedIs
  <2>2. r.wire = <<>> /\ Unsaid(r, n)
    BY <1>3 DEF WholeAnswer, Waiting
  <2>3. PICK status, headers : status = s.status /\ headers = s.headers
    OBVIOUS
  <2>4. PICK head : head = R!HeadMark(status, headers)
    OBVIOUS
  <2>5. s.wire = IF r.body = NULL \/ r.bodyLen = 0 THEN <<>> \o <<head>> ELSE (<<>> \o <<head>>) \o R!Chars(r.body)
    BY <2>1, <2>2, <2>3, <2>4 DEF Begun
  <2>6. n <= 1 => R!PeerReads(s.wire).complete
    <3>1. SUFFICES ASSUME n <= 1 PROVE R!PeerReads(s.wire).complete
      OBVIOUS
    <3>2. PICK text : text = IF r.body = NULL THEN <<>> ELSE r.body
      OBVIOUS
    <3>3. IsList(text) /\ r.bodyLen = Len(text) /\ (r.body # NULL => text = r.body) /\ (r.body = NULL => text = <<>>)
      BY <2>2, <3>1, <3>2, TextIsList, NothingIsList DEF Unsaid, IsText
    <3>4. PICK T : text \in Seq(T)
      BY <3>3 DEF IsList
    <3>5. Len(text) = 0 => text = <<>>
      BY <3>4
    <3>6. PICK wire : wire = s.wire
      OBVIOUS
    <3>7. \/ wire = <<>> \o <<head>> /\ text = <<>>
          \/ wire = (<<>> \o <<head>>) \o R!Chars(text)
      BY <2>5, <3>3, <3>5, <3>6
    <3>8. ~HasHeader(headers, "Transfer-Encoding") /\ HeaderValue(headers, "Content-Length") = Len(text)
      BY <1>1, <2>1, <2>3, <3>3 DEF Plain, LengthIs
    <3>9. R!PeerReads(wire) = R!Whole(text)
      BY <2>4, <3>4, <3>7, <3>8, PeerReadsWhole
    <3>. QED  BY <3>6, <3>9 DEF R!Whole
  <2>7. s.wire # <<>>
    <3>1. CASE r.body = NULL \/ r.bodyLen = 0
      BY <2>5, <3>1
    <3>2. CASE ~(r.body = NULL \/ r.bodyLen = 0)
      <4>1. PICK x : x = R!Chars(r.body)
        OBVIOUS
      <4>2. s.wire = (<<>> \o <<head>>) \o x
        BY <2>5, <3>2, <4>1
      <4>. QED  BY <4>2
    <3>. QED  BY <3>1, <3>2
  <2>8. IsList(TextOf(call)) /\ call.say.op \notin {"json", "refuse"}
    BY <1>0, NothingIsList
  <2>9. WholeAnswer(s, more, k)
    BY <1>2, <1>3, <2>1, <2>6, <2>7, <2>8, ClosingCall
  <2>. QED  BY <1>1, <2>9
<1>4. CASE r.headersSent \/ s.rc # "ok"
  <2>1. (s.headersSent <=> r.headersSent) /\ s.wire = r.wire /\ s.rc # "ok" /\ ~call.ok
    BY <1>4 DEF RedirectedIs, SameWire
  <2>3. ~r.headersSent => Unsaid(s, k)
    <3>1. SUFFICES ASSUME ~r.headersSent PROVE Unsaid(s, k)
      OBVIOUS
    <3>2. Unsaid(r, n) /\ k = n + 1
      BY <1>2, <2>1, <3>1 DEF WholeAnswer, Waiting, RedirectedIs
    <3>3. s.body = r.body /\ s.bodyLen = r.bodyLen /\ (SameLength(s, r) \/ LengthIs(s, r.bodyLen))
      BY <2>1, <3>1 DEF RedirectedIs
    <3>4. SUFFICES ASSUME n = 0
                   PROVE  /\ (s.body = NULL /\ s.bodyLen = 0)
                          /\ HasHeader(s.headers, "Content-Length") =>
                               HeaderValue(s.headers, "Content-Length") = s.bodyLen
      BY <1>2, <3>2 DEF Unsaid
    <3>5. r.body = NULL /\ r.bodyLen = 0 /\ ~HasHeader(r.headers, "Content-Length")
      BY <3>2, <3>4 DEF Unsaid
    <3>. QED  BY <3>3, <3>5 DEF SameLength, LengthIs
  <2>4. WholeAnswer(s, more, k)
    BY <1>0, <1>2, <2>1, <2>3, QuietCall
  <2>. QED  BY <1>1, <2>4
<1>. QED  BY <1>3, <1>4 DEF RedirectedIs

LEMMA NoteCall ==
  ASSUME NEW r, Plain(r), NEW fault, NEW s, NotedIs(s, r),
         NEW list, IsList(list), IsList(SpokenIn(list)), NEW call, NEW more, more = Append(list, call),
         NEW n, NEW k, Counted(fault, n, k), WholeAnswer(r, list, n),
         call.say.op \in {"cookie", "etag"}, Text(call.say) = <<>>
  PROVE  Plain(s) /\ WholeAnswer(s, more, k)
<1>1. Plain(s)
  <2>1. PICK keys : keys = {"Set-Cookie", "ETag"}
    OBVIOUS
  <2>2. IsRes(s) /\ s.chunked = r.chunked /\ SameHeadersBut(s, r, keys) /\ "Transfer-Encoding" \notin keys
    BY <2>1 DEF NotedIs
  <2>. QED  BY <2>2, PlainKept
<1>2. n \in Nat /\ k \in Nat /\ n <= k
  BY DEF Counted
<1>3. (s.headersSent <=> r.headersSent) /\ s.wire = r.wire /\ s.body = r.body /\ s.bodyLen = r.bodyLen /\ SameLength(s, r)
  BY DEF NotedIs, SameHeadersBut, SameLength, SameWire
<1>4. ~r.headersSent => Unsaid(s, k)
  BY <1>2, <1>3 DEF WholeAnswer, Waiting, Unsaid, SameLength
<1>5. TextOf(call) = <<>> /\ call.say.op \notin {"json", "refuse", "redirect"}
  BY DEF TextOf
<1>6. WholeAnswer(s, more, k)
  BY <1>2, <1>3, <1>4, <1>5, QuietCall
<1>. QED  BY <1>1, <1>6

LEMMA ListsJoined == ASSUME NEW a, IsList(a), NEW b, IsList(b) PROVE IsList(a \o b)
<1>1. PICK A : a \in Seq(A)
  BY DEF IsList
<1>2. PICK B : b \in Seq(B)
  BY DEF IsList
<1>3. PICK C : C = A \cup B
  OBVIOUS
<1>4. a \in Seq(C) /\ b \in Seq(C)
  BY <1>1, <1>2, <1>3
<1>5. a \o b \in Seq(C)
  BY <1>4
<1>. QED  BY <1>5 DEF IsList

LEMMA NoHeaders == ASSUME NEW key PROVE ~HasHeader(<<>>, key)
<1>1. PICK none : none = <<>>
  OBVIOUS
<1>2. none \in Seq({}) /\ Len(none) = 0
  BY <1>1
<1>3. R!IndexOf(none, key) \in 0 .. Len(none)
  BY <1>2, IndexIs
<1>4. R!IndexOf(none, key) = 0
  BY <1>2, <1>3
<1>. QED  BY <1>1, <1>4 DEF HasHeader

LEMMA NothingSaid == SpokenIn(<<>>) = <<>>
<1>1. PICK ss : ss = [i \in DOMAIN <<>> |-> TextOf(<<>>[i])]
  OBVIOUS
<1>2. ss = <<>>
  <2>1. DOMAIN ss = {}
    BY <1>1
  <2>. QED  BY <1>1, <2>1
<1>3. SpokenIn(<<>>) = FlattenSeq(ss)
  BY <1>1 DEF SpokenIn
<1>4. FlattenSeq(ss) = ss
  BY <1>2 DEF FlattenSeq
<1>. QED  BY <1>2, <1>3, <1>4

LEMMA NewResponseIs ==
  ASSUME NEW r, r = R!NewResponse
  PROVE  /\ IsRes(r) /\ r.headers = <<>> /\ r.body = NULL /\ r.bodyLen = 0 /\ r.chunked = FALSE
         /\ r.headersSent = FALSE /\ r.wire = <<>>
<1>1. DOMAIN r = Fields /\ r.headers = <<>> /\ r.body = NULL /\ r.bodyLen = 0 /\ r.chunked = FALSE
      /\ r.headersSent = FALSE /\ r.wire = <<>>
  BY DEF R!NewResponse, Fields
<1>. QED  BY <1>1, NothingIsList DEF IsRes

(* What was said in a whole answer, with the memory that failed.             *)
WholeInv ==
  kind = "answer" /\ sent.plan = "whole" /\ ~excused =>
    /\ Plain(reader) /\ faults \in Nat /\ IsList(got) /\ IsList(SpokenIn(got))
    /\ WholeAnswer(reader, got, faults)

LEMMA InitWhole == Init => WholeInv
<1>1. SUFFICES ASSUME Init, kind = "answer", sent.plan = "whole"
               PROVE  /\ Plain(reader) /\ faults \in Nat /\ IsList(got) /\ IsList(SpokenIn(got))
                      /\ WholeAnswer(reader, got, faults)
  BY DEF WholeInv
<1>2. reader = R!NewResponse /\ got = <<>> /\ faults = 0
  BY <1>1, MessagesAssumption DEF Init
<1>3. /\ IsRes(reader) /\ reader.headers = <<>> /\ reader.body = NULL /\ reader.bodyLen = 0 /\ reader.chunked = FALSE
      /\ reader.headersSent = FALSE /\ reader.wire = <<>>
  BY <1>2, NewResponseIs
<1>4. ~HasHeader(reader.headers, "Transfer-Encoding") /\ ~HasHeader(reader.headers, "Content-Length")
  BY <1>3, NoHeaders
<1>5. Plain(reader)
  BY <1>3, <1>4 DEF Plain
<1>6. SpokenIn(got) = <<>> /\ IsList(got) /\ IsList(SpokenIn(got))
  BY <1>2, NothingSaid, NothingIsList
<1>7. ~SaidIn(got, {"json", "refuse", "redirect"})
  BY <1>2 DEF SaidIn
<1>8. Unsaid(reader, faults)
  BY <1>2, <1>3, <1>4 DEF Unsaid
<1>9. WholeAnswer(reader, got, faults)
  BY <1>3, <1>6, <1>7, <1>8 DEF WholeAnswer, Waiting
<1>. QED  BY <1>2, <1>5, <1>6, <1>9

(* What an operation of the handler makes of the response.                   *)
LEMMA WholeOps ==
  ASSUME NEW say \in Says["whole"], NEW fault
  PROVE  \/ /\ say.op \in {"json", "refuse"} /\ IsText(Text(say))
            /\ Plain(reader) => SaidIs(Answered(say, fault), reader, Text(say), fault)
         \/ /\ say.op = "redirect" /\ Text(say) = <<>>
            /\ Plain(reader) => RedirectedIs(Answered(say, fault), reader, fault)
         \/ /\ say.op \in {"cookie", "etag"} /\ Text(say) = <<>>
            /\ Plain(reader) => NotedIs(Answered(say, fault), reader)
<1>1. (say.op = "json" /\ IsText(say.text)) \/ say.op \in {"refuse", "redirect", "cookie", "etag"}
  BY SaysAssumption
<1>2. PICK r : r = reader
  OBVIOUS
<1>3. PICK s : s = Answered(say, fault)
  OBVIOUS
<1>4. PICK fails \in BOOLEAN : fails = (fault # "none")
  OBVIOUS
<1>5. CASE say.op = "json" /\ IsText(say.text)
  <2>1. PICK type, text : type = "application/json" /\ text = say.text
    OBVIOUS
  <2>2. s = R!Say(r, type, text, fault)
    BY <1>2, <1>3, <1>5, <2>1 DEF Answered
  <2>3. Plain(r) => SaidIs(s, r, text, fault)
    BY <2>2, SayIs DEF Plain
  <2>4. Text(say) = text
    BY <1>5, <2>1 DEF Text
  <2>. QED  BY <1>2, <1>3, <1>5, <2>1, <2>3, <2>4
<1>6. CASE say.op = "refuse"
  <2>1. PICK error : error = "invalid_request"
    OBVIOUS
  <2>2. s = R!OAuth2Error(r, error, fault)
    BY <1>2, <1>3, <1>6, <2>1 DEF Answered
  <2>3. Plain(r) => SaidIs(s, r, <<error>>, fault)
    BY <2>2, OAuth2ErrorIs DEF Plain
  <2>4. Text(say) = <<error>>
    BY <1>6, <2>1 DEF Text
  <2>5. IsText(<<error>>)
    BY <2>1, NullAssumption DEF Refusals
  <2>. QED  BY <1>2, <1>3, <1>6, <2>3, <2>4, <2>5
<1>7. CASE say.op = "redirect"
  <2>1. PICK url, status : url = "elsewhere" /\ status = say.status
    OBVIOUS
  <2>2. s = R!Redirect(r, url, status, fault)
    BY <1>2, <1>3, <1>7, <2>1 DEF Answered
  <2>3. Plain(r) => RedirectedIs(s, r, fault)
    BY <2>2, RedirectIs DEF Plain
  <2>4. Text(say) = <<>>
    BY <1>7 DEF Text
  <2>. QED  BY <1>2, <1>3, <1>7, <2>3, <2>4
<1>8. CASE say.op = "cookie"
  <2>1. PICK cookie : cookie = say.text
    OBVIOUS
  <2>2. s = R!SetCookie(r, cookie, fails)
    BY <1>2, <1>3, <1>4, <1>8, <2>1 DEF Answered
  <2>3. Plain(r) => NotedIs(s, r)
    BY <2>2, CookieIs DEF Plain
  <2>4. Text(say) = <<>>
    BY <1>8 DEF Text
  <2>. QED  BY <1>2, <1>3, <1>8, <2>3, <2>4
<1>9. CASE say.op = "etag"
  <2>1. PICK tag, match : tag = "tag" /\ match = say.ifNoneMatch
    OBVIOUS
  <2>2. s = R!CheckEtag(r, tag, match, fails)
    BY <1>2, <1>3, <1>4, <1>9, <2>1 DEF Answered
  <2>3. Plain(r) => NotedIs(s, r)
    BY <2>2, EtagIs DEF Plain
  <2>4. Text(say) = <<>>
    BY <1>9 DEF Text
  <2>. QED  BY <1>2, <1>3, <1>9, <2>3, <2>4
<1>. QED  BY <1>1, <1>5, <1>6, <1>7, <1>8, <1>9

LEMMA NextWhole == WholeInv /\ [Next]_vars => WholeInv'
<1> SUFFICES ASSUME WholeInv, [Next]_vars, kind' = "answer", sent'.plan = "whole", ~excused'
             PROVE  /\ Plain(reader') /\ faults' \in Nat /\ IsList(got') /\ IsList(SpokenIn(got'))
                    /\ WholeAnswer(reader', got', faults')
  BY DEF WholeInv
<1>1. kind = "answer" /\ sent.plan = "whole"
  BY DEF Next, vars, ReadRequest, ReadParts, ReadEvents, ReadFrame, AskParameter, AskCredentials, AskToken, Answer
<1>2. CASE ~Answer
  <2>1. UNCHANGED <<reader, got, faults, excused>>
    BY <1>1, <1>2 DEF Next, vars, ReadRequest, ReadParts, ReadEvents, ReadFrame, AskParameter, AskCredentials, AskToken
  <2>. QED  BY <1>1, <2>1 DEF WholeInv
<1>3. CASE Answer
  <2>1. PICK say \in Says["whole"], fault \in ResponseFaults :
          /\ reader' = Answered(say, fault)
          /\ rc' = reader'.rc
          /\ got' = Append(got, [say |-> say, ok |-> rc' = "ok"])
          /\ faults' = IF fault = "none" THEN faults ELSE faults + 1
          /\ excused' = (excused \/ (rc' # "ok" /\ reader'.wire # reader.wire))
    BY <1>1, <1>3, Zenon DEF Answer
  <2>2. ~excused /\ (reader'.rc = "ok" \/ reader'.wire = reader.wire)
    BY <2>1
  <2>3. /\ Plain(reader) /\ faults \in Nat /\ IsList(got) /\ IsList(SpokenIn(got))
        /\ WholeAnswer(reader, got, faults)
    BY <1>1, <2>2 DEF WholeInv
  <2>4. PICK ok \in BOOLEAN : ok = (rc' = "ok")
    OBVIOUS
  <2>5. PICK call : call = [say |-> say, ok |-> ok]
    OBVIOUS
  <2>6. call.say = say /\ (call.ok <=> reader'.rc = "ok")
    BY <2>1, <2>4, <2>5
  <2>7. got' = Append(got, call)
    BY <2>1, <2>4, <2>5
  <2>8. Counted(fault, faults, faults')
    BY <2>1, <2>3 DEF Counted
  <2>9. PICK r, s, n, k, list, more : r = reader /\ s = reader' /\ n = faults /\ k = faults' /\ list = got /\ more = got'
    OBVIOUS
  <2>10. Plain(s) /\ WholeAnswer(s, more, k) /\ IsList(TextOf(call))
    <3>1. CASE say.op \in {"json", "refuse"} /\ IsText(Text(say)) /\ SaidIs(s, r, Text(say), fault)
      <4>1. PICK text : text = Text(say)
        OBVIOUS
      <4>2. Plain(s) /\ WholeAnswer(s, more, k)
        BY <2>2, <2>3, <2>6, <2>7, <2>8, <2>9, <3>1, <4>1, TextCall
      <4>3. IsList(TextOf(call))
        BY <2>6, <3>1, TextIsList, NothingIsList DEF TextOf
      <4>. QED  BY <4>2, <4>3
    <3>2. CASE say.op = "redirect" /\ Text(say) = <<>> /\ RedirectedIs(s, r, fault)
      <4>1. Plain(s) /\ WholeAnswer(s, more, k)
        BY <2>2, <2>3, <2>6, <2>7, <2>8, <2>9, <3>2, RedirectCall
      <4>2. IsList(TextOf(call))
        BY <2>6, <3>2, NothingIsList DEF TextOf
      <4>. QED  BY <4>1, <4>2
    <3>3. CASE say.op \in {"cookie", "etag"} /\ Text(say) = <<>> /\ NotedIs(s, r)
      <4>1. Plain(s) /\ WholeAnswer(s, more, k)
        BY <2>3, <2>6, <2>7, <2>8, <2>9, <3>3, NoteCall
      <4>2. IsList(TextOf(call))
        BY <2>6, <3>3, NothingIsList DEF TextOf
      <4>. QED  BY <4>1, <4>2
    <3>. QED  BY <2>1, <2>3, <2>9, <3>1, <3>2, <3>3, WholeOps
  <2>11. IsList(more) /\ SpokenIn(more) = SpokenIn(list) \o TextOf(call)
    BY <2>3, <2>7, <2>9, <2>10, CallAdded
  <2>12. IsList(SpokenIn(more))
    BY <2>3, <2>9, <2>10, <2>11, ListsJoined
  <2>13. faults' \in Nat
    BY <2>1, <2>3
  <2>. QED  BY <2>9, <2>10, <2>11, <2>12, <2>13
<1>. QED  BY <1>2, <1>3

(* An answer that waits can be written to a buffer.                          *)
LEMMA SerializedWhole ==
  ASSUME NEW r, Plain(r), Unsaid(r, 1)
  PROVE  R!PeerReads(R!SerializeResponse(r, FALSE).marks).complete
<1>0. PICK key : key = "Content-Length"
  OBVIOUS
<1>1. PICK fails \in BOOLEAN : fails = FALSE
  OBVIOUS
<1>2. PICK t : t = R!Ok(r)
  OBVIOUS
<1>3. PICK u : u = R!SetHeader(r, key, r.bodyLen, fails)
  OBVIOUS
<1>4. PICK s : s = IF HasHeader(r.headers, key) THEN t ELSE u
  OBVIOUS
<1>5. PICK status : status = IF s.status = 0 THEN 200 ELSE s.status
  OBVIOUS
<1>6. IsRes(t) /\ SameAnswer(t, r) /\ t.headers = r.headers /\ t.rc = "ok"
  BY <1>2, OkIs DEF Plain
<1>7. /\ IsRes(u) /\ SameAnswer(u, r) /\ SameHeadersBut(u, r, {key}) /\ u.rc = "ok"
      /\ HasHeader(u.headers, key) /\ HeaderValue(u.headers, key) = r.bodyLen
  BY <1>1, <1>3, SetHeaderIs DEF Plain
<1>8. IsRes(s) /\ s.rc = "ok" /\ s.body = r.body /\ ~HasHeader(s.headers, "Transfer-Encoding")
  BY <1>0, <1>4, <1>6, <1>7 DEF SameAnswer, SameHeadersBut, Plain
<1>9. HeaderValue(s.headers, "Content-Length") = r.bodyLen
  BY <1>0, <1>4, <1>6, <1>7 DEF Unsaid
<1>10. PICK text : text = IF r.body = NULL THEN <<>> ELSE r.body
  OBVIOUS
<1>11. IsList(text) /\ r.bodyLen = Len(text)
  BY <1>10, TextIsList, NothingIsList DEF Unsaid, IsText
<1>12. PICK answer : answer = R!SerializeResponse(r, FALSE)
  OBVIOUS
<1>13. PICK headers, wire : headers = s.headers /\ wire = answer.marks
  OBVIOUS
<1>14. s = IF r.chunked \/ R!IndexOf(r.headers, "Content-Length") # 0 THEN R!Ok(r)
           ELSE R!SetHeader(r, "Content-Length", r.bodyLen, FALSE)
  BY <1>0, <1>1, <1>2, <1>3, <1>4, Zenon DEF HasHeader, Plain
<1>15. wire = <<R!HeadMark(status, headers)>> \o (IF r.body = NULL THEN <<>> ELSE R!Chars(r.body))
  <2>1. PICK marks : marks = IF s.rc # "ok" THEN <<>>
                             ELSE <<R!HeadMark(IF s.status = 0 THEN 200 ELSE s.status, s.headers)>>
                                    \o (IF s.body = NULL THEN <<>> ELSE R!Chars(s.body))
    OBVIOUS
  <2>2. answer = [res |-> s, marks |-> marks]
    BY <1>12, <1>14, <2>1, ZenonT(60) DEF R!SerializeResponse
  <2>3. wire = marks
    BY <1>13, <2>2
  <2>. QED  BY <1>5, <1>8, <1>13, <2>1, <2>3
<1>16. PICK T : text \in Seq(T)
  BY <1>11 DEF IsList
<1>17. \/ wire = <<>> \o <<R!HeadMark(status, headers)>> /\ text = <<>>
       \/ wire = (<<>> \o <<R!HeadMark(status, headers)>>) \o R!Chars(text)
  <2>1. PICK head : head = R!HeadMark(status, headers)
    OBVIOUS
  <2>2. <<>> \o <<head>> = <<head>> /\ <<head>> \o <<>> = <<head>>
    OBVIOUS
  <2>. QED  BY <1>10, <1>15, <2>1, <2>2
<1>18. ~HasHeader(headers, "Transfer-Encoding") /\ HeaderValue(headers, "Content-Length") = Len(text)
  BY <1>8, <1>9, <1>11, <1>13
<1>19. R!PeerReads(wire) = R!Whole(text)
  BY <1>16, <1>17, <1>18, PeerReadsWhole
<1>20. R!PeerReads(wire).complete
  BY <1>19 DEF R!Whole
<1>21. R!PeerReads(answer.marks).complete
  BY <1>13, <1>20
<1>. QED  BY <1>12, <1>21, Zenon

-----------------------------------------------------------------------------
(* An answer in chunks.  What the peer reads from a place on depends on what *)
(* comes behind it, so what is read of a list is found from its end.         *)
MarkList(t) == IsList(t) /\ \A i \in DOMAIN t : t[i][1] = "size" => t[i][2] \in Nat

ReadAt(rest, f, i) ==
  IF i > Len(rest) \/ rest[i][1] # "size" THEN R!Partial(<<>>)
  ELSE LET n == rest[i][2] IN
    IF i + n + 1 > Len(rest) \/ rest[i + n + 1] # R!ChunkEnd THEN R!Partial(<<>>)
    ELSE IF n = 0 THEN R!Whole(<<>>)
    ELSE [f[i + n + 2] EXCEPT !.body = R!Texts(SubSeq(rest, i + 1, i + n)) \o @]

Reading(rest, f) == f = [i \in 1 .. Len(rest) + 1 |-> ReadAt(rest, f, i)]

LEMMA MarksHaveSizes ==
  ASSUME NEW rest, MarkList(rest)
  PROVE  /\ Len(rest) \in Nat /\ DOMAIN rest = 1 .. Len(rest)
         /\ \A i \in 1 .. Len(rest) : rest[i][1] = "size" => rest[i][2] \in Nat
<1>1. PICK U : rest \in Seq(U)
  BY DEF MarkList, IsList
<1>2. Len(rest) \in Nat /\ DOMAIN rest = 1 .. Len(rest)
  BY <1>1
<1>. QED  BY <1>2 DEF MarkList

LEMMA ReadBehind ==
  ASSUME NEW rest, MarkList(rest), NEW f, NEW g, NEW i \in 1 .. Len(rest) + 1,
         \A j \in i + 1 .. Len(rest) + 1 : f[j] = g[j]
  PROVE  ReadAt(rest, f, i) = ReadAt(rest, g, i)
<1>1. Len(rest) \in Nat /\ (i <= Len(rest) /\ rest[i][1] = "size" => rest[i][2] \in Nat)
  BY MarksHaveSizes
<1>2. CASE i > Len(rest) \/ rest[i][1] # "size"
  BY <1>2 DEF ReadAt
<1>3. CASE ~(i > Len(rest) \/ rest[i][1] # "size")
  <2>1. PICK n \in Nat : n = rest[i][2]
    BY <1>1, <1>3
  <2>2. CASE i + n + 1 > Len(rest)
    BY <1>3, <2>1, <2>2 DEF ReadAt
  <2>3. CASE ~(i + n + 1 > Len(rest))
    <3>1. f[i + n + 2] = g[i + n + 2]
      BY <1>1, <2>3
    <3>2. PICK x : x = f[i + n + 2]
      OBVIOUS
    <3>. QED  BY <1>3, <2>1, <3>1, <3>2 DEF ReadAt
  <2>. QED  BY <2>2, <2>3
<1>. QED  BY <1>2, <1>3

LEMMA ReadingExists ==
  ASSUME NEW rest, MarkList(rest)
  PROVE  \E f : Reading(rest, f)
<1> DEFINE n == Len(rest)
           From(k, f) == f = [i \in n + 2 - k .. n + 1 |-> ReadAt(rest, f, i)]
           T == {k \in 0 .. n + 1 : \E f : From(k, f)}
<1>0. n \in Nat
  BY MarksHaveSizes
<1>1. 0 \in T
  <2>1. \E f : From(0, f)
    <3>1. From(0, [i \in n + 2 - 0 .. n + 1 |-> 0])
      BY <1>0
    <3>2. PICK f : f = [i \in n + 2 - 0 .. n + 1 |-> 0]
      OBVIOUS
    <3> HIDE DEF From
    <3>. QED  BY <3>1, <3>2
  <2> HIDE DEF From
  <2>. QED  BY <1>0, <2>1
<1>2. ASSUME NEW k \in 1 .. n + 1, k - 1 \in T PROVE k \in T
  <2>1. PICK f : From(k - 1, f)
    BY <1>2
  <2> DEFINE p == n + 2 - k
             g == [i \in p .. n + 1 |-> IF i = p THEN ReadAt(rest, f, i) ELSE f[i]]
  <2>2. ASSUME NEW i \in p .. n + 1 PROVE g[i] = ReadAt(rest, g, i)
    <3>1. \A j \in i + 1 .. n + 1 : f[j] = g[j]
      BY <1>0, <1>2
    <3>2. i \in 1 .. n + 1
      BY <1>0, <1>2
    <3>3. CASE i = p
      <4>1. g[i] = ReadAt(rest, f, i)
        BY <3>3
      <4> HIDE DEF g, p
      <4>. QED  BY <3>1, <3>2, <4>1, ReadBehind
    <3>4. CASE i # p
      <4>1. i \in n + 2 - (k - 1) .. n + 1
        BY <1>0, <1>2, <3>4
      <4>2. f[i] = ReadAt(rest, f, i)
        BY <2>1, <4>1
      <4>3. g[i] = f[i]
        BY <3>4
      <4> HIDE DEF g, p
      <4>. QED  BY <3>1, <3>2, <4>2, <4>3, ReadBehind
    <3>. QED  BY <3>3, <3>4
  <2>3. g = [i \in p .. n + 1 |-> g[i]]
    OBVIOUS
  <2>4. From(k, g)
    <3> HIDE DEF g
    <3>. QED  BY <2>2, <2>3
  <2> HIDE DEF From, g
  <2>5. \E h : From(k, h)
    BY <2>4
  <2>. QED  BY <2>5
<1>3. 0 .. n + 1 \subseteq T
  <2> HIDE DEF T
  <2>1. n + 1 \in Nat
    BY <1>0
  <2>. QED  BY <1>1, <1>2, <2>1, Counting
<1>4. \E f : From(n + 1, f)
  <2> HIDE DEF From
  <2>. QED  BY <1>0, <1>3
<1>5. n + 2 - (n + 1) = 1
  BY <1>0
<1>. QED  BY <1>4, <1>5 DEF Reading

LEMMA ReadChunksIs ==
  ASSUME NEW rest, MarkList(rest)
  PROVE  \E f : Reading(rest, f) /\ R!ReadChunks(rest) = f[1]
<1> DEFINE f == CHOOSE f : Reading(rest, f)
<1>1. R!ReadChunks(rest) = f[1]
  BY DEF R!ReadChunks, Reading, ReadAt
<1>2. Reading(rest, f)
  BY ReadingExists
<1> HIDE DEF f
<1>. QED  BY <1>1, <1>2

LEMMA MarksJoined ==
  ASSUME NEW p, MarkList(p), NEW tail, MarkList(tail), NEW rest, rest = p \o tail
  PROVE  /\ MarkList(rest) /\ Len(rest) = Len(p) + Len(tail)
         /\ \A i \in 1 .. Len(tail) : rest[i + Len(p)] = tail[i]
         /\ \A i \in 1 .. Len(p) : rest[i] = p[i]
<1>1. PICK A : p \in Seq(A)
  BY DEF MarkList, IsList
<1>2. PICK B : tail \in Seq(B)
  BY DEF MarkList, IsList
<1>3. PICK U : U = A \cup B
  OBVIOUS
<1>4. p \in Seq(U) /\ tail \in Seq(U)
  BY <1>1, <1>2, <1>3
<1> DEFINE k == Len(p)
           m == Len(tail)
<1>5. /\ k \in Nat /\ m \in Nat /\ rest \in Seq(U) /\ Len(rest) = k + m /\ DOMAIN rest = 1 .. k + m
      /\ DOMAIN p = 1 .. k /\ DOMAIN tail = 1 .. m
      /\ \A i \in 1 .. k : rest[i] = p[i]
      /\ \A i \in 1 .. m : rest[i + k] = tail[i]
  BY <1>4
<1> HIDE DEF k, m
<1>6. ASSUME NEW i \in DOMAIN rest, rest[i][1] = "size" PROVE rest[i][2] \in Nat
  <2>1. CASE i <= k
    <3>1. i \in DOMAIN p /\ rest[i] = p[i]
      BY <1>5, <2>1
    <3>. QED  BY <1>6, <3>1 DEF MarkList
  <2>2. CASE ~(i <= k)
    <3>1. i - k \in 1 .. m /\ (i - k) + k = i
      BY <1>5, <2>2
    <3>2. i - k \in DOMAIN tail /\ rest[i] = tail[i - k]
      BY <1>5, <3>1
    <3>. QED  BY <1>6, <3>2 DEF MarkList
  <2>. QED  BY <2>1, <2>2
<1>7. MarkList(rest)
  BY <1>5, <1>6 DEF MarkList, IsList
<1>. QED  BY <1>5, <1>7 DEF k, m

LEMMA MarksCut ==
  ASSUME NEW p, MarkList(p), NEW tail, MarkList(tail), NEW rest, rest = p \o tail,
         NEW i \in 1 .. Len(tail), NEW n \in Nat, i + n <= Len(tail)
  PROVE  SubSeq(rest, i + Len(p) + 1, i + Len(p) + n) = SubSeq(tail, i + 1, i + n)
<1>1. PICK A : p \in Seq(A)
  BY DEF MarkList, IsList
<1>2. PICK B : tail \in Seq(B)
  BY DEF MarkList, IsList
<1>3. PICK U : U = A \cup B
  OBVIOUS
<1>4. p \in Seq(U) /\ tail \in Seq(U)
  BY <1>1, <1>2, <1>3
<1> DEFINE k == Len(p)
           m == Len(tail)
<1>5. /\ k \in Nat /\ m \in Nat /\ rest \in Seq(U) /\ Len(rest) = k + m
      /\ \A j \in 1 .. m : rest[j + k] = tail[j]
  BY <1>4
<1>6. i \in 1 .. m /\ i + n <= m
  OBVIOUS
<1> HIDE DEF k, m
<1>7. SubSeq(rest, i + k + 1, i + k + n) = SubSeq(tail, i + 1, i + n)
  <2>1. PICK a, b : a = SubSeq(rest, i + k + 1, i + k + n) /\ b = SubSeq(tail, i + 1, i + n)
    OBVIOUS
  <2>2. /\ a \in Seq(U) /\ Len(a) = n
        /\ \A j \in 1 .. n : a[j] = rest[(i + k + 1) + j - 1]
    <3>1. PICK from, to : from = i + k + 1 /\ to = i + k + n
      OBVIOUS
    <3>2. from \in 1 .. (k + m) + 1 /\ to \in from - 1 .. k + m /\ to - from + 1 = n
      BY <1>5, <1>6, <3>1
    <3>3. /\ SubSeq(rest, from, to) \in Seq(U) /\ Len(SubSeq(rest, from, to)) = n
          /\ \A j \in 1 .. n : SubSeq(rest, from, to)[j] = rest[from + j - 1]
      BY <1>5, <3>2
    <3>. QED  BY <2>1, <3>1, <3>3
  <2>3. /\ b \in Seq(U) /\ Len(b) = n
        /\ \A j \in 1 .. n : b[j] = tail[(i + 1) + j - 1]
    <3>1. PICK from, to : from = i + 1 /\ to = i + n
      OBVIOUS
    <3>2. from \in 1 .. m + 1 /\ to \in from - 1 .. m /\ to - from + 1 = n /\ m = Len(tail)
      BY <1>5, <1>6, <3>1 DEF m
    <3>3. /\ SubSeq(tail, from, to) \in Seq(U) /\ Len(SubSeq(tail, from, to)) = n
          /\ \A j \in 1 .. n : SubSeq(tail, from, to)[j] = tail[from + j - 1]
      BY <1>4, <1>5, <3>2
    <3>. QED  BY <2>1, <3>1, <3>3
  <2>4. ASSUME NEW j \in 1 .. n PROVE a[j] = b[j]
    <3>1. i + j \in 1 .. m /\ (i + k + 1) + j - 1 = (i + j) + k /\ (i + 1) + j - 1 = i + j
      BY <1>5, <1>6
    <3>. QED  BY <1>5, <2>2, <2>3, <3>1
  <2>5. a = b
    BY <2>2, <2>3, <2>4, SeqEqual
  <2>. QED  BY <2>1, <2>5
<1>. QED  BY <1>7 DEF k, m

(* What is read behind a piece does not depend on the piece.                 *)
LEMMA ReadShifted ==
  ASSUME NEW p, MarkList(p), NEW tail, MarkList(tail), NEW rest, rest = p \o tail,
         NEW f, Reading(rest, f), NEW g, Reading(tail, g)
  PROVE  f[1 + Len(p)] = g[1]
<1> DEFINE k == Len(p)
           m == Len(tail)
           T == {x \in 0 .. m + 1 : \A i \in m + 2 - x .. m + 1 : f[i + k] = g[i]}
<1>1. k \in Nat /\ m \in Nat /\ MarkList(rest) /\ Len(rest) = k + m
      /\ (\A i \in 1 .. m : rest[i + k] = tail[i] /\ (tail[i][1] = "size" => tail[i][2] \in Nat))
      /\ \A i \in 1 .. m, n \in Nat :
           i + n <= m => SubSeq(rest, i + k + 1, i + k + n) = SubSeq(tail, i + 1, i + n)
  <2>1. /\ MarkList(rest) /\ Len(rest) = k + m
        /\ \A i \in 1 .. m : rest[i + k] = tail[i]
        /\ \A i \in 1 .. m : \A n \in Nat :
             i + n <= m => SubSeq(rest, i + k + 1, i + k + n) = SubSeq(tail, i + 1, i + n)
    <3>1. MarkList(rest)
      BY ONLY MarksJoined, MarkList(p), MarkList(tail), rest = p \o tail
    <3>2. Len(rest) = Len(p) + Len(tail)
      BY ONLY MarksJoined, MarkList(p), MarkList(tail), rest = p \o tail
    <3>3. \A i \in 1 .. Len(tail) : rest[i + Len(p)] = tail[i]
      BY ONLY MarksJoined, MarkList(p), MarkList(tail), rest = p \o tail
    <3>4. ASSUME NEW i \in 1 .. m, NEW n \in Nat, i + n <= m
          PROVE  SubSeq(rest, i + k + 1, i + k + n) = SubSeq(tail, i + 1, i + n)
      BY <3>4, MarksCut
    <3>. QED  BY <3>1, <3>2, <3>3, <3>4
  <2>2. k \in Nat
    BY MarksHaveSizes
  <2>3. m \in Nat /\ \A i \in 1 .. m : tail[i][1] = "size" => tail[i][2] \in Nat
    BY MarksHaveSizes
  <2>. QED  BY <2>1, <2>2, <2>3
<1>2. (\A i \in 1 .. k + m + 1 : f[i] = ReadAt(rest, f, i)) /\ (\A i \in 1 .. m + 1 : g[i] = ReadAt(tail, g, i))
  BY <1>1 DEF Reading
<1> HIDE DEF k, m
<1>3. 0 \in T
  BY <1>1
<1>4. ASSUME NEW x \in 1 .. m + 1, x - 1 \in T PROVE x \in T
  <2> DEFINE i == m + 2 - x
  <2>1. i \in 1 .. m + 1 /\ i + k \in 1 .. k + m + 1 /\ i \in Nat
    BY <1>1
  <2>2. \A j \in i + 1 .. m + 1 : f[j + k] = g[j]
    BY <1>1, <1>4
  <2>3. f[i + k] = ReadAt(rest, f, i + k) /\ g[i] = ReadAt(tail, g, i)
    BY <1>2, <2>1
  <2> HIDE DEF i
  <2>4. ReadAt(rest, f, i + k) = ReadAt(tail, g, i)
    <3>1. i > m <=> i + k > Len(rest)
      BY <1>1, <2>1
    <3>2. i <= m => rest[i + k] = tail[i]
      BY <1>1, <2>1
    <3>3. CASE i > m \/ tail[i][1] # "size"
      <4>1. ReadAt(rest, f, i + k) = R!Partial(<<>>)
        <5>1. i + k > Len(rest) \/ rest[i + k][1] # "size"
          BY <1>1, <2>1, <3>1, <3>2, <3>3
        <5>. QED  BY <5>1 DEF ReadAt
      <4>2. ReadAt(tail, g, i) = R!Partial(<<>>)
        BY <3>3 DEF ReadAt, m
      <4>. QED  BY <4>1, <4>2, SMTT(40)
    <3>4. CASE ~(i > m \/ tail[i][1] # "size")
      <4>1. i \in 1 .. m /\ rest[i + k] = tail[i]
        BY <1>1, <2>1, <3>2, <3>4
      <4>2. PICK n \in Nat : n = tail[i][2]
        BY <1>1, <3>4, <4>1
      <4>3. PICK a, b : a = f[i + k + n + 2] /\ b = g[i + n + 2]
        OBVIOUS
      <4>4. ReadAt(rest, f, i + k) =
              IF i + k + n + 1 > Len(rest) \/ rest[i + k + n + 1] # R!ChunkEnd THEN R!Partial(<<>>)
              ELSE IF n = 0 THEN R!Whole(<<>>)
              ELSE [a EXCEPT !.body = R!Texts(SubSeq(rest, i + k + 1, i + k + n)) \o @]
        BY <3>1, <3>4, <4>1, <4>2, <4>3 DEF ReadAt
      <4>5. ReadAt(tail, g, i) =
              IF i + n + 1 > m \/ tail[i + n + 1] # R!ChunkEnd THEN R!Partial(<<>>)
              ELSE IF n = 0 THEN R!Whole(<<>>)
              ELSE [b EXCEPT !.body = R!Texts(SubSeq(tail, i + 1, i + n)) \o @]
        BY <3>4, <4>2, <4>3 DEF ReadAt, m
      <4>6. i + k + n + 1 > Len(rest) <=> i + n + 1 > m
        BY <1>1, <4>1
      <4>7. CASE i + n + 1 > m
        BY <4>4, <4>5, <4>6, <4>7
      <4>8. CASE ~(i + n + 1 > m)
        <5>1. i + n + 1 \in 1 .. m /\ i + n <= m /\ i + n + 2 \in i + 1 .. m + 1
              /\ (i + n + 1) + k = i + k + n + 1 /\ (i + n + 2) + k = i + k + n + 2
          BY <1>1, <4>1, <4>8
        <5>2. rest[i + k + n + 1] = tail[i + n + 1]
          BY <1>1, <5>1
        <5>3. SubSeq(rest, i + k + 1, i + k + n) = SubSeq(tail, i + 1, i + n)
          BY <1>1, <4>1, <5>1
        <5>4. a = b
          BY <2>2, <4>3, <5>1
        <5>. QED  BY <4>4, <4>5, <4>6, <5>2, <5>3, <5>4, Zenon
      <4>. QED  BY <4>7, <4>8
    <3>. QED  BY <3>3, <3>4
  <2>5. ASSUME NEW j \in i .. m + 1 PROVE f[j + k] = g[j]
    <3>1. j = i \/ j \in i + 1 .. m + 1
      BY <1>1, <2>1
    <3>. QED  BY <2>2, <2>3, <2>4, <3>1
  <2>. QED  BY <2>5 DEF i
<1>5. 0 .. m + 1 \subseteq T
  <2> HIDE DEF T
  <2>1. m + 1 \in Nat
    BY <1>1
  <2>. QED  BY <1>3, <1>4, <2>1, Counting
<1>6. \A i \in m + 2 - (m + 1) .. m + 1 : f[i + k] = g[i]
  <2>1. m + 1 \in T
    BY <1>1, <1>5
  <2>. QED  BY <2>1
<1>7. 1 \in m + 2 - (m + 1) .. m + 1
  BY <1>1
<1>8. f[1 + k] = g[1]
  <2> HIDE DEF T
  <2>. QED  BY <1>6, <1>7, Zenon
<1>. QED  BY <1>8 DEF k

(* What is read is a list, and whether it is complete.                       *)
Shape(x) == DOMAIN x = {"complete", "body"} /\ IsList(x.body)

LEMMA ReadShape ==
  ASSUME NEW rest, MarkList(rest), NEW f, Reading(rest, f)
  PROVE  \A i \in 1 .. Len(rest) + 1 : Shape(f[i])
<1> DEFINE m == Len(rest)
           T == {x \in 0 .. m + 1 : \A i \in m + 2 - x .. m + 1 : Shape(f[i])}
<1>1. m \in Nat /\ DOMAIN rest = 1 .. m /\ \A i \in 1 .. m : rest[i][1] = "size" => rest[i][2] \in Nat
  BY MarksHaveSizes
<1>2. \A i \in 1 .. m + 1 : f[i] = ReadAt(rest, f, i)
  BY <1>1 DEF Reading
<1>3. Shape(R!Partial(<<>>)) /\ Shape(R!Whole(<<>>))
  <2>1. DOMAIN R!Partial(<<>>) = {"complete", "body"} /\ R!Partial(<<>>).body = <<>>
    BY DEF R!Partial
  <2>2. DOMAIN R!Whole(<<>>) = {"complete", "body"} /\ R!Whole(<<>>).body = <<>>
    BY DEF R!Whole
  <2>. QED  BY <2>1, <2>2, NothingIsList DEF Shape
<1> HIDE DEF m
<1>4. 0 \in T
  BY <1>1
<1>5. ASSUME NEW x \in 1 .. m + 1, x - 1 \in T PROVE x \in T
  <2> DEFINE i == m + 2 - x
  <2>1. i \in 1 .. m + 1 /\ i \in Nat
    BY <1>1
  <2>2. \A j \in i + 1 .. m + 1 : Shape(f[j])
    BY <1>1, <1>5
  <2> HIDE DEF i
  <2>3. Shape(f[i])
    <3>1. f[i] = ReadAt(rest, f, i)
      BY <1>2, <2>1
    <3>2. CASE i > m \/ rest[i][1] # "size"
      BY <1>3, <3>1, <3>2 DEF ReadAt, m
    <3>3. CASE ~(i > m \/ rest[i][1] # "size")
      <4>1. PICK n \in Nat : n = rest[i][2]
        BY <1>1, <2>1, <3>3
      <4>2. PICK old, read, text : old = f[i + n + 2] /\ read = SubSeq(rest, i + 1, i + n) /\ text = R!Texts(read)
        OBVIOUS
      <4>3. f[i] = IF i + n + 1 > m \/ rest[i + n + 1] # R!ChunkEnd THEN R!Partial(<<>>)
                   ELSE IF n = 0 THEN R!Whole(<<>>) ELSE [old EXCEPT !.body = text \o @]
        BY <3>1, <3>3, <4>1, <4>2 DEF ReadAt, m
      <4>4. CASE i + n + 1 > m \/ rest[i + n + 1] # R!ChunkEnd \/ n = 0
        BY <1>3, <4>3, <4>4
      <4>5. CASE ~(i + n + 1 > m \/ rest[i + n + 1] # R!ChunkEnd \/ n = 0)
        <5>1. i + n + 2 \in i + 1 .. m + 1 /\ i + n <= m
          BY <1>1, <2>1, <4>5
        <5>2. Shape(old)
          BY <2>2, <4>2, <5>1
        <5>3. IsList(text)
          <6>1. PICK U : rest \in Seq(U)
            BY DEF MarkList, IsList
          <6>2. read \in Seq(U)
            <7>1. PICK from, to : from = i + 1 /\ to = i + n
              OBVIOUS
            <7>2. from \in 1 .. m + 1 /\ to \in from - 1 .. m
              BY <1>1, <2>1, <5>1, <7>1
            <7>3. SubSeq(rest, from, to) \in Seq(U)
              BY <6>1, <7>2 DEF m
            <7>. QED  BY <4>2, <7>1, <7>3
          <6>3. text = [j \in DOMAIN read |-> read[j][2]]
            BY <4>2 DEF R!Texts
          <6>4. PICK V : V = {read[j][2] : j \in DOMAIN read}
            OBVIOUS
          <6>5. Len(read) \in Nat /\ DOMAIN read = 1 .. Len(read)
            BY <6>2
          <6>6. text \in [1 .. Len(read) -> V]
            BY <6>3, <6>4, <6>5
          <6>7. text \in Seq(V)
            BY <6>5, <6>6
          <6>. QED  BY <6>7 DEF IsList
        <5>4. PICK more : more = text \o old.body
          OBVIOUS
        <5>5. IsList(more)
          BY <5>2, <5>3, <5>4, ListsJoined DEF Shape
        <5>6. f[i] = [old EXCEPT !.body = more]
          BY <4>3, <4>5, <5>2, <5>4 DEF Shape
        <5>7. DOMAIN f[i] = {"complete", "body"} /\ f[i].body = more
          BY <5>2, <5>6 DEF Shape
        <5>. QED  BY <5>5, <5>7 DEF Shape
      <4>. QED  BY <4>4, <4>5
    <3>. QED  BY <3>2, <3>3
  <2>4. ASSUME NEW j \in i .. m + 1 PROVE Shape(f[j])
    <3>1. j = i \/ j \in i + 1 .. m + 1
      BY <1>1, <2>1
    <3>. QED  BY <2>2, <2>3, <3>1
  <2>. QED  BY <2>4 DEF i
<1>6. 0 .. m + 1 \subseteq T
  <2> HIDE DEF T
  <2>1. m + 1 \in Nat
    BY <1>1
  <2>. QED  BY <1>4, <1>5, <2>1, Counting
<1>7. \A i \in m + 2 - (m + 1) .. m + 1 : Shape(f[i])
  <2>1. m + 1 \in T
    BY <1>1, <1>6
  <2>. QED  BY <2>1
<1>8. m + 2 - (m + 1) = 1
  BY <1>1
<1>9. \A i \in 1 .. m + 1 : Shape(f[i])
  BY <1>7, <1>8
<1>. QED  BY <1>9 DEF m

(* A chunk on the wire, and what is read when it comes first.                *)
ChunkMarks(chunk) == (<<R!SizeMark(Len(chunk))>> \o R!Chars(chunk)) \o <<R!ChunkEnd>>

LEMMA ChunkMarksAre ==
  ASSUME NEW chunk, IsList(chunk), NEW p, p = ChunkMarks(chunk)
  PROVE  /\ Len(chunk) \in Nat /\ MarkList(p) /\ Len(p) = Len(chunk) + 2
         /\ p[1][1] = "size" /\ p[1][2] = Len(chunk) /\ p[Len(chunk) + 2] = R!ChunkEnd
         /\ \A j \in 1 .. Len(chunk) : p[j + 1] = R!Chars(chunk)[j]
<1>1. PICK T : chunk \in Seq(T)
  BY DEF IsList
<1>2. PICK size, end, chars : size = R!SizeMark(Len(chunk)) /\ end = R!ChunkEnd /\ chars = R!Chars(chunk)
  OBVIOUS
<1>3. chars \in Seq({"char"} \X T) /\ Len(chars) = Len(chunk)
  BY <1>1, <1>2, CharsAre
<1>4. PICK U : U = {size, end} \cup ({"char"} \X T)
  OBVIOUS
<1>5. chars \in Seq(U) /\ <<size>> \in Seq(U) /\ <<end>> \in Seq(U)
  BY <1>3, <1>4
<1> DEFINE n == Len(chunk)
<1>6. n \in Nat
  BY <1>1
<1>7. p = (<<size>> \o chars) \o <<end>>
  BY <1>2 DEF ChunkMarks
<1> HIDE DEF n
<1>8. Len(chars) = n
  BY <1>3 DEF n
<1>9. PICK front : front = <<size>> \o chars
  OBVIOUS
<1>10. /\ front \in Seq(U) /\ Len(front) = n + 1 /\ front[1] = size
       /\ \A j \in 1 .. n : front[j + 1] = chars[j]
  BY <1>5, <1>6, <1>8, <1>9
<1>11. /\ p \in Seq(U) /\ Len(p) = n + 2 /\ DOMAIN p = 1 .. n + 2 /\ p[n + 2] = end
       /\ \A j \in 1 .. n + 1 : p[j] = front[j]
  <2>1. PICK last : last = <<end>>
    OBVIOUS
  <2>2. last \in Seq(U) /\ Len(last) = 1 /\ last[1] = end /\ p = front \o last
    BY <1>5, <1>7, <1>9, <2>1
  <2>3. PICK both : both = front \o last
    OBVIOUS
  <2>4. front \in Seq(U) /\ last \in Seq(U)
    BY <1>10, <2>2
  <2>5. /\ both \in Seq(U) /\ Len(both) = Len(front) + Len(last)
        /\ \A j \in 1 .. Len(front) : both[j] = front[j]
        /\ \A j \in 1 .. Len(last) : both[j + Len(front)] = last[j]
    BY <2>3, <2>4
  <2>6. p = both
    BY <2>2, <2>3
  <2>7. p \in Seq(U) /\ Len(p) = n + 2
    BY <1>6, <1>10, <2>2, <2>5, <2>6
  <2>8. p[n + 2] = end
    <3>1. both[1 + Len(front)] = last[1]
      BY <2>2, <2>5
    <3>. QED  BY <1>6, <1>10, <2>2, <2>6, <3>1
  <2>. QED  BY <1>6, <1>10, <2>5, <2>6, <2>7, <2>8
<1>12. p[1] = size /\ \A j \in 1 .. n : p[j + 1] = chars[j]
  BY <1>6, <1>10, <1>11
<1>13. size[1] = "size" /\ size[2] = n /\ end[1] = "crlf"
  BY <1>2 DEF R!SizeMark, R!ChunkEnd, n
<1>14. ASSUME NEW i \in DOMAIN p, p[i][1] = "size" PROVE p[i][2] \in Nat
  <2>1. CASE i = 1
    BY <1>6, <1>12, <1>13, <2>1
  <2>2. CASE i = n + 2
    BY <1>11, <1>13, <1>14, <2>2
  <2>3. CASE i # 1 /\ i # n + 2
    <3>1. i - 1 \in 1 .. n /\ (i - 1) + 1 = i
      BY <1>6, <1>11, <2>3
    <3>2. p[i] = chars[i - 1]
      BY <1>12, <3>1
    <3>3. chars[i - 1] \in {"char"} \X T
      BY <1>3, <1>8, <3>1
    <3>4. p[i][1] = "char"
      BY <3>2, <3>3
    <3>. QED  BY <1>14, <3>4
  <2>. QED  BY <2>1, <2>2, <2>3
<1>15. MarkList(p)
  BY <1>11, <1>14 DEF MarkList, IsList
<1>. QED  BY <1>2, <1>6, <1>11, <1>12, <1>13, <1>15 DEF n

LEMMA ChunkRead ==
  ASSUME NEW chunk, IsList(chunk), NEW tail, MarkList(tail), NEW rest, rest = ChunkMarks(chunk) \o tail
  PROVE  /\ MarkList(rest) /\ IsList(R!ReadChunks(tail).body)
         /\ chunk = <<>> => R!ReadChunks(rest) = R!Whole(<<>>)
         /\ chunk # <<>> => /\ R!ReadChunks(rest).complete = R!ReadChunks(tail).complete
                            /\ R!ReadChunks(rest).body = chunk \o R!ReadChunks(tail).body
<1>1. PICK T : chunk \in Seq(T)
  BY DEF IsList
<1>2. PICK p : p = ChunkMarks(chunk)
  OBVIOUS
<1> DEFINE n == Len(chunk)
<1>3. /\ n \in Nat /\ MarkList(p) /\ Len(p) = n + 2
      /\ p[1][1] = "size" /\ p[1][2] = n /\ p[n + 2] = R!ChunkEnd
      /\ \A j \in 1 .. n : p[j + 1] = R!Chars(chunk)[j]
  BY <1>2, ChunkMarksAre
<1>4. rest = p \o tail
  BY <1>2
<1>5. /\ MarkList(rest) /\ Len(rest) = Len(p) + Len(tail)
      /\ \A i \in 1 .. Len(p) : rest[i] = p[i]
  <2>1. MarkList(p)
    BY <1>3
  <2>2. MarkList(rest)
    BY ONLY <1>4, <2>1, MarkList(tail), MarksJoined
  <2>3. Len(rest) = Len(p) + Len(tail)
    BY ONLY <1>4, <2>1, MarkList(tail), MarksJoined
  <2>4. \A i \in 1 .. Len(p) : rest[i] = p[i]
    BY ONLY <1>4, <2>1, MarkList(tail), MarksJoined
  <2>. QED  BY <2>2, <2>3, <2>4
<1>6. PICK f : Reading(rest, f) /\ R!ReadChunks(rest) = f[1]
  BY <1>5, ReadChunksIs
<1>7. PICK g : Reading(tail, g) /\ R!ReadChunks(tail) = g[1]
  BY ReadChunksIs
<1>8. Len(tail) \in Nat
  BY MarksHaveSizes
<1>9. Shape(g[1])
  <2>1. \A i \in 1 .. Len(tail) + 1 : Shape(g[i])
    BY <1>7, ReadShape
  <2>. QED  BY <1>8, <2>1
<1>10. f[n + 3] = g[1]
  <2>1. f[1 + Len(p)] = g[1]
    <3>1. MarkList(p) /\ Reading(rest, f) /\ Reading(tail, g)
      BY <1>3, <1>6, <1>7
    <3>2. MarkList(p)
      BY <3>1
    <3>3. Reading(rest, f)
      BY <3>1
    <3>4. Reading(tail, g)
      BY <3>1
    <3>. QED  BY ONLY <1>4, <3>2, <3>3, <3>4, MarkList(tail), ReadShifted, ZenonT(60)
  <2>2. f[1 + (n + 2)] = g[1] /\ 1 + (n + 2) = n + 3
    BY <1>3, <1>8, <2>1
  <2>. QED  BY <2>2
<1>11. n = 0 <=> chunk = <<>>
  BY <1>1
<1> HIDE DEF n
<1>12. f[1] = IF n = 0 THEN R!Whole(<<>>)
              ELSE [g[1] EXCEPT !.body = R!Texts(SubSeq(rest, 1 + 1, 1 + n)) \o @]
  <2>1. f[1] = ReadAt(rest, f, 1)
    <3>1. 1 \in 1 .. Len(rest) + 1
      BY <1>3, <1>5, <1>8
    <3>2. f = [i \in 1 .. Len(rest) + 1 |-> ReadAt(rest, f, i)]
      BY <1>6 DEF Reading
    <3>. QED  BY <3>1, <3>2, Zenon
  <2>2. rest[1][1] = "size" /\ rest[1][2] = n /\ rest[1 + n + 1] = R!ChunkEnd /\ ~(1 > Len(rest))
        /\ ~(1 + n + 1 > Len(rest)) /\ 1 + n + 2 = n + 3
    <3>1. 1 \in 1 .. Len(p) /\ 1 + n + 1 \in 1 .. Len(p) /\ 1 + n + 1 = n + 2
      BY <1>3
    <3>. QED  BY <1>3, <1>5, <1>8, <3>1
  <2>. QED  BY <1>10, <2>1, <2>2, Zenon DEF ReadAt
<1>13. SubSeq(rest, 1 + 1, 1 + n) = R!Chars(chunk)
  <2>1. PICK chars : chars = R!Chars(chunk)
    OBVIOUS
  <2>2. chars \in Seq({"char"} \X T) /\ Len(chars) = n
    BY <1>1, <2>1, CharsAre DEF n
  <2>3. PICK U : rest \in Seq(U)
    BY <1>5 DEF MarkList, IsList
  <2>4. PICK part, from, to : from = 1 + 1 /\ to = 1 + n /\ part = SubSeq(rest, from, to)
    OBVIOUS
  <2>5. from \in 1 .. Len(rest) + 1 /\ to \in from - 1 .. Len(rest) /\ to - from + 1 = n
    BY <1>3, <1>5, <1>8, <2>4
  <2>6. part \in Seq(U) /\ Len(part) = n /\ \A j \in 1 .. n : part[j] = rest[from + j - 1]
    <3>1. PICK k : k = Len(rest)
      OBVIOUS
    <3>2. k \in Nat /\ from \in 1 .. k + 1 /\ to \in from - 1 .. k /\ to - from + 1 = n
      BY <1>3, <1>5, <1>8, <2>5, <3>1
    <3>3. /\ SubSeq(rest, from, to) \in Seq(U) /\ Len(SubSeq(rest, from, to)) = n
          /\ \A j \in 1 .. n : SubSeq(rest, from, to)[j] = rest[from + j - 1]
      BY <2>3, <3>1, <3>2, SMTT(40)
    <3>. QED  BY <2>4, <3>3
  <2>7. ASSUME NEW j \in 1 .. n PROVE part[j] = chars[j]
    <3>1. from + j - 1 = j + 1 /\ j + 1 \in 1 .. Len(p)
      BY <1>3, <2>4
    <3>. QED  BY <1>3, <1>5, <2>1, <2>6, <3>1
  <2>8. PICK N : N = U \cup ({"char"} \X T)
    OBVIOUS
  <2>9. part \in Seq(N) /\ chars \in Seq(N)
    BY <2>2, <2>6, <2>8
  <2>10. part = chars
    BY <2>2, <2>6, <2>7, <2>9, SeqEqual
  <2>. QED  BY <2>1, <2>4, <2>10
<1>14. CASE n = 0
  BY <1>5, <1>6, <1>7, <1>9, <1>11, <1>12, <1>14 DEF Shape
<1>15. CASE n # 0
  <2>1. R!Texts(R!Chars(chunk)) = chunk
    BY <1>1, CharsAre
  <2>2. PICK y : y = g[1]
    OBVIOUS
  <2>3. f[1] = [y EXCEPT !.body = chunk \o @]
    BY <1>12, <1>13, <1>15, <2>1, <2>2, Zenon
  <2>4. PICK more : more = chunk \o y.body
    OBVIOUS
  <2>5. f[1] = [y EXCEPT !.body = more]
    BY <1>9, <2>2, <2>3, <2>4 DEF Shape
  <2>6. f[1].complete = y.complete /\ f[1].body = more
    BY <1>9, <2>2, <2>5 DEF Shape
  <2>. QED  BY <1>5, <1>6, <1>7, <1>9, <1>11, <1>15, <2>2, <2>4, <2>6 DEF Shape
<1>. QED  BY <1>14, <1>15

(* What writing a chunk leaves.                                              *)
LEMMA WriteUnlessIs ==
  ASSUME NEW r, IsRes(r), r.rc = "ok", NEW marks, NEW fails \in BOOLEAN, NEW s, s = R!WriteUnless(r, marks, fails)
  PROVE  /\ IsRes(s) /\ s.body = r.body /\ (s.chunked <=> r.chunked) /\ (s.headersSent <=> r.headersSent)
         /\ fails => s.rc = "error" /\ s.wire = r.wire
         /\ ~fails => s.rc = "ok" /\ s.wire = r.wire \o marks
<1>1. CASE fails
  <2>1. s = R!Error(r)
    BY <1>1 DEF R!WriteUnless
  <2>2. IsRes(s) /\ SameAnswer(s, r) /\ SameWire(s, r) /\ s.headers = r.headers /\ s.rc = "error"
    BY <2>1, ErrorIs
  <2>. QED  BY <1>1, <2>2 DEF SameAnswer, SameWire
<1>2. CASE ~fails
  <2>1. PICK w : w = r.wire \o marks
    OBVIOUS
  <2>2. s = [r EXCEPT !.wire = w]
    BY <1>2, <2>1 DEF R!WriteUnless, R!Write
  <2>3. IsRes(s) /\ SameAnswer(s, r) /\ s.headersSent = r.headersSent /\ s.rc = r.rc /\ s.wire = w
    BY <2>2, WireUpdated
  <2>. QED  BY <1>2, <2>1, <2>3 DEF SameAnswer
<1>. QED  BY <1>1, <1>2

HeadOfChunks(head) ==
  \E status, headers : head = R!HeadMark(status, headers) /\ HeaderValue(headers, "Transfer-Encoding") = "chunked"

BehindHead(wire, r) == \E head : HeadOfChunks(head) /\ wire = r.wire \o <<head>>

LEMMA OpenedIs ==
  ASSUME NEW r, IsRes(r), r.body = NULL, r.headersSent => r.chunked, NEW fault, NEW s, s = R!Opened(r, fault)
  PROVE  /\ IsRes(s) /\ s.body = NULL /\ s.rc \in {"ok", "error"}
         /\ s.rc = "ok" => s.headersSent /\ s.chunked
         /\ s.rc # "ok" => ~r.headersSent /\ ~s.headersSent
         /\ r.headersSent => s.wire = r.wire
         /\ ~r.headersSent /\ s.rc = "ok" => BehindHead(s.wire, r)
<1>1. CASE r.headersSent
  <2>1. s = R!Ok(r)
    BY <1>1 DEF R!Opened
  <2>2. IsRes(s) /\ SameAnswer(s, r) /\ SameWire(s, r) /\ s.rc = "ok"
    BY <2>1, OkIs
  <2>. QED  BY <1>1, <2>2 DEF SameAnswer, SameWire
<1>2. CASE ~r.headersSent
  <2>1. PICK key, value : key = "Transfer-Encoding" /\ value = "chunked"
    OBVIOUS
  <2>2. PICK fails \in BOOLEAN : fails = (fault = "type")
    OBVIOUS
  <2>3. PICK yes : yes = TRUE
    OBVIOUS
  <2>4. PICK r1 : r1 = R!SetHeader(r, key, value, fails)
    OBVIOUS
  <2>5. PICK r2 : r2 = [r1 EXCEPT !.chunked = yes]
    OBVIOUS
  <2>6. PICK r3 : r3 = R!Send(r2, fault)
    OBVIOUS
  <2>7. s = IF r1.rc # "ok" THEN r1 ELSE IF r2.rc # "ok" THEN r2 ELSE r3
    BY <1>2, <2>1, <2>2, <2>3, <2>4, <2>5, <2>6 DEF R!Opened, R!Then
  <2>8. /\ IsRes(r1) /\ SameAnswer(r1, r) /\ SameWire(r1, r) /\ SameHeadersBut(r1, r, {key})
        /\ fails => r1.headers = r.headers /\ r1.rc = "error"
        /\ ~fails => r1.rc = "ok" /\ HasHeader(r1.headers, key) /\ HeaderValue(r1.headers, key) = value
    BY <2>4, SetHeaderIs
  <2>9. r1.body = NULL /\ ~r1.headersSent /\ r1.wire = r.wire
    BY <1>2, <2>8 DEF SameAnswer, SameWire
  <2>10. CASE r1.rc # "ok"
    <3>1. s = r1 /\ s.rc = "error"
      BY <2>7, <2>8, <2>10
    <3>. QED  BY <1>2, <2>8, <2>9, <3>1
  <2>11. CASE r1.rc = "ok"
    <3>1. /\ IsRes(r2) /\ r2.body = r1.body /\ r2.chunked = yes /\ SameWire(r2, r1)
          /\ r2.headers = r1.headers /\ r2.rc = r1.rc
      BY <2>5, <2>8, ChunkedUpdated
    <3>2. s = r3
      BY <2>7, <2>11, <3>1
    <3>3. r2.body = NULL /\ ~r2.headersSent /\ r2.chunked /\ r2.wire = r.wire
      BY <2>3, <2>9, <3>1 DEF SameWire
    <3>4. /\ IsRes(s) /\ SameAnswer(s, r2) /\ s.rc \in {"ok", "error"} /\ s.headers = r2.headers
          /\ s.rc = "ok" => s.headersSent /\ s.wire = Begun(s, r2)
          /\ s.rc # "ok" => ~s.headersSent
      BY <2>6, <3>1, <3>2, <3>3, SendIs
    <3>5. s.body = NULL /\ s.chunked
      BY <3>3, <3>4 DEF SameAnswer
    <3>6. SUFFICES ASSUME s.rc = "ok" PROVE BehindHead(s.wire, r)
      BY <1>2, <3>4, <3>5
    <3>7. PICK status, headers : status = s.status /\ headers = s.headers
      OBVIOUS
    <3>8. PICK head : head = R!HeadMark(status, headers)
      OBVIOUS
    <3>9. s.wire = r.wire \o <<head>>
      BY <3>3, <3>4, <3>6, <3>7, <3>8 DEF Begun
    <3>10. HeaderValue(headers, "Transfer-Encoding") = "chunked"
      BY <2>1, <2>8, <2>11, <3>1, <3>4, <3>7
    <3>11. HeadOfChunks(head)
      BY <3>8, <3>10 DEF HeadOfChunks
    <3>. QED  BY <3>9, <3>11 DEF BehindHead
  <2>. QED  BY <2>10, <2>11
<1>. QED  BY <1>1, <1>2

(* An answer in chunks: its head tells the peer of them.                     *)
Chunky(r) == IsRes(r) /\ r.body = NULL /\ (r.headersSent => r.chunked)

ChunkWritten(s, r, chunk) ==
  \E wire :
    /\ IF r.headersSent THEN wire = r.wire ELSE BehindHead(wire, r)
    /\ LET sized == wire \o <<R!SizeMark(Len(chunk))>>
       IN  IF s.rc = "ok" THEN s.wire = (sized \o R!Chars(chunk)) \o <<R!ChunkEnd>>
           ELSE s.wire \in {wire, sized, sized \o R!Chars(chunk)}

LEMMA WriteChunkIs ==
  ASSUME NEW r, Chunky(r), NEW chunk, NEW fault, NEW s, s = R!WriteChunk(r, chunk, fault)
  PROVE  /\ Chunky(s) /\ s.rc \in {"ok", "error"}
         /\ ~r.headersSent /\ ~s.headersSent => s.rc # "ok"
         /\ r.headersSent => s.headersSent
         /\ s.headersSent => ChunkWritten(s, r, chunk)
<1>1. PICK size, chars, end : size = <<R!SizeMark(Len(chunk))>> /\ chars = R!Chars(chunk) /\ end = <<R!ChunkEnd>>
  OBVIOUS
<1>2. PICK r1 : r1 = R!Opened(r, fault)
  OBVIOUS
<1>3. PICK noSize \in BOOLEAN : noSize = (fault = "rest")
  OBVIOUS
<1>4. PICK noData \in BOOLEAN : noData = (chunk # <<>> /\ fault = "data")
  OBVIOUS
<1>5. PICK noEnd \in BOOLEAN : noEnd = (fault = "end")
  OBVIOUS
<1>6. PICK r2 : r2 = R!WriteUnless(r1, size, noSize)
  OBVIOUS
<1>7. PICK r3 : r3 = R!WriteUnless(r2, chars, noData)
  OBVIOUS
<1>8. PICK r4 : r4 = R!WriteUnless(r3, end, noEnd)
  OBVIOUS
<1>9. /\ IsRes(r1) /\ r1.body = NULL /\ r1.rc \in {"ok", "error"}
      /\ r1.rc = "ok" => r1.headersSent /\ r1.chunked
      /\ r1.rc # "ok" => ~r.headersSent /\ ~r1.headersSent
      /\ r.headersSent => r1.wire = r.wire
      /\ ~r.headersSent /\ r1.rc = "ok" => BehindHead(r1.wire, r)
  <2>1. IsRes(r) /\ r.body = NULL /\ (r.headersSent => r.chunked)
    BY DEF Chunky
  <2>. QED  BY <1>2, <2>1, OpenedIs
<1> DEFINE Size(q) == R!WriteUnless(q, IF q.chunked THEN <<R!SizeMark(Len(chunk))>> ELSE <<>>, q.chunked /\ fault = "rest")
           Data(q) == R!WriteUnless(q, R!Chars(chunk), chunk # <<>> /\ fault = IF q.chunked THEN "data" ELSE "rest")
           End(q) == R!WriteUnless(q, IF q.chunked THEN <<R!ChunkEnd>> ELSE <<>>, q.chunked /\ fault = "end")
           o2 == IF r1.rc = "ok" THEN Size(r1) ELSE r1
           o3 == IF o2.rc = "ok" THEN Data(o2) ELSE o2
           o4 == IF o3.rc = "ok" THEN End(o3) ELSE o3
<1>10. s = o4
  BY <1>2 DEF R!WriteChunk, R!Then
<1>11. CASE r1.rc # "ok"
  <2>1. s = r1
    BY <1>10, <1>11
  <2>. QED  BY <1>9, <1>11, <2>1 DEF Chunky
<1>12. CASE r1.rc = "ok"
  <2> DEFINE Written(q, wire) ==
        Chunky(q) /\ q.headersSent /\ q.chunked /\ q.rc \in {"ok", "error"} /\ q.wire = wire
  <2>1. o2 = r2
    <3>1. Size(r1) = r2
      BY <1>1, <1>3, <1>6, <1>9, <1>12, Zenon
    <3>. QED  BY <1>12, <3>1
  <2>2. /\ IsRes(r2) /\ r2.body = r1.body /\ (r2.chunked <=> r1.chunked) /\ (r2.headersSent <=> r1.headersSent)
        /\ noSize => r2.rc = "error" /\ r2.wire = r1.wire
        /\ ~noSize => r2.rc = "ok" /\ r2.wire = r1.wire \o size
    BY <1>6, <1>9, <1>12, WriteUnlessIs
  <2>3. Written(r2, IF r2.rc = "ok" THEN r1.wire \o size ELSE r1.wire)
    BY <1>9, <1>12, <2>2 DEF Chunky
  <2>4. PICK sized : sized = r1.wire \o size
    OBVIOUS
  <2>5. PICK full : full = sized \o chars
    OBVIOUS
  <2>6. PICK whole : whole = full \o end
    OBVIOUS
  <2>7. Written(s, IF s.rc = "ok" THEN whole ELSE s.wire) /\ (s.rc # "ok" => s.wire \in {r1.wire, sized, full})
    <3>1. CASE r2.rc # "ok"
      <4>1. s = r2
        BY <1>10, <2>1, <3>1
      <4>. QED  BY <2>3, <3>1, <4>1
    <3>2. CASE r2.rc = "ok"
      <4>1. o3 = r3
        <5>1. Data(r2) = r3
          BY <1>1, <1>4, <1>7, <2>3, Zenon
        <5>. QED  BY <2>1, <3>2, <5>1
      <4>2. /\ IsRes(r3) /\ r3.body = r2.body /\ (r3.chunked <=> r2.chunked) /\ (r3.headersSent <=> r2.headersSent)
            /\ noData => r3.rc = "error" /\ r3.wire = r2.wire
            /\ ~noData => r3.rc = "ok" /\ r3.wire = r2.wire \o chars
        <5>1. IsRes(r2)
          BY <2>2
        <5>. QED  BY <1>7, <3>2, <5>1, WriteUnlessIs
      <4>3. Written(r3, IF r3.rc = "ok" THEN full ELSE sized)
        BY <2>3, <2>4, <2>5, <3>2, <4>2 DEF Chunky
      <4>4. CASE r3.rc # "ok"
        <5>1. s = r3
          BY <1>10, <4>1, <4>4
        <5>. QED  BY <4>3, <4>4, <5>1
      <4>5. CASE r3.rc = "ok"
        <5>1. s = r4
          <6>1. End(r3) = r4
            BY <1>1, <1>5, <1>8, <4>3, Zenon
          <6>. QED  BY <1>10, <4>1, <4>5, <6>1
        <5>2. /\ IsRes(r4) /\ r4.body = r3.body /\ (r4.chunked <=> r3.chunked) /\ (r4.headersSent <=> r3.headersSent)
              /\ noEnd => r4.rc = "error" /\ r4.wire = r3.wire
              /\ ~noEnd => r4.rc = "ok" /\ r4.wire = r3.wire \o end
          <6>1. IsRes(r3)
            BY <4>2
          <6>. QED  BY <1>8, <4>5, <6>1, WriteUnlessIs
        <5>. QED  BY <2>6, <4>3, <4>5, <5>1, <5>2 DEF Chunky
      <4>. QED  BY <4>4, <4>5
    <3>. QED  BY <3>1, <3>2
  <2>8. PICK wire : wire = r1.wire
    OBVIOUS
  <2>9. IF r.headersSent THEN wire = r.wire ELSE BehindHead(wire, r)
    BY <1>9, <1>12, <2>8
  <2>10. LET sd == wire \o <<R!SizeMark(Len(chunk))>>
         IN  IF s.rc = "ok" THEN s.wire = (sd \o R!Chars(chunk)) \o <<R!ChunkEnd>>
             ELSE s.wire \in {wire, sd, sd \o R!Chars(chunk)}
    BY <1>1, <2>4, <2>5, <2>6, <2>7, <2>8
  <2>11. ChunkWritten(s, r, chunk)
    BY <2>9, <2>10 DEF ChunkWritten
  <2>. QED  BY <2>7, <2>11
<1>. QED  BY <1>11, <1>12

(* What the peer has read so far is what was said; more is read behind it,   *)
(* until the last chunk.                                                     *)
ReadsOn(wire, said) ==
  \E head, rest :
    /\ HeadOfChunks(head) /\ wire = <<head>> \o rest /\ MarkList(rest)
    /\ \A tail : MarkList(tail) =>
         /\ R!ReadChunks(rest \o tail).complete = R!ReadChunks(tail).complete
         /\ R!ReadChunks(rest \o tail).body = said \o R!ReadChunks(tail).body

ReadsAll(wire, said) ==
  \E head, rest :
    /\ HeadOfChunks(head) /\ wire = <<head>> \o rest /\ MarkList(rest)
    /\ R!ReadChunks(rest).complete /\ R!ReadChunks(rest).body = said

LEMMA NoMarks == MarkList(<<>>) /\ R!ReadChunks(<<>>) = R!Partial(<<>>)
<1>1. PICK none : none = <<>>
  OBVIOUS
<1>2. MarkList(none) /\ Len(none) = 0
  BY <1>1, NothingIsList DEF MarkList
<1>3. PICK f : Reading(none, f) /\ R!ReadChunks(none) = f[1]
  BY <1>2, ReadChunksIs
<1>4. 1 \in 1 .. Len(none) + 1
  BY <1>2
<1>5. f[1] = ReadAt(none, f, 1)
  BY <1>3, <1>4 DEF Reading
<1>6. ReadAt(none, f, 1) = R!Partial(<<>>)
  BY <1>2 DEF ReadAt
<1>. QED  BY <1>1, <1>2, <1>3, <1>5, <1>6

LEMMA BodyIsList == ASSUME NEW tail, MarkList(tail) PROVE IsList(R!ReadChunks(tail).body)
<1>1. PICK f : Reading(tail, f) /\ R!ReadChunks(tail) = f[1]
  BY ReadChunksIs
<1>2. Len(tail) \in Nat
  BY MarksHaveSizes
<1>3. \A i \in 1 .. Len(tail) + 1 : Shape(f[i])
  BY <1>1, ReadShape
<1>4. Shape(f[1])
  BY <1>2, <1>3
<1>. QED  BY <1>1, <1>4 DEF Shape

LEMMA MarksAre == ASSUME NEW t, MarkList(t) PROVE t \o <<>> = t /\ <<>> \o t = t
BY NothingAdded DEF MarkList

LEMMA MarksInLine ==
  ASSUME NEW a, IsList(a), NEW b, IsList(b), NEW c, IsList(c)
  PROVE  (a \o b) \o c = a \o (b \o c)
<1>1. PICK A : a \in Seq(A)
  BY DEF IsList
<1>2. PICK B : b \in Seq(B)
  BY DEF IsList
<1>3. PICK C : c \in Seq(C)
  BY DEF IsList
<1>4. PICK U : U = A \cup B \cup C
  OBVIOUS
<1>5. a \in Seq(U) /\ b \in Seq(U) /\ c \in Seq(U)
  BY <1>1, <1>2, <1>3, <1>4
<1>. QED  BY <1>5, ConcatAssociative

LEMMA OneIsList == ASSUME NEW x PROVE IsList(<<x>>)
<1>1. <<x>> \in Seq({x})
  OBVIOUS
<1>. QED  BY <1>1 DEF IsList

LEMMA FirstMark ==
  ASSUME NEW head, HeadOfChunks(head), NEW wire, wire = <<>> \o <<head>>
  PROVE  ReadsOn(wire, <<>>) /\ wire # <<>>
<1>1. PICK none : none = <<>>
  OBVIOUS
<1>2. MarkList(none)
  BY <1>1, NoMarks
<1>3. wire = <<head>> \o none
  <2>1. <<>> \o <<head>> = <<head>> /\ <<head>> \o <<>> = <<head>>
    OBVIOUS
  <2>. QED  BY <1>1, <2>1
<1>4. ASSUME NEW tail, MarkList(tail)
      PROVE  /\ R!ReadChunks(none \o tail).complete = R!ReadChunks(tail).complete
             /\ R!ReadChunks(none \o tail).body = none \o R!ReadChunks(tail).body
  <2>1. none \o tail = tail
    BY <1>1, <1>4, MarksAre
  <2>2. PICK body : body = R!ReadChunks(tail).body
    OBVIOUS
  <2>3. none \o body = body
    BY <1>1, <1>4, <2>2, BodyIsList, NothingAdded
  <2>. QED  BY <2>1, <2>2, <2>3
<1>5. ReadsOn(wire, none)
  BY <1>2, <1>3, <1>4 DEF ReadsOn
<1>6. wire # <<>>
  OBVIOUS
<1>. QED  BY <1>1, <1>5, <1>6

LEMMA MoreRead ==
  ASSUME NEW wire, NEW said, IsList(said), ReadsOn(wire, said), NEW chunk, IsList(chunk), NEW more,
         more = ((wire \o <<R!SizeMark(Len(chunk))>>) \o R!Chars(chunk)) \o <<R!ChunkEnd>>
  PROVE  IF chunk = <<>> THEN ReadsAll(more, said) ELSE ReadsOn(more, said \o chunk)
<1>1. PICK head, rest :
        /\ HeadOfChunks(head) /\ wire = <<head>> \o rest /\ MarkList(rest)
        /\ \A tail : MarkList(tail) =>
             /\ R!ReadChunks(rest \o tail).complete = R!ReadChunks(tail).complete
             /\ R!ReadChunks(rest \o tail).body = said \o R!ReadChunks(tail).body
  BY DEF ReadsOn
<1>2. PICK p : p = ChunkMarks(chunk)
  OBVIOUS
<1>3. MarkList(p) /\ IsList(p) /\ IsList(rest)
  <2>1. MarkList(p)
    BY <1>2, ChunkMarksAre
  <2>. QED  BY <1>1, <2>1 DEF MarkList
<1>4. PICK longer : longer = rest \o p
  OBVIOUS
<1>5. MarkList(longer)
  BY <1>1, <1>3, <1>4, MarksJoined
<1>6. more = <<head>> \o longer
  <2>1. PICK size, chars, end, first :
          size = <<R!SizeMark(Len(chunk))>> /\ chars = R!Chars(chunk) /\ end = <<R!ChunkEnd>> /\ first = <<head>>
    OBVIOUS
  <2>2. IsList(size) /\ IsList(end) /\ IsList(first)
    BY <2>1, OneIsList
  <2>3. IsList(chars)
    <3>1. PICK T : chunk \in Seq(T)
      BY DEF IsList
    <3>2. chars \in Seq({"char"} \X T)
      BY <2>1, <3>1, CharsAre
    <3>. QED  BY <3>2 DEF IsList
  <2>4. p = (size \o chars) \o end
    BY <1>2, <2>1 DEF ChunkMarks
  <2>5. more = (((first \o rest) \o size) \o chars) \o end
    BY <1>1, <2>1
  <2>6. (((first \o rest) \o size) \o chars) \o end = first \o (rest \o ((size \o chars) \o end))
    <3>1. IsList(size) /\ IsList(end) /\ IsList(first) /\ IsList(rest)
      BY <1>3, <2>2
    <3>2. PICK ab, cd, cde : ab = first \o rest /\ cd = size \o chars /\ cde = cd \o end
      OBVIOUS
    <3>3. IsList(ab) /\ IsList(cd)
      BY ONLY <2>3, <3>1, <3>2, ListsJoined
    <3>4. IsList(cde)
      BY ONLY <3>1, <3>2, <3>3, ListsJoined
    <3>5. (ab \o size) \o chars = ab \o (size \o chars)
      <4>1. IsList(ab)
        BY <3>3
      <4>2. IsList(size)
        BY <3>1
      <4>. QED  BY ONLY <2>3, <4>1, <4>2, MarksInLine
    <3>6. (ab \o cd) \o end = ab \o (cd \o end)
      <4>1. IsList(ab)
        BY <3>3
      <4>2. IsList(cd)
        BY <3>3
      <4>3. IsList(end)
        BY <3>1
      <4>. QED  BY ONLY <4>1, <4>2, <4>3, MarksInLine
    <3>7. (first \o rest) \o cde = first \o (rest \o cde)
      BY ONLY <3>1, <3>4, MarksInLine, SMTT(40)
    <3>. QED  BY ONLY <3>2, <3>5, <3>6, <3>7
  <2>. QED  BY ONLY <1>4, <2>1, <2>4, <2>5, <2>6
<1>7. CASE chunk = <<>>
  <2>1. PICK none, all : none = <<>> /\ all = p \o none
    OBVIOUS
  <2>2. MarkList(none)
    BY <2>1, NoMarks
  <2>3. R!ReadChunks(all) = R!Whole(<<>>)
    BY <1>2, <1>7, <2>1, <2>2, ChunkRead
  <2>4. all = p
    BY <1>3, <2>1, MarksAre
  <2>5. R!ReadChunks(p).complete /\ R!ReadChunks(p).body = <<>>
    BY <2>3, <2>4 DEF R!Whole
  <2>6. R!ReadChunks(longer).complete = R!ReadChunks(p).complete
        /\ R!ReadChunks(longer).body = said \o R!ReadChunks(p).body
    BY <1>1, <1>3, <1>4
  <2>7. R!ReadChunks(longer).complete /\ R!ReadChunks(longer).body = said
    BY <2>5, <2>6, NothingAdded
  <2>8. ReadsAll(more, said)
    BY <1>1, <1>5, <1>6, <2>7 DEF ReadsAll
  <2>. QED  BY <1>7, <2>8
<1>8. CASE chunk # <<>>
  <2>1. ASSUME NEW tail, MarkList(tail)
        PROVE  /\ R!ReadChunks(longer \o tail).complete = R!ReadChunks(tail).complete
               /\ R!ReadChunks(longer \o tail).body = (said \o chunk) \o R!ReadChunks(tail).body
    <3>1. PICK back, body : back = p \o tail /\ body = R!ReadChunks(tail).body
      OBVIOUS
    <3>2. /\ MarkList(back) /\ IsList(body)
          /\ R!ReadChunks(back).complete = R!ReadChunks(tail).complete
          /\ R!ReadChunks(back).body = chunk \o body
      BY <1>2, <1>8, <2>1, <3>1, ChunkRead, ZenonT(60)
    <3>3. longer \o tail = rest \o back
      <4>1. IsList(tail)
        BY <2>1 DEF MarkList
      <4>2. (rest \o p) \o tail = rest \o (p \o tail)
        BY ONLY <1>3, <4>1, MarksInLine
      <4>. QED  BY ONLY <1>4, <3>1, <4>2
    <3>4. /\ R!ReadChunks(rest \o back).complete = R!ReadChunks(back).complete
          /\ R!ReadChunks(rest \o back).body = said \o R!ReadChunks(back).body
      BY <1>1, <3>2
    <3>5. said \o (chunk \o body) = (said \o chunk) \o body
      BY <3>2, MarksInLine, SMTT(40)
    <3>. QED  BY <3>1, <3>2, <3>3, <3>4, <3>5
  <2>2. PICK now : now = said \o chunk
    OBVIOUS
  <2>3. ASSUME NEW tail, MarkList(tail)
        PROVE  /\ R!ReadChunks(longer \o tail).complete = R!ReadChunks(tail).complete
               /\ R!ReadChunks(longer \o tail).body = now \o R!ReadChunks(tail).body
    BY ONLY <2>1, <2>2, <2>3
  <2>4. ReadsOn(more, now)
    BY ONLY <1>1, <1>5, <1>6, <2>3 DEF ReadsOn
  <2>. QED  BY <1>8, <2>2, <2>4
<1>. QED  BY <1>7, <1>8

LEMMA PeerOfChunks ==
  ASSUME NEW head, HeadOfChunks(head), NEW rest, MarkList(rest), NEW wire, wire = <<head>> \o rest
  PROVE  R!PeerReads(wire) = R!ReadChunks(rest)
<1>1. PICK U : rest \in Seq(U)
  BY DEF MarkList, IsList
<1>2. PICK N : N = U \cup {head}
  OBVIOUS
<1>3. rest \in Seq(N) /\ <<head>> \in Seq(N)
  BY <1>1, <1>2
<1>4. wire # <<>> /\ wire[1] = head
  BY <1>3
<1>5. Tail(wire) = rest
  <2>1. wire \in Seq(N) /\ Len(wire) = 1 + Len(rest) /\ Len(rest) \in Nat
    BY <1>3
  <2>2. /\ Tail(wire) \in Seq(N) /\ Len(Tail(wire)) = Len(rest)
        /\ \A i \in 1 .. Len(rest) : Tail(wire)[i] = rest[i]
    BY <1>3, <2>1
  <2>. QED  BY <1>3, <2>2, SeqEqual
<1>6. PICK status, headers : head = R!HeadMark(status, headers) /\ HeaderValue(headers, "Transfer-Encoding") = "chunked"
  BY DEF HeadOfChunks
<1>7. head[2].headers = headers
  BY <1>6 DEF R!HeadMark
<1>8. R!HeaderOf(head[2], "Transfer-Encoding") = "chunked"
  BY <1>6, <1>7 DEF R!HeaderOf, HeaderValue
<1>. QED  BY <1>4, <1>5, <1>8 DEF R!PeerReads

LEMMA PeerFollows ==
  ASSUME NEW wire, NEW said, IsList(said)
  PROVE  /\ ReadsOn(wire, said) => R!PeerReads(wire).body = said /\ ~R!PeerReads(wire).complete
         /\ ReadsAll(wire, said) => R!PeerReads(wire).body = said /\ R!PeerReads(wire).complete
<1>1. ASSUME ReadsOn(wire, said)
      PROVE  R!PeerReads(wire).body = said /\ ~R!PeerReads(wire).complete
  <2>1. PICK head, rest :
          /\ HeadOfChunks(head) /\ wire = <<head>> \o rest /\ MarkList(rest)
          /\ \A tail : MarkList(tail) =>
               /\ R!ReadChunks(rest \o tail).complete = R!ReadChunks(tail).complete
               /\ R!ReadChunks(rest \o tail).body = said \o R!ReadChunks(tail).body
    BY <1>1 DEF ReadsOn
  <2>2. PICK none : none = <<>>
    OBVIOUS
  <2>3. MarkList(none) /\ R!ReadChunks(none).complete = FALSE /\ R!ReadChunks(none).body = none
    BY <2>2, NoMarks DEF R!Partial
  <2>4. rest \o none = rest /\ said \o none = said
    BY <2>1, <2>2, MarksAre, NothingAdded
  <2>5. R!ReadChunks(rest).complete = FALSE /\ R!ReadChunks(rest).body = said
    BY <2>1, <2>3, <2>4
  <2>6. R!PeerReads(wire) = R!ReadChunks(rest)
    BY <2>1, PeerOfChunks
  <2>. QED  BY <2>5, <2>6
<1>2. ASSUME ReadsAll(wire, said)
      PROVE  R!PeerReads(wire).body = said /\ R!PeerReads(wire).complete
  <2>1. PICK head, rest :
          /\ HeadOfChunks(head) /\ wire = <<head>> \o rest /\ MarkList(rest)
          /\ R!ReadChunks(rest).complete /\ R!ReadChunks(rest).body = said
    BY <1>2 DEF ReadsAll
  <2>2. R!PeerReads(wire) = R!ReadChunks(rest)
    BY <2>1, PeerOfChunks
  <2>. QED  BY <2>1, <2>2
<1>. QED  BY <1>1, <1>2

-----------------------------------------------------------------------------
(* What was said in chunks, while every failed call had written nothing.     *)
EndedIn(list) == list # <<>> /\ list[Len(list)] = [say |-> LastChunk, ok |-> TRUE]

InChunks(r, list) ==
  IF r.headersSent
  THEN IF EndedIn(list) THEN ReadsAll(r.wire, SpokenIn(list)) ELSE ReadsOn(r.wire, SpokenIn(list))
  ELSE r.wire = <<>> /\ SpokenIn(list) = <<>> /\ ~EndedIn(list)

ChunksInv ==
  kind = "answer" /\ sent.plan = "chunks" /\ ~excused =>
    Chunky(reader) /\ IsList(got) /\ IsList(SpokenIn(got)) /\ InChunks(reader, got)

LEMMA InitChunks == Init => ChunksInv
<1>1. SUFFICES ASSUME Init, kind = "answer"
               PROVE  Chunky(reader) /\ IsList(got) /\ IsList(SpokenIn(got)) /\ InChunks(reader, got)
  BY DEF ChunksInv
<1>2. reader = R!NewResponse /\ got = <<>>
  BY <1>1, MessagesAssumption DEF Init
<1>3. IsRes(reader) /\ reader.body = NULL /\ reader.headersSent = FALSE /\ reader.wire = <<>>
  BY <1>2, NewResponseIs
<1>4. SpokenIn(got) = <<>> /\ IsList(got) /\ IsList(SpokenIn(got))
  BY <1>2, NothingSaid, NothingIsList
<1>5. ~EndedIn(got)
  BY <1>2 DEF EndedIn
<1>6. Chunky(reader) /\ InChunks(reader, got)
  BY <1>3, <1>4, <1>5 DEF Chunky, InChunks
<1>. QED  BY <1>4, <1>6

LEMMA NotEmptied == ASSUME NEW a, IsList(a), a # <<>>, NEW b, IsList(b) PROVE a \o b # <<>>
<1>1. PICK A : a \in Seq(A)
  BY DEF IsList
<1>2. PICK B : b \in Seq(B)
  BY DEF IsList
<1>3. PICK C : C = A \cup B
  OBVIOUS
<1>4. a \in Seq(C) /\ b \in Seq(C)
  BY <1>1, <1>2, <1>3
<1>5. Len(a \o b) = Len(a) + Len(b) /\ Len(a) \in Nat /\ Len(b) \in Nat /\ Len(a) # 0
  BY <1>4
<1>6. PICK ab : ab = a \o b
  OBVIOUS
<1>7. ab = <<>> => Len(ab) = 0
  OBVIOUS
<1>. QED  BY <1>5, <1>6, <1>7

LEMMA CharsAreList == ASSUME NEW chunk, IsList(chunk) PROVE IsList(R!Chars(chunk))
<1>1. PICK T : chunk \in Seq(T)
  BY DEF IsList
<1>2. R!Chars(chunk) \in Seq({"char"} \X T)
  BY <1>1, CharsAre
<1>. QED  BY <1>2 DEF IsList

LEMMA ChunkCall ==
  ASSUME NEW r, Chunky(r), NEW chunk, IsList(chunk), NEW fault, NEW s, s = R!WriteChunk(r, chunk, fault),
         s.rc = "ok" \/ s.wire = r.wire,
         NEW list, IsList(SpokenIn(list)), ~EndedIn(list), InChunks(r, list),
         NEW more, EndedIn(more) <=> s.rc = "ok" /\ chunk = <<>>,
         SpokenIn(more) = SpokenIn(list) \o (IF s.rc = "ok" THEN chunk ELSE <<>>)
  PROVE  Chunky(s) /\ InChunks(s, more)
<1>1. /\ Chunky(s) /\ s.rc \in {"ok", "error"}
      /\ ~r.headersSent /\ ~s.headersSent => s.rc # "ok"
      /\ r.headersSent => s.headersSent
      /\ s.headersSent => ChunkWritten(s, r, chunk)
  BY WriteChunkIs
<1>2. PICK said : said = SpokenIn(list)
  OBVIOUS
<1>3. IsList(said)
  BY <1>2
<1>4. CASE s.headersSent
  <2>1. PICK wire :
          /\ IF r.headersSent THEN wire = r.wire ELSE BehindHead(wire, r)
          /\ LET sized == wire \o <<R!SizeMark(Len(chunk))>>
             IN  IF s.rc = "ok" THEN s.wire = (sized \o R!Chars(chunk)) \o <<R!ChunkEnd>>
                 ELSE s.wire \in {wire, sized, sized \o R!Chars(chunk)}
    BY <1>1, <1>4 DEF ChunkWritten
  <2>2. ReadsOn(wire, said) /\ (~r.headersSent => IsList(wire) /\ wire # <<>>)
    <3>1. CASE r.headersSent
      BY <1>2, <2>1, <3>1 DEF InChunks
    <3>2. CASE ~r.headersSent
      <4>1. PICK head : HeadOfChunks(head) /\ wire = r.wire \o <<head>>
        BY <2>1, <3>2 DEF BehindHead
      <4>2. r.wire = <<>> /\ said = <<>>
        BY <1>2, <3>2 DEF InChunks
      <4>3. wire = <<>> \o <<head>>
        BY <4>1, <4>2
      <4>4. ReadsOn(wire, <<>>) /\ wire # <<>>
        BY <4>1, <4>3, FirstMark
      <4>5. wire = <<head>>
        BY <4>3
      <4>6. IsList(wire)
        BY <4>5, OneIsList
      <4>. QED  BY <4>2, <4>4, <4>6
    <3>. QED  BY <3>1, <3>2
  <2>3. CASE s.rc = "ok"
    <3>1. s.wire = ((wire \o <<R!SizeMark(Len(chunk))>>) \o R!Chars(chunk)) \o <<R!ChunkEnd>>
      BY <2>1, <2>3
    <3>2. PICK w : w = s.wire
      OBVIOUS
    <3>3. IF chunk = <<>> THEN ReadsAll(w, said) ELSE ReadsOn(w, said \o chunk)
      BY <1>3, <2>2, <3>1, <3>2, MoreRead
    <3>4. SpokenIn(more) = said \o chunk
      BY <1>2, <2>3
    <3>5. chunk = <<>> => said \o chunk = said
      BY <1>3, NothingAdded
    <3>. QED  BY <1>1, <1>4, <2>3, <3>2, <3>3, <3>4, <3>5 DEF InChunks
  <2>4. CASE s.rc # "ok"
    <3>1. s.wire = r.wire /\ ~EndedIn(more)
      BY <2>4
    <3>2. SpokenIn(more) = said
      <4>1. SpokenIn(more) = said \o <<>>
        BY <1>2, <2>4
      <4>. QED  BY <1>3, <4>1, NothingAdded
    <3>3. r.headersSent
      <4>1. SUFFICES ASSUME ~r.headersSent PROVE FALSE
        OBVIOUS
      <4>2. PICK size, chars : size = <<R!SizeMark(Len(chunk))>> /\ chars = R!Chars(chunk)
        OBVIOUS
      <4>3. IsList(size) /\ IsList(chars) /\ IsList(wire) /\ wire # <<>>
        BY <2>2, <4>1, <4>2, OneIsList, CharsAreList
      <4>4. PICK sized : sized = wire \o size
        OBVIOUS
      <4>5. IsList(sized)
        BY <4>3, <4>4, ListsJoined
      <4>6. sized # <<>>
        BY <4>3, <4>4, NotEmptied
      <4>7. sized \o chars # <<>>
        BY <4>3, <4>5, <4>6, NotEmptied
      <4>8. s.wire = <<>>
        BY <3>1, <4>1 DEF InChunks
      <4>9. s.wire \in {wire, sized, sized \o chars}
        BY <2>1, <2>4, <4>2, <4>4
      <4>. QED  BY <4>3, <4>6, <4>7, <4>8, <4>9
    <3>4. ReadsOn(s.wire, said)
      BY <2>1, <2>2, <3>1, <3>3
    <3>. QED  BY <1>1, <1>4, <3>1, <3>2, <3>4 DEF InChunks
  <2>. QED  BY <2>3, <2>4
<1>5. CASE ~s.headersSent
  <2>1. s.rc # "ok" /\ ~r.headersSent
    BY <1>1, <1>5
  <2>2. s.wire = <<>> /\ said = <<>> /\ ~EndedIn(more)
    BY <1>2, <2>1 DEF InChunks
  <2>3. SpokenIn(more) = said \o <<>>
    BY <1>2, <2>1
  <2>4. SpokenIn(more) = <<>>
    BY <1>3, <2>2, <2>3, NothingAdded
  <2>. QED  BY <1>1, <1>5, <2>2, <2>4 DEF InChunks
<1>. QED  BY <1>4, <1>5

LEMMA NextChunks == ChunksInv /\ [Next]_vars => ChunksInv'
<1> SUFFICES ASSUME ChunksInv, [Next]_vars, kind' = "answer", sent'.plan = "chunks", ~excused'
             PROVE  Chunky(reader') /\ IsList(got') /\ IsList(SpokenIn(got')) /\ InChunks(reader', got')
  BY DEF ChunksInv
<1>1. kind = "answer" /\ sent.plan = "chunks"
  BY DEF Next, vars, ReadRequest, ReadParts, ReadEvents, ReadFrame, AskParameter, AskCredentials, AskToken, Answer
<1>2. CASE ~Answer
  <2>1. UNCHANGED <<reader, got, excused>>
    BY <1>1, <1>2 DEF Next, vars, ReadRequest, ReadParts, ReadEvents, ReadFrame, AskParameter, AskCredentials, AskToken
  <2>. QED  BY <1>1, <2>1 DEF ChunksInv
<1>3. CASE Answer
  <2>1. PICK say \in Says["chunks"], fault \in ResponseFaults :
          /\ reader' = Answered(say, fault)
          /\ rc' = reader'.rc
          /\ got' = Append(got, [say |-> say, ok |-> rc' = "ok"])
          /\ excused' = (excused \/ (rc' # "ok" /\ reader'.wire # reader.wire))
    BY <1>1, <1>3, Zenon DEF Answer
  <2>2. ~excused /\ (reader'.rc = "ok" \/ reader'.wire = reader.wire)
    BY <2>1
  <2>3. Chunky(reader) /\ IsList(got) /\ IsList(SpokenIn(got)) /\ InChunks(reader, got)
    BY <1>1, <2>2 DEF ChunksInv
  <2>4. ~EndedIn(got)
    BY <1>3, Zenon DEF Answer, Ended, EndedIn
  <2>5. PICK ok \in BOOLEAN : ok = (rc' = "ok")
    OBVIOUS
  <2>6. PICK call : call = [say |-> say, ok |-> ok]
    OBVIOUS
  <2>7. call.say = say /\ (call.ok <=> reader'.rc = "ok")
    BY <2>1, <2>5, <2>6
  <2>8. got' = Append(got, call)
    BY <2>1, <2>5, <2>6
  <2>9. PICK r, s, list, more : r = reader /\ s = reader' /\ list = got /\ more = got'
    OBVIOUS
  <2>10. IsList(TextOf(call)) =>
           /\ IsList(more) /\ more # <<>> /\ more[Len(more)] = call
           /\ SpokenIn(more) = SpokenIn(list) \o TextOf(call)
    BY <2>3, <2>8, <2>9, CallAdded
  <2>11. CASE say = [op |-> "chunk", text |-> say.text] /\ IsText(say.text)
    <3>1. PICK chunk : chunk = say.text
      OBVIOUS
    <3>2. say.op = "chunk" /\ say = [op |-> "chunk", text |-> chunk] /\ IsList(chunk)
      BY <2>11, <3>1, TextIsList
    <3>3. s = R!WriteChunk(r, chunk, fault)
      BY <2>1, <2>9, <3>1, <3>2 DEF Answered
    <3>4. TextOf(call) = IF s.rc = "ok" THEN chunk ELSE <<>>
      BY <2>7, <2>9, <3>1, <3>2 DEF TextOf, Text
    <3>5. IsList(TextOf(call))
      BY <3>2, <3>4, NothingIsList
    <3>6. EndedIn(more) <=> s.rc = "ok" /\ chunk = <<>>
      <4>1. EndedIn(more) <=> call = [say |-> LastChunk, ok |-> TRUE]
        BY <2>10, <3>5 DEF EndedIn
      <4>2. call = [say |-> LastChunk, ok |-> TRUE] <=> say = LastChunk /\ ok
        BY <2>5, <2>6
      <4>3. say = LastChunk <=> chunk = <<>>
        BY <3>2 DEF LastChunk
      <4>. QED  BY <2>1, <2>5, <2>9, <4>1, <4>2, <4>3
    <3>7. SpokenIn(more) = SpokenIn(list) \o (IF s.rc = "ok" THEN chunk ELSE <<>>)
      BY <2>10, <3>4, <3>5
    <3>8. s.rc = "ok" \/ s.wire = r.wire
      BY <2>2, <2>9
    <3>9. Chunky(r) /\ IsList(SpokenIn(list)) /\ ~EndedIn(list) /\ InChunks(r, list)
      BY <2>3, <2>4, <2>9
    <3>10. Chunky(s) /\ InChunks(s, more)
      BY <3>2, <3>3, <3>6, <3>7, <3>8, <3>9, ChunkCall
    <3>11. IsList(more)
      BY <2>10, <3>5
    <3>12. IsList(SpokenIn(more))
      BY <2>10, <3>5, <3>9, ListsJoined
    <3>. QED  BY <2>9, <3>10, <3>11, <3>12
  <2>12. CASE say.op = "cookie"
    <3>1. PICK cookie : cookie = say.text
      OBVIOUS
    <3>2. PICK fails \in BOOLEAN : fails = (fault # "none")
      OBVIOUS
    <3>3. s = R!SetCookie(r, cookie, fails)
      BY <2>1, <2>9, <2>12, <3>1, <3>2 DEF Answered
    <3>4. IsRes(r)
      BY <2>3, <2>9 DEF Chunky
    <3>5. NotedIs(s, r)
      BY <3>3, <3>4, CookieIs
    <3>6. Chunky(s) /\ (s.headersSent <=> r.headersSent) /\ s.wire = r.wire
      BY <2>3, <2>9, <3>5 DEF NotedIs, SameWire, Chunky
    <3>7. TextOf(call) = <<>>
      BY <2>7, <2>12 DEF TextOf, Text
    <3>8. IsList(more) /\ more # <<>> /\ more[Len(more)] = call /\ SpokenIn(more) = SpokenIn(list) \o <<>>
      BY <2>10, <3>7, NothingIsList
    <3>9. SpokenIn(more) = SpokenIn(list)
      BY <2>3, <2>9, <3>8, NothingAdded
    <3>10. call.say # LastChunk
      BY <2>7, <2>12 DEF LastChunk
    <3>11. ~EndedIn(more)
      BY <3>8, <3>10 DEF EndedIn
    <3>12. InChunks(s, more)
      BY <2>3, <2>4, <2>9, <3>6, <3>9, <3>11 DEF InChunks
    <3>. QED  BY <2>3, <2>9, <3>6, <3>8, <3>9, <3>12
  <2>. QED  BY <2>11, <2>12, SaysAssumption
<1>. QED  BY <1>2, <1>3

LEMMA AnswerInvariant == Spec => [](WholeInv /\ ChunksInv)
<1>1. Init => WholeInv /\ ChunksInv
  BY InitWhole, InitChunks
<1>2. (WholeInv /\ ChunksInv) /\ [Next]_vars => (WholeInv /\ ChunksInv)'
  BY NextWhole, NextChunks
<1>. QED  BY <1>1, <1>2, PTL DEF Spec

(* An answer reaches the peer framed: what a call said that succeeded, whole *)
(* or in chunks, is what the peer reads, and it knows where it ends.         *)
THEOREM AnswersAreFramed == Spec => []AnswerIsFramed
<1>1. WholeInv /\ ChunksInv => AnswerIsFramed
  <2> SUFFICES ASSUME WholeInv, ChunksInv, kind = "answer", ~excused
               PROVE  LET peer == R!PeerReads(reader.wire) IN
                      /\ sent.plan = "whole" =>
                           /\ Said({"json", "refuse"}) => peer = R!Whole(SaidText)
                           /\ Said({"redirect"}) /\ faults <= 1 => peer.complete
                           /\ reader.wire = <<>> /\ faults <= 1 =>
                                R!PeerReads(R!SerializeResponse(reader, FALSE).marks).complete
                      /\ sent.plan = "chunks" => peer.body = SaidText /\ (peer.complete <=> Ended)
    BY DEF AnswerIsFramed
  <2>1. \A ops : Said(ops) <=> SaidIn(got, ops)
    BY DEF Said, SaidIn
  <2>2. SaidText = SpokenIn(got)
    BY DEF SaidText, SpokenIn, TextOf
  <2>3. Ended <=> EndedIn(got)
    BY DEF Ended, EndedIn
  <2>4. ASSUME sent.plan = "whole"
        PROVE  /\ Said({"json", "refuse"}) => R!PeerReads(reader.wire) = R!Whole(SaidText)
               /\ Said({"redirect"}) /\ faults <= 1 => R!PeerReads(reader.wire).complete
               /\ reader.wire = <<>> /\ faults <= 1 =>
                    R!PeerReads(R!SerializeResponse(reader, FALSE).marks).complete
    <3>1. Plain(reader) /\ faults \in Nat /\ WholeAnswer(reader, got, faults)
      BY <2>4 DEF WholeInv
    <3>2. CASE reader.headersSent
      <4>1. Closed(reader, got, faults)
        BY <3>1, <3>2 DEF WholeAnswer
      <4>2. PICK peer, text : peer = R!PeerReads(reader.wire) /\ text = SpokenIn(got)
        OBVIOUS
      <4>3. /\ reader.wire # <<>>
            /\ \/ /\ SaidIn(got, {"json", "refuse"}) /\ ~SaidIn(got, {"redirect"})
                  /\ peer = R!Whole(text)
               \/ /\ ~SaidIn(got, {"json", "refuse"})
                  /\ faults <= 1 => peer.complete
        BY <4>1, <4>2 DEF Closed
      <4>. QED  BY <2>1, <2>2, <4>2, <4>3
    <3>3. CASE ~reader.headersSent
      <4>1. Waiting(reader, got, faults)
        BY <3>1, <3>3 DEF WholeAnswer
      <4>2. ~SaidIn(got, {"json", "refuse", "redirect"}) /\ Unsaid(reader, faults)
        BY <4>1 DEF Waiting
      <4>3. ~SaidIn(got, {"json", "refuse"}) /\ ~SaidIn(got, {"redirect"})
        BY <4>2 DEF SaidIn
      <4>4. ASSUME faults <= 1
            PROVE  R!PeerReads(R!SerializeResponse(reader, FALSE).marks).complete
        <5>1. PICK r, one : r = reader /\ one = 1
          OBVIOUS
        <5>2. Unsaid(r, one)
          BY <3>1, <4>2, <4>4, <5>1 DEF Unsaid
        <5>3. Plain(r) /\ Unsaid(r, 1)
          BY <3>1, <5>1, <5>2
        <5>4. R!PeerReads(R!SerializeResponse(r, FALSE).marks).complete
          BY <5>3, SerializedWhole
        <5>. QED  BY <5>1, <5>4
      <4>. QED  BY <2>1, <4>3, <4>4
    <3>. QED  BY <3>2, <3>3
  <2>5. ASSUME sent.plan = "chunks"
        PROVE  R!PeerReads(reader.wire).body = SaidText /\ (R!PeerReads(reader.wire).complete <=> Ended)
    <3>1. IsList(SpokenIn(got)) /\ InChunks(reader, got)
      BY <2>5 DEF ChunksInv
    <3>2. PICK wire, said : wire = reader.wire /\ said = SpokenIn(got)
      OBVIOUS
    <3>3. /\ ReadsOn(wire, said) => R!PeerReads(wire).body = said /\ ~R!PeerReads(wire).complete
          /\ ReadsAll(wire, said) => R!PeerReads(wire).body = said /\ R!PeerReads(wire).complete
      BY <3>1, <3>2, PeerFollows
    <3>4. CASE reader.headersSent
      BY <2>2, <2>3, <3>1, <3>2, <3>3, <3>4 DEF InChunks
    <3>5. CASE ~reader.headersSent
      <4>1. wire = <<>> /\ said = <<>> /\ ~EndedIn(got)
        BY <3>1, <3>2, <3>5 DEF InChunks
      <4>2. R!PeerReads(wire) = R!Partial(<<>>)
        BY <4>1 DEF R!PeerReads
      <4>3. ~R!PeerReads(wire).complete /\ R!PeerReads(wire).body = <<>>
        BY <4>2 DEF R!Partial
      <4>. QED  BY <2>2, <2>3, <3>2, <4>1, <4>3
    <3>. QED  BY <3>4, <3>5
  <2>. QED  BY <2>4, <2>5
<1>. QED  BY <1>1, AnswerInvariant, PTL

-----------------------------------------------------------------------------
(* The header of a frame.  A byte by its bits.                               *)
LEMMA BitQuotients ==
  ASSUME NEW q \in Nat, NEW r \in Nat
  PROVE  /\ r < 2 => (2 * q + r) \div 2 = q /\ (2 * q + r) % 2 = r
         /\ r < 4 => (4 * q + r) \div 4 = q
         /\ r < 8 => (8 * q + r) \div 8 = q
         /\ r < 16 => (16 * q + r) \div 16 = q /\ (16 * q + r) % 16 = r
         /\ r < 32 => (32 * q + r) \div 32 = q
         /\ r < 128 => (128 * q + r) \div 128 = q /\ (128 * q + r) % 128 = r
<1>1. r < 2 => (2 * q + r) \div 2 = q /\ (2 * q + r) % 2 = r
  BY SMT
<1>2. r < 4 => (4 * q + r) \div 4 = q
  BY SMT
<1>3. r < 8 => (8 * q + r) \div 8 = q
  BY SMT
<1>4. r < 16 => (16 * q + r) \div 16 = q /\ (16 * q + r) % 16 = r
  BY SMT
<1>5. r < 32 => (32 * q + r) \div 32 = q
  BY SMT
<1>6. r < 128 => (128 * q + r) \div 128 = q /\ (128 * q + r) % 128 = r
  BY SMT
<1>. QED  BY <1>1, <1>2, <1>3, <1>4, <1>5, <1>6, SMT

Bits == {0, 1}
ByteOf(x) ==
  x[7] * 128 + x[6] * 64 + x[5] * 32 + x[4] * 16 + x[3] * 8 + x[2] * 4 + x[1] * 2 + x[0]

LEMMA BitsOfByte ==
  ASSUME NEW x \in [0 .. 7 -> Bits], NEW b, b = ByteOf(x)
  PROVE  /\ b \in 0 .. 255
         /\ (W!HasBit(b, 128) <=> x[7] = 1) /\ (W!HasBit(b, 64) <=> x[6] = 1)
         /\ (W!HasBit(b, 32) <=> x[5] = 1) /\ (W!HasBit(b, 16) <=> x[4] = 1)
         /\ (W!HasBit(b, 8) <=> x[3] = 1) /\ (W!HasBit(b, 4) <=> x[2] = 1)
         /\ (W!HasBit(b, 2) <=> x[1] = 1) /\ (W!HasBit(b, 1) <=> x[0] = 1)
<1>0. PICK x7 \in Bits, x6 \in Bits, x5 \in Bits, x4 \in Bits, x3 \in Bits, x2 \in Bits, x1 \in Bits, x0 \in Bits :
       /\ x7 = x[7] /\ x6 = x[6] /\ x5 = x[5] /\ x4 = x[4] /\ x3 = x[3] /\ x2 = x[2] /\ x1 = x[1] /\ x0 = x[0]
  <2>1. x[7] \in Bits /\ x[6] \in Bits /\ x[5] \in Bits /\ x[4] \in Bits
        /\ x[3] \in Bits /\ x[2] \in Bits /\ x[1] \in Bits /\ x[0] \in Bits
    OBVIOUS
  <2>. QED  BY <2>1, Zenon
<1>1. /\ x7 \in 0 .. 1 /\ x6 \in 0 .. 1 /\ x5 \in 0 .. 1 /\ x4 \in 0 .. 1
      /\ x3 \in 0 .. 1 /\ x2 \in 0 .. 1 /\ x1 \in 0 .. 1 /\ x0 \in 0 .. 1
  BY <1>0 DEF Bits
<1>sum. b = x7 * 128 + x6 * 64 + x5 * 32 + x4 * 16 + x3 * 8 + x2 * 4 + x1 * 2 + x0
  BY <1>0 DEF ByteOf
<1>2. PICK q1 \in Nat : q1 = x7 * 64 + x6 * 32 + x5 * 16 + x4 * 8 + x3 * 4 + x2 * 2 + x1
  BY ONLY <1>1, SMT
<1>3. PICK q2 \in Nat : q2 = x7 * 32 + x6 * 16 + x5 * 8 + x4 * 4 + x3 * 2 + x2
  BY ONLY <1>1, SMT
<1>4. PICK q3 \in Nat : q3 = x7 * 16 + x6 * 8 + x5 * 4 + x4 * 2 + x3
  BY ONLY <1>1, SMT
<1>5. PICK q4 \in Nat : q4 = x7 * 8 + x6 * 4 + x5 * 2 + x4
  BY ONLY <1>1, SMT
<1>6. PICK q5 \in Nat : q5 = x7 * 4 + x6 * 2 + x5
  BY ONLY <1>1, SMT
<1>7. PICK q6 \in Nat : q6 = x7 * 2 + x6
  BY ONLY <1>1, SMT
<1>8. b \in 0 .. 255
  BY ONLY <1>1, <1>sum, SMT
<1>9. b \div 128 = x7 /\ b \div 64 = q6 /\ b \div 32 = q5 /\ b \div 16 = q4
      /\ b \div 8 = q3 /\ b \div 4 = q2 /\ b \div 2 = q1 /\ b \div 1 = b
  BY ONLY <1>1, <1>2, <1>3, <1>4, <1>5, <1>6, <1>7, <1>8, <1>sum, SMT
<1>10. x7 % 2 = x7 /\ q6 % 2 = x6 /\ q5 % 2 = x5 /\ q4 % 2 = x4
      /\ q3 % 2 = x3 /\ q2 % 2 = x2 /\ q1 % 2 = x1 /\ b % 2 = x0
  BY ONLY <1>1, <1>2, <1>3, <1>4, <1>5, <1>6, <1>7, <1>sum, SMT
<1>11. /\ W!HasBit(b, 128) <=> (b \div 128) % 2 = 1
       /\ W!HasBit(b, 64) <=> (b \div 64) % 2 = 1
       /\ W!HasBit(b, 32) <=> (b \div 32) % 2 = 1
       /\ W!HasBit(b, 16) <=> (b \div 16) % 2 = 1
       /\ W!HasBit(b, 8) <=> (b \div 8) % 2 = 1
       /\ W!HasBit(b, 4) <=> (b \div 4) % 2 = 1
       /\ W!HasBit(b, 2) <=> (b \div 2) % 2 = 1
       /\ W!HasBit(b, 1) <=> (b \div 1) % 2 = 1
  BY Zenon DEF W!HasBit
<1>12. /\ (b \div 128) % 2 = x7 /\ (b \div 64) % 2 = x6 /\ (b \div 32) % 2 = x5 /\ (b \div 16) % 2 = x4
       /\ (b \div 8) % 2 = x3 /\ (b \div 4) % 2 = x2 /\ (b \div 2) % 2 = x1 /\ (b \div 1) % 2 = x0
  BY ONLY <1>9, <1>10
<1>. QED  BY ONLY <1>0, <1>8, <1>11, <1>12

LEMMA BitsExist == ASSUME NEW b \in 0 .. 255 PROVE \E x \in [0 .. 7 -> Bits] : b = ByteOf(x)
<1>1. \A n \in Nat : n % 2 \in Bits /\ n \div 2 \in Nat /\ n = 2 * (n \div 2) + (n % 2)
  BY SMT DEF Bits
<1>2. PICK q1 \in Nat, x0 \in Bits : b = 2 * q1 + x0
  BY <1>1, SMTT(40)
<1>3. PICK q2 \in Nat, x1 \in Bits : q1 = 2 * q2 + x1
  BY <1>1
<1>4. PICK q3 \in Nat, x2 \in Bits : q2 = 2 * q3 + x2
  BY <1>1
<1>5. PICK q4 \in Nat, x3 \in Bits : q3 = 2 * q4 + x3
  BY <1>1
<1>6. PICK q5 \in Nat, x4 \in Bits : q4 = 2 * q5 + x4
  BY <1>1
<1>7. PICK q6 \in Nat, x5 \in Bits : q5 = 2 * q6 + x5
  BY <1>1
<1>8. PICK x7 \in Nat, x6 \in Bits : q6 = 2 * x7 + x6
  BY <1>1
<1>9. b = x7 * 128 + x6 * 64 + x5 * 32 + x4 * 16 + x3 * 8 + x2 * 4 + x1 * 2 + x0
  BY <1>2, <1>3, <1>4, <1>5, <1>6, <1>7, <1>8, SMT DEF Bits
<1>10. x7 \in Bits
  <2>1. 128 * x7 <= b
    BY <1>2, <1>3, <1>4, <1>5, <1>6, <1>7, <1>8, SMT DEF Bits
  <2>. QED  BY <2>1, SMT DEF Bits
<1>11. PICK x : x = [i \in 0 .. 7 |-> IF i = 7 THEN x7 ELSE IF i = 6 THEN x6 ELSE IF i = 5 THEN x5 ELSE IF i = 4 THEN x4
                                      ELSE IF i = 3 THEN x3 ELSE IF i = 2 THEN x2 ELSE IF i = 1 THEN x1 ELSE x0]
  OBVIOUS
<1>12. x \in [0 .. 7 -> Bits]
  BY <1>10, <1>11
<1>13. x[7] = x7 /\ x[6] = x6 /\ x[5] = x5 /\ x[4] = x4 /\ x[3] = x3 /\ x[2] = x2 /\ x[1] = x1 /\ x[0] = x0
  BY <1>11
<1>14. b = ByteOf(x)
  BY <1>9, <1>13 DEF ByteOf
<1>. QED  BY <1>12, <1>14

(* Masking a byte twice gives it back.                                       *)
LEMMA MaskedTwice ==
  ASSUME NEW a \in 0 .. 255, NEW c \in 0 .. 255
  PROVE  W!Xor(W!Xor(a, c), c) = a /\ W!Xor(a, c) \in 0 .. 255
<1>1. PICK x \in [0 .. 7 -> Bits] : a = ByteOf(x)
  BY BitsExist
<1>2. PICK y \in [0 .. 7 -> Bits] : c = ByteOf(y)
  BY BitsExist
<1> DEFINE Z(p, q) == IF p = q THEN 0 ELSE 1
<1>3. \A p, q \in Bits : Z(p, q) \in Bits /\ Z(Z(p, q), q) = p
  BY DEF Bits
<1>4. ASSUME NEW u, NEW v, NEW w \in {1, 2, 4, 8, 16, 32, 64, 128}, NEW p \in Bits, NEW q \in Bits,
             W!HasBit(u, w) <=> p = 1, W!HasBit(v, w) <=> q = 1
      PROVE  W!XorBit(u, v, w) = Z(p, q) * w
  <2>1. W!XorBit(u, v, w) = IF W!HasBit(u, w) # W!HasBit(v, w) THEN w ELSE 0
    BY DEF W!XorBit, W!Bit
  <2>2. (W!HasBit(u, w) # W!HasBit(v, w)) <=> p # q
    <3>1. W!HasBit(u, w) \in BOOLEAN /\ W!HasBit(v, w) \in BOOLEAN
      BY DEF W!HasBit
    <3>. QED  BY <1>4, <3>1 DEF Bits
  <2>. QED  BY <2>1, <2>2, SMT
<1> HIDE DEF Z
<1>5. ASSUME NEW d, NEW p \in [0 .. 7 -> Bits], d = ByteOf(p), NEW z, z = [i \in 0 .. 7 |-> Z(p[i], y[i])]
      PROVE  z \in [0 .. 7 -> Bits] /\ W!Xor(d, c) = ByteOf(z)
  <2>1. z \in [0 .. 7 -> Bits]
    BY <1>3, <1>5
  <2>2. /\ (W!HasBit(d, 128) <=> p[7] = 1) /\ (W!HasBit(d, 64) <=> p[6] = 1)
        /\ (W!HasBit(d, 32) <=> p[5] = 1) /\ (W!HasBit(d, 16) <=> p[4] = 1)
        /\ (W!HasBit(d, 8) <=> p[3] = 1) /\ (W!HasBit(d, 4) <=> p[2] = 1)
        /\ (W!HasBit(d, 2) <=> p[1] = 1) /\ (W!HasBit(d, 1) <=> p[0] = 1)
    BY <1>5, BitsOfByte
  <2>3. /\ (W!HasBit(c, 128) <=> y[7] = 1) /\ (W!HasBit(c, 64) <=> y[6] = 1)
        /\ (W!HasBit(c, 32) <=> y[5] = 1) /\ (W!HasBit(c, 16) <=> y[4] = 1)
        /\ (W!HasBit(c, 8) <=> y[3] = 1) /\ (W!HasBit(c, 4) <=> y[2] = 1)
        /\ (W!HasBit(c, 2) <=> y[1] = 1) /\ (W!HasBit(c, 1) <=> y[0] = 1)
    BY <1>2, BitsOfByte
  <2>4. \A i \in 0 .. 7 : p[i] \in Bits /\ y[i] \in Bits /\ z[i] = Z(p[i], y[i])
    BY <1>5
  <2>5. /\ W!XorBit(d, c, 128) = z[7] * 128 /\ W!XorBit(d, c, 64) = z[6] * 64
        /\ W!XorBit(d, c, 32) = z[5] * 32 /\ W!XorBit(d, c, 16) = z[4] * 16
        /\ W!XorBit(d, c, 8) = z[3] * 8 /\ W!XorBit(d, c, 4) = z[2] * 4
        /\ W!XorBit(d, c, 2) = z[1] * 2 /\ W!XorBit(d, c, 1) = z[0] * 1
    BY <1>4, <2>2, <2>3, <2>4
  <2>6. \A i \in 0 .. 7 : z[i] \in Bits
    BY <2>1
  <2>7. W!Xor(d, c) = ByteOf(z)
    BY <2>5, <2>6, SMT DEF W!Xor, ByteOf, Bits
  <2>. QED  BY <2>1, <2>7
<1>6. PICK z : z = [i \in 0 .. 7 |-> Z(x[i], y[i])]
  OBVIOUS
<1>7. PICK d : d = W!Xor(a, c)
  OBVIOUS
<1>8. z \in [0 .. 7 -> Bits] /\ d = ByteOf(z)
  BY <1>1, <1>5, <1>6, <1>7
<1>9. PICK back : back = [i \in 0 .. 7 |-> Z(z[i], y[i])]
  OBVIOUS
<1>10. W!Xor(d, c) = ByteOf(back)
  BY <1>5, <1>8, <1>9
<1>11. back = x
  <2>1. \A i \in 0 .. 7 : back[i] = x[i]
    BY <1>3, <1>6, <1>9
  <2>. QED  BY <1>9, <2>1
<1>12. d \in 0 .. 255
  BY <1>8, BitsOfByte
<1>. QED  BY <1>1, <1>7, <1>10, <1>11, <1>12

LEMMA UnmaskedTwice ==
  ASSUME NEW payload \in Seq(Octet), NEW key \in [1 .. 4 -> Octet]
  PROVE  W!Unmask(W!Unmask(payload, key), key) = payload
<1>1. PICK n : n = Len(payload)
  OBVIOUS
<1>2. n \in Nat /\ DOMAIN payload = 1 .. n /\ \A i \in 1 .. n : payload[i] \in 0 .. 255
  <2>1. \A i \in 1 .. n : payload[i] \in Octet
    BY <1>1
  <2>. QED  BY <1>1, <2>1 DEF Octet
<1>3. \A i \in 1 .. n : ((i - 1) % 4) + 1 \in 1 .. 4
  BY <1>2, SMT
<1> DEFINE K(i) == key[((i - 1) % 4) + 1]
<1>4. \A i \in 1 .. n : K(i) \in 0 .. 255
  BY <1>3 DEF Octet
<1>5. PICK once : once = W!Unmask(payload, key)
  OBVIOUS
<1>6. once = [i \in 1 .. n |-> W!Xor(payload[i], K(i))]
  BY <1>2, <1>5 DEF W!Unmask
<1>7. W!Unmask(once, key) = [i \in DOMAIN once |-> W!Xor(once[i], K(i))]
  BY DEF W!Unmask
<1> HIDE DEF K
<1>8. DOMAIN once = 1 .. n /\ \A i \in 1 .. n : once[i] = W!Xor(payload[i], K(i))
  BY <1>6
<1>9. ASSUME NEW i \in 1 .. n PROVE W!Xor(once[i], K(i)) = payload[i]
  <2>1. PICK a \in 0 .. 255, c \in 0 .. 255 : a = payload[i] /\ c = K(i)
    BY <1>2, <1>4, ZenonT(60)
  <2>2. W!Xor(W!Xor(a, c), c) = a
    BY MaskedTwice
  <2>. QED  BY <1>8, <2>1, <2>2, SMTT(40)
<1>10. W!Unmask(once, key) = [i \in 1 .. n |-> payload[i]]
  BY <1>7, <1>8, <1>9
<1>11. payload = [i \in 1 .. n |-> payload[i]]
  BY <1>2
<1>. QED  BY <1>5, <1>10, <1>11


(* A header that can be written.                                             *)
HeaderOk(h) ==
  /\ h.fin \in BOOLEAN /\ h.rsv1 \in BOOLEAN /\ h.rsv2 \in BOOLEAN /\ h.rsv3 \in BOOLEAN /\ h.masked \in BOOLEAN
  /\ h.opcode \in 0 .. 15 /\ FrameLength(h.length)
  /\ h.key \in [1 .. 4 -> Octet] /\ (~h.masked => h.key = <<0, 0, 0, 0>>)

LEMMA FirstByte ==
  ASSUME NEW h, HeaderOk(h), NEW b,
         b = h.opcode + W!Bit(h.fin, 128) + W!Bit(h.rsv1, 64) + W!Bit(h.rsv2, 32) + W!Bit(h.rsv3, 16)
  PROVE  /\ b \in 0 .. 255 /\ b % 16 = h.opcode
         /\ (W!HasBit(b, 128) <=> h.fin) /\ (W!HasBit(b, 64) <=> h.rsv1)
         /\ (W!HasBit(b, 32) <=> h.rsv2) /\ (W!HasBit(b, 16) <=> h.rsv3)
<1>0. PICK op \in 0 .. 15, fin \in BOOLEAN, rsv1 \in BOOLEAN, rsv2 \in BOOLEAN, rsv3 \in BOOLEAN :
        op = h.opcode /\ fin = h.fin /\ rsv1 = h.rsv1 /\ rsv2 = h.rsv2 /\ rsv3 = h.rsv3
  BY DEF HeaderOk
<1>1. PICK x7, x6, x5, x4 : /\ x7 = IF fin THEN 1 ELSE 0
                            /\ x6 = IF rsv1 THEN 1 ELSE 0
                            /\ x5 = IF rsv2 THEN 1 ELSE 0
                            /\ x4 = IF rsv3 THEN 1 ELSE 0
  OBVIOUS
<1>2. x7 \in 0 .. 1 /\ x6 \in 0 .. 1 /\ x5 \in 0 .. 1 /\ x4 \in 0 .. 1
  BY <1>1
<1>3. (fin <=> x7 = 1) /\ (rsv1 <=> x6 = 1) /\ (rsv2 <=> x5 = 1) /\ (rsv3 <=> x4 = 1)
  BY <1>1
<1>4. W!Bit(fin, 128) = x7 * 128 /\ W!Bit(rsv1, 64) = x6 * 64 /\ W!Bit(rsv2, 32) = x5 * 32 /\ W!Bit(rsv3, 16) = x4 * 16
  BY <1>1 DEF W!Bit
<1>5. b = op + x7 * 128 + x6 * 64 + x5 * 32 + x4 * 16
  BY ONLY <1>0, <1>4, b = h.opcode + W!Bit(h.fin, 128) + W!Bit(h.rsv1, 64) + W!Bit(h.rsv2, 32) + W!Bit(h.rsv3, 16)
<1>6. PICK q4 \in Nat, q5 \in Nat, q6 \in Nat : q4 = x7 * 8 + x6 * 4 + x5 * 2 + x4 /\ q5 = x7 * 4 + x6 * 2 + x5 /\ q6 = x7 * 2 + x6
  BY ONLY <1>2, SMT
<1>7. b \in 0 .. 255 /\ b = 16 * q4 + op
  BY ONLY op \in 0 .. 15, <1>2, <1>5, <1>6, SMT
<1>8. b % 16 = op /\ b \div 16 = q4
  <2>1. PICK r \in Nat : r = op /\ r < 16
    BY ONLY op \in 0 .. 15, SMT
  <2>2. (16 * q4 + r) \div 16 = q4 /\ (16 * q4 + r) % 16 = r
    BY ONLY q4 \in Nat, <2>1, BitQuotients
  <2>. QED  BY ONLY <1>7, <2>1, <2>2
<1>9. b \div 128 = x7 /\ b \div 64 = q6 /\ b \div 32 = q5
  BY ONLY op \in 0 .. 15, <1>2, <1>6, <1>7, SMT
<1>10. x7 % 2 = x7 /\ q6 % 2 = x6 /\ q5 % 2 = x5 /\ q4 % 2 = x4
  BY ONLY op \in 0 .. 15, <1>2, <1>6, SMT
<1>11. /\ W!HasBit(b, 128) <=> (b \div 128) % 2 = 1
       /\ W!HasBit(b, 64) <=> (b \div 64) % 2 = 1
       /\ W!HasBit(b, 32) <=> (b \div 32) % 2 = 1
       /\ W!HasBit(b, 16) <=> (b \div 16) % 2 = 1
  BY Zenon DEF W!HasBit
<1>. QED  BY ONLY <1>0, <1>3, <1>7, <1>8, <1>9, <1>10, <1>11, ZenonT(60)

SecondOf(h, n, b) == HeaderOk(h) /\ n \in 0 .. 127 /\ b = n + W!Bit(h.masked, 128)

LEMMA SecondByte ==
  ASSUME NEW h, NEW n, NEW b, SecondOf(h, n, b)
  PROVE  b \in 0 .. 255 /\ b % 128 = n /\ (W!HasBit(b, 128) <=> h.masked)
<1> USE DEF SecondOf
<1>0. PICK masked \in BOOLEAN : masked = h.masked
  BY DEF HeaderOk
<1>1. PICK x : x = IF masked THEN 1 ELSE 0
  OBVIOUS
<1>2. x \in 0 .. 1 /\ (masked <=> x = 1)
  BY <1>1
<1>3. b = 128 * x + n
  BY <1>0, <1>1, SMT DEF W!Bit
<1>4. b \in 0 .. 255 /\ b % 128 = n /\ b \div 128 = x /\ x % 2 = x
  BY ONLY SecondOf(h, n, b), <1>2, <1>3, SMT
<1>5. W!HasBit(b, 128) <=> (b \div 128) % 2 = 1
  BY Zenon DEF W!HasBit
<1>. QED  BY ONLY <1>0, <1>2, <1>4, <1>5

LEMMA DivideBy256 ==
  ASSUME NEW n \in Nat
  PROVE  \E q \in Nat, r \in 0 .. 255 : n = 256 * q + r
<1>1. n \div 256 \in Nat /\ n % 256 \in 0 .. 255
  BY SMT
<1>2. n = 256 * (n \div 256) + (n % 256)
  BY SMT
<1>. QED  BY <1>1, <1>2

(* A length in the form its size calls for is a byte, with 0, 2 or 8 more.   *)
LengthForm(n, first, ext) ==
  /\ first \in 0 .. 127 /\ ext \in Seq(0 .. 255)
  /\ Len(ext) = W!Extended(first)
  /\ Len(ext) = 8 => ext[1] = 0 /\ ext[2] = 0 /\ ext[3] = 0 /\ ext[4] = 0
  /\ n = IF Len(ext) = 0 THEN first ELSE W!Value(ext)
  /\ W!LengthBytes(n) = <<first>> \o ext

LEMMA LengthFormed == ASSUME NEW n \in Nat, n < 65536 * 32768 PROVE \E first, ext : LengthForm(n, first, ext)
<1>1. CASE n < 126
  <2>1. PICK none : none = <<>>
    OBVIOUS
  <2>2. none \in Seq(0 .. 255) /\ Len(none) = 0 /\ <<n>> \o none = <<n>>
    BY <2>1
  <2>3. W!LengthBytes(n) = <<n>>
    BY <1>1 DEF W!LengthBytes
  <2>4. W!Extended(n) = 0
    <3>1. n % 128 = n
      BY <1>1, SMT
    <3>. QED  BY <1>1, <3>1 DEF W!Extended
  <2>5. LengthForm(n, n, none)
    BY <1>1, <2>2, <2>3, <2>4 DEF LengthForm
  <2>. QED  BY <2>5
<1>2. CASE n >= 126 /\ n <= 65535
  <2>1. PICK ext : ext = W!BigEndian(n, 2)
    OBVIOUS
  <2>2. ext = [i \in 1 .. 2 |-> IF 2 - i > 3 THEN 0 ELSE (n \div W!Weights[2 - i + 1]) % 256]
    BY <2>1 DEF W!BigEndian
  <2>3. W!Weights[1] = 1 /\ W!Weights[2] = 256
    BY DEF W!Weights
  <2>4. ext[1] = (n \div 256) % 256 /\ ext[2] = (n \div 1) % 256
    BY <2>2, <2>3
  <2>5. PICK hi \in Nat, lo \in 0 .. 255 : n = 256 * hi + lo /\ hi < 256
    <3>1. PICK hi \in Nat, lo \in 0 .. 255 : n = 256 * hi + lo
      BY ONLY n \in Nat, DivideBy256
    <3>2. hi < 256
      BY <1>2, <3>1, SMT
    <3>. QED  BY <3>1, <3>2
  <2>6. (n \div 256) % 256 = hi /\ (n \div 1) % 256 = lo
    BY <2>5, SMT
  <2>7. ext = [i \in 1 .. 2 |-> IF i = 1 THEN hi ELSE lo]
    BY <2>2, <2>4, <2>6
  <2>8. ext \in Seq(0 .. 255) /\ Len(ext) = 2 /\ ext[1] = hi /\ ext[2] = lo
    BY ONLY <2>5, <2>7
  <2>9. W!Value(ext) = n
    <3>1. W!Value(ext) = 0 + 0 + ext[2 - 2 + 1] * W!Weights[2] + ext[2 - 1 + 1] * W!Weights[1]
      BY <2>8 DEF W!Value
    <3>. QED  BY <2>3, <2>5, <2>8, <3>1
  <2>10. W!LengthBytes(n) = <<126>> \o ext
    BY <1>2, <2>1 DEF W!LengthBytes
  <2>11. W!Extended(126) = 2
    BY SMT DEF W!Extended
  <2>12. LengthForm(n, 126, ext)
    BY <2>8, <2>9, <2>10, <2>11 DEF LengthForm
  <2>. QED  BY <2>12
<1>3. CASE n > 65535
  <2>1. PICK ext : ext = W!BigEndian(n, 8)
    OBVIOUS
  <2>2. ext = [i \in 1 .. 8 |-> IF 8 - i > 3 THEN 0 ELSE (n \div W!Weights[8 - i + 1]) % 256]
    BY <2>1 DEF W!BigEndian
  <2>3. W!Weights[1] = 1 /\ W!Weights[2] = 256 /\ W!Weights[3] = 65536 /\ W!Weights[4] = 16777216
    BY DEF W!Weights
  <2>4. /\ ext[1] = 0 /\ ext[2] = 0 /\ ext[3] = 0 /\ ext[4] = 0
        /\ ext[5] = (n \div 16777216) % 256 /\ ext[6] = (n \div 65536) % 256
        /\ ext[7] = (n \div 256) % 256 /\ ext[8] = (n \div 1) % 256
    BY <2>2, <2>3
  <2>5a. PICK p1 \in Nat, b1 \in 0 .. 255 : n = 256 * p1 + b1
    BY ONLY n \in Nat, DivideBy256
  <2>5b. PICK p2 \in Nat, b2 \in 0 .. 255 : p1 = 256 * p2 + b2
    BY ONLY p1 \in Nat, DivideBy256
  <2>5c. PICK b4 \in Nat, b3 \in 0 .. 255 : p2 = 256 * b4 + b3
    BY ONLY p2 \in Nat, DivideBy256
  <2>5. n = 16777216 * b4 + 65536 * b3 + 256 * b2 + b1 /\ b4 \in 0 .. 255
    <3>1. n = 16777216 * b4 + 65536 * b3 + 256 * b2 + b1
      BY <2>5a, <2>5b, <2>5c, SMT
    <3>2. b4 \in 0 .. 255
      BY <3>1, SMT
    <3>. QED  BY <3>1, <3>2
  <2>6. /\ (n \div 16777216) % 256 = b4 /\ (n \div 65536) % 256 = b3
        /\ (n \div 256) % 256 = b2 /\ (n \div 1) % 256 = b1
    <3>1. (n \div 1) % 256 = b1
      BY <2>5, SMT
    <3>2. n \div 256 = 65536 * b4 + 256 * b3 + b2
      BY <2>5, SMT
    <3>3. (65536 * b4 + 256 * b3 + b2) % 256 = b2
      BY <2>5, SMT
    <3>4. n \div 65536 = 256 * b4 + b3
      BY <2>5, SMT
    <3>5. (256 * b4 + b3) % 256 = b3
      BY <2>5, SMT
    <3>6. n \div 16777216 = b4 /\ b4 % 256 = b4
      BY <2>5, SMT
    <3>. QED  BY <3>1, <3>2, <3>3, <3>4, <3>5, <3>6
  <2>7. ext = [i \in 1 .. 8 |-> IF i < 5 THEN 0 ELSE IF i = 5 THEN b4 ELSE IF i = 6 THEN b3 ELSE IF i = 7 THEN b2 ELSE b1]
    <3>1. ASSUME NEW i \in 1 .. 8
          PROVE  ext[i] = IF i < 5 THEN 0 ELSE IF i = 5 THEN b4 ELSE IF i = 6 THEN b3 ELSE IF i = 7 THEN b2 ELSE b1
      <4>1. i \in {1, 2, 3, 4, 5, 6, 7, 8}
        BY SMT
      <4>. QED  BY <2>4, <2>6, <4>1
    <3>. QED  BY <2>2, <3>1
  <2>8. /\ ext \in Seq(0 .. 255) /\ Len(ext) = 8
        /\ ext[1] = 0 /\ ext[2] = 0 /\ ext[3] = 0 /\ ext[4] = 0
        /\ ext[5] = b4 /\ ext[6] = b3 /\ ext[7] = b2 /\ ext[8] = b1
    BY ONLY <2>5, <2>7, b1 \in 0 .. 255, b2 \in 0 .. 255, b3 \in 0 .. 255
  <2>9. W!Value(ext) = n
    <3>1. W!Value(ext) = ext[8 - 4 + 1] * W!Weights[4] + ext[8 - 3 + 1] * W!Weights[3]
                           + ext[8 - 2 + 1] * W!Weights[2] + ext[8 - 1 + 1] * W!Weights[1]
      BY <2>8 DEF W!Value
    <3>2. W!Value(ext) = ext[5] * 16777216 + ext[6] * 65536 + ext[7] * 256 + ext[8] * 1
      BY <2>3, <3>1
    <3>. QED  BY <2>5, <2>8, <3>2, SMT
  <2>10. W!LengthBytes(n) = <<127>> \o ext
    BY <1>3, <2>1 DEF W!LengthBytes
  <2>11. W!Extended(127) = 8
    BY SMT DEF W!Extended
  <2>12. LengthForm(n, 127, ext)
    BY <2>8, <2>9, <2>10, <2>11 DEF LengthForm
  <2>. QED  BY <2>12
<1>. QED  BY <1>1, <1>2, <1>3

(* The pieces of a list that was put together.                               *)
LEMMA JoinedIs ==
  ASSUME NEW U, NEW a \in Seq(U), NEW b \in Seq(U), NEW c, c = a \o b
  PROVE  /\ c \in Seq(U) /\ Len(c) = Len(a) + Len(b)
         /\ \A i \in 1 .. Len(a) : c[i] = a[i]
         /\ \A i \in 1 .. Len(b) : c[Len(a) + i] = b[i]
<1>1. PICK n, m : n = Len(a) /\ m = Len(b)
  OBVIOUS
<1>2. n \in Nat /\ m \in Nat
  BY <1>1
<1>3. c \in Seq(U) /\ Len(c) = n + m
  BY <1>1
<1>4. \A i \in 1 .. n + m : c[i] = IF i <= n THEN a[i] ELSE b[i - n]
  BY <1>1
<1>5. ASSUME NEW i \in 1 .. n PROVE c[i] = a[i]
  <2>1. i \in 1 .. n + m /\ i <= n
    BY <1>2
  <2>. QED  BY ONLY <1>4, <2>1
<1>6. ASSUME NEW i \in 1 .. m PROVE c[n + i] = b[i]
  <2>1. n + i \in 1 .. n + m /\ ~(n + i <= n) /\ (n + i) - n = i
    BY <1>2
  <2>. QED  BY ONLY <1>4, <2>1
<1>. QED  BY ONLY <1>1, <1>3, <1>5, <1>6

LEMMA Assembled ==
  ASSUME NEW U, NEW a \in U, NEW b \in U, NEW ext \in Seq(U), NEW key \in Seq(U), NEW d, d = (<<a, b>> \o ext) \o key
  PROVE  /\ d \in Seq(U) /\ Len(d) = 2 + Len(ext) + Len(key) /\ d[1] = a /\ d[2] = b
         /\ SubSeq(d, 3, 2 + Len(ext)) = ext
         /\ SubSeq(d, 3 + Len(ext), 2 + Len(ext) + Len(key)) = key
         /\ \A i \in 1 .. Len(ext) : d[2 + i] = ext[i]
<1>1. PICK e, k, ab, front : e = Len(ext) /\ k = Len(key) /\ ab = <<a, b>> /\ front = ab \o ext
  OBVIOUS
<1>2. e \in Nat /\ k \in Nat /\ ab \in Seq(U) /\ Len(ab) = 2 /\ ab[1] = a /\ ab[2] = b
  BY <1>1
<1>3. /\ front \in Seq(U) /\ Len(front) = Len(ab) + Len(ext)
      /\ \A i \in 1 .. Len(ab) : front[i] = ab[i]
      /\ \A i \in 1 .. Len(ext) : front[Len(ab) + i] = ext[i]
  <2>1. front = ab \o ext /\ ab \in Seq(U)
    BY <1>1, <1>2
  <2>. QED  BY ONLY <2>1, ext \in Seq(U), JoinedIs
<1>3a. /\ d \in Seq(U) /\ Len(d) = Len(front) + Len(key)
       /\ \A i \in 1 .. Len(front) : d[i] = front[i]
       /\ \A i \in 1 .. Len(key) : d[Len(front) + i] = key[i]
  <2>1. d = front \o key /\ front \in Seq(U)
    BY <1>1, <1>3
  <2>. QED  BY ONLY <2>1, key \in Seq(U), JoinedIs
<1>4. Len(front) = 2 + e /\ Len(d) = (2 + e) + k /\ \A i \in 1 .. k : d[(2 + e) + i] = key[i]
  BY ONLY <1>1, <1>2, <1>3, <1>3a
<1>5. d[1] = a /\ d[2] = b /\ \A i \in 1 .. e : d[2 + i] = ext[i]
  <2>1. 1 \in 1 .. 2 + e /\ 2 \in 1 .. 2 + e /\ \A i \in 1 .. e : 2 + i \in 1 .. 2 + e
    BY <1>2
  <2>2. \A i \in 1 .. 2 : d[i] = ab[i]
    BY ONLY <1>2, <1>3, <1>3a, <1>4
  <2>3. \A i \in 1 .. e : d[2 + i] = ext[i]
    BY ONLY <1>1, <1>2, <1>3, <1>3a, <1>4, <2>1, ZenonT(60)
  <2>4. d[1] = ab[1] /\ d[2] = ab[2]
    BY ONLY <2>2
  <2>. QED  BY ONLY <1>2, <2>3, <2>4
<1>6. ASSUME NEW from \in Nat, NEW n \in Nat, from + n <= Len(d), NEW part \in Seq(U), Len(part) = n,
             \A i \in 1 .. n : d[from + i] = part[i]
      PROVE  SubSeq(d, from + 1, from + n) = part
  <2>1. PICK m, f, t : m = Len(d) /\ f = from + 1 /\ t = from + n
    OBVIOUS
  <2>2. m \in Nat /\ f \in 1 .. m + 1 /\ t \in f - 1 .. m /\ t - f + 1 = n
    BY ONLY <1>2, <1>4, <1>6, <2>1
  <2>3. PICK cut : cut = SubSeq(d, f, t)
    OBVIOUS
  <2>4. cut \in Seq(U) /\ Len(cut) = n /\ \A i \in 1 .. n : cut[i] = d[f + i - 1]
    <3>1. /\ SubSeq(d, f, t) \in Seq(U) /\ Len(SubSeq(d, f, t)) = n
          /\ \A i \in 1 .. n : SubSeq(d, f, t)[i] = d[f + i - 1]
      BY <1>3a, <2>1, <2>2, SMTT(40)
    <3>. QED  BY <2>3, <3>1
  <2>5. ASSUME NEW i \in 1 .. n PROVE cut[i] = part[i]
    <3>1. f + i - 1 = from + i
      BY <2>1
    <3>. QED  BY <1>6, <2>4, <3>1
  <2>6. cut = part
    BY <1>6, <2>4, <2>5, SeqEqual
  <2>. QED  BY <2>1, <2>3, <2>6
<1>7. SubSeq(d, 2 + 1, 2 + e) = ext
  <2>1. 2 + e <= Len(d) /\ 2 \in Nat /\ Len(ext) = e
    BY <1>1, <1>2, <1>4
  <2>. QED  BY ONLY <1>2, <1>5, <1>6, <2>1, ext \in Seq(U)
<1>8. SubSeq(d, (2 + e) + 1, (2 + e) + k) = key
  <2>1. PICK from : from = 2 + e
    OBVIOUS
  <2>2. from + k <= Len(d) /\ from \in Nat /\ Len(key) = k /\ \A i \in 1 .. k : d[from + i] = key[i]
    BY ONLY <1>1, <1>2, <1>4, <2>1
  <2>3. SubSeq(d, from + 1, from + k) = key
    BY ONLY <1>2, <1>6, <2>2, key \in Seq(U)
  <2>. QED  BY <2>1, <2>3
<1>9. 2 + 1 = 3 /\ (2 + e) + 1 = 3 + e /\ (2 + e) + k = 2 + e + k
  BY <1>2
<1>. QED  BY ONLY <1>1, <1>3a, <1>4, <1>5, <1>7, <1>8, <1>9

(* The number of bytes the second byte of a header announces.                *)
Announced(b2) == 2 + W!Extended(b2) + (IF W!HasBit(b2, 128) THEN 4 ELSE 0)

LEMMA HeaderParsed ==
  ASSUME NEW h, HeaderOk(h), NEW bytes, bytes = W!WsSerialize(h, 14)
  PROVE  /\ bytes \in Seq(Octet) /\ Len(bytes) >= 2 /\ Len(bytes) = Announced(bytes[2])
         /\ W!WsParse(bytes) =
              [ok |-> TRUE, fin |-> h.fin, rsv1 |-> h.rsv1, rsv2 |-> h.rsv2, rsv3 |-> h.rsv3, opcode |-> h.opcode,
               masked |-> h.masked, length |-> h.length, key |-> h.key, headerLength |-> Len(bytes)]
<1>1. PICK first, ext : LengthForm(h.length, first, ext)
  <2>1. FrameLength(h.length)
    BY DEF HeaderOk
  <2>2. \A n : FrameLength(n) => n \in Nat /\ n < 65536 * 32768
    BY SMT DEF FrameLength
  <2>. QED  BY ONLY <2>1, <2>2, LengthFormed
<1>2. PICK key : key = IF h.masked THEN h.key ELSE <<>>
  OBVIOUS
<1>3. key \in Seq(Octet) /\ Len(key) = IF h.masked THEN 4 ELSE 0
  <2>1. PICK k \in [1 .. 4 -> Octet] : k = h.key
    BY DEF HeaderOk
  <2>2. k \in Seq(Octet) /\ Len(k) = 4
    <3>1. k = [i \in 1 .. 4 |-> k[i]] /\ \A i \in 1 .. 4 : k[i] \in Octet
      BY ONLY k \in [1 .. 4 -> Octet]
    <3>2. 4 \in Nat
      OBVIOUS
    <3>. QED  BY ONLY <3>1, <3>2
  <2>3. <<>> \in Seq(Octet) /\ Len(<<>>) = 0
    OBVIOUS
  <2>4. CASE h.masked
    <3>1. key = k
      BY ONLY <1>2, <2>1, <2>4
    <3>2. (IF h.masked THEN 4 ELSE 0) = 4
      BY ONLY <2>4
    <3>. QED  BY ONLY <2>2, <3>1, <3>2
  <2>5. CASE ~h.masked
    <3>1. key = <<>>
      BY ONLY <1>2, <2>5
    <3>2. (IF h.masked THEN 4 ELSE 0) = 0
      BY ONLY <2>5
    <3>. QED  BY ONLY <2>3, <3>1, <3>2
  <2>. QED  BY ONLY <2>4, <2>5
<1>4. PICK b1, b2 : /\ b1 = h.opcode + W!Bit(h.fin, 128) + W!Bit(h.rsv1, 64) + W!Bit(h.rsv2, 32) + W!Bit(h.rsv3, 16)
                    /\ b2 = first + W!Bit(h.masked, 128)
  OBVIOUS
<1>5. /\ b1 \in Octet /\ b1 % 16 = h.opcode
      /\ (W!HasBit(b1, 128) <=> h.fin) /\ (W!HasBit(b1, 64) <=> h.rsv1)
      /\ (W!HasBit(b1, 32) <=> h.rsv2) /\ (W!HasBit(b1, 16) <=> h.rsv3)
  <2>1. /\ b1 \in 0 .. 255 /\ b1 % 16 = h.opcode
        /\ (W!HasBit(b1, 128) <=> h.fin) /\ (W!HasBit(b1, 64) <=> h.rsv1)
        /\ (W!HasBit(b1, 32) <=> h.rsv2) /\ (W!HasBit(b1, 16) <=> h.rsv3)
    BY ONLY HeaderOk(h), <1>4, FirstByte
  <2>. QED  BY <2>1 DEF Octet
<1>6. first \in 0 .. 127 /\ ext \in Seq(Octet) /\ Len(ext) = W!Extended(first)
  BY <1>1 DEF LengthForm, Octet
<1>7. b2 \in Octet /\ b2 % 128 = first /\ (W!HasBit(b2, 128) <=> h.masked)
  <2>1. SecondOf(h, first, b2)
    BY <1>4, <1>6 DEF SecondOf
  <2>2. b2 \in 0 .. 255 /\ b2 % 128 = first /\ (W!HasBit(b2, 128) <=> h.masked)
    BY ONLY <2>1, SecondByte
  <2>. QED  BY <2>2 DEF Octet
<1>8. W!Extended(b2) = Len(ext)
  <2>1. first % 128 = first
    BY <1>6, SMT
  <2>. QED  BY <1>6, <1>7, <2>1 DEF W!Extended
<1>9. Len(ext) \in {0, 2, 8}
  BY <1>8 DEF W!Extended
<1>10. PICK d : d = (<<b1, b2>> \o ext) \o key
  OBVIOUS
<1>11. /\ d \in Seq(Octet) /\ Len(d) = 2 + Len(ext) + Len(key) /\ d[1] = b1 /\ d[2] = b2
       /\ SubSeq(d, 3, 2 + Len(ext)) = ext
       /\ SubSeq(d, 3 + Len(ext), 2 + Len(ext) + Len(key)) = key
       /\ \A i \in 1 .. Len(ext) : d[2 + i] = ext[i]
  <2>1. b1 \in Octet /\ b2 \in Octet /\ ext \in Seq(Octet) /\ key \in Seq(Octet)
    BY <1>3, <1>5, <1>6, <1>7
  <2>. QED  BY ONLY <1>10, <2>1, Assembled
<1>12. bytes = d
  <2>1. W!LengthBytes(h.length) = <<first>> \o ext
    BY <1>1 DEF LengthForm
  <2>2. Head(<<first>> \o ext) = first /\ Tail(<<first>> \o ext) = ext
    <3>1. PICK T : T = Octet \cup {first}
      OBVIOUS
    <3>2. first \in T /\ ext \in Seq(T)
      BY <1>6, <3>1
    <3>3. PICK f : f = <<first>> \o ext
      OBVIOUS
    <3>4. /\ f \in Seq(T) /\ Len(f) = Len(ext) + 1 /\ f[1] = first
          /\ \A i \in 1 .. Len(ext) : f[i + 1] = ext[i]
      BY <3>2, <3>3
    <3>5. f # <<>> /\ Head(f) = first
      BY <3>4
    <3>6. Tail(f) \in Seq(T) /\ Len(Tail(f)) = Len(ext) /\ \A i \in 1 .. Len(ext) : Tail(f)[i] = f[i + 1]
      BY <3>4, <3>5
    <3>7. Tail(f) = ext
      BY <3>2, <3>4, <3>6, SeqEqual
    <3>. QED  BY <3>3, <3>5, <3>7
  <2>3. Len(d) <= 14
    <3>1. PICK e, k : e = Len(ext) /\ k = Len(key)
      OBVIOUS
    <3>2. e \in {0, 2, 8} /\ k \in {0, 4} /\ Len(d) = 2 + e + k
      BY ONLY <1>3, <1>9, <1>11, <3>1
    <3>. QED  BY ONLY <3>2
  <2>4. W!WsSerialize(h, 14) = IF 14 < Len(d) THEN <<>> ELSE d
    <3>1. PICK len : len = W!LengthBytes(h.length)
      OBVIOUS
    <3>2. Head(len) = first /\ Tail(len) = ext
      BY <2>1, <2>2, <3>1
    <3>3. d = (<<h.opcode + W!Bit(h.fin, 128) + W!Bit(h.rsv1, 64) + W!Bit(h.rsv2, 32) + W!Bit(h.rsv3, 16),
                 Head(len) + W!Bit(h.masked, 128)>> \o Tail(len)) \o (IF h.masked THEN h.key ELSE <<>>)
      BY ONLY <1>2, <1>4, <1>10, <3>2, Zenon
    <3>. QED  BY ONLY <3>1, <3>3, ZenonT(60) DEF W!WsSerialize
  <2>. QED  BY <1>11, <2>3, <2>4
<1>13. PICK size : size = Len(d)
  OBVIOUS
<1>14. size = 2 + Len(ext) + (IF h.masked THEN 4 ELSE 0) /\ size \in Nat /\ size >= 2
  BY <1>3, <1>9, <1>11, <1>13
<1>15. size = Announced(b2)
  BY <1>7, <1>8, <1>14 DEF Announced
<1>16. ~(Len(ext) = 8 /\ \E i \in 3 .. 6 : d[i] # 0)
  <2>1. ASSUME Len(ext) = 8, NEW i \in 3 .. 6 PROVE d[i] = 0
    <3>1. PICK j \in 1 .. 4 : i = 2 + j
      BY SMT
    <3>2. d[2 + j] = ext[j]
      BY <1>11, <2>1
    <3>3. j \in {1, 2, 3, 4}
      BY SMT
    <3>. QED  BY <1>1, <2>1, <3>1, <3>2, <3>3 DEF LengthForm
  <2>. QED  BY <2>1
<1>17. h.length = IF Len(ext) = 0 THEN b2 % 128 ELSE W!Value(SubSeq(d, 3, 2 + Len(ext)))
  BY <1>1, <1>7, <1>11 DEF LengthForm
<1>18. h.key = IF h.masked THEN SubSeq(d, (2 + Len(ext)) + 1, size) ELSE <<0, 0, 0, 0>>
  <2>1. CASE h.masked
    <3>1. (2 + Len(ext)) + 1 = 3 + Len(ext)
      BY <1>9
    <3>. QED  BY <1>2, <1>11, <1>13, <2>1, <3>1
  <2>2. CASE ~h.masked
    BY <2>2 DEF HeaderOk
  <2>. QED  BY <2>1, <2>2
<1>19. W!WsParse(d) =
         [ok |-> TRUE, fin |-> h.fin, rsv1 |-> h.rsv1, rsv2 |-> h.rsv2, rsv3 |-> h.rsv3, opcode |-> h.opcode,
          masked |-> h.masked, length |-> h.length, key |-> h.key, headerLength |-> size]
  <2> DEFINE ext1 == W!Extended(d[2])
             off == 2 + ext1
             size1 == off + (IF W!HasBit(d[2], 128) THEN 4 ELSE 0)
             read == [ok |-> TRUE, fin |-> W!HasBit(d[1], 128), rsv1 |-> W!HasBit(d[1], 64), rsv2 |-> W!HasBit(d[1], 32),
                      rsv3 |-> W!HasBit(d[1], 16), opcode |-> d[1] % 16, masked |-> W!HasBit(d[2], 128),
                      length |-> IF ext1 = 0 THEN d[2] % 128 ELSE W!Value(SubSeq(d, 3, off)),
                      key |-> IF W!HasBit(d[2], 128) THEN SubSeq(d, off + 1, size1) ELSE <<0, 0, 0, 0>>,
                      headerLength |-> size1]
  <2>1. W!WsParse(d) = IF Len(d) < 2 THEN W!WsError
                       ELSE IF Len(d) < size1 \/ (ext1 = 8 /\ \E i \in 3 .. 6 : d[i] # 0) THEN W!WsError ELSE read
    BY Zenon DEF W!WsParse
  <2>2. ext1 = Len(ext) /\ off = 2 + Len(ext) /\ size1 = size
    BY <1>7, <1>8, <1>11, <1>14
  <2>3. /\ W!HasBit(d[1], 128) = h.fin /\ W!HasBit(d[1], 64) = h.rsv1 /\ W!HasBit(d[1], 32) = h.rsv2
        /\ W!HasBit(d[1], 16) = h.rsv3 /\ W!HasBit(d[2], 128) = h.masked
    <3>1. /\ W!HasBit(d[1], 128) \in BOOLEAN /\ W!HasBit(d[1], 64) \in BOOLEAN /\ W!HasBit(d[1], 32) \in BOOLEAN
          /\ W!HasBit(d[1], 16) \in BOOLEAN /\ W!HasBit(d[2], 128) \in BOOLEAN
      BY DEF W!HasBit
    <3>. QED  BY <1>5, <1>7, <1>11, <3>1 DEF HeaderOk
  <2>4. d[1] % 16 = h.opcode /\ d[2] % 128 = b2 % 128
    BY <1>5, <1>11
  <2>5. read.length = h.length
    BY <1>17, <2>2, <2>4
  <2>6. read.key = h.key
    BY <1>18, <2>2, <2>3
  <2>7. read = [ok |-> TRUE, fin |-> h.fin, rsv1 |-> h.rsv1, rsv2 |-> h.rsv2, rsv3 |-> h.rsv3, opcode |-> h.opcode,
                masked |-> h.masked, length |-> h.length, key |-> h.key, headerLength |-> size]
    <3>1. PICK ln, ky : ln = read.length /\ ky = read.key
      OBVIOUS
    <3>2. read = [ok |-> TRUE, fin |-> W!HasBit(d[1], 128), rsv1 |-> W!HasBit(d[1], 64), rsv2 |-> W!HasBit(d[1], 32),
                  rsv3 |-> W!HasBit(d[1], 16), opcode |-> d[1] % 16, masked |-> W!HasBit(d[2], 128),
                  length |-> ln, key |-> ky, headerLength |-> size1]
      BY <3>1
    <3> HIDE DEF read, size1, off, ext1
    <3>. QED  BY ONLY <2>2, <2>3, <2>4, <2>5, <2>6, <3>1, <3>2, Zenon
  <2>8. ~(Len(d) < 2) /\ ~(Len(d) < size1) /\ ~(ext1 = 8 /\ \E i \in 3 .. 6 : d[i] # 0)
    BY <1>13, <1>14, <1>16, <2>2
  <2> HIDE DEF read, size1, off, ext1
  <2>. QED  BY ONLY <2>1, <2>7, <2>8, Zenon
<1>. QED  BY <1>11, <1>12, <1>13, <1>14, <1>15, <1>19

(* What is not all of a header is refused.                                   *)
LEMMA PieceRefused ==
  ASSUME NEW bytes, Len(bytes) = Announced(bytes[2]), NEW data, Len(data) \in Nat, Len(data) < Len(bytes), Len(bytes) \in Nat,
         \A i \in 1 .. Len(data) : data[i] = bytes[i]
  PROVE  ~W!WsParse(data).ok
<1>1. CASE Len(data) < 2
  BY <1>1 DEF W!WsParse, W!WsError
<1>2. CASE Len(data) >= 2
  <2>1. data[2] = bytes[2]
    BY <1>2
  <2>2. Len(data) < 2 + W!Extended(data[2]) + (IF W!HasBit(data[2], 128) THEN 4 ELSE 0)
    BY <2>1 DEF Announced
  <2>3. ~(Len(data) < 2)
    BY <1>2
  <2>4. W!WsParse(data) = W!WsError
    BY <2>2, <2>3, Zenon DEF W!WsParse
  <2>. QED  BY <2>4 DEF W!WsError
<1>. QED  BY <1>1, <1>2

(* A frame, of which the reader has a first piece and the input the rest.    *)
FrameSent(s) ==
  /\ HeaderOk(s.parsed) /\ s.payload \in Seq(Octet) /\ s.key \in [1 .. 4 -> Octet]
  /\ LET h == s.parsed IN
     h = [ok |-> TRUE, fin |-> h.fin, rsv1 |-> h.rsv1, rsv2 |-> h.rsv2, rsv3 |-> h.rsv3, opcode |-> h.opcode,
          masked |-> h.masked, length |-> h.length, key |-> h.key, headerLength |-> Len(W!WsSerialize(h, 14))]

Arriving(r, i, s) == r \in Seq(Octet) /\ i \in Seq(Octet) /\ r \o i = W!WsSerialize(s.parsed, 14)

FrameInv ==
  kind = "frame" => /\ FrameSent(sent) /\ Arriving(reader, input, sent)
                    /\ got # <<>> => got = <<W!WsParse(reader)>>

LEMMA FrameBegins ==
  ASSUME NEW m, Frame(m)
  PROVE  FrameSent(m.sent) /\ Arriving(m.reader, m.input, m.sent)
<1>1. HeaderOk(m.sent.parsed)
  BY Zenon DEF Frame, HeaderOk
<1>2. m.input = W!WsSerialize(m.sent.parsed, 14) /\ m.reader = <<>>
  BY Zenon DEF Frame
<1>3. m.sent.payload \in Seq(Octet) /\ m.sent.key \in [1 .. 4 -> Octet]
  BY Zenon DEF Frame
<1>4. FrameSent(m.sent)
  BY <1>1, <1>2, <1>3, Zenon DEF Frame, FrameSent
<1>5. m.input \in Seq(Octet)
  BY <1>1, <1>2, HeaderParsed
<1>6. m.reader \o m.input = m.input
  BY <1>2, <1>5
<1>. QED  BY <1>2, <1>4, <1>5, <1>6 DEF Arriving

LEMMA PieceArrives ==
  ASSUME NEW r, NEW i, NEW s, Arriving(r, i, s), NEW k \in 1 .. Len(i), NEW r1, NEW i1,
         r1 = r \o SubSeq(i, 1, k), i1 = SubSeq(i, k + 1, Len(i))
  PROVE  Arriving(r1, i1, s)
<1>1. r \in Seq(Octet) /\ i \in Seq(Octet) /\ r \o i = W!WsSerialize(s.parsed, 14)
  BY DEF Arriving
<1>2. PICK a : a = SubSeq(i, 1, k)
  OBVIOUS
<1>3. a \in Seq(Octet) /\ i1 \in Seq(Octet) /\ a \o i1 = i
  BY <1>1, <1>2, SMTT(40)
<1>4. r1 \in Seq(Octet) /\ r1 \o i1 = r \o (a \o i1)
  <2>1. r1 = r \o a
    BY <1>2
  <2>2. (r \o a) \o i1 = r \o (a \o i1)
    <3>1. IsList(r) /\ IsList(a) /\ IsList(i1)
      BY ONLY <1>1, <1>3 DEF IsList
    <3>. QED  BY ONLY <3>1, MarksInLine
  <2>. QED  BY ONLY <1>1, <1>3, <2>1, <2>2
<1>. QED  BY ONLY <1>1, <1>3, <1>4 DEF Arriving

LEMMA FrameInvariant == Spec => []FrameInv
<1>1. Init => FrameInv
  <2> SUFFICES ASSUME Init, kind = "frame" PROVE FrameInv
    BY DEF FrameInv
  <2>1. PICK i \in DOMAIN Messages["frame"] :
          /\ sent = Messages["frame"][i].sent /\ input = Messages["frame"][i].input
          /\ reader = Messages["frame"][i].reader /\ got = <<>>
    BY DEF Init
  <2>2. PICK m : m = Messages["frame"][i]
    OBVIOUS
  <2>3. Frame(m)
    BY <2>2, MessagesAssumption DEF Init
  <2>. QED  BY <2>1, <2>2, <2>3, FrameBegins DEF FrameInv
<1>2. FrameInv /\ [Next]_vars => FrameInv'
  <2> SUFFICES ASSUME FrameInv, [Next]_vars, kind' = "frame" PROVE FrameInv'
    BY DEF FrameInv
  <2>1. kind = "frame" /\ sent' = sent
    BY DEF Next, vars, ReadRequest, ReadParts, ReadEvents, ReadFrame, AskParameter, AskCredentials, AskToken, Answer
  <2>2. FrameSent(sent) /\ Arriving(reader, input, sent) /\ (got # <<>> => got = <<W!WsParse(reader)>>)
    BY <2>1 DEF FrameInv
  <2>3. CASE ReadFrame
    <3>1. PICK k \in 1 .. Len(input) : /\ reader' = reader \o SubSeq(input, 1, k)
                                      /\ input' = SubSeq(input, k + 1, Len(input))
      BY <2>3 DEF ReadFrame, Piece, Arrives
    <3>2. Arriving(reader', input', sent)
      BY ONLY <2>2, <3>1, PieceArrives
    <3>3. got' = <<W!WsParse(reader')>>
      BY <2>3 DEF ReadFrame
    <3>. QED  BY <2>1, <2>2, <3>2, <3>3 DEF FrameInv
  <2>4. CASE UNCHANGED vars
    BY <2>1, <2>2, <2>4 DEF FrameInv, vars
  <2>5. Next => ReadFrame
    BY <2>1 DEF Next, ReadRequest, ReadParts, ReadEvents, AskParameter, AskCredentials, AskToken, Answer
  <2>. QED  BY <2>3, <2>4, <2>5
<1>. QED  BY <1>1, <1>2, PTL DEF Spec

(* Of a frame's header fewer bytes than it has are refused, and all of them  *)
(* are the header that was written, whatever its fields and its length;      *)
(* masking twice gives any payload back.                                     *)
THEOREM HeadersSurviveTheCut == Spec => []WsHeaderRoundTrip
<1>1. FrameInv => WsHeaderRoundTrip
  <2> SUFFICES ASSUME FrameInv, kind = "frame"
               PROVE  /\ got # <<>> => IF input = <<>> THEN got[1] = sent.parsed ELSE ~got[1].ok
                      /\ W!Unmask(W!Unmask(sent.payload, sent.key), sent.key) = sent.payload
    BY DEF WsHeaderRoundTrip
  <2>1. FrameSent(sent) /\ Arriving(reader, input, sent) /\ (got # <<>> => got = <<W!WsParse(reader)>>)
    BY DEF FrameInv
  <2>2. W!Unmask(W!Unmask(sent.payload, sent.key), sent.key) = sent.payload
    <3>1. PICK payload, key : payload = sent.payload /\ key = sent.key
      OBVIOUS
    <3>2. payload \in Seq(Octet) /\ key \in [1 .. 4 -> Octet]
      BY <2>1, <3>1 DEF FrameSent
    <3>3. W!Unmask(W!Unmask(payload, key), key) = payload
      BY ONLY <3>2, UnmaskedTwice
    <3>. QED  BY ONLY <3>1, <3>3
  <2>3. PICK bytes, h : h = sent.parsed /\ bytes = W!WsSerialize(h, 14)
    OBVIOUS
  <2>4. HeaderOk(h)
    BY <2>1, <2>3 DEF FrameSent
  <2>5. /\ bytes \in Seq(Octet) /\ Len(bytes) >= 2 /\ Len(bytes) = Announced(bytes[2])
        /\ W!WsParse(bytes) =
             [ok |-> TRUE, fin |-> h.fin, rsv1 |-> h.rsv1, rsv2 |-> h.rsv2, rsv3 |-> h.rsv3, opcode |-> h.opcode,
              masked |-> h.masked, length |-> h.length, key |-> h.key, headerLength |-> Len(bytes)]
    BY ONLY <2>3, <2>4, HeaderParsed
  <2>6. h = [ok |-> TRUE, fin |-> h.fin, rsv1 |-> h.rsv1, rsv2 |-> h.rsv2, rsv3 |-> h.rsv3, opcode |-> h.opcode,
             masked |-> h.masked, length |-> h.length, key |-> h.key, headerLength |-> Len(bytes)]
    BY ONLY <2>1, <2>3, Zenon DEF FrameSent
  <2>7. W!WsParse(bytes) = sent.parsed
    BY ONLY <2>3, <2>5, <2>6, Zenon
  <2>8. reader \in Seq(Octet) /\ input \in Seq(Octet) /\ reader \o input = bytes
    BY ONLY <2>1, <2>3 DEF Arriving
  <2>9. ASSUME got # <<>>, input = <<>> PROVE got[1] = sent.parsed
    <3>1. reader = bytes
      BY ONLY <2>8, <2>9
    <3>2. got[1] = W!WsParse(reader)
      BY ONLY <2>1, <2>9
    <3>. QED  BY ONLY <2>7, <3>1, <3>2
  <2>10. ASSUME got # <<>>, input # <<>> PROVE ~got[1].ok
    <3>1. PICK r : r = reader
      OBVIOUS
    <3>2. r \in Seq(Octet) /\ input \in Seq(Octet) /\ bytes = r \o input
      BY ONLY <2>8, <3>1
    <3>3. /\ bytes \in Seq(Octet) /\ Len(bytes) = Len(r) + Len(input)
          /\ \A i \in 1 .. Len(r) : bytes[i] = r[i]
      BY ONLY <3>2, JoinedIs
    <3>4. Len(input) \in Nat /\ Len(input) > 0
      BY ONLY <2>8, <2>10
    <3>5. Len(r) \in Nat /\ Len(r) < Len(bytes) /\ Len(bytes) \in Nat
      BY ONLY <3>2, <3>3, <3>4
    <3>6. \A i \in 1 .. Len(r) : r[i] = bytes[i]
      BY ONLY <3>3
    <3>7. Len(bytes) = Announced(bytes[2])
      BY ONLY <2>5
    <3>8. ~W!WsParse(r).ok
      BY ONLY <3>5, <3>6, <3>7, PieceRefused
    <3>9. got[1] = W!WsParse(reader)
      BY ONLY <2>1, <2>10
    <3>. QED  BY ONLY <3>1, <3>8, <3>9
  <2>. QED  BY <2>2, <2>9, <2>10
<1>. QED  BY <1>1, FrameInvariant, PTL

-----------------------------------------------------------------------------
(* Tokens.  A list with one more, and its beginning.                         *)
LEMMA AppendedIs ==
  ASSUME NEW U, NEW s \in Seq(U), NEW x \in U, NEW t, t = Append(s, x)
  PROVE  t \in Seq(U) /\ Len(t) = Len(s) + 1 /\ t[Len(s) + 1] = x /\ \A i \in 1 .. Len(s) : t[i] = s[i]
OBVIOUS

LEMMA BeginningIs ==
  ASSUME NEW U, NEW s \in Seq(U), NEW n \in Nat, n <= Len(s), NEW p, p = SubSeq(s, 1, n)
  PROVE  p \in Seq(U) /\ Len(p) = n /\ \A i \in 1 .. n : p[i] = s[i]
OBVIOUS

(* A token that was signed verifies, and gives its payload back.             *)
LEMMA SignedVerifies ==
  ASSUME NEW payload \in Seq(Octet), NEW secret, NEW token, token = J!Sign(payload, secret)
  PROVE  J!Verify(token, secret) = [ok |-> TRUE, payload |-> payload]
<1>2. PICK a, b : a = J!B64!Encode(J!JwtHeader, FALSE) /\ b = J!B64!Encode(payload, FALSE)
  OBVIOUS
<1>3. PICK text : text = <<a, b>>
  OBVIOUS
<1>4. PICK h : h = J!Hmac(secret, text)
  OBVIOUS
<1>5. token = Append(text, h)
  BY <1>2, <1>3, <1>4 DEF J!Sign
<1>6. PICK T : T = {a, b, h}
  OBVIOUS
<1>7. text \in Seq(T) /\ Len(text) = 2 /\ text[1] = a /\ text[2] = b /\ h \in T
  BY ONLY <1>3, <1>6
<1>8. /\ token \in Seq(T) /\ Len(token) = 3 /\ token[3] = h
      /\ \A i \in 1 .. 2 : token[i] = text[i]
  <2>1. text \in Seq(T) /\ h \in T
    BY ONLY <1>7
  <2>2. /\ token \in Seq(T) /\ Len(token) = Len(text) + 1 /\ token[Len(text) + 1] = h
        /\ \A i \in 1 .. Len(text) : token[i] = text[i]
    BY ONLY <1>5, <2>1, AppendedIs
  <2>3. Len(text) = 2 /\ 2 + 1 = 3
    BY ONLY <1>7
  <2>. QED  BY ONLY <2>2, <2>3
<1>9. SubSeq(token, 1, 2) = text
  <2>0. PICK n, front : n = 2 /\ front = SubSeq(token, 1, n)
    OBVIOUS
  <2>1. n \in Nat /\ n <= Len(token) /\ token \in Seq(T)
    BY ONLY <1>8, <2>0
  <2>1a. front = SubSeq(token, 1, n)
    BY ONLY <2>0
  <2>2. front \in Seq(T) /\ Len(front) = n /\ \A i \in 1 .. n : front[i] = token[i]
    BY ONLY <2>1, <2>1a, BeginningIs
  <2>3. front = text
    BY ONLY <1>7, <1>8, <2>0, <2>2, SeqEqual
  <2>. QED  BY ONLY <2>0, <2>3
<1>10. PICK read : read = J!B64!Decode(b, TRUE)
  OBVIOUS
<1>11. read.ok = TRUE /\ read.data = payload
  <2>1. Decode(Encode(payload, FALSE), ~FALSE) = [ok |-> TRUE, data |-> payload]
    BY DecodeOfEncode
  <2>2. read = Decode(b, TRUE) /\ b = Encode(payload, FALSE)
    BY <1>2, <1>10, TokenCodec
  <2>3. read = [ok |-> TRUE, data |-> payload]
    BY <2>1, <2>2
  <2>. QED  BY ONLY <2>3
<1>12. token[2] = b
  BY ONLY <1>7, <1>8
<1>13. J!Verify(token, secret) = LET p == J!B64!Decode(token[2], TRUE) IN [ok |-> p.ok, payload |-> p.data]
  <2>1. ~(Len(token) # 3 \/ token[3] # J!Hmac(secret, SubSeq(token, 1, 2)))
    BY ONLY <1>4, <1>8, <1>9
  <2>. QED  BY ONLY <2>1, Zenon DEF J!Verify
<1>14. J!Verify(token, secret) = [ok |-> read.ok, payload |-> read.data]
  BY ONLY <1>10, <1>12, <1>13, Zenon
<1>. QED  BY ONLY <1>11, <1>14

(* What verifies bears the signature of its first two texts.                 *)
LEMMA VerifiedIsSigned ==
  ASSUME NEW token, NEW secret, J!Verify(token, secret).ok
  PROVE  Len(token) = 3 /\ token[3] = J!Hmac(secret, SubSeq(token, 1, 2))
<1>1. SUFFICES ASSUME Len(token) # 3 \/ token[3] # J!Hmac(secret, SubSeq(token, 1, 2)) PROVE FALSE
  OBVIOUS
<1>2. J!Verify(token, secret) = [ok |-> FALSE, payload |-> <<>>]
  BY ONLY <1>1, Zenon DEF J!Verify
<1>. QED  BY <1>2

(* The module of the tokens says its answers as that of the responses does.  *)
LEMMA SameSteps ==
  /\ \A r, key, value, fails : J!R!SetHeader(r, key, value, fails) = R!SetHeader(r, key, value, fails)
  /\ \A r, status : J!R!SetStatus(r, status) = R!SetStatus(r, status)
  /\ \A r, text, fault : J!R!KeepText(r, text, fault) = R!KeepText(r, text, fault)
  /\ \A r, fault : J!R!PutHead(r, fault) = R!PutHead(r, fault)
  /\ \A r, fault : J!R!PutBody(r, fault) = R!PutBody(r, fault)
  /\ \A r : J!R!MarkSent(r) = R!MarkSent(r)
  /\ \A r, fault : J!R!Framed(r, fault) = R!Framed(r, fault)
  /\ J!R!NewResponse = R!NewResponse
<1>1. \A r : J!R!Ok(r) = R!Ok(r) /\ J!R!Error(r) = R!Error(r)
  BY DEF J!R!Ok, R!Ok, J!R!Error, R!Error
<1>2. \A set : J!R!Min(set) = R!Min(set)
  BY Zenon DEF J!R!Min, R!Min
<1>3. ASSUME NEW headers, NEW key PROVE J!R!IndexOf(headers, key) = R!IndexOf(headers, key)
  BY <1>2 DEF J!R!IndexOf, R!IndexOf, J!R!SelectInSeq, R!SelectInSeq
<1>4. ASSUME NEW r, NEW key, NEW value, NEW fails
      PROVE  J!R!SetHeader(r, key, value, fails) = R!SetHeader(r, key, value, fails)
  BY <1>1, <1>3, Zenon DEF J!R!SetHeader, R!SetHeader
<1>5. \A r, status : J!R!SetStatus(r, status) = R!SetStatus(r, status)
  BY <1>1 DEF J!R!SetStatus, R!SetStatus
<1>6. \A r, text, fault : J!R!KeepText(r, text, fault) = R!KeepText(r, text, fault)
  BY <1>1 DEF J!R!KeepText, R!KeepText
<1>7. \A r, fault : J!R!PutHead(r, fault) = R!PutHead(r, fault)
  BY <1>1 DEF J!R!PutHead, R!PutHead, J!R!Write, R!Write, J!R!HeadMark, R!HeadMark
<1>8. \A r, fault : J!R!PutBody(r, fault) = R!PutBody(r, fault)
  BY <1>1 DEF J!R!PutBody, R!PutBody, J!R!Write, R!Write, J!R!Chars, R!Chars
<1>9. \A r : J!R!MarkSent(r) = R!MarkSent(r)
  BY DEF J!R!MarkSent, R!MarkSent
<1>10. \A r, fault : J!R!Framed(r, fault) = R!Framed(r, fault)
  BY <1>1, <1>4, Zenon DEF J!R!Framed, R!Framed
<1>11. J!R!NewResponse = R!NewResponse
  BY DEF J!R!NewResponse, R!NewResponse
<1>. QED  BY <1>4, <1>5, <1>6, <1>7, <1>8, <1>9, <1>10, <1>11

LEMMA SameSend == ASSUME NEW r, NEW fault PROVE J!R!Send(r, fault) = R!Send(r, fault)
<1>1. PICK r1, r2, r3, r4 : /\ r1 = R!Framed(r, fault) /\ r2 = R!PutHead(r1, fault)
                            /\ r3 = R!PutBody(r2, fault) /\ r4 = R!MarkSent(r3)
  OBVIOUS
<1>2. /\ r1 = J!R!Framed(r, fault) /\ r2 = J!R!PutHead(r1, fault)
      /\ r3 = J!R!PutBody(r2, fault) /\ r4 = J!R!MarkSent(r3)
  BY ONLY <1>1, SameSteps
<1>3. R!Send(r, fault) = IF r.headersSent THEN R!Error(r) ELSE IF r1.rc # "ok" THEN r1
                         ELSE IF r2.rc # "ok" THEN r2 ELSE IF r3.rc # "ok" THEN r3 ELSE r4
  BY ONLY <1>1 DEF R!Send, R!Then
<1>4. J!R!Send(r, fault) = IF r.headersSent THEN J!R!Error(r) ELSE IF r1.rc # "ok" THEN r1
                           ELSE IF r2.rc # "ok" THEN r2 ELSE IF r3.rc # "ok" THEN r3 ELSE r4
  BY ONLY <1>2 DEF J!R!Send, J!R!Then
<1>5. J!R!Error(r) = R!Error(r)
  BY DEF J!R!Error, R!Error
<1>. QED  BY ONLY <1>3, <1>4, <1>5

LEMMA SameSay == ASSUME NEW r, NEW type, NEW text, NEW fault PROVE J!R!Say(r, type, text, fault) = R!Say(r, type, text, fault)
<1>1. PICK key, fails : key = "Content-Type" /\ fails = (fault = "type")
  OBVIOUS
<1>2. PICK r1, r2, r3 : r1 = R!SetHeader(r, key, type, fails) /\ r2 = R!KeepText(r1, text, fault) /\ r3 = R!Send(r2, fault)
  OBVIOUS
<1>3. r1 = J!R!SetHeader(r, key, type, fails) /\ r2 = J!R!KeepText(r1, text, fault)
  BY ONLY <1>2, SameSteps
<1>4. r3 = J!R!Send(r2, fault)
  BY ONLY <1>2, SameSend
<1>5. R!Say(r, type, text, fault) = IF r1.rc # "ok" THEN r1 ELSE IF r2.rc # "ok" THEN r2 ELSE r3
  BY ONLY <1>1, <1>2 DEF R!Say, R!Then
<1>6. J!R!Say(r, type, text, fault) = IF r1.rc # "ok" THEN r1 ELSE IF r2.rc # "ok" THEN r2 ELSE r3
  BY ONLY <1>1, <1>3, <1>4 DEF J!R!Say, J!R!Then
<1>. QED  BY ONLY <1>5, <1>6

(* Whoever is refused reads a whole answer that says 401.                    *)
Refused(text, s) == text \in Refusals /\ s = J!Refuse(R!NewResponse, text)

LEMMA RefusalIsRead ==
  ASSUME NEW text, NEW s, Refused(text, s)
  PROVE  R!PeerReads(s.wire).complete /\ s.wire[1][2].status = 401
<1> USE DEF Refused
<1>1. PICK r, body, status, key, type, scheme : /\ r = R!NewResponse /\ body = <<text>> /\ status = 401
                                                /\ key = "WWW-Authenticate" /\ type = "text/html" /\ scheme = "Bearer"
  OBVIOUS
<1>2. PICK fails \in BOOLEAN : fails = FALSE
  OBVIOUS
<1>2a. PICK fault : fault = "none"
  OBVIOUS
<1>3. PICK r1, r2 : r1 = R!SetStatus(r, status) /\ r2 = R!SetHeader(r1, key, scheme, fails)
  OBVIOUS
<1>4. s = R!Say(r2, type, body, fault)
  <2>1. r1 = J!R!SetStatus(r, status) /\ r2 = J!R!SetHeader(r1, key, scheme, fails)
    BY ONLY <1>3, SameSteps
  <2>2. s = J!R!Say(r2, type, body, fault)
    BY ONLY <1>1, <1>2, <1>2a, <2>1, Refused(text, s), ZenonT(60) DEF J!Refuse
  <2>. QED  BY ONLY <2>2, SameSay
<1>5. /\ IsRes(r) /\ r.headers = <<>> /\ r.body = NULL /\ r.bodyLen = 0 /\ r.chunked = FALSE
      /\ r.headersSent = FALSE /\ r.wire = <<>>
  BY <1>1, NewResponseIs
<1>6. IsRes(r1) /\ r1.chunked = r.chunked /\ SameWire(r1, r) /\ r1.headers = r.headers /\ r1.status = status
  BY <1>3, <1>5, SetStatusIs
<1>7. IsRes(r2) /\ SameAnswer(r2, r1) /\ SameWire(r2, r1) /\ SameHeadersBut(r2, r1, {key})
  BY <1>3, <1>6, SetHeaderIs
<1>8. r2.chunked = FALSE /\ r2.headersSent = FALSE /\ r2.wire = <<>> /\ r2.status = 401
  BY <1>1, <1>5, <1>6, <1>7 DEF SameAnswer, SameWire
<1>9. ~HasHeader(r2.headers, "Transfer-Encoding")
  <2>1. ~HasHeader(r1.headers, "Transfer-Encoding")
    BY <1>5, <1>6, NoHeaders
  <2>2. "Transfer-Encoding" \notin {key}
    BY <1>1
  <2>. QED  BY <1>7, <2>1, <2>2 DEF SameHeadersBut
<1>10. SaidIs(s, r2, body, fault) /\ s.status = r2.status
  BY <1>4, <1>7, <1>8, SayIs
<1>11. s.rc = "ok"
  BY <1>2a, <1>8, <1>10 DEF SaidIs
<1>12. body \in Seq({text}) /\ Len(body) = 1 /\ body # NULL
  <2>1. body # NULL
    BY <1>1, NullAssumption DEF IsText
  <2>. QED  BY <1>1, <2>1
<1>13. s.wire = (r2.wire \o <<R!HeadMark(s.status, s.headers)>>) \o R!Chars(body) /\ LengthIs(s, Len(body))
  BY <1>8, <1>10, <1>11, <1>12 DEF SaidIs
<1>14. ~HasHeader(s.headers, "Transfer-Encoding")
  BY <1>9, <1>10 DEF SaidIs, SameHeadersBut
<1>15. PICK wire, answer, headers : wire = s.wire /\ answer = s.status /\ headers = s.headers
  OBVIOUS
<1>16. /\ ~HasHeader(headers, "Transfer-Encoding") /\ HeaderValue(headers, "Content-Length") = Len(body)
       /\ wire = (<<>> \o <<R!HeadMark(answer, headers)>>) \o R!Chars(body)
  BY <1>8, <1>13, <1>14, <1>15 DEF LengthIs
<1>17. R!PeerReads(wire) = R!Whole(body) /\ wire # <<>> /\ wire[1] = R!HeadMark(answer, headers)
  BY ONLY <1>12, <1>16, PeerReadsWhole
<1>18. answer = 401
  BY <1>8, <1>10, <1>15
<1>. QED  BY <1>15, <1>17, <1>18 DEF R!Whole, R!HeadMark

(* What the middleware makes of a token.                                     *)
Judged(m, answer) ==
  /\ answer.next <=> m.sent.genuine
  /\ answer.next => answer.context = m.sent.payload /\ answer.res.wire = <<>>
  /\ ~answer.next => R!PeerReads(answer.res.wire).complete /\ answer.res.wire[1][2].status = 401

LEMMA TokenJudged ==
  ASSUME NEW m, Token(m), NEW got1, got1 = J!JwtMiddleware(m.reader, m.sent.secret, {m.sent.payload}, R!NewResponse)
  PROVE  Judged(m, got1)
<1>1. PICK given, secret, payload, signed, new :
        /\ given = J!Q!AuthBearer([auth |-> m.reader]) /\ secret = m.sent.secret /\ payload = m.sent.payload
        /\ signed = m.sent.signed /\ new = R!NewResponse
  OBVIOUS
<1>2. /\ \A p \in signed \cup {payload} : p \in Seq(Octet)
      /\ given # NULL /\ Len(given) = 3 /\ given[3] = J!Hmac(secret, SubSeq(given, 1, 2)) =>
           \E p \in signed : given = J!Sign(p, secret)
      /\ m.sent.genuine <=> given = J!Sign(payload, secret)
      /\ m.sent.genuine => given # NULL
  BY <1>1 DEF Token
<1>3. PICK v : v = J!Verify(given, secret)
  OBVIOUS
<1>4. got1 = IF given = NULL THEN [next |-> FALSE, context |-> NULL, res |-> J!Refuse(new, "missing")]
             ELSE IF ~v.ok THEN [next |-> FALSE, context |-> NULL, res |-> J!Refuse(new, "signature")]
             ELSE IF v.payload \notin {payload} THEN [next |-> FALSE, context |-> NULL, res |-> J!Refuse(new, "payload")]
             ELSE [next |-> TRUE, context |-> v.payload, res |-> new]
  BY <1>1, <1>3, Zenon DEF J!JwtMiddleware
<1>5. ASSUME NEW text \in Refusals, got1 = [next |-> FALSE, context |-> NULL, res |-> J!Refuse(new, text)]
      PROVE  got1.next = FALSE /\ R!PeerReads(got1.res.wire).complete /\ got1.res.wire[1][2].status = 401
  <2>1. got1.next = FALSE /\ got1.res = J!Refuse(new, text)
    BY ONLY <1>5
  <2>2. PICK s : s = got1.res
    OBVIOUS
  <2>2a. Refused(text, s)
    BY <1>1, <2>1, <2>2 DEF Refused
  <2>3. R!PeerReads(s.wire).complete /\ s.wire[1][2].status = 401
    BY ONLY <2>2a, RefusalIsRead
  <2>. QED  BY ONLY <2>1, <2>2, <2>3
<1>6. /\ "missing" \in Refusals /\ "signature" \in Refusals /\ "payload" \in Refusals
  BY DEF Refusals
<1>7. m.sent.genuine => given # NULL /\ v.ok /\ v.payload = payload
  <2>1. ASSUME m.sent.genuine PROVE v.ok /\ v.payload = payload
    <3>1. given = J!Sign(payload, secret) /\ payload \in Seq(Octet)
      BY ONLY <1>2, <2>1
    <3>2. J!Verify(given, secret) = [ok |-> TRUE, payload |-> payload]
      BY ONLY <3>1, SignedVerifies
    <3>. QED  BY ONLY <1>3, <3>2
  <2>. QED  BY ONLY <1>2, <2>1
<1>8. ASSUME given # NULL, v.ok, v.payload = payload PROVE m.sent.genuine
  <2>1. Len(given) = 3 /\ given[3] = J!Hmac(secret, SubSeq(given, 1, 2))
    BY ONLY <1>3, <1>8, VerifiedIsSigned
  <2>2. PICK p \in signed : given = J!Sign(p, secret)
    BY ONLY <1>2, <1>8, <2>1
  <2>3. p \in Seq(Octet)
    BY ONLY <1>2, p \in signed
  <2>4. J!Verify(given, secret) = [ok |-> TRUE, payload |-> p]
    BY ONLY <2>2, <2>3, SignedVerifies
  <2>5. p = payload
    BY ONLY <1>3, <1>8, <2>4
  <2>. QED  BY ONLY <1>2, <2>2, <2>5
<1>9. CASE given = NULL
  <2>1. got1 = [next |-> FALSE, context |-> NULL, res |-> J!Refuse(new, "missing")]
    BY ONLY <1>4, <1>9
  <2>2. got1.next = FALSE /\ R!PeerReads(got1.res.wire).complete /\ got1.res.wire[1][2].status = 401
    BY ONLY <1>5, <1>6, <2>1
  <2>. QED  BY ONLY <1>2, <1>9, <2>2 DEF Judged
<1>10. CASE given # NULL /\ ~v.ok
  <2>1. got1 = [next |-> FALSE, context |-> NULL, res |-> J!Refuse(new, "signature")]
    BY ONLY <1>4, <1>10
  <2>2. got1.next = FALSE /\ R!PeerReads(got1.res.wire).complete /\ got1.res.wire[1][2].status = 401
    BY ONLY <1>5, <1>6, <2>1
  <2>. QED  BY ONLY <1>7, <1>10, <2>2 DEF Judged
<1>11. CASE given # NULL /\ v.ok /\ v.payload # payload
  <2>1. got1 = [next |-> FALSE, context |-> NULL, res |-> J!Refuse(new, "payload")]
    BY ONLY <1>4, <1>11
  <2>2. got1.next = FALSE /\ R!PeerReads(got1.res.wire).complete /\ got1.res.wire[1][2].status = 401
    BY ONLY <1>5, <1>6, <2>1
  <2>. QED  BY ONLY <1>7, <1>11, <2>2 DEF Judged
<1>12. CASE given # NULL /\ v.ok /\ v.payload = payload
  <2>1. got1 = [next |-> TRUE, context |-> v.payload, res |-> new]
    BY ONLY <1>4, <1>12
  <2>2. got1.next = TRUE /\ got1.context = payload /\ got1.res = new
    BY ONLY <1>12, <2>1
  <2>3. new.wire = <<>>
    BY <1>1, NewResponseIs
  <2>. QED  BY ONLY <1>1, <1>8, <1>12, <2>2, <2>3 DEF Judged
<1>. QED  BY ONLY <1>9, <1>10, <1>11, <1>12

(* The handler behind the middleware runs exactly for the token that was     *)
(* signed with its secret over the payload the application accepts, if       *)
(* nobody forges a signature; whoever is refused reads a whole answer that   *)
(* says 401.                                                                 *)
THEOREM OnlyItsTokenOpens == Spec => []TokenOpensTheGate
<1>1. MessageInv => TokenOpensTheGate
  <2> SUFFICES ASSUME MessageInv, kind = "token", NEW i \in DOMAIN got
               PROVE  /\ got[i].next <=> sent.genuine
                      /\ got[i].next => got[i].context = sent.payload /\ got[i].res.wire = <<>>
                      /\ ~got[i].next => R!PeerReads(got[i].res.wire).complete /\ got[i].res.wire[1][2].status = 401
    BY DEF TokenOpensTheGate
  <2>1. PICK j \in DOMAIN Messages["token"] :
          sent = Messages["token"][j].sent /\ reader = Messages["token"][j].reader
    BY DEF MessageInv, OfMessage
  <2>2. PICK m, got1 : m = Messages["token"][j] /\ got1 = got[i]
    OBVIOUS
  <2>3. Token(m)
    BY <2>1, <2>2, MessagesAssumption DEF MessageInv
  <2>4. got1 = J!JwtMiddleware(m.reader, m.sent.secret, {m.sent.payload}, R!NewResponse)
    BY <2>1, <2>2 DEF MessageInv, Told
  <2>5. Judged(m, got1)
    BY ONLY <2>3, <2>4, TokenJudged
  <2>. QED  BY ONLY <2>1, <2>2, <2>5 DEF Judged
<1>. QED  BY <1>1, MessageInvariant, PTL
=============================================================================
