----------------------- MODULE WebsocketConnectionProofs -----------------------
(***************************************************************************)
(* Proofs about an upgraded connection, for every client script, buffer    *)
(* size, idle limit and set of lengths the application writes.             *)
(***************************************************************************)
EXTENDS WebsocketConnection, SequenceTheorems, TLAPS

Bytes == Seq(0..255)

-----------------------------------------------------------------------------
(* The bytes of a frame.                                                   *)

LEMMA MaskIsBytes ==
    ASSUME NEW mask \in [1..4 -> {0, 1}]
    PROVE  mask \in Bytes /\ Len(mask) = 4
<1>1. mask \in Seq({0, 1})
  BY 4 \in Nat, SeqDef, Zenon
<1>2. Len(mask) = 4
  BY <1>1
<1>3. QED
  BY <1>1, <1>2 DEF Bytes

LEMMA XorIsBit ==
    ASSUME NEW a \in 0..255, NEW b \in 0..255
    PROVE  Xor(a, b) \in 0..1
BY DEF Xor

LEMMA MaskedIsBytes ==
    ASSUME NEW data \in Bytes, NEW mask \in Bytes, Len(mask) = 4
    PROVE  Masked(data, mask) \in Bytes /\ Len(Masked(data, mask)) = Len(data)
<1>1. ASSUME NEW i \in 1..Len(data)
      PROVE  Xor(data[i], mask[((i - 1) % 4) + 1]) \in 0..255
  <2>1. ((i - 1) % 4) + 1 \in 1..4
    OBVIOUS
  <2>2. data[i] \in 0..255 /\ mask[((i - 1) % 4) + 1] \in 0..255
    BY <2>1, ElementOfSeq DEF Bytes
  <2>3. Xor(data[i], mask[((i - 1) % 4) + 1]) \in 0..1
    BY <2>2, XorIsBit
  <2>4. QED
    BY <2>3
<1>2. Len(data) \in Nat
  BY DEF Bytes
<1>3. QED
  BY <1>1, <1>2 DEF Masked, Bytes

LEMMA Powers == 2^24 \in Nat /\ 2^16 \in Nat /\ TooLong \in Nat
BY DEF TooLong

LEMMA ByteRange ==
    ASSUME NEW buf \in Bytes, NEW i \in 1..Len(buf)
    PROVE  buf[i] \in 0..255
BY ElementOfSeq DEF Bytes

(* What Read finds where it looks.                                         *)
LEMMA SevenBits ==
    /\ \A x \in 0..255 : x % 128 \in 0..127
    /\ \A x \in 0..127 : x \in Nat
OBVIOUS

LEMMA TwoBytes ==
    ASSUME NEW x \in 0..255, NEW y \in 0..255
    PROVE  x * 256 + y \in Nat
OBVIOUS

LEMMA FourBytes ==
    ASSUME NEW x \in 0..255, NEW y \in 0..255, NEW z \in 0..255, NEW w \in 0..255
    PROVE  x * 2^24 + y * 2^16 + z * 256 + w \in Nat
<1>1. PICK a \in Nat, b \in Nat : a = 2^24 /\ b = 2^16
  BY Powers
<1>2. PICK q \in Nat, r \in Nat : q = x * a /\ r = y * b
  OBVIOUS
<1>3. q + r + z * 256 + w \in Nat
  OBVIOUS
<1>4. QED
  BY <1>1, <1>2, <1>3, Zenon

LEMMA PrefixRange ==
    ASSUME NEW buf \in Bytes, Len(buf) >= 2
    PROVE  Prefix(buf) \in 0..127
<1>1. 2 \in 1..Len(buf)
  BY DEF Bytes
<1>2. buf[2] \in 0..255
  BY <1>1, ByteRange
<1>3. QED
  BY <1>2, SevenBits, Zenon DEF Prefix

(* Where the length ends.                                                  *)
Extent(buf, e) ==
    /\ Prefix(buf) = 126 => e = 4
    /\ Prefix(buf) = 127 => e = 10
    /\ e \in {2, 4, 10}

LEMMA LengthRange ==
    ASSUME NEW buf \in Bytes, Len(buf) >= 2, Len(buf) >= LengthEnd(buf)
    PROVE  PayloadLength(buf) \in Nat
<1>1. Extent(buf, LengthEnd(buf))
  BY DEF Extent, LengthEnd
<1>2. Prefix(buf) \in 0..127
  BY PrefixRange
<1>3. CASE Prefix(buf) = 126
  <2>1. 3 \in 1..Len(buf) /\ 4 \in 1..Len(buf)
    BY <1>1, <1>3 DEF Extent, Bytes
  <2>2. buf[3] \in 0..255 /\ buf[4] \in 0..255
    BY <2>1, ByteRange, Zenon
  <2>3. PayloadLength(buf) = buf[3] * 256 + buf[4]
    BY <1>3 DEF PayloadLength
  <2>4. QED
    BY <2>2, <2>3, TwoBytes
<1>4. CASE Prefix(buf) = 127
  <2>1. 3 \in 1..Len(buf) /\ 4 \in 1..Len(buf) /\ 5 \in 1..Len(buf) /\ 6 \in 1..Len(buf)
    BY <1>1, <1>4 DEF Extent, Bytes
  <2>2. buf[3] \in 0..255 /\ buf[4] \in 0..255 /\ buf[5] \in 0..255 /\ buf[6] \in 0..255
    BY <2>1, ByteRange, Zenon
  <2>3. buf[3] * 2^24 + buf[4] * 2^16 + buf[5] * 256 + buf[6] \in Nat
    BY <2>2, FourBytes
  <2>4. \/ PayloadLength(buf) = buf[3] * 2^24 + buf[4] * 2^16 + buf[5] * 256 + buf[6]
        \/ PayloadLength(buf) = TooLong
    <3>1. Prefix(buf) # 126
      BY <1>4
    <3>2. QED
      BY <1>4, <3>1, Zenon DEF PayloadLength
  <2>5. QED
    BY <2>3, <2>4, Powers, Zenon
<1>5. CASE Prefix(buf) \notin {126, 127}
  <2>1. PayloadLength(buf) = Prefix(buf)
    BY <1>5 DEF PayloadLength
  <2>2. QED
    BY <1>2, <2>1, SevenBits, Zenon
<1>6. QED
  BY <1>3, <1>4, <1>5

LEMMA Part ==
    ASSUME NEW buf \in Bytes, NEW o \in Nat, NEW n \in Nat, Len(buf) >= o + n
    PROVE  SubSeq(buf, o + 1, o + n) \in Bytes /\ Len(SubSeq(buf, o + 1, o + n)) = n
<1>1. ASSUME NEW i \in (o + 1)..(o + n)
      PROVE  buf[i] \in 0..255
  <2>1. i \in 1..Len(buf)
    BY DEF Bytes
  <2>2. QED
    BY <2>1, ByteRange
<1>2. PICK a \in Int, b \in Int : a = o + 1 /\ b = o + n
  OBVIOUS
<1>3. /\ SubSeq(buf, a, b) \in Seq(0..255)
      /\ Len(SubSeq(buf, a, b)) = IF a <= b THEN b - a + 1 ELSE 0
  BY <1>1, <1>2, SubSeqProperties
<1>4. QED
  BY <1>2, <1>3 DEF Bytes

LEMMA Decoded ==
    ASSUME NEW buf \in Bytes, HoldsFrame(buf)
    PROVE  PayloadLength(buf) \in Nat /\ Payload(buf) \in Bytes
<1> DEFINE n == PayloadLength(buf)
           e == LengthEnd(buf)
           o == Offset(buf)
           data == SubSeq(buf, o + 1, o + n)
           mask == SubSeq(buf, e + 1, e + 4)
<1>1. n \in Nat
  BY LengthRange DEF HoldsFrame
<1>2. e \in Nat /\ o \in Nat /\ (HasMask(buf) => o = e + 4)
  BY DEF Offset, LengthEnd
<1>3. Len(buf) \in Nat /\ Len(buf) >= o + n
  BY DEF Bytes, HoldsFrame
<1> HIDE DEF n, e, o
<1>4. data \in Bytes
  BY <1>1, <1>2, <1>3, Part
<1>5. HasMask(buf) => mask \in Bytes /\ Len(mask) = 4
  <2>1. HasMask(buf) => Len(buf) >= e + 4
    BY <1>1, <1>2, <1>3
  <2>2. QED
    BY <1>2, <2>1, Part
<1> HIDE DEF data, mask
<1>6. Payload(buf) = IF HasMask(buf) THEN Masked(data, mask) ELSE data
  BY DEF Payload, data, mask, n, e, o
<1>7. QED
  BY <1>1, <1>4, <1>5, <1>6, MaskedIsBytes DEF n

Join(a, b, c) ==
    /\ c \in Bytes
    /\ Len(c) = Len(a) + Len(b)
    /\ Len(a) \in Nat /\ Len(b) \in Nat
    /\ \A i \in 1..Len(a) : c[i] = a[i]
    /\ \A i \in 1..Len(b) : c[Len(a) + i] = b[i]

LEMMA Joins ==
    ASSUME NEW a \in Bytes, NEW b \in Bytes
    PROVE  Join(a, b, a \o b)
BY ConcatProperties, LenProperties DEF Bytes, Join

(* The bytes before the mask announce n bytes of payload.                  *)
Header(x, m, n) ==
    <<x>> \o (IF n < 126 THEN <<m + n>> ELSE <<m + 126, n \div 256, n % 256>>)

Announces(h, m, n) ==
    /\ Len(h) = IF n < 126 THEN 2 ELSE 4
    /\ h[2] = m + (IF n < 126 THEN n ELSE 126)
    /\ n >= 126 => h[3] * 256 + h[4] = n

StartsWith(h, x) == h[1] = x

IsSingle(b, x) == b \in Bytes /\ Len(b) = 1 /\ b[1] = x
IsTriple(b, x, y, z) == b \in Bytes /\ Len(b) = 3 /\ b[1] = x /\ b[2] = y /\ b[3] = z

LEMMA OneByte ==
    ASSUME NEW x \in 0..255
    PROVE  IsSingle(<<x>>, x)
BY DEF Bytes, IsSingle

LEMMA ThreeBytes ==
    ASSUME NEW x \in 0..255, NEW y \in 0..255, NEW z \in 0..255
    PROVE  IsTriple(<<x, y, z>>, x, y, z)
BY DEF Bytes, IsTriple

LEMMA TwoByteLength ==
    ASSUME NEW n \in Nat, n <= Max16
    PROVE  n \div 256 \in 0..255 /\ n % 256 \in 0..255 /\ (n \div 256) * 256 + (n % 256) = n
BY SMT DEF Max16

LEMMA HeaderAnnounces ==
    ASSUME NEW x \in 0..255, NEW m \in {0, 128}, NEW n \in Nat, n <= Max16
    PROVE  /\ Header(x, m, n) \in Bytes /\ Announces(Header(x, m, n), m, n)
           /\ StartsWith(Header(x, m, n), x)
<1> DEFINE a == <<x>>
<1>1. a \in Bytes /\ Len(a) = 1 /\ a[1] = x
  BY OneByte DEF IsSingle
<1>2. CASE n < 126
  <2> DEFINE y == m + n
             b == <<y>>
             h == a \o b
  <2>1. y \in 0..255
    BY <1>2
  <2> HIDE DEF a, y
  <2>2. IsSingle(b, y)
    BY <2>1, OneByte
  <2> HIDE DEF b
  <2>3. Join(a, b, h)
    BY <1>1, <2>2, Joins DEF IsSingle
  <2>4. Header(x, m, n) = h
    BY <1>2 DEF Header, a, b, y
  <2> HIDE DEF h
  <2>5. h \in Bytes /\ Len(h) = 2 /\ h[1] = x /\ h[1 + 1] = b[1]
    BY <1>1, <2>2, <2>3 DEF Join, IsSingle
  <2>6. h[2] = m + n
    BY <2>2, <2>5 DEF IsSingle, y
  <2>7. Announces(h, m, n)
    BY <1>2, <2>5, <2>6 DEF Announces
  <2>8. QED
    BY <2>4, <2>5, <2>7 DEF StartsWith
<1>3. CASE ~(n < 126)
  <2> DEFINE y == m + 126
             z == n \div 256
             w == n % 256
             b == <<y, z, w>>
             h == a \o b
  <2>1. y \in 0..255 /\ z \in 0..255 /\ w \in 0..255 /\ z * 256 + w = n
    BY TwoByteLength
  <2> HIDE DEF a, y, z, w
  <2>2. IsTriple(b, y, z, w)
    BY <2>1, ThreeBytes
  <2> HIDE DEF b
  <2>3. Join(a, b, h)
    BY <1>1, <2>2, Joins DEF IsTriple
  <2>4. Header(x, m, n) = h
    BY <1>3 DEF Header, a, b, y, z, w
  <2> HIDE DEF h
  <2>5. /\ h \in Bytes /\ Len(h) = 4 /\ h[1] = x
        /\ h[1 + 1] = b[1] /\ h[1 + 2] = b[2] /\ h[1 + 3] = b[3]
    BY <1>1, <2>2, <2>3 DEF Join, IsTriple
  <2>6. h[2] = m + 126 /\ h[3] = z /\ h[4] = w
    BY <2>2, <2>5 DEF IsTriple, y
  <2>7. Announces(h, m, n)
    BY <1>3, <2>1, <2>5, <2>6 DEF Announces
  <2>8. QED
    BY <2>4, <2>5, <2>7 DEF StartsWith
<1>4. QED
  BY <1>2, <1>3

(* Whatever follows the header, Read finds the length it announces.        *)
LEMMA AnnouncedIsRead ==
    ASSUME NEW E \in Bytes, NEW h \in Bytes, NEW m \in {0, 128}, NEW n \in Nat, n <= Max16,
           Announces(h, m, n), Len(h) <= Len(E), \A i \in 1..Len(h) : E[i] = h[i],
           Len(E) = Len(h) + (IF m = 0 THEN 0 ELSE 4) + n
    PROVE  /\ HoldsFrame(E) /\ PayloadLength(E) = n /\ (HasMask(E) <=> m = 128)
           /\ LengthEnd(E) = Len(h) /\ Len(h) \in {2, 4}
<1>1. PICK e \in {2, 4} : e = (IF n < 126 THEN 2 ELSE 4) /\ Len(h) = e
  BY DEF Announces
<1>2. 2 \in 1..Len(h) /\ (~(n < 126) => 3 \in 1..Len(h) /\ 4 \in 1..Len(h))
  BY <1>1
<1>3. E[2] = m + (IF n < 126 THEN n ELSE 126)
  BY <1>2 DEF Announces
<1>4. ~(n < 126) => E[3] * 256 + E[4] = n
  <2>1. ~(n < 126) => n >= 126
    OBVIOUS
  <2>2. QED
    BY <1>2, <2>1 DEF Announces
<1>5. Prefix(E) = IF n < 126 THEN n ELSE 126
  <2>1. (m + (IF n < 126 THEN n ELSE 126)) % 128 = IF n < 126 THEN n ELSE 126
    OBVIOUS
  <2>2. QED
    BY <1>3, <2>1 DEF Prefix
<1>6. HasMask(E) <=> m = 128
  <2>1. (m + (IF n < 126 THEN n ELSE 126)) >= 128 <=> m = 128
    OBVIOUS
  <2>2. QED
    BY <1>3, <2>1 DEF HasMask
<1>7. LengthEnd(E) = e
  BY <1>1, <1>5 DEF LengthEnd
<1>8. PayloadLength(E) = n
  <2>1. CASE n < 126
    <3>1. Prefix(E) # 126 /\ Prefix(E) # 127 /\ Prefix(E) = n
      BY <1>5, <2>1
    <3>2. QED
      BY <3>1, Zenon DEF PayloadLength
  <2>2. CASE ~(n < 126)
    <3>1. Prefix(E) = 126
      BY <1>5, <2>2
    <3>2. QED
      BY <1>4, <2>2, <3>1 DEF PayloadLength
  <2>3. QED
    BY <2>1, <2>2
<1>9. Offset(E) = e + (IF m = 0 THEN 0 ELSE 4)
  BY <1>6, <1>7 DEF Offset
<1>10. Len(E) = e + (IF m = 0 THEN 0 ELSE 4) + n
  BY <1>1
<1>11. HoldsFrame(E)
  BY <1>7, <1>8, <1>9, <1>10 DEF HoldsFrame
<1>12. QED
  BY <1>1, <1>6, <1>7, <1>8, <1>11

(* Where the bytes of a frame are.                                         *)
Body(f) == IF f.mask = <<>> THEN f.payload ELSE Masked(f.payload, f.mask)

Layout(f, E) ==
    /\ E[1] = f.fin * 128 + f.op
    /\ PayloadLength(E) = Len(f.payload)
    /\ HasMask(E) <=> f.mask # <<>>
    /\ LengthEnd(E) \in {2, 4}
    /\ \A i \in 1..Len(f.mask) : E[LengthEnd(E) + i] = f.mask[i]
    /\ \A i \in 1..Len(f.payload) : E[LengthEnd(E) + Len(f.mask) + i] = Body(f)[i]

(* A frame holds all that Read looks at.                                   *)
LEMMA EncodeBytes ==
    ASSUME NEW f \in Frames, Len(f.payload) <= Max16
    PROVE  Encode(f) \in Bytes /\ HoldsFrame(Encode(f)) /\ Layout(f, Encode(f))
<1> DEFINE payload == f.payload
           n == Len(payload)
           x == f.fin * 128 + f.op
           mask == f.mask
           m == IF mask = <<>> THEN 0 ELSE 128
           body == IF mask = <<>> THEN payload ELSE Masked(payload, mask)
           h == Header(x, m, n)
           hm == h \o mask
           E == hm \o body
<1>1. Encode(f) = E
  BY DEF Encode, Header
<1>2. f.fin \in {0, 1} /\ f.op \in {0, 1, 2, 8, 9, 10} /\ f.payload \in Seq({0, 1})
      /\ f.mask \in {<<>>} \cup [1..4 -> {0, 1}]
  BY DEF Frames, kTypeContinuation, kTypeText, kTypeBinary, kTypeClose, kTypePing, kTypePong
<1>3. payload \in Bytes /\ n \in Nat /\ n <= Max16
  BY <1>2 DEF Bytes
<1>4. x \in 0..255
  <2>1. \A fin \in {0, 1}, op \in {0, 1, 2, 8, 9, 10} : fin * 128 + op \in 0..255
    OBVIOUS
  <2>2. PICK fin \in {0, 1} : fin = f.fin
    BY <1>2
  <2>3. PICK op \in {0, 1, 2, 8, 9, 10} : op = f.op
    BY <1>2
  <2>4. x = fin * 128 + op
    BY <2>2, <2>3
  <2> HIDE DEF x
  <2>5. QED
    BY <2>1, <2>4
<1>5. mask \in Bytes /\ (mask = <<>> \/ Len(mask) = 4)
  <2>1. CASE mask = <<>>
    BY <2>1 DEF Bytes
  <2>2. CASE mask # <<>>
    <3>1. f.mask \in [1..4 -> {0, 1}]
      BY <1>2, <2>2
    <3>2. QED
      BY <3>1, MaskIsBytes
  <2>3. QED
    BY <2>1, <2>2
<1> HIDE DEF payload, n, x, mask
<1>6. m \in {0, 128} /\ Len(mask) = (IF m = 0 THEN 0 ELSE 4)
  BY <1>5
<1>7. body \in Bytes /\ Len(body) = n
  <2>1. CASE mask = <<>>
    BY <1>3, <2>1 DEF n
  <2>2. CASE mask # <<>>
    <3>1. Masked(payload, mask) \in Bytes /\ Len(Masked(payload, mask)) = Len(payload)
      BY <1>3, <1>5, <2>2, MaskedIsBytes
    <3>2. QED
      BY <2>2, <3>1 DEF n
  <2>3. QED
    BY <2>1, <2>2
<1> HIDE DEF m, body
<1>8. h \in Bytes /\ Announces(h, m, n) /\ StartsWith(h, x)
  <2>1. ASSUME NEW xx \in 0..255, NEW mm \in {0, 128}, NEW nn \in Nat, nn <= Max16,
               xx = x, mm = m, nn = n
        PROVE  h \in Bytes /\ Announces(h, m, n) /\ StartsWith(h, x)
    <3>1. /\ Header(xx, mm, nn) \in Bytes /\ Announces(Header(xx, mm, nn), mm, nn)
          /\ StartsWith(Header(xx, mm, nn), xx)
      BY HeaderAnnounces, <2>1
    <3>2. QED
      BY <2>1, <3>1
  <2>2. QED
    BY <1>3, <1>4, <1>6, <2>1
<1> HIDE DEF h
<1>9. Join(h, mask, hm)
  BY <1>5, <1>8, Joins
<1> HIDE DEF hm
<1>10. Join(hm, body, E)
  BY <1>7, <1>9, Joins DEF Join
<1> HIDE DEF E
<1>11. /\ Len(h) \in Nat /\ Len(hm) \in Nat /\ Len(h) <= Len(hm) /\ Len(h) <= Len(E)
       /\ Len(E) = Len(h) + (IF m = 0 THEN 0 ELSE 4) + n
  BY <1>3, <1>6, <1>7, <1>9, <1>10 DEF Join
<1>12. \A i \in 1..Len(h) : E[i] = h[i]
  <2>1. \A i \in 1..Len(h) : i \in 1..Len(hm)
    BY <1>11
  <2>2. QED
    BY <1>9, <1>10, <2>1 DEF Join
<1>13. E \in Bytes
  BY <1>10 DEF Join
<1>14. /\ HoldsFrame(E) /\ PayloadLength(E) = n /\ (HasMask(E) <=> m = 128)
       /\ LengthEnd(E) = Len(h) /\ Len(h) \in {2, 4}
  BY <1>3, <1>6, <1>8, <1>11, <1>12, <1>13, AnnouncedIsRead
<1>15. Len(hm) = Len(h) + Len(mask) /\ \A i \in 1..Len(mask) : E[Len(h) + i] = mask[i]
  <2>1. Len(hm) = Len(h) + Len(mask) /\ Len(mask) \in Nat
    BY <1>9 DEF Join
  <2>2. \A i \in 1..Len(mask) : Len(h) + i \in 1..Len(hm)
    BY <1>11, <2>1
  <2>3. QED
    BY <1>9, <1>10, <2>1, <2>2 DEF Join
<1>16. \A i \in 1..n : E[Len(h) + Len(mask) + i] = body[i]
  BY <1>7, <1>10, <1>15 DEF Join
<1>17. E[1] = x
  <2>1. 1 \in 1..Len(h)
    BY <1>14
  <2>2. QED
    BY <1>8, <1>12, <2>1 DEF StartsWith
<1>18. m = 128 <=> mask # <<>>
  BY DEF m
<1>19. Layout(f, E)
  BY <1>14, <1>15, <1>16, <1>17, <1>18 DEF Layout, Body, x, n, payload, mask, body
<1>20. QED
  BY <1>1, <1>13, <1>14, <1>19

-----------------------------------------------------------------------------
(* The header Write puts out.                                              *)
HeaderOf(hd, n) ==
    /\ hd \in Bytes
    /\ n < 126 => Len(hd) = 2 /\ hd[2] = n
    /\ ~(n < 126) /\ n < Max16 => Len(hd) = 4 /\ hd[2] = 126 /\ hd[3] * 256 + hd[4] = n
    /\ ~(n < Max16) => Len(hd) = 6 /\ hd[2] = 127

LEMMA Max16Value == Max16 \in Nat /\ 126 < Max16
BY SMT DEF Max16

OwnTypes == {kTypeBinary, kTypePing, kTypePong}

LEMMA HeaderBytes ==
    ASSUME NEW n \in Nat, NEW type \in OwnTypes
    PROVE  HeaderOf(MakeWebsocketHeader(n, type), n)
<1> DEFINE x == 128 + type
<1>1. x \in 0..255
  BY DEF OwnTypes, kTypeBinary, kTypePing, kTypePong
<1> HIDE DEF x
<1>2. CASE n < 126
  <2>1. MakeWebsocketHeader(n, type) = <<x, n>>
    BY <1>2 DEF MakeWebsocketHeader, x
  <2>2. <<x, n>> \in Bytes /\ Len(<<x, n>>) = 2 /\ <<x, n>>[2] = n
    BY <1>1, <1>2 DEF Bytes
  <2>3. n < Max16
    BY <1>2, Max16Value
  <2>4. QED
    BY <1>2, <2>1, <2>2, <2>3 DEF HeaderOf
<1>3. CASE ~(n < 126) /\ n < Max16
  <2> DEFINE z == n \div 256
             w == n % 256
             b == <<x, 126, z, w>>
  <2>1. n <= Max16
    BY <1>3, Max16Value
  <2>2. z \in 0..255 /\ w \in 0..255 /\ z * 256 + w = n
    BY <2>1, TwoByteLength
  <2>3. MakeWebsocketHeader(n, type) = b
    BY <1>3 DEF MakeWebsocketHeader, x
  <2> HIDE DEF z, w
  <2>4. b \in Bytes /\ Len(b) = 4 /\ b[2] = 126 /\ b[3] = z /\ b[4] = w
    BY <1>1, <2>2 DEF Bytes
  <2> HIDE DEF b
  <2>5. QED
    BY <1>3, <2>2, <2>3, <2>4 DEF HeaderOf
<1>4. CASE ~(n < Max16)
  <2> DEFINE b == <<x, 127, 0, 0, 0, 0>>
  <2>1. ~(n < 126)
    BY <1>4, Max16Value
  <2>2. MakeWebsocketHeader(n, type) = b
    BY <1>4, <2>1 DEF MakeWebsocketHeader, x
  <2>3. b \in Bytes /\ Len(b) = 6 /\ b[2] = 127
    BY <1>1 DEF Bytes
  <2> HIDE DEF b
  <2>4. QED
    BY <1>4, <2>1, <2>2, <2>3 DEF HeaderOf
<1>5. QED
  BY <1>2, <1>3, <1>4

LEMMA FrontPart ==
    ASSUME NEW hd \in Bytes, NEW h \in 0..Len(hd)
    PROVE  /\ SubSeq(hd, 1, h) \in Bytes /\ Len(SubSeq(hd, 1, h)) = h
           /\ h = Len(hd) => SubSeq(hd, 1, h) = hd
<1>1. Len(hd) \in Nat /\ h \in Nat
  BY DEF Bytes
<1>2. SubSeq(hd, 1, h) \in Bytes /\ Len(SubSeq(hd, 1, h)) = h
  <2>1. ASSUME NEW i \in 1..h PROVE hd[i] \in 0..255
    <3>1. i \in 1..Len(hd)
      BY <1>1
    <3>2. QED
      BY <3>1, ByteRange
  <2>2. /\ SubSeq(hd, 1, h) \in Seq(0..255)
        /\ Len(SubSeq(hd, 1, h)) = IF 1 <= h THEN h - 1 + 1 ELSE 0
    BY <1>1, <2>1, SubSeqProperties
  <2>3. QED
    BY <1>1, <2>2 DEF Bytes
<1>3. h = Len(hd) => SubSeq(hd, 1, h) = hd
  BY SubSeqFull DEF Bytes
<1>4. QED
  BY <1>1, <1>2, <1>3

(* What a client makes of the part of the header the socket took.          *)
LEMMA PartialHeader ==
    ASSUME NEW n \in Nat, NEW hd, HeaderOf(hd, n), NEW h \in 0..Len(hd),
           NEW got, got = SubSeq(hd, 1, h)
    PROVE  /\ got \in Bytes
           /\ Len(got) = Len(hd) /\ n < Max16 =>
                AnnouncedLength(got) = n /\ LengthEnd(got) = Len(hd)
           /\ Len(got) = Len(hd) /\ ~(n < Max16) => AnnouncedLength(got) = -1
           /\ Len(got) # Len(hd) => AnnouncedLength(got) = -1
<1>1. hd \in Bytes /\ Len(hd) \in {2, 4, 6}
  BY Max16Value DEF HeaderOf
<1>2. PICK l \in {2, 4, 6} : l = Len(hd)
  BY <1>1
<1>3. h \in 0..l
  BY <1>2
<1>4. got \in Bytes /\ Len(got) = h /\ (h = l => got = hd)
  BY <1>1, <1>2, <1>3, FrontPart
<1>5. CASE h # l
  <2>1. CASE h < 2
    BY <1>2, <1>3, <1>4, <1>5, <2>1 DEF AnnouncedLength
  <2>2. CASE ~(h < 2)
    <3>1. got[2] = hd[2] /\ l \in {4, 6}
      BY <1>1, <1>2, <1>3, <1>4, <1>5, <2>2
    <3>2. CASE l = 4
      <4>1. hd[2] = 126 /\ h < 4
        BY <1>2, <1>3, <1>5, <3>2 DEF HeaderOf
      <4>2. QED
        BY <1>2, <1>3, <1>4, <1>5, <3>1, <4>1 DEF AnnouncedLength
    <3>3. CASE l = 6
      <4>1. hd[2] = 127 /\ h < 6
        BY <1>2, <1>3, <1>5, <3>3 DEF HeaderOf
      <4>2. QED
        BY <1>2, <1>3, <1>4, <1>5, <3>1, <4>1 DEF AnnouncedLength
    <3>4. QED
      BY <3>1, <3>2, <3>3
  <2>3. QED
    BY <2>1, <2>2
<1>6. CASE h = l
  <2>1. got = hd
    BY <1>4, <1>6
  <2>2. CASE n < 126
    <3>1. n < Max16 /\ Len(hd) = 2 /\ hd[2] = n
      BY <2>2, Max16Value DEF HeaderOf
    <3>2. AnnouncedLength(hd) = n
      BY <2>2, <3>1 DEF AnnouncedLength
    <3>3. LengthEnd(hd) = 2
      BY <2>2, <3>1 DEF LengthEnd, Prefix
    <3>4. QED
      BY <1>4, <2>1, <3>1, <3>2, <3>3
  <2>3. CASE ~(n < 126) /\ n < Max16
    <3>1. Len(hd) = 4 /\ hd[2] = 126 /\ hd[3] * 256 + hd[4] = n
      BY <2>3 DEF HeaderOf
    <3>2. AnnouncedLength(hd) = n
      BY <3>1 DEF AnnouncedLength
    <3>3. LengthEnd(hd) = 4
      BY <3>1 DEF LengthEnd, Prefix
    <3>4. QED
      BY <1>4, <2>1, <2>3, <3>1, <3>2, <3>3
  <2>4. CASE ~(n < Max16)
    <3>1. Len(hd) = 6 /\ hd[2] = 127
      BY <2>4 DEF HeaderOf
    <3>2. AnnouncedLength(hd) = -1
      BY <3>1 DEF AnnouncedLength
    <3>3. QED
      BY <1>4, <2>1, <2>4, <3>2
  <2>5. QED
    BY <2>2, <2>3, <2>4
<1>7. QED
  BY <1>5, <1>6

-----------------------------------------------------------------------------
(* What Write records: a header and a number of bytes, that end where a    *)
(* client expects it exactly when the frame was taken whole and is short.  *)
SentCalls == [type : OwnTypes, length : Nat, header : Bytes, payload : Nat]

Readable(w) == EndsAsAnnounced(w) <=> Intact(w)

SentInv ==
    /\ sent \in Seq(SentCalls)
    /\ \A i \in 1..Len(sent) : Readable(sent[i])

LEMMA TakenRange ==
    ASSUME NEW n \in Nat
    PROVE  Taken(n) \subseteq 0..n
<1>1. ShortWrites \subseteq Nat
  BY WebsocketAssumption
<1>2. ASSUME NEW m \in Taken(n)
      PROVE  m \in 0..n
  <2>1. m = n \/ (m \in ShortWrites /\ m < n)
    BY DEF Taken
  <2>2. m \in Nat
    BY <1>1, <2>1
  <2>3. QED
    BY <2>1, <2>2
<1>3. QED
  BY <1>2

LEMMA Written ==
    ASSUME SentInv, NEW n \in Nat, NEW type \in OwnTypes, Write(type, n)
    PROVE  SentInv' /\ idle' = 0
<1> DEFINE hd == MakeWebsocketHeader(n, type)
<1>1. HeaderOf(hd, n) /\ hd \in Bytes
  BY HeaderBytes DEF HeaderOf
<1>2. PICK h \in Taken(Len(hd)), p \in Taken(n) :
        sent' = Append(sent, [type |-> type, length |-> n, header |-> SubSeq(hd, 1, h), payload |-> p])
  BY DEF Write
<1>3. idle' = 0
  BY DEF Write
<1> HIDE DEF hd
<1> DEFINE got == SubSeq(hd, 1, h)
           w == [type |-> type, length |-> n, header |-> got, payload |-> p]
<1>4. h \in 0..Len(hd) /\ p \in 0..n
  <2>1. Len(hd) \in Nat
    BY <1>1, LenProperties DEF Bytes
  <2>2. QED
    BY <2>1, TakenRange
<1>5. /\ got \in Bytes
      /\ Len(got) = Len(hd) /\ n < Max16 =>
           AnnouncedLength(got) = n /\ LengthEnd(got) = Len(hd)
      /\ Len(got) = Len(hd) /\ ~(n < Max16) => AnnouncedLength(got) = -1
      /\ Len(got) # Len(hd) => AnnouncedLength(got) = -1
  BY <1>1, <1>4, PartialHeader
<1> HIDE DEF got
<1>6. w \in SentCalls
  BY <1>4, <1>5 DEF SentCalls
<1>7. Readable(w)
  <2>1. -1 # n
    OBVIOUS
  <2>2. w.header = got /\ w.length = n /\ w.payload = p /\ w.type = type
    OBVIOUS
  <2> HIDE DEF w
  <2>3. MakeWebsocketHeader(n, type) = hd
    BY DEF hd
  <2>4. Len(hd) \in Nat /\ Len(got) \in Nat /\ p \in Nat
    BY <1>1, <1>4, <1>5, LenProperties DEF Bytes
  <2>5. Intact(w) <=> Len(got) = Len(hd) /\ p = n /\ n < Max16
    BY <2>2, <2>3 DEF Intact
  <2>6. EndsAsAnnounced(w) <=>
          AnnouncedLength(got) # -1 /\ LengthEnd(got) + AnnouncedLength(got) = Len(got) + p
    BY <2>2 DEF EndsAsAnnounced
  <2>7. CASE Len(got) = Len(hd) /\ n < Max16
    BY <1>5, <2>1, <2>2, <2>4, <2>5, <2>6, <2>7 DEF Readable
  <2>8. CASE ~(Len(got) = Len(hd) /\ n < Max16)
    BY <1>5, <2>2, <2>5, <2>6, <2>8 DEF Readable
  <2>9. QED
    BY <2>7, <2>8
<1> HIDE DEF w
<1>8. sent' = Append(sent, w)
  BY <1>2 DEF w, got
<1>9. sent \in Seq(SentCalls) /\ Len(sent) \in Nat
  BY LenProperties DEF SentInv
<1>10. /\ sent' \in Seq(SentCalls) /\ Len(sent') = Len(sent) + 1 /\ sent'[Len(sent) + 1] = w
       /\ \A i \in 1..Len(sent) : sent'[i] = sent[i]
  BY <1>6, <1>8, <1>9, AppendProperties
<1>11. ASSUME NEW i \in 1..Len(sent')
       PROVE  Readable(sent'[i])
  <2>1. CASE i = Len(sent) + 1
    BY <1>7, <1>10, <2>1
  <2>2. CASE i # Len(sent) + 1
    <3>1. i \in 1..Len(sent)
      BY <1>9, <1>10, <2>2
    <3>2. QED
      BY <1>10, <3>1 DEF SentInv
  <2>3. QED
    BY <2>1, <2>2
<1>12. QED
  BY <1>3, <1>10, <1>11 DEF SentInv

-----------------------------------------------------------------------------
(* Read and the timer.                                                     *)
WsInv ==
    /\ script \in Scripts
    /\ unsent \in Seq(Bytes)
    /\ sock \in Bytes
    /\ eof \in BOOLEAN /\ open \in BOOLEAN /\ aborted \in BOOLEAN /\ whole \in BOOLEAN
    /\ lastPayload \in Bytes
    /\ idle \in 0..(IdleLimit + 1)
    /\ ret \in {-1, 0, 1}
    /\ SentInv

LEMMA Idle == 0 \in 0..(IdleLimit + 1)
BY WebsocketAssumption

Answered ==
    /\ open' \in BOOLEAN
    /\ lastPayload' \in Bytes
    /\ idle' \in 0..(IdleLimit + 1)
    /\ ret' \in {-1, 0, 1}
    /\ SentInv'

LEMMA Returned ==
    ASSUME NEW r \in {-1, 0, 1}, Return(r)
    PROVE  open' \in BOOLEAN /\ ret' \in {-1, 0, 1}
BY DEF Return

LEMMA Appended ==
    ASSUME NEW a \in Bytes, NEW b \in Bytes
    PROVE  a \o b \in Bytes
BY Joins DEF Join

LEMMA SentKept ==
    ASSUME SentInv, UNCHANGED sent
    PROVE  SentInv'
BY DEF SentInv

LEMMA Handled ==
    ASSUME WsInv, NEW buf \in Bytes, HoldsFrame(buf), Handle(buf)
    PROVE  Answered
<1>1. PayloadLength(buf) \in Nat /\ lastPayload \o Payload(buf) \in Bytes
  BY Decoded, Appended DEF WsInv
<1>2. <<>> \in Bytes
  BY DEF Bytes
<1>3. SentInv
  BY DEF WsInv
<1>4. CASE Close(buf)
  <2>1. Return(-1)
    BY <1>4 DEF Close
  <2>2. QED
    BY <1>1, <1>3, <1>4, <2>1, Returned, Idle, SentKept DEF Close, Answered
<1>5. CASE Ping(buf)
  <2>1. Return(0) /\ Write(kTypePong, PayloadLength(buf)) /\ lastPayload' = <<>>
    BY <1>5 DEF Ping
  <2>2. kTypePong \in OwnTypes
    BY DEF OwnTypes
  <2>3. SentInv' /\ idle' = 0
    BY <1>1, <1>3, <2>1, <2>2, Written
  <2>4. QED
    BY <1>2, <2>1, <2>3, Returned, Idle DEF Answered
<1>6. CASE Pong(buf)
  <2>1. Return(0)
    BY <1>6 DEF Pong
  <2>2. QED
    BY <1>2, <1>3, <1>6, <2>1, Returned, Idle, SentKept DEF Pong, Answered
<1>7. ASSUME NEW handler \in {-1, 0}, LastFragment(buf, handler)
      PROVE  Answered
  <2>1. Return(handler)
    BY <1>7 DEF LastFragment
  <2>2. QED
    BY <1>2, <1>3, <1>7, <2>1, Returned, Idle, SentKept DEF LastFragment, Answered
<1>8. CASE Fragment(buf)
  <2>1. Return(1)
    BY <1>8 DEF Fragment
  <2>2. QED
    BY <1>1, <1>3, <1>8, <2>1, Returned, Idle, SentKept DEF Fragment, Answered
<1>9. QED
  BY <1>4, <1>5, <1>6, <1>7, <1>8 DEF Handle

LEMMA Dropped ==
    ASSUME NEW s \in Bytes, NEW n \in Nat
    PROVE  Drop(s, n) \in Bytes
<1>1. Len(s) \in Nat
  BY DEF Bytes
<1>2. ASSUME NEW i \in (n + 1)..Len(s) PROVE s[i] \in 0..255
  <2>1. i \in 1..Len(s)
    BY <1>1
  <2>2. QED
    BY <2>1, ByteRange
<1>3. SubSeq(s, n + 1, Len(s)) \in Seq(0..255)
  <2>1. n + 1 \in Int /\ Len(s) \in Int
    BY <1>1
  <2>2. QED
    BY <1>2, <2>1, SubSeqProperties
<1>4. QED
  BY <1>3 DEF Drop, Bytes

LEMMA GotBytes ==
    ASSUME sock \in Bytes
    PROVE  /\ Got \in Bytes /\ Len(Got) \in Nat
           /\ Len(sock) <= BufferSize => Got = sock
<1>1. Len(sock) \in Nat /\ BufferSize \in Nat
  BY WebsocketAssumption DEF Bytes
<1>2. Least(BufferSize, Len(sock)) \in 0..Len(sock)
  BY <1>1 DEF Least
<1>3. Len(sock) <= BufferSize => Least(BufferSize, Len(sock)) = Len(sock)
  BY <1>1 DEF Least
<1>4. QED
  BY <1>1, <1>2, <1>3, FrontPart DEF Got

LEMMA PaddedBytes ==
    ASSUME NEW buf \in Bytes, NEW b \in {0, 1}
    PROVE  Padded(buf, b) \in Bytes
<1>1. BufferSize \in Nat
  BY WebsocketAssumption
<1>2. [i \in 1..BufferSize |-> b] \in Bytes
  BY <1>1 DEF Bytes
<1>3. QED
  BY <1>2, Appended DEF Padded

LEMMA InitWs == Init => WsInv
<1> SUFFICES ASSUME Init PROVE WsInv
  OBVIOUS
<1>1. script \in Scripts /\ script.frames \in Seq(Frames)
  BY WebsocketAssumption DEF Init
<1>2. Len(script.frames) \in Nat /\ DOMAIN script.frames = 1..Len(script.frames)
  BY <1>1, LenProperties
<1>3. ASSUME NEW i \in 1..Len(script.frames)
      PROVE  Encode(script.frames[i]) \in Bytes
  <2>1. script.frames[i] \in Frames /\ Len(script.frames[i].payload) <= Max16
    BY <1>1, <1>2, ElementOfSeq, WebsocketAssumption
  <2>2. QED
    BY <2>1, EncodeBytes
<1>4. unsent = [i \in 1..Len(script.frames) |-> Encode(script.frames[i])]
  BY <1>2 DEF Init
<1>5. unsent \in Seq(Bytes)
  BY <1>2, <1>3, <1>4
<1>6. <<>> \in Bytes
  BY DEF Bytes
<1>7. SentInv
  BY DEF Init, SentInv
<1>8. QED
  BY <1>1, <1>5, <1>6, <1>7, Idle DEF Init, WsInv

LEMMA UnsentTail ==
    ASSUME NEW parts \in Seq(Bytes), parts # <<>>, NEW n \in 1..Len(parts[1])
    PROVE  /\ parts[1] \in Bytes
           /\ SubSeq(parts[1], 1, n) \in Bytes
           /\ Tail(parts) \in Seq(Bytes)
           /\ [parts EXCEPT ![1] = Drop(@, n)] \in Seq(Bytes)
<1>1. Len(parts) \in Nat /\ 1 \in 1..Len(parts)
  BY EmptySeq, LenProperties
<1>2. parts[1] \in Bytes
  BY <1>1, ElementOfSeq
<1>3. n \in Nat /\ n \in 0..Len(parts[1])
  BY <1>2, LenProperties DEF Bytes
<1>4. SubSeq(parts[1], 1, n) \in Bytes /\ Drop(parts[1], n) \in Bytes
  BY <1>2, <1>3, FrontPart, Dropped
<1>5. Tail(parts) \in Seq(Bytes)
  BY HeadTailProperties
<1>6. [parts EXCEPT ![1] = Drop(parts[1], n)] \in Seq(Bytes)
  BY <1>1, <1>4, ExceptSeq
<1>7. QED
  BY <1>2, <1>4, <1>5, <1>6

LEMMA WsStep == WsInv /\ [Next]_vars => WsInv'
<1> SUFFICES ASSUME WsInv, [Next]_vars PROVE WsInv'
  OBVIOUS
<1>1. SentInv
  BY DEF WsInv
<1>2. ASSUME NEW n \in 1..Len(unsent[1]), unsent # <<>>, Send(n)
      PROVE  WsInv'
  <2>1. unsent' \in Seq(Bytes) /\ SubSeq(unsent[1], 1, n) \in Bytes
    BY <1>2, UnsentTail DEF Send, WsInv
  <2>2. sock' \in Bytes
    BY <1>2, <2>1, Appended DEF Send, WsInv
  <2>3. QED
    BY <1>1, <1>2, <2>1, <2>2, SentKept DEF Send, WsInv
<1>3. CASE ClientClose
  BY <1>1, <1>3, SentKept DEF ClientClose, WsInv
<1>4. CASE Tick
  <2>1. idle' \in 0..(IdleLimit + 1)
    BY <1>4, WebsocketAssumption DEF Tick, WsInv
  <2>2. QED
    BY <1>1, <1>4, <2>1, SentKept DEF Tick, clientVars, WsInv
<1>5. ASSUME NEW n \in WriteSizes, AppWrite(n)
      PROVE  WsInv'
  <2>1. n \in Nat /\ kTypeBinary \in OwnTypes /\ Write(kTypeBinary, n)
    BY <1>5, WebsocketAssumption DEF AppWrite, OwnTypes
  <2>2. SentInv' /\ idle' = 0
    BY <1>1, <2>1, Written
  <2>3. QED
    BY <1>5, <2>2, Idle DEF AppWrite, clientVars, WsInv
<1>6. CASE ServerPing
  <2>1. 0 \in Nat /\ kTypePing \in OwnTypes /\ Write(kTypePing, 0)
    BY <1>6 DEF ServerPing, OwnTypes
  <2>2. SentInv' /\ idle' = 0
    BY <1>1, <2>1, Written
  <2>3. QED
    BY <1>6, <2>2, Idle DEF ServerPing, clientVars, WsInv
<1>7. sock \in Bytes /\ Got \in Bytes /\ Drop(sock, Len(Got)) \in Bytes
  BY GotBytes, Dropped DEF WsInv
<1>8. CASE ReadFrame
  <2>1. Answered
    BY <1>7, <1>8, Handled DEF ReadFrame
  <2>2. QED
    BY <1>7, <1>8, <2>1 DEF ReadFrame, Answered, clientVars, WsInv
<1>9. ASSUME NEW b \in {0, 1}, ReadPastEnd(b)
      PROVE  WsInv'
  <2>1. Answered
    BY <1>7, <1>9, Handled, PaddedBytes DEF ReadPastEnd
  <2>2. QED
    BY <1>7, <1>9, <2>1 DEF ReadPastEnd, Answered, clientVars, WsInv
<1>10. CASE ReadAborts
  BY <1>1, <1>10, SentKept DEF ReadAborts, clientVars, WsInv
<1>11. CASE ReadEnd
  <2>1. Return(-1)
    BY <1>11 DEF ReadEnd
  <2>2. QED
    BY <1>1, <1>11, <2>1, SentKept, Returned DEF ReadEnd, clientVars, WsInv
<1>12. CASE UNCHANGED vars
  BY <1>1, <1>12, SentKept DEF vars, WsInv
<1>13. QED
  BY <1>2, <1>3, <1>4, <1>5, <1>6, <1>8, <1>9, <1>10, <1>11, <1>12 DEF Next, Read

LEMMA WsCorrect == Spec => []WsInv
BY InitWs, WsStep, PTL DEF Spec

(* The fields of a connection keep their types, for every client: what is  *)
(* left of its frames, in the socket and collected in last_payload_ are    *)
(* bytes, and Read returns -1, 0 or 1.                                     *)
THEOREM TypeCorrect == Spec => []TypeOK
<1>1. WsInv => TypeOK
  <2> SUFFICES ASSUME WsInv PROVE TypeOK
    OBVIOUS
  <2>1. \A i \in DOMAIN unsent : unsent[i] \in Seq(0..255)
    BY LenProperties, ElementOfSeq DEF WsInv, Bytes
  <2>2. sent \in Seq([type : {kTypeBinary, kTypePing, kTypePong}, length : Nat,
                      header : Seq(0..255), payload : Nat])
    BY DEF WsInv, SentInv, SentCalls, OwnTypes, Bytes
  <2>3. QED
    BY <2>1, <2>2 DEF WsInv, TypeOK, Bytes
<1>2. QED
  BY <1>1, WsCorrect, PTL

(* A client reads a frame exactly when it is intact and every frame before *)
(* it is intact or was refused, whatever lengths the application writes    *)
(* and however many bytes the socket takes of each call, none included.    *)
THEOREM FrameReadableHolds == Spec => []FrameReadable
<1>1. WsInv => FrameReadable
  <2> SUFFICES ASSUME WsInv, NEW i \in DOMAIN sent
               PROVE  ClientReads(i) <=>
                        /\ Intact(sent[i])
                        /\ \A j \in 1..(i - 1) : Refused(sent[j]) \/ Intact(sent[j])
    BY DEF FrameReadable
  <2>1. i \in 1..Len(sent) /\ Len(sent) \in Nat
    BY LenProperties DEF WsInv, SentInv
  <2>2. Readable(sent[i]) /\ \A j \in 1..(i - 1) : Readable(sent[j])
    BY <2>1 DEF WsInv, SentInv
  <2>3. QED
    BY <2>2, Zenon DEF ClientReads, Readable
<1>2. QED
  BY <1>1, WsCorrect, PTL

-----------------------------------------------------------------------------
(* An orderly client has at most one frame in the socket, and all of it:   *)
(* Read gets it whole.                                                     *)
WholeFrame(b) == b \in Bytes /\ HoldsFrame(b) /\ Len(b) <= BufferSize

OrderlyInv ==
    Orderly => /\ whole /\ ~aborted
               /\ sock = <<>> \/ WholeFrame(sock)
               /\ \A i \in 1..Len(unsent) : WholeFrame(unsent[i])

LEMMA InitOrderly == Init => OrderlyInv
<1> SUFFICES ASSUME Init, Orderly
             PROVE  \A i \in 1..Len(unsent) : WholeFrame(unsent[i])
  BY DEF Init, OrderlyInv
<1>1. script \in Scripts /\ script.frames \in Seq(Frames)
  BY WebsocketAssumption DEF Init
<1>2. Len(script.frames) \in Nat /\ DOMAIN script.frames = 1..Len(script.frames)
  BY <1>1, LenProperties
<1>3. ASSUME NEW i \in 1..Len(script.frames)
      PROVE  WholeFrame(Encode(script.frames[i]))
  <2>1. script.frames[i] \in Frames /\ Len(script.frames[i].payload) <= Max16
    BY <1>1, <1>2, ElementOfSeq, WebsocketAssumption
  <2>2. Len(Encode(script.frames[i])) <= BufferSize
    BY <1>2 DEF Orderly
  <2>3. QED
    BY <2>1, <2>2, EncodeBytes DEF WholeFrame
<1>4. unsent = [i \in 1..Len(script.frames) |-> Encode(script.frames[i])]
  BY <1>2 DEF Init
<1>5. Len(unsent) = Len(script.frames)
  BY <1>2, <1>4
<1>6. QED
  BY <1>3, <1>4, <1>5

(* The steps that touch neither side of the socket.                        *)
LEMMA OrderlyKept ==
    ASSUME OrderlyInv, UNCHANGED <<script, unsent, sock, whole, aborted>>
    PROVE  OrderlyInv'
BY DEF OrderlyInv, Orderly

LEMMA OrderlyStep == WsInv /\ OrderlyInv /\ [Next]_vars => OrderlyInv'
<1> SUFFICES ASSUME WsInv, OrderlyInv, [Next]_vars PROVE OrderlyInv'
  OBVIOUS
<1>1. ASSUME NEW n \in 1..Len(unsent[1]), unsent # <<>>, Send(n)
      PROVE  OrderlyInv'
  <2> SUFFICES ASSUME Orderly'
               PROVE  /\ WholeFrame(sock') /\ whole' /\ ~aborted'
                      /\ \A i \in 1..Len(unsent') : WholeFrame(unsent'[i])
    BY DEF OrderlyInv
  <2>1. Orderly
    BY <1>1 DEF Send, Orderly
  <2>2. unsent \in Seq(Bytes) /\ Len(unsent) \in Nat \ {0}
    BY <1>1, EmptySeq DEF WsInv
  <2>3. WholeFrame(unsent[1])
    BY <2>1, <2>2 DEF OrderlyInv
  <2>4. /\ sock = <<>> /\ n = Len(unsent[1])
        /\ sock' = sock \o SubSeq(unsent[1], 1, n) /\ unsent' = Tail(unsent)
    BY <1>1, <2>1 DEF Send, Orderly
  <2>5. n \in 0..Len(unsent[1])
    BY <2>3, <2>4 DEF WholeFrame, Bytes
  <2>6. SubSeq(unsent[1], 1, n) = unsent[1]
    BY <2>3, <2>4, <2>5, FrontPart DEF WholeFrame
  <2>7. sock' = unsent[1]
    BY <2>3, <2>4, <2>6, ConcatEmptySeq DEF WholeFrame, Bytes
  <2>8. Len(unsent') = Len(unsent) - 1 /\ \A i \in 1..Len(unsent') : unsent'[i] = unsent[i + 1]
    BY <1>1, <2>2, <2>4, HeadTailProperties
  <2>9. \A i \in 1..Len(unsent') : i + 1 \in 1..Len(unsent)
    BY <2>2, <2>8
  <2>10. QED
    BY <1>1, <2>1, <2>3, <2>7, <2>8, <2>9 DEF Send, OrderlyInv
<1>2. CASE ClientClose
  BY <1>2, OrderlyKept DEF ClientClose
<1>3. CASE Tick
  BY <1>3, OrderlyKept DEF Tick, clientVars
<1>4. ASSUME NEW n \in WriteSizes, AppWrite(n)
      PROVE  OrderlyInv'
  BY <1>4, OrderlyKept DEF AppWrite, clientVars
<1>5. CASE ServerPing
  BY <1>5, OrderlyKept DEF ServerPing, clientVars
<1>6. sock \in Bytes /\ (Orderly /\ sock # <<>> => HoldsFrame(Got) /\ Drop(sock, Len(Got)) = <<>>)
  <2>1. sock \in Bytes
    BY DEF WsInv
  <2> SUFFICES ASSUME Orderly, sock # <<>>
               PROVE  HoldsFrame(Got) /\ Drop(sock, Len(Got)) = <<>>
    BY <2>1
  <2>2. HoldsFrame(sock) /\ Len(sock) <= BufferSize
    BY DEF OrderlyInv, WholeFrame
  <2>3. Got = sock
    BY <2>1, <2>2, GotBytes
  <2>4. SubSeq(sock, Len(sock) + 1, Len(sock)) = <<>>
    BY <2>1, SubSeqEmpty DEF Bytes
  <2>5. QED
    BY <2>2, <2>3, <2>4 DEF Drop
<1>7. CASE ReadFrame
  <2>1. /\ Orderly' <=> Orderly /\ UNCHANGED <<unsent, whole, aborted>>
        /\ sock # <<>> /\ sock' = Drop(sock, Len(Got))
    BY <1>7 DEF ReadFrame, clientVars, Orderly
  <2>2. QED
    BY <1>6, <2>1 DEF OrderlyInv
<1>8. ASSUME NEW b \in {0, 1}, ReadPastEnd(b)
      PROVE  OrderlyInv'
  <2>1. ~Orderly
    BY <1>6, <1>8 DEF ReadPastEnd
  <2>2. QED
    BY <1>8, <2>1 DEF ReadPastEnd, clientVars, Orderly, OrderlyInv
<1>9. CASE ReadAborts
  <2>1. ~Orderly
    BY <1>6, <1>9 DEF ReadAborts
  <2>2. QED
    BY <1>9, <2>1 DEF ReadAborts, clientVars, Orderly, OrderlyInv
<1>10. CASE ReadEnd
  BY <1>10, OrderlyKept DEF ReadEnd, clientVars
<1>11. CASE UNCHANGED vars
  BY <1>11, OrderlyKept DEF vars
<1>12. QED
  BY <1>1, <1>2, <1>3, <1>4, <1>5, <1>7, <1>8, <1>9, <1>10, <1>11 DEF Next, Read

(* Read never looks past the bytes it got from an orderly client, whatever *)
(* frames that client sends and however long the application waits between *)
(* two calls of Poll.                                                      *)
THEOREM ReadsWholeFramesHolds == Spec => []ReadsWholeFrames
<1>1. OrderlyInv => ReadsWholeFrames
  BY DEF OrderlyInv, ReadsWholeFrames
<1>2. QED
  BY <1>1, InitOrderly, OrderlyStep, WsCorrect, PTL DEF Spec
================================================================================
