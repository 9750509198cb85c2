------------------------- MODULE HttpConnectionProofs -------------------------
(***************************************************************************)
(* Proofs about HttpConnection, for every set of requests, every buffer    *)
(* size and every way the client's writes and the server's reads split the *)
(* stream.                                                                 *)
(***************************************************************************)
EXTENDS HttpConnection, JoiningProofs

(* Take and Drop cut a sequence in two.                                    *)
LEMMA Cut ==
    ASSUME NEW S, NEW s \in Seq(S), NEW n \in 0..Len(s)
    PROVE  /\ Take(s, n) \in Seq(S)
           /\ Drop(s, n) \in Seq(S)
           /\ Len(Take(s, n)) = n
           /\ Take(s, n) \o Drop(s, n) = s
<1>1. Len(s) \in Nat /\ \A i \in 1..Len(s) : s[i] \in S
  BY LenProperties, ElementOfSeq
<1>2. Take(s, n) \in Seq(S) /\ Len(Take(s, n)) = n
  BY <1>1, SubSeqProperties DEF Take
<1>3. Drop(s, n) \in Seq(S)
  BY <1>1, SubSeqProperties DEF Drop
<1>4. Take(s, n) \o Drop(s, n) = SubSeq(s, 1, Len(s))
  <2>1. 1 \in 1..Len(s)+1 /\ n \in 1-1..Len(s) /\ Len(s) \in n..Len(s)
    BY <1>1
  <2>2. QED
    BY <2>1, ConcatAdjacentSubSeq, Zenon DEF Take, Drop
<1>5. QED
  BY <1>2, <1>3, <1>4, SubSeqFull

(* Moving a prefix of t to the end of s does not change the two together.  *)
LEMMA Move ==
    ASSUME NEW S, NEW s \in Seq(S), NEW t \in Seq(S), NEW n \in 0..Len(t)
    PROVE  (s \o Take(t, n)) \o Drop(t, n) = s \o t
<1>1. /\ Take(t, n) \in Seq(S)
      /\ Drop(t, n) \in Seq(S)
      /\ Take(t, n) \o Drop(t, n) = t
  BY Cut
<1>2. PICK a \in Seq(S), b \in Seq(S) : a = Take(t, n) /\ b = Drop(t, n)
  BY <1>1
<1>3. (s \o a) \o b = s \o (a \o b)
  BY ConcatAssociative
<1>4. QED
  BY <1>1, <1>2, <1>3

-----------------------------------------------------------------------------
(* The head of a request, byte by byte: the request line, the two optional *)
(* lines of c and x bytes, and the blank line.                             *)
ClBytes(r) == IF r.length = NoLength THEN 0 ELSE 3
ExtraBytes(r) == IF r.extra = 0 THEN 0 ELSE r.extra + 2

HeadShape(r, h, c, x) ==
    /\ h \in Seq(Byte)
    /\ Len(h) = 5 + c + x
    /\ h[1] = <<"req", r.uri>> /\ h[2] = CR /\ h[3] = LF
    /\ c > 0 => h[4] = <<"cl", r.length>> /\ h[5] = CR /\ h[6] = LF
    /\ x > 0 => /\ \A k \in (4 + c)..(1 + c + x) : h[k] = <<"hdr", 0>>
                /\ h[2 + c + x] = CR /\ h[3 + c + x] = LF
    /\ h[4 + c + x] = CR /\ h[5 + c + x] = LF

LEMMA BytesAreBytes ==
    /\ CR \in Byte /\ LF \in Byte /\ <<"hdr", 0>> \in Byte
    /\ \A u \in STRING : <<"req", u>> \in Byte
    /\ \A n \in Nat : <<"cl", n>> \in Byte
BY DEF Byte, CR, LF

(* What the client sends as a head is a head.                              *)
LEMMA HeadHasShape ==
    ASSUME NEW r \in Requests
    PROVE  HeadShape(r, HeadBytes(r), ClBytes(r), ExtraBytes(r))
<1> DEFINE first == <<<<"req", r.uri>>>> \o NewLine
           cl == IF r.length = NoLength THEN <<>> ELSE <<<<"cl", r.length>>>> \o NewLine
           extra == IF r.extra = 0 THEN <<>> ELSE [i \in 1..r.extra |-> <<"hdr", 0>>] \o NewLine
           c == ClBytes(r)
           x == ExtraBytes(r)
<1>1. r.uri \in STRING /\ r.length \in Nat \cup {NoLength} /\ r.extra \in Nat
  BY DEF Requests
<1>2. c \in Nat /\ x \in Nat /\ (c = 0 \/ c = 3) /\ (x = 0 \/ x > 2)
  BY <1>1 DEF ClBytes, ExtraBytes
<1>3. NewLine \in Seq(Byte) /\ Len(NewLine) = 2 /\ NewLine[1] = CR /\ NewLine[2] = LF
  BY BytesAreBytes DEF NewLine
<1>4. /\ first \in Seq(Byte) /\ Len(first) = 3
      /\ first[1] = <<"req", r.uri>> /\ first[2] = CR /\ first[3] = LF
  <2> DEFINE o == << <<"req", r.uri>> >>
  <2>1. o \in Seq(Byte) /\ Len(o) = 1 /\ o[1] = <<"req", r.uri>>
    <3>1. <<"req", r.uri>> \in Byte
      BY <1>1, BytesAreBytes
    <3>2. QED
      BY <3>1, Single
  <2> HIDE DEF o
  <2>2. Follows(Byte, o \o NewLine, o, NewLine)
    BY <1>3, <2>1, ConcatFollows
  <2>3. QED
    BY <1>3, <2>1, <2>2 DEF Follows, o
<1>5. /\ cl \in Seq(Byte) /\ Len(cl) = c
      /\ c > 0 => cl[1] = <<"cl", r.length>> /\ cl[2] = CR /\ cl[3] = LF
  <2>1. CASE r.length = NoLength
    BY <2>1 DEF ClBytes
  <2>2. CASE r.length # NoLength
    <3> DEFINE o == << <<"cl", r.length>> >>
    <3>1. r.length \in Nat
      BY <1>1, <2>2
    <3>2. o \in Seq(Byte) /\ Len(o) = 1 /\ o[1] = <<"cl", r.length>>
      BY <3>1, BytesAreBytes
    <3> HIDE DEF o
    <3>3. Follows(Byte, o \o NewLine, o, NewLine)
      BY <1>3, <3>2, ConcatFollows
    <3>4. cl = o \o NewLine /\ c = 3
      BY <2>2 DEF o, ClBytes
    <3> HIDE DEF cl, c
    <3>5. /\ cl \in Seq(Byte) /\ Len(cl) = 3
          /\ cl[1] = o[1] /\ cl[1 + 1] = NewLine[1] /\ cl[1 + 2] = NewLine[2]
      BY <1>3, <3>2, <3>3, <3>4 DEF Follows
    <3>6. QED
      BY <1>3, <3>2, <3>4, <3>5
  <2>3. QED
    BY <2>1, <2>2
<1>6. /\ extra \in Seq(Byte) /\ Len(extra) = x
      /\ x > 0 => /\ \A k \in 1..(x - 2) : extra[k] = <<"hdr", 0>>
                  /\ extra[x - 1] = CR /\ extra[x] = LF
  <2>1. CASE r.extra = 0
    BY <2>1 DEF ExtraBytes
  <2>2. CASE r.extra # 0
    <3> DEFINE o == [i \in 1..r.extra |-> <<"hdr", 0>>]
    <3>1. o \in Seq(Byte) /\ Len(o) = r.extra /\ \A k \in 1..r.extra : o[k] = <<"hdr", 0>>
      <4> DEFINE e == <<"hdr", 0>>
      <4>1. e \in Byte
        BY BytesAreBytes
      <4> HIDE DEF e
      <4>2. /\ [i \in 1..r.extra |-> e] \in Seq(Byte) /\ Len([i \in 1..r.extra |-> e]) = r.extra
            /\ \A k \in 1..r.extra : [i \in 1..r.extra |-> e][k] = e
        BY <1>1, <4>1
      <4>3. QED
        BY <4>2 DEF e
    <3> HIDE DEF o
    <3>2. Follows(Byte, o \o NewLine, o, NewLine)
      BY <1>3, <3>1, ConcatFollows
    <3>3. extra = o \o NewLine /\ x = r.extra + 2
      BY <2>2 DEF o, ExtraBytes
    <3> HIDE DEF extra, x
    <3>4. extra[r.extra + 1] = CR /\ extra[r.extra + 2] = LF
      BY <1>3, <3>1, <3>2, <3>3 DEF Follows
    <3>5. x - 1 = r.extra + 1 /\ x - 2 = r.extra
      BY <1>1, <3>3
    <3>6. QED
      BY <1>3, <3>1, <3>2, <3>3, <3>4, <3>5 DEF Follows
  <2>3. QED
    BY <2>1, <2>2
<1>7. HeadBytes(r) = first \o cl \o extra \o NewLine
  BY DEF HeadBytes
<1> HIDE DEF first, cl, extra, c, x
<1> DEFINE fc == first \o cl
           fce == fc \o extra
           h == fce \o NewLine
<1>8. Follows(Byte, fc, first, cl)
  BY <1>4, <1>5, ConcatFollows
<1>9. fc \in Seq(Byte)
  BY <1>8 DEF Follows
<1> HIDE DEF fc
<1>10. Follows(Byte, fce, fc, extra)
  BY <1>6, <1>9, ConcatFollows
<1>11. fce \in Seq(Byte)
  BY <1>10 DEF Follows
<1> HIDE DEF fce
<1>12. Follows(Byte, h, fce, NewLine)
  BY <1>3, <1>11, ConcatFollows
<1>13. h = HeadBytes(r)
  BY <1>7 DEF fc, fce
<1> HIDE DEF h
<1>14. Len(fc) = 3 + c /\ Len(fce) = 3 + c + x /\ Len(h) = 5 + c + x /\ h \in Seq(Byte)
  BY <1>2, <1>3, <1>4, <1>5, <1>6, <1>8, <1>10, <1>12 DEF Follows
<1>15. \A k \in 1..(3 + c) : h[k] = fc[k]
  BY <1>2, <1>10, <1>12, <1>14 DEF Follows
<1>16. \A k \in 1..x : h[3 + c + k] = extra[k]
  <2> SUFFICES ASSUME NEW k \in 1..x PROVE h[3 + c + k] = extra[k]
    OBVIOUS
  <2>1. 3 + c + k \in 1..Len(fce) /\ Len(fc) + k = 3 + c + k
    BY <1>2, <1>14
  <2>2. fce[Len(fc) + k] = extra[k]
    BY <1>6, <1>10 DEF Follows
  <2>3. QED
    BY <1>12, <2>1, <2>2 DEF Follows
<1>17. h[1] = <<"req", r.uri>> /\ h[2] = CR /\ h[3] = LF
  BY <1>2, <1>4, <1>8, <1>15 DEF Follows
<1>18. c > 0 => h[4] = <<"cl", r.length>> /\ h[5] = CR /\ h[6] = LF
  <2> SUFFICES ASSUME c > 0
               PROVE  h[4] = <<"cl", r.length>> /\ h[5] = CR /\ h[6] = LF
    OBVIOUS
  <2>1. c = 3 /\ \A k \in 1..3 : fc[3 + k] = cl[k]
    BY <1>2, <1>4, <1>5, <1>8 DEF Follows
  <2>2. fc[4] = cl[1] /\ fc[5] = cl[2] /\ fc[6] = cl[3]
    BY <2>1
  <2>3. QED
    BY <1>5, <1>15, <2>1, <2>2
<1>19. x > 0 => /\ \A k \in (4 + c)..(1 + c + x) : h[k] = <<"hdr", 0>>
                /\ h[2 + c + x] = CR /\ h[3 + c + x] = LF
  <2> SUFFICES ASSUME x > 0
               PROVE  /\ \A k \in (4 + c)..(1 + c + x) : h[k] = <<"hdr", 0>>
                      /\ h[2 + c + x] = CR /\ h[3 + c + x] = LF
    OBVIOUS
  <2>1. ASSUME NEW k \in (4 + c)..(1 + c + x)
        PROVE  h[k] = <<"hdr", 0>>
    <3>1. k - 3 - c \in 1..(x - 2) /\ k - 3 - c \in 1..x /\ 3 + c + (k - 3 - c) = k
      BY <1>2
    <3>2. h[3 + c + (k - 3 - c)] = extra[k - 3 - c]
      BY <1>16, <3>1
    <3>3. QED
      BY <1>6, <3>1, <3>2
  <2>2. h[2 + c + x] = CR
    <3>1. x - 1 \in 1..x /\ 3 + c + (x - 1) = 2 + c + x
      BY <1>2
    <3>2. QED
      BY <1>6, <1>16, <3>1
  <2>3. h[3 + c + x] = LF
    <3>1. x \in 1..x
      BY <1>2
    <3>2. QED
      BY <1>6, <1>16, <3>1
  <2>4. QED
    BY <2>1, <2>2, <2>3
<1>20. h[4 + c + x] = CR /\ h[5 + c + x] = LF
  <2>1. h[Len(fce) + 1] = NewLine[1] /\ h[Len(fce) + 2] = NewLine[2]
    BY <1>3, <1>12 DEF Follows
  <2>2. Len(fce) + 1 = 4 + c + x /\ Len(fce) + 2 = 5 + c + x
    BY <1>2, <1>14
  <2>3. QED
    BY <1>3, <2>1, <2>2
<1>21. HeadShape(r, h, c, x)
  BY <1>14, <1>17, <1>18, <1>19, <1>20 DEF HeadShape
<1>22. QED
  BY <1>13, <1>21 DEF c, x

(* What a client sends is a sequence of bytes and begins with the head of  *)
(* its first request.                                                      *)
LEMMA WireBytes ==
    ASSUME NEW s \in Scripts
    PROVE  /\ s.requests[1] \in Requests
           /\ Wire(s) \in Seq(Byte)
           /\ Begins(HeadBytes(s.requests[1]), Wire(s))
<1> DEFINE n == Len(s.requests)
           A == [i \in 1..n |-> HeadBytes(s.requests[i]) \o s.requests[i].body]
<1>1. s.requests \in Seq(Requests) /\ s.requests # <<>>
  BY ConnectionAssumption
<1>2. n \in Nat \ {0} /\ \A i \in 1..n : s.requests[i] \in Requests
  BY <1>1
<1>3. ASSUME NEW r \in Requests
      PROVE  HeadBytes(r) \in Seq(Byte) /\ r.body \in Seq(Byte) /\ HeadBytes(r) \o r.body \in Seq(Byte)
  <2>1. HeadBytes(r) \in Seq(Byte)
    BY HeadHasShape DEF HeadShape
  <2>2. r.body \in Seq({"dat", "cr", "lf"} \X Nat) /\ {"dat", "cr", "lf"} \X Nat \subseteq Byte
    BY DEF Requests, Byte
  <2>3. r.body \in Seq(Byte)
    BY <2>2, SeqMonotonic
  <2>4. QED
    BY <2>1, <2>3, ConcatProperties
<1>4. A \in [1..n -> Seq(Byte)]
  <2>1. \A i \in 1..n : HeadBytes(s.requests[i]) \o s.requests[i].body \in Seq(Byte)
    BY <1>2, <1>3
  <2>2. QED
    BY <2>1
<1>5. Wire(s) = Joined(A)
  BY DEF Wire
<1>6. Joined(A) \in Seq(Byte) /\ Begins(A[1], Joined(A))
  <2> HIDE DEF A, n
  <2>1. n \in Nat /\ n > 0
    BY <1>2
  <2>2. QED
    BY <1>4, <2>1, JoinedProperties
<1> DEFINE r == s.requests[1]
<1>7. r \in Requests /\ A[1] = HeadBytes(r) \o r.body
  <2>1. 1 \in 1..n
    BY <1>2
  <2> HIDE DEF n
  <2>2. QED
    BY <1>2, <2>1
<1>8. Begins(HeadBytes(r), HeadBytes(r) \o r.body)
  <2> HIDE DEF r
  <2>1. Begins(HeadBytes(r), HeadBytes(r))
    BY <1>3, <1>7, BeginsConcat
  <2>2. QED
    BY <1>3, <1>7, <2>1, BeginsConcat
<1>9. QED
  <2> DEFINE h == HeadBytes(r)
             hb == HeadBytes(r) \o r.body
             w == Joined(A)
  <2>1. h \in Seq(Byte) /\ hb \in Seq(Byte) /\ w \in Seq(Byte) /\ Begins(h, hb) /\ Begins(hb, w)
    BY <1>3, <1>6, <1>7, <1>8
  <2> HIDE DEF h, hb, w
  <2>2. Begins(h, w)
    BY <2>1 DEF Begins
  <2>3. QED
    BY <1>5, <1>7, <2>1, <2>2 DEF h, w

-----------------------------------------------------------------------------
(* The parts of the stream are sequences of bytes, and together they are   *)
(* what the client set out to send.                                        *)
StreamType ==
    /\ script \in Scripts
    /\ toSend \in Seq(Byte)
    /\ sock \in Seq(Byte)
    /\ buffer \in Seq(Byte)
    /\ pushed \in Seq(Byte)

StreamInv == StreamType /\ BufferBound /\ ByteConservation

(* Before the first write all of the stream is with the client.            *)
LEMMA InitStream == Init => StreamInv
<1> SUFFICES ASSUME Init PROVE StreamInv
  OBVIOUS
<1>1. Wire(script) \in Seq(Byte)
  BY WireBytes DEF Init
<1>2. StreamType
  BY <1>1 DEF Init, StreamType
<1>3. BufferBound
  BY ConnectionAssumption DEF Init, BufferBound
<1>4. ByteConservation
  BY <1>1, ConcatEmptySeq DEF Init, ByteConservation
<1>5. QED
  BY <1>2, <1>3, <1>4 DEF StreamInv

(* A write of the client moves bytes into the socket.                      *)
LEMMA SendStream ==
    ASSUME StreamInv, NEW n, Send(n)
    PROVE  StreamInv'
<1> USE DEF StreamInv, StreamType
<1>1. n \in 0..Len(toSend)
  BY DEF Send
<1>2. StreamType'
  BY <1>1, Cut, ConcatProperties DEF Send
<1>3. BufferBound'
  BY DEF Send, BufferBound
<1>4. pushed \o buffer \in Seq(Byte) /\ (pushed \o buffer) \o sock \in Seq(Byte)
  BY ConcatProperties
<1>5. (pushed \o buffer) \o (sock \o Take(toSend, n)) = ((pushed \o buffer) \o sock) \o Take(toSend, n)
  <2>1. Take(toSend, n) \in Seq(Byte)
    BY <1>1, Cut
  <2>2. PICK a \in Seq(Byte), b \in Seq(Byte), c \in Seq(Byte) :
             a = pushed \o buffer /\ b = sock /\ c = Take(toSend, n)
    BY <1>4, <2>1
  <2> HIDE DEF StreamInv
  <2>3. a \o (b \o c) = (a \o b) \o c
    BY ConcatAssociative
  <2>4. QED
    BY <2>2, <2>3
<1>6. (((pushed \o buffer) \o sock) \o Take(toSend, n)) \o Drop(toSend, n)
        = ((pushed \o buffer) \o sock) \o toSend
  BY <1>1, <1>4, Move, Zenon
<1>7. ByteConservation'
  BY <1>5, <1>6 DEF Send, ByteConservation
<1>8. QED
  BY <1>2, <1>3, <1>7

(* Read: the length asked for is what is free in the buffer.               *)
LEMMA ReadStream ==
    ASSUME StreamInv, ReadData
    PROVE  StreamInv'
<1> USE DEF StreamInv, StreamType
<1> DEFINE n == Least(BufferSize - Len(buffer), Len(sock))
<1>1. n \in 0..Len(sock) /\ n <= BufferSize - Len(buffer)
  BY ConnectionAssumption, LenProperties DEF ReadData, BufferBound, Least
<1>2. buffer' = buffer \o Take(sock, n) /\ sock' = Drop(sock, n)
  BY DEF ReadData
<1>3. UNCHANGED <<script, toSend, pushed>>
  BY DEF ReadData, clientVars
<1> HIDE DEF n
<1>4. Take(sock, n) \in Seq(Byte) /\ Drop(sock, n) \in Seq(Byte) /\ Len(Take(sock, n)) = n
  BY <1>1, Cut
<1>5. StreamType'
  BY <1>2, <1>3, <1>4, ConcatProperties
<1>6. Len(buffer') = Len(buffer) + n
  BY <1>2, <1>4, ConcatProperties
<1>7. BufferBound'
  BY <1>1, <1>6, ConnectionAssumption, LenProperties DEF BufferBound
<1>8. (pushed \o (buffer \o Take(sock, n))) \o Drop(sock, n) = (pushed \o buffer) \o sock
  <2>1. pushed \o (buffer \o Take(sock, n)) = (pushed \o buffer) \o Take(sock, n)
    <3>1. PICK a \in Seq(Byte), b \in Seq(Byte), c \in Seq(Byte) :
               a = pushed /\ b = buffer /\ c = Take(sock, n)
      BY <1>4
    <3> HIDE DEF StreamInv
    <3>2. a \o (b \o c) = (a \o b) \o c
      BY ConcatAssociative
    <3>3. QED
      BY <3>1, <3>2
  <2>2. pushed \o buffer \in Seq(Byte)
    BY ConcatProperties
  <2>3. QED
    BY <1>1, <2>1, <2>2, Move
<1>9. ByteConservation'
  BY <1>2, <1>3, <1>8 DEF ByteConservation
<1>10. QED
  BY <1>5, <1>7, <1>9

(* PopLine or a chunk: what leaves the buffer goes to PushLine.            *)
LEMMA PushStream ==
    ASSUME StreamInv, NEW n \in 0..Len(buffer), Push(n)
    PROVE  StreamInv'
<1> USE DEF StreamInv, StreamType
<1>1. buffer' = Drop(buffer, n) /\ pushed' = pushed \o Take(buffer, n)
  BY DEF Push
<1>2. UNCHANGED <<script, toSend, sock>>
  BY DEF Push, clientVars
<1>3. StreamType'
  BY <1>1, <1>2, Cut, ConcatProperties
<1>4. BufferBound'
  <2>1. Len(Drop(buffer, n)) <= Len(buffer)
    BY SubSeqProperties, ElementOfSeq, LenProperties DEF Drop
  <2>2. QED
    BY <1>1, <1>3, <2>1, ConnectionAssumption, LenProperties DEF BufferBound
<1>5. ByteConservation'
  BY <1>1, <1>2, Move DEF ByteConservation
<1>6. QED
  BY <1>3, <1>4, <1>5

(* StreamInv is inductive: three actions move bytes, the others leave the  *)
(* stream alone.                                                           *)
LEMMA StreamStep == StreamInv /\ [Next]_vars => StreamInv'
<1> SUFFICES ASSUME StreamInv, [Next]_vars PROVE StreamInv'
  OBVIOUS
<1>1. ASSUME NEW n \in 1..Len(toSend), Send(n)
      PROVE  StreamInv'
  BY <1>1, SendStream
<1>2. CASE ReadData
  BY <1>2, ReadStream
<1>3. CASE PushPoppedLine
  <2>1. PICK n \in FirstLineEnd(buffer) : Push(n)
    BY <1>3 DEF PushPoppedLine
  <2>2. n \in 0..Len(buffer)
    BY DEF FirstLineEnd, LineEnds
  <2>3. QED
    BY <2>1, <2>2, PushStream
<1>4. CASE PushChunk
  <2>1. Len(buffer) \in 0..Len(buffer)
    BY LenProperties DEF StreamInv, StreamType
  <2>2. QED
    BY <1>4, <2>1, PushStream DEF PushChunk
<1>5. CASE UNCHANGED <<script, toSend, sock, buffer, pushed>>
  BY <1>5 DEF StreamInv, StreamType, BufferBound, ByteConservation
<1>6. CASE ClientClose \/ EpollIn \/ ReadZero \/ ReadAgain \/ ReadInterrupted \/ NoLine
           \/ Result \/ UNCHANGED vars
  BY <1>5, <1>6 DEF ClientClose, EpollIn, ReadZero, ReadAgain, ReadInterrupted, NoLine,
     Result, ResultClosed, ResultIncomplete, ResultNotFound, CallHandler, clientVars, vars
<1>7. QED
  BY <1>1, <1>2, <1>3, <1>4, <1>6 DEF Next, Client, ReadResult, Line

(* The stream invariant holds in every behaviour.                          *)
LEMMA StreamCorrect == Spec => []StreamInv
BY InitStream, StreamStep, PTL DEF Spec

(* The unsigned SMALL_MEMORY - old_size of Connection::Read never wraps.   *)
THEOREM BufferBoundHolds == Spec => []BufferBound
<1>1. StreamInv => BufferBound
  BY DEF StreamInv
<1>2. QED
  BY <1>1, StreamCorrect, PTL

(* Whatever the reads and writes, PushLine sees a prefix of what the       *)
(* client sent, in order, each byte once.                                  *)
THEOREM ByteConservationHolds == Spec => []ByteConservation
<1>1. StreamInv => ByteConservation
  BY DEF StreamInv
<1>2. QED
  BY <1>1, StreamCorrect, PTL

-----------------------------------------------------------------------------
(* The parser.  How far it has come in the first request follows from the  *)
(* number of bytes that PushLine was given.                                *)
First == script.requests[1]
ClLine == ClBytes(First)
ExtraLine == ExtraBytes(First)
HeadEnd == 5 + ClLine + ExtraLine
Expected == HeadEnd + (IF First.length = NoLength THEN 0 ELSE First.length)

ParserType ==
    parser \in [state : ParserStates, uri : STRING,
                length : Nat \cup {NoLength}, bodyLength : Nat]

HeadInv ==
    /\ parser.state = "FirstLine" => Len(pushed) = 0 /\ parser.length = NoLength
    /\ parser.state = "Headers" =>
          /\ Len(pushed) \in {3, 3 + ClLine, 3 + ClLine + ExtraLine}
          /\ Len(pushed) >= 3 + ClLine => parser.length = First.length
    /\ parser.state \in {"FirstLine", "Headers"} => parser.bodyLength = 0
    /\ parser.state = "Body" => /\ parser.length = First.length
                                /\ First.length # NoLength
                                /\ Len(pushed) = HeadEnd + parser.bodyLength
    /\ parser.state = "Done" => Len(pushed) >= Expected

LEMMA FirstRequest ==
    ASSUME StreamInv
    PROVE  /\ First \in Requests
           /\ First.length \in Nat \cup {NoLength}
           /\ (First.length = NoLength) <=> (ClLine = 0)
           /\ ClLine \in {0, 3} /\ ExtraLine \in Nat /\ (ExtraLine = 0 \/ ExtraLine > 2)
           /\ HeadEnd \in Nat /\ Expected \in Nat
           /\ Len(HeadBytes(First)) = HeadEnd
<1>1. First \in Requests
  BY WireBytes DEF StreamInv, StreamType, First
<1>2. First.length \in Nat \cup {NoLength} /\ First.extra \in Nat
  BY <1>1 DEF Requests
<1>3. /\ (First.length = NoLength) <=> (ClLine = 0)
      /\ ClLine \in {0, 3} /\ ExtraLine \in Nat /\ (ExtraLine = 0 \/ ExtraLine > 2)
  BY <1>2 DEF ClLine, ExtraLine, ClBytes, ExtraBytes
<1>4. HeadEnd \in Nat /\ Expected \in Nat
  BY <1>2, <1>3 DEF HeadEnd, Expected
<1>5. HeadShape(First, HeadBytes(First), ClBytes(First), ExtraBytes(First))
  BY <1>1, HeadHasShape
<1>6. Len(HeadBytes(First)) = HeadEnd
  BY <1>5 DEF HeadShape, HeadEnd, ClLine, ExtraLine
<1>7. QED
  BY <1>1, <1>2, <1>3, <1>4, <1>6

(* The wire begins as the head does.                                       *)
WireShape(r, w, c, x) ==
    /\ Len(w) >= 5 + c + x
    /\ w[1] = <<"req", r.uri>> /\ w[2] = CR /\ w[3] = LF
    /\ c > 0 => w[4] = <<"cl", r.length>> /\ w[5] = CR /\ w[6] = LF
    /\ x > 0 => /\ \A k \in (4 + c)..(1 + c + x) : w[k] = <<"hdr", 0>>
                /\ w[2 + c + x] = CR /\ w[3 + c + x] = LF
    /\ w[4 + c + x] = CR /\ w[5 + c + x] = LF

LEMMA WireBegins ==
    ASSUME StreamInv
    PROVE  WireShape(First, Wire(script), ClLine, ExtraLine)
<1> DEFINE h == HeadBytes(First)
           w == Wire(script)
           c == ClLine
           x == ExtraLine
<1>1. HeadShape(First, h, c, x)
  BY FirstRequest, HeadHasShape DEF ClLine, ExtraLine
<1>2. Begins(h, w) /\ w \in Seq(Byte)
  BY WireBytes DEF StreamInv, StreamType, First
<1>3. c \in {0, 3} /\ x \in Nat /\ (x = 0 \/ x > 2)
  BY FirstRequest
<1> HIDE DEF h, w, c, x
<1>4. Len(w) \in Nat /\ Len(h) = 5 + c + x
  BY <1>1, <1>2 DEF HeadShape
<1>5. Len(w) >= 5 + c + x /\ \A k \in 1..(5 + c + x) : w[k] = h[k]
  BY <1>2, <1>3, <1>4 DEF Begins
<1>6. w[1] = <<"req", First.uri>> /\ w[2] = CR /\ w[3] = LF
  BY <1>1, <1>3, <1>5 DEF HeadShape
<1>7. c > 0 => w[4] = <<"cl", First.length>> /\ w[5] = CR /\ w[6] = LF
  BY <1>1, <1>3, <1>5 DEF HeadShape
<1>8. x > 0 => /\ \A k \in (4 + c)..(1 + c + x) : w[k] = <<"hdr", 0>>
               /\ w[2 + c + x] = CR /\ w[3 + c + x] = LF
  BY <1>1, <1>3, <1>5 DEF HeadShape
<1>9. w[4 + c + x] = CR /\ w[5 + c + x] = LF
  BY <1>1, <1>3, <1>5 DEF HeadShape
<1>10. WireShape(First, w, c, x)
  BY <1>5, <1>6, <1>7, <1>8, <1>9 DEF WireShape
<1>11. QED
  BY <1>10 DEF w, c, x

(* The buffer is the part of the wire behind what was pushed.              *)
LEMMA BufferOnWire ==
    ASSUME StreamInv
    PROVE  /\ Len(pushed) \in Nat /\ Len(buffer) \in Nat
           /\ \A k \in 1..Len(buffer) : buffer[k] = Wire(script)[Len(pushed) + k]
<1>1. pushed \in Seq(Byte) /\ buffer \in Seq(Byte) /\ sock \in Seq(Byte) /\ toSend \in Seq(Byte)
  BY DEF StreamInv, StreamType
<1> DEFINE pb == pushed \o buffer
           pbs == pb \o sock
           w == pbs \o toSend
<1>2. Follows(Byte, pb, pushed, buffer)
  BY <1>1, ConcatFollows
<1>3. pb \in Seq(Byte)
  BY <1>2 DEF Follows
<1> HIDE DEF pb
<1>4. Follows(Byte, pbs, pb, sock)
  BY <1>1, <1>3, ConcatFollows
<1>5. pbs \in Seq(Byte)
  BY <1>4 DEF Follows
<1> HIDE DEF pbs
<1>6. Follows(Byte, w, pbs, toSend)
  BY <1>1, <1>5, ConcatFollows
<1>7. w = Wire(script)
  BY DEF StreamInv, ByteConservation, pb, pbs
<1> HIDE DEF w
<1>8. Len(pushed) \in Nat /\ Len(buffer) \in Nat /\ Len(sock) \in Nat /\ Len(toSend) \in Nat
  BY <1>1
<1>9. ASSUME NEW k \in 1..Len(buffer)
      PROVE  buffer[k] = w[Len(pushed) + k]
  <2>1. pb[Len(pushed) + k] = buffer[k]
    BY <1>2 DEF Follows
  <2>2. Len(pb) = Len(pushed) + Len(buffer) /\ Len(pbs) = Len(pb) + Len(sock)
    BY <1>2, <1>4 DEF Follows
  <2>3. Len(pushed) + k \in 1..Len(pb) /\ Len(pushed) + k \in 1..Len(pbs)
    BY <1>8, <2>2
  <2>4. pbs[Len(pushed) + k] = pb[Len(pushed) + k] /\ w[Len(pushed) + k] = pbs[Len(pushed) + k]
    BY <1>4, <1>6, <2>3 DEF Follows
  <2>5. QED
    BY <2>1, <2>4
<1>10. QED
  BY <1>7, <1>8, <1>9

(* PopLine finds the next CR LF on the wire and stops nowhere else.        *)
LEMMA LineAt ==
    ASSUME StreamInv, NEW n \in FirstLineEnd(buffer), NEW e \in Nat,
           Len(pushed) + 2 <= e,
           Wire(script)[e - 1] = CR, Wire(script)[e] = LF,
           \A k \in (Len(pushed) + 1)..(e - 2) : Wire(script)[k] # CR
    PROVE  n = e - Len(pushed)
<1> DEFINE w == Wire(script)
           p == Len(pushed)
<1>1. /\ p \in Nat /\ Len(buffer) \in Nat
      /\ \A k \in 1..Len(buffer) : buffer[k] = w[p + k]
  BY BufferOnWire
<1>2. /\ n \in 2..Len(buffer) /\ buffer[n - 1] = CR
      /\ \A j \in LineEnds(buffer) : n <= j
  BY DEF FirstLineEnd, LineEnds
<1> HIDE DEF w, p
<1>3. w[p + (n - 1)] = CR /\ p + (n - 1) \in Nat
  BY <1>1, <1>2
<1>4. p + (n - 1) >= e - 1
  <2>1. p + (n - 1) \notin (p + 1)..(e - 2)
    BY <1>3 DEF w, p
  <2>2. QED
    BY <1>1, <1>2, <2>1
<1>5. e - p \in 2..Len(buffer)
  <2>1. p + 2 <= e
    BY DEF p
  <2>2. QED
    BY <1>1, <1>2, <1>4, <2>1
<1>6. buffer[(e - p) - 1] = CR /\ buffer[e - p] = LF
  <2>1. p + ((e - p) - 1) = e - 1 /\ p + (e - p) = e /\ (e - p) - 1 \in 1..Len(buffer)
        /\ e - p \in 1..Len(buffer)
    BY <1>1, <1>5
  <2>2. w[e - 1] = CR /\ w[e] = LF
    BY DEF w
  <2>3. QED
    BY <1>1, <2>1, <2>2
<1>7. e - p \in LineEnds(buffer)
  BY <1>5, <1>6 DEF LineEnds
<1>8. n <= e - p
  BY <1>2, <1>7
<1>9. n = e - p
  BY <1>1, <1>2, <1>4, <1>8
<1>10. QED
  BY <1>9 DEF p

(* What a line begins with, and how long it is, tells PushLine what to do. *)
LEMMA PoppedLine ==
    ASSUME StreamInv, NEW n \in 1..Len(buffer)
    PROVE  /\ Len(Take(buffer, n)) = n
           /\ \A k \in 1..n : Take(buffer, n)[k] = Wire(script)[Len(pushed) + k]
           /\ Take(buffer, n)[1] \in Byte
           /\ n # 2 => Take(buffer, n) # NewLine
           /\ n = 2 /\ Take(buffer, n)[1] = CR /\ Take(buffer, n)[2] = LF => Take(buffer, n) = NewLine
<1> DEFINE l == Take(buffer, n)
<1>1. buffer \in Seq(Byte) /\ Len(buffer) \in Nat
  BY DEF StreamInv, StreamType
<1>2. /\ l \in Seq(Byte) /\ Len(l) = n
      /\ \A k \in 1..n : l[k] = buffer[k]
  BY <1>1 DEF Take
<1>3. \A k \in 1..n : buffer[k] = Wire(script)[Len(pushed) + k]
  BY <1>1, BufferOnWire
<1> HIDE DEF l
<1>4. l[1] \in Byte
  BY <1>2
<1>5. n # 2 => l # NewLine
  BY <1>2 DEF NewLine
<1>6. n = 2 /\ l[1] = CR /\ l[2] = LF => l = NewLine
  BY <1>2 DEF NewLine
<1>7. QED
  BY <1>2, <1>3, <1>4, <1>5, <1>6 DEF l

LEMMA ParserStep ==
    ASSUME StreamInv, ParserType, HeadInv, NEW n \in 1..Len(buffer),
           parser.state \in {"FirstLine", "Headers"} => n \in FirstLineEnd(buffer),
           Push(n)
    PROVE  ParserType' /\ HeadInv'
<1> DEFINE p == Len(pushed)
           line == Take(buffer, n)
           c == ClLine
           x == ExtraLine
           w == Wire(script)
<1>1. /\ First' = First /\ ClLine' = c /\ ExtraLine' = x
      /\ HeadEnd' = HeadEnd /\ Expected' = Expected
  BY DEF Push, clientVars, First, ClLine, ExtraLine, HeadEnd, Expected
<1>2. /\ p \in Nat /\ n \in Nat /\ n >= 1 /\ Len(pushed)' = p + n
  <2>1. pushed \in Seq(Byte) /\ buffer \in Seq(Byte) /\ p \in Nat /\ Len(buffer) \in Nat
    BY DEF StreamInv, StreamType
  <2>2. Take(buffer, n) \in Seq(Byte) /\ Len(Take(buffer, n)) = n
    BY <2>1, Cut
  <2>3. pushed' = pushed \o Take(buffer, n)
    BY DEF Push
  <2>4. QED
    <3> DEFINE l == Take(buffer, n)
    <3>1. l \in Seq(Byte) /\ Len(l) = n /\ pushed' = pushed \o l
      BY <2>2, <2>3
    <3> HIDE DEF l
    <3>2. Len(pushed') = Len(pushed) + Len(l)
      BY <2>1, <3>1, ConcatProperties
    <3>3. QED
      BY <2>1, <3>1, <3>2
<1>3. /\ First.length \in Nat \cup {NoLength}
      /\ (First.length = NoLength) <=> (c = 0)
      /\ c \in {0, 3} /\ x \in Nat /\ (x = 0 \/ x > 2)
      /\ HeadEnd \in Nat /\ Expected \in Nat
      /\ HeadEnd = 5 + c + x
      /\ First.length = NoLength => Expected = HeadEnd
      /\ First.length # NoLength => Expected = HeadEnd + First.length
  BY FirstRequest DEF HeadEnd, Expected
<1>4. /\ Len(line) = n
      /\ \A k \in 1..n : line[k] = w[p + k]
      /\ line[1] \in Byte
      /\ n # 2 => line # NewLine
      /\ n = 2 /\ line[1] = CR /\ line[2] = LF => line = NewLine
  BY PoppedLine
<1>5. WireShape(First, w, c, x)
  BY WireBegins
<1>6. parser' = PushLine(parser, line)
  BY DEF Push
<1>7. \A e \in Nat : /\ parser.state \in {"FirstLine", "Headers"}
                     /\ p + 2 <= e
                     /\ w[e - 1] = CR /\ w[e] = LF
                     /\ \A k \in (p + 1)..(e - 2) : w[k] # CR
                     => n = e - p
  BY LineAt
<1> HIDE DEF p, line, c, x, w
<1>8. /\ parser.state \in ParserStates /\ parser.uri \in STRING
      /\ parser.length \in Nat \cup {NoLength} /\ parser.bodyLength \in Nat
      /\ parser = [state |-> parser.state, uri |-> parser.uri, length |-> parser.length,
                   bodyLength |-> parser.bodyLength]
  BY DEF ParserType
<1>9. CASE parser.state = "FirstLine"
  <2>1. p = 0 /\ parser.length = NoLength /\ parser.bodyLength = 0
    BY <1>9 DEF HeadInv, p
  <2>2. w[1] = <<"req", First.uri>> /\ w[2] = CR /\ w[3] = LF
    BY <1>5 DEF WireShape
  <2>3. w[1] # CR
    BY <2>2 DEF CR
  <2>4. n = 3
    <3>1. \A k \in (p + 1)..(3 - 2) : w[k] # CR
      BY <2>1, <2>3
    <3>2. p + 2 <= 3 /\ 3 \in Nat /\ w[3 - 1] = CR /\ w[3] = LF
      BY <2>1, <2>2
    <3>3. n = 3 - p
      BY <1>7, <1>9, <3>1, <3>2
    <3>4. QED
      BY <2>1, <3>3
  <2>5. parser' = PushFirstLine(parser, line)
    BY <1>6, <1>9 DEF PushLine
  <2>6. (IF line[1][1] = "req" THEN line[1][2] ELSE NoUri) \in STRING
    <3>1. line[1] = <<"req", First.uri>>
      BY <1>4, <2>1, <2>2, <2>4
    <3>2. First.uri \in STRING
      BY FirstRequest DEF Requests
    <3>3. QED
      BY <3>1, <3>2
  <2>7. /\ parser'.state = "Headers" /\ parser'.length = NoLength /\ parser'.bodyLength = 0
        /\ ParserType'
    BY <1>8, <2>1, <2>5, <2>6 DEF PushFirstLine, ParserType, ParserStates
  <2>8. QED
    BY <1>1, <1>2, <1>3, <2>1, <2>4, <2>7 DEF HeadInv, c
<1>10. CASE parser.state = "Headers"
  <2>1. /\ p \in {3, 3 + c, 3 + c + x} /\ parser.bodyLength = 0
        /\ p >= 3 + c => parser.length = First.length
    BY <1>10 DEF HeadInv, p, c, x
  <2>2. parser' = PushHeader(parser, line)
    BY <1>6, <1>10 DEF PushLine
  <2>3. CASE p = 3 /\ c = 3
    <3>1. w[4] = <<"cl", First.length>> /\ w[5] = CR /\ w[6] = LF
      BY <1>5, <2>3 DEF WireShape
    <3>2. w[4] # CR
      BY <3>1 DEF CR
    <3>3. n = 3
      <4>1. \A k \in (p + 1)..(6 - 2) : w[k] # CR
        BY <2>3, <3>2
      <4>2. p + 2 <= 6 /\ 6 \in Nat /\ w[6 - 1] = CR /\ w[6] = LF
        BY <2>3, <3>1
      <4>3. n = 6 - p
        BY <1>7, <1>10, <4>1, <4>2
      <4>4. QED
        BY <2>3, <4>3
    <3>4. line # NewLine /\ line[1] = <<"cl", First.length>>
      BY <1>4, <2>3, <3>1, <3>3
    <3>5. parser' = [parser EXCEPT !.length = First.length]
      BY <2>2, <3>4 DEF PushHeader
    <3>6. First.length \in Nat \cup {NoLength}
      BY <1>3
    <3>7. /\ parser'.state = "Headers" /\ parser'.length = First.length
          /\ parser'.bodyLength = 0 /\ ParserType'
      BY <1>8, <1>10, <2>1, <3>5, <3>6 DEF ParserType
    <3>8. Len(pushed)' = 3 + c
      BY <1>2, <2>3, <3>3
    <3>9. QED
      BY <1>1, <3>7, <3>8 DEF HeadInv, c
  <2>4. CASE p = 3 + c /\ x > 0
    <3>1. /\ \A k \in (4 + c)..(1 + c + x) : w[k] = <<"hdr", 0>>
          /\ w[2 + c + x] = CR /\ w[3 + c + x] = LF
      BY <1>5, <2>4 DEF WireShape
    <3>2. <<"hdr", 0>> # CR
      BY DEF CR
    <3>3. n = x
      <4> DEFINE e == 3 + c + x
      <4>1. e \in Nat /\ p + 2 <= e /\ e - 1 = 2 + c + x /\ e - 2 = 1 + c + x /\ p + 1 = 4 + c
        BY <1>3, <2>4
      <4>2. w[e - 1] = CR /\ w[e] = LF /\ \A k \in (p + 1)..(e - 2) : w[k] # CR
        BY <3>1, <3>2, <4>1
      <4>3. n = e - p
        BY <1>7, <1>10, <4>1, <4>2
      <4>4. QED
        BY <1>3, <2>4, <4>3
    <3>4. line # NewLine /\ line[1] = <<"hdr", 0>>
      <4>1. 1 \in 1..n /\ n # 2 /\ p + 1 \in (4 + c)..(1 + c + x)
        BY <1>2, <1>3, <2>4, <3>3
      <4>2. QED
        BY <1>4, <3>1, <4>1
    <3>5. parser' = parser
      BY <2>2, <3>4 DEF PushHeader
    <3>6. Len(pushed)' = 3 + c + x /\ p >= 3 + c
      BY <1>2, <1>3, <2>4, <3>3
    <3>7. QED
      BY <1>1, <1>10, <2>1, <3>5, <3>6 DEF HeadInv, ParserType, c, x
  <2>5. CASE p = 3 + c + x
    <3>1. w[4 + c + x] = CR /\ w[5 + c + x] = LF
      BY <1>5 DEF WireShape
    <3>2. n = 2
      <4> DEFINE e == 5 + c + x
      <4>1. e \in Nat /\ p + 2 <= e /\ e - 1 = 4 + c + x /\ e - 2 < p + 1
        BY <1>3, <2>5
      <4>2. w[e - 1] = CR /\ w[e] = LF /\ \A k \in (p + 1)..(e - 2) : w[k] # CR
        BY <1>2, <3>1, <4>1
      <4>3. n = e - p
        BY <1>7, <1>10, <4>1, <4>2
      <4>4. QED
        BY <1>3, <2>5, <4>3
    <3>3. line = NewLine
      <4>1. p + 1 = 4 + c + x /\ p + 2 = 5 + c + x /\ 1 \in 1..n /\ 2 \in 1..n
        BY <1>3, <2>5, <3>2
      <4>2. QED
        BY <1>4, <3>1, <3>2, <4>1
    <3>4. parser.length = First.length
      BY <1>3, <2>1, <2>5
    <3>5. parser' = [parser EXCEPT !.state = IF First.length = NoLength THEN "Done" ELSE "Body"]
      BY <2>2, <3>3, <3>4 DEF PushHeader
    <3>6. /\ parser'.state = (IF First.length = NoLength THEN "Done" ELSE "Body")
          /\ parser'.length = First.length /\ parser'.bodyLength = 0 /\ ParserType'
      BY <1>8, <2>1, <3>4, <3>5 DEF ParserType, ParserStates
    <3>7. Len(pushed)' = HeadEnd
      BY <1>2, <1>3, <2>5, <3>2
    <3>8. QED
      BY <1>1, <1>3, <3>6, <3>7 DEF HeadInv
  <2>6. QED
    BY <1>3, <2>1, <2>3, <2>4, <2>5
<1>11. CASE parser.state = "Body"
  <2>1. parser.length = First.length /\ First.length # NoLength /\ p = HeadEnd + parser.bodyLength
    BY <1>11 DEF HeadInv, p
  <2>2. parser' = PushBody(parser, line)
    BY <1>6, <1>11 DEF PushLine
  <2> DEFINE b == parser.bodyLength + n
  <2>3. b \in Nat
    BY <1>2, <1>8
  <2>4. parser' = [parser EXCEPT !.bodyLength = b,
                                 !.state = IF b >= parser.length THEN "Done" ELSE "Body"]
    BY <1>4, <2>2 DEF PushBody
  <2> HIDE DEF b
  <2>5. /\ parser'.state = (IF b >= First.length THEN "Done" ELSE "Body")
        /\ parser'.length = First.length /\ parser'.bodyLength = b /\ ParserType'
    BY <1>8, <2>1, <2>3, <2>4 DEF ParserType, ParserStates
  <2>6. Len(pushed)' = HeadEnd + b
    BY <1>2, <1>3, <1>8, <2>1 DEF b
  <2>7. b >= First.length => Len(pushed)' >= Expected
    BY <1>3, <2>1, <2>3, <2>6
  <2>8. QED
    BY <1>1, <2>1, <2>5, <2>6, <2>7 DEF HeadInv
<1>12. CASE parser.state = "Done"
  <2>1. parser' = parser
    BY <1>6, <1>12 DEF PushLine
  <2>2. Len(pushed)' >= Expected
    BY <1>2, <1>3, <1>12 DEF HeadInv, p
  <2>3. QED
    BY <1>1, <1>12, <2>1, <2>2 DEF HeadInv, ParserType
<1>13. QED
  BY <1>8, <1>9, <1>10, <1>11, <1>12 DEF ParserStates

-----------------------------------------------------------------------------
(* The calls of the handler.  A connection is only served while it is      *)
(* open; 1 is returned only when the parser is Done; and the final call    *)
(* comes after all of the first request, and closes.                       *)
Calls == [uri : STRING, partial : Seq(Byte), final : BOOLEAN]

CallsInv ==
    /\ calls \in Seq(Calls)
    /\ partialBody \in Seq(Byte)
    /\ pc # "wait" => open
    /\ pc = "dispatch" /\ ret = 1 => parser.state = "Done"
    /\ \A i \in DOMAIN calls : calls[i].final => Len(pushed) >= Expected
    /\ ~script.keep => \A i \in DOMAIN calls : calls[i].final => i = Len(calls) /\ ~open

ConnectionInv == StreamInv /\ TypeOK /\ HeadInv /\ CallsInv

LEMMA InitConnection == Init => ConnectionInv
<1> SUFFICES ASSUME Init PROVE ConnectionInv
  OBVIOUS
<1>1. StreamInv
  BY InitStream
<1>2. TypeOK /\ HeadInv
  <2>1. /\ eof = FALSE /\ open = TRUE /\ pc = "wait" /\ ret = -1 /\ Len(pushed) = 0
        /\ parser = [state |-> "FirstLine", uri |-> NoUri, length |-> NoLength, bodyLength |-> 0]
    BY DEF Init
  <2>2. NoUri \in STRING
    BY ConnectionAssumption
  <2>3. ParserType
    BY <2>1, <2>2 DEF ParserType, ParserStates
  <2>4. HeadInv
    BY <2>1 DEF HeadInv
  <2>5. TypeOK
    <3>1. ret \in -2..1
      BY <2>1
    <3>2. QED
      BY <2>1, <2>3, <3>1 DEF TypeOK, ParserType
  <2>6. QED
    BY <2>4, <2>5
<1>3. CallsInv
  BY DEF Init, CallsInv
<1>4. QED
  BY <1>1, <1>2, <1>3 DEF ConnectionInv

(* Steps that leave the stream's end, the parser and the calls alone.      *)
LEMMA QuietStep ==
    ASSUME ConnectionInv, StreamInv',
           UNCHANGED <<script, parser, calls, pushed>>,
           eof' \in BOOLEAN, open' \in BOOLEAN, partialBody' \in Seq(Byte),
           pc' \in {"wait", "read", "line", "dispatch"}, ret' \in -2..1,
           open' => open, pc' # "wait" => open',
           pc' = "dispatch" /\ ret' = 1 => parser.state = "Done"
    PROVE  ConnectionInv'
<1>1. TypeOK /\ HeadInv /\ CallsInv
  BY DEF ConnectionInv
<1>2. First' = First /\ Expected' = Expected /\ HeadEnd' = HeadEnd
      /\ ClLine' = ClLine /\ ExtraLine' = ExtraLine
  BY DEF First, Expected, HeadEnd, ClLine, ExtraLine
<1>3. TypeOK'
  BY <1>1 DEF TypeOK
<1>4. HeadInv'
  BY <1>1, <1>2 DEF HeadInv
<1>5. CallsInv'
  BY <1>1, <1>2 DEF CallsInv
<1>6. QED
  BY <1>3, <1>4, <1>5 DEF ConnectionInv

LEMMA PushKeeps ==
    ASSUME ConnectionInv, NEW n \in 1..Len(buffer), Push(n), pc = "line",
           parser.state \in {"FirstLine", "Headers"} => n \in FirstLineEnd(buffer),
           partialBody' \in Seq(Byte)
    PROVE  ConnectionInv'
<1>1. StreamInv /\ TypeOK /\ HeadInv /\ CallsInv
  BY DEF ConnectionInv
<1>2. ParserType
  BY <1>1 DEF TypeOK, ParserType
<1>3. ParserType' /\ HeadInv'
  BY <1>1, <1>2, ParserStep
<1>4. n \in 0..Len(buffer)
  OBVIOUS
<1>5. StreamInv'
  BY <1>1, <1>4, PushStream
<1>6. /\ UNCHANGED <<script, eof, open, calls>>
      /\ IF parser'.state \in {"Body", "Done"}
         THEN pc' = "dispatch" /\ ret' = StateRet(parser'.state)
         ELSE pc' = pc /\ ret' = ret
  BY DEF Push, Return, clientVars
<1>7. parser'.state \in ParserStates
  BY <1>3 DEF ParserType
<1>8. /\ pc' \in {"line", "dispatch"} /\ ret' \in -2..1
      /\ pc' = "dispatch" /\ ret' = 1 => parser'.state = "Done"
  <2>1. CASE parser'.state = "Body"
    BY <1>6, <2>1 DEF StateRet
  <2>2. CASE parser'.state = "Done"
    BY <1>6, <2>2 DEF StateRet
  <2>3. CASE parser'.state \notin {"Body", "Done"}
    BY <1>1, <1>6, <2>3 DEF TypeOK
  <2>4. QED
    BY <2>1, <2>2, <2>3
<1>9. TypeOK'
  BY <1>1, <1>3, <1>6, <1>8 DEF TypeOK, ParserType
<1>10. Expected' = Expected /\ Expected \in Nat /\ Len(pushed) \in Nat /\ Len(pushed') >= Len(pushed)
       /\ Len(pushed') \in Nat
  <2>1. Expected' = Expected
    BY <1>6 DEF Expected, HeadEnd, ClLine, ExtraLine, First
  <2>2. Expected \in Nat
    BY <1>1, FirstRequest
  <2> DEFINE l == Take(buffer, n)
  <2>3. pushed \in Seq(Byte) /\ buffer \in Seq(Byte)
    BY <1>1 DEF StreamInv, StreamType
  <2>4. l \in Seq(Byte) /\ pushed' = pushed \o l
    BY <1>4, <2>3, Cut DEF Push
  <2> HIDE DEF l
  <2>5. Len(pushed') = Len(pushed) + Len(l) /\ Len(pushed) \in Nat /\ Len(l) \in Nat
    BY <2>3, <2>4, ConcatProperties
  <2>6. QED
    BY <2>1, <2>2, <2>5
<1>11. CallsInv'
  <2>1. calls \in Seq(Calls) /\ open
    BY <1>1 DEF CallsInv
  <2>2. \A i \in DOMAIN calls' : calls'[i].final => Len(pushed') >= Expected'
    BY <1>1, <1>6, <1>10 DEF CallsInv
  <2>3. QED
    BY <1>1, <1>6, <1>8, <2>1, <2>2 DEF CallsInv
<1>12. QED
  BY <1>3, <1>5, <1>9, <1>11 DEF ConnectionInv

LEMMA CallKeeps ==
    ASSUME ConnectionInv, NEW takes \in BOOLEAN, CallHandler(takes)
    PROVE  ConnectionInv'
<1>1. StreamInv /\ TypeOK /\ HeadInv /\ CallsInv
  BY DEF ConnectionInv
<1> DEFINE r == [uri |-> parser.uri, partial |-> partialBody, final |-> ret = 1]
<1>2. /\ pc = "dispatch" /\ ret \in {0, 1}
      /\ calls' = Append(calls, r)
      /\ partialBody' = IF takes THEN <<>> ELSE partialBody
      /\ open' = (ret = 0 \/ script.keep)
      /\ pc' = "wait"
      /\ UNCHANGED <<script, toSend, sock, eof, buffer, parser, ret, pushed>>
  BY DEF CallHandler, clientVars
<1>3. r \in Calls /\ (r.final <=> ret = 1)
  BY <1>1 DEF CallsInv, Calls, TypeOK
<1> HIDE DEF r
<1>4. StreamInv'
  BY <1>1, <1>2 DEF StreamInv, StreamType, BufferBound, ByteConservation
<1>5. First' = First /\ Expected' = Expected /\ HeadEnd' = HeadEnd
      /\ ClLine' = ClLine /\ ExtraLine' = ExtraLine
  BY <1>2 DEF First, Expected, HeadEnd, ClLine, ExtraLine
<1>6. HeadInv'
  BY <1>1, <1>2, <1>5 DEF HeadInv
<1>7. TypeOK'
  <2>1. script.keep \in BOOLEAN
    BY <1>1, ConnectionAssumption DEF StreamInv, StreamType
  <2>2. open' \in BOOLEAN
    BY <1>2, <2>1
  <2>3. QED
    BY <1>1, <1>2, <2>2 DEF TypeOK
<1>8. /\ calls \in Seq(Calls) /\ calls' \in Seq(Calls) /\ Len(calls) \in Nat
      /\ Len(calls') = Len(calls) + 1
      /\ DOMAIN calls = 1..Len(calls) /\ DOMAIN calls' = 1..(Len(calls) + 1)
      /\ \A i \in 1..Len(calls) : calls'[i] = calls[i]
      /\ calls'[Len(calls) + 1] = r
  <2>1. calls \in Seq(Calls)
    BY <1>1 DEF CallsInv
  <2>2. QED
    BY <1>2, <1>3, <2>1, AppendProperties, LenProperties
<1>9. \A i \in DOMAIN calls' : calls'[i].final => Len(pushed') >= Expected'
  <2>1. ret = 1 => Len(pushed) >= Expected
    BY <1>1, <1>2 DEF CallsInv, HeadInv
  <2>2. QED
    BY <1>1, <1>2, <1>3, <1>5, <1>8, <2>1 DEF CallsInv
<1>10. ASSUME ~script'.keep, NEW i \in DOMAIN calls', calls'[i].final
       PROVE  i = Len(calls') /\ ~open'
  <2>1. open /\ ~script.keep
    BY <1>1, <1>2, <1>10 DEF CallsInv
  <2>2. i \notin 1..Len(calls)
    BY <1>1, <1>8, <1>10, <2>1 DEF CallsInv
  <2>3. i = Len(calls) + 1
    BY <1>8, <2>2
  <2>4. ret = 1
    BY <1>3, <1>8, <1>10, <2>3
  <2>5. QED
    <3>1. ~(ret = 0 \/ script.keep)
      BY <2>1, <2>4
    <3>2. ~open'
      BY <1>2, <3>1, Zenon
    <3>3. QED
      BY <1>8, <2>3, <3>2
<1>11. partialBody' \in Seq(Byte)
  BY <1>1, <1>2 DEF CallsInv
<1>12. CallsInv'
  BY <1>2, <1>8, <1>9, <1>10, <1>11 DEF CallsInv
<1>13. QED
  BY <1>4, <1>6, <1>7, <1>12 DEF ConnectionInv

LEMMA ConnectionStep == ConnectionInv /\ [Next]_vars => ConnectionInv'
<1> SUFFICES ASSUME ConnectionInv, [Next]_vars PROVE ConnectionInv'
  OBVIOUS
<1>1. StreamInv /\ StreamInv' /\ TypeOK /\ CallsInv
  BY StreamStep DEF ConnectionInv
<1>2. /\ partialBody \in Seq(Byte) /\ (pc # "wait" => open)
      /\ (pc = "dispatch" /\ ret = 1 => parser.state = "Done")
      /\ eof \in BOOLEAN /\ open \in BOOLEAN /\ parser.state \in ParserStates
      /\ pc \in {"wait", "read", "line", "dispatch"} /\ ret \in -2..1
      /\ buffer \in Seq(Byte)
  BY <1>1 DEF TypeOK, CallsInv, StreamInv, StreamType
<1>3. ASSUME NEW n \in 1..Len(toSend), Send(n)
      PROVE  ConnectionInv'
  BY <1>1, <1>2, <1>3, QuietStep DEF Send
<1>4. CASE ClientClose
  BY <1>1, <1>2, <1>4, QuietStep DEF ClientClose, clientVars
<1>5. CASE EpollIn
  BY <1>1, <1>2, <1>5, QuietStep DEF EpollIn, clientVars
<1>6. CASE ReadData
  BY <1>1, <1>2, <1>6, QuietStep DEF ReadData, clientVars
<1>7. CASE ReadZero
  BY <1>1, <1>2, <1>7, QuietStep DEF ReadZero, Return, clientVars
<1>8. CASE ReadAgain
  <2>1. StateRet(parser.state) \in -1..1 /\ (StateRet(parser.state) = 1 => parser.state = "Done")
    BY <1>2 DEF StateRet, ParserStates
  <2>2. ret' \in -2..1 /\ (ret' = 1 => parser.state = "Done")
    BY <1>8, <2>1 DEF ReadAgain, Return
  <2>3. QED
    BY <1>1, <1>2, <1>8, <2>2, QuietStep DEF ReadAgain, Return, clientVars
<1>9. CASE ReadInterrupted
  BY <1>1, <1>2, <1>9, QuietStep DEF ReadInterrupted, clientVars
<1>10. CASE PushPoppedLine
  <2>1. PICK n \in FirstLineEnd(buffer) : Push(n)
    BY <1>10 DEF PushPoppedLine
  <2>2. n \in 1..Len(buffer)
    BY DEF FirstLineEnd, LineEnds
  <2>3. pc = "line" /\ partialBody' = partialBody
    BY <1>10 DEF PushPoppedLine
  <2>4. QED
    BY <1>2, <2>1, <2>2, <2>3, PushKeeps
<1>11. CASE PushChunk
  <2>1. Len(buffer) \in 1..Len(buffer)
    BY <1>2, <1>11 DEF PushChunk
  <2>2. pc = "line" /\ partialBody' = buffer /\ Push(Len(buffer)) /\ parser.state = "Body"
    BY <1>11 DEF PushChunk
  <2>3. QED
    BY <1>2, <2>1, <2>2, PushKeeps
<1>12. CASE NoLine
  BY <1>1, <1>2, <1>12, QuietStep DEF NoLine, clientVars
<1>13. CASE ResultClosed \/ ResultIncomplete \/ ResultNotFound
  BY <1>1, <1>2, <1>13, QuietStep DEF ResultClosed, ResultIncomplete, ResultNotFound, clientVars
<1>14. ASSUME NEW takes \in BOOLEAN, CallHandler(takes)
       PROVE  ConnectionInv'
  BY <1>14, CallKeeps
<1>15. CASE UNCHANGED vars
  BY <1>1, <1>2, <1>15, QuietStep DEF vars
<1>16. QED
  BY <1>3, <1>4, <1>5, <1>6, <1>7, <1>8, <1>9, <1>10, <1>11, <1>12, <1>13, <1>14, <1>15
     DEF Next, Client, ReadResult, Line, Result

LEMMA ConnectionCorrect == Spec => []ConnectionInv
BY InitConnection, ConnectionStep, PTL DEF Spec

(* The parser keeps to its four states, and ProcessDataIn to the results   *)
(* that Poll knows.                                                        *)
THEOREM TypeCorrect == Spec => []TypeOK
<1>1. ConnectionInv => TypeOK
  BY DEF ConnectionInv
<1>2. QED
  BY <1>1, ConnectionCorrect, PTL

(* is_final is passed only when the head of the first request and as many  *)
(* bytes behind it as its Content-Length says were consumed, however the   *)
(* reads cut the lines.                                                    *)
THEOREM FinalIsCompleteHolds == Spec => []FinalIsComplete
<1>1. ConnectionInv => FinalIsComplete
  <2> SUFFICES ASSUME ConnectionInv PROVE FinalIsComplete
    OBVIOUS
  <2>1. Len(HeadBytes(First)) = HeadEnd
    BY FirstRequest DEF ConnectionInv
  <2>2. \A i \in DOMAIN calls : calls[i].final => Len(pushed) >= Expected
    BY DEF ConnectionInv, CallsInv
  <2>3. QED
    BY <2>1, <2>2 DEF FinalIsComplete, Expected, First
<1>2. QED
  BY <1>1, ConnectionCorrect, PTL

(* A handler that does not keep the connection is not called again.        *)
THEOREM FinalIsLastHolds == Spec => []FinalIsLast
<1>1. ConnectionInv => FinalIsLast
  BY DEF ConnectionInv, CallsInv, FinalIsLast
<1>2. QED
  BY <1>1, ConnectionCorrect, PTL

-----------------------------------------------------------------------------
(* The body, for a client that waits.  Dropping a prefix that is shorter   *)
(* or longer than the first of two sequences.                              *)
LEMMA DropShort ==
    ASSUME NEW S, NEW s \in Seq(S), NEW n \in Nat, Len(s) <= n
    PROVE  Drop(s, n) = <<>>
BY DEF Drop

LEMMA DropConcat ==
    ASSUME NEW S, NEW s \in Seq(S), NEW t \in Seq(S), NEW n \in 0..Len(s)
    PROVE  Drop(s \o t, n) = Drop(s, n) \o t
<1>1. /\ Take(s, n) \in Seq(S) /\ Drop(s, n) \in Seq(S) /\ Len(Take(s, n)) = n
      /\ Take(s, n) \o Drop(s, n) = s
  BY Cut
<1>2. PICK a \in Seq(S), b \in Seq(S) : a = Take(s, n) /\ b = Drop(s, n)
  BY <1>1
<1>3. (a \o b) \o t = a \o (b \o t)
  BY ConcatAssociative
<1>4. PICK bt \in Seq(S) : bt = b \o t
  BY ConcatProperties
<1>5. Len(a) = n /\ a \o b = s
  BY <1>1, <1>2
<1>6. Drop(a \o bt, n) = bt
  BY <1>5 DEF Drop
<1>7. QED
  BY <1>2, <1>3, <1>4, <1>5, <1>6, Zenon

(* The lengths of the four parts of the stream add up.                     *)
LEMMA StreamLength ==
    ASSUME StreamInv
    PROVE  /\ Len(pushed) \in Nat /\ Len(buffer) \in Nat /\ Len(sock) \in Nat /\ Len(toSend) \in Nat
           /\ Len(Wire(script)) = Len(pushed) + Len(buffer) + Len(sock) + Len(toSend)
<1>1. pushed \in Seq(Byte) /\ buffer \in Seq(Byte) /\ sock \in Seq(Byte) /\ toSend \in Seq(Byte)
  BY DEF StreamInv, StreamType
<1> DEFINE pb == pushed \o buffer
           pbs == pb \o sock
           w == pbs \o toSend
<1>2. pb \in Seq(Byte) /\ Len(pb) = Len(pushed) + Len(buffer)
  BY <1>1, ConcatProperties
<1> HIDE DEF pb
<1>3. pbs \in Seq(Byte) /\ Len(pbs) = Len(pb) + Len(sock)
  BY <1>1, <1>2, ConcatProperties
<1> HIDE DEF pbs
<1>4. Len(w) = Len(pbs) + Len(toSend)
  BY <1>1, <1>3, ConcatProperties
<1>5. w = Wire(script)
  BY DEF StreamInv, ByteConservation, pb, pbs
<1> HIDE DEF w
<1>6. QED
  BY <1>1, <1>2, <1>3, <1>4, <1>5

(* One request on the wire is its head and its body.                       *)
LEMMA WirePlain ==
    ASSUME StreamInv, PlainClient
    PROVE  /\ First.body \in Seq(Byte)
           /\ Follows(Byte, Wire(script), HeadBytes(First), First.body)
<1> DEFINE n == Len(script.requests)
           B == [i \in 1..n |-> HeadBytes(script.requests[i]) \o script.requests[i].body]
           h == HeadBytes(First)
           hb == h \o First.body
<1>1. n = 1
  BY DEF PlainClient
<1>2. Wire(script) = Joined(B)
  BY DEF Wire
<1>3. First \in Requests /\ h \in Seq(Byte)
  <2>1. First \in Requests
    BY FirstRequest
  <2>2. QED
    BY <2>1, HeadHasShape DEF HeadShape
<1>4. First.body \in Seq(Byte)
  <2>1. First.body \in Seq({"dat", "cr", "lf"} \X Nat) /\ {"dat", "cr", "lf"} \X Nat \subseteq Byte
    BY <1>3 DEF Requests, Byte
  <2>2. QED
    BY <2>1, SeqMonotonic
<1>5. Follows(Byte, hb, h, First.body)
  <2> HIDE DEF h
  <2>1. QED
    BY <1>3, <1>4, ConcatFollows
<1>6. hb \in Seq(Byte)
  BY <1>5 DEF Follows
<1>7. B = [i \in 1..1 |-> hb]
  <2>1. \A i \in 1..1 : i = 1
    OBVIOUS
  <2>2. B = [i \in 1..1 |-> HeadBytes(script.requests[i]) \o script.requests[i].body]
    BY <1>1
  <2>3. \A i \in 1..1 : HeadBytes(script.requests[i]) \o script.requests[i].body = hb
    BY <2>1 DEF First
  <2>4. QED
    BY <2>2, <2>3
<1> HIDE DEF hb, B
<1>8. B \in [1..(0 + 1) -> Seq(Byte)] /\ B[0 + 1] = hb
  BY <1>6, <1>7
<1> DEFINE A == << >>
<1>9. A \in [1..0 -> Seq(Byte)] /\ SameParts(A, B, 0)
  BY DEF SameParts
<1> HIDE DEF A
<1>10. Joined(B) = Joined(A) \o B[0 + 1]
  BY <1>8, <1>9, JoinedNext
<1>11. Joined(A) = <<>>
  BY <1>9, JoinedProperties
<1>12. Joined(B) = hb
  BY <1>6, <1>8, <1>10, <1>11, ConcatEmptySeq
<1>13. QED
  BY <1>2, <1>4, <1>5, <1>12

(* Behind the head such a client's bytes hold no CR LF for PopLine.        *)
LEMMA NoLineInBody ==
    ASSUME StreamInv, PlainClient, Len(pushed) >= HeadEnd
    PROVE  LineEnds(buffer) = {}
<1> DEFINE p == Len(pushed)
           w == Wire(script)
           b == First.body
           H == HeadEnd
<1>1. /\ p \in Nat /\ Len(buffer) \in Nat
      /\ \A k \in 1..Len(buffer) : buffer[k] = w[p + k]
  BY BufferOnWire
<1>2. H \in Nat /\ Len(HeadBytes(First)) = H
  BY FirstRequest
<1>3. /\ b \in Seq(Byte) /\ Len(w) = H + Len(b)
      /\ \A k \in 1..Len(b) : w[H + k] = b[k]
  BY <1>2, WirePlain DEF Follows
<1>4. p + Len(buffer) <= Len(w) /\ p >= H
  BY StreamLength
<1>5. LineEnds(b) = {}
  BY DEF PlainClient, First
<1> HIDE DEF p, w, b, H
<1>6. Len(b) \in Nat
  BY <1>3
<1> SUFFICES ASSUME NEW i \in LineEnds(buffer) PROVE FALSE
  OBVIOUS
<1>7. i \in 2..Len(buffer) /\ buffer[i-1] = CR /\ buffer[i] = LF
  BY DEF LineEnds
<1> DEFINE j == (p - H) + i
<1>8. j \in 2..Len(b) /\ j - 1 \in 1..Len(b) /\ H + j = p + i /\ H + (j - 1) = p + (i - 1)
      /\ i - 1 \in 1..Len(buffer) /\ i \in 1..Len(buffer)
  BY <1>1, <1>2, <1>3, <1>4, <1>6, <1>7
<1> HIDE DEF j
<1>9. b[j - 1] = CR /\ b[j] = LF
  <2>1. j \in 1..Len(b)
    BY <1>6, <1>8
  <2>2. w[H + (j - 1)] = b[j - 1] /\ w[H + j] = b[j]
    BY <1>3, <1>8, <2>1, Zenon
  <2>3. buffer[i - 1] = w[p + (i - 1)] /\ buffer[i] = w[p + i]
    BY <1>1, <1>8, Zenon
  <2>4. QED
    BY <1>7, <1>8, <2>2, <2>3, Zenon
<1>10. j \in LineEnds(b)
  BY <1>8, <1>9 DEF LineEnds
<1>11. QED
  BY <1>5, <1>10

(* What was delivered: nothing before the first call, and each call adds   *)
(* the part it passes.                                                     *)
LEMMA DeliveredParts ==
    ASSUME calls \in Seq(Calls)
    PROVE  /\ Delivered \in Seq(Byte)
           /\ calls = <<>> => Delivered = <<>>
<1> DEFINE N == Len(calls)
           A == [i \in 1..N |-> calls[i].partial]
<1>1. N \in Nat /\ A \in [1..N -> Seq(Byte)] /\ (calls = <<>> => N = 0)
  <2>1. N \in Nat /\ \A i \in 1..N : calls[i] \in Calls
    BY LenProperties
  <2>2. \A i \in 1..N : calls[i].partial \in Seq(Byte)
    BY <2>1 DEF Calls
  <2>3. calls = <<>> => N = 0
    OBVIOUS
  <2>4. QED
    BY <2>1, <2>2, <2>3
<1>2. Delivered = Joined(A)
  BY DEF Delivered
<1> HIDE DEF A, N
<1>3. QED
  BY <1>1, <1>2, JoinedProperties

LEMMA DeliveredNext ==
    ASSUME calls \in Seq(Calls), NEW c \in Calls, calls' = Append(calls, c)
    PROVE  Delivered' = Delivered \o c.partial
<1> DEFINE N == Len(calls)
           A == [i \in 1..N |-> calls[i].partial]
           B == [i \in 1..Len(calls') |-> calls'[i].partial]
<1>1. /\ N \in Nat /\ Len(calls') = N + 1
      /\ \A i \in 1..N : calls[i] \in Calls /\ calls'[i] = calls[i]
      /\ calls'[N + 1] = c
  BY AppendProperties, LenProperties
<1>2. A \in [1..N -> Seq(Byte)]
  BY <1>1 DEF Calls
<1>3. B \in [1..(N + 1) -> Seq(Byte)]
  <2>1. \A i \in 1..(N + 1) : i \in 1..N \/ i = N + 1
    BY <1>1
  <2>2. \A i \in 1..(N + 1) : calls'[i].partial \in Seq(Byte)
    BY <1>1, <2>1 DEF Calls
  <2>3. QED
    BY <1>1, <2>2
<1>4. SameParts(A, B, N) /\ B[N + 1] = c.partial
  BY <1>1 DEF SameParts
<1>5. Delivered = Joined(A) /\ Delivered' = Joined(B)
  BY DEF Delivered
<1> HIDE DEF A, B, N
<1>6. Joined(B) = Joined(A) \o B[N + 1]
  BY <1>1, <1>2, <1>3, <1>4, JoinedNext
<1>7. QED
  BY <1>4, <1>5, <1>6

(* How far the parts delivered go.  Until the first call the client holds  *)
(* the body back; in the body a turn of the loop starts with an empty      *)
(* buffer, so that a chunk is pushed and delivered before the next is      *)
(* read, and EAGAIN cannot pass the old one again; Done is left only to    *)
(* close.                                                                  *)
Consumed == Drop(pushed, HeadEnd)
Calling == pc = "dispatch" /\ ret \in {0, 1}

HeldBack == calls = <<>> => Len(pushed) + Len(buffer) + Len(sock) <= HeadEnd
RoutedCalls == calls # <<>> => parser.uri \in Routes
HeadCalls == parser.state \in {"FirstLine", "Headers"} =>
                 calls = <<>> /\ partialBody = <<>> /\ ~Calling
PartsAccounted == /\ Calling => Delivered \o partialBody = Consumed
                  /\ ~Calling => Delivered = Consumed
BodyTurns == parser.state = "Body" => /\ pc # "line" => buffer = <<>>
                                      /\ pc = "read" => sock # <<>> \/ eof
                                      /\ pc = "line" => buffer # <<>> \/ sock # <<>> \/ eof
DoneEnds == parser.state = "Done" => \/ pc = "wait" /\ ~open
                                     \/ pc = "dispatch" /\ ret = 1

BodyParts == /\ HeldBack
             /\ RoutedCalls
             /\ HeadCalls
             /\ PartsAccounted
             /\ BodyTurns
             /\ DoneEnds

BodyInv == PlainClient => BodyParts

LEMMA InitBody == Init => BodyInv
<1> SUFFICES ASSUME Init PROVE BodyParts
  BY DEF BodyInv
<1>1. ConnectionInv
  BY InitConnection
<1>2. /\ calls = <<>> /\ pushed = <<>> /\ buffer = <<>> /\ sock = <<>> /\ partialBody = <<>>
      /\ pc = "wait" /\ parser.state = "FirstLine"
  BY DEF Init
<1>3. HeadEnd \in Nat
  BY <1>1, FirstRequest DEF ConnectionInv
<1>4. Delivered = <<>>
  BY <1>1, <1>2, DeliveredParts DEF ConnectionInv, CallsInv
<1>5. Consumed = <<>>
  <2>1. pushed \in Seq(Byte) /\ Len(pushed) <= HeadEnd
    BY <1>2, <1>3
  <2>2. QED
    BY <1>3, <2>1, DropShort, Zenon DEF Consumed
<1>6. QED
  BY <1>2, <1>3, <1>4, <1>5 DEF BodyParts, HeldBack, RoutedCalls, HeadCalls, PartsAccounted,
     BodyTurns, DoneEnds, Calling

(* Steps that push nothing and call nobody.                                *)
LEMMA BodyQuiet ==
    ASSUME BodyParts, UNCHANGED <<script, parser, partialBody, calls, pushed>>,
           ~Calling', (Calling => calls = <<>> /\ Delivered = Consumed),
           HeldBack', BodyTurns', DoneEnds'
    PROVE  BodyParts'
<1>1. HeadEnd' = HeadEnd
  BY DEF HeadEnd, ClLine, ExtraLine, First
<1>2. Consumed' = Consumed /\ Delivered' = Delivered
  BY <1>1 DEF Consumed, Delivered
<1>3. PartsAccounted'
  BY <1>2 DEF BodyParts, PartsAccounted
<1>4. HeadCalls' /\ RoutedCalls'
  BY DEF BodyParts, HeadCalls, RoutedCalls
<1>5. QED
  BY <1>3, <1>4 DEF BodyParts

LEMMA SendBody ==
    ASSUME ConnectionInv, PlainClient, BodyParts, NEW n \in 1..Len(toSend), Send(n)
    PROVE  BodyParts'
<1>1. /\ ~eof /\ open
      /\ calls # <<>> \/ n <= HeadLeft
      /\ sock' = sock \o Take(toSend, n)
      /\ UNCHANGED <<script, eof, open, buffer, parser, partialBody, pc, ret, calls, pushed>>
  BY DEF Send, PlainClient
<1>2. StreamInv
  BY DEF ConnectionInv
<1>3. sock \in Seq(Byte) /\ toSend \in Seq(Byte) /\ Len(toSend) \in Nat
  BY <1>2 DEF StreamInv, StreamType
<1> DEFINE l == Take(toSend, n)
<1>4. l \in Seq(Byte) /\ Len(l) = n /\ sock' = sock \o l
  BY <1>1, <1>3, Cut
<1> HIDE DEF l
<1>5. Len(sock') = Len(sock) + n /\ sock' # <<>>
  <2>1. Follows(Byte, sock', sock, l) /\ Len(sock) \in Nat
    BY <1>3, <1>4, ConcatFollows
  <2>2. Len(sock') = Len(sock) + n
    BY <1>4, <2>1 DEF Follows
  <2>3. Len(sock') # 0
    BY <2>1, <2>2
  <2>4. QED
    BY <2>2, <2>3
<1>6. HeadEnd' = HeadEnd /\ Consumed' = Consumed /\ Delivered' = Delivered /\ Calling' = Calling
  BY <1>1 DEF HeadEnd, ClLine, ExtraLine, First, Consumed, Delivered, Calling
<1>7. HeldBack'
  <2>1. HeadLeft = HeadEnd - (Len(Wire(script)) - Len(toSend))
    BY <1>2, FirstRequest DEF HeadLeft, First
  <2>2. calls = <<>> => Len(pushed) + Len(buffer) + Len(sock) + n <= HeadEnd
    BY <1>1, <1>2, <2>1, StreamLength, FirstRequest
  <2>3. Len(pushed) \in Nat /\ Len(buffer) \in Nat /\ Len(sock) \in Nat
    BY <1>2, StreamLength
  <2>4. QED
    BY <1>1, <1>5, <1>6, <2>2, <2>3 DEF HeldBack
<1>8. PartsAccounted' /\ HeadCalls' /\ RoutedCalls'
  BY <1>1, <1>6 DEF BodyParts, PartsAccounted, HeadCalls, RoutedCalls
<1>9. BodyTurns' /\ DoneEnds'
  BY <1>1, <1>5 DEF BodyParts, BodyTurns, DoneEnds
<1>10. QED
  BY <1>7, <1>8, <1>9 DEF BodyParts

LEMMA ReadBody ==
    ASSUME ConnectionInv, PlainClient, BodyParts, ReadData
    PROVE  BodyParts'
<1>1. /\ pc = "read" /\ pc' = "line"
      /\ UNCHANGED <<script, toSend, eof, open, parser, partialBody, ret, calls, pushed>>
  BY DEF ReadData, clientVars
<1>2. StreamInv /\ StreamInv'
  BY StreamStep DEF ConnectionInv, Next, ReadResult
<1>3. Len(buffer') > 0 /\ Len(buffer') + Len(sock') = Len(buffer) + Len(sock)
  <2> DEFINE n == Least(BufferSize - Len(buffer), Len(sock))
  <2>1. n > 0 /\ buffer' = buffer \o Take(sock, n)
    BY DEF ReadData
  <2>2. n \in 0..Len(sock)
    BY <1>2, <2>1, ConnectionAssumption, LenProperties DEF StreamInv, StreamType, BufferBound, Least
  <2> HIDE DEF n
  <2>3. buffer \in Seq(Byte) /\ sock \in Seq(Byte)
    BY <1>2 DEF StreamInv, StreamType
  <2>4. Take(sock, n) \in Seq(Byte) /\ Len(Take(sock, n)) = n
    BY <2>2, <2>3, Cut
  <2>5. Len(buffer') = Len(buffer) + n
    BY <2>1, <2>3, <2>4, ConcatProperties
  <2>6. /\ Len(pushed) \in Nat /\ Len(buffer) \in Nat /\ Len(sock) \in Nat /\ Len(toSend) \in Nat
        /\ Len(Wire(script)) = Len(pushed) + Len(buffer) + Len(sock) + Len(toSend)
    BY <1>2, StreamLength
  <2>7. Len(sock') = Len(sock) - n
    BY <2>2, <2>3 DEF ReadData, Drop, n
  <2>8. QED
    BY <2>1, <2>2, <2>5, <2>6, <2>7
<1>4. buffer' # <<>>
  BY <1>3
<1>5. HeadEnd' = HeadEnd
  BY <1>1 DEF HeadEnd, ClLine, ExtraLine, First
<1>6. HeldBack'
  <2>1. /\ Len(pushed) \in Nat /\ Len(buffer) \in Nat /\ Len(sock) \in Nat
        /\ Len(buffer') \in Nat /\ Len(sock') \in Nat /\ HeadEnd \in Nat
    BY <1>2, StreamLength, FirstRequest DEF StreamInv, StreamType
  <2>2. QED
    BY <1>1, <1>3, <1>5, <2>1 DEF BodyParts, HeldBack
<1>7. BodyTurns' /\ DoneEnds' /\ ~Calling /\ ~Calling'
  BY <1>1, <1>4 DEF BodyParts, BodyTurns, DoneEnds, Calling
<1>8. QED
  BY <1>1, <1>6, <1>7, BodyQuiet

LEMMA PushLengths ==
    ASSUME StreamInv, NEW n \in 0..Len(buffer), Push(n)
    PROVE  /\ Len(pushed') = Len(pushed) + n /\ Len(buffer') = Len(buffer) - n
           /\ Len(pushed) \in Nat /\ Len(buffer) \in Nat
<1>1. pushed \in Seq(Byte) /\ buffer \in Seq(Byte) /\ Len(pushed) \in Nat /\ Len(buffer) \in Nat
  BY DEF StreamInv, StreamType
<1> DEFINE l == Take(buffer, n)
<1>2. l \in Seq(Byte) /\ Len(l) = n /\ pushed' = pushed \o l
  BY <1>1, Cut DEF Push
<1> HIDE DEF l
<1>3. Follows(Byte, pushed', pushed, l)
  BY <1>1, <1>2, ConcatFollows
<1>4. buffer' = SubSeq(buffer, n + 1, Len(buffer))
  BY DEF Push, Drop
<1>5. Len(buffer') = Len(buffer) - n
  BY <1>1, <1>4
<1>6. QED
  BY <1>1, <1>2, <1>3, <1>5 DEF Follows

(* A line is popped only from the head.                                    *)
LEMMA LineBody ==
    ASSUME ConnectionInv, ConnectionInv', PlainClient, BodyParts, PushPoppedLine
    PROVE  BodyParts'
<1>1. PICK n \in FirstLineEnd(buffer) : Push(n)
  BY DEF PushPoppedLine
<1>2. n \in LineEnds(buffer) /\ n \in 0..Len(buffer)
  BY DEF FirstLineEnd, LineEnds
<1>3. StreamInv /\ HeadInv /\ TypeOK /\ StreamInv' /\ HeadInv' /\ TypeOK'
  BY DEF ConnectionInv
<1>4. /\ Len(pushed') = Len(pushed) + n /\ Len(buffer') = Len(buffer) - n
      /\ Len(pushed) \in Nat /\ Len(buffer) \in Nat /\ Len(sock) \in Nat /\ n \in Nat
  BY <1>1, <1>2, <1>3, PushLengths, StreamLength
<1>5. /\ pc = "line" /\ partialBody' = partialBody
      /\ UNCHANGED <<script, sock, eof, open, calls>>
      /\ IF parser'.state \in {"Body", "Done"}
         THEN pc' = "dispatch" /\ ret' = StateRet(parser'.state)
         ELSE pc' = pc /\ ret' = ret
  BY <1>1 DEF PushPoppedLine, Push, Return, clientVars
<1>6. HeadEnd' = HeadEnd /\ HeadEnd \in Nat
  BY <1>3, <1>5, FirstRequest DEF HeadEnd, ClLine, ExtraLine, First
<1>7. parser.state \in ParserStates /\ parser'.state \in ParserStates
      /\ parser.bodyLength \in Nat /\ parser'.bodyLength \in Nat
  BY <1>3 DEF TypeOK
<1>8. parser.state \in {"FirstLine", "Headers"}
  <2>1. parser.state # "Body"
    <3> SUFFICES ASSUME parser.state = "Body" PROVE FALSE
      OBVIOUS
    <3>1. Len(pushed) >= HeadEnd
      BY <1>3, <1>6, <1>7 DEF HeadInv
    <3>2. QED
      BY <1>2, <1>3, <3>1, NoLineInBody
  <2>2. parser.state # "Done"
    BY <1>5 DEF BodyParts, DoneEnds
  <2>3. QED
    BY <1>7, <2>1, <2>2 DEF ParserStates
<1>9. calls = <<>> /\ partialBody = <<>> /\ Len(pushed) + Len(buffer) + Len(sock) <= HeadEnd
  BY <1>8 DEF BodyParts, HeadCalls, HeldBack
<1>10. Len(pushed') + Len(buffer') + Len(sock) <= HeadEnd /\ Len(pushed') \in Nat /\ Len(buffer') \in Nat
  BY <1>2, <1>4, <1>9
<1>11. Consumed' = <<>>
  <2>1. pushed' \in Seq(Byte) /\ Len(pushed') <= HeadEnd
    BY <1>3, <1>4, <1>6, <1>10 DEF StreamInv, StreamType
  <2>2. Drop(pushed', HeadEnd) = <<>>
    BY <1>6, <2>1, DropShort
  <2>3. QED
    BY <1>6, <2>2 DEF Consumed
<1>12. Delivered' = <<>>
  <2>1. Delivered = <<>>
    BY <1>9, DeliveredParts DEF ConnectionInv, CallsInv
  <2>2. QED
    BY <1>5, <2>1 DEF Delivered
<1>13. Delivered' \o partialBody' = <<>>
  BY <1>5, <1>9, <1>12
<1>14. PartsAccounted' /\ HeldBack' /\ RoutedCalls'
  BY <1>5, <1>6, <1>9, <1>10, <1>11, <1>12, <1>13 DEF PartsAccounted, HeldBack, RoutedCalls
<1>15. HeadCalls'
  BY <1>5, <1>9 DEF HeadCalls, Calling
<1>16. BodyTurns'
  <2> SUFFICES ASSUME parser'.state = "Body" PROVE buffer' = <<>> /\ pc' = "dispatch"
    BY DEF BodyTurns
  <2>1. Len(pushed') >= HeadEnd
    BY <1>3, <1>6, <1>7 DEF HeadInv
  <2>2. Len(buffer') = 0
    BY <1>4, <1>6, <1>10, <2>1
  <2>3. buffer' \in Seq(Byte)
    BY <1>3 DEF StreamInv, StreamType
  <2>4. buffer' = <<>>
    BY <2>2, <2>3
  <2>5. QED
    BY <1>5, <2>4
<1>17. DoneEnds'
  BY <1>5 DEF DoneEnds, StateRet
<1>18. QED
  BY <1>14, <1>15, <1>16, <1>17 DEF BodyParts

(* A chunk goes to PushLine and becomes the part of the next call.         *)
LEMMA ChunkBody ==
    ASSUME ConnectionInv, ConnectionInv', PlainClient, BodyParts, PushChunk
    PROVE  BodyParts'
<1> DEFINE n == Len(buffer)
<1>1. /\ pc = "line" /\ parser.state = "Body" /\ partialBody' = buffer /\ Push(n)
  BY DEF PushChunk
<1>2. StreamInv /\ HeadInv /\ TypeOK /\ TypeOK' /\ CallsInv /\ StreamInv'
  BY DEF ConnectionInv
<1>3. buffer \in Seq(Byte) /\ pushed \in Seq(Byte) /\ n \in Nat /\ n \in 0..Len(buffer)
  BY <1>2 DEF StreamInv, StreamType
<1>4. /\ Len(pushed') = Len(pushed) + n /\ Len(buffer') = 0
      /\ Len(pushed) \in Nat /\ Len(sock) \in Nat
  BY <1>1, <1>2, <1>3, PushLengths, StreamLength
<1>5. buffer' = <<>>
  <2>1. buffer' \in Seq(Byte)
    BY <1>2 DEF StreamInv, StreamType
  <2>2. QED
    BY <1>4, <2>1
<1>6. pushed' = pushed \o buffer
  <2>1. Take(buffer, n) = buffer
    BY <1>3 DEF Take
  <2>2. QED
    BY <1>1, <2>1 DEF Push
<1>7. /\ parser' = PushBody(parser, Take(buffer, n))
      /\ UNCHANGED <<script, sock, eof, open, calls>>
      /\ IF parser'.state \in {"Body", "Done"}
         THEN pc' = "dispatch" /\ ret' = StateRet(parser'.state)
         ELSE pc' = pc /\ ret' = ret
  BY <1>1 DEF Push, PushLine, Return, clientVars
<1>8. parser'.state \in {"Body", "Done"} /\ parser'.uri = parser.uri
  <2>1. parser = [state |-> parser.state, uri |-> parser.uri, length |-> parser.length,
                  bodyLength |-> parser.bodyLength]
    BY <1>2 DEF TypeOK
  <2> DEFINE b == parser.bodyLength + Len(Take(buffer, n))
  <2>2. parser' = [parser EXCEPT !.bodyLength = b,
                                 !.state = IF b >= parser.length THEN "Done" ELSE "Body"]
    BY <1>7 DEF PushBody
  <2> HIDE DEF b
  <2>3. QED
    BY <2>1, <2>2
<1>9. pc' = "dispatch" /\ ret' = StateRet(parser'.state) /\ Calling'
  BY <1>7, <1>8 DEF StateRet, Calling
<1>10. HeadEnd' = HeadEnd /\ HeadEnd \in Nat
  BY <1>2, <1>7, FirstRequest DEF HeadEnd, ClLine, ExtraLine, First
<1>11. Consumed' = Consumed \o buffer
  <2>1. parser.bodyLength \in Nat
    BY <1>2 DEF TypeOK
  <2>2. HeadEnd \in 0..Len(pushed)
    BY <1>1, <1>2, <1>4, <1>10, <2>1 DEF HeadInv
  <2>3. Drop(pushed \o buffer, HeadEnd) = Drop(pushed, HeadEnd) \o buffer
    BY <1>3, <2>2, DropConcat
  <2>4. QED
    BY <1>6, <1>10, <2>3 DEF Consumed
<1>12. Delivered' = Delivered /\ Delivered = Consumed
  BY <1>1, <1>7 DEF Delivered, BodyParts, PartsAccounted, Calling
<1>13. PartsAccounted'
  BY <1>1, <1>9, <1>11, <1>12 DEF PartsAccounted
<1>14. HeldBack'
  <2>1. calls = <<>> => Len(pushed) + Len(buffer) + Len(sock) <= HeadEnd
    BY DEF BodyParts, HeldBack
  <2>2. calls = <<>> => Len(pushed') + Len(buffer') + Len(sock) <= HeadEnd
    BY <1>3, <1>4, <2>1
  <2>3. QED
    BY <1>7, <1>10, <2>2 DEF HeldBack
<1>15. RoutedCalls' /\ HeadCalls' /\ BodyTurns' /\ DoneEnds'
  BY <1>5, <1>7, <1>8, <1>9 DEF BodyParts, RoutedCalls, HeadCalls, BodyTurns, DoneEnds, StateRet
<1>16. QED
  BY <1>13, <1>14, <1>15 DEF BodyParts

(* The call passes the part, and only then it counts as delivered.         *)
LEMMA CallBody ==
    ASSUME ConnectionInv, PlainClient, BodyParts, NEW takes \in BOOLEAN, CallHandler(takes)
    PROVE  BodyParts'
<1> DEFINE c == [uri |-> parser.uri, partial |-> partialBody, final |-> ret = 1]
<1>1. /\ pc = "dispatch" /\ ret \in {0, 1} /\ parser.uri \in Routes
      /\ calls' = Append(calls, c)
      /\ open' = (ret = 0 \/ script.keep)
      /\ pc' = "wait"
      /\ UNCHANGED <<script, toSend, sock, eof, buffer, parser, ret, pushed>>
  BY DEF CallHandler, clientVars
<1>2. StreamInv /\ TypeOK /\ CallsInv
  BY DEF ConnectionInv
<1>3. c \in Calls /\ c.partial = partialBody /\ calls \in Seq(Calls)
  BY <1>2 DEF CallsInv, Calls, TypeOK
<1> HIDE DEF c
<1>4. Delivered' = Delivered \o partialBody
  <2>1. Delivered' = Delivered \o c.partial
    BY <1>1, <1>3, DeliveredNext
  <2>2. QED
    BY <1>3, <2>1
<1>5. Consumed' = Consumed
  BY <1>1 DEF Consumed, HeadEnd, ClLine, ExtraLine, First
<1>6. Calling /\ ~Calling'
  BY <1>1 DEF Calling
<1>7. PartsAccounted'
  BY <1>4, <1>5, <1>6 DEF BodyParts, PartsAccounted
<1>8. calls' # <<>>
  BY <1>1, <1>3, AppendProperties
<1>9. parser.state \notin {"FirstLine", "Headers"}
  BY <1>6 DEF BodyParts, HeadCalls
<1>10. HeldBack' /\ RoutedCalls' /\ HeadCalls' /\ BodyTurns'
  BY <1>1, <1>8, <1>9 DEF BodyParts, HeldBack, RoutedCalls, HeadCalls, BodyTurns
<1>11. DoneEnds'
  <2> SUFFICES ASSUME parser.state = "Done" PROVE ~open'
    BY <1>1 DEF DoneEnds
  <2>1. ret = 1
    BY <1>1 DEF BodyParts, DoneEnds
  <2>2. ~(ret = 0 \/ script.keep)
    BY <2>1 DEF PlainClient
  <2>3. QED
    BY <1>1, <2>2, Zenon
<1>12. QED
  BY <1>7, <1>10, <1>11 DEF BodyParts

LEMMA BodyStep == ConnectionInv /\ ConnectionInv' /\ BodyInv /\ [Next]_vars => BodyInv'
<1> SUFFICES ASSUME ConnectionInv, ConnectionInv', BodyInv, [Next]_vars, PlainClient'
             PROVE  BodyParts'
  BY DEF BodyInv
<1>1. script' = script
  BY DEF Next, vars, clientVars, Client, Send, ClientClose, EpollIn, ReadResult, ReadData,
     ReadZero, ReadAgain, ReadInterrupted, Line, PushPoppedLine, PushChunk, Push, NoLine,
     Result, ResultClosed, ResultIncomplete, ResultNotFound, CallHandler
<1>2. PlainClient /\ BodyParts
  BY <1>1 DEF PlainClient, BodyInv
<1>3. StreamInv /\ TypeOK /\ CallsInv /\ parser.state \in ParserStates
  BY DEF ConnectionInv, TypeOK
<1>4. HeadEnd' = HeadEnd /\ HeadEnd \in Nat
  BY <1>1, <1>3, FirstRequest DEF HeadEnd, ClLine, ExtraLine, First
<1>5. UNCHANGED <<calls, pushed, buffer, sock>> => HeldBack'
  BY <1>2, <1>4 DEF BodyParts, HeldBack
<1>6. ASSUME UNCHANGED <<script, sock, open, buffer, parser, partialBody, pc, ret, calls, pushed>>,
             eof => eof'
      PROVE  BodyParts'
  <2>1. Consumed' = Consumed /\ Delivered' = Delivered /\ Calling' = Calling
    BY <1>4, <1>6 DEF Consumed, Delivered, Calling
  <2>2. PartsAccounted' /\ HeadCalls' /\ RoutedCalls'
    BY <1>2, <1>6, <2>1 DEF BodyParts, PartsAccounted, HeadCalls, RoutedCalls
  <2>3. BodyTurns' /\ DoneEnds'
    BY <1>2, <1>6 DEF BodyParts, BodyTurns, DoneEnds
  <2>4. QED
    BY <1>5, <1>6, <2>2, <2>3 DEF BodyParts
<1>7. CASE ClientClose \/ UNCHANGED vars
  BY <1>6, <1>7 DEF ClientClose, clientVars, vars
<1>8. ASSUME NEW n \in 1..Len(toSend), Send(n)
      PROVE  BodyParts'
  BY <1>2, <1>8, SendBody
<1>9. CASE EpollIn
  <2>1. /\ pc = "wait" /\ pc' = "read" /\ open /\ (sock # <<>> \/ eof)
        /\ UNCHANGED <<script, sock, eof, open, buffer, parser, partialBody, ret, calls, pushed>>
    BY <1>9 DEF EpollIn, clientVars
  <2>2. BodyTurns' /\ DoneEnds' /\ ~Calling /\ ~Calling'
    BY <1>2, <2>1 DEF BodyParts, BodyTurns, DoneEnds, Calling
  <2>3. QED
    BY <1>2, <1>5, <2>1, <2>2, BodyQuiet
<1>10. CASE ReadData
  BY <1>2, <1>10, ReadBody
<1>11. CASE ReadZero
  <2>1. /\ pc = "read" /\ pc' = "dispatch" /\ ret' = -2
        /\ UNCHANGED <<script, sock, eof, open, buffer, parser, partialBody, calls, pushed>>
    BY <1>11 DEF ReadZero, Return, clientVars
  <2>2. BodyTurns' /\ DoneEnds' /\ ~Calling /\ ~Calling'
    BY <1>2, <2>1 DEF BodyParts, BodyTurns, DoneEnds, Calling
  <2>3. QED
    BY <1>2, <1>5, <2>1, <2>2, BodyQuiet
<1>12. CASE ReadAgain
  <2>1. /\ pc = "read" /\ pc' = "dispatch" /\ sock = <<>> /\ ~eof /\ ret' = StateRet(parser.state)
        /\ UNCHANGED <<script, sock, eof, open, buffer, parser, partialBody, calls, pushed>>
    BY <1>12 DEF ReadAgain, Return, clientVars
  <2>2. parser.state \notin {"Body", "Done"}
    BY <1>2, <2>1 DEF BodyParts, BodyTurns, DoneEnds
  <2>3. ret' = -1
    BY <1>3, <2>1, <2>2 DEF StateRet, ParserStates
  <2>4. BodyTurns' /\ DoneEnds' /\ ~Calling /\ ~Calling'
    BY <2>1, <2>2, <2>3 DEF BodyTurns, DoneEnds, Calling
  <2>5. QED
    BY <1>2, <1>5, <2>1, <2>4, BodyQuiet
<1>13. CASE ReadInterrupted
  <2>1. /\ pc = "read" /\ pc' = "line"
        /\ UNCHANGED <<script, sock, eof, open, buffer, parser, partialBody, ret, calls, pushed>>
    BY <1>13 DEF ReadInterrupted, clientVars
  <2>2. BodyTurns' /\ DoneEnds' /\ ~Calling /\ ~Calling'
    BY <1>2, <2>1 DEF BodyParts, BodyTurns, DoneEnds, Calling
  <2>3. QED
    BY <1>2, <1>5, <2>1, <2>2, BodyQuiet
<1>14. CASE PushPoppedLine
  BY <1>2, <1>14, LineBody
<1>15. CASE PushChunk
  BY <1>2, <1>15, ChunkBody
<1>16. CASE NoLine
  <2>1. /\ pc = "line" /\ pc' = "read" /\ (buffer = <<>> \/ parser.state # "Body")
        /\ UNCHANGED <<script, sock, eof, open, buffer, parser, partialBody, ret, calls, pushed>>
    BY <1>16 DEF NoLine, clientVars
  <2>2. BodyTurns' /\ DoneEnds' /\ ~Calling /\ ~Calling'
    BY <1>2, <2>1 DEF BodyParts, BodyTurns, DoneEnds, Calling
  <2>3. QED
    BY <1>2, <1>5, <2>1, <2>2, BodyQuiet
<1>17. CASE ResultClosed \/ ResultIncomplete
  <2>1. /\ pc = "dispatch" /\ pc' = "wait" /\ ret \in {-1, -2}
        /\ UNCHANGED <<script, sock, eof, buffer, parser, partialBody, ret, calls, pushed>>
    BY <1>17 DEF ResultClosed, ResultIncomplete, clientVars
  <2>2. ret \notin {0, 1}
    BY <2>1
  <2>3. BodyTurns' /\ DoneEnds' /\ ~Calling /\ ~Calling'
    BY <1>2, <2>1, <2>2 DEF BodyParts, BodyTurns, DoneEnds, Calling
  <2>4. QED
    BY <1>2, <1>5, <2>1, <2>3, BodyQuiet
<1>18. CASE ResultNotFound
  <2>1. /\ pc = "dispatch" /\ pc' = "wait" /\ parser.uri \notin Routes /\ ~open'
        /\ UNCHANGED <<script, sock, eof, buffer, parser, partialBody, ret, calls, pushed>>
    BY <1>18 DEF ResultNotFound, clientVars
  <2>2. calls = <<>> /\ Len(pushed) + Len(buffer) + Len(sock) <= HeadEnd
    BY <1>2, <2>1 DEF BodyParts, RoutedCalls, HeldBack
  <2>3. Delivered = <<>>
    BY <1>3, <2>2, DeliveredParts DEF CallsInv
  <2>4. Consumed = <<>>
    <3>1. pushed \in Seq(Byte) /\ Len(pushed) <= HeadEnd
      BY <1>3, <1>4, <2>2, StreamLength DEF StreamInv, StreamType
    <3>2. QED
      BY <1>4, <3>1, DropShort, Zenon DEF Consumed
  <2>5. BodyTurns' /\ DoneEnds' /\ ~Calling'
    BY <1>2, <2>1 DEF BodyParts, BodyTurns, DoneEnds, Calling
  <2>6. QED
    BY <1>2, <1>5, <2>1, <2>2, <2>3, <2>4, <2>5, BodyQuiet
<1>19. ASSUME NEW takes \in BOOLEAN, CallHandler(takes)
       PROVE  BodyParts'
  BY <1>2, <1>19, CallBody
<1>20. QED
  BY <1>7, <1>8, <1>9, <1>10, <1>11, <1>12, <1>13, <1>14, <1>15, <1>16, <1>17, <1>18, <1>19
     DEF Next, Client, ReadResult, Line, Result

(* For every body without a CR LF, every Content-Length, buffer size and   *)
(* split of the stream: the parts ProcessDataIn hands over are the body,   *)
(* in order, each byte once, whether or not the handler moves from them.   *)
THEOREM BodyDeliveredHolds == Spec => []BodyDelivered
<1>1. ConnectionInv /\ BodyInv => BodyDelivered
  <2> SUFFICES ASSUME ConnectionInv, BodyInv, PlainClient, pc = "wait"
               PROVE  Delivered = Drop(pushed, Len(HeadBytes(script.requests[1])))
    BY DEF BodyDelivered
  <2>1. Len(HeadBytes(First)) = HeadEnd
    BY FirstRequest DEF ConnectionInv
  <2>2. Delivered = Consumed
    BY DEF BodyInv, BodyParts, PartsAccounted, Calling
  <2>3. QED
    BY <2>1, <2>2 DEF Consumed, First
<1>2. QED
  BY <1>1, ConnectionCorrect, InitBody, BodyStep, PTL DEF Spec
=============================================================================
