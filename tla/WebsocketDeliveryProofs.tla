------------------------ MODULE WebsocketDeliveryProofs ------------------------
(***************************************************************************)
(* An upgraded connection implements a MessageChannel: every step of it is *)
(* a step of the channel or changes nothing there, for every client        *)
(* script.                                                                 *)
(***************************************************************************)
EXTENDS WebsocketConnectionProofs, JoiningProofs

-----------------------------------------------------------------------------
(* Read gets back what the client meant by a frame.                        *)
LEMMA XorTwice ==
    ASSUME NEW a \in {0, 1}, NEW b \in {0, 1}
    PROVE  Xor(Xor(a, b), b) = a
BY DEF Xor

LEMMA FirstByte ==
    ASSUME NEW fin \in {0, 1}, NEW op \in {0, 1, 2, 8, 9, 10}
    PROVE  (fin * 128 + op) % 16 = op /\ (fin * 128 + op) \div 128 = fin
OBVIOUS

LEMMA MaskedTwice ==
    ASSUME NEW data \in Seq({0, 1}), NEW mask \in [1..4 -> {0, 1}]
    PROVE  Masked(Masked(data, mask), mask) = data
<1> DEFINE once == Masked(data, mask)
<1>1. Len(data) \in Nat /\ data = [i \in 1..Len(data) |-> data[i]]
  OBVIOUS
<1>2. once = [i \in 1..Len(data) |-> Xor(data[i], mask[((i - 1) % 4) + 1])]
  BY DEF Masked
<1>3. Len(once) = Len(data)
  BY <1>1, <1>2
<1>4. ASSUME NEW i \in 1..Len(data)
      PROVE  Xor(once[i], mask[((i - 1) % 4) + 1]) = data[i]
  <2>1. ((i - 1) % 4) + 1 \in 1..4
    BY <1>1
  <2>2. data[i] \in {0, 1} /\ mask[((i - 1) % 4) + 1] \in {0, 1}
    BY <2>1, ElementOfSeq
  <2>3. once[i] = Xor(data[i], mask[((i - 1) % 4) + 1])
    BY <1>2
  <2>4. QED
    BY <2>2, <2>3, XorTwice
<1> HIDE DEF once
<1>5. Masked(once, mask) = [i \in 1..Len(data) |-> Xor(once[i], mask[((i - 1) % 4) + 1])]
  BY <1>3 DEF Masked
<1>6. QED
  BY <1>1, <1>4, <1>5 DEF once

(* A part of the bytes that equals a sequence, byte by byte.               *)
LEMMA PartIs ==
    ASSUME NEW E \in Bytes, NEW s \in Bytes, NEW o \in Nat, NEW n \in Nat, Len(s) = n,
           Len(E) >= o + n, \A i \in 1..n : E[o + i] = s[i]
    PROVE  SubSeq(E, o + 1, o + n) = s
<1>1. SubSeq(E, o + 1, o + n) \in Bytes /\ Len(SubSeq(E, o + 1, o + n)) = n
  BY Part
<1>2. ASSUME NEW i \in 1..n PROVE SubSeq(E, o + 1, o + n)[i] = s[i]
  <2>1. SubSeq(E, o + 1, o + n)[i] = E[o + i]
    BY <1>1 DEF Bytes
  <2>2. QED
    BY <2>1
<1>3. QED
  BY <1>1, <1>2, SeqEqual DEF Bytes

Means(buf, f) ==
    /\ Opcode(buf) = f.op
    /\ Fin(buf) = f.fin
    /\ Payload(buf) = f.payload
    /\ PayloadLength(buf) = Len(f.payload)

LEMMA FrameDecodes ==
    ASSUME NEW f \in Frames, Len(f.payload) <= Max16
    PROVE  Means(Encode(f), f)
<1> DEFINE E == Encode(f)
           n == Len(f.payload)
           e == LengthEnd(E)
           o == Offset(E)
           mask == f.mask
           data == SubSeq(E, o + 1, o + n)
           key == SubSeq(E, e + 1, e + 4)
<1>1. f.fin \in {0, 1} /\ f.op \in {0, 1, 2, 8, 9, 10} /\ f.payload \in Seq({0, 1})
      /\ f.mask \in {<<>>} \cup [1..4 -> {0, 1}]
  BY DEF Frames, kTypeContinuation, kTypeText, kTypeBinary, kTypeClose, kTypePing, kTypePong
<1>2. E \in Bytes /\ HoldsFrame(E) /\ Layout(f, E)
  BY EncodeBytes
<1>3. f.payload \in Bytes /\ n \in Nat
  BY <1>1 DEF Bytes
<1>4. mask # <<>> => mask \in [1..4 -> {0, 1}] /\ mask \in Bytes /\ Len(mask) = 4
  BY <1>1, MaskIsBytes
<1> HIDE DEF E
<1>5. Opcode(E) = f.op /\ Fin(E) = f.fin
  BY <1>1, <1>2, FirstByte DEF Opcode, Fin, Layout
<1>6. /\ PayloadLength(E) = n /\ (HasMask(E) <=> mask # <<>>) /\ e \in {2, 4}
      /\ o = e + (IF mask = <<>> THEN 0 ELSE 4) /\ o \in Nat
      /\ \A i \in 1..n : E[o + i] = Body(f)[i]
      /\ Len(E) >= o + n
  <2>1. Len(mask) = IF mask = <<>> THEN 0 ELSE 4
    <3>1. Len(<<>>) = 0
      OBVIOUS
    <3> HIDE DEF mask
    <3>2. QED
      BY <1>4, <3>1, Zenon
  <2>2. PayloadLength(E) = n /\ (HasMask(E) <=> mask # <<>>) /\ e \in {2, 4}
    BY <1>2 DEF Layout
  <2>3. o = e + (IF mask = <<>> THEN 0 ELSE 4)
    BY <2>2 DEF Offset
  <2>4. \A i \in 1..n : E[e + Len(mask) + i] = Body(f)[i]
    BY <1>2 DEF Layout
  <2>5. Len(E) >= o + n
    BY <1>2, <2>2 DEF HoldsFrame
  <2>6. QED
    BY <2>1, <2>2, <2>3, <2>4, <2>5
<1>7. Body(f) \in Bytes /\ Len(Body(f)) = n
  BY <1>3, <1>4, MaskedIsBytes DEF Body
<1>8. mask # <<>> => \A i \in 1..4 : E[e + i] = mask[i]
  BY <1>2, <1>4 DEF Layout
<1>9. Payload(E) = IF HasMask(E) THEN Masked(data, key) ELSE data
  BY <1>6 DEF Payload
<1> HIDE DEF n, e, o, mask
<1>10. data = Body(f)
  BY <1>2, <1>3, <1>6, <1>7, PartIs
<1>11. mask # <<>> => key = mask
  <2> SUFFICES ASSUME mask # <<>> PROVE key = mask
    OBVIOUS
  <2>1. e \in Nat /\ Len(E) >= e + 4 /\ 4 \in Nat
    BY <1>2, <1>3, <1>6 DEF Bytes
  <2>2. QED
    BY <1>2, <1>4, <1>8, <2>1, PartIs
<1> HIDE DEF data, key
<1>12. Payload(E) = f.payload
  <2>1. CASE mask = <<>>
    BY <1>6, <1>9, <1>10, <2>1 DEF Body, mask
  <2>2. CASE mask # <<>>
    BY <1>1, <1>4, <1>6, <1>9, <1>10, <1>11, <2>2, MaskedTwice DEF Body, mask
  <2>3. QED
    BY <2>1, <2>2
<1>13. QED
  BY <1>5, <1>6, <1>12 DEF Means, E, n

-----------------------------------------------------------------------------
(* What the client means, frame by frame: Meaning(frames) is a recursive   *)
(* function, and g is that function up to frame n.                         *)
Collects(frames, n, g) ==
    /\ g = [i \in 0..n |-> g[i]]
    /\ g[0] = Start
    /\ \A i \in 1..n : g[i] = After(g[i-1], frames[i])

LEMMA CollectsExists ==
    ASSUME NEW frames, NEW N \in Nat
    PROVE  \E g : Collects(frames, N, g)
<1> DEFINE T == {n \in Nat : \E g : Collects(frames, n, g)}
<1>1. 0 \in T
  <2>1. Collects(frames, 0, [i \in 0..0 |-> Start])
    BY DEF Collects
  <2>2. QED
    BY <2>1
<1>2. ASSUME NEW n \in Nat, n \in T
      PROVE  n + 1 \in T
  <2>1. PICK g : Collects(frames, n, g)
    BY <1>2
  <2> HIDE DEF T
  <2> DEFINE last == After(g[n], frames[n+1])
             h == [i \in 0..(n+1) |-> IF i <= n THEN g[i] ELSE last]
  <2> HIDE DEF last
  <2>2. \A i \in 0..n : h[i] = g[i]
    OBVIOUS
  <2>3. h[n+1] = last
    OBVIOUS
  <2>4. h = [i \in 0..(n+1) |-> h[i]]
    OBVIOUS
  <2> HIDE DEF h
  <2>5. h[0] = Start
    BY <2>1, <2>2 DEF Collects
  <2>6. ASSUME NEW i \in 1..(n+1)
        PROVE  h[i] = After(h[i-1], frames[i])
    <3>1. CASE i <= n
      <4>1. i \in 1..n /\ i \in 0..n /\ i - 1 \in 0..n
        BY <3>1
      <4>2. g[i] = After(g[i-1], frames[i])
        BY <2>1, <4>1 DEF Collects
      <4>3. QED
        BY <2>2, <4>1, <4>2
    <3>2. CASE i = n + 1
      <4>1. i - 1 = n /\ n \in 0..n
        BY <3>2
      <4>2. QED
        BY <2>2, <2>3, <3>2, <4>1 DEF last
    <3>3. i <= n \/ i = n + 1
      OBVIOUS
    <3>4. QED
      BY <3>1, <3>2, <3>3, Zenon
  <2>7. Collects(frames, n + 1, h)
    BY <2>4, <2>5, <2>6 DEF Collects
  <2>8. QED
    BY <2>7 DEF T
<1> HIDE DEF T
<1>3. Nat \subseteq T
  BY <1>1, <1>2, SetInduction
<1>4. QED
  BY <1>3 DEF T

LEMMA MeaningCollects ==
    ASSUME NEW frames, NEW N \in Nat, Len(frames) = N
    PROVE  Collects(frames, N, Meaning(frames))
<1> DEFINE UpTo(g) == [i \in 0..Len(frames) |-> IF i = 0 THEN Start ELSE After(g[i-1], frames[i])]
           b == CHOOSE g : g = UpTo(g)
<1>1. \E g : g = UpTo(g)
  <2>1. PICK g : Collects(frames, N, g)
    BY CollectsExists
  <2>2. g[0] = Start /\ g = [i \in 0..N |-> g[i]]
    BY <2>1 DEF Collects
  <2>3. ASSUME NEW i \in 0..N
        PROVE  g[i] = UpTo(g)[i]
    <3>1. CASE i = 0
      BY <2>2, <3>1
    <3>2. CASE i # 0
      <4>1. i \in 1..N
        BY <3>2
      <4>2. g[i] = After(g[i-1], frames[i])
        BY <2>1, <4>1, Zenon DEF Collects
      <4>3. QED
        BY <3>2, <4>2
    <3>3. QED
      BY <3>1, <3>2
  <2>4. g = UpTo(g)
    BY <2>2, <2>3
  <2>5. QED
    BY <2>4
<1>2. Meaning(frames) = b
  BY DEF Meaning
<1>3. b = UpTo(b)
  <2> HIDE DEF UpTo
  <2>1. QED
    BY <1>1
<1> HIDE DEF b
<1>4. ASSUME NEW i \in 1..N
      PROVE  b[i] = After(b[i-1], frames[i])
  <2>1. i \in 0..N /\ i # 0
    OBVIOUS
  <2>2. UpTo(b)[i] = After(b[i-1], frames[i])
    BY <2>1
  <2> HIDE DEF UpTo
  <2>3. QED
    BY <1>3, <2>2
<1>5. b[0] = Start
  BY <1>3
<1>6. b = [i \in 0..N |-> b[i]]
  BY <1>3
<1>7. QED
  BY <1>2, <1>4, <1>5, <1>6 DEF Collects

(* What the first frames of a script mean does not depend on the rest.     *)
LEMMA CollectsUnique ==
    ASSUME NEW F, NEW G, NEW N \in Nat, NEW M \in Nat, N <= M, NEW f, NEW g,
           Collects(F, N, f), Collects(G, M, g), SameParts(F, G, N)
    PROVE  \A n \in 0..N : f[n] = g[n]
<1> DEFINE T == {n \in Nat : n \in 0..N => f[n] = g[n]}
<1>1. 0 \in T
  BY DEF Collects
<1>2. ASSUME NEW n \in Nat, n \in T
      PROVE  n + 1 \in T
  <2> SUFFICES ASSUME n + 1 \in 0..N PROVE f[n+1] = g[n+1]
    OBVIOUS
  <2>1. n + 1 \in 1..N /\ n + 1 \in 1..M /\ n \in 0..N /\ (n + 1) - 1 = n
    OBVIOUS
  <2>2. f[n+1] = After(f[(n+1)-1], F[n+1]) /\ g[n+1] = After(g[(n+1)-1], G[n+1])
    BY <2>1, Zenon DEF Collects
  <2>3. f[n] = g[n] /\ F[n+1] = G[n+1]
    BY <1>2, <2>1 DEF SameParts
  <2>4. QED
    BY <2>1, <2>2, <2>3
<1> HIDE DEF T
<1>3. Nat \subseteq T
  BY <1>1, <1>2, SetInduction
<1>4. QED
  BY <1>3 DEF T

LEMMA MeaningOfPrefix ==
    ASSUME NEW S, NEW frames \in Seq(S), NEW k \in 0..Len(frames)
    PROVE  Messages(SubSeq(frames, 1, k)) = Meaning(frames)[k].done
<1> DEFINE N == Len(frames)
           sub == SubSeq(frames, 1, k)
<1>1. N \in Nat /\ k \in Nat /\ k <= N /\ k \in 0..k
  OBVIOUS
<1>2. Len(sub) = k /\ SameParts(sub, frames, k)
  <2>1. \A i \in 1..k : frames[i] \in S
    BY <1>1, ElementOfSeq
  <2>2. Len(sub) = k /\ \A i \in 1..k : sub[i] = frames[i]
    BY <1>1, <2>1, SubSeqProperties
  <2>3. QED
    BY <2>2 DEF SameParts
<1> HIDE DEF sub, N
<1>3. Collects(sub, k, Meaning(sub)) /\ Collects(frames, N, Meaning(frames))
  BY <1>1, <1>2, MeaningCollects DEF N
<1>4. Meaning(sub)[k] = Meaning(frames)[k]
  BY <1>1, <1>2, <1>3, CollectsUnique
<1>5. QED
  BY <1>2, <1>4 DEF Messages, sub

-----------------------------------------------------------------------------
(* What one frame adds: a control frame spoils the fragments so far, a     *)
(* fragment is kept, the last one completes a message.                     *)
Control == {kTypeClose, kTypePing, kTypePong}

MessageSet == [type : Nat, fragments : Seq(Bytes), spoiled : Nat]

CollectedSet == [done : Seq(MessageSet), parts : Seq(Bytes), spoiled : Nat]

Collected(m) == m \in CollectedSet /\ m.spoiled <= Len(m.parts)

MessageOf(m, f) ==
    [type |-> f.op, fragments |-> Append(m.parts, f.payload), spoiled |-> m.spoiled]

LEMMA StartCollected == Collected(Start)
BY DEF Collected, CollectedSet, Start

LEMMA AfterControl ==
    ASSUME NEW m, Collected(m), NEW f, f.op \in Control
    PROVE  /\ Collected(After(m, f))
           /\ After(m, f).done = m.done /\ After(m, f).parts = m.parts
           /\ After(m, f).spoiled = Len(m.parts)
<1>1. After(m, f) = [m EXCEPT !.spoiled = Len(m.parts)]
  BY DEF After, Control
<1>2. m \in CollectedSet /\ Len(m.parts) \in Nat
  BY DEF Collected, CollectedSet
<1>3. QED
  BY <1>1, <1>2 DEF Collected, CollectedSet

LEMMA AfterFragment ==
    ASSUME NEW m, Collected(m), NEW f \in Frames, f.op \notin Control, f.fin = 0
    PROVE  /\ Collected(After(m, f))
           /\ After(m, f).done = m.done /\ After(m, f).parts = Append(m.parts, f.payload)
           /\ After(m, f).spoiled = m.spoiled
<1> DEFINE p == Append(m.parts, f.payload)
<1>1. After(m, f) = [m EXCEPT !.parts = p]
  BY DEF After, Control
<1>2. m \in CollectedSet /\ m.parts \in Seq(Bytes) /\ m.spoiled <= Len(m.parts) /\ m.spoiled \in Nat
  BY DEF Collected, CollectedSet
<1>3. f.payload \in Bytes
  BY DEF Frames, Bytes
<1>4. p \in Seq(Bytes) /\ Len(p) = Len(m.parts) + 1
  BY <1>2, <1>3, AppendProperties
<1> HIDE DEF p
<1>5. After(m, f).parts = p /\ After(m, f).done = m.done /\ After(m, f).spoiled = m.spoiled
      /\ After(m, f) \in CollectedSet
  BY <1>1, <1>2, <1>4 DEF CollectedSet
<1>6. Len(m.parts) \in Nat
  BY <1>2
<1>7. QED
  BY <1>2, <1>4, <1>5, <1>6 DEF Collected, p

LEMMA AfterLast ==
    ASSUME NEW m, Collected(m), NEW f \in Frames, f.op \notin Control, f.fin = 1
    PROVE  /\ Collected(After(m, f)) /\ MessageOf(m, f) \in MessageSet
           /\ After(m, f).done = Append(m.done, MessageOf(m, f))
           /\ After(m, f).parts = <<>> /\ After(m, f).spoiled = 0
<1> DEFINE d == Append(m.done, MessageOf(m, f))
<1>1. After(m, f) = [Start EXCEPT !.done = d]
  BY DEF After, Control, MessageOf
<1>2. m.done \in Seq(MessageSet) /\ m.parts \in Seq(Bytes) /\ m.spoiled \in Nat
  BY DEF Collected, CollectedSet
<1>3. f.payload \in Bytes /\ f.op \in Nat
  BY DEF Frames, Bytes, kTypeContinuation, kTypeText, kTypeBinary, kTypeClose, kTypePing, kTypePong
<1>4. MessageOf(m, f) \in MessageSet
  BY <1>2, <1>3, AppendProperties DEF MessageOf, MessageSet
<1>5. d \in Seq(MessageSet)
  BY <1>2, <1>4, AppendProperties
<1> HIDE DEF d
<1>6. After(m, f).done = d /\ After(m, f).parts = <<>> /\ After(m, f).spoiled = 0
      /\ After(m, f) \in CollectedSet
  <2>1. After(m, f) = [done |-> d, parts |-> <<>>, spoiled |-> 0]
    BY <1>1 DEF Start
  <2>2. <<>> \in Seq(Bytes) /\ 0 \in Nat
    OBVIOUS
  <2>3. [done |-> d, parts |-> <<>>, spoiled |-> 0] \in CollectedSet
    BY <1>5, <2>2, Zenon DEF CollectedSet
  <2>4. QED
    BY <2>1, <2>3
<1>7. QED
  BY <1>4, <1>6 DEF Collected, d

(* The messages so far stay; there is at most one more.                    *)
Grows(s, t) == t = s \/ \E e \in MessageSet : t = Append(s, e)

LEMMA AfterGrows ==
    ASSUME NEW m, Collected(m), NEW f \in Frames
    PROVE  Collected(After(m, f)) /\ Grows(m.done, After(m, f).done)
<1>1. f.fin \in {0, 1}
  BY DEF Frames
<1>2. CASE f.op \in Control
  BY <1>2, AfterControl DEF Grows
<1>3. CASE f.op \notin Control /\ f.fin = 0
  BY <1>3, AfterFragment DEF Grows
<1>4. CASE f.op \notin Control /\ f.fin = 1
  BY <1>4, AfterLast DEF Grows
<1>5. QED
  BY <1>1, <1>2, <1>3, <1>4

LEMMA MeaningStep ==
    ASSUME NEW frames \in Seq(Frames)
    PROVE  /\ Meaning(frames)[0] = Start
           /\ \A i \in 1..Len(frames) :
                Meaning(frames)[i] = After(Meaning(frames)[i - 1], frames[i])
<1>1. Len(frames) \in Nat
  OBVIOUS
<1>2. Collects(frames, Len(frames), Meaning(frames))
  BY <1>1, MeaningCollects
<1>3. QED
  BY <1>2 DEF Collects

LEMMA MeaningCollected ==
    ASSUME NEW frames \in Seq(Frames)
    PROVE  \A n \in 0..Len(frames) : Collected(Meaning(frames)[n])
<1> DEFINE T == {n \in Nat : n \in 0..Len(frames) => Collected(Meaning(frames)[n])}
<1>1. 0 \in T
  BY StartCollected, MeaningStep
<1>2. ASSUME NEW n \in Nat, n \in T
      PROVE  n + 1 \in T
  <2> SUFFICES ASSUME n + 1 \in 0..Len(frames) PROVE Collected(Meaning(frames)[n + 1])
    OBVIOUS
  <2>1. n + 1 \in 1..Len(frames) /\ n \in 0..Len(frames) /\ (n + 1) - 1 = n
    OBVIOUS
  <2>2. Collected(Meaning(frames)[n]) /\ frames[n + 1] \in Frames
    BY <1>2, <2>1, ElementOfSeq
  <2>3. Meaning(frames)[n + 1] = After(Meaning(frames)[(n + 1) - 1], frames[n + 1])
    BY <2>1, MeaningStep
  <2>4. QED
    BY <2>1, <2>2, <2>3, AfterGrows
<1> HIDE DEF T
<1>3. Nat \subseteq T
  BY <1>1, <1>2, SetInduction
<1>4. QED
  BY <1>3 DEF T

LEMMA GrowsBegins ==
    ASSUME NEW r \in Seq(MessageSet), NEW s \in Seq(MessageSet), NEW t,
           Begins(r, s), Grows(s, t)
    PROVE  Begins(r, t)
BY DEF Begins, Grows

LEMMA MeaningGrows ==
    ASSUME NEW frames \in Seq(Frames), NEW k \in 0..Len(frames)
    PROVE  Begins(Meaning(frames)[k].done, Messages(frames))
<1> DEFINE N == Len(frames)
           d(n) == Meaning(frames)[n].done
           T == {n \in Nat : k + n \in 0..N => Begins(d(k), d(k + n))}
<1>0. N \in Nat /\ k \in Nat /\ k <= N
  OBVIOUS
<1>1. \A n \in 0..N : d(n) \in Seq(MessageSet)
  BY MeaningCollected DEF Collected, CollectedSet
<1>2. 0 \in T
  BY <1>0, <1>1 DEF Begins
<1>3. ASSUME NEW n \in Nat, n \in T
      PROVE  n + 1 \in T
  <2> SUFFICES ASSUME k + (n + 1) \in 0..N PROVE Begins(d(k), d(k + (n + 1)))
    OBVIOUS
  <2> DEFINE i == k + (n + 1)
  <2>1. i \in 1..N /\ i - 1 \in 0..N /\ i - 1 = k + n
    BY <1>0
  <2>2. Begins(d(k), d(k + n))
    BY <1>3, <2>1
  <2> HIDE DEF i, T
  <2>3. Grows(d(i - 1), d(i))
    <3>1. Collected(Meaning(frames)[i - 1]) /\ frames[i] \in Frames
      BY <2>1, MeaningCollected, ElementOfSeq DEF N
    <3>2. Meaning(frames)[i] = After(Meaning(frames)[i - 1], frames[i])
      BY <2>1, MeaningStep DEF N
    <3>3. QED
      BY <3>1, <3>2, AfterGrows
  <2>4. Begins(d(k), d(i - 1))
    BY <2>1, <2>2
  <2> HIDE DEF d
  <2>5. Begins(d(k), d(i))
    BY <1>0, <1>1, <2>1, <2>3, <2>4, GrowsBegins
  <2>6. QED
    BY <2>5 DEF i
<1> HIDE DEF T
<1>4. Nat \subseteq T
  BY <1>2, <1>3, SetInduction
<1>5. N - k \in Nat /\ k + (N - k) = N /\ N \in 0..N
  BY <1>0
<1>6. Begins(d(k), d(N))
  BY <1>4, <1>5 DEF T
<1>7. QED
  BY <1>6 DEF Messages, N, d

-----------------------------------------------------------------------------
(* What last_payload_ holds: the fragments since the last one a control    *)
(* frame spoiled.                                                          *)
Kept(m) == Joined(SubSeq(m.parts, m.spoiled + 1, Len(m.parts)))

LEMMA JoinedNothing == Joined(<<>>) = <<>>
<1>1. <<>> \in [1..0 -> Bytes] /\ 0 \in Nat
  OBVIOUS
<1>2. QED
  BY <1>1, JoinedProperties DEF Bytes

LEMMA KeptNothing ==
    ASSUME NEW m, Collected(m), m.spoiled = Len(m.parts)
    PROVE  Kept(m) = <<>>
<1>1. m.parts \in Seq(Bytes) /\ Len(m.parts) \in Nat
  BY DEF Collected, CollectedSet
<1>2. SubSeq(m.parts, Len(m.parts) + 1, Len(m.parts)) = <<>>
  BY <1>1, SubSeqEmpty
<1>3. QED
  BY <1>2, JoinedNothing DEF Kept

LEMMA PartsFrom ==
    ASSUME NEW parts \in Seq(Bytes), NEW s \in 0..Len(parts)
    PROVE  /\ SubSeq(parts, s + 1, Len(parts)) \in [1..(Len(parts) - s) -> Bytes]
           /\ \A i \in 1..(Len(parts) - s) : SubSeq(parts, s + 1, Len(parts))[i] = parts[s + i]
<1>1. Len(parts) \in Nat
  OBVIOUS
<1>2. ASSUME NEW i \in 1..(Len(parts) - s) PROVE parts[s + i] \in Bytes
  <2>1. s + i \in 1..Len(parts)
    BY <1>1
  <2>2. QED
    BY <2>1, ElementOfSeq
<1>3. SubSeq(parts, s + 1, Len(parts)) = [i \in 1..(Len(parts) - s) |-> parts[s + i]]
  <2>1. SubSeq(parts, s + 1, Len(parts)) = [i \in 1..(Len(parts) - (s + 1) + 1) |-> parts[(s + 1) + i - 1]]
    BY <1>1
  <2>2. Len(parts) - (s + 1) + 1 = Len(parts) - s
    BY <1>1
  <2>3. \A i \in 1..(Len(parts) - s) : (s + 1) + i - 1 = s + i
    BY <1>1
  <2>4. QED
    BY <2>1, <2>2, <2>3
<1>4. QED
  BY <1>2, <1>3

LEMMA KeptNext ==
    ASSUME NEW parts \in Seq(Bytes), NEW s \in 0..Len(parts), NEW p \in Bytes
    PROVE  Joined(SubSeq(Append(parts, p), s + 1, Len(Append(parts, p))))
             = Joined(SubSeq(parts, s + 1, Len(parts))) \o p
<1> DEFINE more == Append(parts, p)
           N == Len(parts) - s
           A == SubSeq(parts, s + 1, Len(parts))
           B == SubSeq(more, s + 1, Len(more))
<1>1. /\ more \in Seq(Bytes) /\ Len(more) = Len(parts) + 1 /\ more[Len(parts) + 1] = p
      /\ \A i \in 1..Len(parts) : more[i] = parts[i]
  BY AppendProperties
<1> HIDE DEF more
<1>2. Len(parts) \in Nat /\ N \in Nat /\ s \in 0..Len(more) /\ Len(more) - s = N + 1
  BY <1>1
<1>3. A \in [1..N -> Bytes] /\ \A i \in 1..N : A[i] = parts[s + i]
  BY PartsFrom
<1>4. B \in [1..(N + 1) -> Bytes] /\ \A i \in 1..(N + 1) : B[i] = more[s + i]
  <2>1. /\ B \in [1..(Len(more) - s) -> Bytes]
        /\ \A i \in 1..(Len(more) - s) : B[i] = more[s + i]
    BY <1>1, <1>2, PartsFrom
  <2>2. QED
    BY <1>2, <2>1
<1> HIDE DEF A, B
<1>5. SameParts(A, B, N)
  <2>1. ASSUME NEW i \in 1..N PROVE A[i] = B[i]
    <3>1. s + i \in 1..Len(parts) /\ i \in 1..(N + 1)
      BY <1>2
    <3>2. QED
      BY <1>1, <1>3, <1>4, <3>1
  <2>2. QED
    BY <2>1 DEF SameParts
<1>6. B[N + 1] = p
  <2>1. N + 1 \in 1..(N + 1) /\ s + (N + 1) = Len(parts) + 1
    BY <1>2
  <2>2. QED
    BY <1>1, <1>4, <2>1
<1> HIDE DEF N
<1>7. Joined(B) = Joined(A) \o B[N + 1]
  <2>1. N \in Nat /\ A \in [1..N -> Seq(0..255)] /\ B \in [1..(N + 1) -> Seq(0..255)]
    BY <1>2, <1>3, <1>4 DEF Bytes
  <2>2. QED
    BY <1>5, <2>1, JoinedNext
<1>8. QED
  BY <1>6, <1>7 DEF A, B, more

LEMMA ChannelJoined == \A parts : Channel!Joined(parts) = Joined(parts)
BY DEF Channel!Joined, Joined

-----------------------------------------------------------------------------
(* The frames on their way and what was read of them.                      *)
Out == Len(script.frames) - Len(unsent)
Seen == IF sock = <<>> THEN Out ELSE Out - 1

Calls == [type : Nat, payload : Bytes]

(* The handler got as many messages as are complete in what was read, and  *)
(* last_payload_ is what the next one will start with.                     *)
UpToDate(m) == Len(delivered) = Len(m.done) /\ lastPayload = Kept(m)

DeliveryInv ==
    Orderly => /\ Out \in 0..Len(script.frames)
               /\ \A i \in 1..Len(unsent) : unsent[i] = Encode(script.frames[Out + i])
               /\ sock # <<>> => Out >= 1 /\ sock = Encode(script.frames[Out])
               /\ delivered \in Seq(Calls)
               /\ open => UpToDate(Meaning(script.frames)[Seen])

LEMMA ScriptFrames ==
    ASSUME WsInv
    PROVE  /\ script.frames \in Seq(Frames) /\ Len(script.frames) \in Nat
           /\ \A i \in 1..Len(script.frames) :
                /\ script.frames[i] \in Frames
                /\ Len(script.frames[i].payload) <= Max16
<1>1. script \in Scripts
  BY DEF WsInv
<1>2. script.frames \in Seq(Frames)
  BY <1>1, WebsocketAssumption
<1>3. Len(script.frames) \in Nat /\ DOMAIN script.frames = 1..Len(script.frames)
  BY <1>2, LenProperties
<1>4. QED
  BY <1>1, <1>2, <1>3, ElementOfSeq, WebsocketAssumption

LEMMA InitDelivery == Init => DeliveryInv
<1> SUFFICES ASSUME Init, Orderly
             PROVE  DeliveryInv
  BY DEF DeliveryInv
<1>1. script.frames \in Seq(Frames) /\ Len(script.frames) \in Nat
  BY InitWs, ScriptFrames
<1>2. DOMAIN script.frames = 1..Len(script.frames)
  BY <1>1, LenProperties
<1>3. unsent = [i \in 1..Len(script.frames) |-> Encode(script.frames[i])]
  BY <1>2 DEF Init
<1>4. Len(unsent) = Len(script.frames)
  BY <1>1, <1>3
<1>5. Out = 0 /\ sock = <<>> /\ delivered = <<>> /\ lastPayload = <<>>
  BY <1>1, <1>4 DEF Out, Init
<1>6. \A i \in 1..Len(unsent) : unsent[i] = Encode(script.frames[Out + i])
  BY <1>1, <1>3, <1>4, <1>5
<1>7. UpToDate(Meaning(script.frames)[Seen])
  <2>1. Meaning(script.frames)[Seen] = Start
    BY <1>1, <1>5, MeaningStep DEF Seen
  <2>2. Start.done = <<>> /\ Start.parts = <<>> /\ Start.spoiled = 0
    BY DEF Start
  <2>3. Kept(Start) = <<>>
    BY <2>2, StartCollected, KeptNothing
  <2>4. QED
    BY <1>5, <2>1, <2>2, <2>3 DEF UpToDate
<1>8. delivered \in Seq(Calls)
  BY <1>5
<1>9. QED
  BY <1>1, <1>5, <1>6, <1>7, <1>8 DEF DeliveryInv

(* The handler is called with the last fragment behind what was kept.      *)
HandedOver(m, f) ==
    /\ f.op \notin Control /\ f.fin = 1
    /\ delivered' = Append(delivered, [type |-> f.op, payload |-> Kept(m) \o f.payload])

LEMMA HandleMeans ==
    ASSUME WsInv, NEW buf, NEW f \in Frames, Means(buf, f), Handle(buf),
           NEW m, Collected(m), UpToDate(m), delivered \in Seq(Calls)
    PROVE  /\ delivered' \in Seq(Calls)
           /\ open' => UpToDate(After(m, f))'
           /\ UNCHANGED delivered \/ HandedOver(m, f)
<1>1. Opcode(buf) = f.op /\ Fin(buf) = f.fin /\ Payload(buf) = f.payload
  BY DEF Means
<1>2. Len(delivered) = Len(m.done) /\ lastPayload = Kept(m)
  BY DEF UpToDate
<1>3. f.payload \in Bytes /\ f.op \in Nat /\ lastPayload \in Bytes
  BY DEF Frames, Bytes, WsInv, kTypeContinuation, kTypeText, kTypeBinary, kTypeClose, kTypePing, kTypePong
<1>4. m.parts \in Seq(Bytes) /\ m.done \in Seq(MessageSet) /\ m.spoiled \in 0..Len(m.parts)
  BY DEF Collected, CollectedSet
<1>5. CASE f.op \in Control
  <2>1. \/ lastPayload' = <<>> /\ UNCHANGED delivered
        \/ open' = FALSE /\ UNCHANGED delivered
    BY <1>1, <1>5 DEF Handle, Close, Ping, Pong, LastFragment, Fragment, IsData, Control, Return
  <2>2. Kept(After(m, f)) = <<>> /\ After(m, f).done = m.done
    BY <1>5, AfterControl, KeptNothing
  <2>3. QED
    BY <1>2, <2>1, <2>2 DEF UpToDate
<1>6. CASE f.op \notin Control /\ f.fin = 0
  <2>1. lastPayload' = lastPayload \o f.payload /\ UNCHANGED delivered
    BY <1>1, <1>6 DEF Handle, Close, Ping, Pong, LastFragment, Fragment, IsData, Control
  <2>2. Kept(After(m, f)) = Kept(m) \o f.payload /\ After(m, f).done = m.done
    <3>1. /\ After(m, f).done = m.done /\ After(m, f).parts = Append(m.parts, f.payload)
          /\ After(m, f).spoiled = m.spoiled
      BY <1>6, AfterFragment
    <3>2. Kept(After(m, f)) = Joined(SubSeq(Append(m.parts, f.payload), m.spoiled + 1,
                                            Len(Append(m.parts, f.payload))))
      BY <3>1 DEF Kept
    <3>3. Kept(m) = Joined(SubSeq(m.parts, m.spoiled + 1, Len(m.parts)))
      BY DEF Kept
    <3>4. QED
      BY <1>3, <1>4, <3>1, <3>2, <3>3, KeptNext
  <2>3. QED
    BY <1>2, <2>1, <2>2 DEF UpToDate
<1>7. CASE f.op \notin Control /\ f.fin = 1
  <2> DEFINE call == [type |-> f.op, payload |-> lastPayload \o f.payload]
  <2>1. lastPayload' = <<>> /\ delivered' = Append(delivered, call)
    BY <1>1, <1>7 DEF Handle, Close, Ping, Pong, LastFragment, Fragment, IsData, Control
  <2>2. Kept(After(m, f)) = <<>> /\ After(m, f).done = Append(m.done, MessageOf(m, f))
        /\ MessageOf(m, f) \in MessageSet
    <3>1. Len(<<>>) = 0
      OBVIOUS
    <3>2. QED
      BY <1>7, <3>1, AfterLast, KeptNothing
  <2>3. call \in Calls
    BY <1>3, Appended DEF Calls
  <2>4. HandedOver(m, f)
    BY <1>2, <1>7, <2>1 DEF HandedOver
  <2> HIDE DEF call
  <2>5. delivered' \in Seq(Calls) /\ Len(delivered') = Len(delivered) + 1
    BY <2>1, <2>3, AppendProperties
  <2>6. Len(After(m, f).done) = Len(m.done) + 1
    BY <1>4, <2>2, AppendProperties
  <2>7. QED
    BY <1>2, <2>1, <2>2, <2>4, <2>5, <2>6 DEF UpToDate
<1>8. f.fin \in {0, 1}
  BY DEF Frames
<1>9. QED
  BY <1>5, <1>6, <1>7, <1>8

-----------------------------------------------------------------------------
(* Steps of an orderly client's connection.  Sending moves one frame into  *)
(* the empty socket.                                                       *)
LEMMA OrderlySend ==
    ASSUME WsInv, DeliveryInv, Orderly, NEW n \in 1..Len(unsent[1]), unsent # <<>>, Send(n)
    PROVE  /\ sock = <<>> /\ sock' = Encode(script.frames[Out + 1]) /\ sock' # <<>>
           /\ unsent' = Tail(unsent) /\ Out' = Out + 1 /\ Out + 1 \in 1..Len(script.frames)
<1>1. unsent \in Seq(Bytes) /\ Len(unsent) \in Nat \ {0}
  BY EmptySeq DEF WsInv
<1>2. /\ sock = <<>> /\ n = Len(unsent[1])
      /\ sock' = sock \o SubSeq(unsent[1], 1, n) /\ unsent' = Tail(unsent) /\ script' = script
  BY DEF Send, Orderly
<1>3. Len(script.frames) \in Nat /\ Out \in 0..Len(script.frames)
  BY ScriptFrames DEF DeliveryInv
<1>4. Out + 1 \in 1..Len(script.frames)
  BY <1>1, <1>3 DEF Out
<1>5. unsent[1] = Encode(script.frames[Out + 1])
  BY <1>1 DEF DeliveryInv
<1>6. unsent[1] \in Bytes /\ Len(unsent[1]) > 0
  BY <1>1, ElementOfSeq DEF Bytes
<1>7. SubSeq(unsent[1], 1, n) = unsent[1]
  BY <1>2, <1>6, FrontPart DEF Bytes
<1>8. sock' = unsent[1]
  BY <1>2, <1>6, <1>7, ConcatEmptySeq DEF Bytes
<1>9. sock' # <<>>
  BY <1>6, <1>8
<1>10. Len(unsent') = Len(unsent) - 1
  BY <1>1, <1>2, HeadTailProperties
<1>11. Out' = Out + 1
  BY <1>1, <1>2, <1>3, <1>10 DEF Out
<1>12. QED
  BY <1>2, <1>4, <1>5, <1>8, <1>9, <1>11

(* Read takes it out again, whole.                                         *)
LEMMA OrderlyRead ==
    ASSUME WsInv, OrderlyInv, DeliveryInv, Orderly, ReadFrame
    PROVE  /\ Out \in 1..Len(script.frames) /\ Seen = Out - 1
           /\ sock' = <<>> /\ Out' = Out /\ Seen' = Out
           /\ script.frames[Out] \in Frames
           /\ Means(Got, script.frames[Out]) /\ Handle(Got)
           /\ open /\ UpToDate(Meaning(script.frames)[Out - 1])
           /\ Collected(Meaning(script.frames)[Out - 1])
           /\ Meaning(script.frames)[Out] = After(Meaning(script.frames)[Out - 1], script.frames[Out])
           /\ delivered \in Seq(Calls) /\ UNCHANGED <<script, unsent>>
<1>1. sock # <<>> /\ open /\ Handle(Got) /\ sock' = Drop(sock, Len(Got)) /\ UNCHANGED <<script, unsent>>
  BY DEF ReadFrame, Up, clientVars
<1>2. sock \in Bytes /\ Len(sock) <= BufferSize
  BY <1>1 DEF OrderlyInv, WholeFrame
<1>3. Got = sock
  BY <1>2, GotBytes
<1>4. sock' = <<>>
  BY <1>1, <1>2, <1>3, SubSeqEmpty DEF Drop, Bytes
<1>5. Out \in 1..Len(script.frames) /\ sock = Encode(script.frames[Out])
  BY <1>1, ScriptFrames DEF DeliveryInv
<1>6. script.frames[Out] \in Frames /\ Means(Got, script.frames[Out])
  BY <1>3, <1>5, ScriptFrames, FrameDecodes
<1>7. Seen = Out - 1 /\ Out' = Out /\ Seen' = Out
  BY <1>1, <1>4 DEF Seen, Out
<1>8. UpToDate(Meaning(script.frames)[Out - 1])
  BY <1>1, <1>7 DEF DeliveryInv
<1>9. Out - 1 \in 0..Len(script.frames)
  BY <1>5, ScriptFrames
<1>10. Collected(Meaning(script.frames)[Out - 1])
  BY <1>9, ScriptFrames, MeaningCollected
<1>11. Meaning(script.frames)[Out] = After(Meaning(script.frames)[Out - 1], script.frames[Out])
  BY <1>5, ScriptFrames, MeaningStep
<1>12. delivered \in Seq(Calls)
  BY DEF DeliveryInv
<1>13. QED
  BY <1>1, <1>4, <1>5, <1>6, <1>7, <1>8, <1>10, <1>11, <1>12

LEMMA OrderlyHolds ==
    ASSUME WsInv, OrderlyInv, Orderly, sock # <<>>
    PROVE  HoldsFrame(Got)
<1>1. WholeFrame(sock)
  BY DEF OrderlyInv
<1>2. Got = sock
  BY <1>1, GotBytes DEF WholeFrame
<1>3. QED
  BY <1>1, <1>2 DEF WholeFrame

(* The steps that neither move a frame nor open the connection.            *)
LEMMA DeliveryKept ==
    ASSUME DeliveryInv, UNCHANGED <<script, unsent, sock, delivered, lastPayload>>, open' => open
    PROVE  DeliveryInv'
BY DEF DeliveryInv, Orderly, Out, Seen, UpToDate

LEMMA DeliveryStep == WsInv /\ OrderlyInv /\ DeliveryInv /\ [Next]_vars => DeliveryInv'
<1> SUFFICES ASSUME WsInv, OrderlyInv, DeliveryInv, [Next]_vars PROVE DeliveryInv'
  OBVIOUS
<1>1. ASSUME NEW n \in 1..Len(unsent[1]), unsent # <<>>, Send(n)
      PROVE  DeliveryInv'
  <2>1. UNCHANGED <<script, delivered, lastPayload, open>>
    BY <1>1 DEF Send
  <2> SUFFICES ASSUME Orderly PROVE DeliveryInv'
    BY <2>1 DEF DeliveryInv, Orderly
  <2>2. /\ sock = <<>> /\ sock' = Encode(script.frames[Out + 1]) /\ sock' # <<>>
        /\ unsent' = Tail(unsent) /\ Out' = Out + 1 /\ Out + 1 \in 1..Len(script.frames)
    BY <1>1, OrderlySend
  <2>3. Len(script.frames) \in Nat /\ Out \in 0..Len(script.frames)
    BY ScriptFrames DEF DeliveryInv
  <2>4. Seen = Out /\ Seen' = Out
    BY <2>2, <2>3 DEF Seen
  <2>5. unsent \in Seq(Bytes) /\ Len(unsent) \in Nat
    BY DEF WsInv
  <2>6. Len(unsent') = Len(unsent) - 1 /\ \A i \in 1..Len(unsent') : unsent'[i] = unsent[i + 1]
    BY <1>1, <2>2, <2>5, HeadTailProperties
  <2>7. \A i \in 1..Len(unsent') : unsent'[i] = Encode(script.frames[Out' + i])
    <3>1. ASSUME NEW i \in 1..Len(unsent')
          PROVE  unsent'[i] = Encode(script.frames[Out' + i])
      <4>1. i + 1 \in 1..Len(unsent) /\ Out' + i = Out + (i + 1)
        BY <2>2, <2>3, <2>5, <2>6
      <4>2. unsent[i + 1] = Encode(script.frames[Out + (i + 1)])
        BY <4>1 DEF DeliveryInv
      <4>3. QED
        BY <2>6, <4>1, <4>2
    <3>2. QED
      BY <3>1
  <2>8. open' => UpToDate(Meaning(script.frames)[Seen])'
    BY <2>1, <2>4 DEF DeliveryInv, UpToDate
  <2>9. Out' \in 0..Len(script'.frames) /\ Out' >= 1 /\ sock' = Encode(script'.frames[Out'])
    BY <2>1, <2>2, <2>3
  <2>10. QED
    BY <2>1, <2>7, <2>8, <2>9 DEF DeliveryInv
<1>2. CASE ClientClose
  BY <1>2, DeliveryKept DEF ClientClose
<1>3. CASE Tick
  BY <1>3, DeliveryKept DEF Tick, clientVars
<1>4. ASSUME NEW n \in WriteSizes, AppWrite(n)
      PROVE  DeliveryInv'
  BY <1>4, DeliveryKept DEF AppWrite, clientVars
<1>5. CASE ServerPing
  BY <1>5, DeliveryKept DEF ServerPing, clientVars
<1>6. CASE ReadFrame
  <2>1. UNCHANGED <<script, unsent>>
    BY <1>6 DEF ReadFrame, clientVars
  <2> SUFFICES ASSUME Orderly PROVE DeliveryInv'
    BY <2>1 DEF DeliveryInv, Orderly
  <2> DEFINE m == Meaning(script.frames)[Out - 1]
             f == script.frames[Out]
  <2>2. /\ Out \in 1..Len(script.frames) /\ sock' = <<>> /\ Out' = Out /\ Seen' = Out
        /\ f \in Frames /\ Means(Got, f) /\ Handle(Got) /\ UpToDate(m) /\ Collected(m)
        /\ Meaning(script.frames)[Out] = After(m, f) /\ delivered \in Seq(Calls)
    BY <1>6, OrderlyRead
  <2>3. Meaning(script.frames)[Seen]' = After(m, f)
    BY <2>1, <2>2
  <2> HIDE DEF m, f
  <2>4. /\ delivered' \in Seq(Calls)
        /\ open' => Len(delivered') = Len(After(m, f).done) /\ lastPayload' = Kept(After(m, f))
    <3>1. ASSUME NEW mm, NEW ff \in Frames, mm = m, ff = f
          PROVE  /\ delivered' \in Seq(Calls)
                 /\ open' => /\ Len(delivered') = Len(After(mm, ff).done)
                             /\ lastPayload' = Kept(After(mm, ff))
      BY <2>2, <3>1, HandleMeans DEF UpToDate
    <3>2. QED
      BY <2>2, <3>1
  <2> DEFINE M == After(m, f)
  <2>5. open' => UpToDate(Meaning(script.frames)[Seen])'
    <3>1. Meaning(script'.frames)[Seen'] = M
      BY <2>3
    <3> HIDE DEF M
    <3>2. open' => Len(delivered') = Len(M.done) /\ lastPayload' = Kept(M)
      BY <2>4 DEF M
    <3>3. QED
      BY <3>1, <3>2 DEF UpToDate
  <2>6. QED
    BY <2>1, <2>2, <2>4, <2>5 DEF DeliveryInv
<1>7. ASSUME NEW b \in {0, 1}, ReadPastEnd(b)
      PROVE  DeliveryInv'
  <2>1. ~Orderly
    BY <1>7, OrderlyHolds DEF ReadPastEnd
  <2>2. QED
    BY <1>7, <2>1 DEF ReadPastEnd, clientVars, Orderly, DeliveryInv
<1>8. CASE ReadAborts
  BY <1>8, DeliveryKept DEF ReadAborts, clientVars
<1>9. CASE ReadEnd
  BY <1>9, DeliveryKept DEF ReadEnd, Up, clientVars
<1>10. CASE UNCHANGED vars
  BY <1>10, DeliveryKept DEF vars
<1>11. QED
  BY <1>1, <1>2, <1>3, <1>4, <1>5, <1>6, <1>7, <1>8, <1>9, <1>10 DEF Next, Read

-----------------------------------------------------------------------------
(* The channel a connection implements.                                    *)
meant == Promised(Messages(script.frames))
given == Len(Promised(Messages(Offered)))
taken == Promised(delivered)
shut == ~open

LEMMA GivenIs ==
    ASSUME WsInv, DeliveryInv, Orderly
    PROVE  /\ given = Len(Meaning(script.frames)[Out].done)
           /\ Collected(Meaning(script.frames)[Out])
           /\ Begins(Meaning(script.frames)[Out].done, Messages(script.frames))
<1>1. Out \in 0..Len(script.frames) /\ script.frames \in Seq(Frames)
  BY ScriptFrames DEF DeliveryInv
<1>2. Messages(SubSeq(script.frames, 1, Out)) = Meaning(script.frames)[Out].done
  BY <1>1, MeaningOfPrefix
<1>3. given = Len(Meaning(script.frames)[Out].done)
  BY <1>2 DEF given, Promised, Offered, Out
<1>4. QED
  BY <1>1, <1>3, MeaningCollected, MeaningGrows

LEMMA InitIsInit == Init => Channel!Init
<1> SUFFICES ASSUME Init PROVE Channel!Init
  OBVIOUS
<1>1. WsInv /\ DeliveryInv /\ open /\ delivered = <<>>
  BY InitWs, InitDelivery DEF Init
<1>2. Len(<<>>) = 0
  OBVIOUS
<1>3. given = 0
  <2>1. CASE Orderly
    <3>1. script.frames \in Seq(Frames) /\ Len(script.frames) \in Nat
      BY <1>1, ScriptFrames
    <3>2. DOMAIN script.frames = 1..Len(script.frames)
      BY <3>1, LenProperties
    <3>3. unsent = [i \in 1..Len(script.frames) |-> Encode(script.frames[i])]
      BY <3>2 DEF Init
    <3>4. Len(unsent) = Len(script.frames)
      BY <3>1, <3>3
    <3>5. Out = 0
      BY <3>1, <3>4 DEF Out
    <3>6. Meaning(script.frames)[0] = Start /\ Start.done = <<>>
      BY <3>1, MeaningStep DEF Start
    <3>7. QED
      BY <1>1, <1>2, <2>1, <3>5, <3>6, GivenIs
  <2>2. CASE ~Orderly
    BY <1>2, <2>2 DEF given, Promised
  <2>3. QED
    BY <2>1, <2>2
<1>4. taken = <<>>
  BY <1>1 DEF taken, Promised
<1>5. shut = FALSE
  BY <1>1 DEF shut
<1>6. QED
  BY <1>3, <1>4, <1>5 DEF Channel!Init, given, taken, shut

(* The connection is not opened again.                                     *)
LEMMA OpenStep == WsInv /\ [Next]_vars => open' = open \/ open' = FALSE
<1> SUFFICES ASSUME WsInv, [Next]_vars PROVE open' = open \/ open' = FALSE
  OBVIOUS
<1>1. ASSUME NEW buf, Handle(buf), open PROVE open' = open \/ open' = FALSE
  BY <1>1 DEF Handle, Close, Ping, Pong, LastFragment, Fragment, Return, WsInv
<1>2. CASE ReadFrame \/ \E b \in {0, 1} : ReadPastEnd(b)
  BY <1>1, <1>2 DEF ReadFrame, ReadPastEnd, Up
<1>3. CASE ReadAborts \/ ReadEnd
  BY <1>3 DEF ReadAborts, ReadEnd, Return
<1>4. CASE \/ unsent # <<>> /\ \E n \in 1..Len(unsent[1]) : Send(n)
           \/ ClientClose \/ Tick \/ ServerPing
           \/ \E n \in WriteSizes : AppWrite(n)
  BY <1>4 DEF Send, ClientClose, Tick, ServerPing, AppWrite
<1>5. CASE UNCHANGED vars
  BY <1>5 DEF vars
<1>6. QED
  BY <1>2, <1>3, <1>4, <1>5 DEF Next, Read

ChannelStep == Channel!Next \/ UNCHANGED <<meant, given, taken, shut>>

(* Nothing but the end of the connection is seen in the channel.           *)
LEMMA OnlyClosed ==
    ASSUME UNCHANGED <<meant, given, taken>>, open' = open \/ open' = FALSE
    PROVE  ChannelStep
<1>1. CASE open' = open
  BY <1>1 DEF ChannelStep, shut
<1>2. CASE open' = FALSE
  <2>1. shut' = TRUE
    BY <1>2 DEF shut
  <2>2. Channel!Close
    BY <2>1 DEF Channel!Close, meant, given, taken, shut
  <2>3. QED
    BY <2>2 DEF ChannelStep, Channel!Next
<1>3. QED
  BY <1>1, <1>2

LEMMA ScriptKept == [Next]_vars => script' = script
BY DEF Next, Read, Send, ClientClose, Tick, AppWrite, ServerPing, ReadFrame, ReadPastEnd,
       ReadAborts, ReadEnd, clientVars, vars

LEMMA MeantKept ==
    ASSUME script' = script
    PROVE  (Orderly' <=> Orderly) /\ meant' = meant
BY DEF Orderly, meant, Promised

(* A frame that the client sends offers a message or none.                 *)
LEMMA SendOffers ==
    ASSUME WsInv, DeliveryInv, Orderly, NEW n \in 1..Len(unsent[1]), unsent # <<>>, Send(n)
    PROVE  ChannelStep
<1> DEFINE F == script.frames
           m == Meaning(F)[Out]
           M == Meaning(F)[Out + 1]
<1>1. script' = script /\ delivered' = delivered /\ open' = open
  BY DEF Send
<1>2. Out' = Out + 1 /\ Out + 1 \in 1..Len(F)
  BY OrderlySend
<1>3. meant' = meant /\ Orderly' /\ taken' = taken /\ shut' = shut
  BY <1>1, MeantKept DEF taken, Promised, shut
<1>4. given = Len(m.done) /\ Collected(m)
  BY GivenIs
<1>5. given' = Len(M.done) /\ Begins(M.done, Messages(F))
  <2>1. F \in Seq(Frames) /\ Out + 1 \in 0..Len(F)
    BY <1>2, ScriptFrames
  <2>2. given' = Len(Messages(SubSeq(F, 1, Out + 1)))
    BY <1>1, <1>2, <1>3 DEF given, Promised, Offered, Out
  <2>3. QED
    BY <2>1, <2>2, MeaningOfPrefix, MeaningGrows
<1>6. Grows(m.done, M.done)
  <2>1. F \in Seq(Frames) /\ F[Out + 1] \in Frames /\ Out \in 0..Len(F) /\ (Out + 1) - 1 = Out
    BY <1>2, ScriptFrames DEF DeliveryInv
  <2>2. M = After(m, F[Out + 1])
    BY <1>2, <2>1, MeaningStep
  <2>3. QED
    BY <1>4, <2>1, <2>2, AfterGrows
<1>7. m.done \in Seq(MessageSet)
  BY <1>4 DEF Collected, CollectedSet
<1> HIDE DEF m, M
<1>8. CASE M.done = m.done
  BY <1>3, <1>4, <1>5, <1>8 DEF ChannelStep
<1>9. CASE \E e \in MessageSet : M.done = Append(m.done, e)
  <2>1. Len(M.done) = Len(m.done) + 1 /\ Len(m.done) \in Nat
    BY <1>7, <1>9, AppendProperties
  <2>2. Len(M.done) <= Len(Messages(F))
    BY <1>5 DEF Begins
  <2>3. meant = Messages(F)
    BY DEF meant, Promised
  <2>4. Len(Messages(F)) \in Nat
    <3>1. F \in Seq(Frames) /\ Len(F) \in 0..Len(F)
      BY ScriptFrames
    <3>2. Messages(F) \in Seq(MessageSet)
      BY <3>1, MeaningCollected DEF Messages, Collected, CollectedSet
    <3>3. QED
      BY <3>2
  <2>5. given < Len(meant) /\ given' = given + 1
    BY <1>4, <1>5, <2>1, <2>2, <2>3, <2>4
  <2>6. Channel!Offer
    BY <1>3, <2>5 DEF Channel!Offer, meant, given, taken, shut
  <2>7. QED
    BY <2>6 DEF ChannelStep, Channel!Next
<1>10. QED
  BY <1>6, <1>8, <1>9 DEF Grows

(* A frame that Read handles delivers the message it completes, or none.   *)
LEMMA CallDelivers ==
    ASSUME WsInv, DeliveryInv, Orderly, Out \in 1..Len(script.frames), open,
           script' = script, unsent' = unsent, open' \in BOOLEAN,
           NEW m, m = Meaning(script.frames)[Out - 1], Collected(m), UpToDate(m),
           NEW f \in Frames, f = script.frames[Out], HandedOver(m, f)
    PROVE  Channel!Deliver
<1> DEFINE F == script.frames
           e == MessageOf(m, f)
<1>1. Meaning(F)[Out] = After(m, f)
  BY ScriptFrames, MeaningStep
<1>2. Meaning(F)[Out].done = Append(m.done, e) /\ m.done \in Seq(MessageSet) /\ e \in MessageSet
  <2>1. f.op \notin Control /\ f.fin = 1
    BY DEF HandedOver
  <2>2. After(m, f).done = Append(m.done, MessageOf(m, f)) /\ MessageOf(m, f) \in MessageSet
    BY <2>1, AfterLast
  <2>3. m.done \in Seq(MessageSet)
    BY DEF Collected, CollectedSet
  <2>4. QED
    BY <1>1, <2>2, <2>3
<1>3. given = Len(Meaning(F)[Out].done) /\ Begins(Meaning(F)[Out].done, Messages(F))
  BY GivenIs
<1>4. Len(delivered) = Len(m.done) /\ Len(m.done) \in Nat
  BY <1>2 DEF UpToDate
<1>5. given = Len(m.done) + 1 /\ Meaning(F)[Out].done[Len(m.done) + 1] = e
      /\ Len(Meaning(F)[Out].done) = Len(m.done) + 1
  <2> HIDE DEF e
  <2>1. QED
    BY <1>2, <1>3, AppendProperties
<1>6. Messages(F)[Len(m.done) + 1] = e
  <2>1. Len(m.done) + 1 \in 1..Len(Meaning(F)[Out].done)
    BY <1>4, <1>5
  <2>2. QED
    BY <1>3, <1>5, <2>1 DEF Begins
<1>7. meant = Messages(F) /\ taken = delivered /\ meant' = meant /\ taken' = delivered'
  BY MeantKept DEF meant, taken, Promised
<1>8. given' = given
  BY MeantKept DEF given, Promised, Offered
<1>9. Len(taken) < given /\ meant[Len(taken) + 1] = e
  BY <1>4, <1>5, <1>6, <1>7
<1>10. Channel!Rest(e, m.spoiled) = Kept(m) \o f.payload
  <2>1. m.parts \in Seq(Bytes) /\ m.spoiled \in 0..Len(m.parts) /\ f.payload \in Bytes
    BY DEF Collected, CollectedSet, Frames, Bytes
  <2>2. e.fragments = Append(m.parts, f.payload)
    BY DEF MessageOf
  <2>3. Channel!Rest(e, m.spoiled)
          = Joined(SubSeq(Append(m.parts, f.payload), m.spoiled + 1, Len(Append(m.parts, f.payload))))
    BY <2>2, ChannelJoined DEF Channel!Rest
  <2>4. Kept(m) = Joined(SubSeq(m.parts, m.spoiled + 1, Len(m.parts)))
    BY DEF Kept
  <2>5. QED
    BY <2>1, <2>3, <2>4, KeptNext
<1>11. e.type = f.op /\ e.spoiled = m.spoiled /\ m.spoiled \in 0..e.spoiled
  BY DEF MessageOf, Collected, CollectedSet
<1> HIDE DEF e
<1>12. taken' = Append(taken, [type |-> e.type, payload |-> Channel!Rest(e, m.spoiled)])
  BY <1>7, <1>10, <1>11 DEF HandedOver
<1>13. \E n \in 0..e.spoiled :
         taken' = Append(taken, [type |-> e.type, payload |-> Channel!Rest(e, n)])
  BY <1>11, <1>12
<1>14. ~shut /\ shut' \in BOOLEAN
  BY DEF shut
<1>15. QED
  BY <1>7, <1>8, <1>9, <1>13, <1>14 DEF Channel!Deliver, meant, given, taken, shut

LEMMA StepIsStep == WsInv /\ OrderlyInv /\ DeliveryInv /\ [Next]_vars => ChannelStep
<1> SUFFICES ASSUME WsInv, OrderlyInv, DeliveryInv, [Next]_vars PROVE ChannelStep
  OBVIOUS
<1>1. script' = script /\ meant' = meant /\ (Orderly' <=> Orderly)
  BY ScriptKept, MeantKept
<1>2. open' = open \/ open' = FALSE
  BY OpenStep
<1>3. ASSUME UNCHANGED <<unsent, delivered>> PROVE ChannelStep
  BY <1>1, <1>2, <1>3, OnlyClosed DEF given, taken, Promised, Offered
<1>4. CASE ~Orderly
  BY <1>1, <1>2, <1>4, OnlyClosed DEF given, taken, Promised
<1>5. ASSUME NEW n \in 1..Len(unsent[1]), unsent # <<>>, Send(n), Orderly
      PROVE  ChannelStep
  BY <1>5, SendOffers
<1>6. ASSUME ReadFrame, Orderly PROVE ChannelStep
  <2> DEFINE m == Meaning(script.frames)[Out - 1]
             f == script.frames[Out]
  <2>1. /\ Out \in 1..Len(script.frames) /\ open /\ unsent' = unsent
        /\ f \in Frames /\ Means(Got, f) /\ Handle(Got) /\ UpToDate(m) /\ Collected(m)
        /\ delivered \in Seq(Calls)
    BY <1>6, OrderlyRead
  <2>2. open' \in BOOLEAN
    BY <1>2, <2>1
  <2> HIDE DEF m, f
  <2>3. ASSUME NEW mm, NEW ff \in Frames, mm = m, ff = f PROVE ChannelStep
    <3>1. UNCHANGED delivered \/ HandedOver(mm, ff)
      BY <2>1, <2>3, HandleMeans
    <3>2. CASE UNCHANGED delivered
      BY <1>3, <2>1, <3>2
    <3>3. CASE HandedOver(mm, ff)
      <4>1. mm = Meaning(script.frames)[Out - 1] /\ ff = script.frames[Out]
        BY <2>3 DEF m, f
      <4>2. Collected(mm) /\ UpToDate(mm)
        BY <2>1, <2>3
      <4>3. Channel!Deliver
        BY <1>1, <1>6, <2>1, <2>2, <3>3, <4>1, <4>2, CallDelivers
      <4>4. QED
        BY <4>3 DEF ChannelStep, Channel!Next
    <3>4. QED
      BY <3>1, <3>2, <3>3
  <2>4. QED
    BY <2>1, <2>3
<1>7. ASSUME NEW b \in {0, 1}, ReadPastEnd(b), Orderly PROVE ChannelStep
  BY <1>7, OrderlyHolds DEF ReadPastEnd
<1>8. CASE ReadAborts \/ ReadEnd
  BY <1>3, <1>8 DEF ReadAborts, ReadEnd, clientVars
<1>9. CASE ClientClose \/ Tick \/ ServerPing \/ \E n \in WriteSizes : AppWrite(n)
  BY <1>3, <1>9 DEF ClientClose, Tick, ServerPing, AppWrite, clientVars
<1>10. CASE UNCHANGED vars
  BY <1>3, <1>10 DEF vars
<1>11. QED
  BY <1>4, <1>5, <1>6, <1>7, <1>8, <1>9, <1>10 DEF Next, Read

(* ws_message_handler gets the messages of an orderly client in the order  *)
(* they were sent, each once and whole but for the fragments before a ping *)
(* or pong, whatever frames make them up, with or without a mask, and      *)
(* wherever the connection ends.                                           *)
THEOREM ChannelRefined == Spec => DeliversMessages
<1>1. Spec => [](WsInv /\ OrderlyInv /\ DeliveryInv)
  BY InitWs, WsStep, InitOrderly, OrderlyStep, InitDelivery, DeliveryStep, PTL DEF Spec
<1>2. WsInv /\ OrderlyInv /\ DeliveryInv /\ [Next]_vars
        => [Channel!Next]_<<meant, given, taken, shut>>
  BY StepIsStep DEF ChannelStep
<1>3. QED
  BY <1>1, <1>2, InitIsInit, PTL DEF Spec, DeliversMessages, Channel!Spec, Channel!vars,
     meant, given, taken, shut

-----------------------------------------------------------------------------
(* The pongs.  Frames come into the socket one by one, in turn; the step   *)
(* that takes a ping out of it writes a pong of the ping's length, and     *)
(* no other step writes a pong.                                            *)
Wrote(type, n) == \E w : sent' = Append(sent, w) /\ w.type = type /\ w.length = n

Arrives == sock = <<>> /\ sock' # <<>> /\ Out' = Out + 1 /\ sent' = sent
Leaves == sock # <<>> /\ sock' = <<>> /\ Out' = Out
Replied(f) == IF f.op = kTypePing THEN Wrote(kTypePong, Len(f.payload)) ELSE sent' = sent
Unasked == sent' = sent \/ \E n \in Nat : Wrote(kTypeBinary, n) \/ Wrote(kTypePing, n)

InTurn ==
    \/ Arrives
    \/ Leaves /\ Replied(script.frames[Out])
    \/ UNCHANGED <<sock, Out>> /\ Unasked

LEMMA WriteWrites == \A type, n : Write(type, n) => Wrote(type, n)
BY DEF Write, Wrote

LEMMA TurnStep ==
    ASSUME WsInv, OrderlyInv, DeliveryInv, [Next]_vars, Orderly
    PROVE  InTurn
<1>1. ASSUME NEW n \in 1..Len(unsent[1]), unsent # <<>>, Send(n)
      PROVE  InTurn
  <2>1. sock = <<>> /\ sock' # <<>> /\ Out' = Out + 1
    BY <1>1, OrderlySend
  <2>2. QED
    BY <1>1, <2>1 DEF InTurn, Arrives, Send
<1>2. ASSUME NEW n \in WriteSizes, AppWrite(n) PROVE InTurn
  <2>1. Wrote(kTypeBinary, n) /\ UNCHANGED <<script, unsent, sock>>
    BY <1>2, WriteWrites DEF AppWrite, clientVars
  <2>2. n \in Nat
    BY <1>2, WebsocketAssumption
  <2>3. QED
    BY <2>1, <2>2 DEF InTurn, Unasked, Out
<1>3. CASE ServerPing
  <2>1. Wrote(kTypePing, 0) /\ UNCHANGED <<script, unsent, sock>>
    BY <1>3, WriteWrites DEF ServerPing, clientVars
  <2>2. 0 \in Nat
    OBVIOUS
  <2>3. QED
    BY <2>1, <2>2 DEF InTurn, Unasked, Out
<1>4. CASE ReadFrame
  <2> DEFINE f == script.frames[Out]
  <2>1. sock' = <<>> /\ Out' = Out /\ Means(Got, f) /\ Handle(Got)
    BY <1>4, OrderlyRead
  <2>2. sock # <<>>
    BY <1>4 DEF ReadFrame
  <2>3. Opcode(Got) = f.op /\ PayloadLength(Got) = Len(f.payload)
    BY <2>1 DEF Means
  <2> HIDE DEF f
  <2>4. Replied(f)
    <3>1. CASE f.op = kTypePing
      <4>1. Write(kTypePong, PayloadLength(Got))
        BY <2>1, <2>3, <3>1 DEF Handle, Close, Ping, Pong, LastFragment, Fragment, IsData,
           kTypeClose, kTypePing, kTypePong
      <4>2. QED
        BY <2>3, <3>1, <4>1, WriteWrites DEF Replied
    <3>2. CASE f.op # kTypePing
      BY <2>1, <2>3, <3>2 DEF Handle, Close, Ping, Pong, LastFragment, Fragment, Replied
    <3>3. QED
      BY <3>1, <3>2
  <2>5. QED
    BY <2>1, <2>2, <2>4 DEF InTurn, Leaves, f
<1>5. ASSUME NEW b \in {0, 1}, ReadPastEnd(b) PROVE InTurn
  BY <1>5, OrderlyHolds DEF ReadPastEnd
<1>6. CASE ClientClose \/ Tick \/ ReadAborts \/ ReadEnd \/ UNCHANGED vars
  BY <1>6 DEF ClientClose, Tick, ReadAborts, ReadEnd, clientVars, vars, InTurn, Unasked, Out
<1>7. QED
  BY <1>1, <1>2, <1>3, <1>4, <1>5, <1>6 DEF Next, Read

(* Every ping of an orderly client that Read takes from the socket is      *)
(* answered by the same Read, with a pong of the ping's length; the client *)
(* gets no other pong, so that its pings are answered once each, in turn.  *)
THEOREM PongsInTurn == Spec => [][Orderly => InTurn]_vars
<1>1. Spec => [](WsInv /\ OrderlyInv /\ DeliveryInv)
  BY InitWs, WsStep, InitOrderly, OrderlyStep, InitDelivery, DeliveryStep, PTL DEF Spec
<1>2. WsInv /\ OrderlyInv /\ DeliveryInv /\ [Next]_vars => [Orderly => InTurn]_vars
  BY TurnStep
<1>3. QED
  BY <1>1, <1>2, PTL DEF Spec
================================================================================
