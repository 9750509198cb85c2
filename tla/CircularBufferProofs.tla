------------------------- MODULE CircularBufferProofs -------------------------
(***************************************************************************)
(* Proofs about CircularBuffer, for every number of buffers, every size    *)
(* and every order of operations.                                          *)
(***************************************************************************)
EXTENDS CircularBuffer, SequenceTheorems, TLAPS

-----------------------------------------------------------------------------
(* Content, as a function of a buffer's four fields.                       *)
Queue(sz, m, r, w) ==
    IF w < r THEN Slice(m, r, sz - r) \o Slice(m, 0, w) ELSE Slice(m, r, w - r)

(* What the class keeps of its positions.                                  *)
Positions(sz, r, w) ==
    /\ sz \in Nat /\ r \in Nat /\ w \in Nat
    /\ IF sz = 0 THEN r = 0 /\ w = 0 ELSE r < sz /\ w < sz

Count(sz, r, w) == IF w >= r THEN w - r ELSE sz - r + w
Cell(sz, r, i) == IF r + i - 1 < sz THEN r + i - 1 ELSE r + i - 1 - sz

(* The content cell by cell.                                               *)
CellByCell(S, sz, m, r, w) ==
    /\ Queue(sz, m, r, w) \in Seq(S)
    /\ Len(Queue(sz, m, r, w)) = Count(sz, r, w)
    /\ Count(sz, r, w) \in Nat
    /\ \A i \in 1..Count(sz, r, w) : /\ Cell(sz, r, i) \in 0..(sz - 1)
                                     /\ Queue(sz, m, r, w)[i] = m[Cell(sz, r, i)]

(* The content goes on at 0 behind the end of the storage.                 *)
LEMMA QueueProperties ==
    ASSUME NEW S, NEW sz, NEW r, NEW w, Positions(sz, r, w),
           NEW m \in [0..(sz - 1) -> S]
    PROVE  CellByCell(S, sz, m, r, w)
<1>0. sz \in Nat /\ r \in Nat /\ w \in Nat /\ r <= sz /\ w <= sz
  BY DEF Positions
<1>1. CASE w < r
  BY <1>0, <1>1 DEF CellByCell, Queue, Slice, Count, Cell
<1>2. CASE ~(w < r)
  BY <1>0, <1>2 DEF CellByCell, Queue, Slice, Count, Cell
<1>3. QED
  BY <1>1, <1>2

-----------------------------------------------------------------------------
(* ContinuousWriteBuffer, and the position a caller commits.               *)
Room(sz, r, w) == IF w < r THEN r - w - 1 ELSE sz - w - (IF r = 0 THEN 1 ELSE 0)

Advanced(sz, w, n) == IF w + n = sz THEN 0 ELSE w + n

(* The committed position lies in the storage and counts n bytes more: it  *)
(* does not meet the read position.                                        *)
LEMMA AdvanceCounts ==
    ASSUME NEW sz, NEW r, NEW w, Positions(sz, r, w), sz > 0,
           NEW n \in 1..Room(sz, r, w)
    PROVE  /\ n \in Nat
           /\ Positions(sz, r, Advanced(sz, w, n))
           /\ Count(sz, r, Advanced(sz, w, n)) = Count(sz, r, w) + n
           /\ w + n <= sz
<1>1. sz \in Nat /\ r \in Nat /\ w \in Nat /\ r < sz /\ w < sz
  BY DEF Positions
<1>2. CASE w < r
  BY <1>1, <1>2 DEF Room, Advanced, Positions, Count
<1>3. CASE w >= r
  BY <1>1, <1>3 DEF Room, Advanced, Positions, Count
<1>4. QED
  BY <1>1, <1>2, <1>3

(* Where the cells of the content lie: none where a copy goes, and the     *)
(* next ones exactly there.                                                *)
LEMMA CellsOfCopy ==
    ASSUME NEW sz, NEW r, NEW w, Positions(sz, r, w), sz > 0,
           NEW n \in 1..Room(sz, r, w), NEW i \in 1..(Count(sz, r, w) + n)
    PROVE  IF i <= Count(sz, r, w) THEN Cell(sz, r, i) \notin w..(w + n - 1)
           ELSE Cell(sz, r, i) = w + (i - Count(sz, r, w)) - 1
<1>1. sz \in Nat /\ r \in Nat /\ w \in Nat /\ r < sz /\ w < sz
  BY DEF Positions
<1>2. CASE w < r
  BY <1>1, <1>2 DEF Room, Cell, Count
<1>3. CASE w >= r
  BY <1>1, <1>3 DEF Room, Cell, Count
<1>4. QED
  BY <1>1, <1>2, <1>3

(* A copy behind the content is appended to it.                            *)
LEMMA QueueWrite ==
    ASSUME NEW S, NEW sz, NEW r, NEW w, Positions(sz, r, w), sz > 0,
           NEW m \in [0..(sz - 1) -> S], NEW s \in Seq(S),
           Len(s) \in 1..Room(sz, r, w)
    PROVE  /\ Copied(m, w, s) \in [0..(sz - 1) -> S]
           /\ Queue(sz, Copied(m, w, s), r, Advanced(sz, w, Len(s))) = Queue(sz, m, r, w) \o s
<1> DEFINE n == Len(s)
           m2 == Copied(m, w, s)
           w2 == Advanced(sz, w, n)
           c == Count(sz, r, w)
           old == Queue(sz, m, r, w)
           new == Queue(sz, m2, r, w2)
<1>1. /\ sz \in Nat /\ r \in Nat /\ w \in Nat /\ n \in Nat
      /\ Positions(sz, r, w2)
      /\ Count(sz, r, w2) = c + n
      /\ w + n <= sz
  BY AdvanceCounts DEF Positions
<1>2. /\ m2 \in [0..(sz - 1) -> S]
      /\ \A i \in 0..(sz - 1) : m2[i] = IF i \in w..(w + n - 1) THEN s[i - w + 1] ELSE m[i]
  <2>1. \A i \in w..(w + n - 1) : i - w + 1 \in 1..Len(s)
    BY <1>1
  <2>2. \A i \in w..(w + n - 1) : s[i - w + 1] \in S
    BY <2>1, ElementOfSeq
  <2>3. DOMAIN m = 0..(sz - 1)
    OBVIOUS
  <2>4. QED
    BY <2>2, <2>3 DEF Copied
<1> HIDE DEF n, m2, w2, c
<1>3. /\ old \in Seq(S) /\ Len(old) = c /\ c \in Nat
      /\ \A i \in 1..c : Cell(sz, r, i) \in 0..(sz - 1) /\ old[i] = m[Cell(sz, r, i)]
  <2>1. CellByCell(S, sz, m, r, w)
    BY QueueProperties
  <2>2. QED
    BY <2>1 DEF CellByCell, c
<1>4. /\ new \in Seq(S) /\ Len(new) = Count(sz, r, w2)
      /\ \A i \in 1..Count(sz, r, w2) : /\ Cell(sz, r, i) \in 0..(sz - 1)
                                        /\ new[i] = m2[Cell(sz, r, i)]
  <2>1. CellByCell(S, sz, m2, r, w2)
    BY <1>1, <1>2, QueueProperties
  <2>2. QED
    BY <2>1 DEF CellByCell
<1> HIDE DEF old, new
<1>5. /\ old \o s \in Seq(S)
      /\ Len(old \o s) = c + n
      /\ \A i \in 1..(c + n) : (old \o s)[i] = IF i <= c THEN old[i] ELSE s[i - c]
  BY <1>3, ConcatProperties DEF n
<1>6. ASSUME NEW i \in 1..(c + n)
      PROVE  new[i] = (old \o s)[i]
  <2>1. new[i] = m2[Cell(sz, r, i)] /\ Cell(sz, r, i) \in 0..(sz - 1)
    BY <1>1, <1>4
  <2>2. IF i <= c THEN Cell(sz, r, i) \notin w..(w + n - 1)
        ELSE Cell(sz, r, i) = w + (i - c) - 1
    BY CellsOfCopy DEF c, n
  <2>3. CASE i <= c
    <3>1. i \in 1..c /\ m2[Cell(sz, r, i)] = m[Cell(sz, r, i)]
      BY <1>2, <1>3, <2>1, <2>2, <2>3
    <3>2. QED
      BY <1>3, <1>5, <2>1, <2>3, <3>1
  <2>4. CASE i > c
    <3>1. /\ Cell(sz, r, i) \in w..(w + n - 1)
          /\ Cell(sz, r, i) - w + 1 = i - c
      BY <1>1, <1>3, <2>2, <2>4
    <3>2. m2[Cell(sz, r, i)] = s[i - c]
      BY <1>2, <2>1, <3>1
    <3>3. QED
      BY <1>3, <1>5, <2>1, <2>4, <3>2
  <2>5. i <= c \/ i > c
    BY <1>1, <1>3
  <2>6. QED
    BY <2>3, <2>4, <2>5, Zenon
<1>7. new = old \o s
  BY <1>1, <1>4, <1>5, <1>6, SeqEqual
<1>8. QED
  BY <1>2, <1>7 DEF m2, w2, n, old, new

-----------------------------------------------------------------------------
(* Popout takes the front off the content.                                 *)
Popped(sz, m, r, r2, w, n) ==
    /\ Positions(sz, r2, w)
    /\ Queue(sz, m, r2, w) = SubSeq(Queue(sz, m, r, w), n + 1, Len(Queue(sz, m, r, w)))

LEMMA QueuePopout ==
    ASSUME NEW S, NEW sz, NEW r, NEW w, Positions(sz, r, w), sz > 0,
           NEW m \in [0..(sz - 1) -> S], NEW n \in 1..Count(sz, r, w)
    PROVE  Popped(sz, m, r, (r + n) % sz, w, n)
<1> DEFINE c == Count(sz, r, w)
           r2 == (r + n) % sz
           old == Queue(sz, m, r, w)
           new == Queue(sz, m, r2, w)
           rest == SubSeq(old, n + 1, Len(old))
<1>1. /\ sz \in Nat /\ r \in Nat /\ w \in Nat /\ r < sz /\ w < sz
      /\ c \in Nat /\ c < sz /\ n \in 1..c
  BY DEF Positions, Count
<1>2. r2 = IF r + n < sz THEN r + n ELSE r + n - sz
  <2>1. r \in 0..(sz - 1) /\ n \in 1..(sz - 1)
    BY <1>1
  <2> HIDE DEF c
  <2>2. QED
    BY <1>1, <2>1
<1> HIDE DEF r2
<1>3. Positions(sz, r2, w)
  BY <1>1, <1>2 DEF Positions
<1>4. Count(sz, r2, w) = c - n
  BY <1>1, <1>2 DEF Count
<1>5. CellByCell(S, sz, m, r, w) /\ CellByCell(S, sz, m, r2, w)
  BY <1>3, QueueProperties
<1>6. /\ old \in Seq(S) /\ Len(old) = c
      /\ \A i \in 1..c : old[i] = m[Cell(sz, r, i)]
  BY <1>5 DEF CellByCell
<1>7. /\ new \in Seq(S) /\ Len(new) = c - n
      /\ \A i \in 1..(c - n) : new[i] = m[Cell(sz, r2, i)]
  BY <1>4, <1>5 DEF CellByCell
<1>8. \A i \in 1..(c - n) : Cell(sz, r2, i) = Cell(sz, r, n + i)
  BY <1>1, <1>2 DEF Cell, Count
<1> HIDE DEF c, old, new
<1>9. /\ rest \in Seq(S) /\ Len(rest) = c - n
      /\ \A i \in 1..(c - n) : rest[i] = old[n + i]
  BY <1>1, <1>6
<1> HIDE DEF rest
<1>10. \A i \in 1..(c - n) : new[i] = rest[i]
  <2> SUFFICES ASSUME NEW i \in 1..(c - n) PROVE new[i] = rest[i]
    OBVIOUS
  <2>1. n + i \in 1..c
    BY <1>1
  <2>2. QED
    BY <1>6, <1>7, <1>8, <1>9, <2>1
<1>11. new = rest
  BY <1>7, <1>9, <1>10, SeqEqual
<1>12. QED
  BY <1>3, <1>11 DEF new, rest, r2, old, Popped

(* Extend's new storage, and the content it holds.                         *)
Extended(q, n) == [i \in 0..(n - 1) |-> IF i < Len(q) THEN q[i + 1] ELSE Junk]

LEMMA QueueExtend ==
    ASSUME NEW S, Junk \in S, NEW q \in Seq(S), NEW n \in Nat, Len(q) < n
    PROVE  /\ Positions(n, 0, Len(q))
           /\ Extended(q, n) \in [0..(n - 1) -> S]
           /\ Queue(n, Extended(q, n), 0, Len(q)) = q
<1> DEFINE m == Extended(q, n)
           new == Queue(n, m, 0, Len(q))
<1>1. Len(q) \in Nat /\ \A i \in 1..Len(q) : q[i] \in S
  BY LenProperties, ElementOfSeq
<1>2. Positions(n, 0, Len(q))
  BY <1>1 DEF Positions
<1>3. /\ m \in [0..(n - 1) -> S]
      /\ \A i \in 0..(n - 1) : m[i] = IF i < Len(q) THEN q[i + 1] ELSE Junk
  BY <1>1 DEF Extended
<1> HIDE DEF m
<1>4. CellByCell(S, n, m, 0, Len(q))
  BY <1>2, <1>3, QueueProperties
<1>5. Count(n, 0, Len(q)) = Len(q)
  BY <1>1 DEF Count
<1>6. /\ new \in Seq(S) /\ Len(new) = Len(q)
      /\ \A i \in 1..Len(q) : new[i] = m[Cell(n, 0, i)]
  BY <1>4, <1>5 DEF CellByCell
<1>7. \A i \in 1..Len(q) : Cell(n, 0, i) = i - 1
  BY <1>1 DEF Cell
<1> HIDE DEF new
<1>8. \A i \in 1..Len(q) : new[i] = q[i]
  BY <1>1, <1>3, <1>6, <1>7
<1>9. new = q
  BY <1>6, <1>8, SeqEqual
<1>10. QED
  BY <1>2, <1>3, <1>9 DEF new, m

(* A buffer without storage has no content.                                *)
LEMMA QueueNone ==
    ASSUME NEW m PROVE Queue(0, m, 0, 0) = <<>>
BY DEF Queue, Slice

-----------------------------------------------------------------------------
(* The inductive invariant: the fields are functions of the buffers, the   *)
(* positions lie in the storage, and all of the content was written.       *)
Cells == Values \cup {Junk}

Fields ==
    /\ size \in [Bufs -> {0} \cup (InitSize..MaxSize)]
    /\ mem \in [Bufs -> UNION {[0..(n - 1) -> Cells] : n \in Nat}]
    /\ read \in [Bufs -> Nat]
    /\ write \in [Bufs -> Nat]

BufferOK(b) ==
    /\ Positions(size[b], read[b], write[b])
    /\ mem[b] \in [0..(size[b] - 1) -> Cells]
    /\ Content(b) \in Seq(Values)

BufferInv == Fields /\ \A b \in Bufs : BufferOK(b)

(* Content, Length and ContinuousWriteBuffer in terms of the fields.       *)
LEMMA FieldsOf ==
    ASSUME NEW b
    PROVE  /\ Content(b) = Queue(size[b], mem[b], read[b], write[b])
           /\ Length(b) = Count(size[b], read[b], write[b])
           /\ ContinuousWriteBuffer(b) = Room(size[b], read[b], write[b])
           /\ Content(b)' = Queue(size[b]', mem[b]', read[b]', write[b]')
           /\ Length(b)' = Count(size[b]', read[b]', write[b]')
BY DEF Content, Queue, Length, Count, ContinuousWriteBuffer, Room

(* The length of a content is its count.                                   *)
LEMMA ContentLength ==
    ASSUME BufferInv, NEW b \in Bufs
    PROVE  Len(Content(b)) = Length(b) /\ Length(b) \in Nat
<1>1. CellByCell(Cells, size[b], mem[b], read[b], write[b])
  BY QueueProperties DEF BufferInv, BufferOK
<1>2. QED
  BY <1>1, FieldsOf DEF CellByCell

(* New buffers are empty.                                                  *)
LEMMA InitBuffer == Init => BufferInv
<1> SUFFICES ASSUME Init PROVE BufferInv
  OBVIOUS
<1>1. InitSize \in Nat /\ InitSize > 1 /\ InitSize <= MaxSize /\ MaxSize \in Nat
  BY BufferAssumption
<1>2. Blank(InitSize) \in [0..(InitSize - 1) -> Cells]
  BY DEF Blank, Cells
<1>3. Fields
  BY <1>1, <1>2 DEF Init, Fields
<1>4. ASSUME NEW b \in Bufs
      PROVE  BufferOK(b)
  <2>1. size[b] = InitSize /\ mem[b] = Blank(InitSize) /\ read[b] = 0 /\ write[b] = 0
    BY DEF Init
  <2>2. Positions(size[b], read[b], write[b])
    BY <1>1, <2>1 DEF Positions
  <2>3. Content(b) = <<>>
    BY <2>1 DEF Content, Slice
  <2>4. QED
    BY <1>2, <2>1, <2>2, <2>3 DEF BufferOK
<1>5. QED
  BY <1>3, <1>4 DEF BufferInv

(* A step that gives one buffer new fields, and fields it may be given.    *)
Becomes(b, sz, m, r, w) ==
    /\ size' = [size EXCEPT ![b] = sz]
    /\ mem' = [mem EXCEPT ![b] = m]
    /\ read' = [read EXCEPT ![b] = r]
    /\ write' = [write EXCEPT ![b] = w]

GoodFields(sz, m, r, w) ==
    /\ sz \in {0} \cup (InitSize..MaxSize)
    /\ Positions(sz, r, w)
    /\ m \in [0..(sz - 1) -> Cells]
    /\ Queue(sz, m, r, w) \in Seq(Values)

(* The other buffers keep their content.                                   *)
Others(b) == \A a \in Bufs \ {b} : size'[a] = size[a] /\ Content(a)' = Content(a)

LEMMA OneBuffer ==
    ASSUME BufferInv, NEW b \in Bufs, NEW sz, NEW m, NEW r, NEW w,
           Becomes(b, sz, m, r, w), GoodFields(sz, m, r, w)
    PROVE  BufferInv' /\ Content(b)' = Queue(sz, m, r, w) /\ Others(b)
<1> USE DEF Becomes, GoodFields
<1>1. sz \in Nat /\ r \in Nat /\ w \in Nat
  BY DEF Positions
<1>2. Fields
  BY DEF BufferInv
<1>3. Fields'
  BY <1>1, <1>2 DEF Fields
<1>4. size'[b] = sz /\ mem'[b] = m /\ read'[b] = r /\ write'[b] = w
  BY <1>2 DEF Fields
<1>5. Content(b)' = Queue(sz, m, r, w)
  BY <1>4, FieldsOf
<1>6. BufferOK(b)'
  BY <1>4, <1>5 DEF BufferOK
<1>7. ASSUME NEW a \in Bufs \ {b}
      PROVE  BufferOK(a)' /\ size'[a] = size[a] /\ Content(a)' = Content(a)
  <2>1. /\ size'[a] = size[a] /\ mem'[a] = mem[a]
        /\ read'[a] = read[a] /\ write'[a] = write[a]
    BY <1>2 DEF Fields
  <2>2. Content(a)' = Content(a)
    BY <2>1, FieldsOf
  <2>3. BufferOK(a)
    BY DEF BufferInv
  <2>4. QED
    BY <2>1, <2>2, <2>3 DEF BufferOK
<1>8. QED
  BY <1>3, <1>5, <1>6, <1>7 DEF BufferInv, Others

-----------------------------------------------------------------------------
(* What each operation does to the contents.                               *)

(* Whichever way the caller names the new position, it is the end of the   *)
(* copy.                                                                   *)
LEMMA CommitPosition ==
    ASSUME BufferInv, NEW b \in Bufs, NEW n \in Nat,
           NEW whence \in {"SEEK_SET", "SEEK_CUR", "SEEK_END"}
    PROVE  ResetWritePos(b, CASE whence = "SEEK_SET" -> write[b] + n
                              [] whence = "SEEK_CUR" -> n
                              [] whence = "SEEK_END" -> size[b] - (write[b] + n), whence)
             = write[b] + n
<1>1. size[b] \in Nat /\ write[b] \in Nat
  BY DEF BufferInv, BufferOK, Positions
<1>2. CASE whence = "SEEK_SET"
  BY <1>1, <1>2 DEF ResetWritePos
<1>3. CASE whence = "SEEK_CUR"
  BY <1>1, <1>3 DEF ResetWritePos
<1>4. CASE whence = "SEEK_END"
  BY <1>1, <1>4 DEF ResetWritePos
<1>5. QED
  BY <1>2, <1>3, <1>4

LEMMA WriteStep ==
    ASSUME BufferInv, NEW b \in Bufs, size[b] > 0, NEW s \in Seq(Values),
           NEW whence \in {"SEEK_SET", "SEEK_CUR", "SEEK_END"}, Write(b, s, whence)
    PROVE  /\ BufferInv' /\ Others(b) /\ size' = size
           /\ Content(b)' = Content(b) \o s
           /\ Len(s) \in Nat \ {0}
<1> DEFINE sz == size[b]
           r == read[b]
           w == write[b]
           m2 == Copied(mem[b], w, s)
           w2 == Advanced(sz, w, Len(s))
<1>1. /\ Fields /\ BufferOK(b)
      /\ Positions(sz, r, w) /\ mem[b] \in [0..(sz - 1) -> Cells]
      /\ Content(b) \in Seq(Values)
  BY DEF BufferInv, BufferOK
<1>2. Len(s) \in 1..Room(sz, r, w) /\ Len(s) \in Nat
  BY FieldsOf, LenProperties DEF Write
<1>3. ResetWritePos(b, CASE whence = "SEEK_SET" -> write[b] + Len(s)
                         [] whence = "SEEK_CUR" -> Len(s)
                         [] whence = "SEEK_END" -> size[b] - (write[b] + Len(s)), whence)
        = w + Len(s)
  BY <1>2, CommitPosition
<1>4. write' = [write EXCEPT ![b] = w2]
  BY <1>3 DEF Write, Advanced
<1>5. mem' = [mem EXCEPT ![b] = m2]
  BY DEF Write
<1>6. size' = [size EXCEPT ![b] = sz] /\ read' = [read EXCEPT ![b] = r] /\ size' = size
  BY <1>1 DEF Write, Fields
<1>7. s \in Seq(Cells)
  BY SeqMonotonic DEF Cells
<1>8. m2 \in [0..(sz - 1) -> Cells] /\ Queue(sz, m2, r, w2) = Queue(sz, mem[b], r, w) \o s
  BY <1>1, <1>2, <1>7, QueueWrite
<1>9. Positions(sz, r, w2)
  BY <1>1, <1>2, AdvanceCounts
<1>10. Queue(sz, m2, r, w2) = Content(b) \o s /\ Queue(sz, m2, r, w2) \in Seq(Values)
  BY <1>1, <1>8, FieldsOf, ConcatProperties
<1>11. sz \in {0} \cup (InitSize..MaxSize)
  BY <1>1 DEF Fields
<1> HIDE DEF sz, r, w, m2, w2
<1>12. BufferInv' /\ Content(b)' = Queue(sz, m2, r, w2) /\ Others(b)
  <2>1. Becomes(b, sz, m2, r, w2)
    BY <1>4, <1>5, <1>6 DEF Becomes
  <2>2. GoodFields(sz, m2, r, w2)
    BY <1>8, <1>9, <1>10, <1>11 DEF GoodFields
  <2>3. QED
    BY <2>1, <2>2, OneBuffer
<1>13. QED
  BY <1>2, <1>6, <1>10, <1>12

LEMMA PopoutStep ==
    ASSUME BufferInv, NEW b \in Bufs, size[b] > 0, NEW n, Popout(b, n)
    PROVE  /\ BufferInv' /\ Others(b) /\ size' = size
           /\ n \in 1..Len(Content(b))
           /\ Content(b)' = SubSeq(Content(b), n + 1, Len(Content(b)))
<1> DEFINE sz == size[b]
           m == mem[b]
           w == write[b]
           r2 == (read[b] + n) % sz
<1>1. /\ Fields /\ BufferOK(b)
      /\ Positions(sz, read[b], w) /\ m \in [0..(sz - 1) -> Cells]
      /\ Content(b) \in Seq(Values)
  BY DEF BufferInv, BufferOK
<1>2. n \in 1..Count(sz, read[b], w) /\ n \in 1..Len(Content(b))
  BY FieldsOf, ContentLength DEF Popout
<1>3. /\ size' = [size EXCEPT ![b] = sz] /\ mem' = [mem EXCEPT ![b] = m]
      /\ read' = [read EXCEPT ![b] = r2] /\ write' = [write EXCEPT ![b] = w]
      /\ size' = size
  BY <1>1 DEF Popout, Fields
<1>4. /\ Positions(sz, r2, w)
      /\ Queue(sz, m, r2, w) = SubSeq(Queue(sz, m, read[b], w), n + 1, Len(Queue(sz, m, read[b], w)))
  <2>1. Popped(sz, m, read[b], (read[b] + n) % sz, w, n)
    BY <1>1, <1>2, QueuePopout
  <2>2. QED
    BY <2>1 DEF Popped
<1>5. Queue(sz, m, r2, w) = SubSeq(Content(b), n + 1, Len(Content(b)))
  BY <1>4, FieldsOf
<1>6. Queue(sz, m, r2, w) \in Seq(Values)
  <2> DEFINE q == Content(b)
  <2>1. q \in Seq(Values) /\ n \in 1..Len(q)
    BY <1>1, <1>2
  <2> HIDE DEF q
  <2>2. SubSeq(q, n + 1, Len(q)) \in Seq(Values)
    BY <2>1
  <2>3. QED
    BY <1>5, <2>2 DEF q
<1>7. sz \in {0} \cup (InitSize..MaxSize)
  BY <1>1 DEF Fields
<1> HIDE DEF sz, m, w, r2
<1>8. BufferInv' /\ Content(b)' = Queue(sz, m, r2, w) /\ Others(b)
  <2>1. Becomes(b, sz, m, r2, w)
    BY <1>3 DEF Becomes
  <2>2. GoodFields(sz, m, r2, w)
    BY <1>1, <1>4, <1>6, <1>7 DEF GoodFields
  <2>3. QED
    BY <2>1, <2>2, OneBuffer
<1>9. QED
  BY <1>2, <1>3, <1>5, <1>8

LEMMA ExtendStep ==
    ASSUME BufferInv, NEW b \in Bufs, NEW n \in 0..MaxSize, Extend(b, n)
    PROVE  /\ BufferInv' /\ Others(b)
           /\ Content(b)' = Content(b)
           /\ size' = [size EXCEPT ![b] = n] /\ size[b] > 0 /\ n > size[b]
<1> DEFINE q == Content(b)
           m2 == Extended(q, n)
<1>1. /\ Fields /\ BufferOK(b) /\ Positions(size[b], read[b], write[b])
      /\ q \in Seq(Values)
  BY DEF BufferInv, BufferOK
<1>2. size[b] > 0 /\ n > size[b] /\ n \in Nat /\ size[b] \in InitSize..MaxSize
  BY <1>1, BufferAssumption DEF Extend, Fields
<1>3. Len(q) = Length(b) /\ Len(q) < size[b] /\ Len(q) \in Nat
  BY <1>1, <1>2, ContentLength, FieldsOf DEF Count, Positions
<1>4. /\ size' = [size EXCEPT ![b] = n] /\ mem' = [mem EXCEPT ![b] = m2]
      /\ read' = [read EXCEPT ![b] = 0] /\ write' = [write EXCEPT ![b] = Len(q)]
  BY <1>3 DEF Extend, Extended
<1> HIDE DEF q
<1>5. q \in Seq(Cells) /\ Junk \in Cells
  BY <1>1, SeqMonotonic DEF Cells
<1>6. Len(q) < n
  BY <1>2, <1>3
<1>7. Positions(n, 0, Len(q)) /\ m2 \in [0..(n - 1) -> Cells] /\ Queue(n, m2, 0, Len(q)) = q
  BY <1>2, <1>5, <1>6, QueueExtend
<1>8. n \in {0} \cup (InitSize..MaxSize)
  BY <1>2, BufferAssumption
<1> HIDE DEF m2
<1>9. BufferInv' /\ Content(b)' = q /\ Others(b)
  <2>1. Becomes(b, n, m2, 0, Len(q))
    BY <1>4 DEF Becomes
  <2>2. GoodFields(n, m2, 0, Len(q))
    BY <1>1, <1>7, <1>8 DEF GoodFields
  <2>3. QED
    BY <1>7, <2>1, <2>2, OneBuffer
<1>10. QED
  BY <1>2, <1>4, <1>9 DEF q

LEMMA MoveStep ==
    ASSUME BufferInv, NEW from \in Bufs, NEW to \in Bufs, Move(from, to)
    PROVE  /\ BufferInv' /\ from # to
           /\ size' = [size EXCEPT ![to] = size[from], ![from] = 0]
           /\ Content(to)' = Content(from)
           /\ Content(from)' = <<>>
           /\ \A a \in Bufs \ {from, to} : Content(a)' = Content(a)
<1>1. Fields /\ from # to /\ \A b \in Bufs : BufferOK(b)
  BY DEF BufferInv, Move
<1>2. /\ size'[to] = size[from] /\ mem'[to] = mem[from]
      /\ read'[to] = read[from] /\ write'[to] = write[from]
  BY <1>1 DEF Move, Fields
<1>3. size'[from] = 0 /\ mem'[from] = Blank(0) /\ read'[from] = 0 /\ write'[from] = 0
  BY <1>1 DEF Move, Fields
<1>4. Content(to)' = Content(from)
  BY <1>2, FieldsOf
<1>5. Content(from)' = <<>>
  BY <1>3, FieldsOf, QueueNone
<1>6. BufferOK(to)'
  BY <1>1, <1>2, <1>4 DEF BufferOK
<1>7. Blank(0) \in [0..(0 - 1) -> Cells]
  BY DEF Blank
<1>8. BufferOK(from)'
  BY <1>3, <1>5, <1>7 DEF BufferOK, Positions
<1>9. ASSUME NEW a \in Bufs \ {from, to}
      PROVE  BufferOK(a)' /\ Content(a)' = Content(a)
  <2>1. /\ size'[a] = size[a] /\ mem'[a] = mem[a]
        /\ read'[a] = read[a] /\ write'[a] = write[a]
    BY <1>1 DEF Move, Fields
  <2>2. Content(a)' = Content(a)
    BY <2>1, FieldsOf
  <2>3. QED
    BY <1>1, <2>1, <2>2 DEF BufferOK
<1>10. Fields'
  <2>1. Blank(0) \in UNION {[0..(n - 1) -> Cells] : n \in Nat}
    BY <1>7
  <2>2. QED
    BY <1>1, <2>1 DEF Move, Fields
<1>11. QED
  BY <1>1, <1>4, <1>5, <1>6, <1>8, <1>9, <1>10 DEF BufferInv, Move

-----------------------------------------------------------------------------
(* The bytes a caller copies are a sequence.                               *)
LEMMA CallersBytes ==
    ASSUME NEW n \in Nat, NEW s \in [1..n -> Values]
    PROVE  s \in Seq(Values)
OBVIOUS

(* Use is one of three operations on a buffer that holds storage.          *)
LEMMA UseCases ==
    ASSUME BufferInv, NEW b \in Bufs, Use(b)
    PROVE  /\ size[b] > 0
           /\ \/ \E s \in Seq(Values), whence \in {"SEEK_SET", "SEEK_CUR", "SEEK_END"} :
                    Write(b, s, whence)
              \/ \E n \in 1..Length(b) : Popout(b, n)
              \/ \E n \in 0..MaxSize : Extend(b, n)
<1>1. size[b] \in Nat /\ MaxSize \in Nat
  BY BufferAssumption DEF BufferInv, BufferOK, Positions
<1>2. CASE \E n \in 1..ContinuousWriteBuffer(b) :
             \E s \in [1..n -> Values], whence \in {"SEEK_SET", "SEEK_CUR", "SEEK_END"} :
                Write(b, s, whence)
  <2>1. PICK n \in 1..ContinuousWriteBuffer(b) :
             \E s \in [1..n -> Values], whence \in {"SEEK_SET", "SEEK_CUR", "SEEK_END"} :
                Write(b, s, whence)
    BY <1>2
  <2>2. PICK s \in [1..n -> Values], whence \in {"SEEK_SET", "SEEK_CUR", "SEEK_END"} :
                Write(b, s, whence)
    BY <2>1
  <2>3. n \in Nat
    OBVIOUS
  <2>4. s \in Seq(Values)
    BY <2>3, CallersBytes
  <2>5. QED
    BY <2>2, <2>4 DEF Use
<1>3. CASE \E n \in 1..Length(b) : Popout(b, n)
  BY <1>3 DEF Use
<1>4. CASE \E n \in (size[b] + 1)..MaxSize : Extend(b, n)
  <2>1. PICK n \in (size[b] + 1)..MaxSize : Extend(b, n)
    BY <1>4
  <2>2. n \in 0..MaxSize
    BY <1>1
  <2>3. QED
    BY <2>1, <2>2 DEF Use
<1>5. QED
  BY <1>2, <1>3, <1>4 DEF Use

(* Every step keeps the invariant.                                         *)
LEMMA BufferStep == BufferInv /\ [Next]_vars => BufferInv'
<1> SUFFICES ASSUME BufferInv, [Next]_vars PROVE BufferInv'
  OBVIOUS
<1>1. ASSUME NEW b \in Bufs, Use(b)
      PROVE  BufferInv'
  <2>1. size[b] > 0
    BY <1>1, UseCases
  <2>2. CASE \E s \in Seq(Values), whence \in {"SEEK_SET", "SEEK_CUR", "SEEK_END"} :
               Write(b, s, whence)
    BY <2>1, <2>2, WriteStep
  <2>3. CASE \E n \in 1..Length(b) : Popout(b, n)
    BY <2>1, <2>3, PopoutStep
  <2>4. CASE \E n \in 0..MaxSize : Extend(b, n)
    BY <2>4, ExtendStep
  <2>5. QED
    BY <1>1, <2>2, <2>3, <2>4, UseCases
<1>2. ASSUME NEW from \in Bufs, NEW to \in Bufs, Move(from, to)
      PROVE  BufferInv'
  BY <1>2, MoveStep
<1>3. CASE UNCHANGED vars
  BY <1>3 DEF vars, BufferInv, BufferOK, Fields, Content
<1>4. QED
  BY <1>1, <1>2, <1>3 DEF Next

LEMMA Inductive == Spec => []BufferInv
BY InitBuffer, BufferStep, PTL DEF Spec

-----------------------------------------------------------------------------
(* What the positions and the content say about the queries.               *)

(* read_pos_ and write_pos_ never leave the storage, whatever the caller   *)
(* writes, takes out, extends or moves.                                    *)
THEOREM TypeCorrect == Spec => []TypeOK
<1>1. BufferInv => TypeOK
  <2> SUFFICES ASSUME BufferInv PROVE TypeOK
    OBVIOUS
  <2>1. size \in [Bufs -> {0} \cup (InitSize..MaxSize)]
    BY DEF BufferInv, Fields
  <2>2. ASSUME NEW b \in Bufs
        PROVE  /\ mem[b] \in [0..(size[b] - 1) -> Values \cup {Junk}]
               /\ read[b] \in 0..size[b] /\ write[b] \in 0..size[b]
               /\ size[b] > 0 => read[b] < size[b] /\ write[b] < size[b]
    BY DEF BufferInv, BufferOK, Positions, Cells
  <2>3. QED
    BY <2>1, <2>2 DEF TypeOK
<1>2. QED
  BY <1>1, Inductive, PTL

(* Length() is the number of bytes GetReadViews shows, never more than     *)
(* Capacity(), and every byte shown was written.                           *)
THEOREM LengthCorrect == Spec => []LengthIsContent
<1>1. BufferInv => LengthIsContent
  <2> SUFFICES ASSUME BufferInv, NEW b \in Bufs
               PROVE  /\ Len(Content(b)) = Length(b)
                      /\ size[b] > 0 => Length(b) \in 0..Capacity(b)
                      /\ \A i \in 1..Len(Content(b)) : Content(b)[i] \in Values
    BY DEF LengthIsContent
  <2>1. Len(Content(b)) = Length(b) /\ Length(b) \in Nat
    BY ContentLength
  <2>2. size[b] > 0 => Length(b) \in 0..Capacity(b)
    BY <2>1 DEF BufferInv, BufferOK, Positions, Length, Capacity
  <2>3. Content(b) \in Seq(Values)
    BY DEF BufferInv, BufferOK
  <2>4. \A i \in 1..Len(Content(b)) : Content(b)[i] \in Values
    BY <2>3, ElementOfSeq
  <2>5. QED
    BY <2>1, <2>2, <2>4
<1>2. QED
  BY <1>1, Inductive, PTL

(* A writer that asks while FreeSpace() is not 0 is offered at least one   *)
(* byte and no more than is free.                                          *)
THEOREM WriterNeverStalls == Spec => []NoWriteStall
<1>1. BufferInv => NoWriteStall
  <2> SUFFICES ASSUME BufferInv, NEW b \in Bufs, size[b] > 0, FreeSpace(b) > 0
               PROVE  ContinuousWriteBuffer(b) \in 1..FreeSpace(b)
    BY DEF NoWriteStall
  <2>1. Positions(size[b], read[b], write[b])
    BY DEF BufferInv, BufferOK
  <2>2. QED
    BY <2>1 DEF Positions, FreeSpace, Capacity, Length, ContinuousWriteBuffer
<1>2. QED
  BY <1>1, Inductive, PTL

-----------------------------------------------------------------------------
(* The refinement mapping, and the steps it gives.                         *)
queue == [b \in Bufs |-> Content(b)]
capacity == [b \in Bufs |-> IF size[b] = 0 THEN 0 ELSE Capacity(b)]

(* The length of a content after a step.                                   *)
LEMMA NextLength ==
    ASSUME BufferInv', NEW b \in Bufs
    PROVE  Len(Content(b)') = Length(b)' /\ Length(b)' \in Nat
<1>1. CellByCell(Cells, size'[b], mem'[b], read'[b], write'[b])
  BY QueueProperties DEF BufferInv, BufferOK
<1>2. QED
  BY <1>1, FieldsOf DEF CellByCell

(* A buffer alone changes its content.                                     *)
LEMMA OneQueue ==
    ASSUME NEW b \in Bufs, Others(b)
    PROVE  queue' = [queue EXCEPT ![b] = Content(b)']
<1>1. \A a \in Bufs : queue'[a] = [queue EXCEPT ![b] = Content(b)'][a]
  BY DEF queue, Others
<1>2. QED
  BY <1>1 DEF queue

LEMMA SameSize ==
    ASSUME size' = size
    PROVE  capacity' = capacity
BY DEF capacity, Capacity

LEMMA WriteIsPut ==
    ASSUME BufferInv, NEW b \in Bufs, size[b] > 0, NEW s \in Seq(Values),
           NEW whence \in {"SEEK_SET", "SEEK_CUR", "SEEK_END"}, Write(b, s, whence)
    PROVE  Abstract!Put(b)
<1>1. /\ BufferInv' /\ Others(b) /\ size' = size
      /\ Content(b)' = Content(b) \o s
      /\ Len(s) \in Nat \ {0}
  BY WriteStep
<1>2. queue[b] = Content(b) /\ queue'[b] = Content(b)' /\ capacity[b] = Capacity(b)
  BY DEF queue, capacity, BufferInv, BufferOK, Positions
<1>3. Content(b) \in Seq(Values) /\ Content(b)' \in Seq(Values)
  BY <1>1 DEF BufferInv, BufferOK
<1>4. Len(Content(b)') = Len(Content(b)) + Len(s)
  BY <1>1, <1>3, ConcatProperties
<1>5. Len(Content(b)') <= Capacity(b)
  <2>1. Len(Content(b)') = Length(b)' /\ Length(b)' \in Nat
    BY <1>1, NextLength
  <2>2. Positions(size[b], read'[b], write'[b]) /\ size'[b] = size[b]
    BY <1>1 DEF BufferInv, BufferOK
  <2>3. QED
    BY <2>1, <2>2 DEF Positions, Length, Capacity
<1>6. Len(queue'[b]) \in (Len(queue[b]) + 1)..capacity[b]
  BY <1>1, <1>2, <1>3, <1>4, <1>5, LenProperties DEF BufferInv, BufferOK, Positions, Capacity
<1>7. SubSeq(queue'[b], 1, Len(queue[b])) = queue[b]
  <2> DEFINE q == Content(b)
  <2>1. q \in Seq(Values)
    BY <1>3
  <2> HIDE DEF q
  <2>2. SubSeq(q \o s, 1, Len(q)) = q
    BY <2>1
  <2>3. QED
    BY <1>1, <1>2, <2>2 DEF q
<1>8. queue' = [queue EXCEPT ![b] = queue'[b]] /\ capacity' = capacity
  BY <1>1, <1>2, OneQueue, SameSize
<1>9. QED
  BY <1>2, <1>3, <1>6, <1>7, <1>8 DEF Abstract!Put, queue, capacity

LEMMA PopoutIsGet ==
    ASSUME BufferInv, NEW b \in Bufs, size[b] > 0, NEW n, Popout(b, n)
    PROVE  Abstract!Get(b)
<1>1. /\ Others(b) /\ size' = size
      /\ n \in 1..Len(Content(b))
      /\ Content(b)' = SubSeq(Content(b), n + 1, Len(Content(b)))
  BY PopoutStep
<1>2. queue[b] = Content(b)
  BY DEF queue
<1>3. /\ queue' = [queue EXCEPT ![b] = SubSeq(queue[b], n + 1, Len(queue[b]))]
      /\ capacity' = capacity
  BY <1>1, <1>2, OneQueue, SameSize
<1>4. QED
  BY <1>1, <1>2, <1>3 DEF Abstract!Get, queue, capacity

LEMMA ExtendIsGrow ==
    ASSUME BufferInv, NEW b \in Bufs, NEW n \in 0..MaxSize, Extend(b, n)
    PROVE  Abstract!Grow(b)
<1>1. /\ BufferInv' /\ Others(b) /\ Content(b)' = Content(b)
      /\ size' = [size EXCEPT ![b] = n] /\ size[b] > 0 /\ n > size[b]
  BY ExtendStep
<1>2. size \in [Bufs -> {0} \cup (InitSize..MaxSize)]
  BY DEF BufferInv, Fields
<1>3. queue' = queue
  <2>1. queue' = [queue EXCEPT ![b] = Content(b)]
    BY <1>1, OneQueue
  <2>2. QED
    BY <2>1 DEF queue
<1>4. size'[b] = n /\ \A a \in Bufs \ {b} : size'[a] = size[a]
  BY <1>1, <1>2
<1>5. capacity[b] = size[b] - 1 /\ capacity'[b] = n - 1
  BY <1>1, <1>2, <1>4, BufferAssumption DEF capacity, Capacity
<1>6. capacity[b] > 0 /\ capacity'[b] > capacity[b]
  BY <1>1, <1>2, <1>5, BufferAssumption
<1>7. capacity' = [capacity EXCEPT ![b] = capacity'[b]]
  <2>1. \A a \in Bufs : capacity'[a] = [capacity EXCEPT ![b] = capacity'[b]][a]
    BY <1>4 DEF capacity, Capacity
  <2>2. QED
    BY <2>1 DEF capacity
<1>8. QED
  BY <1>3, <1>6, <1>7 DEF Abstract!Grow, queue, capacity

LEMMA MoveIsMove ==
    ASSUME BufferInv, NEW from \in Bufs, NEW to \in Bufs, Move(from, to)
    PROVE  Abstract!Move(from, to)
<1>1. /\ from # to
      /\ size' = [size EXCEPT ![to] = size[from], ![from] = 0]
      /\ Content(to)' = Content(from)
      /\ Content(from)' = <<>>
      /\ \A a \in Bufs \ {from, to} : Content(a)' = Content(a)
  BY MoveStep
<1>2. size \in [Bufs -> {0} \cup (InitSize..MaxSize)]
  BY DEF BufferInv, Fields
<1>3. queue' = [queue EXCEPT ![to] = queue[from], ![from] = <<>>]
  <2>1. \A a \in Bufs : queue'[a] = [queue EXCEPT ![to] = queue[from], ![from] = <<>>][a]
    BY <1>1 DEF queue
  <2>2. QED
    BY <2>1 DEF queue
<1>4. capacity' = [capacity EXCEPT ![to] = capacity[from], ![from] = 0]
  <2>1. /\ size'[to] = size[from] /\ size'[from] = 0
        /\ \A a \in Bufs \ {from, to} : size'[a] = size[a]
    BY <1>1, <1>2
  <2>2. \A a \in Bufs : capacity'[a] = [capacity EXCEPT ![to] = capacity[from], ![from] = 0][a]
    <3>1. capacity'[to] = capacity[from] /\ capacity'[from] = 0
      BY <2>1 DEF capacity, Capacity
    <3>2. \A a \in Bufs \ {from, to} : capacity'[a] = capacity[a]
      BY <2>1 DEF capacity, Capacity
    <3>3. DOMAIN capacity = Bufs
      BY DEF capacity
    <3>4. QED
      BY <1>1, <3>1, <3>2, <3>3
  <2>3. QED
    BY <1>1, <2>2 DEF capacity
<1>5. QED
  BY <1>1, <1>3, <1>4 DEF Abstract!Move, queue, capacity

LEMMA InitIsInit == Init => Abstract!Init
<1> SUFFICES ASSUME Init PROVE Abstract!Init
  OBVIOUS
<1>1. ASSUME NEW b \in Bufs
      PROVE  Content(b) = <<>>
  <2>1. read[b] = 0 /\ write[b] = 0
    BY DEF Init
  <2>2. QED
    BY <2>1 DEF Content, Slice
<1>2. queue = [b \in Bufs |-> <<>>]
  BY <1>1 DEF queue
<1>3. capacity \in [Bufs -> Nat]
  <2>1. \A b \in Bufs : size[b] = InitSize
    BY DEF Init
  <2>2. InitSize - 1 \in Nat /\ 0 \in Nat
    BY BufferAssumption
  <2>3. \A b \in Bufs : (IF size[b] = 0 THEN 0 ELSE Capacity(b)) \in Nat
    BY <2>1, <2>2 DEF Capacity
  <2>4. QED
    BY <2>3 DEF capacity
<1>4. QED
  BY <1>2, <1>3 DEF Abstract!Init, queue, capacity

LEMMA StepIsStep == BufferInv /\ [Next]_vars => [Abstract!Next]_<<queue, capacity>>
<1> SUFFICES ASSUME BufferInv, [Next]_vars
             PROVE  Abstract!Next \/ (queue' = queue /\ capacity' = capacity)
  OBVIOUS
<1>1. ASSUME NEW b \in Bufs, Use(b)
      PROVE  Abstract!Next
  <2>1. size[b] > 0
    BY <1>1, UseCases
  <2>2. CASE \E s \in Seq(Values), whence \in {"SEEK_SET", "SEEK_CUR", "SEEK_END"} :
               Write(b, s, whence)
    BY <2>1, <2>2, WriteIsPut DEF Abstract!Next
  <2>3. CASE \E n \in 1..Length(b) : Popout(b, n)
    BY <2>1, <2>3, PopoutIsGet DEF Abstract!Next
  <2>4. CASE \E n \in 0..MaxSize : Extend(b, n)
    BY <2>4, ExtendIsGrow DEF Abstract!Next
  <2>5. QED
    BY <1>1, <2>2, <2>3, <2>4, UseCases
<1>2. ASSUME NEW from \in Bufs, NEW to \in Bufs, Move(from, to)
      PROVE  Abstract!Next
  BY <1>2, MoveIsMove DEF Abstract!Next
<1>3. CASE UNCHANGED vars
  BY <1>3 DEF vars, queue, capacity, Content, Capacity
<1>4. QED
  BY <1>1, <1>2, <1>3 DEF Next

(* Whatever is written through the interface is read back in order, at     *)
(* any size and through any wrap-around, Extend and move.                  *)
THEOREM FifoRefined == Spec => IsFifo
<1>1. Spec => []BufferInv
  BY Inductive
<1>2. Init => Abstract!Init
  BY InitIsInit
<1>3. BufferInv /\ [Next]_vars => [Abstract!Next]_<<queue, capacity>>
  BY StepIsStep
<1>4. QED
  BY <1>1, <1>2, <1>3, PTL DEF Spec, IsFifo, Abstract!Spec, queue, capacity
===============================================================================
