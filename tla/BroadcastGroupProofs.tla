------------------------- MODULE BroadcastGroupProofs -------------------------
(***************************************************************************)
(* Proofs about BroadcastGroup, for every number of entries, every message *)
(* and pipe size, and any sockets.                                         *)
(***************************************************************************)
EXTENDS BroadcastGroup, SequenceTheorems, TLAPS

-----------------------------------------------------------------------------
(* Sequences.                                                              *)
Associate(x, y, z) == (x \o y) \o z = x \o (y \o z)

LEMMA Associative ==
    ASSUME NEW S, NEW x \in Seq(S), NEW y \in Seq(S), NEW z \in Seq(S)
    PROVE  Associate(x, y, z)
BY DEF Associate

LEMMA TakeDrop ==
    ASSUME NEW S, NEW s \in Seq(S), NEW n \in 0..Len(s)
    PROVE  /\ Take(s, n) \in Seq(S) /\ Len(Take(s, n)) = n
           /\ Drop(s, n) \in Seq(S) /\ Len(Drop(s, n)) = Len(s) - n
           /\ Take(s, n) \o Drop(s, n) = s
<1>1. Len(s) \in Nat
  OBVIOUS
<1>2. Take(s, n) \in Seq(S) /\ Len(Take(s, n)) = n
  BY <1>1 DEF Take
<1>3. Drop(s, n) \in Seq(S) /\ Len(Drop(s, n)) = Len(s) - n
  BY <1>1 DEF Drop
<1>4. Take(s, n) \o Drop(s, n) = SubSeq(s, 1, Len(s))
  <2>1. 1 \in 1..(Len(s) + 1) /\ n \in (1 - 1)..Len(s) /\ Len(s) \in n..Len(s)
    BY <1>1
  <2>2. SubSeq(s, 1, n) \o SubSeq(s, n + 1, Len(s)) = SubSeq(s, 1, Len(s))
    BY <2>1, ConcatAdjacentSubSeq
  <2>3. QED
    BY <2>2 DEF Take, Drop
<1>5. QED
  BY <1>2, <1>3, <1>4, SubSeqFull

LEMMA DropConcat ==
    ASSUME NEW S, NEW s \in Seq(S), NEW t \in Seq(S), NEW n \in 0..Len(s)
    PROVE  Drop(s \o t, n) = Drop(s, n) \o t
<1> DEFINE u == Drop(s \o t, n)
           v == Drop(s, n) \o t
<1>1. /\ Len(s) \in Nat /\ Len(t) \in Nat
      /\ s \o t \in Seq(S) /\ Len(s \o t) = Len(s) + Len(t)
      /\ \A i \in 1..(Len(s) + Len(t)) : (s \o t)[i] = IF i <= Len(s) THEN s[i] ELSE t[i - Len(s)]
  BY ConcatProperties
<1>2. /\ Drop(s, n) \in Seq(S) /\ Len(Drop(s, n)) = Len(s) - n
      /\ \A i \in 1..(Len(s) - n) : Drop(s, n)[i] = s[n + i]
  BY <1>1 DEF Drop
<1>3. /\ u \in Seq(S) /\ Len(u) = Len(s) + Len(t) - n
      /\ \A i \in 1..(Len(s) + Len(t) - n) : u[i] = (s \o t)[n + i]
  <2> DEFINE st == s \o t
  <2>1. st \in Seq(S) /\ Len(st) = Len(s) + Len(t)
    BY <1>1
  <2> HIDE DEF st
  <2>2. /\ Drop(st, n) \in Seq(S) /\ Len(Drop(st, n)) = Len(st) - n
        /\ \A i \in 1..(Len(st) - n) : Drop(st, n)[i] = st[n + i]
    BY <1>1, <2>1 DEF Drop
  <2>3. QED
    BY <2>1, <2>2 DEF st
<1>4. /\ v \in Seq(S) /\ Len(v) = Len(s) - n + Len(t)
      /\ \A i \in 1..(Len(s) - n + Len(t)) :
            v[i] = IF i <= Len(s) - n THEN Drop(s, n)[i] ELSE t[i - (Len(s) - n)]
  <2> DEFINE d == Drop(s, n)
  <2>1. d \in Seq(S) /\ Len(d) = Len(s) - n
    BY <1>2
  <2> HIDE DEF d
  <2>2. /\ d \o t \in Seq(S) /\ Len(d \o t) = Len(d) + Len(t)
        /\ \A i \in 1..(Len(d) + Len(t)) : (d \o t)[i] = IF i <= Len(d) THEN d[i] ELSE t[i - Len(d)]
    BY <2>1, ConcatProperties
  <2>3. QED
    BY <2>1, <2>2 DEF d
<1> HIDE DEF u, v
<1>5. \A i \in 1..Len(u) : u[i] = v[i]
  <2> SUFFICES ASSUME NEW i \in 1..Len(u) PROVE u[i] = v[i]
    OBVIOUS
  <2>1. i \in 1..(Len(s) + Len(t) - n) /\ n + i \in 1..(Len(s) + Len(t))
    BY <1>1, <1>3
  <2>2. CASE i <= Len(s) - n
    BY <1>1, <1>2, <1>3, <1>4, <2>1, <2>2
  <2>3. CASE ~(i <= Len(s) - n)
    <3>1. n + i - Len(s) = i - (Len(s) - n) /\ ~(n + i <= Len(s))
      BY <1>1, <2>1, <2>3
    <3>2. QED
      BY <1>1, <1>3, <1>4, <2>1, <2>3, <3>1
  <2>4. QED
    BY <2>2, <2>3
<1>6. u = v
  BY <1>1, <1>3, <1>4, <1>5, SeqEqual
<1>7. QED
  BY <1>6 DEF u, v

LEMMA AppendDistinct ==
    ASSUME NEW S, NEW s \in Seq(S), NEW c \in S, IsInjective(s),
           c \notin {s[i] : i \in DOMAIN s}
    PROVE  /\ IsInjective(Append(s, c))
           /\ {Append(s, c)[i] : i \in DOMAIN Append(s, c)} = {s[i] : i \in DOMAIN s} \cup {c}
<1> DEFINE t == Append(s, c)
<1>1. /\ Len(s) \in Nat /\ DOMAIN s = 1..Len(s)
      /\ DOMAIN t = 1..(Len(s) + 1)
      /\ \A i \in 1..Len(s) : t[i] = s[i]
      /\ t[Len(s) + 1] = c
  BY AppendProperties
<1> HIDE DEF t
<1>2. IsInjective(t)
  BY <1>1 DEF IsInjective
<1>3. {t[i] : i \in DOMAIN t} = {s[i] : i \in DOMAIN s} \cup {c}
  BY <1>1
<1>4. QED
  BY <1>2, <1>3 DEF t

(* Erasing the entry of c leaves the others.                               *)
Erased(S, s, t, c) ==
    /\ t \in Seq(S) /\ IsInjective(t)
    /\ {t[j] : j \in DOMAIN t} = {s[j] : j \in DOMAIN s} \ {c}

LEMMA EraseDistinct ==
    ASSUME NEW S, NEW s \in Seq(S), IsInjective(s), NEW i \in DOMAIN s
    PROVE  Erased(S, s, Take(s, i - 1) \o Drop(s, i), s[i])
<1> DEFINE t == Take(s, i - 1) \o Drop(s, i)
           n == Len(s)
           at(j) == IF j < i THEN j ELSE j + 1
<1>1. n \in Nat /\ i \in 1..n /\ DOMAIN s = 1..n
  OBVIOUS
<1>2. /\ t \in Seq(S) /\ DOMAIN t = 1..(n - 1)
      /\ \A j \in 1..(n - 1) : t[j] = s[at(j)]
  <2> DEFINE u == Take(s, i - 1)
             v == Drop(s, i)
  <2>1. /\ u \in Seq(S) /\ Len(u) = i - 1
        /\ \A j \in 1..(i - 1) : u[j] = s[j]
    BY <1>1 DEF Take
  <2>2. /\ v \in Seq(S) /\ Len(v) = n - i
        /\ \A j \in 1..(n - i) : v[j] = s[i + j]
    BY <1>1 DEF Drop
  <2> HIDE DEF u, v, n
  <2>3. /\ u \o v \in Seq(S) /\ Len(u \o v) = n - 1
        /\ \A j \in 1..(n - 1) : (u \o v)[j] = IF j <= Len(u) THEN u[j] ELSE v[j - Len(u)]
    <3>1. /\ u \o v \in Seq(S) /\ Len(u \o v) = Len(u) + Len(v)
          /\ \A j \in 1..(Len(u) + Len(v)) : (u \o v)[j] = IF j <= Len(u) THEN u[j] ELSE v[j - Len(u)]
      BY <2>1, <2>2, ConcatProperties
    <3>2. Len(u) + Len(v) = n - 1
      BY <1>1, <2>1, <2>2
    <3>3. QED
      BY <3>1, <3>2
  <2>4. ASSUME NEW j \in 1..(n - 1)
        PROVE  (u \o v)[j] = s[at(j)]
    <3>1. CASE j < i
      BY <1>1, <2>1, <2>3, <3>1
    <3>2. CASE ~(j < i)
      <4>1. j - Len(u) \in 1..(n - i) /\ i + (j - Len(u)) = j + 1 /\ ~(j <= Len(u))
        BY <1>1, <2>1, <3>2
      <4>2. QED
        BY <2>2, <2>3, <3>2, <4>1
    <3>3. QED
      BY <3>1, <3>2
  <2>5. QED
    BY <2>3, <2>4 DEF u, v
<1>3. \A j \in 1..(n - 1) : at(j) \in 1..n /\ at(j) # i
  BY <1>1
<1>4. \A j, k \in 1..(n - 1) : at(j) = at(k) => j = k
  BY <1>1
<1>5. \A k \in 1..n : k # i => \E j \in 1..(n - 1) : at(j) = k
  <2> SUFFICES ASSUME NEW k \in 1..n, k # i
               PROVE  \E j \in 1..(n - 1) : at(j) = k
    OBVIOUS
  <2>1. CASE k < i
    BY <1>1, <2>1
  <2>2. CASE k > i
    <3>1. k - 1 \in 1..(n - 1) /\ at(k - 1) = k
      BY <1>1, <2>2
    <3>2. QED
      BY <3>1
  <2>3. QED
    BY <1>1, <2>1, <2>2
<1> HIDE DEF t, n, at
<1>6. IsInjective(t)
  BY <1>1, <1>2, <1>3, <1>4 DEF IsInjective
<1>7. {t[j] : j \in DOMAIN t} = {s[j] : j \in DOMAIN s} \ {s[i]}
  <2>1. ASSUME NEW j \in 1..(n - 1)
        PROVE  t[j] \in {s[k] : k \in DOMAIN s} \ {s[i]}
    BY <1>1, <1>2, <1>3 DEF IsInjective
  <2>2. ASSUME NEW k \in 1..n, s[k] # s[i]
        PROVE  \E j \in 1..(n - 1) : t[j] = s[k]
    BY <1>2, <1>5, <2>2
  <2>3. {t[j] : j \in DOMAIN t} \subseteq {s[j] : j \in DOMAIN s} \ {s[i]}
    BY <1>2, <2>1
  <2>4. {s[j] : j \in DOMAIN s} \ {s[i]} \subseteq {t[j] : j \in DOMAIN t}
    BY <1>1, <1>2, <2>2
  <2>5. QED
    BY <2>3, <2>4
<1>8. QED
  BY <1>2, <1>6, <1>7 DEF Erased, t

-----------------------------------------------------------------------------
(* The inductive invariant.  Every pipe is that of one entry at most; one  *)
(* that was never made holds and was handed nothing; every entry has a     *)
(* websocket; no pipe overflows; the open pipes are those of the entries;  *)
(* and Isolation.                                                          *)
Bytes == Nat \X Nat

Shapes ==
    /\ created \in BOOLEAN
    /\ members \in Seq(Pipes)
    /\ owner \in [Pipes -> Conns \cup {NoConn}]
    /\ main \in Seq(Bytes) /\ log \in Seq(Bytes)
    /\ pipe \in [Pipes -> Seq(Bytes)] /\ taken \in [Pipes -> Seq(Bytes)]
    /\ sent \in Nat
    /\ joined \in [Pipes -> Int]
    /\ short \subseteq Pipes \cup {MainPipe}

PipesBounded ==
    /\ Len(main) <= PipeSize
    /\ \A p \in Pipes : Len(pipe[p]) <= PipeSize

SinceJoined ==
    \A p \in Pipes :
        /\ joined[p] = -1 => p \notin Members /\ pipe[p] = <<>> /\ taken[p] = <<>>
        /\ joined[p] # -1 => joined[p] \in 0..Len(log)

Owned == \A p \in Members : owner[p] \in Conns

GroupInv ==
    /\ Shapes /\ IsInjective(members) /\ PipesBounded /\ SinceJoined
    /\ Owned /\ PipesOwned /\ Isolation

LEMMA MembersArePipes ==
    ASSUME Shapes
    PROVE  /\ Members \subseteq Pipes
           /\ Len(members) \in Nat
           /\ members # <<>> => Last \in Members
BY DEF Shapes, Members, Last

LEMMA InitGroup == Init => GroupInv
<1> SUFFICES ASSUME Init PROVE GroupInv
  OBVIOUS
<1>1. Members = {} /\ opened = {}
  BY DEF Init, Members
<1>2. Shapes /\ PipesBounded
  BY GroupAssumption DEF Init, Shapes, PipesBounded
<1>3. IsInjective(members)
  BY DEF Init, IsInjective
<1>4. SinceJoined
  BY <1>1 DEF Init, SinceJoined
<1>5. Owned /\ PipesOwned /\ Isolation
  BY <1>1 DEF Init, Owned, PipesOwned, Isolation
<1>6. QED
  BY <1>2, <1>3, <1>4, <1>5 DEF GroupInv

LEMMA JoinKeeps ==
    ASSUME GroupInv, NEW c \in Conns, NEW p \in Pipes, Join(c, p)
    PROVE  GroupInv'
<1>0. /\ Shapes /\ IsInjective(members) /\ PipesBounded /\ SinceJoined
      /\ Owned /\ PipesOwned /\ Isolation
  BY DEF GroupInv
<1>1. joined[p] = -1 /\ p \notin Members /\ Len(log) \in Nat
  BY <1>0 DEF Join, SinceJoined, Shapes
<1>2. IsInjective(members') /\ Members' = Members \cup {p}
  <2>1. members \in Seq(Pipes) /\ members' = Append(members, p)
    BY <1>0 DEF Shapes, Join
  <2>2. p \notin {members[i] : i \in DOMAIN members}
    BY <1>1 DEF Members
  <2>3. QED
    BY <1>0, <2>1, <2>2, AppendDistinct DEF Members
<1>3. Shapes'
  <2>1. members' \in Seq(Pipes)
    BY <1>0, AppendProperties DEF Join, Shapes
  <2>2. joined' \in [Pipes -> Int]
    BY <1>0, <1>1 DEF Join, Shapes
  <2>3. owner' \in [Pipes -> Conns \cup {NoConn}]
    BY <1>0 DEF Join, Shapes
  <2>4. QED
    BY <1>0, <2>1, <2>2, <2>3 DEF Join, Shapes
<1>4. Owned' /\ PipesOwned'
  <2>1. \A a \in Pipes : owner'[a] = IF a = p THEN c ELSE owner[a]
    BY <1>0 DEF Join, Shapes
  <2>2. Members' \subseteq Pipes
    BY <1>3, MembersArePipes, <1>0, <1>2
  <2>3. Owned'
    BY <1>0, <1>2, <2>1, <2>2 DEF Owned
  <2>4. PipesOwned'
    BY <1>0, <1>2 DEF Join, PipesOwned
  <2>5. QED
    BY <2>3, <2>4
<1>5. PipesBounded'
  BY <1>0 DEF Join, PipesBounded
<1>6. SinceJoined'
  BY <1>0, <1>1, <1>2 DEF Join, SinceJoined, Shapes
<1>7. Isolation'
  <2> SUFFICES ASSUME MainPipe \notin short', NEW a \in Members' \ short'
               PROVE  Stream(a)' = Drop(log', joined'[a])
    BY <1>0 DEF Isolation, Join
  <2>1. CASE a = p
    <3>1. Stream(a)' = <<>>
      BY <1>0, <1>1, <2>1 DEF Join, Stream, SinceJoined
    <3>2. Drop(log, Len(log)) = <<>>
      BY <1>1, SubSeqEmpty DEF Drop
    <3>3. QED
      BY <1>0, <1>1, <2>1, <3>1, <3>2 DEF Join, Shapes
  <2>2. CASE a # p
    <3>1. a \in Members \ short /\ joined'[a] = joined[a] /\ log' = log /\ Stream(a)' = Stream(a)
      BY <1>0, <1>1, <1>2, <2>2 DEF Join, Stream, Shapes
    <3>2. QED
      BY <1>0, <3>1 DEF Isolation, Join
  <2>3. QED
    BY <2>1, <2>2
<1>8. QED
  BY <1>2, <1>3, <1>4, <1>5, <1>6, <1>7 DEF GroupInv

LEMMA LeaveKeeps ==
    ASSUME GroupInv, NEW c \in Conns, Leave(c)
    PROVE  GroupInv'
<1>0. /\ Shapes /\ IsInjective(members) /\ PipesBounded /\ SinceJoined
      /\ Owned /\ PipesOwned /\ Isolation
  BY DEF GroupInv
<1>1. PICK i \in DOMAIN members :
        /\ members' = Take(members, i - 1) \o Drop(members, i)
        /\ opened' = opened \ {members[i]}
        /\ pipe' = [pipe EXCEPT ![members[i]] = <<>>]
  BY DEF Leave
<1> DEFINE p == members[i]
<1>2. p \in Pipes
  BY <1>0 DEF Shapes
<1>3. UNCHANGED <<created, owner, main, taken, sent, log, joined, short>>
  BY DEF Leave
<1>4. /\ members' \in Seq(Pipes) /\ IsInjective(members')
      /\ Members' = Members \ {p}
  <2>1. members \in Seq(Pipes)
    BY <1>0 DEF Shapes
  <2>2. Erased(Pipes, members, members', p)
    BY <1>0, <1>1, <2>1, EraseDistinct
  <2>3. QED
    BY <2>2 DEF Erased, Members
<1>5. pipe' = [pipe EXCEPT ![p] = <<>>] /\ opened' = opened \ {p}
  BY <1>1
<1> HIDE DEF p
<1>6. Owned' /\ PipesOwned'
  BY <1>0, <1>3, <1>4, <1>5 DEF Owned, PipesOwned
<1>8. Shapes'
  <2>1. pipe' \in [Pipes -> Seq(Bytes)]
    BY <1>0, <1>2, <1>5 DEF Shapes
  <2>2. QED
    BY <1>0, <1>3, <1>4, <2>1 DEF Shapes
<1>9. PipesBounded'
  BY <1>0, <1>2, <1>3, <1>5, GroupAssumption DEF PipesBounded, Shapes
<1>10. SinceJoined'
  BY <1>0, <1>2, <1>3, <1>4, <1>5 DEF SinceJoined, Shapes
<1>11. Isolation'
  <2>1. ASSUME NEW a \in Members' \ short', MainPipe \notin short'
        PROVE  Stream(a)' = Drop(log', joined'[a])
    <3>1. a # p /\ a \in Members \ short /\ a \in Pipes
      BY <1>0, <1>3, <1>4, MembersArePipes
    <3>2. Stream(a)' = Stream(a)
      <4>1. taken'[a] = taken[a] /\ pipe'[a] = pipe[a]
        BY <1>0, <1>3, <1>5, <3>1 DEF Shapes
      <4>2. QED
        BY <4>1 DEF Stream
    <3>3. QED
      BY <1>0, <1>3, <2>1, <3>1, <3>2 DEF Isolation
  <2>2. QED
    BY <1>0, <1>3, <2>1 DEF Isolation
<1>12. QED
  BY <1>4, <1>6, <1>8, <1>9, <1>10, <1>11 DEF GroupInv

-----------------------------------------------------------------------------
(* The calls of Broadcast.                                                 *)

LEMMA MessageBytes ==
    ASSUME Shapes, NEW n \in PayloadSizes
    PROVE  /\ HeaderSize + n \in Nat /\ n \in Nat /\ HeaderSize \in Nat
           /\ Message(n) \in Seq(Bytes) /\ Len(Message(n)) = HeaderSize + n
BY GroupAssumption DEF Shapes, Message, Bytes

LEMMA WriteFailsKeeps ==
    ASSUME GroupInv, NEW n \in PayloadSizes, WriteFails(n)
    PROVE  GroupInv'
<1>0. /\ Shapes /\ IsInjective(members) /\ PipesBounded /\ SinceJoined
      /\ Owned /\ PipesOwned /\ Isolation
  BY DEF GroupInv
<1>1. /\ HeaderSize + n \in Nat /\ n \in Nat /\ HeaderSize \in Nat /\ PipeSize \in Nat
      /\ Message(n) \in Seq(Bytes) /\ Len(Message(n)) = HeaderSize + n
  BY <1>0, MessageBytes, GroupAssumption
<1>2. /\ main' \in Seq(Bytes) /\ log' \in Seq(Bytes)
      /\ Len(main') <= PipeSize /\ Len(log) \in Nat /\ Len(log') \in Nat /\ Len(log) <= Len(log')
  <2>1. main \in Seq(Bytes) /\ log \in Seq(Bytes) /\ Len(main) <= PipeSize
    BY <1>0 DEF Shapes, PipesBounded
  <2>2. CASE UNCHANGED <<main, log>>
    BY <2>1, <2>2
  <2>3. CASE /\ Free(main) >= HeaderSize
             /\ main' = main \o Take(Message(n), HeaderSize)
             /\ log' = log \o Take(Message(n), HeaderSize)
    <3> DEFINE h == Take(Message(n), HeaderSize)
    <3>1. h \in Seq(Bytes) /\ Len(h) = HeaderSize
      BY <1>1, TakeDrop
    <3> HIDE DEF h
    <3>2. main' = main \o h /\ log' = log \o h
      BY <2>3 DEF h
    <3>3. QED
      BY <1>1, <2>1, <2>3, <3>1, <3>2, ConcatProperties, LenProperties DEF Free
  <2>4. QED
    BY <2>2, <2>3 DEF WriteFails
<1>3. /\ members' = members /\ pipe' = pipe /\ taken' = taken /\ joined' = joined
      /\ owner' = owner /\ opened' = opened
      /\ created' = created /\ sent' = sent + 1 /\ short' = short \cup {MainPipe}
  BY DEF WriteFails, Called
<1>4. Shapes'
  BY <1>0, <1>2, <1>3 DEF Shapes
<1>5. PipesBounded'
  BY <1>0, <1>2, <1>3 DEF PipesBounded
<1>6. SinceJoined'
  BY <1>0, <1>2, <1>3 DEF SinceJoined, Members
<1>7. Isolation' /\ Owned' /\ PipesOwned'
  BY <1>0, <1>3 DEF Isolation, Owned, PipesOwned, Members
<1>8. QED
  BY <1>0, <1>3, <1>4, <1>5, <1>6, <1>7 DEF GroupInv

LEMMA LeastOf ==
    ASSUME NEW m \in Int, NEW n \in Int
    PROVE  /\ Least(m, n) \in Int /\ Least(m, n) <= m /\ Least(m, n) <= n
           /\ m >= 0 /\ n >= 0 => Least(m, n) >= 0
BY DEF Least

(* What tee or splice puts into a pipe: no more than it has room for, and  *)
(* a beginning of the source.                                              *)
LEMMA FilledFits ==
    ASSUME Shapes, PipesBounded, NEW n \in PayloadSizes, NEW p \in Pipes,
           NEW source \in Seq(Bytes)
    PROVE  /\ Filled(source, p, n) \in 0..Len(source)
           /\ Filled(source, p, n) <= HeaderSize + n
           /\ PipeIn(source, p, n) \in Seq(Bytes)
           /\ Len(PipeIn(source, p, n)) <= PipeSize
<1>1. /\ HeaderSize + n \in Nat /\ PipeSize \in Nat
      /\ pipe[p] \in Seq(Bytes) /\ Len(pipe[p]) \in Nat /\ Len(pipe[p]) <= PipeSize
      /\ Len(source) \in Nat
  BY MessageBytes, GroupAssumption DEF Shapes, PipesBounded
<1>2. /\ Filled(source, p, n) \in 0..Len(source)
      /\ Filled(source, p, n) <= HeaderSize + n
      /\ Filled(source, p, n) <= PipeSize - Len(pipe[p])
  BY <1>1 DEF Filled, Least, Free
<1> DEFINE f == Filled(source, p, n)
           t == Take(source, f)
<1> HIDE DEF f
<1>3. t \in Seq(Bytes) /\ Len(t) = f
  BY <1>2, TakeDrop DEF f
<1> HIDE DEF t
<1>4. pipe[p] \o t \in Seq(Bytes) /\ Len(pipe[p] \o t) = Len(pipe[p]) + f
  BY <1>1, <1>3, ConcatProperties
<1>5. PipeIn(source, p, n) = pipe[p] \o t
  BY DEF PipeIn, t, f
<1>6. QED
  BY <1>1, <1>2, <1>4, <1>5 DEF f

(* What a successful Broadcast writes to the main pipe.                    *)
LEMMA WrittenFits ==
    ASSUME Shapes, PipesBounded, NEW n \in PayloadSizes, Free(main) >= HeaderSize
    PROVE  /\ Written(n) \in Seq(Bytes)
           /\ Len(Written(n)) >= HeaderSize + n => Written(n) = Message(n)
           /\ main \o Written(n) \in Seq(Bytes)
           /\ Len(main \o Written(n)) <= PipeSize
<1>1. /\ HeaderSize + n \in Nat /\ HeaderSize \in Nat /\ n \in Nat /\ PipeSize \in Nat
      /\ Message(n) \in Seq(Bytes) /\ Len(Message(n)) = HeaderSize + n
      /\ main \in Seq(Bytes) /\ Len(main) \in Nat /\ Len(main) <= PipeSize
  BY MessageBytes, GroupAssumption DEF Shapes, PipesBounded
<1> DEFINE k == Least(HeaderSize + n, Free(main))
           t == Take(Message(n), k)
<1>2. k \in 0..(HeaderSize + n) /\ k <= PipeSize - Len(main)
  BY <1>1 DEF Least, Free
<1> HIDE DEF k
<1>3. t \in Seq(Bytes) /\ Len(t) = k
  BY <1>1, <1>2, TakeDrop
<1>4. k >= HeaderSize + n => t = Message(n)
  <2> SUFFICES ASSUME k >= HeaderSize + n PROVE t = Message(n)
    OBVIOUS
  <2>1. k = Len(Message(n))
    BY <1>1, <1>2
  <2>2. SubSeq(Message(n), 1, Len(Message(n))) = Message(n)
    BY <1>1, SubSeqFull
  <2>3. QED
    BY <2>1, <2>2 DEF Take
<1> HIDE DEF t
<1>5. main \o t \in Seq(Bytes) /\ Len(main \o t) = Len(main) + k
  BY <1>1, <1>3, ConcatProperties
<1>6. Written(n) = t
  BY DEF Written, t, k
<1>7. QED
  BY <1>1, <1>2, <1>3, <1>4, <1>5, <1>6

(* What a socket takes leaves a member's pipe and nothing else: together   *)
(* they hold what they held before, followed by what was put in.           *)
LEMMA Drained ==
    ASSUME NEW w \in Seq(Bytes), NEW f \in Seq(Bytes), NEW k \in 0..Len(f)
    PROVE  /\ w \o Take(f, k) \in Seq(Bytes)
           /\ Drop(f, k) \in Seq(Bytes) /\ Len(Drop(f, k)) <= Len(f)
           /\ (w \o Take(f, k)) \o Drop(f, k) = w \o f
<1>1. /\ Take(f, k) \in Seq(Bytes) /\ Drop(f, k) \in Seq(Bytes)
      /\ Len(Drop(f, k)) = Len(f) - k /\ Take(f, k) \o Drop(f, k) = f
  BY TakeDrop
<1>2. w \o Take(f, k) \in Seq(Bytes)
  BY <1>1, ConcatProperties
<1>3. (w \o Take(f, k)) \o Drop(f, k) = w \o (Take(f, k) \o Drop(f, k))
  <2>1. Associate(w, Take(f, k), Drop(f, k))
    BY <1>1, Associative
  <2>2. QED
    BY <2>1 DEF Associate
<1>4. QED
  BY <1>1, <1>2, <1>3, LenProperties

LEMMA BroadcastKeeps ==
    ASSUME GroupInv, NEW n \in PayloadSizes,
           NEW takes \in [Members -> 0..(HeaderSize + n)], Broadcast(n, takes)
    PROVE  GroupInv'
<1> DEFINE source == main \o Written(n)
           full(p) == PipeIn(source, p, n)
<1>0. /\ Shapes /\ IsInjective(members) /\ PipesBounded /\ SinceJoined
      /\ Owned /\ PipesOwned /\ Isolation
  BY DEF GroupInv
<1>1. /\ members # <<>> /\ Free(main) >= HeaderSize
      /\ \A p \in Members : takes[p] <= Least(HeaderSize + n, Len(full(p)))
      /\ log' = log \o Written(n)
      /\ main' = Drop(source, Filled(source, Last, n))
      /\ pipe' = [p \in Pipes |-> IF p \in Members THEN Drop(full(p), takes[p]) ELSE pipe[p]]
      /\ taken' = [p \in Pipes |-> IF p \in Members THEN taken[p] \o Take(full(p), takes[p])
                                  ELSE taken[p]]
      /\ short' = short
             \cup {p \in Members : Filled(source, p, n) < HeaderSize + n}
             \cup {p \in {MainPipe} : \/ Len(Written(n)) < HeaderSize + n
                                      \/ Filled(source, Last, n) < HeaderSize + n}
  BY DEF Broadcast, Called, Moved
<1>2. /\ members' = members /\ joined' = joined /\ created' = created /\ sent' = sent + 1
      /\ owner' = owner /\ opened' = opened
  BY DEF Broadcast, Called
<1>3. /\ HeaderSize + n \in Nat /\ PipeSize \in Nat
      /\ Message(n) \in Seq(Bytes) /\ Len(Message(n)) = HeaderSize + n
      /\ Members \subseteq Pipes /\ Last \in Members
  BY <1>0, <1>1, MessageBytes, MembersArePipes, GroupAssumption
<1>4. /\ Written(n) \in Seq(Bytes)
      /\ Len(Written(n)) >= HeaderSize + n => Written(n) = Message(n)
      /\ source \in Seq(Bytes) /\ Len(source) <= PipeSize
  BY <1>0, <1>1, WrittenFits
<1> HIDE DEF source
<1>5. ASSUME NEW p \in Pipes
      PROVE  /\ Filled(source, p, n) \in 0..Len(source)
             /\ Filled(source, p, n) <= HeaderSize + n
             /\ full(p) \in Seq(Bytes) /\ Len(full(p)) <= PipeSize
  BY <1>0, <1>4, FilledFits
<1> HIDE DEF full
<1>6. /\ log' \in Seq(Bytes) /\ Len(log) \in Nat /\ Len(log') \in Nat /\ Len(log) <= Len(log')
  BY <1>0, <1>1, <1>4, ConcatProperties, LenProperties DEF Shapes
<1>7. main' \in Seq(Bytes) /\ Len(main') <= PipeSize
  <2> DEFINE k == Filled(source, Last, n)
  <2>1. k \in 0..Len(source)
    BY <1>3, <1>5
  <2> HIDE DEF k
  <2>2. Drop(source, k) \in Seq(Bytes) /\ Len(Drop(source, k)) = Len(source) - k
    BY <1>4, <2>1, TakeDrop
  <2>3. QED
    BY <1>1, <1>3, <1>4, <2>1, <2>2, LenProperties DEF k
<1>8. ASSUME NEW p \in Members
      PROVE  /\ taken'[p] \in Seq(Bytes) /\ pipe'[p] \in Seq(Bytes) /\ Len(pipe'[p]) <= PipeSize
             /\ taken'[p] \o pipe'[p] = taken[p] \o full(p)
  <2>1. taken[p] \in Seq(Bytes) /\ full(p) \in Seq(Bytes) /\ Len(full(p)) <= PipeSize
    BY <1>0, <1>3, <1>5 DEF Shapes
  <2>2. takes[p] \in 0..Len(full(p))
    BY <1>1, <1>3, <2>1, LenProperties DEF Least
  <2>3. taken'[p] = taken[p] \o Take(full(p), takes[p]) /\ pipe'[p] = Drop(full(p), takes[p])
    BY <1>1, <1>3
  <2>4. /\ taken'[p] \in Seq(Bytes) /\ pipe'[p] \in Seq(Bytes)
        /\ Len(pipe'[p]) <= Len(full(p))
        /\ taken'[p] \o pipe'[p] = taken[p] \o full(p)
    <3> DEFINE w == taken[p]
               f == full(p)
               k == takes[p]
    <3>1. w \in Seq(Bytes) /\ f \in Seq(Bytes) /\ k \in 0..Len(f)
      BY <2>1, <2>2
    <3> HIDE DEF w, f, k
    <3>2. /\ w \o Take(f, k) \in Seq(Bytes)
          /\ Drop(f, k) \in Seq(Bytes) /\ Len(Drop(f, k)) <= Len(f)
          /\ (w \o Take(f, k)) \o Drop(f, k) = w \o f
      BY <3>1, Drained
    <3>3. taken'[p] = w \o Take(f, k) /\ pipe'[p] = Drop(f, k)
      BY <2>3 DEF w, f, k
    <3>4. QED
      BY <3>2, <3>3 DEF w, f
  <2>5. QED
    BY <1>3, <2>1, <2>4, LenProperties
<1>9. ASSUME NEW p \in Pipes \ Members
      PROVE  taken'[p] = taken[p] /\ pipe'[p] = pipe[p]
  BY <1>1
<1>10. Shapes'
  <2>1. pipe' \in [Pipes -> Seq(Bytes)]
    BY <1>0, <1>1, <1>8, <1>9 DEF Shapes
  <2>2. taken' \in [Pipes -> Seq(Bytes)]
    BY <1>0, <1>1, <1>8, <1>9 DEF Shapes
  <2>3. short' \subseteq Pipes \cup {MainPipe}
    BY <1>0, <1>1, <1>3 DEF Shapes
  <2>4. QED
    BY <1>0, <1>2, <1>6, <1>7, <2>1, <2>2, <2>3 DEF Shapes
<1>11. PipesBounded'
  BY <1>0, <1>7, <1>8, <1>9 DEF PipesBounded
<1>12. SinceJoined'
  <2>1. Members' = Members
    BY <1>2 DEF Members
  <2>2. QED
    BY <1>0, <1>2, <1>6, <1>9, <2>1 DEF SinceJoined
<1>13. ASSUME MainPipe \notin short'
       PROVE  main' = <<>> /\ \A p \in Members \ short' : Stream(p)' = Drop(log', joined[p])
  <2>1. /\ MainPipe \notin short /\ main = <<>>
        /\ \A p \in Members \ short : Stream(p) = Drop(log, joined[p])
    BY <1>0, <1>1, <1>13 DEF Isolation
  <2>2. ~(Len(Written(n)) < HeaderSize + n) /\ ~(Filled(source, Last, n) < HeaderSize + n)
    BY <1>1, <1>13
  <2>3. Written(n) = Message(n)
    BY <1>3, <1>4, <2>2, LenProperties
  <2>4. source = Message(n)
    BY <1>3, <2>1, <2>3, ConcatEmptySeq DEF source
  <2>5. \A m \in Seq(Bytes), k \in Nat : k = Len(m) => Take(m, k) = m /\ Drop(m, k) = <<>>
    BY SubSeqFull, SubSeqEmpty DEF Take, Drop
  <2>6. main' = <<>>
    <3>1. Filled(source, Last, n) = HeaderSize + n
      BY <1>3, <1>5, <2>2, LenProperties
    <3>2. QED
      BY <1>1, <1>3, <2>4, <2>5, <3>1
  <2>7. ASSUME NEW p \in Members \ short'
        PROVE  Stream(p)' = Drop(log', joined[p])
    <3>1. p \in Pipes /\ p \in Members \ short /\ ~(Filled(source, p, n) < HeaderSize + n)
      BY <1>1, <1>3
    <3>2. Filled(source, p, n) = HeaderSize + n
      BY <1>3, <1>5, <3>1, LenProperties
    <3>3. full(p) = pipe[p] \o Message(n)
      BY <1>3, <2>4, <2>5, <3>2 DEF full, PipeIn
    <3>4. pipe[p] \in Seq(Bytes) /\ taken[p] \in Seq(Bytes) /\ log \in Seq(Bytes)
      BY <1>0, <3>1 DEF Shapes
    <3>5. Stream(p)' = Stream(p) \o Message(n)
      <4>1. taken[p] \o (pipe[p] \o Message(n)) = (taken[p] \o pipe[p]) \o Message(n)
        <5>1. Associate(taken[p], pipe[p], Message(n))
          BY <1>3, <3>4, Associative
        <5>2. QED
          BY <5>1 DEF Associate
      <4>2. taken'[p] \o pipe'[p] = taken[p] \o full(p)
        BY <1>8
      <4>3. QED
        BY <3>3, <4>1, <4>2 DEF Stream
    <3>6. joined[p] \in 0..Len(log)
      BY <1>0, <3>1 DEF SinceJoined
    <3>7. Drop(log', joined[p]) = Drop(log, joined[p]) \o Message(n)
      BY <1>1, <1>3, <2>3, <3>4, <3>6, DropConcat
    <3>8. QED
      BY <2>1, <3>1, <3>5, <3>7
  <2>8. QED
    BY <2>6, <2>7
<1>14. Isolation'
  <2>1. Members' = Members
    BY <1>2 DEF Members
  <2>2. QED
    BY <1>2, <1>13, <2>1 DEF Isolation
<1>15. Owned' /\ PipesOwned'
  BY <1>0, <1>2 DEF Owned, PipesOwned, Members
<1>16. QED
  BY <1>0, <1>2, <1>10, <1>11, <1>12, <1>14, <1>15 DEF GroupInv

-----------------------------------------------------------------------------
LEMMA StutterKeeps == GroupInv /\ UNCHANGED vars => GroupInv'
<1> SUFFICES ASSUME GroupInv, UNCHANGED vars PROVE GroupInv'
  OBVIOUS
<1>1. Shapes' /\ IsInjective(members') /\ PipesBounded'
  BY DEF vars, GroupInv, Shapes, PipesBounded
<1>2. Members' = Members /\ \A p \in Pipes : Stream(p)' = Stream(p)
  BY DEF vars, Members, Stream
<1>3. SinceJoined' /\ Owned' /\ PipesOwned'
  BY <1>2 DEF vars, GroupInv, SinceJoined, Owned, PipesOwned
<1>4. Isolation'
  <2>1. Members \subseteq Pipes
    BY MembersArePipes DEF GroupInv
  <2>2. QED
    BY <1>2, <2>1 DEF vars, GroupInv, Isolation
<1>5. QED
  BY <1>1, <1>3, <1>4 DEF GroupInv

LEMMA GroupStep == GroupInv /\ [Next]_vars => GroupInv'
<1> SUFFICES ASSUME GroupInv, [Next]_vars PROVE GroupInv'
  OBVIOUS
<1>1. ASSUME NEW c \in Conns, NEW p \in Pipes, Join(c, p) PROVE GroupInv'
  BY <1>1, JoinKeeps
<1>2. ASSUME NEW c \in Conns, Leave(c) PROVE GroupInv'
  BY <1>2, LeaveKeeps
<1>3. ASSUME NEW n \in PayloadSizes, WriteFails(n) PROVE GroupInv'
  BY <1>3, WriteFailsKeeps
<1>4. ASSUME NEW n \in PayloadSizes, NEW takes \in [Members -> 0..(HeaderSize + n)],
             Broadcast(n, takes)
      PROVE  GroupInv'
  BY <1>4, BroadcastKeeps
<1>5. CASE UNCHANGED vars
  BY <1>5, StutterKeeps
<1>6. CASE JoinFails
  BY <1>6, StutterKeeps DEF JoinFails
<1>7. QED
  BY <1>1, <1>2, <1>3, <1>4, <1>5, <1>6 DEF Next

LEMMA Inductive == Spec => []GroupInv
BY InitGroup, GroupStep, PTL DEF Spec

(* No pipe ever holds more than it can, and every entry of connections_    *)
(* has a pipe of its own and a websocket.                                  *)
THEOREM TypeCorrect == Spec => []TypeOK
<1>1. GroupInv => TypeOK
  <2> SUFFICES ASSUME GroupInv PROVE TypeOK
    OBVIOUS
  <2>1. Shapes /\ PipesBounded /\ SinceJoined /\ Owned
    BY DEF GroupInv
  <2>2. Members \subseteq Pipes
    BY <2>1, MembersArePipes
  <2>3. \A p \in Members : owner[p] \in Conns /\ joined[p] \in 0..Len(log)
    BY <2>1, <2>2 DEF SinceJoined, Owned
  <2>4. QED
    BY <2>1, <2>2, <2>3 DEF TypeOK, Shapes, PipesBounded
<1>2. QED
  BY <1>1, Inductive, PTL

(* However the websockets join, join again and leave, the pipes whose      *)
(* descriptors are open are those of the entries of connections_: Leave    *)
(* closes the one it erases, and none is lost or closed too early.         *)
THEOREM PipesOwnedHolds == Spec => []PipesOwned
<1>1. GroupInv => PipesOwned
  BY DEF GroupInv
<1>2. QED
  BY <1>1, Inductive, PTL

(* An entry whose own pipe always had room is sent exactly what was        *)
(* broadcast since it joined, byte for byte, unless the last entry or the  *)
(* main pipe fell short.                                                   *)
THEOREM MembersIsolated == Spec => []Isolation
<1>1. GroupInv => Isolation
  BY DEF GroupInv
<1>2. QED
  BY <1>1, Inductive, PTL
===============================================================================
