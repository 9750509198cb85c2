----------------------------- MODULE JoiningProofs -----------------------------
(***************************************************************************)
(* What Joined returns, for every sequence of sequences.  Joined is a      *)
(* recursive function; what it computes is proved by induction over a set  *)
(* of numbers, which the least-number principle gives.                     *)
(***************************************************************************)
EXTENDS Joining, SequenceTheorems, WellFoundedInduction, TLAPS

(* u is s followed by t, element by element.                               *)
Follows(S, u, s, t) ==
    /\ u \in Seq(S) /\ Len(u) = Len(s) + Len(t)
    /\ \A k \in 1..Len(s) : u[k] = s[k]
    /\ \A k \in 1..Len(t) : u[Len(s) + k] = t[k]

LEMMA ConcatFollows ==
    ASSUME NEW S, NEW s \in Seq(S), NEW t \in Seq(S)
    PROVE  Follows(S, s \o t, s, t)
BY DEF Follows

LEMMA Single ==
    ASSUME NEW S, NEW e \in S
    PROVE  <<e>> \in Seq(S) /\ Len(<<e>>) = 1 /\ <<e>>[1] = e
OBVIOUS

-----------------------------------------------------------------------------
(* What a recursive function computes.  Induction is over sets of numbers: *)
(* a set that holds 0 and the successor of each of its members is Nat.     *)
LEMMA LeastNumber ==
    ASSUME NEW T \in SUBSET Nat, T # {}
    PROVE  \E x \in T : \A y \in T : x <= y
<1>1. \E x \in T : \A y \in T : ~ (<<y, x>> \in OpToRel(<, Nat))
  BY WFMin, NatLessThanWellFounded, Zenon
<1>2. PICK x \in T : \A y \in T : ~ (<<y, x>> \in OpToRel(<, Nat))
  BY <1>1, Zenon
<1>3. \A y \in T : ~(y < x)
  BY <1>2 DEF OpToRel
<1>4. QED
  BY <1>3

LEMMA SetInduction ==
    ASSUME NEW T, 0 \in T, \A n \in Nat : n \in T => n + 1 \in T
    PROVE  Nat \subseteq T
<1> SUFFICES ASSUME Nat \ T # {} PROVE FALSE
  OBVIOUS
<1>1. PICK x \in Nat \ T : \A y \in Nat \ T : x <= y
  BY LeastNumber
<1>2. x # 0 /\ x - 1 \in Nat
  BY <1>1
<1>3. x - 1 \in T
  BY <1>1, <1>2
<1>4. x - 1 + 1 \in T
  BY <1>2, <1>3
<1>5. QED
  BY <1>1, <1>2, <1>4

(* f adds up the parts A[1], A[2], ... up to A[n].                         *)
AddsUp(A, n, f) ==
    /\ f = [i \in 0..n |-> f[i]]
    /\ f[0] = <<>>
    /\ \A i \in 1..n : f[i] = f[i-1] \o A[i]

LEMMA AddsUpExists ==
    ASSUME NEW A, NEW N \in Nat
    PROVE  \E f : AddsUp(A, N, f)
<1> DEFINE T == {n \in Nat : \E f : AddsUp(A, n, f)}
<1>1. 0 \in T
  <2>1. AddsUp(A, 0, [i \in 0..0 |-> <<>>])
    BY DEF AddsUp
  <2>2. QED
    BY <2>1
<1>2. ASSUME NEW n \in Nat, n \in T
      PROVE  n + 1 \in T
  <2>1. PICK f : AddsUp(A, n, f)
    BY <1>2
  <2> HIDE DEF T
  <2> DEFINE last == f[n] \o A[n+1]
             g == [i \in 0..(n+1) |-> IF i <= n THEN f[i] ELSE last]
  <2> HIDE DEF last
  <2>2. \A i \in 0..n : g[i] = f[i]
    OBVIOUS
  <2>3. g[n+1] = last
    OBVIOUS
  <2>4. g = [i \in 0..(n+1) |-> g[i]]
    OBVIOUS
  <2> HIDE DEF g
  <2>5. g[0] = <<>>
    BY <2>1, <2>2 DEF AddsUp
  <2>6. ASSUME NEW i \in 1..(n+1)
        PROVE  g[i] = g[i-1] \o A[i]
    <3>1. CASE i <= n
      <4>1. i \in 1..n /\ i \in 0..n /\ i - 1 \in 0..n
        BY <3>1
      <4>2. f[i] = f[i-1] \o A[i]
        BY <2>1, <4>1 DEF AddsUp
      <4>3. QED
        BY <2>2, <4>1, <4>2
    <3>2. CASE i = n + 1
      <4>1. i - 1 = n /\ n \in 0..n
        BY <3>2
      <4>2. QED
        BY <2>2, <2>3, <3>2, <4>1 DEF last
    <3>3. i <= n \/ i = n + 1
      OBVIOUS
    <3>4. QED
      BY <3>1, <3>2, <3>3, Zenon
  <2>7. AddsUp(A, n + 1, g)
    BY <2>4, <2>5, <2>6 DEF AddsUp
  <2>8. QED
    BY <2>7 DEF T
<1> HIDE DEF T
<1>3. Nat \subseteq T
  BY <1>1, <1>2, SetInduction
<1>4. N \in T
  BY <1>3
<1>5. QED
  BY <1>4 DEF T

SameParts(A, B, n) == \A i \in 1..n : A[i] = B[i]

(* Two sums of the same parts agree.                                       *)
LEMMA AddsUpUnique ==
    ASSUME NEW A, NEW B, NEW N \in Nat, NEW M \in Nat, N <= M, NEW f, NEW g,
           AddsUp(A, N, f), AddsUp(B, M, g), SameParts(A, B, N)
    PROVE  \A n \in 0..N : f[n] = g[n]
<1> DEFINE T == {n \in Nat : n \in 0..N => f[n] = g[n]}
<1>1. 0 \in T
  BY DEF AddsUp
<1>2. ASSUME NEW n \in Nat, n \in T
      PROVE  n + 1 \in T
  <2> SUFFICES ASSUME n + 1 \in 0..N PROVE f[n+1] = g[n+1]
    OBVIOUS
  <2>1. n + 1 \in 1..N /\ n + 1 \in 1..M /\ n \in 0..N /\ (n + 1) - 1 = n
    OBVIOUS
  <2>2. f[n+1] = f[(n+1)-1] \o A[n+1] /\ g[n+1] = g[(n+1)-1] \o B[n+1]
    BY <2>1, Zenon DEF AddsUp
  <2>3. f[n] = g[n] /\ A[n+1] = B[n+1]
    BY <1>2, <2>1 DEF SameParts
  <2>4. QED
    BY <2>1, <2>2, <2>3
<1> HIDE DEF T
<1>3. Nat \subseteq T
  BY <1>1, <1>2, SetInduction
<1>4. QED
  BY <1>3 DEF T

Begins(s, t) == Len(s) <= Len(t) /\ \A k \in 1..Len(s) : t[k] = s[k]

LEMMA BeginsConcat ==
    ASSUME NEW S, NEW s \in Seq(S), NEW t \in Seq(S), NEW u \in Seq(S)
    PROVE  Begins(s, s) /\ (Begins(s, t) => Begins(s, t \o u))
BY DEF Begins

(* The sums of sequences are sequences; from the first part on they begin  *)
(* with it.                                                                *)
LEMMA AddsUpBegins ==
    ASSUME NEW S, NEW N \in Nat, NEW A \in [1..N -> Seq(S)], NEW f, AddsUp(A, N, f)
    PROVE  \A n \in 0..N : f[n] \in Seq(S) /\ (n > 0 => Begins(A[1], f[n]))
<1> DEFINE Good(n) == f[n] \in Seq(S) /\ (n > 0 => Begins(A[1], f[n]))
           T == {n \in Nat : n \in 0..N => Good(n)}
<1>1. 0 \in T
  <2>1. f[0] = <<>>
    BY DEF AddsUp
  <2>2. <<>> \in Seq(S) /\ ~(0 > 0)
    OBVIOUS
  <2>3. QED
    BY <2>1, <2>2
<1>2. ASSUME NEW n \in Nat, n \in T
      PROVE  n + 1 \in T
  <2> SUFFICES ASSUME n + 1 \in 1..N PROVE f[n+1] \in Seq(S) /\ Begins(A[1], f[n+1])
    OBVIOUS
  <2> DEFINE p == f[n]
             q == A[n+1]
  <2>1. n \in 0..N /\ p \in Seq(S) /\ (n > 0 => Begins(A[1], p)) /\ A[1] \in Seq(S) /\ q \in Seq(S)
    BY <1>2
  <2>2. f[n+1] = p \o q
    <3>1. (n + 1) - 1 = n
      OBVIOUS
    <3>2. f[n+1] = f[(n+1)-1] \o A[n+1]
      BY Zenon DEF AddsUp
    <3>3. QED
      BY <3>1, <3>2
  <2>3. CASE n = 0
    <3>1. p = <<>> /\ q = A[1]
      BY <2>3 DEF AddsUp
    <3> HIDE DEF p, q
    <3>2. p \o q = A[1]
      BY <2>1, <3>1, ConcatEmptySeq
    <3>3. QED
      BY <2>1, <2>2, <3>2, BeginsConcat
  <2>4. CASE n # 0
    <3> HIDE DEF p, q
    <3>1. n > 0
      BY <2>4
    <3>2. QED
      BY <2>1, <2>2, <3>1, BeginsConcat, ConcatProperties
  <2>5. QED
    BY <2>3, <2>4
<1> HIDE DEF T
<1>3. Nat \subseteq T
  BY <1>1, <1>2, SetInduction
<1>4. QED
  BY <1>3 DEF T

(* Joined computes such a sum.                                             *)
LEMMA JoinedAddsUp ==
    ASSUME NEW A, NEW N \in Nat, Len(A) = N
    PROVE  \E f : AddsUp(A, N, f) /\ Joined(A) = f[N]
<1> DEFINE Sum(g) == [i \in 0..Len(A) |-> IF i = 0 THEN <<>> ELSE g[i-1] \o A[i]]
           b == CHOOSE g : g = Sum(g)
<1>1. \E g : g = Sum(g)
  <2>1. PICK f : AddsUp(A, N, f)
    BY AddsUpExists
  <2>2. f[0] = <<>> /\ f = [i \in 0..N |-> f[i]]
    BY <2>1 DEF AddsUp
  <2>3. ASSUME NEW i \in 0..N
        PROVE  f[i] = Sum(f)[i]
    <3>1. CASE i = 0
      BY <2>2, <3>1
    <3>2. CASE i # 0
      <4>1. i \in 1..N
        BY <3>2
      <4>2. f[i] = f[i-1] \o A[i]
        BY <2>1, <4>1, Zenon DEF AddsUp
      <4>3. QED
        BY <3>2, <4>2
    <3>3. QED
      BY <3>1, <3>2
  <2>4. f = Sum(f)
    BY <2>2, <2>3
  <2>5. QED
    BY <2>4
<1>2. Joined(A) = b[N]
  BY DEF Joined
<1>3. b = Sum(b)
  <2> HIDE DEF Sum
  <2>1. QED
    BY <1>1
<1> HIDE DEF b
<1>4. AddsUp(A, N, b)
  <2>1. ASSUME NEW i \in 1..N
        PROVE  b[i] = b[i-1] \o A[i]
    <3>1. i \in 0..N /\ i # 0
      OBVIOUS
    <3>2. Sum(b)[i] = b[i-1] \o A[i]
      BY <3>1
    <3> HIDE DEF Sum
    <3>3. QED
      BY <1>3, <3>2
  <2>2. b[0] = <<>>
    BY <1>3
  <2>3. b = [i \in 0..N |-> b[i]]
    BY <1>3
  <2>4. QED
    BY <2>1, <2>2, <2>3 DEF AddsUp
<1>5. QED
  BY <1>2, <1>4

(* What Joined returns: a sequence that begins with the first part, and    *)
(* one part more at the end is appended.                                   *)
LEMMA JoinedProperties ==
    ASSUME NEW S, NEW N \in Nat, NEW A \in [1..N -> Seq(S)]
    PROVE  /\ Joined(A) \in Seq(S)
           /\ N = 0 => Joined(A) = <<>>
           /\ N > 0 => Begins(A[1], Joined(A))
<1>1. Len(A) = N
  OBVIOUS
<1>2. PICK f : AddsUp(A, N, f) /\ Joined(A) = f[N]
  BY <1>1, JoinedAddsUp
<1>3. N \in 0..N
  OBVIOUS
<1>4. f[N] \in Seq(S) /\ (N > 0 => Begins(A[1], f[N]))
  BY <1>2, <1>3, AddsUpBegins
<1>5. f[0] = <<>>
  BY <1>2 DEF AddsUp
<1>6. QED
  BY <1>2, <1>4, <1>5

LEMMA JoinedNext ==
    ASSUME NEW S, NEW N \in Nat, NEW A \in [1..N -> Seq(S)], NEW B \in [1..(N + 1) -> Seq(S)],
           SameParts(A, B, N)
    PROVE  Joined(B) = Joined(A) \o B[N + 1]
<1>1. Len(A) = N /\ Len(B) = N + 1 /\ N + 1 \in Nat
  OBVIOUS
<1>2. PICK f : AddsUp(A, N, f) /\ Joined(A) = f[N]
  BY <1>1, JoinedAddsUp
<1>3. PICK g : AddsUp(B, N + 1, g) /\ Joined(B) = g[N + 1]
  BY <1>1, JoinedAddsUp
<1>4. N \in 0..N /\ N + 1 \in 1..(N + 1) /\ (N + 1) - 1 = N
  OBVIOUS
<1>5. f[N] = g[N]
  <2> DEFINE M == N + 1
  <2>1. M \in Nat /\ N <= M /\ AddsUp(B, M, g)
    BY <1>3
  <2> HIDE DEF M
  <2>2. \A n \in 0..N : f[n] = g[n]
    BY <1>2, <2>1, AddsUpUnique
  <2>3. QED
    BY <1>4, <2>2
<1>6. g[N + 1] = g[(N + 1) - 1] \o B[N + 1]
  BY <1>3, <1>4, Zenon DEF AddsUp
<1>7. QED
  BY <1>2, <1>3, <1>4, <1>5, <1>6
================================================================================
