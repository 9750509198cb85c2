--------------------------- MODULE RequestHeadProofs ---------------------------
(***************************************************************************)
(* Proofs about the start of the server, the route table and the dispatch  *)
(* of a request, for every set of routes, heads and status codes.          *)
(***************************************************************************)
EXTENDS RequestHead, JoiningProofs

-----------------------------------------------------------------------------
(* Server::Init.                                                           *)

LEMMA CallTable ==
    /\ Len(Calls) = 7
    /\ \A i \in 1..7 : Calls[i].code \in -4..-1
    /\ \A i \in 1..7 : (Calls[i].name = "listen") <=> (i = 6)
    /\ \A i \in 1..7 : (Calls[i].name = "epoll_create1") <=> (i = 1)
    /\ \A i \in 1..7 : (Calls[i].name = "epoll_ctl") <=> (i = 7)
    /\ Calls[7].code = -4
BY DEF Calls, Call

(* A socket listens from the sixth call of its try on.  Only a try whose   *)
(* last call failed leaves one behind, and it returned -4.                 *)
SetupInv ==
    /\ tries \in Nat
    /\ at \in 0..7
    /\ ret \in -4..1
    /\ at # 0 => ret # 0 /\ tries # 0
    /\ \A t \in listening : t \in 1..tries
    /\ at \in 1..6 => tries \notin listening
    /\ at = 7 => tries \in listening
    /\ \A t \in listening : -4 \in failed \/ (t = tries /\ (at = 7 \/ ret = 0))
    /\ ret = 0 => polled = {tries} /\ tries \in listening

LEMMA InitSetup == Init => SetupInv
BY DEF Init, SetupInit, SetupInv, NotCalled

LEMMA SetupStep == SetupInv /\ [Next]_vars => SetupInv'
<1> SUFFICES ASSUME SetupInv, [Next]_vars PROVE SetupInv'
  OBVIOUS
<1> USE CallTable DEF SetupInv
<1>1. CASE InitCalled
  BY <1>1 DEF InitCalled
<1>2. CASE CallFails
  BY <1>2 DEF CallFails
<1>3. CASE CallSucceeds
  <2>1. CASE at \in 1..5
    BY <1>3, <2>1 DEF CallSucceeds
  <2>2. CASE at = 6
    <3>1. /\ at' = 7 /\ listening' = listening \cup {tries} /\ polled' = polled
          /\ UNCHANGED <<tries, failed, ret>>
      BY <1>3, <2>2 DEF CallSucceeds
    <3>2. ret # 0 /\ tries \in 1..tries
      <4>1. tries # 0
        BY <2>2
      <4>2. QED
        BY <2>2, <4>1
    <3>3. QED
      BY <2>2, <3>1, <3>2
  <2>3. CASE at = 7
    BY <1>3, <2>3 DEF CallSucceeds
  <2>4. QED
    BY <1>3, <2>1, <2>2, <2>3 DEF CallSucceeds
<1>4. CASE \E r \in Routes : Register(r)
  BY <1>4 DEF Register
<1>5. CASE UNCHANGED setupVars
  BY <1>5 DEF setupVars
<1>6. [Next]_vars => InitCalled \/ CallFails \/ CallSucceeds \/ (\E r \in Routes : Register(r))
                     \/ UNCHANGED setupVars
  BY DEF Next, vars, Setup, FirstLine, Parse, ContentLengthLine, UpgradeLine, AssignedLine,
     OtherLine, NoColonLine, Line, ConnectionLine, KnownToken, UnknownToken, TokensEnd, BlankLine,
     Dispatch, NotFound, Upgrade, NoHandler, CallHandler, Result
<1>7. QED
  BY <1>1, <1>2, <1>3, <1>4, <1>5, <1>6

LEMMA SetupCorrect == Spec => []SetupInv
BY InitSetup, SetupStep, PTL DEF Spec

(* However often Init is tried and whichever calls fail: when it returns 0 *)
(* the socket that is polled listens, and no other does unless a try       *)
(* returned -4.                                                            *)
THEOREM ListenersPolledHolds == Spec => []ListenersPolled
<1>1. SetupInv => ListenersPolled
  BY DEF SetupInv, ListenersPolled
<1>2. QED
  BY <1>1, SetupCorrect, PTL

-----------------------------------------------------------------------------
(* The status line.                                                        *)

(* at(code % 100) is within the messages of its hundred, whatever code the *)
(* handler asks for.                                                       *)
LEMMA MakeResponseHasMessage ==
    ASSUME NEW code \in Int
    PROVE  HasMessage(MakeResponse(code))
<1> DEFINE r == IF code < 100 \/ code > 599 THEN 500 ELSE code
<1>1. r \in 100..599 /\ r \div 100 \in 1..5
  OBVIOUS
<1>2. MakeResponse(code) = IF MessageCounts[r \div 100] <= r % 100 THEN 500 ELSE r
  BY DEF MakeResponse
<1>3. \A i \in 1..5 : MessageCounts[i] \in 4..13
  BY DEF MessageCounts
<1>4. HasMessage(500)
  <2>1. 500 \div 100 = 5 /\ 500 % 100 = 0
    OBVIOUS
  <2>2. QED
    BY <1>3, <2>1 DEF HasMessage
<1> HIDE DEF r
<1>5. CASE MessageCounts[r \div 100] <= r % 100
  BY <1>2, <1>4, <1>5
<1>6. CASE ~(MessageCounts[r \div 100] <= r % 100)
  <2>1. r % 100 < MessageCounts[r \div 100]
    BY <1>1, <1>3, <1>6
  <2>2. QED
    BY <1>1, <1>2, <1>6, <2>1 DEF HasMessage
<1>7. QED
  BY <1>5, <1>6

LEMMA FixedCodes == MakeResponse(404) = 404 /\ MakeResponse(101) = 101
<1>1. MessageCounts[4] = 13 /\ MessageCounts[1] = 4
  BY DEF MessageCounts
<1>2. 404 \div 100 = 4 /\ 404 % 100 = 4 /\ 101 \div 100 = 1 /\ 101 % 100 = 1
  OBVIOUS
<1>3. QED
  BY <1>1, <1>2 DEF MakeResponse

LEMMA StatusStep == StatusHasMessage /\ [Next]_vars => StatusHasMessage'
<1> SUFFICES ASSUME StatusHasMessage, [Next]_vars PROVE StatusHasMessage'
  OBVIOUS
<1>1. CASE NotFound
  BY <1>1, MakeResponseHasMessage, FixedCodes DEF NotFound, Result, StatusHasMessage
<1>2. ASSUME NEW p, Upgrade(p)
      PROVE  StatusHasMessage'
  BY <1>2, MakeResponseHasMessage, FixedCodes DEF Upgrade, Result, StatusHasMessage
<1>3. ASSUME NEW p, NoHandler(p)
      PROVE  StatusHasMessage'
  BY <1>3 DEF NoHandler, Result, StatusHasMessage
<1>4. ASSUME NEW p, NEW code \in StatusCodes, CallHandler(p, code)
      PROVE  StatusHasMessage'
  BY <1>4, MakeResponseHasMessage, HeadAssumption DEF CallHandler, Result, StatusHasMessage
<1>5. CASE UNCHANGED <<kind, status>>
  BY <1>5 DEF StatusHasMessage
<1>6. CASE ~Dispatch
  BY <1>5, <1>6 DEF Next, vars, headVars, Setup, FirstLine, Parse, ContentLengthLine, UpgradeLine,
     AssignedLine, OtherLine, NoColonLine, Line, ConnectionLine, KnownToken, UnknownToken,
     TokensEnd, BlankLine
<1>7. QED
  BY <1>1, <1>2, <1>3, <1>4, <1>6 DEF Dispatch

(* Every answer has a status message, whatever integer a handler gives as  *)
(* its code: kStatusMessages.at() never throws.                            *)
THEOREM StatusHasMessageHolds == Spec => []StatusHasMessage
<1>1. Init => StatusHasMessage
  BY DEF Init, StatusHasMessage
<1>2. QED
  BY <1>1, StatusStep, PTL DEF Spec

-----------------------------------------------------------------------------
(* The parser's fields keep their types line by line.                      *)
Parsed(p) ==
    /\ p = [method |-> p.method, uri |-> p.uri, version |-> p.version,
            connection |-> p.connection, upgrade |-> p.upgrade, hasBody |-> p.hasBody,
            text |-> p.text]
    /\ p.method \in KnownMethods \cup {"UNKNOWN"}
    /\ p.uri \in Seq(Char)
    /\ p.version \in HttpVersions \cup {"WS", "UNKNOWN"}
    /\ p.connection \subseteq KnownTokens

HeadInv ==
    /\ Parsed(parsed)
    /\ pc \in {"setup", "lines", "tokens", "dispatch", "done"}
    /\ kind \in {"unparsed", "no_route", "no_method", "unknown_method", "handled",
                 "upgrade", "upgrade_no_key"}

(* The first line.                                                         *)
LEMMA EarliestIs ==
    ASSUME NEW S \in SUBSET Nat, S # {}
    PROVE  Earliest(S) \in S /\ \A j \in S : Earliest(S) <= j
BY LeastNumber DEF Earliest

LEMMA MethodNames ==
    /\ \A m \in KnownMethods : /\ Len(MethodName[m]) \in {3, 4}
                              /\ \A k \in 1..Len(MethodName[m]) : MethodName[m][k] \in 60..90
    /\ "UNKNOWN" \notin KnownMethods
BY DEF KnownMethods, MethodName

LEMMA MethodBegins ==
    \A m \in KnownMethods : 1 \in 1..Len(MethodName[m]) /\ 2 \in 1..Len(MethodName[m])
BY DEF KnownMethods, MethodName

LEMMA MethodParsed ==
    ASSUME NEW s
    PROVE  /\ ParseHttpMethod(s) \in KnownMethods \cup {"UNKNOWN"}
           /\ ParseHttpMethod(s) = "UNKNOWN" <=> ~\E m \in KnownMethods : Stands(s, 1, MethodName[m])
           /\ ParseHttpMethod(s) # "UNKNOWN" => Stands(s, 1, MethodName[ParseHttpMethod(s)])
<1>1. CASE \E m \in KnownMethods : Stands(s, 1, MethodName[m])
  <2>1. ParseHttpMethod(s) = CHOOSE m \in KnownMethods : Stands(s, 1, MethodName[m])
    BY <1>1 DEF ParseHttpMethod
  <2>2. ParseHttpMethod(s) \in KnownMethods /\ Stands(s, 1, MethodName[ParseHttpMethod(s)])
    BY <1>1, <2>1, Zenon
  <2>3. QED
    BY <1>1, <2>2, MethodNames
<1>2. CASE ~\E m \in KnownMethods : Stands(s, 1, MethodName[m])
  BY <1>2 DEF ParseHttpMethod
<1>3. QED
  BY <1>1, <1>2

(* Where the URI begins and ends in a line that ends as lines do.          *)
UriFrom(s, n, a) ==
    a \in 1..Len(s) /\ a > n /\ s[a] # Blank /\ \A i \in 1..Len(s) : i > n /\ s[i] # Blank => a <= i

UriTo(s, a, e) ==
    /\ e \in (a + 1)..(Len(s) + 1) /\ (e <= Len(s) => s[e] = Blank)
    /\ \A i \in 1..Len(s) : i > a /\ s[i] = Blank => e <= i

LEMMA UriFound ==
    ASSUME NEW s \in Seq(Char), s # <<>>, s[Len(s)] = LF, ParseHttpMethod(s) # "UNKNOWN"
    PROVE  /\ UriFrom(s, Len(MethodName[ParseHttpMethod(s)]), UriAt(s))
           /\ UriTo(s, UriAt(s), UriEnd(s))
<1> DEFINE m == ParseHttpMethod(s)
           n == Len(MethodName[m])
           A == {i \in DOMAIN s : i > n /\ s[i] # Blank}
           a == UriAt(s)
           E == {i \in DOMAIN s : i > a /\ s[i] = Blank} \cup {Len(s) + 1}
           e == UriEnd(s)
<1>1. Len(s) \in Nat /\ Len(s) >= 1 /\ DOMAIN s = 1..Len(s)
  BY EmptySeq
<1>2. m \in KnownMethods /\ n \in {3, 4} /\ Stands(s, 1, MethodName[m])
  BY MethodParsed, MethodNames
<1>3. Len(s) \in A
  <2>1. \A k \in 1..n : s[1 + k - 1] = MethodName[m][k]
    BY <1>2 DEF Stands
  <2>2. ASSUME NEW k \in 1..n PROVE s[k] \in 60..90
    <3>1. 1 + k - 1 = k
      BY <1>2
    <3>2. MethodName[m][k] \in 60..90
      BY <1>2, MethodNames
    <3>3. s[1 + k - 1] = MethodName[m][k]
      BY <2>1
    <3>4. QED
      BY <3>1, <3>2, <3>3
  <2>3. ~(Len(s) \in 1..n)
    <3>1. LF \notin 60..90
      BY DEF LF
    <3>2. Len(s) \in 1..n => s[Len(s)] \in 60..90
      BY <2>2
    <3>3. QED
      BY <3>1, <3>2
  <2>4. Len(s) > n
    BY <1>1, <1>2, <2>3
  <2>5. QED
    BY <1>1, <2>4 DEF LF, Blank
<1>4. a = Earliest(A)
  BY DEF UriAt
<1>5. A \in SUBSET Nat /\ A # {}
  BY <1>1, <1>3
<1> HIDE DEF a
<1>6. a \in A /\ \A i \in A : a <= i
  BY <1>4, <1>5, EarliestIs
<1>7. UriFrom(s, n, a)
  BY <1>1, <1>6 DEF UriFrom
<1>8. e = Earliest(E)
  BY DEF UriEnd, a
<1> HIDE DEF e
<1>9. E \in SUBSET Nat /\ E # {}
  BY <1>1
<1>10. e \in E /\ \A i \in E : e <= i
  BY <1>8, <1>9, EarliestIs
<1>11. a \in 1..Len(s)
  BY <1>7 DEF UriFrom
<1>12. UriTo(s, a, e)
  BY <1>1, <1>10, <1>11 DEF UriTo
<1>13. QED
  BY <1>7, <1>12 DEF a, e

LEMMA FirstLineParsed ==
    ASSUME Parsed(parsed), NEW h \in Heads
    PROVE  Parsed(ParseFirstLine(h.first))
<1> DEFINE s == h.first
           m == ParseHttpMethod(s)
           v == ParseHttpVersion(s, VersionAt(s))
           u == SubSeq(s, UriAt(s), UriEnd(s) - 1)
<1>1. m \in KnownMethods \cup {"UNKNOWN"} /\ v \in HttpVersions \cup {"WS", "UNKNOWN"}
  BY MethodParsed DEF ParseHttpVersion, HttpVersions
<1>2. ParseFirstLine(s) =
        IF m = "UNKNOWN"
        THEN [parsed EXCEPT !.method = "UNKNOWN", !.uri = <<>>, !.version = "UNKNOWN"]
        ELSE [parsed EXCEPT !.method = m, !.uri = u, !.version = v]
  BY DEF ParseFirstLine
<1>3. s \in Seq(Char) /\ s # <<>> /\ s[Len(s)] = LF
  BY HeadAssumption
<1>4. m # "UNKNOWN" => u \in Seq(Char)
  <2> SUFFICES ASSUME m # "UNKNOWN" PROVE u \in Seq(Char)
    OBVIOUS
  <2> DEFINE a == UriAt(s)
             e == UriEnd(s)
  <2>1. a \in 1..Len(s) /\ e \in (a + 1)..(Len(s) + 1)
    <3> HIDE DEF s
    <3>1. QED
      BY <1>3, UriFound DEF UriFrom, UriTo
  <2> HIDE DEF a, e, s
  <2>2. SubSeq(s, a, e - 1) \in Seq(Char)
    <3>1. e - 1 \in Int /\ a \in Int /\ Len(s) \in Nat /\ a >= 1 /\ e - 1 <= Len(s)
      BY <1>3, <2>1
    <3>2. \A i \in a..(e - 1) : s[i] \in Char
      BY <1>3, <3>1, ElementOfSeq
    <3>3. QED
      BY <1>3, <3>1, <3>2, SubSeqProperties
  <2>3. QED
    BY <2>2 DEF a, e
<1> HIDE DEF m, v, u, s
<1>5. CASE m = "UNKNOWN"
  <2> DEFINE e == <<>>
  <2>1. e \in Seq(Char)
    OBVIOUS
  <2>2. ParseFirstLine(s) = [parsed EXCEPT !.method = "UNKNOWN", !.uri = e, !.version = "UNKNOWN"]
    BY <1>2, <1>5
  <2> HIDE DEF e
  <2>3. Parsed(ParseFirstLine(s))
    BY <2>1, <2>2 DEF Parsed
  <2>4. QED
    BY <2>3 DEF s
<1>6. CASE m # "UNKNOWN"
  <2>1. Parsed(ParseFirstLine(s))
    BY <1>1, <1>2, <1>4, <1>6 DEF Parsed
  <2>2. QED
    BY <2>1 DEF s
<1>7. QED
  BY <1>5, <1>6

LEMMA FieldsParsed ==
    ASSUME NEW p, Parsed(p), NEW x
    PROVE  /\ Parsed([p EXCEPT !.hasBody = x])
           /\ Parsed([p EXCEPT !.upgrade = x])
           /\ Parsed([p EXCEPT !.text = x])
           /\ x \subseteq KnownTokens => Parsed([p EXCEPT !.connection = x])
BY DEF Parsed

LEMMA HeadStep == HeadInv /\ [Next]_vars => HeadInv'
<1> SUFFICES ASSUME HeadInv, [Next]_vars PROVE HeadInv'
  OBVIOUS
<1>1. Parsed(parsed)
  BY DEF HeadInv
<1>2. CASE UNCHANGED <<pc, parsed, kind>>
  BY <1>2 DEF HeadInv
<1>3. CASE UNCHANGED vars \/ Setup
  BY <1>2, <1>3 DEF vars, headVars, Setup
<1>4. ASSUME NEW h \in Heads, FirstLine(h)
      PROVE  HeadInv'
  BY <1>1, <1>4, FirstLineParsed DEF FirstLine, HeadInv
<1>5. ASSUME NEW names, NEW fields, Parsed(fields), Line(names, fields)
      PROVE  HeadInv'
  BY <1>5 DEF Line, HeadInv
<1>6. CASE ContentLengthLine
  BY <1>1, <1>5, <1>6, FieldsParsed DEF ContentLengthLine
<1>7. CASE UpgradeLine
  BY <1>1, <1>5, <1>7, FieldsParsed DEF UpgradeLine
<1>8. CASE AssignedLine
  BY <1>1, <1>5, <1>8, FieldsParsed DEF AssignedLine
<1>9. CASE OtherLine
  BY <1>1, <1>5, <1>9, FieldsParsed DEF OtherLine
<1>10. CASE NoColonLine
  BY <1>1, <1>5, <1>10 DEF NoColonLine
<1>11. CASE KnownToken
  <2> DEFINE v == Skip(rest, Space)
  <2>1. /\ v[1] \in KnownTokens
        /\ parsed' = [parsed EXCEPT !.connection = parsed.connection \cup {v[1]}]
        /\ UNCHANGED <<pc, kind>>
    BY <1>11 DEF KnownToken
  <2> HIDE DEF v
  <2>2. parsed.connection \cup {v[1]} \subseteq KnownTokens
    BY <1>1, <2>1 DEF Parsed
  <2>3. Parsed(parsed')
    BY <1>1, <2>1, <2>2, FieldsParsed
  <2>4. QED
    BY <2>1, <2>3 DEF HeadInv
<1>12. CASE ConnectionLine \/ UnknownToken \/ TokensEnd \/ BlankLine
  BY <1>12 DEF ConnectionLine, UnknownToken, TokensEnd, BlankLine, headVars, HeadInv
<1>13. CASE Dispatch
  BY <1>13 DEF Dispatch, NotFound, Upgrade, NoHandler, CallHandler, Result, HeadInv
<1>14. QED
  BY <1>3, <1>4, <1>6, <1>7, <1>8, <1>9, <1>10, <1>11, <1>12, <1>13 DEF Next, Parse

(* Whatever a client sends, a method, a version and connection flags that  *)
(* the code has names for come out.                                        *)
THEOREM TypeCorrect == Spec => []TypeOK
<1>1. Init => HeadInv
  BY DEF Init, HeadInv, Parsed
<1>2. SetupInv /\ HeadInv => TypeOK
  BY CallTable DEF SetupInv, HeadInv, Parsed, TypeOK, NotCalled
<1>3. QED
  BY <1>1, <1>2, SetupCorrect, HeadStep, PTL DEF Spec

-----------------------------------------------------------------------------
(* What RegisterRequestHandler puts into the map: the URI as it is, or     *)
(* with ".*" for its "*".                                                  *)
Literal(x) == x \in Char /\ x # Star

NoStar(p) == p \in Seq(Char) /\ \A i \in 1..Len(p) : Literal(p[i])

OneStar(p, s) ==
    /\ p \in Seq(Char)
    /\ s \in 2..Len(p)
    /\ p[s] = Star /\ p[s - 1] = Dot
    /\ \A i \in 1..Len(p) : i # s /\ i # s - 1 => Literal(p[i])

LEMMA NextPiece ==
    ASSUME NEW p \in Seq(Char)
    PROVE  /\ \A x : NoStar(p) /\ Literal(x) => NoStar(p \o <<x>>)
           /\ NoStar(p) => OneStar(p \o <<Dot, Star>>, Len(p) + 2)
           /\ \A x, s : OneStar(p, s) /\ Literal(x) => OneStar(p \o <<x>>, s)
<1>1. ASSUME NEW x, Literal(x)
      PROVE  /\ p \o <<x>> \in Seq(Char) /\ Len(p \o <<x>>) = Len(p) + 1
             /\ \A i \in 1..Len(p) : (p \o <<x>>)[i] = p[i]
             /\ (p \o <<x>>)[Len(p) + 1] = x
  <2> DEFINE o == <<x>>
  <2>1. x \in Char
    BY <1>1 DEF Literal
  <2>2. o \in Seq(Char) /\ Len(o) = 1 /\ o[1] = x
    BY <2>1
  <2> HIDE DEF o
  <2>3. Follows(Char, p \o o, p, o)
    BY <2>2, ConcatFollows
  <2>4. QED
    BY <2>2, <2>3 DEF Follows, o
<1>2. Len(p) \in Nat
  OBVIOUS
<1>3. ASSUME NEW x, NoStar(p), Literal(x)
      PROVE  NoStar(p \o <<x>>)
  <2> DEFINE q == p \o <<x>>
  <2>1. q \in Seq(Char) /\ Len(q) = Len(p) + 1 /\ (\A i \in 1..Len(p) : q[i] = p[i]) /\ q[Len(p) + 1] = x
    BY <1>1, <1>3
  <2> HIDE DEF q
  <2>2. NoStar(q)
    BY <1>2, <1>3, <2>1 DEF NoStar
  <2>3. QED
    BY <2>2 DEF q
<1>4. ASSUME NEW x, NEW s, OneStar(p, s), Literal(x)
      PROVE  OneStar(p \o <<x>>, s)
  <2> DEFINE q == p \o <<x>>
  <2>1. q \in Seq(Char) /\ Len(q) = Len(p) + 1 /\ (\A i \in 1..Len(p) : q[i] = p[i]) /\ q[Len(p) + 1] = x
    BY <1>1, <1>4
  <2> HIDE DEF q
  <2>2. s \in 2..Len(p) /\ s \in 1..Len(p) /\ s - 1 \in 1..Len(p)
    BY <1>2, <1>4 DEF OneStar
  <2>3. OneStar(q, s)
    BY <1>2, <1>4, <2>1, <2>2 DEF OneStar
  <2>4. QED
    BY <2>3 DEF q
<1>5. ASSUME NoStar(p)
      PROVE  OneStar(p \o <<Dot, Star>>, Len(p) + 2)
  <2> DEFINE o == <<Dot, Star>>
             q == p \o o
  <2>1. o \in Seq(Char) /\ Len(o) = 2 /\ o[1] = Dot /\ o[2] = Star
    BY DEF Char, Dot, Star
  <2> HIDE DEF o
  <2>2. Follows(Char, q, p, o)
    BY <2>1, ConcatFollows
  <2> HIDE DEF q
  <2>3. /\ q \in Seq(Char) /\ Len(q) = Len(p) + 2 /\ \A i \in 1..Len(p) : q[i] = p[i]
        /\ q[Len(p) + 1] = Dot /\ q[Len(p) + 2] = Star
    BY <2>1, <2>2 DEF Follows
  <2> DEFINE s == Len(p) + 2
  <2>4. s \in 2..Len(q) /\ s - 1 = Len(p) + 1
    BY <1>2, <2>3
  <2>5. \A i \in 1..Len(q) : i # s /\ i # s - 1 => i \in 1..Len(p)
    BY <1>2, <2>3
  <2>6. OneStar(q, s)
    BY <1>5, <2>3, <2>4, <2>5 DEF OneStar, NoStar
  <2>7. QED
    BY <2>6 DEF q, o
<1>6. QED
  BY <1>3, <1>4, <1>5

(* A route has at most one "*".                                            *)
LEMMA RoutePieces ==
    ASSUME NEW r \in Routes
    PROVE  /\ r.uri \in Seq(Char)
           /\ \A i \in 1..Len(r.uri) : r.uri[i] = Star \/ Literal(r.uri[i])
           /\ \A i, j \in 1..Len(r.uri) : r.uri[i] = Star /\ r.uri[j] = Star => i = j
<1> DEFINE u == r.uri
<1>1. u \in Seq(Char) /\ DOMAIN u = 1..Len(u)
  BY SetupAssumption
<1>2. \A i, j \in DOMAIN u : u[i] = Star /\ u[j] = Star => i = j
  BY SetupAssumption
<1> HIDE DEF u
<1>3. \A i \in 1..Len(u) : u[i] \in Char
  BY <1>1, ElementOfSeq
<1>4. QED
  BY <1>1, <1>2, <1>3 DEF Literal, u

LEMMA PatternShape ==
    ASSUME NEW r \in Routes
    PROVE  NoStar(Pattern(r.uri)) \/ \E s : OneStar(Pattern(r.uri), s)
<1> DEFINE u == r.uri
           N == Len(u)
           A == [i \in 1..N |-> IF u[i] = Star THEN <<Dot, Star>> ELSE <<u[i]>>]
<1>1. /\ N \in Nat /\ \A i \in 1..N : u[i] = Star \/ Literal(u[i])
      /\ \A i, j \in 1..N : u[i] = Star /\ u[j] = Star => i = j
  BY RoutePieces
<1>2. Pattern(u) = Joined(A)
  BY DEF Pattern
<1>3. Len(A) = N
  BY <1>1
<1>4. \A i \in 1..N : A[i] = IF u[i] = Star THEN <<Dot, Star>> ELSE <<u[i]>>
  OBVIOUS
<1> HIDE DEF u, N, A
<1>5. PICK f : AddsUp(A, N, f) /\ Joined(A) = f[N]
  BY <1>1, <1>3, JoinedAddsUp
<1> DEFINE Good(n) == \/ NoStar(f[n]) /\ \A i \in 1..n : u[i] # Star
                      \/ (\E s : OneStar(f[n], s)) /\ \E i \in 1..n : u[i] = Star
           T == {n \in Nat : n \in 0..N => Good(n)}
<1>6. 0 \in T
  <2>1. f[0] = <<>>
    BY <1>5 DEF AddsUp
  <2>2. NoStar(f[0])
    BY <2>1 DEF NoStar
  <2>3. QED
    BY <2>2
<1>7. ASSUME NEW n \in Nat, n \in T
      PROVE  n + 1 \in T
  <2> SUFFICES ASSUME n + 1 \in 0..N PROVE Good(n + 1)
    OBVIOUS
  <2>1. n \in 0..N /\ n + 1 \in 1..N /\ (n + 1) - 1 = n /\ \A i \in 1..n : i \in 1..N
    BY <1>1
  <2>2. Good(n)
    BY <1>7, <2>1
  <2>3. f[n + 1] = f[n] \o A[n + 1]
    <3>1. f[n + 1] = f[(n + 1) - 1] \o A[n + 1]
      BY <1>5, <2>1, Zenon DEF AddsUp
    <3>2. QED
      BY <2>1, <3>1
  <2>4. f[n] \in Seq(Char)
    BY <2>2 DEF NoStar, OneStar
  <2>5. CASE u[n + 1] = Star
    <3>1. \A i \in 1..n : u[i] # Star
      BY <1>1, <2>1, <2>5
    <3>2. NoStar(f[n])
      BY <2>2, <3>1
    <3>3. f[n + 1] = f[n] \o <<Dot, Star>>
      BY <1>4, <2>1, <2>3, <2>5
    <3>4. OneStar(f[n + 1], Len(f[n]) + 2)
      BY <2>4, <3>2, <3>3, NextPiece
    <3>5. n + 1 \in 1..(n + 1)
      OBVIOUS
    <3>6. QED
      BY <2>5, <3>4, <3>5
  <2>6. CASE u[n + 1] # Star
    <3>1. f[n + 1] = f[n] \o <<u[n + 1]>> /\ Literal(u[n + 1])
      BY <1>1, <1>4, <2>1, <2>3, <2>6
    <3>2. CASE NoStar(f[n]) /\ \A i \in 1..n : u[i] # Star
      <4>1. NoStar(f[n + 1])
        BY <2>4, <3>1, <3>2, NextPiece
      <4>2. \A i \in 1..(n + 1) : i \in 1..n \/ i = n + 1
        OBVIOUS
      <4>3. QED
        BY <2>6, <3>2, <4>1, <4>2
    <3>3. CASE (\E s : OneStar(f[n], s)) /\ \E i \in 1..n : u[i] = Star
      <4>1. \E s : OneStar(f[n + 1], s)
        BY <2>4, <3>1, <3>3, NextPiece
      <4>2. \A i \in 1..n : i \in 1..(n + 1)
        OBVIOUS
      <4>3. QED
        BY <3>3, <4>1, <4>2
    <3>4. QED
      BY <2>2, <3>2, <3>3
  <2>7. QED
    BY <2>5, <2>6
<1> HIDE DEF T
<1>8. Nat \subseteq T
  BY <1>6, <1>7, SetInduction
<1>9. Good(N)
  <2>1. N \in T /\ N \in 0..N
    BY <1>1, <1>8
  <2>2. QED
    BY <2>1 DEF T
<1>10. QED
  BY <1>2, <1>5, <1>9 DEF u

-----------------------------------------------------------------------------
(* The look-up.  What a pattern that matches says of the URI: without a    *)
(* "." of its own, it is the URI up to its wildcard.                       *)
Begun(u, p) ==
    /\ LiteralLength(p) \in Nat /\ LiteralLength(p) <= Len(u)
    /\ \A k \in 1..LiteralLength(p) : u[k] = p[k] /\ p[k] # Dot

LEMMA NoStarMatch ==
    ASSUME NEW p, NoStar(p)
    PROVE  /\ Stars(p) = {} /\ LiteralLength(p) = Len(p)
           /\ \A u : RegexMatch(u, p) /\ Dotless(p) => Begun(u, p) /\ Len(u) = Len(p)
<1>1. p \in Seq(Char) /\ Len(p) \in Nat /\ DOMAIN p = 1..Len(p)
  BY DEF NoStar
<1>2. Stars(p) = {}
  BY <1>1 DEF NoStar, Stars, Literal
<1>3. LiteralLength(p) = Len(p)
  BY <1>2 DEF LiteralLength
<1>4. ASSUME NEW u, RegexMatch(u, p), Dotless(p)
      PROVE  Begun(u, p) /\ Len(u) = Len(p)
  <2>1. Len(u) = Len(p) /\ \A j \in 1..Len(p) : Fits(u[j], p[j])
    BY <1>2, <1>4 DEF RegexMatch
  <2>2. \A j \in 1..Len(p) : p[j] # Dot
    BY <1>1, <1>2, <1>4 DEF Dotless
  <2>3. QED
    BY <1>1, <1>3, <2>1, <2>2 DEF Begun, Fits
<1>5. QED
  BY <1>2, <1>3, <1>4

LEMMA OneStarMatch ==
    ASSUME NEW p, NEW s, OneStar(p, s)
    PROVE  /\ Stars(p) # {} /\ LiteralLength(p) = s - 2
           /\ \A u \in Seq(Char) : RegexMatch(u, p) /\ Dotless(p) => Begun(u, p)
<1>1. p \in Seq(Char) /\ Len(p) \in Nat /\ DOMAIN p = 1..Len(p) /\ s \in 2..Len(p) /\ s \in 1..Len(p)
  BY DEF OneStar
<1>2. Stars(p) = {s}
  <2>1. s \in Stars(p)
    BY <1>1 DEF OneStar, Stars
  <2>2. ASSUME NEW i \in Stars(p)
        PROVE  i = s
    <3>1. i \in 1..Len(p) /\ p[i] = Star
      BY <1>1 DEF Stars
    <3>2. i # s - 1
      BY <3>1 DEF OneStar, Star, Dot
    <3>3. ~Literal(p[i])
      BY <3>1 DEF Literal
    <3>4. QED
      BY <3>1, <3>2, <3>3 DEF OneStar
  <2>3. QED
    BY <2>1, <2>2
<1>3. LiteralLength(p) = s - 2
  BY <1>2 DEF LiteralLength
<1>4. ASSUME NEW u \in Seq(Char), RegexMatch(u, p), Dotless(p)
      PROVE  Begun(u, p)
  <2>1. /\ Len(u) >= (s - 2) + (Len(p) - s)
        /\ \A j \in 1..(s - 2) : Fits(u[j], p[j])
    BY <1>2, <1>4 DEF RegexMatch
  <2>2. \A j \in 1..(s - 2) : j \in 1..Len(p) /\ j + 1 # s
    BY <1>1
  <2>3. \A j \in 1..(s - 2) : p[j] # Dot
    BY <1>1, <1>2, <1>4, <2>2 DEF Dotless
  <2>4. Len(u) \in Nat /\ s - 2 \in Nat /\ s - 2 <= Len(u)
    BY <1>1, <2>1
  <2>5. QED
    BY <1>3, <2>1, <2>3, <2>4 DEF Begun, Fits
<1>5. QED
  BY <1>2, <1>3, <1>4

(* The characters of a text are numbers.                                   *)
LEMMA TextCodes ==
    ASSUME NEW s \in Seq(Char), NEW i \in 1..Len(s)
    PROVE  s[i] \in Nat /\ s[i] \in Int
<1>1. s[i] \in Char
  BY ElementOfSeq
<1>2. \A x \in Char : x \in Nat /\ x \in Int
  BY DEF Char
<1>3. QED
  BY <1>1, <1>2

(* Which text comes first in the map is decided where two keys first       *)
(* differ; a key comes before those it begins.                             *)
LEMMA NotBefore ==
    ASSUME NEW p \in Seq(Char), NEW q \in Seq(Char),
           NEW d \in 1..Len(p), d <= Len(q) => q[d] < p[d],
           d <= Len(q) + 1,
           \A j \in 1..(d - 1) : p[j] = q[j]
    PROVE  ~TextLess(p, q)
<1>1. Len(p) \in Nat /\ Len(q) \in Nat /\ DOMAIN p = 1..Len(p) /\ DOMAIN q = 1..Len(q)
  OBVIOUS
<1>2. /\ \A i \in 1..Len(p) : p[i] \in Int
      /\ \A i \in 1..Len(q) : q[i] \in Int
  BY TextCodes
<1>3. ~(Len(p) < Len(q) /\ p = SubSeq(q, 1, Len(p)))
  <2> SUFFICES ASSUME Len(p) < Len(q), p = SubSeq(q, 1, Len(p)) PROVE FALSE
    OBVIOUS
  <2>1. d <= Len(q) /\ d \in 1..Len(q)
    BY <1>1
  <2>2. SubSeq(q, 1, Len(p))[d] = q[d]
    BY <1>1
  <2>3. QED
    BY <1>2, <2>1, <2>2
<1>4. ASSUME NEW i \in 1..Len(p), i \in 1..Len(q), \A j \in 1..(i - 1) : p[j] = q[j],
             p[i] < q[i]
      PROVE  FALSE
  <2>1. p[i] \in Int /\ q[i] \in Int /\ p[d] \in Int
    BY <1>2, <1>4
  <2>2. CASE i < d
    <3>1. p[i] = q[i]
      BY <1>1, <2>2
    <3>2. QED
      BY <1>4, <2>1, <3>1
  <2>3. CASE i = d
    BY <1>1, <1>4, <2>1, <2>3
  <2>4. CASE d < i
    <3>1. p[d] = q[d] /\ d <= Len(q)
      BY <1>1, <1>4, <2>4
    <3>2. QED
      BY <2>1, <3>1
  <2>5. QED
    BY <1>1, <2>2, <2>3, <2>4
<1>5. QED
  BY <1>1, <1>3, <1>4 DEF TextLess

Pattern1(p) == NoStar(p) \/ \E s : OneStar(p, s)

Decided(u, p, q) ==
    LET m == LiteralLength(p)
        n == LiteralLength(q)
    IN  /\ m < n => u[m + 1] > Dot
        /\ m > n => u[n + 1] < Dot
        /\ m = n => (Stars(p) # {} => Stars(q) # {})

(* Where the wildcard of w begins, a longer text t goes on as the URI.     *)
LEMMA WildcardAt ==
    ASSUME NEW u \in Seq(Char), NEW w, NEW t, Pattern1(w), Pattern1(t),
           RegexMatch(u, w), RegexMatch(u, t), Dotless(w), Dotless(t),
           LiteralLength(w) < LiteralLength(t)
    PROVE  LET d == LiteralLength(w) + 1
           IN  /\ w \in Seq(Char) /\ t \in Seq(Char)
               /\ d \in 1..Len(w) /\ d \in 1..Len(t)
               /\ w[d] = Dot /\ t[d] = u[d] /\ u[d] # Dot /\ u[d] \in Char
               /\ \A j \in 1..(d - 1) : w[j] = t[j]
<1> DEFINE n == LiteralLength(w)
           d == n + 1
<1>1. Begun(u, w) /\ Begun(u, t) /\ w \in Seq(Char) /\ t \in Seq(Char)
  BY NoStarMatch, OneStarMatch DEF Pattern1, NoStar, OneStar
<1>2. /\ n \in Nat /\ LiteralLength(t) \in Nat /\ LiteralLength(t) <= Len(u)
      /\ \A k \in 1..n : u[k] = w[k]
      /\ \A k \in 1..LiteralLength(t) : u[k] = t[k] /\ t[k] # Dot
  BY <1>1 DEF Begun
<1>3. Len(u) \in Nat /\ Len(w) \in Nat /\ Len(t) \in Nat
  BY <1>1
<1>4. d \in 1..LiteralLength(t) /\ d - 1 = n /\ \A j \in 1..n : j \in 1..LiteralLength(t)
  BY <1>2
<1>5. LiteralLength(t) <= Len(t)
  <2>1. CASE NoStar(t)
    BY <1>3, <2>1, NoStarMatch
  <2>2. ASSUME NEW s, OneStar(t, s) PROVE LiteralLength(t) <= Len(t)
    BY <1>3, <2>2, OneStarMatch DEF OneStar
  <2>3. QED
    BY <2>1, <2>2 DEF Pattern1
<1>6. d \in 1..Len(w) /\ w[d] = Dot
  <2>1. CASE NoStar(w)
    <3>1. LiteralLength(w) = Len(w) /\ Len(u) = Len(w)
      BY <2>1, NoStarMatch
    <3>2. QED
      BY <1>2, <1>3, <3>1
  <2>2. ASSUME NEW s, OneStar(w, s) PROVE d \in 1..Len(w) /\ w[d] = Dot
    <3>1. n = s - 2 /\ s \in 2..Len(w) /\ w[s - 1] = Dot
      BY <2>2, OneStarMatch DEF OneStar
    <3>2. d = s - 1
      BY <3>1
    <3>3. QED
      BY <1>3, <3>1, <3>2
  <2>3. QED
    BY <2>1, <2>2 DEF Pattern1
<1>7. t[d] = u[d] /\ u[d] # Dot
  BY <1>2, <1>4
<1>8. d \in 1..Len(t) /\ d \in 1..Len(u)
  BY <1>2, <1>3, <1>4, <1>5
<1>9. u[d] \in Char
  BY <1>8, ElementOfSeq
<1>10. \A j \in 1..(d - 1) : w[j] = t[j]
  BY <1>2, <1>4
<1>11. QED
  BY <1>1, <1>6, <1>7, <1>8, <1>9, <1>10

(* Of two patterns that match a URI the one that comes first in the map.   *)
LEMMA FirstIsDecided ==
    ASSUME NEW u \in Seq(Char), NEW p, NEW q, Pattern1(p), Pattern1(q),
           RegexMatch(u, p), RegexMatch(u, q), Dotless(p), Dotless(q), TextLess(p, q)
    PROVE  Decided(u, p, q)
<1> DEFINE m == LiteralLength(p)
           n == LiteralLength(q)
<1>1. p \in Seq(Char) /\ q \in Seq(Char) /\ Begun(u, p) /\ Begun(u, q)
  BY NoStarMatch, OneStarMatch DEF Pattern1, NoStar, OneStar
<1>2. m \in Nat /\ n \in Nat
  BY <1>1 DEF Begun
<1>3. ASSUME m < n PROVE u[m + 1] > Dot
  <2> DEFINE d == m + 1
  <2>1. /\ d \in 1..Len(p) /\ d \in 1..Len(q)
        /\ p[d] = Dot /\ q[d] = u[d] /\ u[d] # Dot /\ u[d] \in Char
        /\ \A j \in 1..(d - 1) : p[j] = q[j]
    BY <1>3, WildcardAt
  <2> HIDE DEF d
  <2>2. u[d] < Dot \/ u[d] > Dot
    <3>1. \A x \in Char : x # Dot => x < Dot \/ x > Dot
      BY DEF Char, Dot
    <3>2. QED
      BY <2>1, <3>1
  <2>3. CASE u[d] < Dot
    <3>1. q[d] < p[d] /\ d <= Len(q) + 1
      BY <1>1, <2>1, <2>3
    <3>2. ~TextLess(p, q)
      BY <1>1, <2>1, <3>1, NotBefore
    <3>3. QED
      BY <3>2
  <2>4. QED
    BY <2>2, <2>3 DEF d
<1>4. ASSUME m > n PROVE u[n + 1] < Dot
  <2> DEFINE d == n + 1
  <2>1. /\ d \in 1..Len(p) /\ d \in 1..Len(q)
        /\ q[d] = Dot /\ p[d] = u[d] /\ u[d] # Dot /\ u[d] \in Char
        /\ \A j \in 1..(d - 1) : p[j] = q[j]
    <3>1. n < m
      BY <1>2, <1>4
    <3>2. QED
      BY <3>1, WildcardAt
  <2> HIDE DEF d
  <2>2. u[d] < Dot \/ u[d] > Dot
    <3>1. \A x \in Char : x # Dot => x < Dot \/ x > Dot
      BY DEF Char, Dot
    <3>2. QED
      BY <2>1, <3>1
  <2>3. CASE u[d] > Dot
    <3>1. q[d] < p[d] /\ d <= Len(q) + 1
      BY <1>1, <2>1, <2>3 DEF Char, Dot
    <3>2. ~TextLess(p, q)
      BY <1>1, <2>1, <3>1, NotBefore
    <3>3. QED
      BY <3>2
  <2>4. QED
    BY <2>2, <2>3 DEF d
<1>5. ASSUME m = n, Stars(p) # {}, Stars(q) = {} PROVE FALSE
  <2>1. PICK s : OneStar(p, s)
    BY <1>5, NoStarMatch DEF Pattern1
  <2>2. NoStar(q)
    BY <1>5, OneStarMatch DEF Pattern1
  <2>3. n = Len(q) /\ m = s - 2 /\ s \in 2..Len(p)
    BY <2>1, <2>2, NoStarMatch, OneStarMatch DEF OneStar
  <2> DEFINE d == m + 1
  <2>4. d \in 1..Len(p) /\ d <= Len(q) + 1 /\ ~(d <= Len(q)) /\ d - 1 = m
    BY <1>1, <1>2, <1>5, <2>3
  <2>5. \A j \in 1..m : p[j] = q[j]
    BY <1>1, <1>5 DEF Begun
  <2> HIDE DEF d
  <2>6. ~TextLess(p, q)
    BY <1>1, <2>4, <2>5, NotBefore
  <2>7. QED
    BY <2>6
<1>6. QED
  BY <1>3, <1>4, <1>5 DEF Decided

(* The keys of the map are patterns of registered routes.                  *)
RoutesInv == \A p \in DOMAIN handlers : \E r \in Routes : p = Pattern(r.uri)

LEMMA HandlersStep == [Next]_vars => (\E r \in Routes : Register(r)) \/ UNCHANGED handlers
BY DEF Next, vars, setupVars, Setup, InitCalled, CallFails, CallSucceeds, FirstLine, Parse,
   ContentLengthLine, UpgradeLine, AssignedLine, OtherLine, NoColonLine, Line, ConnectionLine,
   KnownToken, UnknownToken, TokensEnd, BlankLine, Dispatch, NotFound, Upgrade, NoHandler,
   CallHandler, Result

LEMMA RoutesStep == RoutesInv /\ [Next]_vars => RoutesInv'
<1> SUFFICES ASSUME RoutesInv, [Next]_vars PROVE RoutesInv'
  OBVIOUS
<1>1. ASSUME NEW r \in Routes, Register(r)
      PROVE  RoutesInv'
  BY <1>1 DEF Register, RoutesInv
<1>2. CASE UNCHANGED handlers
  BY <1>2 DEF RoutesInv
<1>3. QED
  BY <1>1, <1>2, HandlersStep

LEMMA DecidedServes ==
    ASSUME RoutesInv, NEW u \in Seq(Char)
    PROVE  ServedInOrder(u)
<1> SUFFICES ASSUME NEW p \in FindRequestHandler(u), NEW q \in Candidates(u),
                    Dotless(p), Dotless(q)
             PROVE  Decided(u, p, q)
  BY DEF ServedInOrder, Decided
<1>1. p \in Candidates(u) /\ \A x \in Candidates(u) \ {p} : TextLess(p, x)
  BY DEF FindRequestHandler
<1>2. ASSUME NEW x \in Candidates(u)
      PROVE  RegexMatch(u, x) /\ Pattern1(x)
  BY PatternShape DEF Candidates, RoutesInv, Pattern1
<1>3. CASE p = q
  <2>1. LiteralLength(p) \in Nat
    <3>1. Begun(u, p)
      BY <1>1, <1>2, NoStarMatch, OneStarMatch DEF Pattern1
    <3>2. QED
      BY <3>1 DEF Begun
  <2>2. QED
    BY <1>3, <2>1 DEF Decided
<1>4. CASE p # q
  <2>1. TextLess(p, q)
    BY <1>1, <1>4
  <2>2. QED
    BY <1>1, <1>2, <2>1, FirstIsDecided
<1>5. QED
  BY <1>3, <1>4

(* For every set of routes with at most one "*" each, registered in any    *)
(* order, and every URI: whether the wildcard or the longer route serves a *)
(* URI that both match is decided by the one character where the wildcard  *)
(* begins, behind or before ".".                                           *)
THEOREM RouteServesHolds == Spec => []RouteServes
<1>1. Init => RoutesInv /\ HeadInv
  BY DEF Init, SetupInit, RoutesInv, HeadInv, Parsed
<1>2. RoutesInv /\ HeadInv => RouteServes
  <2> SUFFICES ASSUME RoutesInv, HeadInv PROVE ServedInOrder(parsed.uri)
    BY DEF RouteServes
  <2>1. parsed.uri \in Seq(Char)
    BY DEF HeadInv, Parsed
  <2>2. QED
    BY <2>1, DecidedServes
<1>3. QED
  BY <1>1, <1>2, RoutesStep, HeadStep, PTL DEF Spec

-----------------------------------------------------------------------------
(* base64_encode.  The four characters of the group behind byte i.         *)
Octet(src, i) == IF i <= Len(src) THEN src[i] ELSE 0

Group(src, text, g) ==
    LET i == 3 * g
        a == Octet(src, i + 1)
        b == Octet(src, i + 2)
        c == Octet(src, i + 3)
    IN  /\ text[4 * g + 1] = a \div 4
        /\ text[4 * g + 2] = (a % 4) * 16 + b \div 16
        /\ text[4 * g + 3] = IF i + 1 >= Len(src) THEN Pad ELSE (b % 16) * 4 + c \div 64
        /\ text[4 * g + 4] = IF i + 2 >= Len(src) THEN Pad ELSE c % 64

LEMMA Groups ==
    ASSUME NEW src \in Seq(0..255), NEW size \in Nat, size > ExpectedLength(Len(src)),
           NEW g \in Nat, 4 * g + 4 <= ExpectedLength(Len(src))
    PROVE  Group(src, Base64Encode(src, size), g)
<1> DEFINE n == Len(src)
           E == ExpectedLength(n)
           i == 3 * g
           sextet(k, a, b, c) == CASE k = 0 -> a \div 4
                                   [] k = 1 -> (a % 4) * 16 + b \div 16
                                   [] k = 2 -> (b % 16) * 4 + c \div 64
                                   [] k = 3 -> c % 64
           char(k, m) == IF LeftOut(k, m, n) THEN Pad
                         ELSE sextet(k, Octet(src, m + 1), Octet(src, m + 2), Octet(src, m + 3))
           text == Base64Encode(src, size)
<1>1. n \in Nat /\ E \in Nat
  BY DEF ExpectedLength
<1>2. ~(size < E + 1)
  BY <1>1
<1>3. text = [j \in 1..E |-> char((j - 1) % 4, 3 * ((j - 1) \div 4))]
  BY <1>2 DEF Base64Encode, Octet
<1>4. ASSUME NEW k \in 0..3
      PROVE  text[4 * g + 1 + k] = char(k, i)
  <2>1. 4 * g + 1 + k \in 1..E /\ ((4 * g + 1 + k) - 1) % 4 = k /\ ((4 * g + 1 + k) - 1) \div 4 = g
    BY <1>1
  <2> DEFINE j == 4 * g + 1 + k
  <2>2. j \in 1..E /\ (j - 1) % 4 = k /\ (j - 1) \div 4 = g
    BY <2>1
  <2> HIDE DEF j, char, text
  <2>3. text[j] = char((j - 1) % 4, 3 * ((j - 1) \div 4))
    BY <1>3, <2>2
  <2>4. QED
    BY <2>2, <2>3 DEF j
<1>5. /\ 4 * g + 1 + 0 = 4 * g + 1 /\ 4 * g + 1 + 1 = 4 * g + 2
      /\ 4 * g + 1 + 2 = 4 * g + 3 /\ 4 * g + 1 + 3 = 4 * g + 4
      /\ 0 \in 0..3 /\ 1 \in 0..3 /\ 2 \in 0..3 /\ 3 \in 0..3
  OBVIOUS
<1>6. /\ text[4 * g + 1] = char(0, i) /\ text[4 * g + 2] = char(1, i)
      /\ text[4 * g + 3] = char(2, i) /\ text[4 * g + 4] = char(3, i)
  <2> HIDE DEF char, text
  <2>1. QED
    BY <1>4, <1>5
<1>7. /\ ~LeftOut(0, i, n) /\ ~LeftOut(1, i, n)
      /\ LeftOut(2, i, n) <=> i + 1 >= n
      /\ LeftOut(3, i, n) <=> i + 2 >= n
  BY <1>1 DEF LeftOut
<1> HIDE DEF text, n, i
<1>8. QED
  BY <1>6, <1>7 DEF Group, text, n, i

(* A byte is put together again from the two characters it was split over. *)
Rejoined(a, b, c) ==
    LET v1 == a \div 4
        v2 == (a % 4) * 16 + b \div 16
        v3 == (b % 16) * 4 + c \div 64
        v4 == c % 64
    IN  /\ v1 * 4 + v2 \div 16 = a
        /\ (v2 % 16) * 16 + v3 \div 4 = b
        /\ (v3 % 4) * 64 + v4 = c
        /\ v3 \in 0..63 /\ v4 \in 0..63

LEMMA Bits ==
    ASSUME NEW a \in 0..255, NEW b \in 0..255, NEW c \in 0..255
    PROVE  Rejoined(a, b, c)
<1> DEFINE a1 == a \div 4
           a0 == a % 4
           b1 == b \div 16
           b0 == b % 16
           c1 == c \div 64
           c0 == c % 64
<1>1. a1 \in Nat /\ a0 \in 0..3 /\ a = 4 * a1 + a0
  OBVIOUS
<1>2. b1 \in Nat /\ b0 \in 0..15 /\ b = 16 * b1 + b0
  OBVIOUS
<1>3. c1 \in Nat /\ c0 \in 0..63 /\ c = 64 * c1 + c0
  OBVIOUS
<1> HIDE DEF a1, a0, b1, b0, c1, c0
<1>4. b1 \in 0..15 /\ c1 \in 0..3
  BY <1>2, <1>3
<1>5. (a0 * 16 + b1) \div 16 = a0 /\ (a0 * 16 + b1) % 16 = b1
  BY <1>1, <1>4
<1>6. (b0 * 4 + c1) \div 4 = b0 /\ (b0 * 4 + c1) % 4 = c1
  BY <1>2, <1>4
<1>7. a1 * 4 + (a0 * 16 + b1) \div 16 = a
  BY <1>1, <1>5
<1>8. ((a0 * 16 + b1) % 16) * 16 + (b0 * 4 + c1) \div 4 = b
  BY <1>2, <1>5, <1>6
<1>9. ((b0 * 4 + c1) % 4) * 64 + c0 = c
  BY <1>3, <1>6
<1>10. b0 * 4 + c1 \in 0..63
  BY <1>2, <1>4
<1>11. QED
  BY <1>3, <1>7, <1>8, <1>9, <1>10, Zenon DEF Rejoined, a1, a0, b1, b0, c1, c0

LEMMA OctetIsByte ==
    ASSUME NEW src \in Seq(0..255), NEW i \in Nat \ {0}
    PROVE  Octet(src, i) \in 0..255
<1>1. CASE i <= Len(src)
  <2>1. i \in 1..Len(src)
    BY <1>1
  <2>2. src[i] \in 0..255
    BY <2>1, ElementOfSeq
  <2>3. QED
    BY <1>1, <2>2 DEF Octet
<1>2. CASE ~(i <= Len(src))
  BY <1>2 DEF Octet
<1>3. QED
  BY <1>1, <1>2

LEMMA EncodeDecode ==
    ASSUME NEW src \in Seq(0..255), NEW size \in Nat, size > ExpectedLength(Len(src))
    PROVE  Decode(Base64Encode(src, size)) = src
<1> DEFINE n == Len(src)
           G == (n + 2) \div 3
           text == Base64Encode(src, size)
           m == Len(text)
           pads == IF m = 0 \/ text[m] # Pad THEN 0 ELSE IF text[m - 1] # Pad THEN 1 ELSE 2
           octet(k, g) == CASE k = 0 -> text[g + 1] * 4 + text[g + 2] \div 16
                            [] k = 1 -> (text[g + 2] % 16) * 16 + text[g + 3] \div 4
                            [] k = 2 -> (text[g + 3] % 4) * 64 + text[g + 4]
<1>1. n \in Nat /\ G \in Nat /\ ExpectedLength(n) = 4 * G /\ n <= 3 * G /\ 3 * G <= n + 2
  BY DEF ExpectedLength
<1>2. m = 4 * G
  <2>1. ~(size < ExpectedLength(n) + 1)
    BY <1>1
  <2>2. Len(text) = ExpectedLength(n)
    BY <1>1, <2>1 DEF Base64Encode
  <2>3. QED
    BY <1>1, <2>2
<1>4. ASSUME NEW g \in Nat, g < G
      PROVE  Group(src, text, g)
  <2>1. 4 * g + 4 <= ExpectedLength(n)
    BY <1>1, <1>4
  <2>2. QED
    BY <2>1, Groups
<1>5. Decode(text) = [i \in 1..(3 * (m \div 4) - pads) |-> octet((i - 1) % 3, 4 * ((i - 1) \div 3))]
  BY DEF Decode
<1> HIDE DEF text
<1>6. ASSUME NEW g \in Nat, g < G
      PROVE  /\ 3 * g + 1 <= n => octet(0, 4 * g) = src[3 * g + 1]
             /\ 3 * g + 2 <= n => octet(1, 4 * g) = src[3 * g + 2]
             /\ 3 * g + 3 <= n => octet(2, 4 * g) = src[3 * g + 3]
             /\ 3 * g + 1 >= n => text[4 * g + 3] = Pad
             /\ 3 * g + 2 >= n => text[4 * g + 4] = Pad
             /\ 3 * g + 1 < n => text[4 * g + 3] # Pad
             /\ 3 * g + 2 < n => text[4 * g + 4] # Pad
  <2> DEFINE a == Octet(src, 3 * g + 1)
             b == Octet(src, 3 * g + 2)
             c == Octet(src, 3 * g + 3)
  <2>1. a \in 0..255 /\ b \in 0..255 /\ c \in 0..255
    BY OctetIsByte
  <2>2. /\ text[4 * g + 1] = a \div 4
        /\ text[4 * g + 2] = (a % 4) * 16 + b \div 16
        /\ text[4 * g + 3] = IF 3 * g + 1 >= n THEN Pad ELSE (b % 16) * 4 + c \div 64
        /\ text[4 * g + 4] = IF 3 * g + 2 >= n THEN Pad ELSE c % 64
    BY <1>4, <1>6 DEF Group
  <2>3. /\ 3 * g + 1 <= n => a = src[3 * g + 1]
        /\ 3 * g + 2 <= n => b = src[3 * g + 2]
        /\ 3 * g + 3 <= n => c = src[3 * g + 3]
    BY DEF Octet
  <2> DEFINE v1 == a \div 4
             v2 == (a % 4) * 16 + b \div 16
             v3 == (b % 16) * 4 + c \div 64
             v4 == c % 64
  <2> HIDE DEF a, b, c
  <2>4. /\ v1 * 4 + v2 \div 16 = a
        /\ (v2 % 16) * 16 + v3 \div 4 = b
        /\ (v3 % 4) * 64 + v4 = c
        /\ v3 \in 0..63 /\ v4 \in 0..63
    <3>1. Rejoined(a, b, c)
      BY <2>1, Bits
    <3>2. QED
      BY <3>1, Zenon DEF Rejoined
  <2>5. /\ text[4 * g + 1] = v1 /\ text[4 * g + 2] = v2
        /\ text[4 * g + 3] = IF 3 * g + 1 >= n THEN Pad ELSE v3
        /\ text[4 * g + 4] = IF 3 * g + 2 >= n THEN Pad ELSE v4
    BY <2>2, Zenon
  <2> HIDE DEF v1, v2, v3, v4, text
  <2>6. /\ octet(0, 4 * g) = text[4 * g + 1] * 4 + text[4 * g + 2] \div 16
        /\ octet(1, 4 * g) = (text[4 * g + 2] % 16) * 16 + text[4 * g + 3] \div 4
        /\ octet(2, 4 * g) = (text[4 * g + 3] % 4) * 64 + text[4 * g + 4]
    OBVIOUS
  <2> HIDE DEF octet
  <2>7. octet(0, 4 * g) = a
    BY <2>4, <2>5, <2>6
  <2>8. 3 * g + 1 < n => octet(1, 4 * g) = b /\ text[4 * g + 3] = v3
    <3>1. 3 * g + 1 < n => ~(3 * g + 1 >= n)
      BY <1>1
    <3>2. QED
      BY <2>4, <2>5, <2>6, <3>1
  <2>9. 3 * g + 2 < n => octet(2, 4 * g) = c /\ text[4 * g + 4] = v4
    <3>1. 3 * g + 2 < n => ~(3 * g + 1 >= n) /\ ~(3 * g + 2 >= n)
      BY <1>1
    <3>2. QED
      BY <2>4, <2>5, <2>6, <3>1
  <2>10. v3 # Pad /\ v4 # Pad
    BY <2>4 DEF Pad
  <2> HIDE DEF n
  <2>11. /\ 3 * g + 2 <= n => 3 * g + 1 < n
         /\ 3 * g + 3 <= n => 3 * g + 2 < n
    BY <1>1
  <2>12. QED
    BY <2>3, <2>5, <2>7, <2>8, <2>9, <2>10, <2>11
<1>7. 3 * (m \div 4) - pads = n
  <2>1. CASE n = 0
    BY <1>1, <1>2, <2>1
  <2>2. CASE n # 0
    <3> DEFINE g == G - 1
    <3>1. g \in Nat /\ g < G /\ m = 4 * g + 4 /\ m - 1 = 4 * g + 3 /\ m # 0 /\ m \div 4 = G
      BY <1>1, <1>2, <2>2
    <3> HIDE DEF m, g
    <3>2. /\ 3 * g + 1 >= n => text[m - 1] = Pad
          /\ 3 * g + 2 >= n => text[m] = Pad
          /\ 3 * g + 1 < n => text[m - 1] # Pad
          /\ 3 * g + 2 < n => text[m] # Pad
      BY <1>6, <3>1
    <3>3. CASE n = 3 * g + 3
      BY <1>1, <3>1, <3>2, <3>3
    <3>4. CASE n = 3 * g + 2
      BY <1>1, <3>1, <3>2, <3>4
    <3>5. CASE n = 3 * g + 1
      BY <1>1, <3>1, <3>2, <3>5
    <3>6. QED
      BY <1>1, <3>1, <3>3, <3>4, <3>5
  <2>3. QED
    BY <2>1, <2>2
<1>8. ASSUME NEW i \in 1..n
      PROVE  octet((i - 1) % 3, 4 * ((i - 1) \div 3)) = src[i]
  <2> DEFINE g == (i - 1) \div 3
             k == (i - 1) % 3
  <2>1. g \in Nat /\ k \in 0..2 /\ i = 3 * g + 1 + k /\ g < G
    <3>1. PICK x \in Nat : x = i - 1
      BY <1>1
    <3>2. x \div 3 \in Nat /\ x % 3 \in 0..2 /\ x = 3 * (x \div 3) + (x % 3)
      OBVIOUS
    <3>3. g \in Nat /\ k \in 0..2 /\ x = 3 * g + k
      BY <3>1, <3>2, Zenon
    <3> HIDE DEF g, k, G, n
    <3>4. QED
      BY <1>1, <3>1, <3>3
  <2> HIDE DEF octet, g, k
  <2>2. octet(k, 4 * g) = src[i]
    <3>1. CASE k = 0
      BY <1>6, <2>1, <3>1
    <3>2. CASE k = 1
      BY <1>6, <2>1, <3>2
    <3>3. CASE k = 2
      BY <1>6, <2>1, <3>3
    <3>4. QED
      BY <2>1, <3>1, <3>2, <3>3
  <2>3. QED
    BY <2>2 DEF g, k
<1>9. Decode(text) = [i \in 1..n |-> octet((i - 1) % 3, 4 * ((i - 1) \div 3))]
  <2> HIDE DEF octet, pads, m
  <2>1. QED
    BY <1>5, <1>7
<1>10. src = [i \in 1..n |-> src[i]]
  OBVIOUS
<1>11. Decode(text) = src
  <2> HIDE DEF octet
  <2>1. QED
    BY <1>8, <1>9, <1>10
<1>12. QED
  BY <1>11 DEF text

(* The accept key is the encoding of a digest SHA1 can return.             *)
AcceptInv ==
    /\ digest \in Digests
    /\ kind = "upgrade" => accept = GetWsAcceptByKey

LEMMA AcceptStep == AcceptInv /\ [Next]_vars => AcceptInv'
<1> SUFFICES ASSUME AcceptInv, [Next]_vars PROVE AcceptInv'
  OBVIOUS
<1>1. CASE NotFound
  BY <1>1 DEF NotFound, Result, AcceptInv, GetWsAcceptByKey
<1>2. ASSUME NEW p, Upgrade(p)
      PROVE  AcceptInv'
  BY <1>2 DEF Upgrade, Result, AcceptInv, GetWsAcceptByKey
<1>3. ASSUME NEW p, NoHandler(p)
      PROVE  AcceptInv'
  BY <1>3 DEF NoHandler, Result, AcceptInv, GetWsAcceptByKey
<1>4. ASSUME NEW p, NEW code \in StatusCodes, CallHandler(p, code)
      PROVE  AcceptInv'
  BY <1>4 DEF CallHandler, Result, AcceptInv, GetWsAcceptByKey
<1>5. CASE UNCHANGED <<kind, digest, accept>>
  BY <1>5 DEF AcceptInv, GetWsAcceptByKey
<1>6. CASE ~Dispatch
  BY <1>5, <1>6 DEF Next, vars, headVars, Setup, FirstLine, Parse, ContentLengthLine, UpgradeLine,
     AssignedLine, OtherLine, NoColonLine, Line, ConnectionLine, KnownToken, UnknownToken,
     TokensEnd, BlankLine
<1>7. QED
  BY <1>1, <1>2, <1>3, <1>4, <1>6 DEF Dispatch

(* Every accept key decodes to its digest, whatever the 20 bytes are: the  *)
(* buffer GetWsAcceptByKey gives base64_encode is large enough for the     *)
(* text, its padding and the final 0.                                      *)
THEOREM AcceptDecodesHolds == Spec => []AcceptDecodes
<1>1. Init => AcceptInv
  BY DEF Init, AcceptInv
<1>2. AcceptInv => AcceptDecodes
  <2> SUFFICES ASSUME AcceptInv, kind = "upgrade" PROVE Decode(accept) = digest
    BY DEF AcceptDecodes
  <2>1. digest \in Seq(0..255) /\ Len(digest) = 20
    BY HeadAssumption DEF AcceptInv
  <2>2. ExpectedLength(20) = 28
    BY DEF ExpectedLength
  <2>3. 2 * Len(digest) \in Nat /\ 2 * Len(digest) > ExpectedLength(Len(digest))
    BY <2>1, <2>2
  <2>4. QED
    BY <2>1, <2>3, EncodeDecode DEF AcceptInv, GetWsAcceptByKey
<1>3. QED
  BY <1>1, <1>2, AcceptStep, PTL DEF Spec

-----------------------------------------------------------------------------
(* The order of the map is total: of the patterns that match there is a    *)
(* first one, so that a request finds a handler whenever one matches.      *)
Texts(p) == p \in Seq(Char)

(* p comes before q, which is decided at position d.                       *)
BeforeAt(p, q, d) ==
    /\ d \in 1..(Len(p) + 1) /\ d <= Len(q)
    /\ \A j \in 1..(d - 1) : p[j] = q[j]
    /\ d <= Len(p) => p[d] < q[d]

LEMMA BeforeAtLess ==
    ASSUME NEW p, NEW q, Texts(p), Texts(q)
    PROVE  TextLess(p, q) <=> \E d \in Nat : BeforeAt(p, q, d)
<1>1. /\ p \in Seq(Char) /\ q \in Seq(Char) /\ Len(p) \in Nat /\ Len(q) \in Nat
      /\ DOMAIN p = 1..Len(p) /\ DOMAIN q = 1..Len(q)
  BY DEF Texts
<1>2. Len(p) < Len(q) =>
        (p = SubSeq(q, 1, Len(p)) <=> \A j \in 1..Len(p) : p[j] = q[j])
  <2> SUFFICES ASSUME Len(p) < Len(q)
               PROVE  p = SubSeq(q, 1, Len(p)) <=> \A j \in 1..Len(p) : p[j] = q[j]
    OBVIOUS
  <2>1. \A i \in 1..Len(p) : q[i] \in Char
    BY <1>1, ElementOfSeq
  <2>2. /\ SubSeq(q, 1, Len(p)) \in Seq(Char) /\ Len(SubSeq(q, 1, Len(p))) = Len(p)
        /\ \A i \in 1..Len(p) : SubSeq(q, 1, Len(p))[i] = q[i]
    BY <1>1, <2>1, SubSeqProperties
  <2>3. QED
    BY <1>1, <2>2, SeqEqual
<1>3. ASSUME TextLess(p, q) PROVE \E d \in Nat : BeforeAt(p, q, d)
  <2>1. CASE Len(p) < Len(q) /\ p = SubSeq(q, 1, Len(p))
    <3> DEFINE d == Len(p) + 1
    <3>1. d \in Nat /\ d \in 1..(Len(p) + 1) /\ d <= Len(q) /\ ~(d <= Len(p)) /\ d - 1 = Len(p)
      BY <1>1, <2>1
    <3>2. BeforeAt(p, q, d)
      BY <1>2, <2>1, <3>1 DEF BeforeAt
    <3>3. QED
      BY <3>1, <3>2
  <2>2. ASSUME NEW i \in DOMAIN p \cap DOMAIN q, \A j \in 1..(i - 1) : p[j] = q[j],
               p[i] < q[i]
        PROVE  \E d \in Nat : BeforeAt(p, q, d)
    <3>1. i \in Nat /\ i \in 1..(Len(p) + 1) /\ i <= Len(q)
      BY <1>1
    <3>2. BeforeAt(p, q, i)
      BY <2>2, <3>1 DEF BeforeAt
    <3>3. QED
      BY <3>1, <3>2
  <2>3. QED
    BY <1>3, <2>1, <2>2 DEF TextLess
<1>4. ASSUME NEW d \in Nat, BeforeAt(p, q, d) PROVE TextLess(p, q)
  <2>1. CASE d <= Len(p)
    <3>1. d \in DOMAIN p \cap DOMAIN q
      BY <1>1, <1>4, <2>1 DEF BeforeAt
    <3>2. QED
      BY <1>4, <2>1, <3>1 DEF BeforeAt, TextLess
  <2>2. CASE ~(d <= Len(p))
    <3>1. d = Len(p) + 1 /\ Len(p) < Len(q) /\ d - 1 = Len(p)
      BY <1>1, <1>4, <2>2 DEF BeforeAt
    <3>2. QED
      BY <1>2, <1>4, <3>1 DEF BeforeAt, TextLess
  <2>3. QED
    BY <2>1, <2>2
<1>5. QED
  BY <1>3, <1>4

LEMMA LessIsTransitive ==
    ASSUME NEW p, NEW q, NEW r, Texts(p), Texts(q), Texts(r), TextLess(p, q), TextLess(q, r)
    PROVE  TextLess(p, r)
<1>1. PICK d \in Nat : BeforeAt(p, q, d)
  BY BeforeAtLess
<1>2. PICK e \in Nat : BeforeAt(q, r, e)
  BY BeforeAtLess
<1>3. Len(p) \in Nat /\ Len(q) \in Nat /\ Len(r) \in Nat
  BY DEF Texts
<1>4. /\ \A i \in 1..Len(p) : p[i] \in Nat
      /\ \A i \in 1..Len(q) : q[i] \in Nat
      /\ \A i \in 1..Len(r) : r[i] \in Nat
  BY TextCodes DEF Texts
<1>5. CASE d < e
  <2>1. d <= Len(r) /\ r[d] = q[d] /\ \A j \in 1..(d - 1) : p[j] = r[j]
    BY <1>1, <1>2, <1>3, <1>5 DEF BeforeAt
  <2>2. BeforeAt(p, r, d)
    BY <1>1, <2>1 DEF BeforeAt
  <2>3. QED
    BY <2>2, BeforeAtLess
<1>6. CASE d = e
  <2>1. d \in 1..Len(q) /\ d \in 1..Len(r) /\ q[d] < r[d]
    BY <1>1, <1>2, <1>3, <1>6 DEF BeforeAt
  <2>2. \A j \in 1..(d - 1) : p[j] = r[j]
    BY <1>1, <1>2, <1>6 DEF BeforeAt
  <2>3. d <= Len(p) => p[d] < r[d]
    <3> SUFFICES ASSUME d <= Len(p) PROVE p[d] < r[d]
      OBVIOUS
    <3>1. d \in 1..Len(p) /\ p[d] < q[d]
      BY <1>1, <1>3 DEF BeforeAt
    <3>2. p[d] \in Nat /\ q[d] \in Nat /\ r[d] \in Nat
      BY <1>4, <2>1, <3>1
    <3>3. QED
      BY <2>1, <3>1, <3>2
  <2>4. BeforeAt(p, r, d)
    BY <1>1, <1>3, <2>1, <2>2, <2>3 DEF BeforeAt
  <2>5. QED
    BY <2>4, BeforeAtLess
<1>7. CASE e < d
  <2>1. e \in 1..Len(p) /\ e \in 1..Len(q) /\ e <= Len(r) /\ e \in 1..(d - 1)
    BY <1>1, <1>2, <1>3, <1>7 DEF BeforeAt
  <2>2. p[e] = q[e] /\ q[e] < r[e]
    BY <1>1, <1>2, <2>1 DEF BeforeAt
  <2>3. ASSUME NEW j \in 1..(e - 1) PROVE p[j] = r[j]
    <3>1. j \in 1..(d - 1)
      BY <1>7
    <3>2. QED
      BY <1>1, <1>2, <3>1 DEF BeforeAt
  <2>4. BeforeAt(p, r, e)
    BY <1>3, <2>1, <2>2, <2>3 DEF BeforeAt
  <2>5. QED
    BY <2>4, BeforeAtLess
<1>8. QED
  BY <1>5, <1>6, <1>7

LEMMA LessIsTotal ==
    ASSUME NEW p, NEW q, Texts(p), Texts(q), p # q
    PROVE  TextLess(p, q) \/ TextLess(q, p)
<1> DEFINE both(i) == i <= Len(p) /\ i <= Len(q)
           D == {i \in Nat : i >= 1 /\ (both(i) => p[i] # q[i])}
<1>1. Len(p) \in Nat /\ Len(q) \in Nat /\ p \in Seq(Char) /\ q \in Seq(Char)
  BY DEF Texts
<1>2. Len(p) + 1 \in D
  BY <1>1
<1>3. PICK d \in D : \A i \in D : d <= i
  BY <1>2, LeastNumber
<1>4. \A j \in 1..(d - 1) : both(j) /\ p[j] = q[j]
  <2>1. ASSUME NEW j \in 1..(d - 1) PROVE both(j) /\ p[j] = q[j]
    <3>1. j \in Nat /\ j >= 1 /\ ~(d <= j)
      BY <1>3
    <3>2. QED
      BY <1>3, <3>1
  <2>2. QED
    BY <2>1
<1>5. d \in Nat /\ d >= 1 /\ (both(d) => p[d] # q[d])
  OBVIOUS
<1> HIDE DEF D
<1>6. d <= Len(p) + 1 /\ d <= Len(q) + 1
  <2>1. d = 1 \/ d - 1 \in 1..(d - 1)
    BY <1>5
  <2>2. d = 1 \/ (d - 1 <= Len(p) /\ d - 1 <= Len(q))
    BY <1>4, <2>1
  <2>3. QED
    BY <1>1, <1>5, <2>2
<1>7. CASE both(d)
  <2>1. d \in 1..Len(p) /\ d \in 1..Len(q)
    BY <1>1, <1>5, <1>7
  <2>2. p[d] \in Nat /\ q[d] \in Nat
    BY <2>1, TextCodes DEF Texts
  <2>3. p[d] # q[d] /\ p[d] \in Nat /\ q[d] \in Nat
    BY <1>5, <1>7, <2>2
  <2>4. CASE p[d] < q[d]
    <3>1. BeforeAt(p, q, d)
      BY <1>1, <1>4, <1>5, <1>6, <1>7, <2>4 DEF BeforeAt
    <3>2. QED
      BY <1>5, <3>1, BeforeAtLess
  <2>5. CASE q[d] < p[d]
    <3>1. BeforeAt(q, p, d)
      BY <1>1, <1>4, <1>5, <1>6, <1>7, <2>5 DEF BeforeAt
    <3>2. QED
      BY <1>5, <3>1, BeforeAtLess
  <2>6. QED
    BY <2>3, <2>4, <2>5
<1>8. CASE ~(d <= Len(p)) /\ d <= Len(q)
  <2>1. BeforeAt(p, q, d)
    BY <1>1, <1>4, <1>5, <1>6, <1>8 DEF BeforeAt
  <2>2. QED
    BY <1>5, <2>1, BeforeAtLess
<1>9. CASE d <= Len(p) /\ ~(d <= Len(q))
  <2>1. BeforeAt(q, p, d)
    BY <1>1, <1>4, <1>5, <1>6, <1>9 DEF BeforeAt
  <2>2. QED
    BY <1>5, <2>1, BeforeAtLess
<1>10. CASE ~(d <= Len(p)) /\ ~(d <= Len(q))
  <2>1. Len(p) = Len(q) /\ Len(p) = d - 1
    BY <1>1, <1>5, <1>6, <1>10
  <2>2. p = q
    BY <1>1, <1>4, <2>1, SeqEqual
  <2>3. QED
    BY <2>2
<1>11. QED
  BY <1>7, <1>8, <1>9, <1>10

IsFirst(p, S) == p \in S /\ \A q \in S \ {p} : TextLess(p, q)

FirstsInv ==
    /\ RoutesInv
    /\ \A S \in SUBSET DOMAIN handlers : S # {} => \E p : IsFirst(p, S)

LEMMA KeysAreTexts ==
    ASSUME NEW r \in Routes
    PROVE  Texts(Pattern(r.uri))
BY PatternShape DEF Texts, NoStar, OneStar

(* With one pattern more there is still a first one.                       *)
LEMMA OneMore ==
    ASSUME NEW D, NEW t, Texts(t), \A p \in D : Texts(p),
           \A S \in SUBSET D : S # {} => \E p : IsFirst(p, S),
           NEW S \in SUBSET (D \cup {t}), S # {}
    PROVE  \E p : IsFirst(p, S)
<1> DEFINE R == S \ {t}
<1>1. CASE t \notin S
  <2>1. S \in SUBSET D
    BY <1>1
  <2>2. QED
    BY <2>1
<1>2. CASE R = {}
  <2>1. S = {t}
    BY <1>2
  <2>2. IsFirst(t, S)
    BY <2>1 DEF IsFirst
  <2>3. QED
    BY <2>2
<1>3. CASE t \in S /\ R # {}
  <2>1. R \in SUBSET D
    OBVIOUS
  <2>2. PICK p : IsFirst(p, R)
    BY <1>3, <2>1
  <2>3. p \in R /\ p \in S /\ p # t /\ Texts(p) /\ \A q \in R \ {p} : TextLess(p, q)
    BY <2>1, <2>2 DEF IsFirst
  <2>4. CASE TextLess(p, t)
    <3>1. IsFirst(p, S)
      BY <2>3, <2>4 DEF IsFirst
    <3>2. QED
      BY <3>1
  <2>5. CASE TextLess(t, p)
    <3>1. ASSUME NEW q \in S \ {t} PROVE TextLess(t, q)
      <4>1. CASE q = p
        BY <2>5, <4>1
      <4>2. CASE q # p
        <5>1. TextLess(p, q) /\ Texts(q)
          BY <2>1, <2>3, <4>2
        <5>2. QED
          BY <2>3, <2>5, <5>1, LessIsTransitive
      <4>3. QED
        BY <4>1, <4>2
    <3>2. IsFirst(t, S)
      BY <1>3, <3>1 DEF IsFirst
    <3>3. QED
      BY <3>2
  <2>6. QED
    BY <2>3, <2>4, <2>5, LessIsTotal
<1>4. QED
  BY <1>1, <1>2, <1>3

LEMMA FirstsStep == FirstsInv /\ [Next]_vars => FirstsInv'
<1> SUFFICES ASSUME FirstsInv, [Next]_vars PROVE FirstsInv'
  OBVIOUS
<1>1. RoutesInv'
  BY RoutesStep DEF FirstsInv
<1>2. ASSUME NEW r \in Routes, Register(r)
      PROVE  FirstsInv'
  <2> DEFINE D == DOMAIN handlers
             t == Pattern(r.uri)
  <2>1. DOMAIN handlers' = D \cup {t}
    BY <1>2 DEF Register
  <2>2. Texts(t) /\ \A p \in D : Texts(p)
    BY KeysAreTexts DEF FirstsInv, RoutesInv
  <2>3. \A S \in SUBSET D : S # {} => \E p : IsFirst(p, S)
    BY DEF FirstsInv
  <2> HIDE DEF D, t
  <2>4. \A S \in SUBSET (D \cup {t}) : S # {} => \E p : IsFirst(p, S)
    BY <2>2, <2>3, OneMore
  <2>5. QED
    BY <1>1, <2>1, <2>4 DEF FirstsInv
<1>3. CASE UNCHANGED handlers
  BY <1>1, <1>3 DEF FirstsInv
<1>4. QED
  BY <1>2, <1>3, HandlersStep

LEMMA FindsWhatMatches ==
    ASSUME FirstsInv, NEW u, FindRequestHandler(u) = {}
    PROVE  Candidates(u) = {}
<1> SUFFICES ASSUME Candidates(u) # {} PROVE FALSE
  OBVIOUS
<1>1. Candidates(u) \in SUBSET DOMAIN handlers
  BY DEF Candidates
<1>2. PICK p : IsFirst(p, Candidates(u))
  BY <1>1 DEF FirstsInv
<1>3. p \in FindRequestHandler(u)
  BY <1>2 DEF IsFirst, FindRequestHandler
<1>4. QED
  BY <1>3

-----------------------------------------------------------------------------
(* The token loop of the Connection header.  Piece is what a value is made *)
(* of: the pieces of a line and what the parser leaves of the first one.   *)
Piece == STRING \cup {Other}

Suffix(v, q) == SubSeq(v, q + 1, Len(v))

LEMMA SuffixProperties ==
    ASSUME NEW v \in Seq(Piece), NEW q \in 0..Len(v)
    PROVE  /\ Suffix(v, q) \in Seq(Piece) /\ Len(Suffix(v, q)) = Len(v) - q
           /\ \A i \in 1..(Len(v) - q) : Suffix(v, q)[i] = v[q + i]
           /\ Suffix(v, q) = <<>> <=> q = Len(v)
<1>1. Len(v) \in Nat
  OBVIOUS
<1>2. ASSUME NEW i \in (q + 1)..Len(v) PROVE v[i] \in Piece
  <2>1. i \in 1..Len(v)
    BY <1>1
  <2>2. QED
    BY <2>1, ElementOfSeq
<1> DEFINE a == q + 1
           s == SubSeq(v, a, Len(v))
<1>3. a \in Int /\ Len(v) \in Int /\ (IF a <= Len(v) THEN Len(v) - a + 1 ELSE 0) = Len(v) - q
  BY <1>1
<1>4. \A i \in a..Len(v) : v[i] \in Piece
  BY <1>2
<1> HIDE DEF a
<1>5. /\ s \in Seq(Piece) /\ Len(s) = Len(v) - q
      /\ \A i \in 1..(Len(v) - q) : s[i] = v[a + i - 1]
  BY <1>3, <1>4, SubSeqProperties
<1>6. Suffix(v, q) = s
  BY DEF Suffix, a
<1>7. \A i \in 1..(Len(v) - q) : a + i - 1 = q + i
  BY <1>1 DEF a
<1> HIDE DEF s
<1>8. s = <<>> <=> Len(s) = 0
  BY <1>5, EmptySeq
<1>9. Len(v) - q = 0 <=> q = Len(v)
  BY <1>1
<1>10. QED
  BY <1>5, <1>6, <1>7, <1>8, <1>9

LEMMA SuffixOfSuffix ==
    ASSUME NEW v \in Seq(Piece), NEW q \in 0..Len(v), NEW n \in 0..(Len(v) - q)
    PROVE  Suffix(Suffix(v, q), n) = Suffix(v, q + n)
<1> DEFINE s == Suffix(v, q)
           t == Suffix(v, q + n)
           u == Suffix(s, n)
<1>1. Len(v) \in Nat /\ q + n \in 0..Len(v)
  OBVIOUS
<1>2. s \in Seq(Piece) /\ Len(s) = Len(v) - q /\ \A i \in 1..(Len(v) - q) : s[i] = v[q + i]
  BY SuffixProperties
<1>3. t \in Seq(Piece) /\ Len(t) = Len(v) - (q + n)
      /\ \A i \in 1..(Len(v) - (q + n)) : t[i] = v[(q + n) + i]
  <2> DEFINE k == q + n
  <2>1. k \in 0..Len(v)
    BY <1>1
  <2> HIDE DEF k
  <2>2. /\ Suffix(v, k) \in Seq(Piece) /\ Len(Suffix(v, k)) = Len(v) - k
        /\ \A i \in 1..(Len(v) - k) : Suffix(v, k)[i] = v[k + i]
    BY <2>1, SuffixProperties
  <2>3. QED
    BY <2>2 DEF k
<1> HIDE DEF s, t
<1>4. n \in 0..Len(s)
  BY <1>2
<1>5. u \in Seq(Piece) /\ Len(u) = Len(s) - n /\ \A i \in 1..(Len(s) - n) : u[i] = s[n + i]
  BY <1>2, <1>4, SuffixProperties
<1> HIDE DEF u
<1>6. Len(u) = Len(t)
  BY <1>1, <1>2, <1>3, <1>5
<1>7. ASSUME NEW i \in 1..Len(u) PROVE u[i] = t[i]
  <2>1. i \in 1..(Len(s) - n) /\ n + i \in 1..(Len(v) - q) /\ i \in 1..(Len(v) - (q + n))
        /\ q + (n + i) = (q + n) + i
    BY <1>1, <1>2, <1>5
  <2>2. QED
    BY <1>2, <1>3, <1>5, <2>1
<1>8. u = t
  BY <1>3, <1>5, <1>6, <1>7, SeqEqual
<1>9. QED
  BY <1>8 DEF s, t, u

(* Skip drops the spaces in front, and no more.                            *)
SkipsTo(v, piece, n) ==
    /\ n \in 0..Len(v)
    /\ \A i \in 1..n : v[i] = piece
    /\ n < Len(v) => v[n + 1] # piece
    /\ Skip(v, piece) = Suffix(v, n)

LEMMA SkipFinds ==
    ASSUME NEW v \in Seq(Piece), NEW piece
    PROVE  \E n \in Nat : SkipsTo(v, piece, n)
<1> DEFINE Good(n) == (\A i \in 1..n : v[i] = piece) /\ (n < Len(v) => v[n + 1] # piece)
           D == {n \in Nat : n < Len(v) => v[n + 1] # piece}
           c == CHOOSE n \in 0..Len(v) : Good(n)
<1>1. Len(v) \in Nat
  OBVIOUS
<1>2. Len(v) \in D
  BY <1>1
<1>3. PICK d \in D : \A i \in D : d <= i
  BY <1>2, LeastNumber
<1>4. d \in 0..Len(v) /\ Good(d)
  <2>1. d \in 0..Len(v)
    BY <1>1, <1>2, <1>3
  <2>2. ASSUME NEW i \in 1..d PROVE v[i] = piece
    <3>1. i - 1 \in Nat /\ ~(d <= i - 1) /\ (i - 1) + 1 = i
      BY <2>1
    <3>2. i - 1 \notin D
      BY <1>3, <3>1
    <3>3. QED
      BY <3>1, <3>2
  <2>3. QED
    BY <2>1, <2>2
<1>5. c \in 0..Len(v) /\ Good(c)
  <2> HIDE DEF Good
  <2>1. QED
    BY <1>4
<1>6. Skip(v, piece) = Suffix(v, c)
  BY DEF Skip, Suffix
<1> HIDE DEF c
<1>7. SkipsTo(v, piece, c)
  BY <1>5, <1>6 DEF SkipsTo
<1>8. QED
  BY <1>1, <1>5, <1>7

(* BehindComma goes on behind the first comma, or at the end.              *)
FirstComma(v, c) ==
    /\ c \in 0..Len(v)
    /\ BehindComma(v) = Suffix(v, c)
    /\ c # Len(v) => c \in 1..Len(v) /\ v[c] = Comma
    /\ \A i \in 1..Len(v) : i < c => v[i] # Comma

LEMMA CommaFound ==
    ASSUME NEW v \in Seq(Piece)
    PROVE  \E c \in Nat : FirstComma(v, c)
<1> DEFINE C == {i \in DOMAIN v : v[i] = Comma}
           b == CHOOSE i \in C : \A j \in C : i <= j
<1>1. Len(v) \in Nat /\ DOMAIN v = 1..Len(v)
  OBVIOUS
<1>2. CASE C = {}
  <2>1. BehindComma(v) = <<>>
    BY <1>2 DEF BehindComma
  <2>2. Suffix(v, Len(v)) = <<>>
    <3>1. Len(v) \in 0..Len(v)
      BY <1>1
    <3>2. QED
      BY <3>1, SuffixProperties
  <2>3. \A i \in 1..Len(v) : v[i] # Comma
    BY <1>1, <1>2
  <2>4. FirstComma(v, Len(v))
    BY <1>1, <2>1, <2>2, <2>3 DEF FirstComma
  <2>5. QED
    BY <1>1, <2>4
<1>3. CASE C # {}
  <2>1. C \in SUBSET Nat
    BY <1>1
  <2>2. \E i \in C : \A j \in C : i <= j
    BY <1>3, <2>1, LeastNumber
  <2>3. b \in C /\ \A j \in C : b <= j
    BY <2>2
  <2>4. BehindComma(v) = Suffix(v, b)
    BY <1>3 DEF BehindComma, Suffix
  <2> HIDE DEF b
  <2>5. b \in 1..Len(v) /\ v[b] = Comma
    BY <1>1, <2>3
  <2>6. \A i \in 1..Len(v) : i < b => v[i] # Comma
    <3>1. ASSUME NEW i \in 1..Len(v), i < b PROVE v[i] # Comma
      <4>1. ~(b <= i)
        BY <1>1, <2>5, <3>1
      <4>2. i \notin C
        BY <2>3, <4>1
      <4>3. QED
        BY <1>1, <4>2
    <3>2. QED
      BY <3>1
  <2>7. FirstComma(v, b)
    <3>1. b \in 0..Len(v)
      BY <1>1, <2>5
    <3>2. QED
      BY <2>4, <2>5, <2>6, <3>1 DEF FirstComma
  <2>8. QED
    BY <1>1, <2>5, <2>7
<1>4. QED
  BY <1>2, <1>3

(* A token may begin behind position q of a value: there are only spaces   *)
(* since its start or since a comma.                                       *)
Opens(v, q) == \E j \in 0..q : (j = 0 \/ v[j] = Comma) /\ \A k \in (j + 1)..q : v[k] = Space

ListedAt(v, i) == i \in 1..Len(v) /\ v[i] \notin {Space, Comma} /\ Opens(v, i - 1)

(* Where the loop may stand, and whether it has met upgrade by then.       *)
AtToken(v, q) == q \in 0..Len(v) /\ (q = Len(v) \/ Opens(v, q))
AskedTo(v, q) == \E i \in 1..q : ListedAt(v, i) /\ v[i] = "upgrade"

LEMMA ListedIs ==
    ASSUME NEW v \in Seq(Piece), NEW t
    PROVE  t \in Listed(v) <=> \E i \in 1..Len(v) : ListedAt(v, i) /\ v[i] = t
<1>1. DOMAIN v = 1..Len(v)
  OBVIOUS
<1>2. \A i : ListedAt(v, i) <=> i \in Elements(v)
  BY <1>1 DEF ListedAt, Opens, Elements
<1>3. \A i \in Elements(v) : i \in 1..Len(v)
  BY <1>1 DEF Elements
<1>4. QED
  BY <1>2, <1>3, Zenon DEF Listed

(* Positions q + 1 to q + n of the value are spaces.                       *)
Spaces(v, q, n) == \A i \in 1..Len(v) : q < i /\ i <= q + n => v[i] = Space

LEMMA SpacesListNothing ==
    ASSUME NEW v \in Seq(Piece), NEW q \in 0..Len(v), NEW n \in 0..(Len(v) - q),
           AtToken(v, q), Spaces(v, q, n)
    PROVE  AtToken(v, q + n) /\ (AskedTo(v, q + n) <=> AskedTo(v, q))
<1>1. Len(v) \in Nat /\ q + n \in 0..Len(v)
  OBVIOUS
<1>2. AtToken(v, q + n)
  <2>1. CASE q = Len(v)
    <3>1. q + n = q
      BY <1>1, <2>1
    <3>2. QED
      BY <3>1
  <2>2. CASE q # Len(v)
    <3>1. PICK j \in 0..q : (j = 0 \/ v[j] = Comma) /\ \A k \in (j + 1)..q : v[k] = Space
      BY <2>2 DEF AtToken, Opens
    <3>2. ASSUME NEW k \in (j + 1)..(q + n) PROVE v[k] = Space
      <4>1. CASE k <= q
        BY <3>1, <4>1
      <4>2. CASE q < k
        <5>1. k \in 1..Len(v) /\ k <= q + n
          BY <1>1, <3>1
        <5>2. QED
          BY <4>2, <5>1 DEF Spaces
      <4>3. QED
        BY <4>1, <4>2
    <3>3. j \in 0..(q + n)
      BY <3>1
    <3>4. Opens(v, q + n)
      BY <3>1, <3>2, <3>3 DEF Opens
    <3>5. QED
      BY <1>1, <3>4 DEF AtToken
  <2>3. QED
    BY <2>1, <2>2
<1>3. ASSUME AskedTo(v, q) PROVE AskedTo(v, q + n)
  <2>1. PICK i \in 1..q : ListedAt(v, i) /\ v[i] = "upgrade"
    BY <1>3 DEF AskedTo
  <2>2. i \in 1..(q + n)
    OBVIOUS
  <2>3. QED
    BY <2>1, <2>2 DEF AskedTo
<1>4. ASSUME AskedTo(v, q + n) PROVE AskedTo(v, q)
  <2>1. PICK i \in 1..(q + n) : ListedAt(v, i) /\ v[i] = "upgrade"
    BY <1>4 DEF AskedTo
  <2>2. i \in 1..Len(v) /\ v[i] # Space
    BY <2>1 DEF ListedAt
  <2>3. ~(q < i)
    BY <1>1, <2>2 DEF Spaces
  <2>4. i \in 1..q
    BY <2>3
  <2>5. QED
    BY <2>1, <2>4 DEF AskedTo
<1>5. QED
  BY <1>2, <1>3, <1>4

(* The token at p + 1 is listed, and nothing else up to the next comma at  *)
(* p + c, or up to the end.                                                *)
Takes(v, p, c) ==
    /\ p \in 0..(Len(v) - 1) /\ c \in 1..(Len(v) - p)
    /\ v[p + 1] \notin {Space, Comma}
    /\ \A i \in 1..Len(v) : p < i /\ i < p + c => v[i] # Comma
    /\ p + c # Len(v) => v[p + c] = Comma

LEMMA TokenListed ==
    ASSUME NEW v \in Seq(Piece), NEW p, NEW c, AtToken(v, p), Takes(v, p, c)
    PROVE  /\ AtToken(v, p + c)
           /\ AskedTo(v, p + c) <=> AskedTo(v, p) \/ v[p + 1] = "upgrade"
<1> USE DEF Takes
<1>1. /\ Len(v) \in Nat /\ p \in Nat /\ c \in Nat /\ p + c \in 0..Len(v)
      /\ p + 1 \in 1..(p + c) /\ p + 1 \in 1..Len(v) /\ p # Len(v) /\ (p + 1) - 1 = p
  OBVIOUS
<1>2. ListedAt(v, p + 1)
  <2>1. Opens(v, p)
    BY <1>1 DEF AtToken
  <2>2. QED
    BY <1>1, <2>1 DEF ListedAt
<1>3. AtToken(v, p + c)
  <2>1. CASE p + c = Len(v)
    BY <1>1, <2>1 DEF AtToken
  <2>2. CASE p + c # Len(v)
    <3> DEFINE e == p + c
    <3>1. v[e] = Comma /\ e \in 0..Len(v)
      BY <1>1, <2>2
    <3>2. e \in 0..e /\ \A k \in (e + 1)..e : v[k] = Space
      BY <1>1
    <3> HIDE DEF e
    <3>3. AtToken(v, e)
      BY <3>1, <3>2 DEF AtToken, Opens
    <3>4. QED
      BY <3>3 DEF e
  <2>3. QED
    BY <2>1, <2>2
<1>4. ASSUME AskedTo(v, p) \/ v[p + 1] = "upgrade" PROVE AskedTo(v, p + c)
  <2>1. CASE v[p + 1] = "upgrade"
    BY <1>1, <1>2, <2>1 DEF AskedTo
  <2>2. CASE AskedTo(v, p)
    <3>1. PICK i \in 1..p : ListedAt(v, i) /\ v[i] = "upgrade"
      BY <2>2 DEF AskedTo
    <3>2. i \in 1..(p + c)
      BY <1>1
    <3>3. QED
      BY <3>1, <3>2 DEF AskedTo
  <2>3. QED
    BY <1>4, <2>1, <2>2
<1>5. ASSUME AskedTo(v, p + c) PROVE AskedTo(v, p) \/ v[p + 1] = "upgrade"
  <2>1. PICK i \in 1..(p + c) : ListedAt(v, i) /\ v[i] = "upgrade"
    BY <1>5 DEF AskedTo
  <2>2. i \in 1..Len(v)
    BY <2>1 DEF ListedAt
  <2>3. CASE i <= p
    <3>1. i \in 1..p
      BY <1>1, <2>3
    <3>2. QED
      BY <2>1, <3>1 DEF AskedTo
  <2>4. CASE i = p + 1
    BY <2>1, <2>4
  <2>5. CASE i > p + 1
    <3>1. PICK j \in 0..(i - 1) :
            (j = 0 \/ v[j] = Comma) /\ \A k \in (j + 1)..(i - 1) : v[k] = Space
      BY <2>1 DEF ListedAt, Opens
    <3>2. CASE j <= p
      <4>1. p + 1 \in (j + 1)..(i - 1)
        BY <1>1, <2>2, <2>5, <3>1, <3>2
      <4>2. QED
        BY <3>1, <4>1
    <3>3. CASE p < j
      <4>1. j \in 1..Len(v) /\ j < p + c /\ j # 0
        BY <1>1, <2>1, <2>2, <3>1, <3>3
      <4>2. QED
        BY <3>1, <3>3, <4>1
    <3>4. QED
      BY <1>1, <3>1, <3>2, <3>3
  <2>6. QED
    BY <1>1, <2>2, <2>3, <2>4, <2>5
<1>6. QED
  BY <1>3, <1>4, <1>5

(* One turn of the loop: the spaces in front of the token ...              *)
Skipped(v, q, p) ==
    /\ AtToken(v, p)
    /\ Skip(Suffix(v, q), Space) = Suffix(v, p)
    /\ AskedTo(v, p) <=> AskedTo(v, q)
    /\ p < Len(v) => v[p + 1] # Space

LEMMA TurnSkips ==
    ASSUME NEW v \in Seq(Piece), NEW q, AtToken(v, q)
    PROVE  \E p \in Nat : Skipped(v, q, p)
<1> DEFINE s == Suffix(v, q)
<1>1. q \in 0..Len(v) /\ Len(v) \in Nat
  BY DEF AtToken
<1>2. /\ s \in Seq(Piece) /\ Len(s) = Len(v) - q
      /\ \A i \in 1..(Len(v) - q) : s[i] = v[q + i]
  BY <1>1, SuffixProperties
<1> HIDE DEF s
<1>3. PICK n \in Nat : SkipsTo(s, Space, n)
  BY <1>2, SkipFinds
<1>4. n \in 0..(Len(v) - q)
  BY <1>2, <1>3 DEF SkipsTo
<1>5. Suffix(s, n) = Suffix(v, q + n)
  BY <1>1, <1>4, SuffixOfSuffix DEF s
<1>6. Skip(s, Space) = Suffix(v, q + n)
  BY <1>3, <1>5 DEF SkipsTo
<1>7. Spaces(v, q, n)
  <2>1. ASSUME NEW i \in 1..Len(v), q < i, i <= q + n PROVE v[i] = Space
    <3>1. i - q \in 1..n /\ i - q \in 1..(Len(v) - q) /\ q + (i - q) = i
      BY <1>1, <1>4, <2>1
    <3>2. s[i - q] = Space
      BY <1>3, <3>1 DEF SkipsTo
    <3>3. s[i - q] = v[q + (i - q)]
      BY <1>2, <3>1
    <3>4. QED
      BY <3>1, <3>2, <3>3
  <2>2. QED
    BY <2>1 DEF Spaces
<1>8. AtToken(v, q + n) /\ (AskedTo(v, q + n) <=> AskedTo(v, q))
  BY <1>1, <1>4, <1>7, SpacesListNothing
<1>9. ASSUME q + n < Len(v) PROVE v[(q + n) + 1] # Space
  <2>1. n < Len(s) /\ n + 1 \in 1..(Len(v) - q) /\ q + (n + 1) = (q + n) + 1
    BY <1>1, <1>2, <1>4, <1>9
  <2>2. s[n + 1] # Space
    BY <1>3, <2>1 DEF SkipsTo
  <2>3. s[n + 1] = v[q + (n + 1)]
    BY <1>2, <2>1
  <2>4. QED
    BY <2>1, <2>2, <2>3
<1> DEFINE p == q + n
<1>10. p \in Nat
  BY <1>1
<1>11. Skipped(v, q, p)
  BY <1>6, <1>8, <1>9 DEF Skipped, s
<1> HIDE DEF p
<1>12. QED
  BY <1>10, <1>11

(* ... and then the token with all that follows up to the comma.           *)
Passed(v, p, e) ==
    /\ AtToken(v, e)
    /\ BehindComma(Suffix(v, p)) = Suffix(v, e)
    /\ AskedTo(v, e) <=> AskedTo(v, p) \/ v[p + 1] = "upgrade"

LEMMA TurnPasses ==
    ASSUME NEW v \in Seq(Piece), NEW p, AtToken(v, p), p < Len(v),
           v[p + 1] \notin {Space, Comma}
    PROVE  \E e \in Nat : Passed(v, p, e)
<1> DEFINE s == Suffix(v, p)
<1>1. p \in 0..Len(v) /\ Len(v) \in Nat
  BY DEF AtToken
<1>2. /\ s \in Seq(Piece) /\ Len(s) = Len(v) - p
      /\ \A i \in 1..(Len(v) - p) : s[i] = v[p + i]
  BY <1>1, SuffixProperties
<1> HIDE DEF s
<1>3. PICK c \in Nat : FirstComma(s, c)
  BY <1>2, CommaFound
<1>4. c \in 0..(Len(v) - p) /\ c # 0
  BY <1>1, <1>2, <1>3 DEF FirstComma
<1>5. Suffix(s, c) = Suffix(v, p + c)
  BY <1>1, <1>4, SuffixOfSuffix DEF s
<1>6. BehindComma(s) = Suffix(v, p + c)
  BY <1>3, <1>5 DEF FirstComma
<1>7. Takes(v, p, c)
  <2>1. ASSUME NEW i \in 1..Len(v), p < i, i < p + c PROVE v[i] # Comma
    <3>1. i - p < c /\ i - p \in 1..(Len(v) - p) /\ p + (i - p) = i
      BY <1>1, <1>4, <2>1
    <3>2. s[i - p] # Comma
      BY <1>2, <1>3, <3>1 DEF FirstComma
    <3>3. s[i - p] = v[p + (i - p)]
      BY <1>2, <3>1
    <3>4. QED
      BY <3>1, <3>2, <3>3
  <2>2. ASSUME p + c # Len(v) PROVE v[p + c] = Comma
    <3>1. c # Len(s) /\ c \in 1..(Len(v) - p)
      BY <1>1, <1>2, <1>4, <2>2
    <3>2. s[c] = Comma
      BY <1>3, <3>1 DEF FirstComma
    <3>3. QED
      BY <1>2, <3>1, <3>2
  <2>3. p \in 0..(Len(v) - 1) /\ c \in 1..(Len(v) - p)
    BY <1>1, <1>4
  <2>4. QED
    BY <2>1, <2>2, <2>3 DEF Takes
<1>8. AtToken(v, p + c) /\ (AskedTo(v, p + c) <=> AskedTo(v, p) \/ v[p + 1] = "upgrade")
  BY <1>7, TokenListed
<1> DEFINE e == p + c
<1>9. e \in Nat
  BY <1>1
<1>10. Passed(v, p, e)
  BY <1>6, <1>8 DEF Passed, s
<1> HIDE DEF e
<1>11. QED
  BY <1>9, <1>10

(* The loop starts behind the first character of the value.                *)
LEMMA ShortenedIs ==
    ASSUME NEW v \in Seq(Piece), v # <<>>
    PROVE  /\ Shortened(v) \in Seq(Piece)
           /\ Shortened(v) = Suffix(Shortened(v), 0)
           /\ AtToken(Shortened(v), 0) /\ ~AskedTo(Shortened(v), 0)
<1> DEFINE w == Shortened(v)
<1>1. Tail(v) \in Seq(Piece) /\ <<Other>> \in Seq(Piece)
  <2>1. Tail(v) \in Seq(Piece)
    OBVIOUS
  <2>2. Other \in Piece
    BY DEF Piece
  <2>3. <<Other>> \in Seq(Piece)
    BY <2>2
  <2>4. QED
    BY <2>1, <2>3
<1>2. w \in Seq(Piece)
  BY <1>1, ConcatProperties DEF Shortened
<1> HIDE DEF w
<1>3. Suffix(w, 0) = w
  <2>1. Suffix(w, 0) = SubSeq(w, 1, Len(w))
    BY DEF Suffix
  <2>2. QED
    BY <1>2, <2>1, SubSeqFull
<1>4. AtToken(w, 0)
  <2>1. Opens(w, 0)
    <3>1. 0 \in 0..0 /\ (0 + 1)..0 = {}
      OBVIOUS
    <3>2. QED
      BY <3>1 DEF Opens
  <2>2. Len(w) \in Nat
    BY <1>2
  <2>3. QED
    BY <2>1, <2>2 DEF AtToken
<1>5. ~AskedTo(w, 0)
  <2>1. 1..0 = {}
    OBVIOUS
  <2>2. QED
    BY <2>1 DEF AskedTo
<1>6. QED
  BY <1>2, <1>3, <1>4, <1>5 DEF w

-----------------------------------------------------------------------------
(* The header lines.  HeaderLine is the type HeadAssumption gives them.    *)
HeaderLine == [name : STRING, value : Seq(STRING)]

(* lf is what is left of the lines ls, and Behind of them are behind it.   *)
Behind(ls, lf) == Len(ls) - Len(lf)

Remains(ls, lf) ==
    /\ ls \in Seq(HeaderLine) /\ lf \in Seq(HeaderLine) /\ Len(lf) <= Len(ls)
    /\ \A i \in 1..Len(lf) : lf[i] = ls[Behind(ls, lf) + i]

LEMMA LineTaken ==
    ASSUME NEW ls, NEW lf, Remains(ls, lf), lf # <<>>
    PROVE  /\ Remains(ls, Tail(lf)) /\ Behind(ls, Tail(lf)) = Behind(ls, lf) + 1
           /\ Behind(ls, lf) \in Nat /\ Behind(ls, lf) + 1 \in 1..Len(ls)
           /\ lf[1] = ls[Behind(ls, lf) + 1]
<1> USE DEF Remains
<1>1. Len(ls) \in Nat /\ Len(lf) \in Nat /\ Len(lf) # 0
  BY EmptySeq
<1> DEFINE t == Tail(lf)
<1>2. t \in Seq(HeaderLine) /\ Len(t) = Len(lf) - 1 /\ \A i \in 1..(Len(lf) - 1) : t[i] = lf[i + 1]
  BY <1>1
<1> HIDE DEF t
<1>3. Behind(ls, t) = Behind(ls, lf) + 1 /\ Behind(ls, lf) \in Nat /\ Behind(ls, lf) + 1 \in 1..Len(ls)
  BY <1>1, <1>2 DEF Behind
<1>4. 1 \in 1..Len(lf)
  BY <1>1
<1>5. ASSUME NEW i \in 1..Len(t) PROVE t[i] = ls[Behind(ls, t) + i]
  <2>1. i + 1 \in 1..Len(lf) /\ i \in 1..(Len(lf) - 1) /\ Behind(ls, t) + i = Behind(ls, lf) + (i + 1)
    BY <1>1, <1>2, <1>3
  <2>2. QED
    BY <1>2, <2>1
<1>6. Remains(ls, t)
  BY <1>1, <1>2, <1>5
<1>7. QED
  BY <1>3, <1>4, <1>6 DEF t

(* What the first k lines say.                                             *)
AskedIn(l) == l.name = "connection" /\ AskedTo(Shortened(l.value), Len(Shortened(l.value)))
NamedIn(l) == l.name = "upgrade" /\ "websocket" \in PieceSet(Shortened(l.value))
AskedBy(ls, k) == \E i \in 1..k : AskedIn(ls[i])
NamedBy(ls, k) == \E i \in 1..k : NamedIn(ls[i])

KeyName == {KeyNames[m] : m \in DOMAIN KeyNames}
FirstOf(ls, i, n) == ls[i].name = n /\ \A j \in 1..(i - 1) : ls[j].name # n

TextsAfter(ls, k, t) ==
    \A n \in KeyName : /\ n \in DOMAIN t <=> \E i \in 1..k : ls[i].name = n
                       /\ \A i \in 1..k : FirstOf(ls, i, n) => t[n] = Text(ls[i].value)

LEMMA SaysMore ==
    ASSUME NEW ls, NEW k \in Nat
    PROVE  /\ AskedBy(ls, k + 1) <=> AskedBy(ls, k) \/ AskedIn(ls[k + 1])
           /\ NamedBy(ls, k + 1) <=> NamedBy(ls, k) \/ NamedIn(ls[k + 1])
<1>1. \A i : i \in 1..(k + 1) <=> i \in 1..k \/ i = k + 1
  OBVIOUS
<1>2. QED
  BY <1>1, Zenon DEF AskedBy, NamedBy

(* A line adds a text under its own name, if there is none yet.            *)
TextStep(t, l, t2) ==
    \A n \in KeyName :
      IF n = l.name /\ n \notin DOMAIN t
      THEN n \in DOMAIN t2 /\ t2[n] = Text(l.value)
      ELSE (n \in DOMAIN t2 <=> n \in DOMAIN t) /\ (n \in DOMAIN t => t2[n] = t[n])

LEMMA TextsGrow ==
    ASSUME NEW ls, NEW k \in Nat, NEW t, NEW t2, TextsAfter(ls, k, t), TextStep(t, ls[k + 1], t2)
    PROVE  TextsAfter(ls, k + 1, t2)
<1>1. /\ \A i : i \in 1..(k + 1) <=> i \in 1..k \/ i = k + 1
      /\ (k + 1) - 1 = k
  OBVIOUS
<1> SUFFICES ASSUME NEW n \in KeyName
             PROVE  /\ n \in DOMAIN t2 <=> \E i \in 1..(k + 1) : ls[i].name = n
                    /\ \A i \in 1..(k + 1) : FirstOf(ls, i, n) => t2[n] = Text(ls[i].value)
  BY DEF TextsAfter
<1> DEFINE In(d) == \E i \in 1..d : ls[i].name = n
<1>2. /\ n \in DOMAIN t <=> In(k)
      /\ \A i \in 1..k : FirstOf(ls, i, n) => t[n] = Text(ls[i].value)
  BY DEF TextsAfter
<1>3. In(k + 1) <=> In(k) \/ ls[k + 1].name = n
  BY <1>1, Zenon
<1>4. FirstOf(ls, k + 1, n) <=> ls[k + 1].name = n /\ ~In(k)
  BY <1>1 DEF FirstOf
<1>5. ASSUME NEW i \in 1..k, FirstOf(ls, i, n) PROVE In(k)
  BY <1>5 DEF FirstOf
<1> HIDE DEF In
<1>6. CASE n = ls[k + 1].name /\ n \notin DOMAIN t
  <2>1. n \in DOMAIN t2 /\ t2[n] = Text(ls[k + 1].value)
    BY <1>6 DEF TextStep
  <2>2. ~In(k)
    BY <1>2, <1>6
  <2>3. ASSUME NEW i \in 1..(k + 1), FirstOf(ls, i, n) PROVE t2[n] = Text(ls[i].value)
    <3>1. i = k + 1
      BY <1>1, <1>5, <2>2, <2>3
    <3>2. QED
      BY <2>1, <3>1
  <2>4. n \in DOMAIN t2 <=> In(k + 1)
    BY <1>3, <1>6, <2>1
  <2>5. QED
    BY <2>3, <2>4 DEF In
<1>7. CASE ~(n = ls[k + 1].name /\ n \notin DOMAIN t)
  <2>1. (n \in DOMAIN t2 <=> n \in DOMAIN t) /\ (n \in DOMAIN t => t2[n] = t[n])
    BY <1>7 DEF TextStep
  <2>2. ~FirstOf(ls, k + 1, n)
    BY <1>2, <1>4, <1>7
  <2>3. ASSUME NEW i \in 1..(k + 1), FirstOf(ls, i, n) PROVE t2[n] = Text(ls[i].value)
    <3>1. i \in 1..k
      BY <1>1, <2>2, <2>3
    <3>2. n \in DOMAIN t
      BY <1>2, <1>5, <2>3, <3>1
    <3>3. QED
      BY <1>2, <2>1, <2>3, <3>1, <3>2
  <2>4. n \in DOMAIN t2 <=> In(k + 1)
    BY <1>2, <1>3, <1>7, <2>1
  <2>5. QED
    BY <2>3, <2>4 DEF In
<1>8. QED
  BY <1>6, <1>7

(* The parser p after the lines that are behind lf, the flags of the       *)
(* Connection headers aside.                                               *)
VersionOf(s) ==
    IF ParseHttpMethod(s) = "UNKNOWN" THEN "UNKNOWN" ELSE ParseHttpVersion(s, VersionAt(s))

Reached(h, lf, p) ==
    /\ h \in Heads
    /\ Remains(h.lines, lf)
    /\ p.method = ParseHttpMethod(h.first)
    /\ p.version = VersionOf(h.first)
    /\ TextsAfter(h.lines, Behind(h.lines, lf), p.text)
    /\ p.upgrade <=> NamedBy(h.lines, Behind(h.lines, lf))

LineFields(p, l, p2) ==
    /\ p2.method = p.method /\ p2.version = p.version
    /\ TextStep(p.text, l, p2.text)
    /\ p2.upgrade <=> p.upgrade \/ NamedIn(l)

LEMMA LineInHead ==
    ASSUME NEW h \in Heads, NEW i \in 1..Len(h.lines)
    PROVE  /\ h.lines[i].value \in Seq(Piece) /\ h.lines[i].value # <<>>
           /\ h.lines[i].name \in STRING
<1>1. h.lines \in Seq(HeaderLine)
  BY HeadAssumption DEF HeaderLine
<1> DEFINE ls == h.lines
<1>2. ls \in Seq(HeaderLine) /\ i \in DOMAIN ls
  BY <1>1
<1>3. ls[i].value # <<>>
  BY <1>2, HeadAssumption
<1> HIDE DEF ls
<1>5. ls[i] \in HeaderLine
  BY <1>2, ElementOfSeq
<1>6. ls[i].value \in Seq(Piece) /\ ls[i].name \in STRING
  <2> DEFINE v == ls[i].value
  <2>1. v \in Seq(STRING) /\ ls[i].name \in STRING
    BY <1>5 DEF HeaderLine
  <2> HIDE DEF v
  <2>2. v \in Seq(Piece)
    <3>1. STRING \subseteq Piece
      BY DEF Piece
    <3>2. v = [j \in 1..Len(v) |-> v[j]] /\ Len(v) \in Nat
      BY <2>1
    <3>3. ASSUME NEW j \in 1..Len(v) PROVE v[j] \in Piece
      <4>1. v[j] \in STRING
        BY <2>1, ElementOfSeq
      <4>2. QED
        BY <3>1, <4>1
    <3>4. v \in [1..Len(v) -> Piece]
      BY <3>2, <3>3
    <3>5. QED
      BY <3>2, <3>4, SeqDef
  <2>3. QED
    BY <2>1, <2>2 DEF v
<1>7. QED
  BY <1>3, <1>6 DEF ls

LEMMA LineReached ==
    ASSUME NEW h, NEW lf, NEW p, NEW p2, Reached(h, lf, p), lf # <<>>, LineFields(p, lf[1], p2)
    PROVE  Reached(h, Tail(lf), p2)
<1> DEFINE ls == h.lines
           k == Behind(h.lines, lf)
<1>1. /\ Remains(ls, Tail(lf)) /\ Behind(ls, Tail(lf)) = k + 1
      /\ k \in Nat /\ k + 1 \in 1..Len(ls) /\ lf[1] = ls[k + 1]
  BY LineTaken DEF Reached
<1>3. /\ TextsAfter(ls, k, p.text)
      /\ p.upgrade <=> NamedBy(ls, k)
      /\ h \in Heads /\ p.method = ParseHttpMethod(h.first)
      /\ p.version = VersionOf(h.first)
  BY DEF Reached
<1> HIDE DEF ls, k
<1>4. TextsAfter(ls, k + 1, p2.text)
  BY <1>1, <1>3, TextsGrow DEF LineFields
<1>5. p2.upgrade <=> NamedBy(ls, k + 1)
  BY <1>1, <1>3, SaysMore DEF LineFields
<1>6. p2.method = p.method /\ p2.version = p.version
  BY DEF LineFields
<1>7. QED
  BY <1>1, <1>3, <1>4, <1>5, <1>6 DEF Reached, ls

(* What each kind of line leaves in the parser.                            *)
LEMMA NamesApart == "connection" \notin KeyName /\ \A n \in KeyName : n \notin Special
<1>1. KeyName = {"Sec-WebSocket-Key", "Sec-WebSocket-Key1", "Sec-WebSocket-Key2"}
  <2>1. /\ DOMAIN KeyNames = {1, 2, 3} /\ KeyNames[1] = "Sec-WebSocket-Key"
        /\ KeyNames[2] = "Sec-WebSocket-Key1" /\ KeyNames[3] = "Sec-WebSocket-Key2"
    BY DEF KeyNames
  <2>2. QED
    BY <2>1 DEF KeyName
<1>2. QED
  BY <1>1 DEF Special, NoName

LEMMA KeptFields ==
    ASSUME NEW p, NEW l, NEW p2, l.name \notin KeyName, l.name # "upgrade",
           p2.method = p.method, p2.version = p.version, p2.upgrade = p.upgrade,
           \A n \in KeyName : /\ n \in DOMAIN p2.text <=> n \in DOMAIN p.text
                              /\ n \in DOMAIN p.text => p2.text[n] = p.text[n]
    PROVE  LineFields(p, l, p2)
<1>1. TextStep(p.text, l, p2.text)
  BY DEF TextStep
<1>2. ~NamedIn(l)
  BY DEF NamedIn
<1>3. QED
  BY <1>1, <1>2 DEF LineFields

LEMMA UpgradeFields ==
    ASSUME NEW p, Parsed(p), NEW l, l.name = "upgrade"
    PROVE  LineFields(p, l, [p EXCEPT !.upgrade = @ \/ "websocket" \in PieceSet(Shortened(l.value))])
<1> DEFINE x == p.upgrade \/ "websocket" \in PieceSet(Shortened(l.value))
           p2 == [p EXCEPT !.upgrade = x]
<1>1. /\ p2.method = p.method /\ p2.version = p.version /\ p2.text = p.text
      /\ p2.upgrade = x
  BY DEF Parsed
<1>2. TextStep(p.text, l, p2.text)
  BY <1>1, NamesApart DEF TextStep, Special
<1> HIDE DEF p2
<1>3. p2.upgrade <=> p.upgrade \/ NamedIn(l)
  BY <1>1 DEF NamedIn
<1>4. LineFields(p, l, p2)
  BY <1>1, <1>2, <1>3 DEF LineFields
<1>5. QED
  BY <1>4 DEF p2

LEMMA OtherFields ==
    ASSUME Parsed(parsed), NEW l, l.name \notin Special
    PROVE  LineFields(parsed, l, IF l.name \in DOMAIN parsed.text THEN parsed
                                 ELSE [parsed EXCEPT !.text = WithText(l.name, Text(l.value))])
<1>1. ~NamedIn(l)
  BY DEF NamedIn, Special
<1>2. CASE l.name \in DOMAIN parsed.text
  <2>1. TextStep(parsed.text, l, parsed.text)
    BY <1>2 DEF TextStep
  <2>2. QED
    BY <1>1, <1>2, <2>1 DEF LineFields
<1>3. CASE l.name \notin DOMAIN parsed.text
  <2> DEFINE t == WithText(l.name, Text(l.value))
             p2 == [parsed EXCEPT !.text = t]
  <2>1. DOMAIN t = DOMAIN parsed.text \cup {l.name}
        /\ \A n \in DOMAIN t : t[n] = IF n = l.name THEN Text(l.value) ELSE parsed.text[n]
    BY DEF WithText
  <2> HIDE DEF t
  <2>2. /\ p2.method = parsed.method /\ p2.version = parsed.version /\ p2.text = t
        /\ p2.upgrade = parsed.upgrade
    BY DEF Parsed
  <2> HIDE DEF p2
  <2>3. TextStep(parsed.text, l, t)
    BY <1>3, <2>1 DEF TextStep
  <2>4. LineFields(parsed, l, p2)
    BY <1>1, <2>2, <2>3 DEF LineFields
  <2>5. QED
    BY <1>3, <2>4 DEF p2, t
<1>4. QED
  BY <1>2, <1>3

(* The flags of the Connection headers, with the line the loop is in: r is *)
(* what it has before it.                                                  *)
InLoop(ls, k, flags, r, q) ==
    /\ k \in 1..Len(ls) /\ ls[k].name = "connection"
    /\ AtToken(Shortened(ls[k].value), q) /\ r = Suffix(Shortened(ls[k].value), q)
    /\ "upgrade" \in flags <=> AskedBy(ls, k - 1) \/ AskedTo(Shortened(ls[k].value), q)

Flagged(ls, k, flags, r, c) ==
    IF c = "tokens" THEN \E q \in Nat : InLoop(ls, k, flags, r, q)
                    ELSE "upgrade" \in flags <=> AskedBy(ls, k)

FlagsReached(h, lf, flags, r, c) ==
    Flagged(h.lines, Behind(h.lines, lf), flags, r, c)

LinesInv ==
    /\ pc = "setup" => parsed.connection = {} /\ parsed.upgrade = FALSE /\ DOMAIN parsed.text = {}
    /\ pc # "setup" => Reached(head, left, parsed)
                       /\ FlagsReached(head, left, parsed.connection, rest, pc)
    /\ pc \in {"dispatch", "done"} => left = <<>>

LEMMA FirstLineReached ==
    ASSUME LinesInv, Parsed(parsed), NEW h \in Heads, FirstLine(h)
    PROVE  LinesInv'
<1> DEFINE ls == h.lines
           p2 == ParseFirstLine(h.first)
<1>1. /\ pc' = "lines" /\ head' = h /\ left' = ls /\ parsed' = p2
      /\ parsed.connection = {} /\ parsed.upgrade = FALSE /\ DOMAIN parsed.text = {}
  BY DEF FirstLine, LinesInv
<1>2. /\ p2.connection = {} /\ p2.upgrade = FALSE /\ DOMAIN p2.text = {}
      /\ p2.method = ParseHttpMethod(h.first)
      /\ p2.version = VersionOf(h.first)
  <2> DEFINE m == ParseHttpMethod(h.first)
             v == ParseHttpVersion(h.first, VersionAt(h.first))
             u == SubSeq(h.first, UriAt(h.first), UriEnd(h.first) - 1)
             e == <<>>
  <2>1. p2 = IF m = "UNKNOWN"
             THEN [parsed EXCEPT !.method = "UNKNOWN", !.uri = e, !.version = "UNKNOWN"]
             ELSE [parsed EXCEPT !.method = m, !.uri = u, !.version = v]
    BY DEF ParseFirstLine
  <2> HIDE DEF m, v, u, e, p2
  <2>2. /\ p2.connection = parsed.connection /\ p2.upgrade = parsed.upgrade
        /\ p2.text = parsed.text /\ p2.method = m
        /\ p2.version = IF m = "UNKNOWN" THEN "UNKNOWN" ELSE v
    BY <2>1 DEF Parsed
  <2>3. QED
    BY <1>1, <2>2 DEF m, v, VersionOf
<1> HIDE DEF p2
<1>3. ls \in Seq(HeaderLine)
  BY HeadAssumption DEF HeaderLine
<1> HIDE DEF ls
<1>4. Len(ls) \in Nat /\ Behind(ls, ls) = 0 /\ \A i \in 1..Len(ls) : 0 + i = i
  BY <1>3 DEF Behind
<1>5. Remains(ls, ls)
  BY <1>3, <1>4 DEF Remains
<1>6. TextsAfter(ls, 0, p2.text) /\ ~NamedBy(ls, 0) /\ ~AskedBy(ls, 0)
  <2>1. 1..0 = {}
    OBVIOUS
  <2>2. QED
    BY <1>2, <2>1 DEF TextsAfter, NamedBy, AskedBy
<1>7. Reached(h, ls, p2)
  BY <1>2, <1>4, <1>5, <1>6 DEF Reached, ls
<1>8. \A r : FlagsReached(h, ls, p2.connection, r, "lines")
  BY <1>2, <1>4, <1>6 DEF FlagsReached, Flagged, ls
<1>9. QED
  BY <1>1, <1>7, <1>8 DEF LinesInv

LEMMA LineStep ==
    ASSUME LinesInv, NEW names, NEW fields, Line(names, fields), left[1].name # "connection",
           LineFields(parsed, left[1], fields), fields.connection = parsed.connection
    PROVE  LinesInv'
<1>1. /\ pc = "lines" /\ pc' = "lines" /\ head' = head /\ left' = Tail(left) /\ parsed' = fields
      /\ left # <<>>
  BY DEF Line
<1>2. Reached(head, left, parsed) /\ FlagsReached(head, left, parsed.connection, rest, "lines")
  BY <1>1 DEF LinesInv
<1>3. Reached(head, Tail(left), fields)
  BY <1>1, <1>2, LineReached
<1> DEFINE ls == head.lines
           k == Behind(ls, left)
<1>4. Behind(ls, Tail(left)) = k + 1 /\ k \in Nat /\ left[1] = ls[k + 1]
  BY <1>1, <1>2, LineTaken DEF Reached
<1> HIDE DEF k
<1>5. AskedBy(ls, k + 1) <=> AskedBy(ls, k)
  BY <1>4, SaysMore DEF AskedIn
<1>6. \A r : FlagsReached(head, Tail(left), fields.connection, r, "lines")
  BY <1>2, <1>4, <1>5 DEF FlagsReached, Flagged, k
<1>7. QED
  BY <1>1, <1>3, <1>6 DEF LinesInv

LEMMA ConnectionStep ==
    ASSUME LinesInv, ConnectionLine
    PROVE  LinesInv'
<1>1. /\ pc = "lines" /\ pc' = "tokens" /\ head' = head /\ left' = Tail(left) /\ parsed' = parsed
      /\ left # <<>> /\ left[1].name = "connection" /\ rest' = Shortened(left[1].value)
  BY DEF ConnectionLine, Value
<1>2. Reached(head, left, parsed) /\ FlagsReached(head, left, parsed.connection, rest, "lines")
  BY <1>1 DEF LinesInv
<1>3. LineFields(parsed, left[1], parsed)
  BY <1>1, NamesApart, KeptFields
<1>4. Reached(head, Tail(left), parsed)
  BY <1>1, <1>2, <1>3, LineReached
<1> DEFINE ls == head.lines
           k == Behind(ls, left)
           v == ls[k + 1].value
<1>5. Behind(ls, Tail(left)) = k + 1 /\ k \in Nat /\ k + 1 \in 1..Len(ls) /\ left[1] = ls[k + 1]
  BY <1>1, <1>2, LineTaken DEF Reached
<1>6. v \in Seq(Piece) /\ v # <<>>
  BY <1>2, <1>5, LineInHead DEF Reached
<1>7. Flagged(ls, k + 1, parsed.connection, Shortened(v), "tokens")
  <2>1. /\ Shortened(v) = Suffix(Shortened(v), 0)
        /\ AtToken(Shortened(v), 0) /\ ~AskedTo(Shortened(v), 0)
    BY <1>6, ShortenedIs
  <2>2. "upgrade" \in parsed.connection <=> AskedBy(ls, k)
    BY <1>2 DEF FlagsReached, Flagged
  <2>3. ls[k + 1].name = "connection" /\ (k + 1) - 1 = k
    BY <1>1, <1>5
  <2> HIDE DEF ls, k
  <2>4. InLoop(ls, k + 1, parsed.connection, Shortened(v), 0)
    BY <1>5, <2>1, <2>2, <2>3 DEF InLoop
  <2>5. 0 \in Nat
    OBVIOUS
  <2>6. QED
    BY <2>4, <2>5 DEF Flagged
<1>8. FlagsReached(head, Tail(left), parsed.connection, rest', "tokens")
  BY <1>1, <1>5, <1>7 DEF FlagsReached
<1>9. QED
  BY <1>1, <1>4, <1>8 DEF LinesInv

(* The steps of the loop, for the flags before and behind them.            *)
LEMMA LoopTurns ==
    ASSUME NEW h \in Heads, NEW lf, NEW flags, NEW r,
           FlagsReached(h, lf, flags, r, "tokens")
    PROVE  LET s == Skip(r, Space)
           IN  /\ s = <<>> => FlagsReached(h, lf, flags, <<>>, "lines")
               /\ FlagsReached(h, lf, flags, s, "tokens")
               /\ s # <<>> /\ s[1] \in KnownTokens =>
                    FlagsReached(h, lf, flags \cup {s[1]}, BehindComma(s), "tokens")
<1> DEFINE s == Skip(r, Space)
           ls == h.lines
           k == Behind(ls, lf)
           v == Shortened(ls[k].value)
<1> SUFFICES        /\ s = <<>> => Flagged(ls, k, flags, <<>>, "lines")
                    /\ Flagged(ls, k, flags, s, "tokens")
                    /\ s # <<>> /\ s[1] \in KnownTokens =>
                         Flagged(ls, k, flags \cup {s[1]}, BehindComma(s), "tokens")
  BY DEF FlagsReached
<1>1. PICK q \in Nat : InLoop(ls, k, flags, r, q)
  BY DEF FlagsReached, Flagged
<1>2. /\ k \in 1..Len(ls) /\ ls[k].name = "connection" /\ AtToken(v, q) /\ r = Suffix(v, q)
      /\ "upgrade" \in flags <=> AskedBy(ls, k - 1) \/ AskedTo(v, q)
  BY <1>1 DEF InLoop
<1>3. v \in Seq(Piece) /\ Len(v) \in Nat
  <2>1. ls[k].value \in Seq(Piece) /\ ls[k].value # <<>>
    BY <1>2, LineInHead
  <2>2. v \in Seq(Piece)
    BY <2>1, ShortenedIs
  <2>3. QED
    BY <2>2
<1>4. Len(ls) \in Nat
  BY HeadAssumption
<1> HIDE DEF ls, k
<1>5. k - 1 \in Nat /\ (k - 1) + 1 = k
  BY <1>2, <1>4
<1> HIDE DEF v
<1>6. PICK p \in Nat : Skipped(v, q, p)
  BY <1>2, <1>3, TurnSkips
<1>7. /\ AtToken(v, p) /\ s = Suffix(v, p) /\ p \in 0..Len(v)
      /\ "upgrade" \in flags <=> AskedBy(ls, k - 1) \/ AskedTo(v, p)
  BY <1>2, <1>6 DEF Skipped, AtToken
<1> HIDE DEF s
<1>8. /\ s \in Seq(Piece) /\ Len(s) = Len(v) - p
      /\ \A i \in 1..(Len(v) - p) : s[i] = v[p + i]
      /\ s = <<>> <=> p = Len(v)
  BY <1>3, <1>7, SuffixProperties
<1>9. ASSUME s = <<>> PROVE Flagged(ls, k, flags, <<>>, "lines")
  <2>1. p = Len(v)
    BY <1>8, <1>9
  <2>2. AskedIn(ls[k]) <=> AskedTo(v, p)
    BY <1>2, <2>1 DEF AskedIn, v
  <2>3. AskedBy(ls, k) <=> AskedBy(ls, k - 1) \/ AskedIn(ls[k])
    <3> DEFINE d == k - 1
    <3>1. d \in Nat /\ d + 1 = k
      BY <1>5
    <3> HIDE DEF d
    <3>2. AskedBy(ls, d + 1) <=> AskedBy(ls, d) \/ AskedIn(ls[d + 1])
      BY <3>1, SaysMore
    <3>3. QED
      BY <3>1, <3>2 DEF d
  <2>4. QED
    BY <1>7, <2>2, <2>3 DEF Flagged
<1>10. Flagged(ls, k, flags, s, "tokens")
  BY <1>2, <1>7 DEF Flagged, InLoop, v
<1>11. ASSUME s # <<>>, s[1] \in KnownTokens
       PROVE  Flagged(ls, k, flags \cup {s[1]}, BehindComma(s), "tokens")
  <2>1. p < Len(v) /\ 1 \in 1..(Len(v) - p)
    BY <1>3, <1>7, <1>8, <1>11
  <2>2. s[1] = v[p + 1]
    BY <1>8, <2>1
  <2>3. s[1] \notin {Space, Comma}
    BY <1>11 DEF KnownTokens, Space, Comma
  <2>4. PICK e \in Nat : Passed(v, p, e)
    BY <1>3, <1>7, <2>1, <2>2, <2>3, TurnPasses
  <2>5. /\ AtToken(v, e) /\ BehindComma(s) = Suffix(v, e)
        /\ AskedTo(v, e) <=> AskedTo(v, p) \/ s[1] = "upgrade"
    BY <1>7, <2>2, <2>4 DEF Passed
  <2>6. "upgrade" \in flags \cup {s[1]} <=> AskedBy(ls, k - 1) \/ AskedTo(v, e)
    BY <1>7, <2>5
  <2>7. InLoop(ls, k, flags \cup {s[1]}, BehindComma(s), e)
    BY <1>2, <2>5, <2>6 DEF InLoop, v
  <2>8. QED
    BY <2>7 DEF Flagged
<1>12. QED
  BY <1>9, <1>10, <1>11 DEF s

LEMMA LoopStep ==
    ASSUME LinesInv, Parsed(parsed), KnownToken \/ UnknownToken \/ TokensEnd
    PROVE  LinesInv'
<1> DEFINE s == Skip(rest, Space)
<1>1. pc = "tokens" /\ head' = head /\ left' = left
  BY DEF KnownToken, UnknownToken, TokensEnd
<1>2. Reached(head, left, parsed) /\ FlagsReached(head, left, parsed.connection, rest, "tokens")
  BY <1>1 DEF LinesInv
<1>3. /\ s = <<>> => FlagsReached(head, left, parsed.connection, <<>>, "lines")
      /\ FlagsReached(head, left, parsed.connection, s, "tokens")
      /\ s # <<>> /\ s[1] \in KnownTokens =>
           FlagsReached(head, left, parsed.connection \cup {s[1]}, BehindComma(s), "tokens")
  BY <1>2, LoopTurns DEF Reached
<1>4. CASE KnownToken
  <2>1. /\ pc' = "tokens" /\ s # <<>> /\ s[1] \in KnownTokens /\ rest' = BehindComma(s)
        /\ parsed' = [parsed EXCEPT !.connection = parsed.connection \cup {s[1]}]
    BY <1>4 DEF KnownToken
  <2> HIDE DEF s
  <2>2. /\ parsed'.connection = parsed.connection \cup {s[1]} /\ parsed'.method = parsed.method
        /\ parsed'.version = parsed.version /\ parsed'.text = parsed.text
        /\ parsed'.upgrade = parsed.upgrade
    BY <2>1 DEF Parsed
  <2>3. Reached(head, left, parsed')
    BY <1>2, <2>2 DEF Reached
  <2>4. FlagsReached(head, left, parsed'.connection, rest', "tokens")
    BY <1>3, <2>1, <2>2
  <2>5. QED
    BY <1>1, <2>1, <2>3, <2>4 DEF LinesInv
<1>5. CASE UnknownToken
  <2>1. pc' = "tokens" /\ rest' = s /\ parsed' = parsed
    BY <1>5 DEF UnknownToken
  <2>2. QED
    BY <1>1, <1>2, <1>3, <2>1 DEF LinesInv
<1>6. CASE TokensEnd
  <2>1. pc' = "lines" /\ s = <<>> /\ rest' = <<>> /\ parsed' = parsed
    BY <1>6 DEF TokensEnd
  <2>2. QED
    BY <1>1, <1>2, <1>3, <2>1 DEF LinesInv
<1>7. QED
  BY <1>4, <1>5, <1>6

LEMMA LinesStep == HeadInv /\ LinesInv /\ [Next]_vars => LinesInv'
<1> SUFFICES ASSUME HeadInv, LinesInv, [Next]_vars PROVE LinesInv'
  OBVIOUS
<1>1. Parsed(parsed)
  BY DEF HeadInv
<1>2. CASE UNCHANGED vars \/ Setup
  BY <1>2 DEF vars, headVars, Setup, LinesInv
<1>3. ASSUME NEW h \in Heads, FirstLine(h)
      PROVE  LinesInv'
  BY <1>1, <1>3, FirstLineReached
<1>4. CASE ContentLengthLine
  <2> DEFINE f == [parsed EXCEPT !.hasBody = TRUE]
  <2>1. Line({"content-length"}, f) /\ left[1].name = "content-length"
    BY <1>4 DEF ContentLengthLine, Line
  <2>2. /\ f.method = parsed.method /\ f.version = parsed.version /\ f.text = parsed.text
        /\ f.upgrade = parsed.upgrade /\ f.connection = parsed.connection
    BY <1>1 DEF Parsed
  <2> HIDE DEF f
  <2>3. left[1].name \notin KeyName
    BY <2>1, NamesApart DEF Special
  <2>4. LineFields(parsed, left[1], f)
    BY <2>1, <2>2, <2>3, KeptFields
  <2>5. QED
    BY <2>1, <2>2, <2>4, LineStep
<1>5. CASE UpgradeLine
  <2> DEFINE f == [parsed EXCEPT !.upgrade = @ \/ "websocket" \in PieceSet(Shortened(Value))]
  <2>1. Line({"upgrade"}, f) /\ left[1].name = "upgrade" /\ pc = "lines" /\ left # <<>>
    BY <1>5 DEF UpgradeLine, Line
  <2>3. f.connection = parsed.connection
    BY <1>1 DEF Parsed
  <2>4. LineFields(parsed, left[1], f)
    BY <1>1, <2>1, UpgradeFields DEF Value
  <2> HIDE DEF f
  <2>5. QED
    BY <2>1, <2>3, <2>4, LineStep
<1>6. CASE AssignedLine
  <2> DEFINE t == WithText(left[1].name, Text(Value))
             f == [parsed EXCEPT !.text = t]
  <2>1. Line({"host", "user-agent"}, f) /\ left[1].name \in {"host", "user-agent"}
    BY <1>6 DEF AssignedLine, Line
  <2>2. /\ DOMAIN t = DOMAIN parsed.text \cup {left[1].name}
        /\ \A n \in DOMAIN t : n # left[1].name => t[n] = parsed.text[n]
    BY DEF WithText
  <2> HIDE DEF t
  <2>3. /\ f.method = parsed.method /\ f.version = parsed.version /\ f.text = t
        /\ f.upgrade = parsed.upgrade /\ f.connection = parsed.connection
    BY <1>1 DEF Parsed
  <2> HIDE DEF f
  <2>4. left[1].name \notin KeyName /\ left[1].name # "upgrade" /\ left[1].name # "connection"
    BY <2>1, NamesApart DEF Special
  <2>5. \A n \in KeyName : /\ n \in DOMAIN f.text <=> n \in DOMAIN parsed.text
                           /\ n \in DOMAIN parsed.text => f.text[n] = parsed.text[n]
    BY <2>2, <2>3, <2>4
  <2>6. LineFields(parsed, left[1], f)
    BY <2>3, <2>4, <2>5, KeptFields
  <2>7. QED
    BY <2>1, <2>3, <2>4, <2>6, LineStep
<1>7. CASE OtherLine
  <2> DEFINE f == IF left[1].name \in DOMAIN parsed.text THEN parsed
                  ELSE [parsed EXCEPT !.text = WithText(left[1].name, Text(left[1].value))]
  <2>1. Line({left[1].name}, f) /\ left[1].name \notin Special
    BY <1>7 DEF OtherLine, Value
  <2>2. LineFields(parsed, left[1], f)
    BY <1>1, <2>1, OtherFields
  <2>3. f.connection = parsed.connection
    BY <1>1 DEF Parsed
  <2> HIDE DEF f
  <2>4. left[1].name # "connection"
    BY <2>1 DEF Special
  <2>5. QED
    BY <2>1, <2>2, <2>3, <2>4, LineStep
<1>8. CASE NoColonLine
  <2>1. Line({NoName}, parsed) /\ left[1].name = NoName
    BY <1>8 DEF NoColonLine, Line
  <2>2. left[1].name \notin KeyName /\ left[1].name # "upgrade" /\ left[1].name # "connection"
    BY <2>1, NamesApart DEF Special, NoName
  <2>3. LineFields(parsed, left[1], parsed)
    BY <2>2, KeptFields
  <2>4. QED
    BY <2>1, <2>2, <2>3, LineStep
<1>9. CASE BlankLine
  BY <1>9 DEF BlankLine, headVars, LinesInv, FlagsReached, Flagged
<1>10. CASE Dispatch
  <2>1. /\ pc = "dispatch" /\ pc' = "done"
        /\ UNCHANGED <<head, left, rest, parsed>>
    BY <1>10 DEF Dispatch, NotFound, Upgrade, NoHandler, CallHandler, Result
  <2>2. QED
    BY <2>1 DEF LinesInv, FlagsReached, Flagged
<1>11. QED
  BY <1>1, <1>2, <1>3, <1>4, <1>5, <1>6, <1>7, <1>8, <1>9, <1>10, ConnectionStep, LoopStep
     DEF Next, Parse

-----------------------------------------------------------------------------
(* What the parser holds at the blank line is what the client may mean.    *)
LEMMA FlagsMeant ==
    ASSUME NEW h \in Heads, NEW lf, NEW flags, NEW r, NEW c, c # "tokens", lf = <<>>,
           FlagsReached(h, lf, flags, r, c)
    PROVE  "upgrade" \in flags
             <=> \E l \in Lines(h, "connection") : "upgrade" \in Listed(Shortened(l.value))
<1> DEFINE ls == h.lines
           Says(l) == "upgrade" \in Listed(Shortened(l.value))
<1>1. Len(ls) \in Nat /\ Behind(ls, lf) = Len(ls) /\ DOMAIN ls = 1..Len(ls)
  BY HeadAssumption DEF Behind
<1>2. "upgrade" \in flags <=> AskedBy(ls, Len(ls))
  BY <1>1 DEF FlagsReached, Flagged
<1>3. ASSUME NEW i \in 1..Len(ls)
      PROVE  AskedIn(ls[i]) <=> ls[i].name = "connection" /\ Says(ls[i])
  <2> DEFINE v == Shortened(ls[i].value)
  <2>1. v \in Seq(Piece)
    BY LineInHead, ShortenedIs
  <2> HIDE DEF v
  <2>2. "upgrade" \in Listed(v) <=> AskedTo(v, Len(v))
    BY <2>1, ListedIs DEF AskedTo
  <2>3. QED
    BY <2>2 DEF AskedIn, v
<1> HIDE DEF Says
<1>4. AskedBy(ls, Len(ls)) <=> \E l \in Lines(h, "connection") : Says(l)
  BY <1>1, <1>3 DEF AskedBy, Lines
<1>5. QED
  BY <1>2, <1>4 DEF Says

LEMMA NamesMeant ==
    ASSUME NEW h, NEW lf, NEW p, lf = <<>>, Reached(h, lf, p)
    PROVE  p.upgrade
             <=> \E l \in Lines(h, "upgrade") : "websocket" \in PieceSet(Shortened(l.value))
<1> DEFINE ls == h.lines
           Says(l) == "websocket" \in PieceSet(Shortened(l.value))
<1>1. h \in Heads /\ (p.upgrade <=> NamedBy(ls, Behind(ls, lf)))
  BY DEF Reached
<1>2. Len(ls) \in Nat /\ Behind(ls, lf) = Len(ls) /\ DOMAIN ls = 1..Len(ls)
  BY <1>1, HeadAssumption DEF Behind
<1>3. \A l : NamedIn(l) <=> l.name = "upgrade" /\ Says(l)
  BY DEF NamedIn
<1> HIDE DEF Says
<1>4. NamedBy(ls, Len(ls)) <=> \E l \in Lines(h, "upgrade") : Says(l)
  BY <1>2, <1>3 DEF NamedBy, Lines
<1>5. QED
  BY <1>1, <1>2, <1>4 DEF Says

(* A value that begins with a space is listed whole behind it.             *)
LEMMA WordsListed ==
    ASSUME NEW v \in Seq(Piece), v # <<>>, Spaced(v)
    PROVE  /\ Words(v) \subseteq Listed(Shortened(v))
           /\ Words(v) \subseteq PieceSet(Shortened(v))
<1> DEFINE w == Shortened(v)
<1>1. Len(v) \in Nat /\ Len(v) # 0 /\ v[1] = Space /\ DOMAIN v = 1..Len(v)
  BY EmptySeq DEF Spaced
<1>2. w = Tail(v)
  BY <1>1 DEF Shortened
<1>3. /\ w \in Seq(Piece) /\ DOMAIN w = 1..(Len(v) - 1)
      /\ \A i \in 1..(Len(v) - 1) : w[i] = v[i + 1]
  BY <1>1, <1>2
<1> HIDE DEF w
<1>4. ASSUME NEW i \in Elements(v)
      PROVE  i - 1 \in Elements(w) /\ i - 1 \in DOMAIN w /\ w[i - 1] = v[i]
  <2>1. PICK j \in 0..(i - 1) : /\ j = 0 \/ v[j] = Comma
                                /\ \A k \in (j + 1)..(i - 1) : v[k] = Space
    BY DEF Elements
  <2>2. i \in 1..Len(v) /\ v[i] \notin {Space, Comma} /\ i # 1
    BY <1>1 DEF Elements
  <2>3. i - 1 \in DOMAIN w /\ w[i - 1] = v[i]
    <3>1. i - 1 \in 1..(Len(v) - 1) /\ (i - 1) + 1 = i
      BY <1>1, <2>2
    <3>2. QED
      BY <1>3, <3>1
  <2>4. \E e \in 0..((i - 1) - 1) : /\ e = 0 \/ w[e] = Comma
                                   /\ \A k \in (e + 1)..((i - 1) - 1) : w[k] = Space
    <3>1. CASE j = 0
      <4>1. 0 \in 0..((i - 1) - 1)
        BY <1>1, <2>2
      <4>2. ASSUME NEW k \in (0 + 1)..((i - 1) - 1) PROVE w[k] = Space
        <5>1. k \in 1..(Len(v) - 1) /\ k + 1 \in (j + 1)..(i - 1)
          BY <1>1, <2>2, <3>1
        <5>2. QED
          BY <1>3, <2>1, <5>1
      <4>3. QED
        BY <4>1, <4>2
    <3>2. CASE j # 0
      <4>1. v[j] = Comma /\ j # 1
        BY <1>1, <2>1, <3>2 DEF Space, Comma
      <4>2. j - 1 \in 0..((i - 1) - 1) /\ j - 1 \in 1..(Len(v) - 1) /\ (j - 1) + 1 = j
        BY <1>1, <2>1, <2>2, <3>2, <4>1
      <4>3. w[j - 1] = Comma
        BY <1>3, <4>1, <4>2
      <4>4. ASSUME NEW k \in ((j - 1) + 1)..((i - 1) - 1) PROVE w[k] = Space
        <5>1. k \in 1..(Len(v) - 1) /\ k + 1 \in (j + 1)..(i - 1)
          BY <1>1, <2>2, <3>2
        <5>2. QED
          BY <1>3, <2>1, <5>1
      <4>5. QED
        BY <4>2, <4>3, <4>4
    <3>3. QED
      BY <3>1, <3>2
  <2>5. QED
    BY <2>2, <2>3, <2>4 DEF Elements
<1>5. \A t \in Words(v) : \E i \in Elements(v) : v[i] = t
  BY DEF Words
<1>6. ASSUME NEW t \in Words(v) PROVE t \in Listed(w) /\ t \in PieceSet(w)
  <2>1. PICK i \in Elements(v) : v[i] = t
    BY <1>5
  <2>2. i - 1 \in Elements(w) /\ i - 1 \in DOMAIN w /\ w[i - 1] = t
    BY <1>4, <2>1
  <2>3. QED
    BY <2>2 DEF Listed, PieceSet
<1>7. QED
  BY <1>6 DEF w

-----------------------------------------------------------------------------
(* What the first line means.                                              *)
LEMMA VersionNames ==
    /\ Len(Http10) = 8 /\ Http10[1] = 72 /\ Http10[8] = 48
    /\ Len(Http11) = 8 /\ Http11[1] = 72 /\ Http11[8] = 49
BY DEF Http10, Http11

LEMMA VersionMay ==
    ASSUME NEW s \in Seq(Char), s # <<>>, s[Len(s)] = LF,
           VersionOf(s) \in {"HTTP/1.0", "HTTP/1.1"}
    PROVE  /\ \E m \in KnownMethods : Stands(s, 1, MethodName[m])
           /\ \E i \in DOMAIN s : s[i] = Blank /\ \E w \in Upgradable : Stands(s, i + 1, w)
<1> DEFINE m == ParseHttpMethod(s)
           a == UriAt(s)
           e == UriEnd(s)
<1>1. m # "UNKNOWN" /\ ParseHttpVersion(s, VersionAt(s)) \in {"HTTP/1.0", "HTTP/1.1"}
  BY DEF VersionOf
<1>2. m \in KnownMethods /\ Stands(s, 1, MethodName[m])
  BY <1>1, MethodParsed
<1>3. PICK w \in Upgradable : Stands(s, VersionAt(s), w)
  BY <1>1 DEF ParseHttpVersion, Upgradable
<1>4. UriFrom(s, Len(MethodName[m]), a) /\ UriTo(s, a, e)
  BY <1>1, UriFound
<1>5. Len(w) = 8 /\ w[1] = 72
  BY VersionNames DEF Upgradable
<1>6. e <= Len(s)
  <2> SUFFICES ASSUME e > Len(s) PROVE FALSE
    BY <1>4 DEF UriFrom, UriTo
  <2>1. Stands(s, 1, w)
    BY <1>3 DEF VersionAt
  <2>2. s[1] = 72
    <3>1. 1 \in 1..Len(w) /\ 1 + 1 - 1 = 1
      BY <1>5
    <3>2. QED
      BY <1>5, <2>1, <3>1 DEF Stands
  <2>3. s[1] = MethodName[m][1]
    <3>1. 1 \in 1..Len(MethodName[m]) /\ 1 + 1 - 1 = 1
      BY <1>2, MethodBegins
    <3>2. QED
      BY <1>2, <3>1 DEF Stands
  <2>4. MethodName[m][1] # 72
    BY <1>2 DEF KnownMethods, MethodName
  <2>5. QED
    BY <2>2, <2>3, <2>4
<1>7. e \in DOMAIN s /\ s[e] = Blank /\ VersionAt(s) = e + 1
  <2>1. e \in 1..Len(s) /\ s[e] = Blank
    BY <1>4, <1>6 DEF UriFrom, UriTo
  <2>2. VersionAt(s) = e + 1
    BY <1>6, <2>1 DEF VersionAt
  <2>3. QED
    BY <2>1, <2>2
<1>8. QED
  BY <1>2, <1>3, <1>7

LEMMA OneMethod ==
    ASSUME NEW s, NEW m \in KnownMethods, Stands(s, 1, MethodName[m])
    PROVE  ParseHttpMethod(s) = m
<1> DEFINE n == ParseHttpMethod(s)
<1>1. n \in KnownMethods /\ Stands(s, 1, MethodName[n])
  BY MethodParsed
<1> HIDE DEF n
<1>2. ASSUME NEW x \in KnownMethods, Stands(s, 1, MethodName[x])
      PROVE  /\ x = "GET" => s[1] = 71
             /\ x = "PUT" => s[1] = 80 /\ s[2] = 85
             /\ x = "POST" => s[1] = 80 /\ s[2] = 79
  <2>1. Len(MethodName[x]) \in {3, 4} /\ 1 + 1 - 1 = 1 /\ 1 + 2 - 1 = 2
    BY MethodNames
  <2>2. s[1] = MethodName[x][1] /\ s[2] = MethodName[x][2]
    <3>1. \A k \in 1..Len(MethodName[x]) : s[1 + k - 1] = MethodName[x][k]
      BY <1>2 DEF Stands
    <3>2. 1 \in 1..Len(MethodName[x]) /\ 2 \in 1..Len(MethodName[x])
      BY MethodBegins
    <3>3. QED
      BY <2>1, <3>1, <3>2
  <2>3. QED
    BY <2>2 DEF MethodName
<1>3. m = n
  BY <1>1, <1>2 DEF KnownMethods
<1>4. QED
  BY <1>3 DEF n

LEMMA VersionMust ==
    ASSUME NEW s \in Seq(Char), s # <<>>, s[Len(s)] = LF, ProperFirst(s)
    PROVE  VersionOf(s) \in {"HTTP/1.0", "HTTP/1.1"}
<1>1. PICK m \in KnownMethods, i \in DOMAIN s, w \in Upgradable :
        LET n == Len(MethodName[m])
        IN  /\ Stands(s, 1, MethodName[m])
            /\ n + 2 < i
            /\ s[n + 1] = Blank /\ s[i] = Blank
            /\ \A j \in (n + 2)..(i - 1) : s[j] # Blank
            /\ Stands(s, i + 1, w)
            /\ Len(s) = i + Len(w) + 2
  BY DEF ProperFirst
<1> DEFINE n == Len(MethodName[m])
           a == UriAt(s)
           e == UriEnd(s)
<1>2. /\ Stands(s, 1, MethodName[m]) /\ n + 2 < i /\ s[n + 1] = Blank /\ s[i] = Blank
      /\ \A j \in (n + 2)..(i - 1) : s[j] # Blank
      /\ Stands(s, i + 1, w)
  BY <1>1
<1>3. n \in Nat /\ i \in 1..Len(s) /\ Len(s) \in Nat
  BY MethodNames
<1>4. ParseHttpMethod(s) = m /\ m # "UNKNOWN"
  BY <1>2, OneMethod, MethodNames
<1>5. UriFrom(s, n, a) /\ UriTo(s, a, e)
  BY <1>4, UriFound
<1> HIDE DEF n, a, e
<1>6. a = n + 2
  <2>1. n + 2 \in 1..Len(s) /\ n + 2 \in (n + 2)..(i - 1) /\ n + 2 > n
    BY <1>2, <1>3
  <2>2. s[n + 2] # Blank
    BY <1>2, <2>1
  <2>3. a <= n + 2 /\ a > n /\ a \in 1..Len(s)
    BY <1>5, <2>1, <2>2 DEF UriFrom
  <2>4. a # n + 1
    BY <1>2, <1>5 DEF UriFrom
  <2>5. QED
    BY <1>3, <2>3, <2>4
<1>7. e = i
  <2>1. e <= i /\ e \in (a + 1)..(Len(s) + 1) /\ (e <= Len(s) => s[e] = Blank)
    BY <1>2, <1>3, <1>5, <1>6 DEF UriTo
  <2>2. ~(e < i)
    <3> SUFFICES ASSUME e < i PROVE FALSE
      OBVIOUS
    <3>1. e \in (n + 2)..(i - 1) /\ e <= Len(s)
      BY <1>3, <1>6, <2>1
    <3>2. QED
      BY <1>2, <2>1, <3>1
  <2>3. QED
    BY <1>3, <2>1, <2>2
<1>8. VersionAt(s) = i + 1
  BY <1>3, <1>7 DEF VersionAt, e
<1>9. ParseHttpVersion(s, i + 1) \in {"HTTP/1.0", "HTTP/1.1"}
  <2>1. Stands(s, i + 1, Http10) \/ Stands(s, i + 1, Http11)
    BY <1>2 DEF Upgradable
  <2>2. Stands(s, i + 1, Http11) => ~Stands(s, i + 1, Http20)
    <3>1. Len(Http20) = 8 /\ Http20[8] = 48 /\ 8 \in 1..8
      BY DEF Http20
    <3>2. QED
      BY <3>1, VersionNames DEF Stands
  <2>3. Stands(s, i + 1, Http11) => ~Stands(s, i + 1, Wss)
    <3>1. Len(Wss) = 4 /\ Wss[1] = 87 /\ 1 \in 1..4 /\ 1 \in 1..8
      BY DEF Wss
    <3>2. QED
      BY <3>1, VersionNames DEF Stands
  <2>4. Stands(s, i + 1, Http11) => ~Stands(s, i + 1, Http10)
    <3>1. 8 \in 1..8
      OBVIOUS
    <3>2. QED
      BY <3>1, VersionNames DEF Stands
  <2>5. CASE Stands(s, i + 1, Http10)
    <3>1. ~Stands(s, i + 1, Http20) /\ ~Stands(s, i + 1, Wss) /\ ~Stands(s, i + 1, Http11)
      <4>1. Len(Http20) = 8 /\ Http20[6] = 50 /\ Http10[6] = 49 /\ 6 \in 1..8
        BY DEF Http20, Http10
      <4>2. Len(Wss) = 4 /\ Wss[1] = 87 /\ 1 \in 1..4 /\ 1 \in 1..8
        BY DEF Wss
      <4>3. ~Stands(s, i + 1, Http20)
        BY <2>5, <4>1, VersionNames DEF Stands
      <4>4. ~Stands(s, i + 1, Wss)
        BY <2>5, <4>2, VersionNames DEF Stands
      <4>5. QED
        BY <2>4, <2>5, <4>3, <4>4
    <3>2. QED
      BY <2>5, <3>1 DEF ParseHttpVersion
  <2>6. CASE Stands(s, i + 1, Http11)
    BY <2>2, <2>3, <2>4, <2>6 DEF ParseHttpVersion
  <2>7. QED
    BY <2>1, <2>5, <2>6
<1>10. QED
  BY <1>4, <1>8, <1>9 DEF VersionOf

(* The decision to upgrade: between those that ask as they should and      *)
(* those that may ask.                                                     *)
LEMMA UpgradeMeant ==
    ASSUME NEW h, NEW lf, NEW p, NEW r, NEW c, c # "tokens", lf = <<>>, Reached(h, lf, p),
           FlagsReached(h, lf, p.connection, r, c)
    PROVE  LET yes == /\ p.upgrade /\ "upgrade" \in p.connection
                      /\ p.version \in {"HTTP/1.0", "HTTP/1.1"}
           IN  (yes => MayAsk(h)) /\ (Asks(h) => yes)
<1> DEFINE s == h.first
<1>1. h \in Heads /\ p.version = VersionOf(s)
  BY DEF Reached
<1>2. s \in Seq(Char) /\ s # <<>> /\ s[Len(s)] = LF
  BY <1>1, HeadAssumption
<1>3. "upgrade" \in p.connection
        <=> \E l \in Lines(h, "connection") : "upgrade" \in Listed(Shortened(l.value))
  BY <1>1, FlagsMeant
<1>4. p.upgrade <=> \E l \in Lines(h, "upgrade") : "websocket" \in PieceSet(Shortened(l.value))
  BY NamesMeant
<1>5. ASSUME p.version \in {"HTTP/1.0", "HTTP/1.1"}
      PROVE  /\ \E m \in KnownMethods : Stands(s, 1, MethodName[m])
             /\ \E i \in DOMAIN s : s[i] = Blank /\ \E w \in Upgradable : Stands(s, i + 1, w)
  <2> HIDE DEF s
  <2>1. QED
    BY <1>1, <1>2, <1>5, VersionMay
<1>6. ProperFirst(s) => p.version \in {"HTTP/1.0", "HTTP/1.1"}
  <2> HIDE DEF s
  <2>1. QED
    BY <1>1, <1>2, VersionMust
<1>7. \A n : \A l \in Lines(h, n) : Spaced(l.value) =>
        /\ Words(l.value) \subseteq Listed(Shortened(l.value))
        /\ Words(l.value) \subseteq PieceSet(Shortened(l.value))
  <2> SUFFICES ASSUME NEW n, NEW l \in Lines(h, n), Spaced(l.value)
               PROVE  /\ Words(l.value) \subseteq Listed(Shortened(l.value))
                      /\ Words(l.value) \subseteq PieceSet(Shortened(l.value))
    OBVIOUS
  <2>1. DOMAIN h.lines = 1..Len(h.lines)
    BY <1>1, HeadAssumption
  <2>2. PICK i \in 1..Len(h.lines) : l = h.lines[i]
    BY <2>1 DEF Lines
  <2>3. l.value \in Seq(Piece) /\ l.value # <<>>
    BY <1>1, <2>2, LineInHead
  <2>4. QED
    BY <2>3, WordsListed
<1>8. QED
  BY <1>3, <1>4, <1>5, <1>6, <1>7 DEF MayAsk, Asks

LEMMA KeyMeant ==
    ASSUME NEW h, NEW lf, NEW p, lf = <<>>, Reached(h, lf, p)
    PROVE  HasKey(h) <=> \E n \in KeyName : n \in DOMAIN p.text /\ p.text[n] # <<>>
<1> DEFINE ls == h.lines
           t == p.text
<1>1. h \in Heads /\ TextsAfter(ls, Behind(ls, lf), t)
  BY DEF Reached
<1>2. Len(ls) \in Nat /\ Behind(ls, lf) = Len(ls) /\ DOMAIN ls = 1..Len(ls)
  BY <1>1, HeadAssumption DEF Behind
<1>3. HasKey(h) <=> \E i \in 1..Len(ls) : \E n \in KeyName :
                      FirstOf(ls, i, n) /\ Text(ls[i].value) # <<>>
  BY <1>2 DEF HasKey, KeyName, FirstOf
<1> HIDE DEF ls, t
<1>4. \A n \in KeyName : /\ n \in DOMAIN t <=> \E i \in 1..Len(ls) : ls[i].name = n
                         /\ \A i \in 1..Len(ls) : FirstOf(ls, i, n) => t[n] = Text(ls[i].value)
  BY <1>1, <1>2 DEF TextsAfter
<1>5. ASSUME NEW n \in KeyName, n \in DOMAIN t PROVE \E i \in 1..Len(ls) : FirstOf(ls, i, n)
  <2> DEFINE D == {i \in 1..Len(ls) : ls[i].name = n}
  <2>1. D # {} /\ D \in SUBSET Nat
    BY <1>4, <1>5
  <2>2. PICK d \in D : \A i \in D : d <= i
    BY <2>1, LeastNumber
  <2>3. ASSUME NEW j \in 1..(d - 1) PROVE ls[j].name # n
    <3>1. j \in 1..Len(ls) /\ ~(d <= j)
      BY <1>2, <2>2
    <3>2. QED
      BY <2>2, <3>1
  <2>4. FirstOf(ls, d, n)
    BY <2>2, <2>3 DEF FirstOf
  <2>5. QED
    BY <2>2, <2>4
<1>6. ASSUME HasKey(h) PROVE \E n \in KeyName : n \in DOMAIN t /\ t[n] # <<>>
  <2>1. PICK i \in 1..Len(ls), n \in KeyName : FirstOf(ls, i, n) /\ Text(ls[i].value) # <<>>
    BY <1>3, <1>6
  <2>2. n \in DOMAIN t
    BY <1>4, <2>1 DEF FirstOf
  <2>3. QED
    BY <1>4, <2>1, <2>2
<1>7. ASSUME NEW n \in KeyName, n \in DOMAIN t, t[n] # <<>> PROVE HasKey(h)
  <2>1. PICK i \in 1..Len(ls) : FirstOf(ls, i, n)
    BY <1>5, <1>7
  <2>2. Text(ls[i].value) # <<>>
    BY <1>4, <1>7, <2>1
  <2>3. QED
    BY <1>3, <2>1, <2>2
<1>8. QED
  BY <1>6, <1>7 DEF t

(* Only the dispatch ends a request.                                       *)
LEMMA DoneStep == [Next]_vars /\ pc' = "done" => Dispatch \/ UNCHANGED vars
BY DEF Next, Setup, FirstLine, Parse, ContentLengthLine, UpgradeLine, AssignedLine, OtherLine,
   NoColonLine, Line, ConnectionLine, KnownToken, UnknownToken, TokensEnd, BlankLine

LEMMA KindStep == FirstsInv /\ LinesInv /\ KindIsMeant /\ [Next]_vars => KindIsMeant'
<1> SUFFICES ASSUME FirstsInv, LinesInv, KindIsMeant, [Next]_vars, pc' = "done"
             PROVE  KindIsMeant'
  BY DEF KindIsMeant
<1>1. CASE UNCHANGED vars
  BY <1>1 DEF vars, headVars, setupVars, KindIsMeant, Candidates
<1>2. CASE Dispatch
  <2>1. pc = "dispatch" /\ UNCHANGED <<setupVars, head, left, rest, parsed>>
    BY <1>2 DEF Dispatch, NotFound, Upgrade, NoHandler, CallHandler, Result
  <2>2. /\ left = <<>> /\ Reached(head, left, parsed) /\ head \in Heads
        /\ FlagsReached(head, left, parsed.connection, rest, pc)
    BY <2>1 DEF LinesInv, Reached
  <2>3. (ShouldUpgradeWebsocket => MayAsk(head)) /\ (Asks(head) => ShouldUpgradeWebsocket)
    BY <2>1, <2>2, UpgradeMeant DEF ShouldUpgradeWebsocket
  <2>4. Keys # {} <=> HasKey(head)
    BY <2>2, KeyMeant DEF Keys, KeyName
  <2> DEFINE named(h) == {m \in KnownMethods : Stands(h.first, 1, MethodName[m])}
  <2>5. /\ parsed.method = "UNKNOWN" => named(head) = {}
        /\ parsed.method \in named(head) \cup {"UNKNOWN"}
    <3>1. parsed.method = ParseHttpMethod(head.first)
      BY <2>2 DEF Reached
    <3>2. QED
      BY <3>1, MethodParsed
  <2>6. UNCHANGED <<handlers, head, parsed>>
    BY <2>1 DEF setupVars
  <2>7. CASE NotFound
    <3>1. kind' = "no_route" /\ Candidates(parsed.uri) = {}
      BY <2>7, FindsWhatMatches DEF NotFound, Result
    <3>2. Candidates(parsed.uri)' = {}
      BY <2>6, <3>1 DEF Candidates
    <3>3. QED
      BY <3>1, <3>2 DEF KindIsMeant
  <2>8. ASSUME NEW p, Upgrade(p) PROVE KindIsMeant'
    <3>1. MayAsk(head') /\ (Keys # {} <=> HasKey(head'))
      BY <2>3, <2>4, <2>6, <2>8 DEF Upgrade
    <3>2. kind' = IF Keys = {} THEN "upgrade_no_key" ELSE "upgrade"
      BY <2>8 DEF Upgrade, Result
    <3>3. QED
      BY <3>1, <3>2 DEF KindIsMeant
  <2> HIDE DEF named
  <2>9. ASSUME kind' \in {"no_method", "unknown_method", "handled"}, ~Asks(head'),
               kind' = "handled" => handlers'[route'] \cap (named(head') \cup {"UNKNOWN"}) # {},
               kind' = "unknown_method" => named(head') = {}
        PROVE  KindIsMeant'
    BY <2>9 DEF KindIsMeant, named
  <2>10. ASSUME NEW p, NoHandler(p) PROVE KindIsMeant'
    <3>1. ~Asks(head')
      BY <2>3, <2>6, <2>10 DEF NoHandler
    <3>2. kind' = IF parsed.method = "UNKNOWN" THEN "unknown_method" ELSE "no_method"
      BY <2>10 DEF NoHandler, Result
    <3>3. QED
      BY <2>5, <2>6, <2>9, <3>1, <3>2
  <2>11. ASSUME NEW p, NEW code \in StatusCodes, CallHandler(p, code) PROVE KindIsMeant'
    <3>1. ~Asks(head')
      BY <2>3, <2>6, <2>11 DEF CallHandler
    <3>2. kind' = "handled" /\ route' = p /\ parsed.method \in handlers[p]
      BY <2>11 DEF CallHandler, Result
    <3>3. handlers'[route'] \cap (named(head') \cup {"UNKNOWN"}) # {}
      BY <2>5, <2>6, <3>2
    <3>4. QED
      BY <2>9, <3>1, <3>2, <3>3
  <2>12. QED
    BY <1>2, <2>7, <2>8, <2>10, <2>11 DEF Dispatch
<1>3. QED
  BY <1>1, <1>2, DoneStep

(* Whatever the header lines are, however many and in whatever order, a    *)
(* request whose head asks for a websocket as it should is upgraded        *)
(* wherever a route matches, and only one that may ask is; with an accept  *)
(* key exactly when it has one; every other goes to a handler of a method  *)
(* its head begins with, and is told 404 only when no route matches.       *)
THEOREM KindIsMeantHolds == Spec => []KindIsMeant
<1>1. Init => HeadInv
  BY DEF Init, HeadInv, Parsed
<1>2. Init => FirstsInv
  BY DEF Init, SetupInit, FirstsInv, RoutesInv
<1>3. Init => LinesInv
  BY DEF Init, LinesInv
<1>4. Init => KindIsMeant
  BY DEF Init, KindIsMeant
<1>5. QED
  BY <1>1, <1>2, <1>3, <1>4, HeadStep, FirstsStep, LinesStep, KindStep, PTL DEF Spec
================================================================================
