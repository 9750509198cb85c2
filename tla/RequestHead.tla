----------------------------- MODULE RequestHead -----------------------------
(***************************************************************************)
(* From the first line of a request to what Poll does with it: PushLine    *)
(* and ParseFirstLine (hpl_header_parser.cc), ShouldUpgradeWebsocket and   *)
(* UpgradeToWebsocket (hpl_connection.cc), the look-up of the handler, the *)
(* accept key (hpl_websocket_connection.cc) and the status line of the     *)
(* answer.  The result is the kind of request that PollServer takes as     *)
(* given.                                                                  *)
(*                                                                         *)
(* The first line is a text.  A header line is its name and the pieces of  *)
(* the text behind the colon: every occurrence of a word that the parser   *)
(* looks for, every space and comma and the line end is a piece, and so is *)
(* what lies between them.  "upgradex" is <<"upgrade", "x">>.  Names and   *)
(* words compared with icase_cmp stand here in lower case, other names     *)
(* keep their case.                                                        *)
(***************************************************************************)
EXTENDS ServerSetup, Base64, Response

CONSTANTS
    Heads,       \* [first, lines]
    Digests,     \* what SHA1 may return, 20 bytes
    StatusCodes  \* what a handler may answer with

Space == " "
Comma == ","
Eol == "\r\n"
Other == "x"  \* a piece of one character
NoName == ""
KnownTokens == {"upgrade", "keep-alive", "close"}
KeyNames == <<"Sec-WebSocket-Key", "Sec-WebSocket-Key1", "Sec-WebSocket-Key2">>

(* The texts the first line is compared with.                              *)
Blank == 32
KnownMethods == {"GET", "PUT", "POST"}
MethodName == [GET |-> <<71, 69, 84>>, PUT |-> <<80, 85, 84>>, POST |-> <<80, 79, 83, 84>>]
HttpVersions == {"HTTP/1.0", "HTTP/1.1", "HTTP/2.0"}
Http10 == <<72, 84, 84, 80, 47, 49, 46, 48>>
Http11 == <<72, 84, 84, 80, 47, 49, 46, 49>>
Http20 == <<72, 84, 84, 80, 47, 50, 46, 48>>
Wss == <<87, 83, 83, 47>>

ASSUME HeadAssumption ==
    /\ \A h \in Heads : /\ h.first \in Seq(Char)
                        /\ h.lines \in Seq([name : STRING, value : Seq(STRING)])
    /\ \A h \in Heads : h.first # <<>> /\ h.first[Len(h.first)] = LF
    /\ \A h \in Heads : \A i \in DOMAIN h.lines :
         LET v == h.lines[i].value IN v # <<>> /\ v[Len(v)] = Eol
    /\ \A d \in Digests : d \in Seq(0..255) /\ Len(d) = 20
    /\ StatusCodes \subseteq Int

VARIABLES
    pc,      \* where the server is with the request
    head,    \* what the client sent
    left,    \* its header lines not yet pushed
    rest,    \* what the token loop has before it
    parsed,  \* the fields of the parser
    kind,    \* what Poll made of the request
    route,   \* the pattern that serves it
    status,  \* the status code of the answer, 0 before there is one
    digest,  \* the SHA1 of the key
    accept   \* ws_accept_

headVars == <<head, left, rest, parsed, kind, route, status, digest, accept>>
vars == <<setupVars, pc, headVars>>

NoHead == [first |-> <<>>, lines |-> <<>>]

Init ==
    /\ SetupInit
    /\ pc = "setup"
    /\ head = NoHead
    /\ left = <<>>
    /\ rest = <<>>
    /\ parsed = [method |-> "UNKNOWN", uri |-> <<>>, version |-> "UNKNOWN",
                 connection |-> {}, upgrade |-> FALSE, hasBody |-> FALSE,
                 text |-> [n \in {} |-> <<>>]]
    /\ kind = "unparsed"
    /\ route = <<>>
    /\ status = 0
    /\ digest \in Digests
    /\ accept = <<>>

-----------------------------------------------------------------------------
(* The text w stands in s from position i on.                              *)
Stands(s, i, w) == i + Len(w) - 1 <= Len(s) /\ \A k \in 1..Len(w) : s[i + k - 1] = w[k]

(* The name of the method is not followed up to its end: "GETX" is GET.    *)
ParseHttpMethod(s) ==
    IF \E m \in KnownMethods : Stands(s, 1, MethodName[m])
    THEN CHOOSE m \in KnownMethods : Stands(s, 1, MethodName[m])
    ELSE "UNKNOWN"

(* Nor is the version: "HTTP/1.19" is HTTP/1.1.                            *)
ParseHttpVersion(s, i) ==
    CASE Stands(s, i, Http10) -> "HTTP/1.0"
      [] Stands(s, i, Http11) -> "HTTP/1.1"
      [] Stands(s, i, Http20) -> "HTTP/2.0"
      [] Stands(s, i, Wss) -> "WS"
      [] OTHER -> "UNKNOWN"

Earliest(S) == CHOOSE i \in S : \A j \in S : i <= j

(* The URI begins at the first character behind the method that is not a   *)
(* space, goes on to the next space or else to the end of the line, line   *)
(* end included, and the version stands behind that space; without it the  *)
(* code compares the beginning of the line (npos + 1).                     *)
UriAt(s) ==
    Earliest({i \in DOMAIN s : i > Len(MethodName[ParseHttpMethod(s)]) /\ s[i] # Blank})

UriEnd(s) == Earliest({i \in DOMAIN s : i > UriAt(s) /\ s[i] = Blank} \cup {Len(s) + 1})

VersionAt(s) == IF UriEnd(s) > Len(s) THEN 1 ELSE UriEnd(s) + 1

ParseFirstLine(s) ==
    IF ParseHttpMethod(s) = "UNKNOWN"
    THEN [parsed EXCEPT !.method = "UNKNOWN", !.uri = <<>>, !.version = "UNKNOWN"]
    ELSE [parsed EXCEPT !.method = ParseHttpMethod(s),
                        !.uri = SubSeq(s, UriAt(s), UriEnd(s) - 1),
                        !.version = ParseHttpVersion(s, VersionAt(s))]

FirstLine(h) ==
    /\ pc = "setup"
    /\ ret = 0
    /\ head' = h
    /\ left' = h.lines
    /\ parsed' = ParseFirstLine(h.first)
    /\ pc' = "lines"
    /\ UNCHANGED <<setupVars, rest, kind, route, status, digest, accept>>

-----------------------------------------------------------------------------
Skip(v, piece) ==
    LET n == CHOOSE n \in 0..Len(v) : /\ \A i \in 1..n : v[i] = piece
                                      /\ n < Len(v) => v[n + 1] # piece
    IN  SubSeq(v, n + 1, Len(v))

(* What is left of a value without its first character: of a longer piece  *)
(* something that nothing is compared with successfully.                   *)
Shortened(v) == IF v[1] \in {Space, Comma, Other} THEN Tail(v) ELSE <<Other>> \o Tail(v)

PieceSet(v) == {v[i] : i \in DOMAIN v}

(* A line that is understood at once: fields stands for the parser after   *)
(* it.                                                                     *)
Line(names, fields) ==
    /\ pc = "lines"
    /\ left # <<>>
    /\ left[1].name \in names
    /\ parsed' = fields
    /\ left' = Tail(left)
    /\ UNCHANGED <<setupVars, pc, head, rest, kind, route, status, digest, accept>>

Special == {"content-length", "upgrade", "connection", "host", "user-agent", NoName}
Value == left[1].value

ContentLengthLine == Line({"content-length"}, [parsed EXCEPT !.hasBody = TRUE])

(* The search starts one character behind the colon and tries every        *)
(* character.                                                              *)
UpgradeLine ==
    Line({"upgrade"}, [parsed EXCEPT !.upgrade = @ \/ "websocket" \in PieceSet(Shortened(Value))])

Text(v) == SubSeq(Skip(v, Space), 1, Len(Skip(v, Space)) - 1)

WithText(name, v) ==
    [n \in DOMAIN parsed.text \cup {name} |-> IF n = name THEN v ELSE parsed.text[n]]

(* host_ and user_agent_ are assigned: the last line counts.               *)
AssignedLine ==
    Line({"host", "user-agent"}, [parsed EXCEPT !.text = WithText(left[1].name, Text(Value))])

(* headers_.emplace: the first line of a name counts.                      *)
OtherLine ==
    /\ left # <<>> /\ left[1].name \notin Special
    /\ Line({left[1].name},
            IF left[1].name \in DOMAIN parsed.text THEN parsed
            ELSE [parsed EXCEPT !.text = WithText(left[1].name, Text(Value))])

NoColonLine == Line({NoName}, parsed)

(* The Connection header: one turn of the token loop is one step.  It      *)
(* starts one character behind the colon.                                  *)
ConnectionLine ==
    /\ pc = "lines"
    /\ left # <<>>
    /\ left[1].name = "connection"
    /\ rest' = Shortened(Value)
    /\ left' = Tail(left)
    /\ pc' = "tokens"
    /\ UNCHANGED <<setupVars, head, parsed, kind, route, status, digest, accept>>

BehindComma(v) ==
    LET commas == {i \in DOMAIN v : v[i] = Comma}
    IN  IF commas = {} THEN <<>>
        ELSE SubSeq(v, (CHOOSE i \in commas : \A j \in commas : i <= j) + 1, Len(v))

(* Mutant: every token is taken for a known one.                           *)
KnownTokenUnchecked ==
    LET v == Skip(rest, Space)
    IN  /\ pc = "tokens"
        /\ v # <<>>
        /\ parsed' = [parsed EXCEPT !.connection = @ \cup {v[1]}]
        /\ rest' = BehindComma(v)
        /\ UNCHANGED <<setupVars, pc, head, left, kind, route, status, digest, accept>>


(* The value goes on to the end of the line, so that comparing the shorter *)
(* length asks whether it begins with the token: "closed" does.            *)
KnownToken ==
    LET v == Skip(rest, Space)
    IN  /\ pc = "tokens"
        /\ v # <<>>
        /\ v[1] \in KnownTokens
        /\ parsed' = [parsed EXCEPT !.connection = @ \cup {v[1]}]
        /\ rest' = BehindComma(v)
        /\ UNCHANGED <<setupVars, pc, head, left, kind, route, status, digest, accept>>

(* Nothing is skipped: the next turn finds the same token.                 *)
UnknownToken ==
    LET v == Skip(rest, Space)
    IN  /\ pc = "tokens"
        /\ v # <<>>
        /\ v[1] \notin KnownTokens
        /\ rest' = v
        /\ UNCHANGED <<setupVars, pc, head, left, parsed, kind, route, status, digest, accept>>

TokensEnd ==
    /\ pc = "tokens"
    /\ Skip(rest, Space) = <<>>
    /\ rest' = <<>>
    /\ pc' = "lines"
    /\ UNCHANGED <<setupVars, head, left, parsed, kind, route, status, digest, accept>>

(* The blank line: with or without a body, Poll looks for a handler.       *)
BlankLine ==
    /\ pc = "lines"
    /\ left = <<>>
    /\ pc' = "dispatch"
    /\ UNCHANGED <<setupVars, headVars>>

-----------------------------------------------------------------------------
(* Mutant: the flags of the Connection header are not looked at.           *)
ShouldUpgradeWebsocketAlone ==
    parsed.upgrade /\ parsed.version \in {"HTTP/1.0", "HTTP/1.1"}

ShouldUpgradeWebsocket ==
    /\ parsed.upgrade
    /\ "upgrade" \in parsed.connection
    /\ parsed.version \in {"HTTP/1.0", "HTTP/1.1"}

(* The key UpgradeToWebsocket finds: under one of three names, in the case *)
(* they are written in here, and not empty.                                *)
Keys == {i \in DOMAIN KeyNames : /\ KeyNames[i] \in DOMAIN parsed.text
                                 /\ parsed.text[KeyNames[i]] # <<>>}

(* GetWsAcceptByKey; the buffer has twice the length of the digest.        *)
GetWsAcceptByKey == Base64Encode(digest, 2 * Len(digest))

Result(k, p, code) ==
    /\ pc' = "done"
    /\ kind' = k
    /\ route' = p
    /\ status' = code
    /\ UNCHANGED <<setupVars, head, left, rest, parsed, digest>>

NotFound ==
    /\ pc = "dispatch"
    /\ FindRequestHandler(parsed.uri) = {}
    /\ Result("no_route", <<>>, MakeResponse(404))
    /\ UNCHANGED accept

Upgrade(p) ==
    /\ pc = "dispatch"
    /\ ShouldUpgradeWebsocket
    /\ IF Keys = {}
       THEN Result("upgrade_no_key", p, 0) /\ UNCHANGED accept
       ELSE Result("upgrade", p, MakeResponse(101)) /\ accept' = GetWsAcceptByKey

NoHandler(p) ==
    /\ pc = "dispatch"
    /\ ~ShouldUpgradeWebsocket
    /\ parsed.method \notin handlers[p]
    /\ Result(IF parsed.method = "UNKNOWN" THEN "unknown_method" ELSE "no_method", p, 0)
    /\ UNCHANGED accept

CallHandler(p, code) ==
    /\ pc = "dispatch"
    /\ ~ShouldUpgradeWebsocket
    /\ parsed.method \in handlers[p]
    /\ Result("handled", p, MakeResponse(code))
    /\ UNCHANGED accept

-----------------------------------------------------------------------------
Setup == pc = "setup" /\ (InitCalled \/ CallFails \/ CallSucceeds \/ \E r \in Routes : Register(r))
         /\ UNCHANGED <<pc, headVars>>

Parse == ContentLengthLine \/ UpgradeLine \/ AssignedLine \/ OtherLine \/ NoColonLine
         \/ ConnectionLine \/ KnownToken \/ UnknownToken \/ TokensEnd \/ BlankLine

Dispatch ==
    \/ NotFound
    \/ \E p \in FindRequestHandler(parsed.uri) :
         \/ Upgrade(p)
         \/ NoHandler(p)
         \/ \E code \in StatusCodes : CallHandler(p, code)

Next == Setup \/ (\E h \in Heads : FirstLine(h)) \/ Parse \/ Dispatch

(* The single thread runs on.                                              *)
Spec == Init /\ [][Next]_vars /\ WF_vars(Parse \/ Dispatch)

-----------------------------------------------------------------------------
(* Properties.                                                             *)

(* The type invariant.                                                     *)
TypeOK ==
    /\ at \in 0..Len(Calls)
    /\ ret \in -4..NotCalled
    /\ pc \in {"setup", "lines", "tokens", "dispatch", "done"}
    /\ parsed.method \in KnownMethods \cup {"UNKNOWN"}
    /\ parsed.version \in HttpVersions \cup {"WS", "UNKNOWN"}
    /\ parsed.connection \subseteq KnownTokens
    /\ kind \in {"unparsed", "no_route", "no_method", "unknown_method", "handled",
                 "upgrade", "upgrade_no_key"}

(* Where the elements of a list begin: at its start or behind a comma,     *)
(* spaces aside.                                                           *)
Elements(v) ==
    {i \in DOMAIN v : /\ v[i] \notin {Space, Comma}
                      /\ \E j \in 0..(i - 1) : /\ j = 0 \/ v[j] = Comma
                                               /\ \A k \in (j + 1)..(i - 1) : v[k] = Space}

(* What the elements begin with, and those that are one word.              *)
Listed(v) == {v[i] : i \in Elements(v)}
Words(v) == {v[i] : i \in {i \in Elements(v) : i < Len(v) /\ v[i + 1] \in {Space, Comma, Eol}}}

Lines(h, name) == {h.lines[i] : i \in {i \in DOMAIN h.lines : h.lines[i].name = name}}
Spaced(v) == v[1] = Space

Upgradable == {Http10, Http11}

(* A head that may ask for a websocket: it begins with a method, a version *)
(* is named behind a space, an element behind the first character of a     *)
(* Connection value begins with upgrade, and websocket occurs behind the   *)
(* first character of an Upgrade value.                                    *)
MayAsk(h) ==
    /\ \E m \in KnownMethods : Stands(h.first, 1, MethodName[m])
    /\ \E i \in DOMAIN h.first : /\ h.first[i] = Blank
                                 /\ \E w \in Upgradable : Stands(h.first, i + 1, w)
    /\ \E l \in Lines(h, "connection") : "upgrade" \in Listed(Shortened(l.value))
    /\ \E l \in Lines(h, "upgrade") : "websocket" \in PieceSet(Shortened(l.value))

(* A first line as it should be: method, space, URI, space, version.       *)
ProperFirst(s) ==
    \E m \in KnownMethods, i \in DOMAIN s, w \in Upgradable :
      LET n == Len(MethodName[m])
      IN  /\ Stands(s, 1, MethodName[m])
          /\ n + 2 < i
          /\ s[n + 1] = Blank /\ s[i] = Blank
          /\ \A j \in (n + 2)..(i - 1) : s[j] # Blank
          /\ Stands(s, i + 1, w)
          /\ Len(s) = i + Len(w) + 2

(* A head that asks for a websocket as it should.                          *)
Asks(h) ==
    /\ ProperFirst(h.first)
    /\ \E l \in Lines(h, "connection") : Spaced(l.value) /\ "upgrade" \in Words(l.value)
    /\ \E l \in Lines(h, "upgrade") : Spaced(l.value) /\ "websocket" \in Words(l.value)

HasKey(h) ==
    \E i \in DOMAIN h.lines :
      /\ \E k \in DOMAIN KeyNames : h.lines[i].name = KeyNames[k]
      /\ \A j \in 1..(i - 1) : h.lines[j].name # h.lines[i].name
      /\ Text(h.lines[i].value) # <<>>

(* A request is dispatched as what its head says, whatever the order, the  *)
(* number and the spacing of its header lines: one that asks for a         *)
(* websocket as it should is upgraded wherever a route matches, and no     *)
(* other than one that may ask for it is.  Of two lines with the name of a *)
(* key the first one counts.  A handler is one of a method that the head   *)
(* begins with, or of UNKNOWN.                                             *)
KindIsMeant ==
    pc = "done" =>
      CASE kind = "no_route" -> Candidates(parsed.uri) = {}
        [] kind = "upgrade" -> MayAsk(head) /\ HasKey(head)
        [] kind = "upgrade_no_key" -> MayAsk(head) /\ ~HasKey(head)
        [] OTHER ->
             LET named == {m \in KnownMethods : Stands(head.first, 1, MethodName[m])}
             IN  /\ ~Asks(head)
                 /\ kind = "handled" => handlers[route] \cap (named \cup {"UNKNOWN"}) # {}
                 /\ kind = "unknown_method" => named = {}

(* In whatever order the routes were registered, the one that serves a     *)
(* request is the first of those that match in the order of their texts.   *)
RouteServes == pc = "done" => ServedInOrder(parsed.uri)

(* Whatever code a handler asks for, kStatusMessages has a message for the *)
(* one that is sent: at() does not throw.                                  *)
StatusHasMessage ==
    /\ status # 0 => HasMessage(status)
    /\ kind = "no_route" => status = 404
    /\ kind = "upgrade" => status = 101

(* The client that decodes Sec-WebSocket-Accept gets the digest.           *)
AcceptDecodes == kind = "upgrade" => Decode(accept) = digest

(* A request is dispatched if a space follows the colon of its Connection  *)
(* headers and all that they list begins with a known token.               *)
Harmless(h) ==
    \A l \in Lines(h, "connection") : Spaced(l.value) /\ Listed(l.value) \subseteq KnownTokens


(* "ignore" says the code of a token it does not know: every request is    *)
(* dispatched.                                                             *)
UnknownTokensIgnored == (pc = "lines") ~> (pc = "done")
==============================================================================
