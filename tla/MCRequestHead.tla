----------------------------- MODULE MCRequestHead -----------------------------
EXTENDS RequestHead

(* "/a", "/b", "/a/b", "/a-b", "/ab" and the names of "GET", "POST", ...   *)
A == <<47, 97>>
B == <<47, 98>>
AB == A \o B
Dashed == A \o <<45, 98>>
Longer == A \o <<98>>
X == <<88>>

MCRoutes == {[uri |-> A, methods |-> {"GET"}],
             [uri |-> A \o <<Star>>, methods |-> {"GET", "POST"}],
             [uri |-> <<Star>>, methods |-> {"PUT"}],
             [uri |-> AB, methods |-> {"POST"}],
             [uri |-> Dashed, methods |-> {"GET"}],
             [uri |-> A \o <<Dot, 98>>, methods |-> {"UNKNOWN"}]}

MCDigests == {[i \in 1..20 |-> (37 * i) % 256], [i \in 1..20 |-> 255 - i]}

L(name, value) == [name |-> name, value |-> value \o <<Eol>>]
Request(m, uri, v, ls) ==
    [first |-> MethodName[m] \o <<Blank>> \o uri \o <<Blank>> \o v \o <<CR, LF>>, lines |-> ls]
Get(ls) == Request("GET", A, Http11, ls)
Post(ls) == Request("POST", AB, Http10, ls)
Line1(text) == [first |-> text \o <<CR, LF>>, lines |-> <<>>]

Key == L(KeyNames[1], <<Space, "k">>)
Websocket == L("upgrade", <<Space, "h2c", Comma, Space, "websocket">>)
KeepUpgrade == L("connection", <<Space, "keep-alive", Comma, Space, "upgrade">>)
Closes == L("connection", <<Space, Space, "close">>)

(* Lines in several orders, twice, empty, without a space or a colon;      *)
(* tokens with text around them; methods, versions and URIs that are       *)
(* known, unknown, run together or missing.                                *)
MCHeads == {
    Get(<<Key, Websocket, KeepUpgrade>>),
    Get(<<KeepUpgrade, L("host", <<Space, "a">>), L("host", <<Space, "b">>), Websocket, Key>>),
    Get(<<Closes, L("connection", <<Space, "upgrade">>), Websocket, L(KeyNames[3], <<Space, "k">>)>>),
    Get(<<Websocket, KeepUpgrade>>),
    Get(<<Websocket, KeepUpgrade, L("sec-websocket-key", <<Space, "k">>)>>),
    Get(<<Websocket, KeepUpgrade, L(KeyNames[1], <<Space>>), Key>>),
    Get(<<Websocket, Key, L("connection", <<Space, "keep-alive", Space, "upgrade">>)>>),
    Get(<<Websocket, Key>>),
    Get(<<KeepUpgrade, L("upgrade", <<"websocket">>)>>),
    Get(<<L("upgrade", <<Space, Other, "websocket", Other>>), Key,
          L("connection", <<Space, "upgrade", Other>>)>>),
    Get(<<L("upgrade", <<Other, "websocket">>), L("connection", <<Other, "upgrade">>)>>),
    Get(<<L("connection", <<"close">>)>>),
    Get(<<L("connection", <<Space, "close", Comma, Space, "TE">>)>>),
    Get(<<L(NoName, <<Space>>), Closes>>),
    Post(<<L("content-length", <<Space, "3">>), L("user-agent", <<Space, "u">>)>>),
    Request("GET", Dashed, Http11, <<>>),
    Request("GET", Longer, Http11, <<>>),
    Request("PUT", B, Http20, <<KeepUpgrade, Websocket, Key>>),
    Request("GET", A, Http11 \o <<57>>, <<Websocket, KeepUpgrade, Key>>),
    Request("GET", B, Wss, <<>>),
    Line1(MethodName["GET"] \o X \o <<Blank>> \o A \o <<Blank>> \o Http11),
    Line1(MethodName["GET"] \o X \o <<Blank>> \o Http11),
    Line1(MethodName["GET"] \o <<Blank, Blank>> \o A),
    [first |-> X \o <<Blank>> \o A \o <<Blank>> \o Http11 \o <<CR, LF>>,
     lines |-> <<KeepUpgrade, Websocket, Key>>]}

UnknownTokenHead == {Get(<<L("connection", <<Space, "close", Comma, Space, "TE">>)>>)}
================================================================================
