--------------------------- MODULE MCHttpConnection ---------------------------
EXTENDS HttpConnection

D(i) == <<"dat", i>>
Request(u, n, x, b) == [uri |-> u, length |-> n, extra |-> x, body |-> b]
Get(u) == Request(u, NoLength, 0, <<>>)
Post(n, b) == Request("/a", n, 0, b)

Script(rs, w, k) == [requests |-> rs, waits |-> w, keep |-> k]

(* One request whose body, if any, holds no CR LF.                         *)
Plain == {<<Get("/a")>>, <<Request("/a", NoLength, 1, <<>>)>>,
          <<Post(1, <<D(1)>>)>>, <<Post(3, <<D(1), D(2), D(3)>>)>>}

(* Besides: an unknown URI, a header line longer than the buffer, an empty *)
(* body that is announced, bodies that look like lines, two requests.      *)
Odd == {<<Get("/none")>>, <<Request("/a", NoLength, 5, <<>>)>>,
        <<Post(0, <<>>)>>, <<Post(4, <<D(1), CR, LF, D(2)>>)>>,
        <<Post(3, <<D(1), CR, LF>>)>>,
        <<Get("/a"), Get("/b")>>, <<Post(2, <<D(1), D(2)>>), Get("/b")>>}

AllScripts == {Script(rs, w, ~w) : rs \in Plain \cup Odd, w \in BOOLEAN}
              \cup {Script(<<Get("/a"), Get("/b")>>, FALSE, FALSE)}

OnePost == {Script(<<Post(1, <<D(1)>>)>>, FALSE, FALSE)}
=============================================================================
