----------------------------- MODULE ServerSetup -----------------------------
(***************************************************************************)
(* Server::Init with the system calls it makes, one try after another, and *)
(* the route table: RegisterRequestHandler and FindRequestHandler          *)
(* (hpl_server.cc).                                                        *)
(*                                                                         *)
(* A route, a pattern and a URI are texts: sequences of character codes,   *)
(* without NUL, where the code's views of them end.                        *)
(***************************************************************************)
EXTENDS Joining

CONSTANTS
    Routes,   \* what the application registers: [uri, methods]
    MaxTries  \* bound: calls of Init

Char == 1..255
Star == 42
Dot == 46
CR == 13
LF == 10

(* The other characters that mean something in a std::regex.               *)
Operators == {36, 40, 41, 43, 63, 91, 92, 93, 94, 123, 124, 125}

ASSUME SetupAssumption ==
    /\ \A r \in Routes : r.uri \in Seq(Char)
    /\ \A r \in Routes : \A i, j \in DOMAIN r.uri :
         /\ r.uri[i] \notin Operators
         /\ r.uri[i] = Star /\ r.uri[j] = Star => i = j
    /\ MaxTries \in Nat

VARIABLES
    tries,     \* calls of Init so far
    at,        \* the system call Init is at; 0 outside of it
    ret,       \* what Init returned last
    failed,    \* history: what it returned before
    listening, \* sockets that listen, by the try that made them
    polled,    \* those registered with poll_fd
    handlers   \* request_handlers: pattern -> methods it has handlers for

setupVars == <<tries, at, ret, failed, listening, polled, handlers>>

NotCalled == 1

SetupInit ==
    /\ tries = 0
    /\ at = 0
    /\ ret = NotCalled
    /\ failed = {}
    /\ listening = {}
    /\ polled = {}
    /\ handlers = [p \in {} |-> {}]

-----------------------------------------------------------------------------
(* The system calls of Init in order, with what it returns when one fails. *)
Call(name, code) == [name |-> name, code |-> code]

Calls == <<Call("epoll_create1", -1), Call("socket", -2), Call("SO_REUSEADDR", -3),
           Call("SO_REUSEPORT", -3), Call("bind", -3), Call("listen", -4),
           Call("epoll_ctl", -4)>>

InitCalled ==
    /\ at = 0
    /\ ret # 0
    /\ tries < MaxTries
    /\ tries' = tries + 1
    /\ at' = 1
    /\ UNCHANGED <<ret, failed, listening, polled, handlers>>

(* Mutant: a failed listen does not end Init.                              *)
CallFailsListenIgnored ==
    /\ at # 0
    /\ at' = IF Calls[at].name = "listen" THEN at + 1 ELSE 0
    /\ ret' = Calls[at].code
    /\ failed' = failed \cup {Calls[at].code}
    /\ UNCHANGED <<tries, listening, polled, handlers>>

(* Nothing made so far is closed.                                          *)
CallFails ==
    /\ at # 0
    /\ at' = 0
    /\ ret' = Calls[at].code
    /\ failed' = failed \cup {Calls[at].code}
    /\ UNCHANGED <<tries, listening, polled, handlers>>

CallSucceeds ==
    /\ at # 0
    /\ at' = (at + 1) % (Len(Calls) + 1)
    /\ ret' = IF at' = 0 THEN 0 ELSE ret
    /\ listening' = IF Calls[at].name = "listen" THEN listening \cup {tries} ELSE listening
    /\ polled' = CASE Calls[at].name = "epoll_create1" -> {}
                   [] Calls[at].name = "epoll_ctl" -> {tries}
                   [] OTHER -> polled
    /\ UNCHANGED <<tries, failed, handlers>>

-----------------------------------------------------------------------------
(* RegisterRequestHandler puts a "." in front of every "*".                *)
Pattern(uri) ==
    Joined([i \in 1..Len(uri) |-> IF uri[i] = Star THEN <<Dot, Star>> ELSE <<uri[i]>>])

Register(r) ==
    /\ at = 0
    /\ handlers' = [p \in DOMAIN handlers \cup {Pattern(r.uri)} |->
                      IF p = Pattern(r.uri) THEN r.methods ELSE handlers[p]]
    /\ UNCHANGED <<tries, at, ret, failed, listening, polled>>

(* std::regex_match: "." stands for any character but a line end, ".*"    *)
(* for any text without one, every other character for itself.             *)
Fits(c, x) == c = x \/ (x = Dot /\ c \notin {CR, LF})

Stars(p) == {i \in DOMAIN p : p[i] = Star}

RegexMatch(u, p) ==
    IF Stars(p) = {} THEN Len(u) = Len(p) /\ \A j \in 1..Len(p) : Fits(u[j], p[j])
    ELSE \E i \in Stars(p) :
           LET before == i - 2
               after == Len(p) - i
           IN  /\ Len(u) >= before + after
               /\ \A j \in 1..before : Fits(u[j], p[j])
               /\ \A j \in 1..after : Fits(u[Len(u) - after + j], p[i + j])
               /\ \A j \in before + 1 .. Len(u) - after : u[j] \notin {CR, LF}

(* The order of the keys of request_handlers, a std::map.                  *)
TextLess(p, q) ==
    \/ Len(p) < Len(q) /\ p = SubSeq(q, 1, Len(p))
    \/ \E i \in DOMAIN p \cap DOMAIN q :
         /\ \A j \in 1..(i - 1) : p[j] = q[j]
         /\ p[i] < q[i]

Candidates(uri) == {p \in DOMAIN handlers : RegexMatch(uri, p)}

(* Mutant: the last match is kept.                                         *)
FindRequestHandlerLast(uri) ==
    {p \in Candidates(uri) : \A q \in Candidates(uri) \ {p} : TextLess(q, p)}

(* The first match in the order of the map; none is the empty set.         *)
FindRequestHandler(uri) ==
    {p \in Candidates(uri) : \A q \in Candidates(uri) \ {p} : TextLess(p, q)}

-----------------------------------------------------------------------------
(* Properties.                                                             *)

(* Once Init has returned 0, the socket poll_fd watches listens; another   *)
(* one that listens, and whose clients nobody accepts, is only there after *)
(* a try that returned -4.                                                 *)
ListenersPolled ==
    ret = 0 => /\ polled # {} /\ polled \subseteq listening
               /\ polled # listening => -4 \in failed

(* The text of a pattern in front of its ".*".                             *)
LiteralLength(p) == IF Stars(p) = {} THEN Len(p) ELSE (CHOOSE i \in Stars(p) : TRUE) - 2

(* A pattern of a route that has no "." of its own.                        *)
Dotless(p) == \A i \in DOMAIN p : p[i] = Dot => i + 1 \in Stars(p)

(* Which of several routes that match a URI serves it.  Where a wildcard   *)
(* begins, the character of the URI decides: the wildcard shadows every    *)
(* longer route that goes on with a character behind "." (a letter, a      *)
(* digit, "/"), and gives way to one that goes on with a character before  *)
(* it ("-", ",", "%").  A route without a wildcard comes before the same   *)
(* text with one.                                                          *)
ServedInOrder(uri) ==
    \A p \in FindRequestHandler(uri) : \A q \in Candidates(uri) :
      LET m == LiteralLength(p)
          n == LiteralLength(q)
      IN  Dotless(p) /\ Dotless(q) =>
            /\ m < n => uri[m + 1] > Dot
            /\ m > n => uri[n + 1] < Dot
            /\ m = n => (Stars(p) # {} => Stars(q) # {})
==============================================================================
