------------------------------ MODULE PollServer ------------------------------
(***************************************************************************)
(* The event loop of hpl::Server (hpl_server.cc) and the life cycle of the *)
(* Connection objects it owns: accept, epoll registration, the batch of    *)
(* events one Poll works through, HTTP dispatch, the upgrade to websocket, *)
(* the hooks of the application, CloseConn.                                *)
(*                                                                         *)
(* The interest is in who still points to a Connection when it is freed:   *)
(* the list pending_conns_, the epoll set, the events[] array of the Poll  *)
(* in progress, the application that kept the pointer a handler was given, *)
(* and the BroadcastGroup a websocket joined.                              *)
(*                                                                         *)
(* Left out here: the bytes.  A segment is whatever one client write put   *)
(* in the socket; what the parser makes of it is a choice over             *)
(* RequestKinds.  HttpConnection models the bytes of one connection.       *)
(***************************************************************************)
EXTENDS Integers, FiniteSets

CONSTANTS
    Conns,          \* the Connection objects of a behaviour, one per client
    Listener,       \* server_conn_, the epoll data of the listening socket
    MaxEvents,      \* max_events of Poll
    MaxRx,          \* bound: unread segments a client may have in its socket
    RequestKinds,   \* what the parser makes of the requests clients send
    EdgeTriggered,  \* TRUE when built without SMALL_MEMORY (EPOLLET)
    HasConnectHook, \* the application registers a ws_connect_hook
    JoinsAt,        \* the hook in which it joins the BroadcastGroup
    HoldsConn,      \* its HTTP handlers keep the Connection* to answer later
    WholeFrames     \* what a read() from a websocket returns starts with a
                    \* whole frame: clients do not let TCP split frames and
                    \* send none larger than buffer_

AllKinds == {"no_route", "no_method", "handled", "unknown_method",
             "upgrade", "upgrade_no_key"}

ASSUME ServerAssumption ==
    /\ Listener \notin Conns
    /\ IsFiniteSet(Conns)
    /\ MaxEvents \in Nat \ {0}
    /\ MaxRx \in Nat \ {0}
    /\ RequestKinds \subseteq AllKinds
    /\ {EdgeTriggered, HasConnectHook, HoldsConn, WholeFrames} \subseteq BOOLEAN
    /\ JoinsAt \in {"connect", "ready"}
    /\ JoinsAt = "connect" => HasConnectHook

VARIABLES
    status,   \* "up", or "aborted" once the process is dead
    inPoll,   \* TRUE while Poll works through events[]
    batch,    \* the data.ptr of the events[] not yet processed
    sock,     \* the server's side of each client's socket
    rx,       \* unread segments in the socket
    eof,      \* the client closed or reset its side
    armed,    \* edge-triggered only: an edge epoll_wait has not reported
    heap,     \* the Connection object: "none", "live" or "freed"
    epoll,    \* connections registered in poll_fd
    pending,  \* pending_conns_
    kind,     \* what the parser recognised, "unparsed" before the blank line
    ws,       \* ws_conn_ is set
    held,     \* Connection* the application kept
    group     \* connections whose WebsocketConnection* is in the group

kernelVars == <<sock, rx, eof, armed, epoll>>
connVars   == <<heap, pending, kind, ws>>
appVars    == <<held, group>>
vars == <<status, inPoll, batch, kernelVars, connVars, appVars>>

(* The type invariant: in particular the epoll set, the list, the kept     *)
(* pointers and the group hold clients only, the listening connection is   *)
(* an entry of events[] and nothing else.                                  *)
TypeOK ==
    /\ status \in {"up", "aborted"}
    /\ inPoll \in BOOLEAN
    /\ batch \subseteq Conns \cup {Listener}
    /\ sock \in [Conns -> {"none", "queued", "open", "closed", "leaked"}]
    /\ rx \in [Conns -> 0..MaxRx]
    /\ eof \in [Conns -> BOOLEAN]
    /\ armed \in [Conns -> BOOLEAN]
    /\ heap \in [Conns -> {"none", "live", "freed"}]
    /\ epoll \subseteq Conns
    /\ pending \subseteq Conns
    /\ kind \in [Conns -> RequestKinds \cup {"unparsed"}]
    /\ ws \in [Conns -> BOOLEAN]
    /\ held \subseteq Conns
    /\ group \subseteq Conns

Init ==
    /\ status = "up"
    /\ inPoll = FALSE
    /\ batch = {}
    /\ sock = [c \in Conns |-> "none"]
    /\ rx = [c \in Conns |-> 0]
    /\ eof = [c \in Conns |-> FALSE]
    /\ armed = [c \in Conns |-> FALSE]
    /\ heap = [c \in Conns |-> "none"]
    /\ epoll = {}
    /\ pending = {}
    /\ kind = [c \in Conns |-> "unparsed"]
    /\ ws = [c \in Conns |-> FALSE]
    /\ held = {}
    /\ group = {}

-----------------------------------------------------------------------------
(* Clients: they connect, send and leave while the server does anything.   *)

Connect(c) ==
    /\ status = "up"
    /\ sock[c] = "none"
    /\ sock' = [sock EXCEPT ![c] = "queued"]
    /\ UNCHANGED <<status, inPoll, batch, rx, eof, armed, epoll, connVars, appVars>>

Arm(c) == armed' = [armed EXCEPT ![c] = EdgeTriggered]

Send(c) ==
    /\ status = "up"
    /\ sock[c] \in {"queued", "open"}
    /\ ~eof[c]
    /\ rx[c] < MaxRx
    /\ rx' = [rx EXCEPT ![c] = @ + 1]
    /\ Arm(c)
    /\ UNCHANGED <<status, inPoll, batch, sock, eof, epoll, connVars, appVars>>

(* The client closes (what it sent stays readable) or resets.              *)
Leave(c, unread) ==
    /\ status = "up"
    /\ sock[c] \in {"queued", "open"}
    /\ ~eof[c]
    /\ unread \in {0, rx[c]}
    /\ eof' = [eof EXCEPT ![c] = TRUE]
    /\ rx' = [rx EXCEPT ![c] = unread]
    /\ Arm(c)
    /\ UNCHANGED <<status, inPoll, batch, sock, epoll, connVars, appVars>>

-----------------------------------------------------------------------------
(* epoll, as hpl_server.cc uses it.                                        *)

Readable(c) == IF EdgeTriggered THEN armed[c] ELSE rx[c] > 0 \/ eof[c]

(* Mutant: the listening socket is registered with EPOLLONESHOT and never  *)
(* re-armed after its first accept.                                        *)
ReadyListenerOnce ==
    {c \in epoll : Readable(c)}
    \cup (IF /\ \E c \in Conns : sock[c] = "queued"
             /\ \A c \in Conns : sock[c] \in {"none", "queued"}
          THEN {Listener} ELSE {})

Ready == {c \in epoll : Readable(c)}
         \cup (IF \E c \in Conns : sock[c] = "queued" THEN {Listener} ELSE {})

(* epoll_wait fills events[] with as many of the ready entries as fit, one *)
(* entry per descriptor, in no order the code may rely on.                 *)
EpollWait ==
    /\ status = "up"
    /\ ~inPoll
    /\ \E S \in SUBSET Ready :
          /\ S # {}
          /\ Cardinality(S) <= MaxEvents
          /\ S # Ready => Cardinality(S) = MaxEvents
          /\ batch' = S
          /\ armed' = [c \in Conns |-> armed[c] /\ c \notin S]
    /\ inPoll' = TRUE
    /\ UNCHANGED <<status, sock, rx, eof, epoll, connVars, appVars>>

(* epoll_wait timed out or failed (Poll returns -1).                       *)
PollEmpty ==
    /\ status = "up"
    /\ ~inPoll
    /\ UNCHANGED vars

(* The loop over events[] is through.                                      *)
PollReturn ==
    /\ status = "up"
    /\ inPoll
    /\ batch = {}
    /\ inPoll' = FALSE
    /\ UNCHANGED <<status, batch, kernelVars, connVars, appVars>>

(* A pointer to freed memory or a null pointer is used, or one past the    *)
(* end of a buffer: the build runs under the address sanitizer, which ends *)
(* the process.                                                            *)
Abort ==
    /\ status' = "aborted"
    /\ UNCHANGED <<inPoll, batch, kernelVars, connVars, appVars>>

-----------------------------------------------------------------------------
(* Server::AcceptNewConnection and the accept branch of Poll.              *)

Accepting(c) ==
    /\ status = "up"
    /\ inPoll
    /\ Listener \in batch
    /\ sock[c] = "queued"

(* Mutant: the epoll_event of the new descriptor still carries the pointer *)
(* of the listening connection.                                            *)
AcceptOkWrongPtr(c) ==
    /\ Accepting(c)
    /\ sock' = [sock EXCEPT ![c] = "open"]
    /\ heap' = [heap EXCEPT ![c] = "live"]
    /\ epoll' = epoll \cup {Listener}
    /\ pending' = pending \cup {c}
    /\ batch' = batch \ {Listener}
    /\ UNCHANGED <<status, inPoll, rx, eof, armed, kind, ws, appVars>>

AcceptOk(c) ==
    /\ Accepting(c)
    /\ sock' = [sock EXCEPT ![c] = "open"]
    /\ heap' = [heap EXCEPT ![c] = "live"]
    /\ epoll' = epoll \cup {c}
    /\ pending' = pending \cup {c}
    /\ batch' = batch \ {Listener}
    /\ UNCHANGED <<status, inPoll, rx, eof, armed, kind, ws, appVars>>

(* accept() fails: the client stays in the queue, Poll goes on.            *)
AcceptFails ==
    /\ \E c \in Conns : Accepting(c)
    /\ batch' = batch \ {Listener}
    /\ UNCHANGED <<status, inPoll, kernelVars, connVars, appVars>>

(* setsockopt(SO_KEEPALIVE) fails: nullptr, and nobody closes client_fd.   *)
KeepAliveFails(c) ==
    /\ Accepting(c)
    /\ sock' = [sock EXCEPT ![c] = "leaked"]
    /\ batch' = batch \ {Listener}
    /\ UNCHANGED <<status, inPoll, rx, eof, armed, epoll, connVars, appVars>>

(* Mutant: push_back comes before EPOLL_CTL_ADD, the error return leaves   *)
(* the connection in the list.                                             *)
EpollAddFailsAfterPush(c) ==
    /\ Accepting(c)
    /\ sock' = [sock EXCEPT ![c] = "leaked"]
    /\ heap' = [heap EXCEPT ![c] = "live"]
    /\ pending' = pending \cup {c}
    /\ batch' = {}
    /\ inPoll' = FALSE
    /\ UNCHANGED <<status, rx, eof, armed, epoll, kind, ws, appVars>>

(* EPOLL_CTL_ADD fails: Poll returns -4 at once, dropping the rest of      *)
(* events[]; new_conn is destroyed, its descriptor stays open.             *)
EpollAddFails(c) ==
    /\ Accepting(c)
    /\ sock' = [sock EXCEPT ![c] = "leaked"]
    /\ heap' = [heap EXCEPT ![c] = "freed"]
    /\ batch' = {}
    /\ inPoll' = FALSE
    /\ UNCHANGED <<status, rx, eof, armed, epoll, pending, kind, ws, appVars>>

-----------------------------------------------------------------------------
(* Mutant: only the pending_conns_.remove_if of CloseConn.                 *)
CloseConnsListOnly(S) ==
    /\ pending' = pending \ S
    /\ heap' = [c \in Conns |-> IF c \in S \cap pending THEN "freed" ELSE heap[c]]
    /\ UNCHANGED <<epoll, sock>>

(* Server::CloseConn on each connection of S.  EPOLL_CTL_DEL fails for one *)
(* that is not registered, and then nothing else is done for it.           *)
CloseConns(S) ==
    LET gone == S \cap epoll
    IN  /\ epoll' = epoll \ gone
        /\ sock' = [c \in Conns |-> IF c \in gone THEN "closed" ELSE sock[c]]
        /\ pending' = pending \ gone
        /\ heap' = [c \in Conns |->
                       IF c \in gone \cap pending THEN "freed" ELSE heap[c]]

NoClose == UNCHANGED <<epoll, sock, pending, heap>>

(* The loop over events[] is at the event of connection c.                 *)
Turn(c) ==
    /\ status = "up"
    /\ inPoll
    /\ c \in batch

HttpTurn(c) ==
    /\ Turn(c)
    /\ heap[c] = "live"
    /\ ~ws[c]

HttpEvent(c) ==
    /\ HttpTurn(c)
    /\ batch' = batch \ {c}
    /\ UNCHANGED <<status, inPoll, eof, armed>>

(* Mutant: the -2 of ProcessDataIn is treated like -1, "continue".         *)
HttpClosedContinues(c) ==
    /\ HttpEvent(c)
    /\ rx' = [rx EXCEPT ![c] = 0]
    /\ NoClose
    /\ UNCHANGED <<kind, ws, appVars>>

(* ProcessDataIn returned -2: end of file, a read error, or the buffer     *)
(* filled up without a line (read() of zero bytes).                        *)
HttpClosed(c) ==
    /\ HttpEvent(c)
    /\ rx' = [rx EXCEPT ![c] = 0]
    /\ CloseConns({c})
    /\ UNCHANGED <<kind, ws, appVars>>

(* ProcessDataIn returned -1: the socket is drained, headers incomplete.   *)
HttpIncomplete(c) ==
    /\ HttpEvent(c)
    /\ kind[c] = "unparsed"
    /\ ~eof[c]
    /\ rx' = [rx EXCEPT ![c] = 0]
    /\ NoClose
    /\ UNCHANGED <<kind, ws, appVars>>

(* Mutant: end of file is reported like EAGAIN.                            *)
ReadsEofAsAgain(c) == IF rx[c] > 0 THEN 1..rx[c] ELSE {0}

(* How much may be read: at least one segment when there is one, nothing   *)
(* (EAGAIN) when an edge reported what an earlier event has read already.  *)
Reads(c) == IF rx[c] > 0 THEN 1..rx[c] ELSE IF eof[c] THEN {} ELSE {0}

(* ProcessDataIn may return 0 or 1 with a request of kind k.  The parser   *)
(* is never reset, so a connection keeps the kind of its first request.    *)
Recognised(c, k) ==
    IF kind[c] = "unparsed"
    THEN k \in RequestKinds /\ rx[c] > 0
    ELSE k = kind[c] /\ Reads(c) # {}

(* It stops at the end of the headers, a body line or a body chunk, and    *)
(* leaves in the socket what it has not read.                              *)
ProcessDataIn(c, k) ==
    /\ HttpEvent(c)
    /\ Recognised(c, k)
    /\ kind' = [kind EXCEPT ![c] = k]
    /\ \E n \in Reads(c) : rx' = [rx EXCEPT ![c] = @ - n]

(* No handler matches the URI (404 is written), or none is set for the     *)
(* method, or the handler returns -1.                                      *)
DispatchCloses(c) ==
    /\ \E k \in {"no_route", "no_method", "handled"} : ProcessDataIn(c, k)
    /\ CloseConns({c})
    /\ UNCHANGED <<ws, appVars>>

(* The handler returns 0; it may keep the Connection* to answer later.     *)
DispatchKeeps(c) ==
    /\ ProcessDataIn(c, "handled")
    /\ NoClose
    /\ held' = IF HoldsConn THEN held \cup {c} ELSE held
    /\ UNCHANGED <<ws, group>>

(* http_handlers[UNKNOWN] is one past the array, the storage of            *)
(* ws_connect_hook.  Empty, it reads as "no handler".  Set, it is called   *)
(* as a function of another type: the process dies or it returns anything. *)
DispatchUnknownMethod(c) ==
    /\ ProcessDataIn(c, "unknown_method")
    /\ CloseConns({c}) \/ (HasConnectHook /\ NoClose)
    /\ UNCHANGED <<ws, appVars>>

UnknownMethodAborts(c) ==
    /\ HttpTurn(c)
    /\ Recognised(c, "unknown_method")
    /\ HasConnectHook
    /\ Abort

(* UpgradeToWebsocket finds no key and returns nullptr, which the log line *)
(* after it dereferences.                                                  *)
UpgradeNoKey(c) ==
    /\ HttpTurn(c)
    /\ Recognised(c, "upgrade_no_key")
    /\ Abort

(* ws_connect_hook returns -1: closed before the 101 response.             *)
UpgradeRejected(c) ==
    /\ HasConnectHook
    /\ ProcessDataIn(c, "upgrade")
    /\ ws' = [ws EXCEPT ![c] = TRUE]
    /\ CloseConns({c})
    /\ UNCHANGED appVars

(* Both hooks ran, 101 was written in between.  ready is the result of     *)
(* ws_ready_hook: -1 closes the connection, without ws_will_close_hook.    *)
(* The hook that joins the group does so only when it accepts.             *)
UpgradeDone(c, ready) ==
    /\ ProcessDataIn(c, "upgrade")
    /\ ws' = [ws EXCEPT ![c] = TRUE]
    /\ group' = IF JoinsAt = "connect" \/ ready = 0 THEN group \cup {c} ELSE group
    /\ CloseConns(IF ready = -1 THEN {c} ELSE {})
    /\ UNCHANGED held

-----------------------------------------------------------------------------
(* An event for an upgraded connection: WebsocketConnection::Read.         *)

WsTurn(c) ==
    /\ Turn(c)
    /\ heap[c] = "live"
    /\ ws[c]

WsEvent(c) ==
    /\ WsTurn(c)
    /\ batch' = batch \ {c}
    /\ UNCHANGED <<status, inPoll, eof, armed, kind, ws, held>>

(* A frame was read and handled; where the bytes read do not hold the      *)
(* frame they start with, that is what the memory behind them makes of it. *)
WsKeeps(c) ==
    /\ WsEvent(c)
    /\ \E n \in Reads(c) : rx' = [rx EXCEPT ![c] = @ - n]
    /\ NoClose
    /\ UNCHANGED group

(* Connection::Read returned 0 for EAGAIN and buffer_ is empty: the header *)
(* of the frame is looked for at a null pointer.                           *)
WsReadsNothing(c) ==
    /\ WsTurn(c)
    /\ 0 \in Reads(c)
    /\ Abort

(* The header, the mask or the payload is looked for behind the bytes that *)
(* were read (WebsocketConnection has the bytes).                          *)
WsReadsPastEnd(c) ==
    /\ WsTurn(c)
    /\ ~WholeFrames
    /\ rx[c] > 0
    /\ Abort

(* Mutant: CloseConn without ws_will_close_hook.                           *)
WsClosesWithoutHook(c) ==
    /\ WsEvent(c)
    /\ rx' = [rx EXCEPT ![c] = 0]
    /\ CloseConns({c})
    /\ UNCHANGED group

(* Read returned -1: a close frame, end of file, or the message handler    *)
(* said so.  ws_will_close_hook runs, then CloseConn.                      *)
WsCloses(c) ==
    /\ WsEvent(c)
    /\ rx' = [rx EXCEPT ![c] = 0]
    /\ group' = group \ {c}
    /\ CloseConns({c})

-----------------------------------------------------------------------------
(* The application, between two calls of Poll.                             *)

(* The answer to a kept request is there: Write, then Close().             *)
AsyncReply(c) ==
    /\ status = "up"
    /\ ~inPoll
    /\ c \in held
    /\ heap[c] = "live"
    /\ held' = held \ {c}
    /\ CloseConns({c})
    /\ UNCHANGED <<status, inPoll, batch, rx, eof, armed, kind, ws, group>>

AsyncReplyStale(c) ==
    /\ status = "up"
    /\ ~inPoll
    /\ c \in held
    /\ heap[c] # "live"
    /\ Abort

(* BroadcastGroup::Broadcast asks every member for its descriptor.         *)
Broadcast ==
    /\ status = "up"
    /\ ~inPoll
    /\ group # {}
    /\ \A c \in group : heap[c] = "live"
    /\ UNCHANGED vars

BroadcastStale ==
    /\ status = "up"
    /\ ~inPoll
    /\ \E c \in group : heap[c] # "live"
    /\ Abort

-----------------------------------------------------------------------------
Client(c) ==
    \/ Connect(c)
    \/ Send(c)
    \/ \E unread \in 0..MaxRx : Leave(c, unread)

Accept(c) ==
    \/ AcceptOk(c)
    \/ KeepAliveFails(c)
    \/ EpollAddFails(c)

Dispatch(c) ==
    \/ HttpClosed(c)
    \/ HttpIncomplete(c)
    \/ DispatchCloses(c)
    \/ DispatchKeeps(c)
    \/ DispatchUnknownMethod(c)
    \/ UpgradeRejected(c)
    \/ \E ready \in {-1, 0} : UpgradeDone(c, ready)
    \/ WsKeeps(c)
    \/ WsCloses(c)

Die(c) ==
    \/ UnknownMethodAborts(c)
    \/ UpgradeNoKey(c)
    \/ WsReadsNothing(c)
    \/ WsReadsPastEnd(c)
    \/ AsyncReplyStale(c)

Next ==
    \/ \E c \in Conns :
          Client(c) \/ Accept(c) \/ Dispatch(c) \/ AsyncReply(c) \/ Die(c)
    \/ EpollWait
    \/ PollEmpty
    \/ PollReturn
    \/ AcceptFails
    \/ Broadcast
    \/ BroadcastStale

Spec == Init /\ [][Next]_vars

(* The listening socket's event.                                          *)
ListenerEvent == AcceptFails \/ \E c \in Conns : Accept(c)

(* The application calls Poll in an endless loop (every main() of          *)
(* examples/), Poll works through its batch, and accept() does not fail    *)
(* for ever.  Nothing is assumed of the clients or of the application.     *)
Fairness ==
    /\ WF_vars(EpollWait)
    /\ WF_vars(PollReturn)
    /\ \A c \in Conns : WF_vars(Dispatch(c))
    /\ WF_vars(ListenerEvent)
    /\ SF_vars(\E c \in Conns : Accept(c))

FairSpec == Spec /\ Fairness

-----------------------------------------------------------------------------
(* Properties.                                                             *)

(* What CloseConn and the accept branch maintain together, whatever the    *)
(* application does: the list, the epoll set, the live objects and the     *)
(* open descriptors are the same connections.  So CloseConn never takes    *)
(* its error return and leaves a connection half closed, and the only      *)
(* descriptors without an owner are those the two failing branches of      *)
(* AcceptNewConnection and Poll leave behind.                              *)
Ownership ==
    /\ pending = epoll
    /\ \A c \in Conns :
          /\ c \in pending <=> heap[c] = "live"
          /\ c \in pending <=> sock[c] = "open"

(* Every entry of events[] still to be processed points to a live          *)
(* Connection: no connection is freed by the event of another one.         *)
BatchLive == \A c \in batch \cap Conns : heap[c] = "live"

(* The pointers a handler kept stay valid until the application uses them. *)
HeldLive == \A c \in held : heap[c] = "live"

(* An application that joins in ws_ready_hook and leaves in                *)
(* ws_will_close_hook has exactly the live websockets in its group: the    *)
(* hooks are paired on every path of Poll that ends a connection.          *)
GroupIsLiveWebsockets == group = {c \in pending : ws[c]}

(* The process survives: no event finds a null pointer or a frame that is  *)
(* not there, no answer and no broadcast a freed connection (that no event *)
(* finds one is BatchLive).  Claimed for the deployments of Disciplined;   *)
(* each of its conjuncts keeps one action of Die from being enabled.       *)
NoAbort == status = "up"

(* What makes these three inductive.  events[] is only in use inside Poll; *)
(* a kept connection was dispatched as a plain request and is never        *)
(* upgraded; only an accepted connection is upgraded; an event in the      *)
(* batch still has something to read (level-triggered).                    *)
BatchScope == ~inPoll => batch = {}

UpgradeScope ==
    /\ \A c \in held : kind[c] = "handled"
    /\ \A c \in Conns : ws[c] => /\ kind[c] = "upgrade"
                                 /\ sock[c] \in {"open", "closed"}

BatchReadable == \A c \in batch \cap Conns : rx[c] > 0 \/ eof[c]

(* The deployments NoAbort is claimed for: the level-triggered build, an   *)
(* application that keeps no Connection* beyond its handler, joins its     *)
(* group in ws_ready_hook, and clients whose upgrades carry a key, whose   *)
(* websocket frames arrive whole, and whose methods are known unless no    *)
(* ws_connect_hook is set.                                                 *)
Disciplined ==
    /\ EdgeTriggered = FALSE
    /\ HoldsConn = FALSE
    /\ WholeFrames = TRUE
    /\ JoinsAt = "ready"
    /\ "upgrade_no_key" \notin RequestKinds
    /\ "unknown_method" \in RequestKinds => HasConnectHook = FALSE

(* A connection whose client is gone is closed and freed.                  *)
PeerCloseFrees ==
    \A c \in Conns : (c \in pending /\ eof[c]) ~> c \notin pending

(* A client that connected leaves the accept queue.                        *)
QueuedAccepted ==
    \A c \in Conns : (sock[c] = "queued") ~> (sock[c] # "queued")
=============================================================================
