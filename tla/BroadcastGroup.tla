---------------------------- MODULE BroadcastGroup ----------------------------
(***************************************************************************)
(* hpl::BroadcastGroup (hpl_broadcast_group.cc): one message is written to *)
(* a pipe, duplicated with tee into the pipe of every member but the last, *)
(* spliced into the pipe of the last one, and spliced from the members'    *)
(* pipes into their sockets.  All descriptors are non-blocking, pipes are  *)
(* bounded, and no result but that of the two writes is looked at.         *)
(*                                                                         *)
(* A byte is a pair <<message, index>>; the header is the first            *)
(* HeaderSize bytes of a message.  How much a socket takes is up to the    *)
(* client.  PollServer models who may still be a member when it is freed;  *)
(* here a member's socket is open.                                         *)
(*                                                                         *)
(* An entry of connections_ is a pipe and the websocket it leads to.  Join *)
(* does not look whether the websocket has one already: it may have        *)
(* several, and Leave ends the first.                                      *)
(***************************************************************************)
EXTENDS Integers, Sequences, FiniteSets

CONSTANTS
    Conns,         \* the websockets that may join
    Pipes,         \* bound: the pipes that successful calls of Join make
    HeaderSize,    \* header.second
    PayloadSizes,  \* the sizes of data
    PipeSize,      \* what a pipe holds, in bytes
    MaxMessages    \* bound: calls of Broadcast

MainPipe == "main"
NoPipe == "none"
NoConn == "nobody"

ASSUME GroupAssumption ==
    /\ MainPipe \notin Pipes /\ NoPipe \notin Pipes
    /\ NoConn \notin Conns
    /\ HeaderSize \in Nat \ {0}
    /\ PayloadSizes \subseteq Nat
    /\ PipeSize \in Nat
    /\ MaxMessages \in Nat

VARIABLES
    created,  \* the constructor got its pipe
    members,  \* connections_ in order, each entry by its pipe
    owner,    \* the websocket of each entry
    opened,   \* the pipes whose descriptors are open
    main,     \* the bytes in pipefd_
    pipe,     \* the bytes in the pipe of each entry
    taken,    \* the bytes its websocket's socket has taken from it
    sent,     \* history: messages Broadcast was called with
    log,      \* history: the bytes of those that reached the pipe
    joined,   \* history: how long log was when the entry was made
    short     \* history: the pipes that could not take all of a message

vars == <<created, members, owner, opened, main, pipe, taken, sent, log, joined, short>>

Members == {members[i] : i \in DOMAIN members}
Last == members[Len(members)]
Take(s, n) == SubSeq(s, 1, n)
Drop(s, n) == SubSeq(s, n + 1, Len(s))
Least(m, n) == IF m <= n THEN m ELSE n

Init ==
    /\ created \in BOOLEAN
    /\ members = <<>>
    /\ owner = [p \in Pipes |-> NoConn]
    /\ opened = {}
    /\ main = <<>>
    /\ pipe = [p \in Pipes |-> <<>>]
    /\ taken = [p \in Pipes |-> <<>>]
    /\ sent = 0
    /\ log = <<>>
    /\ joined = [p \in Pipes |-> -1]
    /\ short = {}

(* pipe() makes a pipe p that was not there before.                        *)
Join(c, p) ==
    /\ joined[p] = -1
    /\ members' = Append(members, p)
    /\ owner' = [owner EXCEPT ![p] = c]
    /\ opened' = opened \cup {p}
    /\ joined' = [joined EXCEPT ![p] = Len(log)]
    /\ UNCHANGED <<created, main, pipe, taken, sent, log, short>>

(* Mutant: Join does not return when pipe() failed.                        *)
JoinFailsGoesOn ==
    /\ members' = Append(members, NoPipe)
    /\ UNCHANGED <<created, owner, opened, main, pipe, taken, sent, log, joined, short>>

(* pipe() failed: -1.                                                      *)
JoinFails == UNCHANGED vars

(* Mutant: every entry of the websocket is erased, one pipe is closed.     *)
LeaveErasesAll(c) ==
    /\ \E i \in DOMAIN members :
          /\ owner[members[i]] = c
          /\ \A j \in 1..(i - 1) : owner[members[j]] # c
          /\ members' = SelectSeq(members, LAMBDA p : owner[p] # c)
          /\ opened' = opened \ {members[i]}
          /\ pipe' = [pipe EXCEPT ![members[i]] = <<>>]
    /\ UNCHANGED <<created, owner, main, taken, sent, log, joined, short>>

(* Leave erases the first entry that find_if meets and closes its pipe:    *)
(* what the pipe holds is gone.                                            *)
Leave(c) ==
    /\ \E i \in DOMAIN members :
          /\ owner[members[i]] = c
          /\ \A j \in 1..(i - 1) : owner[members[j]] # c
          /\ members' = Take(members, i - 1) \o Drop(members, i)
          /\ opened' = opened \ {members[i]}
          /\ pipe' = [pipe EXCEPT ![members[i]] = <<>>]
    /\ UNCHANGED <<created, owner, main, taken, sent, log, joined, short>>

-----------------------------------------------------------------------------
Message(n) == [i \in 1..(HeaderSize + n) |-> <<sent + 1, i>>]

(* Broadcast goes beyond its two early returns.                            *)
Called ==
    /\ created
    /\ members # <<>>
    /\ sent < MaxMessages
    /\ sent' = sent + 1
    /\ UNCHANGED <<created, members, owner, opened, joined>>

Free(p) == PipeSize - Len(p)

(* The header is refused, or the header is written and the payload is      *)
(* refused: -1, and the header stays in the pipe.                          *)
WriteFails(n) ==
    /\ Called
    /\ \/ Free(main) < HeaderSize /\ UNCHANGED <<main, log>>
       \/ /\ Free(main) >= HeaderSize
          /\ Free(main) < HeaderSize + n
          /\ main' = main \o Take(Message(n), HeaderSize)
          /\ log' = log \o Take(Message(n), HeaderSize)
    /\ short' = short \cup {MainPipe}
    /\ UNCHANGED <<pipe, taken>>

(* What write() puts in the pipe of a message that does not fail: all of   *)
(* it, or as much of the payload as there is room for.                     *)
Written(n) == Take(Message(n), Least(HeaderSize + n, Free(main)))

(* tee or splice from the main pipe into the pipe of an entry.             *)
Filled(source, p, n) == Least(Least(HeaderSize + n, Len(source)), Free(pipe[p]))

(* Mutant: the last entry is served with tee like the others.              *)
MovedTee(source, n) == 0

(* The splice to the last entry is what empties the main pipe.             *)
Moved(source, n) == Filled(source, Last, n)

PipeIn(source, p, n) == pipe[p] \o Take(source, Filled(source, p, n))

(* All of Broadcast: the writes, n_conns - 1 tees, the splice, and one     *)
(* splice per entry into its socket, which takes[p] bytes.                 *)
Broadcast(n, takes) ==
    LET source == main \o Written(n)
        full(p) == PipeIn(source, p, n)
    IN  /\ Called
        /\ Free(main) >= HeaderSize
        /\ n > 0 => Free(main) > HeaderSize
        /\ \A p \in Members : takes[p] <= Least(HeaderSize + n, Len(full(p)))
        /\ log' = log \o Written(n)
        /\ main' = Drop(source, Moved(source, n))
        /\ pipe' = [p \in Pipes |-> IF p \in Members THEN Drop(full(p), takes[p]) ELSE pipe[p]]
        /\ taken' = [p \in Pipes |-> IF p \in Members THEN taken[p] \o Take(full(p), takes[p])
                                     ELSE taken[p]]
        /\ short' = short
             \cup {p \in Members : Filled(source, p, n) < HeaderSize + n}
             \cup {p \in {MainPipe} : \/ Len(Written(n)) < HeaderSize + n
                                      \/ Filled(source, Last, n) < HeaderSize + n}

-----------------------------------------------------------------------------
Next ==
    \/ \E c \in Conns : Leave(c) \/ \E p \in Pipes : Join(c, p)
    \/ JoinFails
    \/ \E n \in PayloadSizes :
          \/ WriteFails(n)
          \/ \E takes \in [Members -> 0..(HeaderSize + n)] : Broadcast(n, takes)

Spec == Init /\ [][Next]_vars

-----------------------------------------------------------------------------
(* Properties.                                                             *)

(* The type invariant: every entry has a pipe and a websocket, and no pipe *)
(* holds more than it can.                                                 *)
TypeOK ==
    /\ created \in BOOLEAN
    /\ Members \subseteq Pipes
    /\ \A p \in Members : owner[p] \in Conns /\ joined[p] \in 0..Len(log)
    /\ Len(main) <= PipeSize
    /\ \A p \in Pipes : Len(pipe[p]) <= PipeSize
    /\ short \subseteq Pipes \cup {MainPipe}

(* The open pipes are those of the entries, however often a websocket has  *)
(* joined and left: Leave closes the pipe of the entry it erases and of no *)
(* other, so that no descriptor is lost and none is used after its close.  *)
PipesOwned == opened = Members

(* What an entry was handed since it was made.                             *)
Stream(p) == taken[p] \o pipe[p]

(* As long as the last entry has never been too slow, every entry whose    *)
(* own pipe has always had room is sent, byte for byte and in order, what  *)
(* was broadcast since it joined: a slow member in front of the last harms *)
(* only itself, and a socket that takes little harms nobody.  A websocket  *)
(* that joined twice is sent all of it twice.                              *)
Isolation ==
    MainPipe \notin short =>
        /\ main = <<>>
        /\ \A p \in Members \ short : Stream(p) = Drop(log, joined[p])
=============================================================================
