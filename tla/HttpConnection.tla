---------------------------- MODULE HttpConnection ----------------------------
(***************************************************************************)
(* One HTTP connection, byte by byte: the client's writes, the socket, the *)
(* read loop Connection::ProcessDataIn with Read and PopLine, the line     *)
(* states of HttpHeaderParser::PushLine, and the call of the handler that  *)
(* Server::Poll makes with what ProcessDataIn returned (hpl_connection.cc, *)
(* hpl_header_parser.cc, hpl_server.cc).                                   *)
(*                                                                         *)
(* A byte is a pair <<what it is, value>>.  The text of a request line, of *)
(* a header line and of a body is abstracted to single bytes; CR and LF    *)
(* are bytes of their own, so that a read may split them.  The build is    *)
(* the one of httpoll.mk: SMALL_MEMORY set, level-triggered epoll.         *)
(* Upgrades are in PollServer.                                             *)
(***************************************************************************)
EXTENDS Joining

CONSTANTS
    Scripts,    \* what clients and handlers do: [requests, waits, keep]
    Routes,     \* URIs a handler is registered for
    BufferSize  \* SMALL_MEMORY

NoLength == -1
NoUri == ""

(* A request: its URI, its Content-Length (or NoLength), how long its      *)
(* extra header line is (0: it has none), and its body.                    *)
Requests == [uri : STRING, length : Nat \cup {NoLength}, extra : Nat,
             body : Seq({"dat", "cr", "lf"} \X Nat)]

(* A client that waits sends its first body only after the first call of   *)
(* the handler; a handler that keeps returns 0 for the last part too.      *)
ASSUME ConnectionAssumption ==
    /\ \A s \in Scripts : /\ s.requests \in Seq(Requests)
                          /\ s.requests # <<>>
                          /\ s.waits \in BOOLEAN
                          /\ s.keep \in BOOLEAN
    /\ NoUri \in STRING
    /\ Routes \subseteq STRING \ {NoUri}
    /\ BufferSize \in Nat \ {0}

(* A byte on the wire: a request line, a Content-Length header, another    *)
(* header, body text, CR or LF.                                            *)
Byte == ({"req"} \X STRING) \cup ({"cl", "hdr", "dat", "cr", "lf"} \X Nat)

CR == <<"cr", 0>>
LF == <<"lf", 0>>
NewLine == <<CR, LF>>

(* The bytes of a request on the wire.                                     *)
HeadBytes(r) ==
    <<<<"req", r.uri>>>> \o NewLine
    \o (IF r.length = NoLength THEN <<>> ELSE <<<<"cl", r.length>>>> \o NewLine)
    \o (IF r.extra = 0 THEN <<>> ELSE [i \in 1..r.extra |-> <<"hdr", 0>>] \o NewLine)
    \o NewLine

Wire(s) ==
    Joined([i \in 1..Len(s.requests) |-> HeadBytes(s.requests[i]) \o s.requests[i].body])

VARIABLES
    script,       \* this client and its handler
    toSend,       \* its bytes not yet written
    sock,         \* bytes in the server's socket
    eof,          \* the client closed its side
    open,         \* the server has not closed the connection
    buffer,       \* buffer_
    parser,       \* the HttpHeaderParser: state_, uri_, lengths
    partialBody,  \* partial_body_
    pc,           \* where ProcessDataIn is
    ret,          \* what it returned
    calls,        \* history: the calls of the handler
    pushed        \* history: the bytes given to PushLine

clientVars == <<script, toSend>>
vars == <<script, toSend, sock, eof, open, buffer, parser, partialBody, pc,
          ret, calls, pushed>>

Init ==
    /\ script \in Scripts
    /\ toSend = Wire(script)
    /\ sock = <<>>
    /\ eof = FALSE
    /\ open = TRUE
    /\ buffer = <<>>
    /\ parser = [state |-> "FirstLine", uri |-> NoUri, length |-> NoLength, bodyLength |-> 0]
    /\ partialBody = <<>>
    /\ pc = "wait"
    /\ ret = -1
    /\ calls = <<>>
    /\ pushed = <<>>

Drop(s, n) == SubSeq(s, n + 1, Len(s))
Take(s, n) == SubSeq(s, 1, n)
Least(m, n) == IF m <= n THEN m ELSE n

-----------------------------------------------------------------------------
(* The client writes any number of bytes, or closes.                       *)

HeadLeft == Len(HeadBytes(script.requests[1])) - (Len(Wire(script)) - Len(toSend))

Send(n) ==
    /\ ~eof
    /\ open
    /\ n \in 1..Len(toSend)
    /\ script.waits => calls # <<>> \/ n <= HeadLeft
    /\ sock' = sock \o Take(toSend, n)
    /\ toSend' = Drop(toSend, n)
    /\ UNCHANGED <<script, eof, open, buffer, parser, partialBody, pc, ret, calls, pushed>>

ClientClose ==
    /\ ~eof
    /\ open
    /\ eof' = TRUE
    /\ UNCHANGED <<clientVars, sock, open, buffer, parser, partialBody, pc, ret, calls, pushed>>

-----------------------------------------------------------------------------
(* Poll gets EPOLLIN for the connection (level-triggered).                 *)
EpollIn ==
    /\ pc = "wait"
    /\ open
    /\ sock # <<>> \/ eof
    /\ pc' = "read"
    /\ UNCHANGED <<clientVars, sock, eof, open, buffer, parser, partialBody, ret, calls, pushed>>

(* Mutant: the enumerator itself is returned.                              *)
StateRetOrdinal(state) == CASE state = "FirstLine" -> 0
                            [] state = "Headers" -> 1
                            [] state = "Body" -> 2
                            [] state = "Done" -> 3

(* state_ret of ProcessDataIn.                                             *)
StateRet(state) == CASE state = "Body" -> 0
                     [] state = "Done" -> 1
                     [] OTHER -> -1

Return(r) == pc' = "dispatch" /\ ret' = r

(* Mutants: the length asked for ignores what is in the buffer already;    *)
(* the new bytes are inserted at buffer_.begin().                          *)
ReadDataFullLength ==
    /\ pc = "read"
    /\ LET n == Least(BufferSize, Len(sock))
       IN  /\ n > 0
           /\ buffer' = buffer \o Take(sock, n)
           /\ sock' = Drop(sock, n)
    /\ pc' = "line"
    /\ UNCHANGED <<clientVars, eof, open, parser, partialBody, ret, calls, pushed>>

ReadDataPrepends ==
    /\ pc = "read"
    /\ LET n == Least(BufferSize - Len(buffer), Len(sock))
       IN  /\ n > 0
           /\ buffer' = Take(sock, n) \o buffer
           /\ sock' = Drop(sock, n)
    /\ pc' = "line"
    /\ UNCHANGED <<clientVars, eof, open, parser, partialBody, ret, calls, pushed>>

(* Connection::Read got data: at most what is free in the buffer.          *)
ReadData ==
    /\ pc = "read"
    /\ LET n == Least(BufferSize - Len(buffer), Len(sock))
       IN  /\ n > 0
           /\ buffer' = buffer \o Take(sock, n)
           /\ sock' = Drop(sock, n)
    /\ pc' = "line"
    /\ UNCHANGED <<clientVars, eof, open, parser, partialBody, ret, calls, pushed>>

(* read() returned 0, at end of file or because zero bytes were asked for. *)
ReadZero ==
    /\ pc = "read"
    /\ \/ Len(buffer) = BufferSize
       \/ sock = <<>> /\ eof
    /\ Return(-2)
    /\ UNCHANGED <<clientVars, sock, eof, open, buffer, parser, partialBody, calls, pushed>>

(* EAGAIN: the result is the state the parser is in.                       *)
ReadAgain ==
    /\ pc = "read"
    /\ Len(buffer) < BufferSize
    /\ sock = <<>>
    /\ ~eof
    /\ Return(StateRet(parser.state))
    /\ UNCHANGED <<clientVars, sock, eof, open, buffer, parser, partialBody, calls, pushed>>

(* EINTR: Read returns 1 with nothing new in the buffer.                   *)
ReadInterrupted ==
    /\ pc = "read"
    /\ pc' = "line"
    /\ UNCHANGED <<clientVars, sock, eof, open, buffer, parser, partialBody, ret, calls, pushed>>

-----------------------------------------------------------------------------
(* Connection::PopLine: up to and including the first CR LF.               *)

LineEnds(b) == {i \in 2..Len(b) : b[i-1] = CR /\ b[i] = LF}
HasLine(b) == LineEnds(b) # {}
FirstLineEnd(b) == {i \in LineEnds(b) : \A j \in LineEnds(b) : i <= j}

(* HttpHeaderParser::PushLine.                                             *)
PushFirstLine(p, line) ==
    [p EXCEPT !.state = "Headers",
              !.uri = IF line[1][1] = "req" THEN line[1][2] ELSE NoUri]

PushHeader(p, line) ==
    IF line = NewLine
    THEN [p EXCEPT !.state = IF p.length = NoLength THEN "Done" ELSE "Body"]
    ELSE IF line[1][1] = "cl" THEN [p EXCEPT !.length = line[1][2]] ELSE p

(* Mutants: the body is complete one byte early; only when it is longer    *)
(* than announced.                                                         *)
PushBodyEarly(p, line) ==
    LET n == p.bodyLength + Len(line)
    IN  [p EXCEPT !.bodyLength = n,
                  !.state = IF n >= p.length - 1 THEN "Done" ELSE "Body"]

PushBodyLate(p, line) ==
    LET n == p.bodyLength + Len(line)
    IN  [p EXCEPT !.bodyLength = n,
                  !.state = IF n > p.length THEN "Done" ELSE "Body"]

PushBody(p, line) ==
    LET n == p.bodyLength + Len(line)
    IN  [p EXCEPT !.bodyLength = n,
                  !.state = IF n >= p.length THEN "Done" ELSE "Body"]

PushLine(p, line) ==
    CASE p.state = "FirstLine" -> PushFirstLine(p, line)
      [] p.state = "Headers" -> PushHeader(p, line)
      [] p.state = "Body" -> PushBody(p, line)
      [] p.state = "Done" -> p

(* One turn of the inner loop that has a line or a chunk to push: the loop *)
(* ends when the headers or a part of the body are complete.               *)
Push(n) ==
    /\ buffer' = Drop(buffer, n)
    /\ pushed' = pushed \o Take(buffer, n)
    /\ parser' = PushLine(parser, Take(buffer, n))
    /\ IF parser'.state \in {"Body", "Done"}
       THEN Return(StateRet(parser'.state))
       ELSE UNCHANGED <<pc, ret>>
    /\ UNCHANGED <<clientVars, sock, eof, open, calls>>

PushPoppedLine ==
    /\ pc = "line"
    /\ \E n \in FirstLineEnd(buffer) : Push(n)
    /\ UNCHANGED partialBody

(* Mutant: the chunk is appended to the part delivered before.             *)
PushChunkAppends ==
    /\ pc = "line"
    /\ ~HasLine(buffer)
    /\ buffer # <<>>
    /\ parser.state = "Body"
    /\ partialBody' = partialBody \o buffer
    /\ Push(Len(buffer))

(* No line in the buffer, but the parser is in the body: all of it is a    *)
(* chunk (std::min(buffer_.size(), 1024) is the whole buffer here).        *)
PushChunk ==
    /\ pc = "line"
    /\ ~HasLine(buffer)
    /\ buffer # <<>>
    /\ parser.state = "Body"
    /\ partialBody' = buffer
    /\ Push(Len(buffer))

(* No line and nothing to take: read again.                                *)
NoLine ==
    /\ pc = "line"
    /\ ~HasLine(buffer)
    /\ buffer = <<>> \/ parser.state # "Body"
    /\ pc' = "read"
    /\ UNCHANGED <<clientVars, sock, eof, open, buffer, parser, partialBody, ret, calls, pushed>>

-----------------------------------------------------------------------------
(* Server::Poll acts on the result.                                        *)

ResultClosed ==
    /\ pc = "dispatch"
    /\ ret = -2
    /\ open' = FALSE
    /\ pc' = "wait"
    /\ UNCHANGED <<clientVars, sock, eof, buffer, parser, partialBody, ret, calls, pushed>>

ResultIncomplete ==
    /\ pc = "dispatch"
    /\ ret = -1
    /\ pc' = "wait"
    /\ UNCHANGED <<clientVars, sock, eof, open, buffer, parser, partialBody, ret, calls, pushed>>

ResultNotFound ==
    /\ pc = "dispatch"
    /\ ret \in {0, 1}
    /\ parser.uri \notin Routes
    /\ open' = FALSE
    /\ pc' = "wait"
    /\ UNCHANGED <<clientVars, sock, eof, buffer, parser, partialBody, ret, calls, pushed>>

(* Mutant: the connection is kept whatever the handler returned.           *)
CallHandlerNeverCloses(takes) ==
    /\ pc = "dispatch"
    /\ ret \in {0, 1}
    /\ parser.uri \in Routes
    /\ calls' = Append(calls, [uri |-> parser.uri, partial |-> partialBody, final |-> ret = 1])
    /\ partialBody' = IF takes THEN <<>> ELSE partialBody
    /\ pc' = "wait"
    /\ UNCHANGED <<clientVars, sock, eof, open, buffer, parser, ret, pushed>>

(* The handler gets std::move(partial_body_): whether the member is empty  *)
(* afterwards depends on whether the handler moves from its argument.      *)
CallHandler(takes) ==
    /\ pc = "dispatch"
    /\ ret \in {0, 1}
    /\ parser.uri \in Routes
    /\ calls' = Append(calls, [uri |-> parser.uri, partial |-> partialBody, final |-> ret = 1])
    /\ partialBody' = IF takes THEN <<>> ELSE partialBody
    /\ open' = (ret = 0 \/ script.keep)
    /\ pc' = "wait"
    /\ UNCHANGED <<clientVars, sock, eof, buffer, parser, ret, pushed>>

-----------------------------------------------------------------------------
Client == ClientClose \/ \E n \in 1..Len(toSend) : Send(n)

ReadResult == ReadData \/ ReadZero \/ ReadAgain

Line == PushPoppedLine \/ PushChunk \/ NoLine

Result == ResultClosed \/ ResultIncomplete \/ ResultNotFound
          \/ \E takes \in BOOLEAN : CallHandler(takes)

Next == Client \/ EpollIn \/ ReadResult \/ ReadInterrupted \/ Line \/ Result

Spec == Init /\ [][Next]_vars

(* The single thread keeps running; read() is not interrupted for ever.    *)
FairSpec ==
    /\ Spec
    /\ WF_vars(EpollIn)
    /\ SF_vars(ReadResult)
    /\ WF_vars(Line)
    /\ WF_vars(Result)

-----------------------------------------------------------------------------
(* Properties.                                                             *)

ParserStates == {"FirstLine", "Headers", "Body", "Done"}

(* The type invariant: the parser is in one of its four states and         *)
(* ProcessDataIn returns one of the four values Poll switches on.          *)
TypeOK ==
    /\ eof \in BOOLEAN
    /\ open \in BOOLEAN
    /\ parser \in [state : ParserStates, uri : STRING,
                   length : Nat \cup {NoLength}, bodyLength : Nat]
    /\ pc \in {"wait", "read", "line", "dispatch"}
    /\ ret \in -2..1

(* The length Read asks for, SMALL_MEMORY - old_size, is an unsigned       *)
(* subtraction: it must not wrap, or read() overruns local_buffer.         *)
BufferBound == Len(buffer) <= BufferSize

(* No byte of the client is lost, duplicated or reordered between its      *)
(* write and PushLine, however the reads split the stream.                 *)
ByteConservation == pushed \o buffer \o sock \o toSend = Wire(script)

(* The handler is told is_final only after the blank line and all of the   *)
(* Content-Length bytes of the first request were consumed.                *)
FinalIsComplete ==
    LET r == script.requests[1]
        expected == Len(HeadBytes(r)) + (IF r.length = NoLength THEN 0 ELSE r.length)
    IN  \A i \in DOMAIN calls : calls[i].final => Len(pushed) >= expected

(* A handler that does not keep the connection gets nothing after the part *)
(* that was final.                                                         *)
FinalIsLast == ~script.keep => \A i \in DOMAIN calls : calls[i].final => i = Len(calls)

(* A client that waits, sends one request whose body holds no CR LF, and   *)
(* meets a handler that answers.                                           *)
PlainClient ==
    /\ script.waits
    /\ ~script.keep
    /\ Len(script.requests) = 1
    /\ LineEnds(script.requests[1].body) = {}

Delivered == Joined([i \in 1..Len(calls) |-> calls[i].partial])

(* The parts a handler got from such a client, put together, are the body  *)
(* as far as it was consumed: none is lost and none is passed twice,       *)
(* whether or not the handler takes its argument.                          *)
BodyDelivered ==
    PlainClient /\ pc = "wait" =>
        Delivered = Drop(pushed, Len(HeadBytes(script.requests[1])))

Answered == ~open \/ \E i \in DOMAIN calls : calls[i].final

(* A client that has sent all of its request, and waits, is answered: the  *)
(* handler sees the final part, or the connection is closed.               *)
RequestCompletes == (toSend = <<>>) ~> Answered

(* The clients the code can answer: those whose body has the length that   *)
(* was announced, is not announced as empty, and holds a CR LF at its end  *)
(* only.  The others wait: for Content-Length: 0 the parser wants a body   *)
(* that never comes, and what follows a line of the body stays in buffer_  *)
(* until new bytes arrive.                                                 *)
Answerable(r) ==
    \/ r.length = NoLength
    \/ /\ r.length > 0
       /\ r.length = Len(r.body)
       /\ LineEnds(r.body) \subseteq {Len(r.body)}

(* Such a client that waits between the head and the body is answered,     *)
(* whatever its URI, its other headers and the split of its body.          *)
WaitingCompletes ==
    (toSend = <<>> /\ script.waits /\ Answerable(script.requests[1])) ~> Answered
=============================================================================
