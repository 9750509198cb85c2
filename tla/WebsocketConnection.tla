-------------------------- MODULE WebsocketConnection --------------------------
(***************************************************************************)
(* One upgraded connection: the client's frames, the socket, Read with the *)
(* fragments it collects, Write over Connection::Write, and the idle timer *)
(* of ServerPing, which Poll calls before it waits for events              *)
(* (hpl_websocket_connection.cc, hpl_connection.cc).  The build is the one *)
(* of httpoll.mk: HPL_ENABLE_PING_PONG and SMALL_MEMORY set.               *)
(*                                                                         *)
(* A client is paced when it writes a whole frame at a time and the next   *)
(* one only after the server has read it; any other client lets TCP split  *)
(* and join its frames.                                                    *)
(***************************************************************************)
EXTENDS WsFrame

CONSTANTS
    Scripts,     \* what clients send: [frames, paced]
    BufferSize,  \* SMALL_MEMORY
    IdleLimit,   \* HPL_ENABLE_PING_PONG, in ticks
    WriteSizes,  \* payload lengths the application writes
    ShortWrites, \* numbers of bytes a socket without room may take, 0: none
    MaxWrites    \* bound: frames the application and the timer write

ASSUME WebsocketAssumption ==
    /\ \A s \in Scripts : /\ s.paced \in BOOLEAN
                          /\ s.frames \in Seq(Frames)
                          /\ \A i \in DOMAIN s.frames : Len(s.frames[i].payload) <= Max16
    /\ BufferSize \in Nat \ {0}
    /\ IdleLimit \in Nat
    /\ WriteSizes \subseteq Nat
    /\ ShortWrites \subseteq Nat
    /\ MaxWrites \in Nat

VARIABLES
    script,       \* this client
    unsent,       \* the bytes of its frames not yet written, frame by frame
    sock,         \* bytes in the server's socket
    eof,          \* the client closed its side
    open,         \* the server has not closed the connection
    aborted,      \* the process was ended by a read past the buffer
    lastPayload,  \* last_payload_
    idle,         \* ticks since last_io_time_
    ret,          \* what Read returned last
    whole,        \* history: all the frames Read returned lay in its buffer
    delivered,    \* history: the calls of ws_message_handler
    sent          \* history: the calls of Write

clientVars == <<script, unsent, eof>>
vars == <<script, unsent, sock, eof, open, aborted, lastPayload, idle, ret,
          whole, delivered, sent>>

Init ==
    /\ script \in Scripts
    /\ unsent = [i \in DOMAIN script.frames |-> Encode(script.frames[i])]
    /\ sock = <<>>
    /\ eof = FALSE
    /\ open = TRUE
    /\ aborted = FALSE
    /\ lastPayload = <<>>
    /\ idle = 0
    /\ ret = 0
    /\ whole = TRUE
    /\ delivered = <<>>
    /\ sent = <<>>

Up == open /\ ~aborted

-----------------------------------------------------------------------------
Drop(s, n) == SubSeq(s, n + 1, Len(s))

Send(n) ==
    /\ ~eof
    /\ unsent # <<>>
    /\ n \in 1..Len(unsent[1])
    /\ script.paced => sock = <<>> /\ n = Len(unsent[1])
    /\ sock' = sock \o SubSeq(unsent[1], 1, n)
    /\ unsent' = IF n = Len(unsent[1]) THEN Tail(unsent)
                 ELSE [unsent EXCEPT ![1] = Drop(@, n)]
    /\ UNCHANGED <<script, eof, open, aborted, lastPayload, idle, ret, whole, delivered, sent>>

ClientClose ==
    /\ ~eof
    /\ eof' = TRUE
    /\ UNCHANGED <<script, unsent, sock, open, aborted, lastPayload, idle, ret, whole, delivered, sent>>

(* The clock, as far as ServerPing tells its values apart.                 *)
Tick ==
    /\ Up
    /\ idle <= IdleLimit
    /\ idle' = idle + 1
    /\ UNCHANGED <<clientVars, sock, open, aborted, lastPayload, ret, whole, delivered, sent>>

-----------------------------------------------------------------------------
(* Connection::Write of n bytes: write() takes all of them, fewer, or, on  *)
(* EAGAIN, EINTR or an error, none; nothing is tried again.                *)
Taken(n) == {n} \cup {m \in ShortWrites : m < n}

(* Write puts the header and the payload out in two calls, and returns 0   *)
(* whatever they returned.                                                 *)
Write(type, payload) ==
    LET header == MakeWebsocketHeader(payload, type)
    IN  /\ \E h \in Taken(Len(header)), p \in Taken(payload) :
             sent' = Append(sent, [type |-> type, length |-> payload,
                                   header |-> SubSeq(header, 1, h), payload |-> p])
        /\ idle' = 0

AppWrite(n) ==
    /\ Up
    /\ Len(sent) < MaxWrites
    /\ Write(kTypeBinary, n)
    /\ UNCHANGED <<clientVars, sock, open, aborted, lastPayload, ret, whole, delivered>>

ServerPing ==
    /\ Up
    /\ idle > IdleLimit
    /\ Len(sent) < MaxWrites
    /\ Write(kTypePing, 0)
    /\ UNCHANGED <<clientVars, sock, open, aborted, lastPayload, ret, whole, delivered>>

-----------------------------------------------------------------------------
(* Read, from the byte after the header on: handler is what                *)
(* ws_message_handler returns.  Poll closes the connection on -1.          *)

Return(r) == ret' = r /\ open' = (r # -1)

Close(buf) ==
    /\ Opcode(buf) = kTypeClose
    /\ lastPayload' = lastPayload \o Payload(buf)
    /\ Return(-1)
    /\ idle' = 0
    /\ UNCHANGED <<delivered, sent>>

(* Mutant: the answer is empty.                                            *)
PingEmpty(buf) ==
    /\ Opcode(buf) = kTypePing
    /\ Write(kTypePong, 0)
    /\ lastPayload' = <<>>
    /\ Return(0)
    /\ UNCHANGED delivered

Ping(buf) ==
    /\ Opcode(buf) = kTypePing
    /\ Write(kTypePong, PayloadLength(buf))
    /\ lastPayload' = <<>>
    /\ Return(0)
    /\ UNCHANGED delivered

Pong(buf) ==
    /\ Opcode(buf) = kTypePong
    /\ lastPayload' = <<>>
    /\ Return(0)
    /\ idle' = 0
    /\ UNCHANGED <<delivered, sent>>

IsData(buf) == Opcode(buf) \notin {kTypeClose, kTypePing, kTypePong}

(* Mutant: last_payload_ is kept for the next message.                     *)
LastFragmentKeeps(buf, handler) ==
    /\ IsData(buf)
    /\ Fin(buf) = 1
    /\ delivered' = Append(delivered, [type |-> Opcode(buf),
                                       payload |-> lastPayload \o Payload(buf)])
    /\ lastPayload' = lastPayload \o Payload(buf)
    /\ Return(handler)
    /\ idle' = 0
    /\ UNCHANGED sent

LastFragment(buf, handler) ==
    /\ IsData(buf)
    /\ Fin(buf) = 1
    /\ delivered' = Append(delivered, [type |-> Opcode(buf),
                                       payload |-> lastPayload \o Payload(buf)])
    /\ lastPayload' = <<>>
    /\ Return(handler)
    /\ idle' = 0
    /\ UNCHANGED sent

(* Mutant: Read returns the length of the fragment.                        *)
FragmentLength(buf) ==
    /\ IsData(buf)
    /\ Fin(buf) = 0
    /\ lastPayload' = lastPayload \o Payload(buf)
    /\ Return(PayloadLength(buf) + 1)
    /\ idle' = 0
    /\ UNCHANGED <<delivered, sent>>

Fragment(buf) ==
    /\ IsData(buf)
    /\ Fin(buf) = 0
    /\ lastPayload' = lastPayload \o Payload(buf)
    /\ Return(1)
    /\ idle' = 0
    /\ UNCHANGED <<delivered, sent>>

Handle(buf) ==
    \/ Close(buf)
    \/ Ping(buf)
    \/ Pong(buf)
    \/ \E handler \in {-1, 0} : LastFragment(buf, handler)
    \/ Fragment(buf)

(* One read() of at most BufferSize bytes; all of them leave buffer_ with  *)
(* the frame at their front.                                               *)
Least(m, n) == IF m <= n THEN m ELSE n

Got == SubSeq(sock, 1, Least(BufferSize, Len(sock)))

ReadFrame ==
    /\ Up
    /\ sock # <<>>
    /\ HoldsFrame(Got)
    /\ Handle(Got)
    /\ sock' = Drop(sock, Len(Got))
    /\ UNCHANGED <<clientVars, aborted, whole>>

(* The frame does not lie in the buffer, and Read goes on past its end:    *)
(* into bytes left over from before, or out of the process's memory.       *)
Padded(buf, b) == buf \o [i \in 1..BufferSize |-> b]

ReadPastEnd(b) ==
    /\ Up
    /\ sock # <<>>
    /\ ~HoldsFrame(Got)
    /\ HoldsFrame(Padded(Got, b))
    /\ Handle(Padded(Got, b))
    /\ sock' = Drop(sock, Len(Got))
    /\ whole' = FALSE
    /\ UNCHANGED <<clientVars, aborted>>

ReadAborts ==
    /\ Up
    /\ sock # <<>>
    /\ ~HoldsFrame(Got)
    /\ aborted' = TRUE
    /\ UNCHANGED <<clientVars, sock, open, lastPayload, idle, ret, whole, delivered, sent>>

(* read() returned 0.                                                      *)
ReadEnd ==
    /\ Up
    /\ sock = <<>>
    /\ eof
    /\ Return(-1)
    /\ UNCHANGED <<clientVars, sock, aborted, lastPayload, idle, whole, delivered, sent>>

Read == ReadFrame \/ ReadAborts \/ ReadEnd \/ \E b \in {0, 1} : ReadPastEnd(b)

-----------------------------------------------------------------------------
Next ==
    \/ unsent # <<>> /\ \E n \in 1..Len(unsent[1]) : Send(n)
    \/ ClientClose
    \/ Tick
    \/ \E n \in WriteSizes : AppWrite(n)
    \/ ServerPing
    \/ Read

(* Poll keeps being called: what is in the socket is read.                 *)
Spec == Init /\ [][Next]_vars /\ WF_vars(Read)

-----------------------------------------------------------------------------
(* Properties.                                                             *)

(* The type invariant.                                                     *)
TypeOK ==
    /\ \A i \in DOMAIN unsent : unsent[i] \in Seq(0..255)
    /\ sock \in Seq(0..255)
    /\ {eof, open, aborted, whole} \subseteq BOOLEAN
    /\ lastPayload \in Seq(0..255)
    /\ idle \in 0..(IdleLimit + 1)
    /\ ret \in {-1, 0, 1}
    /\ sent \in Seq([type : {kTypeBinary, kTypePing, kTypePong}, length : Nat,
                     header : Seq(0..255), payload : Nat])

(* A paced client whose frames fit into buffer_.                           *)
Orderly ==
    /\ script.paced
    /\ \A i \in DOMAIN script.frames : Len(Encode(script.frames[i])) <= BufferSize

(* Read never looks past the bytes it got, whatever frames an orderly      *)
(* client sends: length, mask and payload are where it looks.              *)
ReadsWholeFrames == Orderly => whole /\ ~aborted

(* A client that finds the start of a frame in the stream can read its     *)
(* header, and the frame ends where the header says.                       *)
EndsAsAnnounced(w) ==
    /\ AnnouncedLength(w.header) # -1
    /\ LengthEnd(w.header) + AnnouncedLength(w.header) = Len(w.header) + w.payload

(* Nothing of the frame is in the stream.                                  *)
Refused(w) == w.header = <<>> /\ w.payload = 0

(* The client reads one frame after the other, and finds the start of the  *)
(* next one where the last one ends: it reads frame i if it has not lost   *)
(* its place before.                                                       *)
ClientReads(i) ==
    /\ EndsAsAnnounced(sent[i])
    /\ \A j \in 1..(i - 1) : Refused(sent[j]) \/ EndsAsAnnounced(sent[j])

(* The socket took all of a frame that is shorter than Max16 bytes.        *)
Intact(w) ==
    /\ Len(w.header) = Len(MakeWebsocketHeader(w.length, w.type))
    /\ w.payload = w.length
    /\ w.length < Max16

(* A client reads a frame of Write exactly when it is intact and so is     *)
(* every frame before it that the socket took anything of: one torn frame, *)
(* or one of Max16 bytes, costs it its place, and whole frames behind it   *)
(* do not help.  Write itself returns 0 in every case.                     *)
FrameReadable ==
    \A i \in DOMAIN sent :
      ClientReads(i) <=> /\ Intact(sent[i])
                         /\ \A j \in 1..(i - 1) : Refused(sent[j]) \/ Intact(sent[j])

(* The frames the client has written, and what they mean: a control frame  *)
(* between fragments spoils the ones before it.                            *)
Offered == SubSeq(script.frames, 1, Len(script.frames) - Len(unsent))

Start == [done |-> <<>>, parts |-> <<>>, spoiled |-> 0]

After(m, f) ==
    IF f.op \in {kTypeClose, kTypePing, kTypePong}
    THEN [m EXCEPT !.spoiled = Len(m.parts)]
    ELSE IF f.fin = 0 THEN [m EXCEPT !.parts = Append(@, f.payload)]
    ELSE [Start EXCEPT !.done = Append(m.done,
            [type |-> f.op, fragments |-> Append(m.parts, f.payload), spoiled |-> m.spoiled])]

Meaning(frames) ==
    LET upTo[i \in 0..Len(frames)] ==
          IF i = 0 THEN Start ELSE After(upTo[i - 1], frames[i])
    IN  upTo

Messages(frames) == Meaning(frames)[Len(frames)].done

(* The lengths of the pings of the client and of the pongs of the server.  *)
Pings ==
    LET pings == SelectSeq(Offered, LAMBDA f : f.op = kTypePing)
    IN  [i \in DOMAIN pings |-> Len(pings[i].payload)]

Pongs ==
    LET pongs == SelectSeq(sent, LAMBDA w : w.type = kTypePong)
    IN  [i \in DOMAIN pongs |-> pongs[i].length]

(* Every ping of an orderly client is answered in turn by a pong of its    *)
(* length, until the connection is closed.                                 *)
PingsAnswered == []<>(Orderly /\ open => Pongs = Pings)

(* An upgraded connection implements a MessageChannel for an orderly       *)
(* client; nothing is promised to any other.                               *)
Promised(x) == IF Orderly THEN x ELSE <<>>

Channel == INSTANCE MessageChannel WITH
    messages <- Promised(Messages(script.frames)),
    offered <- Len(Promised(Messages(Offered))),
    delivered <- Promised(delivered),
    closed <- ~open

(* ws_message_handler gets the messages in order, each once and whole but  *)
(* for what a ping or pong cleared.                                        *)
DeliversMessages == Channel!Spec

(* No message of an orderly client stays undelivered on an open connection.*)
DeliversAll == Channel!Fairness
================================================================================
