-------------------------------- MODULE WsFrame --------------------------------
(***************************************************************************)
(* The header of a websocket frame: the encoder MakeWebsocketHeader        *)
(* (hpl_websocket_utils.cc), the decoder at the top of                     *)
(* WebsocketConnection::Read, and, as a reference, how a client reads and  *)
(* writes the same bytes.                                                  *)
(*                                                                         *)
(* A payload byte and a mask byte stand for one bit: XOR acts on each bit  *)
(* alone.                                                                  *)
(***************************************************************************)
EXTENDS Integers, Sequences

(* WsFrameType.                                                            *)
kTypeContinuation == 0
kTypeText == 1
kTypeBinary == 2
kTypeClose == 8
kTypePing == 9
kTypePong == 10

Xor(a, b) == (a + b) % 2

(* 0xffff.                                                                 *)
Max16 == 65535

(* Mutant: 126 is announced in one byte.                                   *)
MakeWebsocketHeaderOffByOne(n, type) ==
    IF n <= 126 THEN <<128 + type, n>>
    ELSE IF n < Max16 THEN <<128 + type, 126, n \div 256, n % 256>>
    ELSE <<128 + type, 127, 0, 0, 0, 0>>

(* The header of a message of n bytes.  From Max16 on the code writes the  *)
(* three highest of eight length bytes, 0 for every length below 2^40, and *)
(* announces six bytes; the sixth is 0 from the initialisation of ret.     *)
MakeWebsocketHeader(n, type) ==
    IF n < 126 THEN <<128 + type, n>>
    ELSE IF n < Max16 THEN <<128 + type, 126, n \div 256, n % 256>>
    ELSE <<128 + type, 127, 0, 0, 0, 0>>

(* The length a client reads from a header, -1 when it is not complete.    *)
AnnouncedLength(h) ==
    CASE Len(h) >= 2 /\ h[2] < 126 -> h[2]
      [] Len(h) >= 4 /\ h[2] = 126 -> h[3] * 256 + h[4]
      [] Len(h) >= 10 /\ h[2] = 127 -> h[7] * 2^24 + h[8] * 2^16 + h[9] * 256 + h[10]
      [] OTHER -> -1

-----------------------------------------------------------------------------
(* A frame as a client means it, and its bytes.                            *)
Frame(fin, op, payload, mask) == [fin |-> fin, op |-> op, payload |-> payload, mask |-> mask]

Frames ==
    [fin : {0, 1},
     op : {kTypeContinuation, kTypeText, kTypeBinary, kTypeClose, kTypePing, kTypePong},
     payload : Seq({0, 1}),
     mask : {<<>>} \cup [1..4 -> {0, 1}]]

Masked(payload, mask) ==
    [i \in 1..Len(payload) |-> Xor(payload[i], mask[((i - 1) % 4) + 1])]

(* Of a frame with at most Max16 bytes of payload: longer ones, with a     *)
(* 64-bit length, do not fit into buffer_.                                 *)
Encode(f) ==
    LET n == Len(f.payload)
        m == IF f.mask = <<>> THEN 0 ELSE 128
    IN  <<f.fin * 128 + f.op>>
        \o (IF n < 126 THEN <<m + n>> ELSE <<m + 126, n \div 256, n % 256>>)
        \o f.mask
        \o (IF f.mask = <<>> THEN f.payload ELSE Masked(f.payload, f.mask))

-----------------------------------------------------------------------------
(* The decoder of Read.  It looks at whatever bytes are there.             *)
Opcode(buf) == buf[1] % 16

(* Mutant: the bit next to FIN is read.                                    *)
FinNext(buf) == (buf[1] \div 64) % 2

Fin(buf) == buf[1] \div 128
HasMask(buf) == buf[2] >= 128
Prefix(buf) == buf[2] % 128

(* Where the length ends, and where the payload starts.                    *)
LengthEnd(buf) == CASE Prefix(buf) = 126 -> 4
                    [] Prefix(buf) = 127 -> 10
                    [] OTHER -> 2

Offset(buf) == LengthEnd(buf) + (IF HasMask(buf) THEN 4 ELSE 0)

(* The 64-bit length is put together with its two words swapped: a length  *)
(* below 2^32 is read as that many times 2^32, more than any buffer holds. *)
TooLong == 2^30

(* Mutant: the length is taken in the order of the host.                   *)
PayloadLengthHostOrder(buf) ==
    CASE Prefix(buf) = 126 -> buf[3] + buf[4] * 256
      [] Prefix(buf) = 127 -> TooLong
      [] OTHER -> Prefix(buf)

PayloadLength(buf) ==
    CASE Prefix(buf) = 126 -> buf[3] * 256 + buf[4]
      [] Prefix(buf) = 127 -> IF \A i \in 7..10 : buf[i] = 0
                              THEN buf[3] * 2^24 + buf[4] * 2^16 + buf[5] * 256 + buf[6]
                              ELSE TooLong
      [] OTHER -> Prefix(buf)

(* Everything Read looks at lies within the buffer.                        *)
HoldsFrame(buf) ==
    /\ Len(buf) >= 2
    /\ Len(buf) >= LengthEnd(buf)
    /\ Len(buf) >= Offset(buf) + PayloadLength(buf)

Payload(buf) ==
    LET n == PayloadLength(buf)
        data == SubSeq(buf, Offset(buf) + 1, Offset(buf) + n)
    IN  IF HasMask(buf) THEN Masked(data, SubSeq(buf, LengthEnd(buf) + 1, LengthEnd(buf) + 4))
        ELSE data
=============================================================================
