---------------------------- MODULE CircularBuffer ----------------------------
(***************************************************************************)
(* hpl::CircularBuffer (hpl_circular_buffer.h): positions, storage and the *)
(* operations of its interface, together with a caller.  The class leaves  *)
(* the copying and the wrapping of the write position to its caller        *)
(* ("no wrap around"): the caller copies at most what                      *)
(* ContinuousWriteBuffer offers, commits with ResetWritePos and, at the    *)
(* end of the storage, starts again at position 0.  Nothing in the server  *)
(* uses the class; this is the discipline its interface asks for.          *)
(***************************************************************************)
EXTENDS Integers, Sequences

CONSTANTS
    Bufs,      \* the buffers
    Values,    \* bytes
    Junk,      \* what malloc leaves in the storage
    InitSize,  \* the constructor's argument
    MaxSize    \* bound: the largest new_size of Extend

ASSUME BufferAssumption ==
    /\ Junk \notin Values
    /\ InitSize \in Nat \ {0, 1}
    /\ MaxSize \in Nat
    /\ InitSize <= MaxSize

VARIABLES
    size,  \* size_, 0 once moved from
    mem,   \* the storage at buffer_
    read,  \* read_pos_
    write  \* write_pos_

vars == <<size, mem, read, write>>

Blank(n) == [i \in 0..(n - 1) |-> Junk]

Init ==
    /\ size = [b \in Bufs |-> InitSize]
    /\ mem = [b \in Bufs |-> Blank(InitSize)]
    /\ read = [b \in Bufs |-> 0]
    /\ write = [b \in Bufs |-> 0]

-----------------------------------------------------------------------------
(* Queries.                                                                *)

(* Mutant: the branch for a wrapped write position forgets the storage.    *)
LengthUnwrapped(b) ==
    IF write[b] >= read[b] THEN write[b] - read[b] ELSE read[b] - write[b]

Length(b) ==
    IF write[b] >= read[b] THEN write[b] - read[b] ELSE size[b] - read[b] + write[b]

Capacity(b) == size[b] - 1
FreeSpace(b) == Capacity(b) - Length(b)

(* Mutant: one byte is kept back wherever read_pos_ is.                    *)
ContinuousWriteBufferShy(b) ==
    IF write[b] < read[b] THEN read[b] - write[b] - 1 ELSE size[b] - write[b] - 1

(* How many bytes may be written at write_pos_.                            *)
ContinuousWriteBuffer(b) ==
    IF write[b] < read[b]
    THEN read[b] - write[b] - 1
    ELSE size[b] - write[b] - (IF read[b] = 0 THEN 1 ELSE 0)

Slice(m, from, n) == [i \in 1..n |-> m[from + i - 1]]

(* GetReadViews, put together.                                             *)
Content(b) ==
    IF write[b] < read[b]
    THEN Slice(mem[b], read[b], size[b] - read[b]) \o Slice(mem[b], 0, write[b])
    ELSE Slice(mem[b], read[b], write[b] - read[b])

-----------------------------------------------------------------------------
(* Operations.                                                             *)

ResetWritePos(b, offset, whence) ==
    CASE whence = "SEEK_SET" -> offset
      [] whence = "SEEK_CUR" -> write[b] + offset
      [] whence = "SEEK_END" -> size[b] - offset

(* The caller's memcpy of s to position "at" of the storage.               *)
Copied(m, at, s) ==
    [i \in DOMAIN m |-> IF i \in at..(at + Len(s) - 1) THEN s[i - at + 1] ELSE m[i]]

(* The caller copies s behind the data and commits it: it may name the new *)
(* position in three ways.  At the end of the storage it resets to 0.      *)
Write(b, s, whence) ==
    LET end == write[b] + Len(s)
        offset == CASE whence = "SEEK_SET" -> end
                    [] whence = "SEEK_CUR" -> Len(s)
                    [] whence = "SEEK_END" -> size[b] - end
        pos == ResetWritePos(b, offset, whence)
    IN  /\ Len(s) \in 1..ContinuousWriteBuffer(b)
        /\ mem' = [mem EXCEPT ![b] = Copied(mem[b], write[b], s)]
        /\ write' = [write EXCEPT ![b] = IF pos = size[b] THEN 0 ELSE pos]
        /\ UNCHANGED <<size, read>>

(* Mutant: the read position is not taken modulo the size.                 *)
PopoutUnwrapped(b, n) ==
    /\ n \in 1..Length(b)
    /\ read' = [read EXCEPT ![b] = @ + n]
    /\ UNCHANGED <<size, mem, write>>

(* A longer n is refused and changes nothing.                              *)
Popout(b, n) ==
    /\ n \in 1..Length(b)
    /\ read' = [read EXCEPT ![b] = (@ + n) % size[b]]
    /\ UNCHANGED <<size, mem, write>>

(* Mutant: the two memcpy of wrapped data are swapped.                     *)
ExtendSwaps(b, n) ==
    /\ size[b] > 0
    /\ n > size[b]
    /\ LET data == IF write[b] < read[b]
                   THEN Slice(mem[b], 0, write[b]) \o Slice(mem[b], read[b], size[b] - read[b])
                   ELSE Content(b)
       IN  mem' = [mem EXCEPT ![b] = [i \in 0..(n - 1) |->
                      IF i < Length(b) THEN data[i + 1] ELSE Junk]]
    /\ size' = [size EXCEPT ![b] = n]
    /\ read' = [read EXCEPT ![b] = 0]
    /\ write' = [write EXCEPT ![b] = Length(b)]

(* Extend: new storage, the data copied to its start in one or two parts.  *)
Extend(b, n) ==
    /\ size[b] > 0
    /\ n > size[b]
    /\ mem' = [mem EXCEPT ![b] = [i \in 0..(n - 1) |->
                  IF i < Length(b) THEN Content(b)[i + 1] ELSE Junk]]
    /\ size' = [size EXCEPT ![b] = n]
    /\ read' = [read EXCEPT ![b] = 0]
    /\ write' = [write EXCEPT ![b] = Length(b)]

(* Move assignment, and the move constructor when "to" holds nothing yet.  *)
Move(from, to) ==
    /\ from # to
    /\ size' = [size EXCEPT ![to] = size[from], ![from] = 0]
    /\ mem' = [mem EXCEPT ![to] = mem[from], ![from] = Blank(0)]
    /\ read' = [read EXCEPT ![to] = read[from], ![from] = 0]
    /\ write' = [write EXCEPT ![to] = write[from], ![from] = 0]

(* A moved-from buffer is only assigned to: its Capacity() wraps around    *)
(* and Popout divides by zero.                                             *)
Use(b) ==
    /\ size[b] > 0
    /\ \/ \E n \in 1..ContinuousWriteBuffer(b) :
            \E s \in [1..n -> Values], whence \in {"SEEK_SET", "SEEK_CUR", "SEEK_END"} :
               Write(b, s, whence)
       \/ \E n \in 1..Length(b) : Popout(b, n)
       \/ \E n \in (size[b] + 1)..MaxSize : Extend(b, n)

Next ==
    \/ \E b \in Bufs : Use(b)
    \/ \E from, to \in Bufs : Move(from, to)

Spec == Init /\ [][Next]_vars

-----------------------------------------------------------------------------
(* Properties.                                                             *)

(* The type invariant: both positions stay inside the storage.             *)
TypeOK ==
    /\ size \in [Bufs -> {0} \cup (InitSize..MaxSize)]
    /\ \A b \in Bufs :
          /\ mem[b] \in [0..(size[b] - 1) -> Values \cup {Junk}]
          /\ read[b] \in 0..size[b] /\ write[b] \in 0..size[b]
          /\ size[b] > 0 => read[b] < size[b] /\ write[b] < size[b]

(* Length() is what GetReadViews shows, and fits the capacity, whichever   *)
(* side has wrapped; no byte that was never written is shown.              *)
LengthIsContent ==
    \A b \in Bufs :
        /\ Len(Content(b)) = Length(b)
        /\ size[b] > 0 => Length(b) \in 0..Capacity(b)
        /\ \A i \in 1..Len(Content(b)) : Content(b)[i] \in Values

(* As long as FreeSpace() is not 0 the writer is offered a place.          *)
NoWriteStall ==
    \A b \in Bufs :
        size[b] > 0 /\ FreeSpace(b) > 0 => ContinuousWriteBuffer(b) \in 1..FreeSpace(b)

(* The buffers are bounded queues: what is read is what was written, in    *)
(* order, through wrap-around, Extend and moves.                           *)
Abstract == INSTANCE Fifo WITH
    queue <- [b \in Bufs |-> Content(b)],
    capacity <- [b \in Bufs |-> IF size[b] = 0 THEN 0 ELSE Capacity(b)]

IsFifo == Abstract!Spec
=============================================================================
