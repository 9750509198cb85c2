--------------------------------- MODULE Fifo ---------------------------------
(***************************************************************************)
(* What a CircularBuffer promises its caller: each buffer is a bounded     *)
(* queue of bytes; a buffer may grow, and its content may move to another  *)
(* buffer, which leaves it unusable (capacity 0).                          *)
(***************************************************************************)
EXTENDS Integers, Sequences

CONSTANTS Bufs, Values

VARIABLES queue, capacity

(* Some bytes are added at the end, as many as fit.                        *)
Put(b) ==
    /\ Len(queue'[b]) \in (Len(queue[b]) + 1)..capacity[b]
    /\ queue'[b] \in Seq(Values)
    /\ SubSeq(queue'[b], 1, Len(queue[b])) = queue[b]
    /\ queue' = [queue EXCEPT ![b] = queue'[b]]
    /\ UNCHANGED capacity

Get(b) ==
    \E n \in 1..Len(queue[b]) :
        /\ queue' = [queue EXCEPT ![b] = SubSeq(@, n + 1, Len(@))]
        /\ UNCHANGED capacity

Grow(b) ==
    /\ capacity[b] > 0
    /\ capacity'[b] > capacity[b]
    /\ capacity' = [capacity EXCEPT ![b] = capacity'[b]]
    /\ UNCHANGED queue

Move(from, to) ==
    /\ from # to
    /\ queue' = [queue EXCEPT ![to] = queue[from], ![from] = <<>>]
    /\ capacity' = [capacity EXCEPT ![to] = capacity[from], ![from] = 0]

Init ==
    /\ queue = [b \in Bufs |-> <<>>]
    /\ capacity \in [Bufs -> Nat]

Next ==
    \/ \E b \in Bufs : Put(b) \/ Get(b) \/ Grow(b)
    \/ \E from, to \in Bufs : Move(from, to)

Spec == Init /\ [][Next]_<<queue, capacity>>
===============================================================================
