---------------------------- MODULE MessageChannel ----------------------------
(***************************************************************************)
(* What an upgraded connection promises to ws_message_handler: the         *)
(* messages of the client are delivered in order, each once and whole.     *)
(* The one exception is a message with a ping or pong between its          *)
(* fragments: of that, a tail may be delivered instead.                    *)
(***************************************************************************)
EXTENDS Joining

VARIABLES
    messages,   \* what the client means: [type, fragments, spoiled]
    offered,    \* how many it has sent
    delivered,  \* what the handler got: [type, payload]
    closed

vars == <<messages, offered, delivered, closed>>

Rest(m, n) == Joined(SubSeq(m.fragments, n + 1, Len(m.fragments)))

Init ==
    /\ offered = 0
    /\ delivered = <<>>
    /\ closed = FALSE

Offer ==
    /\ offered < Len(messages)
    /\ offered' = offered + 1
    /\ UNCHANGED <<messages, delivered, closed>>

Deliver ==
    /\ ~closed
    /\ Len(delivered) < offered
    /\ LET m == messages[Len(delivered) + 1]
       IN  \E n \in 0..m.spoiled :
             delivered' = Append(delivered, [type |-> m.type, payload |-> Rest(m, n)])
    /\ closed' \in BOOLEAN
    /\ UNCHANGED <<messages, offered>>

Close ==
    /\ closed' = TRUE
    /\ UNCHANGED <<messages, offered, delivered>>

Next == Offer \/ Deliver \/ Close

Spec == Init /\ [][Next]_vars

(* A message that was sent is delivered, unless the channel is closed.     *)
Fairness == WF_vars(Deliver)
===============================================================================
