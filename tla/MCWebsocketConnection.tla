------------------------- MODULE MCWebsocketConnection -------------------------
EXTENDS WebsocketConnection

Mask == <<1, 0, 0, 1>>
Data(fin, op, payload) == Frame(fin, op, payload, Mask)
Ones(n) == [i \in 1..n |-> 1]

(* Masked and not, empty, long enough for the 16-bit length, in fragments, *)
(* with control frames between messages and between fragments; in the last *)
(* script larger than buffer_.                                             *)
Paced == {
    <<Data(1, kTypeText, <<1, 0, 1, 1, 0>>), Frame(1, kTypeBinary, <<0>>, <<>>)>>,
    <<Data(1, kTypeText, <<>>), Data(1, kTypePing, <<1>>), Data(1, kTypeText, <<1>>)>>,
    <<Data(1, kTypeBinary, Ones(126)), Data(1, kTypePing, <<>>)>>,
    <<Data(0, kTypeText, <<1>>), Data(0, kTypeContinuation, <<0>>),
      Data(1, kTypeContinuation, <<1, 1>>), Data(1, kTypeText, <<0>>)>>,
    <<Data(0, kTypeText, <<1>>), Data(1, kTypePing, <<0, 1>>),
      Data(1, kTypeContinuation, <<1>>), Data(1, kTypePong, <<>>), Data(1, kTypeText, <<0, 0>>)>>,
    <<Data(1, kTypeText, <<1>>), Data(1, kTypeClose, <<>>), Data(1, kTypeText, <<0>>)>>,
    <<Data(1, kTypeBinary, Ones(1020)), Data(1, kTypePing, <<>>)>>}

(* A message and a ping, split and joined at will.                         *)
Unpaced == {<<Frame(1, kTypeText, <<1>>, <<>>), Frame(1, kTypePing, <<>>, <<>>)>>}

AllScripts == {[frames |-> f, paced |-> TRUE] : f \in Paced}
              \cup {[frames |-> f, paced |-> FALSE] : f \in Unpaced}
================================================================================
