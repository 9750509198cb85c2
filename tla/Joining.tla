-------------------------------- MODULE Joining --------------------------------
(***************************************************************************)
(* Texts put together from parts: the requests on a connection, the parts  *)
(* of a body, a pattern of the route table.                                *)
(***************************************************************************)
EXTENDS Integers, Sequences

(* The parts of a sequence of sequences, one after the other.              *)
Joined(parts) ==
    LET sum[i \in 0..Len(parts)] == IF i = 0 THEN <<>> ELSE sum[i-1] \o parts[i]
    IN  sum[Len(parts)]
================================================================================
