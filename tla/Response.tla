------------------------------- MODULE Response -------------------------------
(***************************************************************************)
(* The status line of MakeResponse (hpl_response.h): the code that is sent *)
(* for the code that was asked for.                                        *)
(***************************************************************************)
EXTENDS Integers, Sequences

(* How many messages kStatusMessages has for 1xx, ..., 5xx.                *)
MessageCounts == <<4, 9, 9, 13, 12>>

HasMessage(code) == code \in 100..599 /\ code % 100 < MessageCounts[code \div 100]

(* Mutant: the test lets the first code without a message through.         *)
MakeResponseOffByOne(code) ==
    LET inRange == IF code < 100 \/ code > 599 THEN 500 ELSE code
    IN  IF MessageCounts[inRange \div 100] < inRange % 100 THEN 500 ELSE inRange

MakeResponse(code) ==
    LET inRange == IF code < 100 \/ code > 599 THEN 500 ELSE code
    IN  IF MessageCounts[inRange \div 100] <= inRange % 100 THEN 500 ELSE inRange
===============================================================================
