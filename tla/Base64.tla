-------------------------------- MODULE Base64 --------------------------------
(***************************************************************************)
(* base64_encode (external_helpers.h) and, as a reference, its inverse.  A *)
(* character is its index in b64; "=" is 64.                               *)
(***************************************************************************)
EXTENDS Integers, Sequences

Pad == 64
ExpectedLength(n) == ((n + 2) \div 3) * 4

(* Mutant: one byte too early.                                             *)
LeftOutEarly(k, i, n) == k >= 2 /\ i + k >= n

(* The third and the fourth character of the group of bytes i+1..i+3 are   *)
(* left to the padding where src has no byte for them.                     *)
LeftOut(k, i, n) == k >= 2 /\ i + k - 1 >= n

(* size is what dst_len points to: with the final 0 the result must fit.   *)
Base64Encode(src, size) ==
    LET n == Len(src)
        byte(i) == IF i <= n THEN src[i] ELSE 0
        sextet(k, a, b, c) == CASE k = 0 -> a \div 4
                                [] k = 1 -> (a % 4) * 16 + b \div 16
                                [] k = 2 -> (b % 16) * 4 + c \div 64
                                [] k = 3 -> c % 64
        char(k, i) == IF LeftOut(k, i, n) THEN Pad
                      ELSE sextet(k, byte(i + 1), byte(i + 2), byte(i + 3))
    IN  IF size < ExpectedLength(n) + 1 THEN <<>>
        ELSE [j \in 1..ExpectedLength(n) |-> char((j - 1) % 4, 3 * ((j - 1) \div 4))]

(* The bytes a reader gets back, three from four characters; each "=" at   *)
(* the end stands for one byte less.                                       *)
Decode(text) ==
    LET n == Len(text)
        pads == IF n = 0 \/ text[n] # Pad THEN 0 ELSE IF text[n - 1] # Pad THEN 1 ELSE 2
        octet(k, g) == CASE k = 0 -> text[g + 1] * 4 + text[g + 2] \div 16
                         [] k = 1 -> (text[g + 2] % 16) * 16 + text[g + 3] \div 4
                         [] k = 2 -> (text[g + 3] % 4) * 64 + text[g + 4]
    IN  [i \in 1..(3 * (n \div 4) - pads) |-> octet((i - 1) % 3, 4 * ((i - 1) \div 3))]
===============================================================================
