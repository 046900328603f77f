----------------------------- MODULE ByteStream -----------------------------
(***************************************************************************)
(* What one direction of a transport promises its user: the bytes put in   *)
(* at one end come out at the other, each once, in order and unchanged.    *)
(* Nothing is said of how many bytes a step moves.                         *)
(***************************************************************************)
EXTENDS Naturals, Sequences

CONSTANT Byte

VARIABLES put,   \* every byte put in so far
          got    \* every byte that has come out

vars == <<put, got>>

Init == put = << >> /\ got = << >>

Put == /\ put' \in Seq(Byte)
       /\ Len(put') > Len(put)
       /\ SubSeq(put', 1, Len(put)) = put
       /\ UNCHANGED got

Get == /\ \E n \in (Len(got) + 1) .. Len(put) : got' = SubSeq(put, 1, n)
       /\ UNCHANGED put

Next == Put \/ Get

Spec == Init /\ [][Next]_vars
=============================================================================
