------------------------------ MODULE PacketPool ------------------------------
(***************************************************************************)
(* What a packet ring promises to the two threads at its ends as long as   *)
(* it is not overrun: each packet put in is taken out at most once, and    *)
(* nothing is taken that was not put in.  It is a pool, not a queue:       *)
(* packets may be taken in another order than they were put.  PacketQueue  *)
(* implements it.                                                          *)
(***************************************************************************)
EXTENDS Sequences

CONSTANT Packet

VARIABLES
    put,        \* the packets put so far
    taken       \* the packets taken so far, in the order they were taken

vars == <<put, taken>>

Taken == {taken[i] : i \in DOMAIN taken}

Init == put = {} /\ taken = <<>>

Put == \E p \in Packet \ put :
           put' = put \cup {p} /\ UNCHANGED taken

Take == \E p \in put \ Taken :
           taken' = Append(taken, p) /\ UNCHANGED put

Next == Put \/ Take

Spec == Init /\ [][Next]_vars
===============================================================================
