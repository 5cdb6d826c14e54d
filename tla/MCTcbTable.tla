------------------------------ MODULE MCTcbTable ------------------------------
(***************************************************************************)
(* TcbTable for TLC: an accepted connection and one that is opened, both   *)
(* in the second of two buckets, with the uses of the buffers overlapping  *)
(* or kept apart.                                                          *)
(***************************************************************************)
EXTENDS TcbTable

CONSTANTS a, c

MCListening == {a}
MCClient    == {c}
MCHash      == [k \in {a, c} |-> 1]
MCSize      == {1, 2}
===============================================================================
