-------------------------------- MODULE MCPing --------------------------------
(***************************************************************************)
(* Ping for TLC: two hosts whose addresses share an ARP bucket, one of     *)
(* them behind the head, and more requests than sequence numbers.          *)
(***************************************************************************)
EXTENDS Ping

CONSTANTS p, q, r

MCAddr == {p, q, r}
===============================================================================
