------------------------------ MODULE MCArpCache ------------------------------
(***************************************************************************)
(* ArpCache for TLC: two buckets and three addresses, two of which         *)
(* collide, so that a bucket has a head and a chain behind it; chains of   *)
(* up to four nodes, so that stale duplicates pile up behind a fresh node. *)
(***************************************************************************)
EXTENDS ArpCache

MCIp == {0, 1, 2}
===============================================================================
