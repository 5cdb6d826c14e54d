---------------------------- MODULE MCPacketQueue -----------------------------
(***************************************************************************)
(* PacketQueue for TLC.  With three or four slots and more packets than    *)
(* slots the index wraps, slots are reused, and the scan can be ahead of,  *)
(* behind or at the producer's slot.                                       *)
(***************************************************************************)
EXTENDS PacketQueue
===============================================================================
