----------------------------- MODULE MCHttpServer -----------------------------
(***************************************************************************)
(* HttpServer for TLC: chunks of two bytes, pages of none to three chunks, *)
(* a buffer that holds a page of three chunks with its header when the     *)
(* last is a short one, and not when it is full, and sequence numbers      *)
(* that wrap on the way.                                                   *)
(***************************************************************************)
EXTENDS HttpServer

MCPageSize == {0, 1, 2, 5, 6}
===============================================================================
