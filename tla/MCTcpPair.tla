------------------------------- MODULE MCTcpPair ------------------------------
(***************************************************************************)
(* TcpPair for TLC.  The listening application ignores a payload, or sends *)
(* a page of two segments and closes, as handle_http_request does; over    *)
(* the lossy network it answers with one segment.                          *)
(***************************************************************************)
EXTENDS TcpPair

MCResponse == {<<>>, <<2, 1, 0>>}
MCShort    == {<<1>>}

\* The initial sequence number: the first line and most of the first page lie below
\* the wrap, the second line ends at it.
MCIss == {11}
MCLow == {1}
===============================================================================
