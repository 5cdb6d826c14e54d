-------------------------------- MODULE MCTcp ---------------------------------
(***************************************************************************)
(* Tcp for TLC: one host with peers of any behaviour and one connection,   *)
(* which the host accepts or opens.                                        *)
(***************************************************************************)
EXTENDS Tcp

\* The initial sequence number makes the numbers wrap at once.
MCIss == {SeqMod - 1}

\* The peer sends every class of segment, in and out of sequence: control
\* segments, acknowledgements and payloads.
Template == [kind |-> "RST", seq |-> 1, ack |-> 0, wnd |-> Wnd, len |-> 0, src |-> 1]
MCPeerSegment ==
    {[Template EXCEPT !.kind = kind] : kind \in Kind}
        \cup {[Template EXCEPT !.kind = "ACK", !.ack = ack, !.len = len] :
                   ack \in {0, 2}, len \in {0, 1}}

\* Not a request, and a page: a payload, then close.
MCResponse == {<<>>, <<1, Close>>}

\* What waits in outq decides nothing in the stack, and the peers answer what they
\* like when they like: it is enough to let them take each segment at once.
AnyStep == IF \A k \in Conn : outq[k] = <<>>
           THEN StackNext \/ \E k \in Conn : learn(k) \/ peer_sends(k)
           ELSE \E k \in Conn : peer_takes(k)

\* One connection at a time: nodes do not interact.
Unused(k) == /\ tcb[k] = NoTcb /\ fin[k] = {} /\ ~known[k]
             /\ inq[k] = <<>> /\ outq[k] = <<>>
Alone == \E k \in Conn : \A j \in Conn \ {k} : Unused(j)

EagerInit == Init /\ Alone

EagerNext == AnyStep /\ Alone'

EagerSpec == EagerInit /\ [][EagerNext]_vars
===============================================================================
