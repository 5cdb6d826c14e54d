--------------------------------- MODULE Tcp ----------------------------------
(***************************************************************************)
(* The TCP endpoint of one host (net_app/tcp.c) with the threads that run  *)
(* it: the process thread ("proc"), which takes received segments, hands   *)
(* payloads to app_layer_dispatch and answers; the command thread ("cmd"), *)
(* which runs tcp_conversation; and the send thread, which runs            *)
(* check_retransmit.  They share the TCBs without a lock, so the functions *)
(* that emit a segment are cut where another thread can see them half      *)
(* done: the state tested, the header built from the TCB, the segment      *)
(* handed to ip_send, snd_nxt advanced.                                    *)
(*                                                                         *)
(* A connection is a 4-tuple and tcb[k] is its node (the hash table is a   *)
(* matter of its own).  Sequence numbers are modulo SeqMod.  Abstracted:   *)
(* checksums, ports and addresses, printing, the bytes of a payload (`src' *)
(* is the sequence number they were first sent at) and the clock (RTO may  *)
(* have passed at any time).  Of ARP there is what ip_send asks: whether   *)
(* the address of the peer is known.                                       *)
(***************************************************************************)
EXTENDS Naturals, Sequences

CONSTANTS
    Conn,           \* the 4-tuples in play
    Listening,      \* those whose local port is webserver_get_listen_port()
    Client,         \* those tcp_conversation opens: local port 8888
    SeqMod,         \* 2^32
    Iss,            \* what time(NULL) may return
    Wnd,            \* 65535, the window the stack advertises
    MaxLen,         \* the longest payload of a segment
    Typed,          \* the lengths of what the user may type
    Response,       \* what the application may do with a payload, see app_layer_dispatch
    PeerSegment,    \* what a peer outside the model may send
    NoTcb, NoBuf,   \* NULL
    MaxInFlight     \* bound of the model: nothing new is sent into a longer channel

SeqNum == 0 .. SeqMod - 1
State  == {"CLOSED", "SYN_SENT", "SYN_RECV", "ESTABLISHED", "FIN_WAIT_1",
           "FIN_WAIT_2", "CLOSE_WAIT", "LAST_ACK", "TIME_WAIT"}

\* The segment classes tcp_process tells apart.  "RST" stands for every segment it
\* leaves alone: a reset, and one with none of the flags SYN, FIN and ACK.
Kind    == {"RST", "SYNACK", "SYN", "FIN", "ACK"}
Segment == [kind : Kind, seq : SeqNum, ack : SeqNum, wnd : 0 .. Wnd,
            len : 0 .. MaxLen, src : SeqNum]

\* The fields of tcp_tcb that decide anything; retrans_buf, retrans_seq and
\* retrans_len are one value, NoBuf standing for the NULL buffer.
Tcb == [valid : BOOLEAN, state : State, snd_una : SeqNum, snd_nxt : SeqNum,
        snd_wnd : 0 .. Wnd, rcv_nxt : SeqNum,
        buf : [seq : SeqNum, len : 1 .. MaxLen] \cup {NoBuf}]

\* What an application does with a payload: a sequence of calls, a positive
\* number for tcp_send_data of that length and Close for tcp_close.
Close  == 0
Script == Seq(0 .. MaxLen)

Thread == {"proc", "cmd"}
Place  == {"idle", "emit", "advance", "active_close", "passive_close",  \* both
           "shaking", "app", "reply",                                   \* proc
           "to_CLOSE_WAIT", "to_TIME_WAIT", "to_stay",                  \* proc, on a FIN
           "connect", "prompt"}                                         \* cmd

ASSUME SeqModAssumption  == SeqMod \in Nat \ {0} /\ Iss \subseteq SeqNum
ASSUME ConnAssumption    == /\ Conn # {}
                            /\ Listening \subseteq Conn
                            /\ Client \subseteq Conn
                            /\ Listening \cap Client = {}
ASSUME SizeAssumption    == /\ Wnd \in 0 .. SeqMod - 1
                            /\ MaxLen \in 0 .. SeqMod - 1
                            /\ MaxInFlight \in Nat
                            /\ Typed \subseteq 1 .. MaxLen
ASSUME PeerAssumption    == PeerSegment \subseteq Segment
ASSUME ResponseAssumption == Response \subseteq Script
ASSUME NullAssumption    == NoTcb \notin Tcb /\ NoBuf \notin [seq : SeqNum, len : 1 .. MaxLen]

VARIABLES
    tcb,        \* tcb[k]: the node of connection k, or NoTcb
    thread,     \* where "proc" and "cmd" are, on which connection, with which segment
    calls,      \* the calls the application still has to make for the payload in work
    inq,        \* inq[k]: segments of k on their way to this host
    outq,       \* outq[k]: segments of k this host handed to net_data_send
    known,      \* known[k]: get_mac_by_ip finds the peer of k
    fin         \* history: the FINs of k this host "sent" to ip_send and "rcvd"

vars == <<tcb, thread, calls, inq, outq, known, fin>>

-------------------------------------------------------------------------------
\* uint32_t arithmetic, for operands below SeqMod.
Add(a, b) == IF a + b < SeqMod THEN a + b ELSE (a + b) - SeqMod
Sub(a, b) == IF b <= a THEN a - b ELSE (a + SeqMod) - b

\* What a segment takes of the sequence space.
Length(seg) == IF seg.kind = "ACK" THEN seg.len ELSE 1

\* get_tcb: nodes are never unlinked, a released one is skipped.
Found(k) == tcb[k] # NoTcb /\ tcb[k].valid

\* set_tcp_header: seq and ack are read from the node.
Header(node, kind, len) ==
    [kind |-> kind, seq |-> node.snd_nxt, ack |-> node.rcv_nxt, wnd |-> Wnd,
     len |-> len, src |-> node.snd_nxt]

Update(k, node) == tcb' = [tcb EXCEPT ![k] = node]
Send(k, seg)    == outq' = [outq EXCEPT ![k] = Append(@, seg)]

\* ip_send drops what it has no MAC for (and sends an ARP request instead).
ip_send(k, seg) == IF known[k] THEN Send(k, seg) ELSE UNCHANGED outq

\* A thread holds a segment it has built or received; elsewhere it holds nothing.
Nothing == [kind |-> "RST", seq |-> 0, ack |-> 0, wnd |-> 0, len |-> 0, src |-> 0]
Idle    == [at |-> "idle", conn |-> CHOOSE k \in Conn : TRUE, seg |-> Nothing]

Hold(t, place, seg) == thread' = [thread EXCEPT ![t].at = place, ![t].seg = seg]
Go(t, place)        == thread' = [thread EXCEPT ![t].at = place]
Return(t, place)    == IF place = "idle" THEN thread' = [thread EXCEPT ![t] = Idle]
                                         ELSE Hold(t, place, Nothing)

-------------------------------------------------------------------------------
\* tcp_send_data, tcp_close and the steps they share with tcp_connect, by
\* whichever thread t runs them.

node(t) == tcb[thread[t].conn]

\* Where a thread goes on when a call returns: the process thread with its next
\* call, the command thread at its prompt or, after tcp_close, in the shell.
Resume(t, kind) ==
    IF t = "proc" THEN "app" ELSE IF kind = "FIN" THEN "idle" ELSE "prompt"

\* usable_wnd, in uint32_t: it wraps when snd_nxt is beyond the window's edge.
Usable(n) == Sub(Add(n.snd_una, n.snd_wnd), n.snd_nxt)

\* The payload replaces the one kept for retransmission, acknowledged or not; if
\* the state or the window does not allow it, it is dropped.  The old one is freed
\* first: if there is no memory then, neither is kept and nothing is sent.
tcp_send_data(t, len) ==
    LET n == node(t) IN
    IF n.state = "ESTABLISHED" /\ len <= Usable(n)
    THEN \/ /\ Update(thread[t].conn, [n EXCEPT !.buf = [seq |-> n.snd_nxt, len |-> len]])
            /\ Hold(t, "emit", Header(n, "ACK", len))
         \/ /\ Update(thread[t].conn, [n EXCEPT !.buf = NoBuf])
            /\ UNCHANGED thread
    ELSE UNCHANGED <<tcb, thread>>

\* tcp_close decides by the state it finds ...
tcp_close(t) ==
    /\ CASE node(t).state = "ESTABLISHED" -> Go(t, "active_close")
         [] node(t).state = "CLOSE_WAIT"  -> Go(t, "passive_close")
         [] OTHER                         -> Return(t, Resume(t, "FIN"))
    /\ UNCHANGED tcb

\* Mutant of enter_close: the two branches of tcp_close collapsed.
CloseAsLast(t) ==
    /\ thread[t].at \in {"active_close", "passive_close"}
    /\ Update(thread[t].conn, [node(t) EXCEPT !.state = "LAST_ACK"])
    /\ Hold(t, "emit", Header(node(t), "FIN", 0))
    /\ UNCHANGED <<calls, inq, outq, fin, known>>

\* ... and then writes the new state and builds the FIN.
enter_close(t) ==
    /\ thread[t].at \in {"active_close", "passive_close"}
    /\ Update(thread[t].conn,
              [node(t) EXCEPT !.state = IF thread[t].at = "active_close"
                                        THEN "FIN_WAIT_1" ELSE "LAST_ACK"])
    /\ Hold(t, "emit", Header(node(t), "FIN", 0))
    /\ UNCHANGED <<calls, inq, outq, fin, known>>

\* The segment goes down through ip_send ...
emit(t) ==
    /\ thread[t].at = "emit"
    /\ ip_send(thread[t].conn, thread[t].seg)
    /\ fin' = [fin EXCEPT ![thread[t].conn] =
                   @ \cup IF thread[t].seg.kind = "FIN" THEN {"sent"} ELSE {}]
    /\ Go(t, "advance")
    /\ UNCHANGED <<tcb, calls, inq, known>>

\* Mutants of advance: without the width of uint32_t; one number per segment.
AdvanceUnwrapped(t) ==
    /\ thread[t].at = "advance"
    /\ Update(thread[t].conn, [node(t) EXCEPT !.snd_nxt = @ + Length(thread[t].seg)])
    /\ Return(t, Resume(t, thread[t].seg.kind))
    /\ UNCHANGED <<calls, inq, outq, fin, known>>
AdvanceByOne(t) ==
    /\ thread[t].at = "advance"
    /\ Update(thread[t].conn, [node(t) EXCEPT !.snd_nxt = Add(@, 1)])
    /\ Return(t, Resume(t, thread[t].seg.kind))
    /\ UNCHANGED <<calls, inq, outq, fin, known>>

\* ... and only then are its sequence numbers consumed.
advance(t) ==
    /\ thread[t].at = "advance"
    /\ Update(thread[t].conn,
              [node(t) EXCEPT !.snd_nxt = Add(@, Length(thread[t].seg))])
    /\ Return(t, Resume(t, thread[t].seg.kind))
    /\ UNCHANGED <<calls, inq, outq, fin, known>>

-------------------------------------------------------------------------------
\* The process thread: tcp_process dispatches on the flags of the next segment.

Taking(k, kind) ==
    /\ thread["proc"].at = "idle"
    /\ inq[k] # <<>>
    /\ Head(inq[k]).kind = kind
    /\ inq' = [inq EXCEPT ![k] = Tail(@)]

Proc(k, place, seg) ==
    thread' = [thread EXCEPT !["proc"] = [at |-> place, conn |-> k, seg |-> seg]]

\* A reset is ignored, a SYN for another port too, and so is what belongs to no node.
ignore(k) ==
    /\ \/ Taking(k, "RST")
       \/ Taking(k, "SYN") /\ k \notin Listening
       \/ \E kind \in {"SYNACK", "FIN", "ACK"} : Taking(k, kind) /\ ~Found(k)
    /\ UNCHANGED <<tcb, thread, calls, outq, fin, known>>

\* Mutant of handle_tcp_syn: the SYN flag of the answer is forgotten.
AnswerWithoutSyn(k) ==
    /\ Taking(k, "SYN")
    /\ k \in Listening
    /\ \E iss \in Iss :
           LET fresh == [valid |-> TRUE, state |-> "SYN_RECV", snd_una |-> iss,
                         snd_nxt |-> iss, snd_wnd |-> Wnd,
                         rcv_nxt |-> Add(Head(inq[k]).seq, 1), buf |-> NoBuf]
               n == IF Found(k) THEN tcb[k] ELSE fresh
           IN  /\ Update(k, [n EXCEPT !.snd_nxt = Add(@, 1)])
               /\ Proc(k, "reply", Header(n, "ACK", 0))
    /\ UNCHANGED <<calls, outq, fin, known>>

\* A SYN gets a new node, or the node that is there whatever its state, and is
\* answered from it.
handle_tcp_syn(k) ==
    /\ Taking(k, "SYN")
    /\ k \in Listening
    /\ \E iss \in Iss :
           LET fresh == [valid |-> TRUE, state |-> "SYN_RECV", snd_una |-> iss,
                         snd_nxt |-> iss, snd_wnd |-> Wnd,
                         rcv_nxt |-> Add(Head(inq[k]).seq, 1), buf |-> NoBuf]
               n == IF Found(k) THEN tcb[k] ELSE fresh
           IN  /\ Update(k, [n EXCEPT !.snd_nxt = Add(@, 1)])
               /\ Proc(k, "reply", Header(n, "SYNACK", 0))
    /\ UNCHANGED <<calls, outq, fin, known>>

\* A SYN+ACK establishes the connection whatever its state ...
handle_sencond_shake(k) ==
    /\ Taking(k, "SYNACK")
    /\ Found(k)
    /\ Update(k, [tcb[k] EXCEPT !.state = "ESTABLISHED"])
    /\ Proc(k, "shaking", Head(inq[k]))
    /\ UNCHANGED <<calls, outq, fin, known>>

\* ... and only then is the peer's sequence number taken over and acknowledged.
finish_shake ==
    LET n == [node("proc") EXCEPT !.rcv_nxt = Add(thread["proc"].seg.seq, 1)] IN
    /\ thread["proc"].at = "shaking"
    /\ Update(thread["proc"].conn, n)
    /\ Hold("proc", "reply", Header(n, "ACK", 0))
    /\ UNCHANGED <<calls, inq, outq, fin, known>>

\* Mutants of Acknowledge: the end of the payload off by one; the length forgotten.
AcknowledgeBeyond(n, seg) ==
    [n EXCEPT !.snd_wnd = seg.wnd,
              !.snd_una = seg.ack,
              !.buf = IF @ # NoBuf /\ seg.ack > Add(@.seq, @.len) THEN NoBuf ELSE @]
AcknowledgeStart(n, seg) ==
    [n EXCEPT !.snd_wnd = seg.wnd,
              !.snd_una = seg.ack,
              !.buf = IF @ # NoBuf /\ seg.ack >= @.seq THEN NoBuf ELSE @]

\* The first half of handle_tcp_ack: window, left edge and retransmission buffer.
\* The comparison that frees the buffer is one of plain unsigned numbers.
Acknowledge(n, seg) ==
    [n EXCEPT !.snd_wnd = seg.wnd,
              !.snd_una = seg.ack,
              !.buf = IF @ # NoBuf /\ seg.ack >= Add(@.seq, @.len) THEN NoBuf ELSE @]

AfterAck(state) == CASE state = "SYN_RECV"   -> "ESTABLISHED"
                     [] state = "FIN_WAIT_1" -> "FIN_WAIT_2"
                     [] OTHER                -> state

handle_tcp_ack(k) ==
    LET seg == Head(inq[k])
        n == Acknowledge(tcb[k], seg)
    IN
    /\ Taking(k, "ACK")
    /\ Found(k)
    /\ \/ /\ n.state = "LAST_ACK"
          /\ Update(k, [n EXCEPT !.state = "CLOSED", !.valid = FALSE])
          /\ UNCHANGED <<thread, calls>>
       \/ /\ n.state # "LAST_ACK" /\ seg.len = 0
          /\ Update(k, [n EXCEPT !.state = AfterAck(@)])
          /\ UNCHANGED <<thread, calls>>
       \/ /\ n.state # "LAST_ACK" /\ seg.len > 0
          /\ Update(k, [n EXCEPT !.state = AfterAck(@),
                                 !.rcv_nxt = Add(seg.seq, seg.len)])
          /\ Proc(k, "app", Nothing)
          /\ calls' \in Response
    /\ UNCHANGED <<outq, fin, known>>

\* Mutant of AfterFin: the passive side is taken for the active one.
TimeWaitAtOnce(place, state) ==
    CASE place \in {"to_CLOSE_WAIT", "to_TIME_WAIT"} -> "TIME_WAIT"
      [] OTHER                                       -> state

\* Mutant of AtFin: the FIN that FIN_WAIT_2 waits for changes nothing.
StayInFinWait(state) == IF state = "ESTABLISHED" THEN "to_CLOSE_WAIT" ELSE "to_stay"

\* handle_tcp_fin decides by the state it finds ...
AtFin(state) == CASE state = "ESTABLISHED" -> "to_CLOSE_WAIT"
                  [] state = "FIN_WAIT_2"  -> "to_TIME_WAIT"
                  [] OTHER                 -> "to_stay"

AfterFin(place, state) == CASE place = "to_CLOSE_WAIT" -> "CLOSE_WAIT"
                            [] place = "to_TIME_WAIT"  -> "TIME_WAIT"
                            [] OTHER                   -> state

\* ... having taken the sequence number over; payload and acknowledgement of the
\* segment are not looked at ...
handle_tcp_fin(k) ==
    /\ Taking(k, "FIN")
    /\ Found(k)
    /\ Update(k, [tcb[k] EXCEPT !.rcv_nxt = Add(Head(inq[k]).seq, 1)])
    /\ Proc(k, AtFin(tcb[k].state), Nothing)
    /\ fin' = [fin EXCEPT ![k] = @ \cup {"rcvd"}]
    /\ UNCHANGED <<calls, outq, known>>

\* ... and then writes the new state and builds the acknowledgement.
finish_fin ==
    LET place == thread["proc"].at
        n == [node("proc") EXCEPT !.state = AfterFin(place, @)]
    IN
    /\ place \in {"to_CLOSE_WAIT", "to_TIME_WAIT", "to_stay"}
    /\ Update(thread["proc"].conn, n)
    /\ Hold("proc", "reply", Header(n, "ACK", 0))
    /\ UNCHANGED <<calls, inq, outq, fin, known>>

\* app_layer_dispatch: the calls of handle_http_request, one after the other; a
\* call that is refused changes nothing and the next one is made all the same.
app_layer_dispatch ==
    /\ thread["proc"].at = "app"
    /\ calls # <<>>
    /\ calls' = Tail(calls)
    /\ IF Head(calls) = Close THEN tcp_close("proc")
                              ELSE tcp_send_data("proc", Head(calls))
    /\ UNCHANGED <<inq, outq, fin, known>>

\* Mutant of acknowledge_data: the empty segment is not sent.
AcknowledgeNothing ==
    /\ thread["proc"].at = "app"
    /\ calls = <<>>
    /\ Return("proc", "idle")
    /\ UNCHANGED <<tcb, calls, inq, outq, fin, known>>

\* The end of handle_tcp_ack: the application has returned, the payload is acknowledged.
acknowledge_data ==
    /\ thread["proc"].at = "app"
    /\ calls = <<>>
    /\ Hold("proc", "reply", Header(node("proc"), "ACK", 0))
    /\ UNCHANGED <<tcb, calls, inq, outq, fin, known>>

\* The reply goes back through ip_process and packet_process to net_data_send.
reply ==
    /\ thread["proc"].at = "reply"
    /\ Send(thread["proc"].conn, thread["proc"].seg)
    /\ Return("proc", "idle")
    /\ UNCHANGED <<tcb, calls, inq, fin, known>>

-------------------------------------------------------------------------------
\* The command thread: tcp_conversation.

\* tcp_connect puts the node into the table, or finds the old one there; a new
\* node is visible with all fields zero ...
tcp_connect(k) ==
    LET blank == [valid |-> TRUE, state |-> "CLOSED", snd_una |-> 0, snd_nxt |-> 0,
                  snd_wnd |-> 0, rcv_nxt |-> 0, buf |-> NoBuf] IN
    /\ thread["cmd"].at = "idle"
    /\ k \in Client
    /\ Update(k, IF Found(k) THEN tcb[k] ELSE blank)
    /\ thread' = [thread EXCEPT !["cmd"] = [at |-> "connect", conn |-> k, seg |-> Nothing]]
    /\ UNCHANGED <<calls, inq, outq, fin, known>>

\* ... and then fills in its fields, all but retrans_buf, and builds the SYN.
connect_init ==
    /\ thread["cmd"].at = "connect"
    /\ \E iss \in Iss :
           LET n == [node("cmd") EXCEPT !.rcv_nxt = 0, !.snd_nxt = iss,
                                        !.snd_wnd = Wnd, !.snd_una = iss,
                                        !.state = "SYN_SENT"]
           IN  Update(thread["cmd"].conn, n) /\ Hold("cmd", "emit", Header(n, "SYN", 0))
    /\ UNCHANGED <<calls, inq, outq, fin, known>>

\* A line is typed and sent.
type ==
    /\ thread["cmd"].at = "prompt"
    /\ Len(outq[thread["cmd"].conn]) < MaxInFlight
    /\ \E len \in Typed : tcp_send_data("cmd", len)
    /\ UNCHANGED <<calls, inq, outq, fin, known>>

\* "exit" or "quit" is typed.
exit ==
    /\ thread["cmd"].at = "prompt"
    /\ tcp_close("cmd")
    /\ UNCHANGED <<calls, inq, outq, fin, known>>

-------------------------------------------------------------------------------
\* Mutant of check_retransmit: only a payload that starts at snd_una goes out again.
RetransmitOldest(k) ==
    /\ Found(k)
    /\ tcb[k].state = "ESTABLISHED"
    /\ tcb[k].buf # NoBuf
    /\ tcb[k].buf.seq = tcb[k].snd_una
    /\ Len(outq[k]) < MaxInFlight
    /\ ip_send(k, [kind |-> "ACK", seq |-> tcb[k].snd_una, ack |-> tcb[k].rcv_nxt,
                   wnd |-> Wnd, len |-> tcb[k].buf.len, src |-> tcb[k].buf.seq])
    /\ UNCHANGED <<tcb, thread, calls, inq, fin, known>>

\* The send thread: check_retransmit, for a node whose RTO has passed.  The kept
\* payload goes out again, at snd_una.
check_retransmit(k) ==
    /\ Found(k)
    /\ tcb[k].state = "ESTABLISHED"
    /\ tcb[k].buf # NoBuf
    /\ Len(outq[k]) < MaxInFlight
    /\ ip_send(k, [kind |-> "ACK", seq |-> tcb[k].snd_una, ack |-> tcb[k].rcv_nxt,
                   wnd |-> Wnd, len |-> tcb[k].buf.len, src |-> tcb[k].buf.seq])
    /\ UNCHANGED <<tcb, thread, calls, inq, fin, known>>

-------------------------------------------------------------------------------
Init == /\ tcb = [k \in Conn |-> NoTcb]
        /\ thread = [t \in Thread |-> Idle]
        /\ calls = <<>>
        /\ inq = [k \in Conn |-> <<>>]
        /\ outq = [k \in Conn |-> <<>>]
        /\ known \in [Conn -> BOOLEAN]
        /\ fin = [k \in Conn |-> {}]

\* What the stack does without being asked, thread by thread, and what a user does.
ProcStep == \/ \E k \in Conn : \/ ignore(k)
                               \/ handle_tcp_syn(k)
                               \/ handle_sencond_shake(k)
                               \/ handle_tcp_ack(k)
                               \/ handle_tcp_fin(k)
            \/ finish_shake \/ finish_fin \/ app_layer_dispatch \/ acknowledge_data \/ reply
            \/ enter_close("proc") \/ emit("proc") \/ advance("proc")

CmdStep == connect_init \/ enter_close("cmd") \/ emit("cmd") \/ advance("cmd")

UserStep == (\E k \in Conn : tcp_connect(k)) \/ type \/ exit

TimerStep == \E k \in Conn : check_retransmit(k)

StackNext == ProcStep \/ CmdStep \/ UserStep \/ TimerStep

\* The process thread takes an ARP message of the peer, between two segments:
\* arp_process puts its MAC into the cache, from which nothing is ever removed.
learn(k) ==
    /\ thread["proc"].at = "idle"
    /\ ~known[k]
    /\ known' = [known EXCEPT ![k] = TRUE]
    /\ UNCHANGED <<tcb, thread, calls, inq, outq, fin>>

\* A peer of any behaviour: it sends any segment and takes what it is sent.
peer_sends(k) ==
    /\ Len(inq[k]) < MaxInFlight
    /\ Len(outq[k]) < MaxInFlight
    /\ \E seg \in PeerSegment : inq' = [inq EXCEPT ![k] = Append(@, seg)]
    /\ UNCHANGED <<tcb, thread, calls, outq, fin, known>>

peer_takes(k) ==
    /\ outq[k] # <<>>
    /\ outq' = [outq EXCEPT ![k] = Tail(@)]
    /\ UNCHANGED <<tcb, thread, calls, inq, fin, known>>

Next == StackNext \/ \E k \in Conn : learn(k) \/ peer_sends(k) \/ peer_takes(k)

Spec == Init /\ [][Next]_vars

-------------------------------------------------------------------------------
ThreadState == [at : Place, conn : Conn, seg : Segment]

TypeOK == /\ tcb \in [Conn -> Tcb \cup {NoTcb}]
          /\ thread \in [Thread -> ThreadState]
          /\ calls \in Script
          /\ inq \in [Conn -> Seq(Segment)]
          /\ outq \in [Conn -> Seq(Segment)]
          /\ known \in [Conn -> BOOLEAN]
          /\ fin \in [Conn -> SUBSET {"sent", "rcvd"}]

\* A connection that treats its peer as closed -- it waits for the user to close,
\* for the last acknowledgement, or is over -- has received a FIN of the peer:
\* whatever arrives, and whatever the threads do in between, no other path leads
\* there (handle_tcp_fin, tcp_close, handle_tcp_ack).
PeerHasClosed == \A k \in Conn : tcb[k] # NoTcb =>
    (tcb[k].state \in {"CLOSE_WAIT", "LAST_ACK", "TIME_WAIT"} \/ ~tcb[k].valid
        => "rcvd" \in fin[k])

\* A connection that is closing from this side, or is over, has handed its FIN to
\* ip_send, or a thread has it in its hands and will: tcp_close writes the state
\* before the FIN goes out, and acknowledgements are handled in between.
ClosingFin(k) == \E t \in Thread : /\ thread[t].conn = k
                                   /\ thread[t].at = "emit"
                                   /\ thread[t].seg.kind = "FIN"
WeHaveClosed == \A k \in Conn : tcb[k] # NoTcb =>
    (tcb[k].state \in {"FIN_WAIT_1", "FIN_WAIT_2", "LAST_ACK", "TIME_WAIT"} \/ ~tcb[k].valid
        => "sent" \in fin[k] \/ ClosingFin(k))
===============================================================================
