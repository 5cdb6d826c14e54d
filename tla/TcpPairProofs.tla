---------------------------- MODULE TcpPairProofs -----------------------------
(***************************************************************************)
(* Two hosts that run this stack, for every sequence number width, window, *)
(* payload size and application, and any number of lines: over a network   *)
(* that neither loses nor reorders, and as long as no RTO passes, the two  *)
(* ends agree on the stream, an acknowledgement releases nothing that has  *)
(* not arrived while the numbers do not wrap, and an end that is released  *)
(* leaves nobody behind unless the server closed with all acknowledged.    *)
(***************************************************************************)
EXTENDS TcpPair, SequenceTheorems, TLAPS

-------------------------------------------------------------------------------
\* The state of the one connection: the two nodes, the threads that work on them
\* and the two directions of the network.
client == clientTcb[K]
server == serverTcb[K]
clientProc == clientThread["proc"]
clientCmd  == clientThread["cmd"]
serverProc == serverThread["proc"]
clientEnds == clientFin[K]
serverEnds == serverFin[K]
up   == toServer[K]
down == toClient[K]

Place(at, seg) == [at |-> at, conn |-> K, seg |-> seg]
Rest == Place("idle", Opener!Nothing)

\* What each host sends, and what each thread holds.
FromClient == {seg \in Opener!Segment : seg.kind \in {"SYN", "FIN", "ACK"}}
FromServer == {seg \in Opener!Segment : seg.kind \in {"SYNACK", "FIN", "ACK"}}
Empty(seg) == seg.kind = "ACK" /\ seg.len = 0

ClientProcType ==
    /\ clientProc \in [at : {"idle", "shaking", "app", "reply",
                             "to_CLOSE_WAIT", "to_TIME_WAIT", "to_stay"},
                       conn : {K}, seg : Opener!Segment]
    /\ clientProc.at = "idle" => clientProc = Rest
    /\ clientProc.at = "reply" => clientProc.seg \in FromClient /\ Empty(clientProc.seg)

ClientCmdType ==
    /\ clientCmd \in [at : {"idle", "connect", "emit", "advance", "prompt",
                            "active_close", "passive_close"},
                      conn : {K}, seg : Opener!Segment]
    /\ clientCmd.at \in {"emit", "advance"} => clientCmd.seg \in FromClient

ServerProcType ==
    /\ serverProc \in [at : {"idle", "app", "reply", "emit", "advance", "active_close",
                             "passive_close", "to_CLOSE_WAIT", "to_TIME_WAIT", "to_stay"},
                       conn : {K}, seg : Opener!Segment]
    /\ serverProc.at \in {"emit", "advance"} =>
           serverProc.seg \in FromServer /\ serverProc.seg.kind \in {"FIN", "ACK"}
    /\ serverProc.at = "reply" =>
           serverProc.seg \in FromServer /\ (serverProc.seg.kind = "SYNACK" \/ Empty(serverProc.seg))

\* Threads that are at work have a node.
Linked == /\ clientProc.at # "idle" \/ clientCmd.at # "idle" => client # NoTcb
          /\ serverProc.at # "idle" => server # NoTcb

Shape == /\ clientTcb = [k \in {K} |-> client] /\ serverTcb = [k \in {K} |-> server]
         /\ clientThread = [t \in {"proc", "cmd"} |-> clientThread[t]]
         /\ serverThread = [t \in {"proc", "cmd"} |-> serverThread[t]]
         /\ toServer = [k \in {K} |-> up] /\ toClient = [k \in {K} |-> down]
         /\ clientFin = [k \in {K} |-> clientEnds]
         /\ serverFin = [k \in {K} |-> serverEnds]
         /\ clientKnows = [k \in {K} |-> clientKnows[K]]
         /\ serverKnows = [k \in {K} |-> serverKnows[K]]

Types == /\ client \in Opener!Tcb \cup {NoTcb}
         /\ server \in Opener!Tcb \cup {NoTcb}
         /\ ClientProcType /\ ClientCmdType /\ ServerProcType
         /\ Linked
         /\ clientCalls = <<>>
         /\ serverCalls \in Opener!Script
         /\ up \in Seq(FromClient)
         /\ down \in Seq(FromServer)
         /\ clientEnds \in SUBSET {"sent", "rcvd"}
         /\ serverEnds \in SUBSET {"sent", "rcvd"}
         /\ lost = 0

-------------------------------------------------------------------------------
\* The stream.  Every segment but an empty acknowledgement has a place in it.
Consumes(seg) == ~Empty(seg)
Follows(seg, from, to) ==
    IF Consumes(seg) THEN /\ seg.seq = from /\ seg.src = from
                          /\ to = Opener!Add(from, Opener!Length(seg))
                     ELSE to = from

\* The segments of q are what there is of the stream between from and to.
Stream(q, from, to) ==
    \E pos \in [1 .. Len(q) + 1 -> Opener!SeqNum] :
        /\ pos[1] = from
        /\ pos[Len(q) + 1] = to
        /\ \A i \in 1 .. Len(q) : Follows(q[i], pos[i], pos[i + 1])

\* What is sent next and what is expected next.  A segment that has gone out counts
\* before its numbers are consumed, and one whose number is still to be taken over
\* counts as taken.
ClientNext  == IF clientCmd.at = "advance"
               THEN Opener!Add(client.snd_nxt, Opener!Length(clientCmd.seg))
               ELSE client.snd_nxt
ServerNext  == IF serverProc.at = "advance"
               THEN Opener!Add(server.snd_nxt, Opener!Length(serverProc.seg))
               ELSE server.snd_nxt
ClientWants == IF clientProc.at = "shaking" THEN Opener!Add(clientProc.seg.seq, 1)
                                            ELSE client.rcv_nxt

\* Whoever holds a segment with a place in the stream holds the next one; a FIN the
\* server holds goes with the state that was written before it.
HandInv ==
    /\ clientCmd.at = "emit" => /\ clientCmd.seg.seq = client.snd_nxt
                                /\ clientCmd.seg.src = client.snd_nxt
    /\ serverProc.at = "emit" => /\ serverProc.seg.seq = server.snd_nxt
                                 /\ serverProc.seg.src = server.snd_nxt
                                 /\ serverProc.seg.kind = "FIN" =>
                                        server.state \in {"FIN_WAIT_1", "LAST_ACK"}

-------------------------------------------------------------------------------
\* The handshake, one phase after the other.
AllIdle == clientProc.at = "idle" /\ serverProc.at = "idle"

Unopened == /\ client = NoTcb /\ server = NoTcb
            /\ AllIdle /\ clientCmd.at = "idle"
            /\ up = <<>> /\ down = <<>>

Opening == /\ client # NoTcb /\ server = NoTcb
           /\ client.valid /\ client.buf = NoBuf
           /\ AllIdle
           /\ up = <<>> /\ down = <<>>
           /\ \/ clientCmd.at = "connect" /\ client.state = "CLOSED"
              \/ /\ clientCmd.at = "emit" /\ clientCmd.seg.kind = "SYN"
                 /\ client.state = "SYN_SENT"

\* The SYN is out.
Syn == /\ client # NoTcb
       /\ client.valid /\ client.buf = NoBuf
       /\ client.state = "SYN_SENT"
       /\ clientProc.at = "idle"
       /\ \/ clientCmd.at = "advance" /\ clientCmd.seg.kind = "SYN"
          \/ clientCmd.at \in {"prompt", "idle"}

SynSent == /\ Syn
           /\ server = NoTcb /\ serverProc.at = "idle"
           /\ Len(up) = 1 /\ up[1].kind = "SYN"
           /\ ClientNext = Opener!Add(up[1].seq, 1)
           /\ down = <<>>

SynTaken == /\ Syn
            /\ server # NoTcb
            /\ server.valid /\ server.state = "SYN_RECV" /\ server.buf = NoBuf
            /\ server.rcv_nxt = ClientNext
            /\ up = <<>>
            /\ \/ /\ serverProc.at = "reply" /\ serverProc.seg.kind = "SYNACK"
                  /\ Opener!Add(serverProc.seg.seq, 1) = server.snd_nxt
                  /\ down = <<>>
               \/ /\ serverProc.at = "idle"
                  /\ Len(down) = 1 /\ down[1].kind = "SYNACK"
                  /\ Opener!Add(down[1].seq, 1) = server.snd_nxt

\* The SYN+ACK has come; from here on the two streams run.
Shaken == /\ client # NoTcb /\ server # NoTcb
          /\ client.state # "SYN_SENT"
          /\ clientCmd.at # "connect"
          /\ clientCmd.at = "emit" => clientCmd.seg.kind # "SYN"
          /\ serverProc.at = "reply" => serverProc.seg.kind = "ACK"
          /\ \A i \in 1 .. Len(up) : up[i].kind # "SYN"
          /\ \A i \in 1 .. Len(down) : down[i].kind # "SYNACK"
          /\ Stream(up, server.rcv_nxt, ClientNext)
          /\ Stream(down, ClientWants, ServerNext)

PhaseInv == Unopened \/ Opening \/ SynSent \/ SynTaken \/ Shaken

-------------------------------------------------------------------------------
\* The closing.  A FIN is the last of its stream.
HasFin(q)   == \E i \in 1 .. Len(q) : q[i].kind = "FIN"
NoneLeft(q) == \A i \in 1 .. Len(q) : ~Consumes(q[i])
FinLast(q)  == \A i, j \in 1 .. Len(q) : i < j /\ q[i].kind = "FIN" => ~Consumes(q[j])

\* An end that has sent its FIN has nothing more to say.
ClientDone == \/ clientCmd.at = "idle"
              \/ clientCmd.at = "advance" /\ clientCmd.seg.kind = "FIN"
ServerDone == /\ server.state \in {"FIN_WAIT_1", "FIN_WAIT_2", "LAST_ACK", "TIME_WAIT", "CLOSED"}
              /\ serverProc.at \notin {"active_close", "passive_close", "emit", "to_CLOSE_WAIT"}

\* An end that treats its peer as closed has taken its FIN.
PeerClosed(tcb, proc, closing) ==
    \/ tcb.state \in {"CLOSE_WAIT", "LAST_ACK", "TIME_WAIT"}
    \/ ~tcb.valid
    \/ proc.at \in {"to_CLOSE_WAIT", "to_TIME_WAIT", "to_stay"}
    \/ closing.at = "passive_close"

CloseInv ==
    /\ client # NoTcb /\ PeerClosed(client, clientProc, clientCmd) => "rcvd" \in clientEnds
    /\ server # NoTcb /\ PeerClosed(server, serverProc, serverProc) => "rcvd" \in serverEnds
    /\ "rcvd" \in clientEnds \cup serverEnds => Shaken
    /\ "rcvd" \in serverEnds => NoneLeft(up) /\ ClientDone
    /\ "rcvd" \in clientEnds => NoneLeft(down) /\ ServerDone
    /\ FinLast(up) /\ (HasFin(up) => ClientDone)
    /\ FinLast(down) /\ (HasFin(down) => ServerDone)

-------------------------------------------------------------------------------
\* A kept payload: either it is on its way, or its acknowledgement is.
End(buf) == Opener!Add(buf.seq, buf.len)
Holds(thread, buf) == /\ thread.at = "emit" /\ thread.seg.kind = "ACK"
                      /\ thread.seg.seq = buf.seq /\ thread.seg.len = buf.len
Carries(q, buf) == \E i \in 1 .. Len(q) :
                       q[i].kind = "ACK" /\ q[i].seq = buf.seq /\ q[i].len = buf.len
Answers(proc, tcb, buf) ==
    \/ /\ proc.at \in {"app", "emit", "advance", "active_close", "passive_close"}
       /\ tcb.rcv_nxt = End(buf)
    \/ proc.at = "reply" /\ proc.seg.kind = "ACK" /\ proc.seg.ack = End(buf)
Acks(q, buf) == \E i \in 1 .. Len(q) : q[i].kind = "ACK" /\ q[i].ack = End(buf)

Minded(tcb, hand, out, proc, peer, back) ==
    tcb # NoTcb /\ tcb.valid /\ tcb.buf # NoBuf =>
        \/ Holds(hand, tcb.buf) \/ Carries(out, tcb.buf)
        \/ Answers(proc, peer, tcb.buf) \/ Acks(back, tcb.buf)

KeptInv == /\ Minded(client, clientCmd, up, serverProc, server, down)
           /\ Minded(server, serverProc, down, clientProc, client, up)

PairInv == Types /\ HandInv /\ PhaseInv /\ CloseInv /\ KeptInv

-------------------------------------------------------------------------------
\* The addresses.  Nothing comes from the client before it knows the server's MAC, and
\* the server knows the client's by then.
Known == /\ clientKnows[K] => serverKnows[K]
         /\ server # NoTcb \/ up # <<>> => clientKnows[K]

\* A SYN that was dropped is sent once: the opening end stays in SYN_SENT.
Unheard == /\ Types /\ Syn
           /\ server = NoTcb /\ serverProc.at = "idle"
           /\ up = <<>> /\ down = <<>>

HostsInv == Known /\ (PairInv \/ Unheard)

-------------------------------------------------------------------------------
\* The two instances of Tcp differ in their variables only.
LEMMA SameOperators ==
    /\ Acceptor!SeqNum = Opener!SeqNum
    /\ Acceptor!Segment = Opener!Segment
    /\ Acceptor!Tcb = Opener!Tcb
    /\ Acceptor!Script = Opener!Script
    /\ Acceptor!Nothing = Opener!Nothing
    /\ Acceptor!Close = 0
    /\ \A a, b : Acceptor!Add(a, b) = Opener!Add(a, b)
    /\ \A seg : Acceptor!Length(seg) = Opener!Length(seg)
    /\ \A n, kind, len : Acceptor!Header(n, kind, len) = Opener!Header(n, kind, len)
    /\ \A n, seg : Acceptor!Acknowledge(n, seg) = Opener!Acknowledge(n, seg)
    /\ \A s : Acceptor!AfterAck(s) = Opener!AfterAck(s)
    /\ \A s : Acceptor!AtFin(s) = Opener!AtFin(s)
    /\ \A p, s : Acceptor!AfterFin(p, s) = Opener!AfterFin(p, s)
<1>1. \A a, b : Acceptor!Add(a, b) = Opener!Add(a, b)
    BY DEF Acceptor!Add, Opener!Add
<1>2. /\ Acceptor!SeqNum = Opener!SeqNum
      /\ Acceptor!State = Opener!State
      /\ Acceptor!Kind = Opener!Kind
    BY DEF Acceptor!SeqNum, Opener!SeqNum, Acceptor!State, Opener!State,
           Acceptor!Kind, Opener!Kind
<1>3. /\ Acceptor!Segment = Opener!Segment
      /\ Acceptor!Tcb = Opener!Tcb
    BY <1>2 DEF Acceptor!Segment, Opener!Segment, Acceptor!Tcb, Opener!Tcb
<1>4. /\ Acceptor!Script = Opener!Script
      /\ Acceptor!Nothing = Opener!Nothing
      /\ Acceptor!Close = 0
    BY DEF Acceptor!Script, Opener!Script, Acceptor!Nothing, Opener!Nothing, Acceptor!Close
<1>5. \A seg : Acceptor!Length(seg) = Opener!Length(seg)
    BY DEF Acceptor!Length, Opener!Length
<1>6. \A n, kind, len : Acceptor!Header(n, kind, len) = Opener!Header(n, kind, len)
    BY DEF Acceptor!Header, Opener!Header
<1>7. \A n, seg : Acceptor!Acknowledge(n, seg) = Opener!Acknowledge(n, seg)
    BY <1>1, Zenon DEF Acceptor!Acknowledge, Opener!Acknowledge
<1>8. /\ \A s : Acceptor!AfterAck(s) = Opener!AfterAck(s)
      /\ \A s : Acceptor!AtFin(s) = Opener!AtFin(s)
      /\ \A p, s : Acceptor!AfterFin(p, s) = Opener!AfterFin(p, s)
    BY Zenon DEF Acceptor!AfterAck, Opener!AfterAck, Acceptor!AtFin, Opener!AtFin,
           Acceptor!AfterFin, Opener!AfterFin
<1> QED
    BY <1>1, <1>2, <1>3, <1>4, <1>5, <1>6, <1>7, <1>8

LEMMA IdleIsRest == Opener!Idle = Rest /\ Acceptor!Idle = Rest
<1>1. (CHOOSE k \in {K} : TRUE) = K
    OBVIOUS
<1> QED
    BY <1>1, SameOperators DEF Opener!Idle, Acceptor!Idle, Rest, Place

\* uint32_t addition stays in the sequence space.
LEMMA AddType ==
    ASSUME NEW a \in Opener!SeqNum, NEW b \in Nat, b <= SeqMod
    PROVE  Opener!Add(a, b) \in Opener!SeqNum
BY SeqModAssumption DEF Opener!Add, Opener!SeqNum

LEMMA LengthType ==
    ASSUME NEW seg \in Opener!Segment
    PROVE  Opener!Length(seg) \in Nat /\ Opener!Length(seg) <= SeqMod
BY SeqModAssumption, SizeAssumption DEF Opener!Length, Opener!Segment

LEMMA HeaderType ==
    ASSUME NEW n \in Opener!Tcb, NEW kind \in Opener!Kind, NEW len \in 0 .. MaxLen
    PROVE  Opener!Header(n, kind, len) \in Opener!Segment
BY SizeAssumption DEF Opener!Header, Opener!Segment, Opener!Tcb

LEMMA NothingType == Opener!Nothing \in Opener!Segment
BY SeqModAssumption, SizeAssumption
   DEF Opener!Nothing, Opener!Segment, Opener!Kind, Opener!SeqNum

\* Each field of a node can be assigned a value of its type.
LEMMA FieldType ==
    ASSUME NEW n \in Opener!Tcb
    PROVE  /\ \A s \in Opener!State : [n EXCEPT !.state = s] \in Opener!Tcb
           /\ \A a \in Opener!SeqNum : [n EXCEPT !.snd_nxt = a] \in Opener!Tcb
           /\ \A a \in Opener!SeqNum : [n EXCEPT !.rcv_nxt = a] \in Opener!Tcb
           /\ \A s \in Opener!State, a \in Opener!SeqNum :
                  [n EXCEPT !.state = s, !.rcv_nxt = a] \in Opener!Tcb
           /\ [n EXCEPT !.state = "CLOSED", !.valid = FALSE] \in Opener!Tcb
           /\ \A b \in [seq : Opener!SeqNum, len : 1 .. MaxLen] :
                  [n EXCEPT !.buf = b] \in Opener!Tcb
           /\ [n EXCEPT !.buf = NoBuf] \in Opener!Tcb
BY DEF Opener!Tcb, Opener!State

LEMMA AcknowledgeType ==
    ASSUME NEW n \in Opener!Tcb, NEW seg \in Opener!Segment
    PROVE  /\ Opener!Acknowledge(n, seg) \in Opener!Tcb
           /\ Opener!Acknowledge(n, seg).state = n.state
           /\ Opener!Acknowledge(n, seg).valid = n.valid
           /\ Opener!Acknowledge(n, seg).snd_nxt = n.snd_nxt
           /\ Opener!Acknowledge(n, seg).rcv_nxt = n.rcv_nxt
           /\ Opener!Acknowledge(n, seg).buf =
                  IF n.buf # NoBuf /\ seg.ack >= Opener!Add(n.buf.seq, n.buf.len)
                  THEN NoBuf ELSE n.buf
<1> DEFINE buf == IF n.buf # NoBuf /\ seg.ack >= Opener!Add(n.buf.seq, n.buf.len)
                  THEN NoBuf ELSE n.buf
<1>1. buf \in [seq : Opener!SeqNum, len : 1 .. MaxLen] \cup {NoBuf}
    BY DEF Opener!Tcb
<1>2. Opener!Acknowledge(n, seg) =
          [n EXCEPT !.snd_wnd = seg.wnd, !.snd_una = seg.ack, !.buf = buf]
    BY DEF Opener!Acknowledge, Opener!Tcb
<1> HIDE DEF buf
<1>3. /\ Opener!Acknowledge(n, seg) \in Opener!Tcb
      /\ Opener!Acknowledge(n, seg).state = n.state
      /\ Opener!Acknowledge(n, seg).valid = n.valid
      /\ Opener!Acknowledge(n, seg).snd_nxt = n.snd_nxt
      /\ Opener!Acknowledge(n, seg).rcv_nxt = n.rcv_nxt
      /\ Opener!Acknowledge(n, seg).buf = buf
    BY <1>1, <1>2 DEF Opener!Tcb, Opener!Segment
<1> QED
    BY <1>3 DEF buf

LEMMA StateType ==
    ASSUME NEW s \in Opener!State
    PROVE  /\ Opener!AfterAck(s) \in Opener!State
           /\ \A p : Opener!AfterFin(p, s) \in Opener!State
           /\ Opener!AtFin(s) \in {"to_CLOSE_WAIT", "to_TIME_WAIT", "to_stay"}
BY DEF Opener!State, Opener!AfterAck, Opener!AfterFin, Opener!AtFin

\* Taking a segment off a channel and putting one in.
LEMMA TailType ==
    ASSUME NEW S, NEW q \in Seq(S), q # <<>>
    PROVE  /\ Head(q) \in S /\ Head(q) = q[1]
           /\ Tail(q) \in Seq(S)
           /\ Len(q) \in Nat \ {0} /\ Len(Tail(q)) = Len(q) - 1
           /\ \A i \in 1 .. Len(q) - 1 : Tail(q)[i] = q[i + 1]
OBVIOUS

LEMMA AppendType ==
    ASSUME NEW S, NEW q \in Seq(S), NEW e \in S
    PROVE  /\ Append(q, e) \in Seq(S)
           /\ Len(Append(q, e)) = Len(q) + 1
           /\ Append(q, e)[Len(q) + 1] = e
           /\ \A i \in 1 .. Len(q) : Append(q, e)[i] = q[i]
OBVIOUS

-------------------------------------------------------------------------------
\* What each step of TcpPair does to the one connection.
Live(tcb) == tcb # NoTcb /\ tcb.valid

TakesDown == clientProc.at = "idle" /\ down # <<>> /\ down' = Tail(down)
TakesUp   == serverProc.at = "idle" /\ up # <<>> /\ up' = Tail(up)

\* The process thread of the client.
ClientIgnores ==
    /\ TakesDown /\ ~Live(client)
    /\ UNCHANGED <<client, clientProc, clientCmd, clientEnds, up>>
ClientShakes ==
    /\ TakesDown /\ Live(client) /\ Head(down).kind = "SYNACK"
    /\ client' = [client EXCEPT !.state = "ESTABLISHED"]
    /\ clientProc' = Place("shaking", Head(down))
    /\ UNCHANGED <<clientCmd, clientEnds, up>>
ClientTakesOver ==
    /\ clientProc.at = "shaking"
    /\ client' = [client EXCEPT !.rcv_nxt = Opener!Add(clientProc.seg.seq, 1)]
    /\ clientProc' = Place("reply", Opener!Header(client', "ACK", 0))
    /\ UNCHANGED <<clientCmd, clientEnds, up, down>>
ClientTakesAck ==
    LET seg == Head(down)
        n == Opener!Acknowledge(client, seg) IN
    /\ TakesDown /\ Live(client) /\ seg.kind = "ACK"
    /\ \/ /\ n.state = "LAST_ACK"
          /\ client' = [n EXCEPT !.state = "CLOSED", !.valid = FALSE]
          /\ UNCHANGED clientProc
       \/ /\ n.state # "LAST_ACK" /\ seg.len = 0
          /\ client' = [n EXCEPT !.state = Opener!AfterAck(n.state)]
          /\ UNCHANGED clientProc
       \/ /\ n.state # "LAST_ACK" /\ seg.len > 0
          /\ client' = [n EXCEPT !.state = Opener!AfterAck(n.state),
                                 !.rcv_nxt = Opener!Add(seg.seq, seg.len)]
          /\ clientProc' = Place("app", Opener!Nothing)
    /\ UNCHANGED <<clientCmd, clientEnds, up>>
ClientTakesFin ==
    /\ TakesDown /\ Live(client) /\ Head(down).kind = "FIN"
    /\ client' = [client EXCEPT !.rcv_nxt = Opener!Add(Head(down).seq, 1)]
    /\ clientProc' = Place(Opener!AtFin(client.state), Opener!Nothing)
    /\ clientEnds' = clientEnds \cup {"rcvd"}
    /\ UNCHANGED <<clientCmd, up>>
ClientFinishesFin ==
    /\ clientProc.at \in {"to_CLOSE_WAIT", "to_TIME_WAIT", "to_stay"}
    /\ client' = [client EXCEPT !.state = Opener!AfterFin(clientProc.at, client.state)]
    /\ clientProc' = Place("reply", Opener!Header(client', "ACK", 0))
    /\ UNCHANGED <<clientCmd, clientEnds, up, down>>
ClientAcknowledges ==
    /\ clientProc.at = "app"
    /\ clientProc' = Place("reply", Opener!Header(client, "ACK", 0))
    /\ UNCHANGED <<client, clientCmd, clientEnds, up, down>>
ClientReplies ==
    /\ clientProc.at = "reply"
    /\ up' = Append(up, clientProc.seg)
    /\ clientProc' = Rest
    /\ UNCHANGED <<client, clientCmd, clientEnds, down>>

ClientProcMoves ==
    /\ \/ ClientIgnores \/ ClientShakes \/ ClientTakesOver \/ ClientTakesAck
       \/ ClientTakesFin \/ ClientFinishesFin \/ ClientAcknowledges \/ ClientReplies
    /\ UNCHANGED <<server, serverProc, serverCalls, serverEnds>>

\* Its command thread, and its user.
ClientConnects ==
    /\ client = NoTcb /\ clientCmd.at = "idle"
    /\ client' = [valid |-> TRUE, state |-> "CLOSED", snd_una |-> 0, snd_nxt |-> 0,
                  snd_wnd |-> 0, rcv_nxt |-> 0, buf |-> NoBuf]
    /\ clientCmd' = Place("connect", Opener!Nothing)
    /\ UNCHANGED <<clientProc, clientEnds, up, down>>
ClientInits ==
    /\ clientCmd.at = "connect"
    /\ \E iss \in Iss :
           client' = [client EXCEPT !.rcv_nxt = 0, !.snd_nxt = iss, !.snd_wnd = Wnd,
                                    !.snd_una = iss, !.state = "SYN_SENT"]
    /\ clientCmd' = Place("emit", Opener!Header(client', "SYN", 0))
    /\ UNCHANGED <<clientProc, clientEnds, up, down>>
ClientTypes ==
    /\ clientCmd.at = "prompt"
    /\ \/ UNCHANGED <<client, clientCmd>>
       \/ \E len \in Typed :
             /\ client.state = "ESTABLISHED"
             /\ client' = [client EXCEPT !.buf = [seq |-> client.snd_nxt, len |-> len]]
             /\ clientCmd' = Place("emit", Opener!Header(client, "ACK", len))
    /\ UNCHANGED <<clientProc, clientEnds, up, down>>
ClientLeaves ==
    /\ clientCmd.at = "prompt"
    /\ \/ client.state = "ESTABLISHED" /\ clientCmd' = Place("active_close", clientCmd.seg)
       \/ client.state = "CLOSE_WAIT" /\ clientCmd' = Place("passive_close", clientCmd.seg)
       \/ clientCmd' = Rest
    /\ UNCHANGED <<client, clientProc, clientEnds, up, down>>
ClientCloses ==
    /\ clientCmd.at \in {"active_close", "passive_close"}
    /\ client' = [client EXCEPT !.state = IF clientCmd.at = "active_close"
                                          THEN "FIN_WAIT_1" ELSE "LAST_ACK"]
    /\ clientCmd' = Place("emit", Opener!Header(client, "FIN", 0))
    /\ UNCHANGED <<clientProc, clientEnds, up, down>>
ClientEmits ==
    /\ clientCmd.at = "emit" /\ clientKnows[K]
    /\ up' = Append(up, clientCmd.seg)
    /\ clientCmd' = Place("advance", clientCmd.seg)
    /\ clientEnds' \in {clientEnds, clientEnds \cup {"sent"}}
    /\ UNCHANGED <<client, clientProc, down>>
ClientAdvances ==
    /\ clientCmd.at = "advance"
    /\ client' = [client EXCEPT
           !.snd_nxt = Opener!Add(client.snd_nxt, Opener!Length(clientCmd.seg))]
    /\ clientCmd' = IF clientCmd.seg.kind = "FIN" THEN Rest ELSE Place("prompt", Opener!Nothing)
    /\ UNCHANGED <<clientProc, clientEnds, up, down>>

ClientCmdMoves ==
    /\ \/ ClientConnects \/ ClientInits \/ ClientTypes \/ ClientLeaves
       \/ ClientCloses \/ ClientEmits \/ ClientAdvances
    /\ UNCHANGED <<server, serverProc, serverCalls, serverEnds>>

\* The process thread of the server.
ServerIgnores ==
    /\ TakesUp /\ ~Live(server) /\ Head(up).kind # "SYN"
    /\ UNCHANGED <<server, serverProc, serverCalls, serverEnds, down>>
ServerTakesSyn ==
    /\ TakesUp /\ Head(up).kind = "SYN"
    /\ \E iss \in Iss :
           LET fresh == [valid |-> TRUE, state |-> "SYN_RECV", snd_una |-> iss,
                         snd_nxt |-> iss, snd_wnd |-> Wnd,
                         rcv_nxt |-> Opener!Add(Head(up).seq, 1), buf |-> NoBuf]
               n == IF Live(server) THEN server ELSE fresh
           IN  /\ server' = [n EXCEPT !.snd_nxt = Opener!Add(n.snd_nxt, 1)]
               /\ serverProc' = Place("reply", Opener!Header(n, "SYNACK", 0))
    /\ UNCHANGED <<serverCalls, serverEnds, down>>
ServerTakesAck ==
    LET seg == Head(up)
        n == Opener!Acknowledge(server, seg) IN
    /\ TakesUp /\ Live(server) /\ seg.kind = "ACK"
    /\ \/ /\ n.state = "LAST_ACK"
          /\ server' = [n EXCEPT !.state = "CLOSED", !.valid = FALSE]
          /\ UNCHANGED <<serverProc, serverCalls>>
       \/ /\ n.state # "LAST_ACK" /\ seg.len = 0
          /\ server' = [n EXCEPT !.state = Opener!AfterAck(n.state)]
          /\ UNCHANGED <<serverProc, serverCalls>>
       \/ /\ n.state # "LAST_ACK" /\ seg.len > 0
          /\ server' = [n EXCEPT !.state = Opener!AfterAck(n.state),
                                 !.rcv_nxt = Opener!Add(seg.seq, seg.len)]
          /\ serverProc' = Place("app", Opener!Nothing)
          /\ serverCalls' \in ServerResponse
    /\ UNCHANGED <<serverEnds, down>>
ServerTakesFin ==
    /\ TakesUp /\ Live(server) /\ Head(up).kind = "FIN"
    /\ server' = [server EXCEPT !.rcv_nxt = Opener!Add(Head(up).seq, 1)]
    /\ serverProc' = Place(Opener!AtFin(server.state), Opener!Nothing)
    /\ serverEnds' = serverEnds \cup {"rcvd"}
    /\ UNCHANGED <<serverCalls, down>>
ServerFinishesFin ==
    /\ serverProc.at \in {"to_CLOSE_WAIT", "to_TIME_WAIT", "to_stay"}
    /\ server' = [server EXCEPT !.state = Opener!AfterFin(serverProc.at, server.state)]
    /\ serverProc' = Place("reply", Opener!Header(server', "ACK", 0))
    /\ UNCHANGED <<serverCalls, serverEnds, up, down>>
ServerSends ==
    /\ serverProc.at = "app" /\ serverCalls # <<>>
    /\ serverCalls' = Tail(serverCalls)
    /\ Head(serverCalls) # 0
    /\ \/ UNCHANGED <<server, serverProc>>
       \/ LET len == Head(serverCalls) IN
             /\ server.state = "ESTABLISHED"
             /\ server' = [server EXCEPT !.buf = [seq |-> server.snd_nxt, len |-> len]]
             /\ serverProc' = Place("emit", Opener!Header(server, "ACK", len))
    /\ UNCHANGED <<serverEnds, up, down>>
ServerLeaves ==
    /\ serverProc.at = "app" /\ serverCalls # <<>>
    /\ serverCalls' = Tail(serverCalls)
    /\ \/ server.state = "ESTABLISHED" /\ serverProc' = Place("active_close", serverProc.seg)
       \/ server.state = "CLOSE_WAIT" /\ serverProc' = Place("passive_close", serverProc.seg)
       \/ serverProc' = Place("app", Opener!Nothing)
    /\ UNCHANGED <<server, serverEnds, up, down>>
ServerAcknowledges ==
    /\ serverProc.at = "app" /\ serverCalls = <<>>
    /\ serverProc' = Place("reply", Opener!Header(server, "ACK", 0))
    /\ UNCHANGED <<server, serverCalls, serverEnds, up, down>>
ServerReplies ==
    /\ serverProc.at = "reply"
    /\ down' = Append(down, serverProc.seg)
    /\ serverProc' = Rest
    /\ UNCHANGED <<server, serverCalls, serverEnds, up>>
ServerCloses ==
    /\ serverProc.at \in {"active_close", "passive_close"}
    /\ server' = [server EXCEPT !.state = IF serverProc.at = "active_close"
                                          THEN "FIN_WAIT_1" ELSE "LAST_ACK"]
    /\ serverProc' = Place("emit", Opener!Header(server, "FIN", 0))
    /\ UNCHANGED <<serverCalls, serverEnds, up, down>>
ServerEmits ==
    /\ serverProc.at = "emit"
    /\ down' = Append(down, serverProc.seg)
    /\ serverProc' = Place("advance", serverProc.seg)
    /\ serverEnds' \in {serverEnds, serverEnds \cup {"sent"}}
    /\ UNCHANGED <<server, serverCalls, up>>
ServerAdvances ==
    /\ serverProc.at = "advance"
    /\ server' = [server EXCEPT
           !.snd_nxt = Opener!Add(server.snd_nxt, Opener!Length(serverProc.seg))]
    /\ serverProc' = Place("app", Opener!Nothing)
    /\ UNCHANGED <<serverCalls, serverEnds, up, down>>

ServerMoves ==
    /\ \/ ServerIgnores \/ ServerTakesSyn \/ ServerTakesAck \/ ServerTakesFin
       \/ ServerFinishesFin \/ ServerSends \/ ServerLeaves \/ ServerAcknowledges
       \/ ServerReplies \/ ServerCloses \/ ServerEmits \/ ServerAdvances
    /\ UNCHANGED <<client, clientProc, clientCmd, clientEnds>>

\* As long as no RTO passes and nothing is lost, there is nothing else ...
Perfect == RtoElapses = FALSE /\ MaxLost = 0
Moves == ClientProcMoves \/ ClientCmdMoves \/ ServerMoves

\* ... but a tcp_send_data that finds no memory and an ip_send that has no address.
ClientForgets ==
    /\ clientCmd.at = "prompt" /\ client.state = "ESTABLISHED"
    /\ client' = [client EXCEPT !.buf = NoBuf]
    /\ UNCHANGED <<clientProc, clientCmd, clientEnds, up, down>>
ClientDrops ==
    /\ clientCmd.at = "emit" /\ ~clientKnows[K]
    /\ clientCmd' = Place("advance", clientCmd.seg)
    /\ clientEnds' \in {clientEnds, clientEnds \cup {"sent"}}
    /\ UNCHANGED <<client, clientProc, up, down>>
ServerForgets ==
    /\ serverProc.at = "app" /\ server.state = "ESTABLISHED"
    /\ serverCalls # <<>> /\ serverCalls' = Tail(serverCalls)
    /\ server' = [server EXCEPT !.buf = NoBuf]
    /\ UNCHANGED <<serverProc, serverEnds, up, down>>

ClientFails == /\ ClientForgets \/ ClientDrops
               /\ UNCHANGED <<server, serverProc, serverCalls, serverEnds>>
ServerFails == ServerForgets /\ UNCHANGED <<client, clientProc, clientCmd, clientEnds>>
Stays == UNCHANGED <<client, server, up, down, clientProc, clientCmd, serverProc,
                     serverCalls, clientEnds, serverEnds>>

-------------------------------------------------------------------------------
\* The actions of the client's process thread are these steps.
ClientShape ==
    /\ clientTcb = [k \in {K} |-> client]
    /\ clientThread = [t \in {"proc", "cmd"} |-> clientThread[t]]
    /\ toServer = [k \in {K} |-> up] /\ toClient = [k \in {K} |-> down]
    /\ clientFin = [k \in {K} |-> clientEnds]
ServerShape ==
    /\ serverTcb = [k \in {K} |-> server]
    /\ serverThread = [t \in {"proc", "cmd"} |-> serverThread[t]]
    /\ toServer = [k \in {K} |-> up] /\ toClient = [k \in {K} |-> down]
    /\ serverFin = [k \in {K} |-> serverEnds]

\* What the shared steps of the handlers are on one connection.
LEMMA ClientUpdate ==
    ASSUME ClientShape, NEW n, Opener!Update(K, n)
    PROVE  client' = n /\ clientTcb' = [k \in {K} |-> client']
BY DEF ClientShape, Opener!Update, client

LEMMA ClientSend ==
    ASSUME ClientShape, NEW seg, Opener!Send(K, seg)
    PROVE  up' = Append(up, seg) /\ toServer' = [k \in {K} |-> up']
BY DEF ClientShape, Opener!Send, up

LEMMA ClientTaking ==
    ASSUME ClientShape, NEW kind, Opener!Taking(K, kind)
    PROVE  /\ TakesDown /\ Head(down).kind = kind
           /\ toClient' = [k \in {K} |-> down']
BY DEF ClientShape, Opener!Taking, TakesDown, down, clientProc

LEMMA ClientHold ==
    ASSUME ClientShape, clientProc = Place(clientProc.at, clientProc.seg),
           clientCmd = Place(clientCmd.at, clientCmd.seg), NEW place, NEW seg
    PROVE  /\ Opener!Hold("proc", place, seg) =>
                  /\ clientProc' = Place(place, seg) /\ UNCHANGED clientCmd
                  /\ clientThread' = [t \in {"proc", "cmd"} |-> clientThread'[t]]
           /\ Opener!Hold("cmd", place, seg) =>
                  /\ clientCmd' = Place(place, seg) /\ UNCHANGED clientProc
                  /\ clientThread' = [t \in {"proc", "cmd"} |-> clientThread'[t]]
           /\ Opener!Go("cmd", place) =>
                  /\ clientCmd' = Place(place, clientCmd.seg) /\ UNCHANGED clientProc
                  /\ clientThread' = [t \in {"proc", "cmd"} |-> clientThread'[t]]
           /\ Opener!Proc(K, place, seg) =>
                  /\ clientProc' = Place(place, seg) /\ UNCHANGED clientCmd
                  /\ clientThread' = [t \in {"proc", "cmd"} |-> clientThread'[t]]
<1>1. Opener!Hold("proc", place, seg) =>
          clientThread' = [clientThread EXCEPT !["proc"] = Place(place, seg)]
  <2>1. SUFFICES ASSUME Opener!Hold("proc", place, seg)
                 PROVE  clientThread' = [clientThread EXCEPT !["proc"] = Place(place, seg)]
      OBVIOUS
  <2>2. clientThread' = [clientThread EXCEPT !["proc"] =
                             [clientProc EXCEPT !.at = place, !.seg = seg]]
      BY <2>1, Zenon DEF ClientShape, Opener!Hold, clientProc
  <2>3. [clientProc EXCEPT !.at = place] = Place(place, clientProc.seg)
      BY DEF Place
  <2>4. [Place(place, clientProc.seg) EXCEPT !.seg = seg] = Place(place, seg)
      BY DEF Place
  <2> QED
      BY <2>2, <2>3, <2>4
<1>2. Opener!Hold("cmd", place, seg) =>
          clientThread' = [clientThread EXCEPT !["cmd"] = Place(place, seg)]
  <2>1. SUFFICES ASSUME Opener!Hold("cmd", place, seg)
                 PROVE  clientThread' = [clientThread EXCEPT !["cmd"] = Place(place, seg)]
      OBVIOUS
  <2>2. clientThread' = [clientThread EXCEPT !["cmd"] =
                             [clientCmd EXCEPT !.at = place, !.seg = seg]]
      BY <2>1, Zenon DEF ClientShape, Opener!Hold, clientCmd
  <2>3. [clientCmd EXCEPT !.at = place] = Place(place, clientCmd.seg)
      BY DEF Place
  <2>4. [Place(place, clientCmd.seg) EXCEPT !.seg = seg] = Place(place, seg)
      BY DEF Place
  <2> QED
      BY <2>2, <2>3, <2>4
<1>3. Opener!Go("cmd", place) =>
          clientThread' = [clientThread EXCEPT !["cmd"] = Place(place, clientCmd.seg)]
  <2>1. SUFFICES ASSUME Opener!Go("cmd", place)
                 PROVE  clientThread' = [clientThread EXCEPT !["cmd"] = Place(place, clientCmd.seg)]
      OBVIOUS
  <2>2. clientThread' = [clientThread EXCEPT !["cmd"] = [clientCmd EXCEPT !.at = place]]
      BY <2>1 DEF Opener!Go, clientCmd
  <2>3. [clientCmd EXCEPT !.at = place] = Place(place, clientCmd.seg)
      BY DEF Place
  <2> QED
      BY <2>2, <2>3
<1>4. Opener!Proc(K, place, seg) =>
          clientThread' = [clientThread EXCEPT !["proc"] = Place(place, seg)]
    BY DEF Opener!Proc, Place
<1>5. ASSUME NEW v, clientThread' = [clientThread EXCEPT !["proc"] = v]
      PROVE  /\ clientProc' = v /\ UNCHANGED clientCmd
             /\ clientThread' = [t \in {"proc", "cmd"} |-> clientThread'[t]]
    BY <1>5 DEF ClientShape, clientProc, clientCmd
<1>6. ASSUME NEW v, clientThread' = [clientThread EXCEPT !["cmd"] = v]
      PROVE  /\ clientCmd' = v /\ UNCHANGED clientProc
             /\ clientThread' = [t \in {"proc", "cmd"} |-> clientThread'[t]]
    BY <1>6 DEF ClientShape, clientProc, clientCmd
<1> QED
    BY <1>1, <1>2, <1>3, <1>4, <1>5, <1>6

LEMMA ClientReturn ==
    ASSUME ClientShape, clientProc = Place(clientProc.at, clientProc.seg),
           clientCmd = Place(clientCmd.at, clientCmd.seg), NEW place
    PROVE  /\ Opener!Return("proc", "idle") =>
                  /\ clientProc' = Rest /\ UNCHANGED clientCmd
                  /\ clientThread' = [t \in {"proc", "cmd"} |-> clientThread'[t]]
           /\ Opener!Return("cmd", place) =>
                  /\ clientCmd' = IF place = "idle" THEN Rest ELSE Place(place, Opener!Nothing)
                  /\ UNCHANGED clientProc
                  /\ clientThread' = [t \in {"proc", "cmd"} |-> clientThread'[t]]
<1>1. Opener!Return("proc", "idle") => clientThread' = [clientThread EXCEPT !["proc"] = Rest]
    BY IdleIsRest DEF Opener!Return
<1>2. Opener!Return("cmd", place) =>
          \/ place = "idle" /\ clientThread' = [clientThread EXCEPT !["cmd"] = Rest]
          \/ place # "idle" /\ Opener!Hold("cmd", place, Opener!Nothing)
    BY IdleIsRest DEF Opener!Return
<1> QED
    BY <1>1, <1>2, ClientHold DEF ClientShape, clientProc, clientCmd

LEMMA ClientWorks ==
    ASSUME Types
    PROVE  /\ clientProc = Place(clientProc.at, clientProc.seg)
           /\ clientCmd = Place(clientCmd.at, clientCmd.seg)
           /\ clientProc.conn = K /\ clientThread["proc"].conn = K
           /\ clientCmd.conn = K /\ clientThread["cmd"].conn = K
           /\ Opener!node("proc") = client /\ Opener!node("cmd") = client
           /\ Opener!Found(K) <=> Live(client)
BY DEF Types, ClientProcType, ClientCmdType, Place, Opener!node, client, clientProc,
       clientCmd, Opener!Found, Live

LEMMA ClientProcIs ==
    ASSUME Types, ClientShape, Opener!ProcStep
    PROVE  /\ \/ ClientIgnores \/ ClientShakes \/ ClientTakesOver \/ ClientTakesAck
              \/ ClientTakesFin \/ ClientFinishesFin \/ ClientAcknowledges \/ ClientReplies
           /\ ClientShape' /\ clientCalls' = <<>>
<1> DEFINE Goal == /\ \/ ClientIgnores \/ ClientShakes \/ ClientTakesOver \/ ClientTakesAck
                      \/ ClientTakesFin \/ ClientFinishesFin \/ ClientAcknowledges
                      \/ ClientReplies
                   /\ ClientShape' /\ clientCalls' = <<>>
<1> USE ClientWorks
<1>0. clientCalls = <<>>
    BY DEF Types
<1>1. ASSUME Opener!ignore(K) PROVE Goal
  <2>1. \E kind : Opener!Taking(K, kind)
      BY <1>1 DEF Opener!ignore
  <2>2. TakesDown /\ toClient' = [k \in {K} |-> down']
      BY <2>1, ClientTaking
  <2>3. UNCHANGED <<clientTcb, clientThread, clientCalls, toServer, clientFin>>
      BY <1>1 DEF Opener!ignore
  <2>4. UNCHANGED <<client, clientProc, clientCmd, up, clientEnds>>
      BY <2>3 DEF client, clientProc, clientCmd, up, clientEnds
  <2>5. Head(down).kind \in {"RST", "SYN"} \/ ~Live(client)
      BY <1>1, ClientTaking DEF Opener!ignore
  <2>6. Head(down).kind \notin {"RST", "SYN"}
      BY <2>2, TailType, SMTT(30) DEF Types, FromServer, TakesDown
  <2> QED
      BY <1>0, <2>2, <2>3, <2>4, <2>5, <2>6 DEF ClientIgnores, ClientShape
<1>2. ASSUME Opener!handle_sencond_shake(K) PROVE Goal
  <2>1. Opener!Taking(K, "SYNACK") /\ Opener!Found(K)
      BY <1>2 DEF Opener!handle_sencond_shake
  <2>2. TakesDown /\ Head(down).kind = "SYNACK" /\ toClient' = [k \in {K} |-> down']
      BY <2>1, ClientTaking
  <2>3. UNCHANGED <<clientCalls, toServer, clientFin>>
      BY <1>2 DEF Opener!handle_sencond_shake
  <2>4. Opener!Update(K, [client EXCEPT !.state = "ESTABLISHED"])
      BY <1>2 DEF Opener!handle_sencond_shake, client
  <2>5. Opener!Proc(K, "shaking", Head(down))
      BY <1>2 DEF Opener!handle_sencond_shake, down
  <2>6. ClientShakes
      BY <2>1, <2>2, <2>3, <2>4, <2>5, ClientUpdate, ClientHold
         DEF ClientShakes, up, clientEnds
  <2> QED
      BY <1>0, <2>2, <2>3, <2>4, <2>5, <2>6, ClientUpdate, ClientHold
         DEF ClientShape, up, clientEnds
<1>3. ASSUME Opener!finish_shake PROVE Goal
  <2> DEFINE n == [client EXCEPT !.rcv_nxt = Opener!Add(clientProc.seg.seq, 1)]
  <2>1. /\ clientProc.at = "shaking"
        /\ Opener!Update(K, n)
        /\ Opener!Hold("proc", "reply", Opener!Header(n, "ACK", 0))
        /\ UNCHANGED <<clientCalls, toClient, toServer, clientFin>>
      BY <1>3 DEF Opener!finish_shake, clientProc
  <2> HIDE DEF n
  <2>2. client' = n /\ clientTcb' = [k \in {K} |-> client']
      BY <2>1, ClientUpdate
  <2>3. ClientTakesOver
      BY <2>1, <2>2, ClientHold DEF ClientTakesOver, up, down, clientEnds, n
  <2> QED
      BY <1>0, <2>1, <2>2, <2>3, ClientHold DEF ClientShape, up, down, clientEnds
<1>4. ASSUME Opener!handle_tcp_ack(K) PROVE Goal
  <2> DEFINE seg == Head(down)
             n == Opener!Acknowledge(client, seg)
             fed == [n EXCEPT !.state = Opener!AfterAck(n.state),
                              !.rcv_nxt = Opener!Add(seg.seq, seg.len)]
             moved == [n EXCEPT !.state = Opener!AfterAck(n.state)]
             released == [n EXCEPT !.state = "CLOSED", !.valid = FALSE]
  <2>1. Opener!Taking(K, "ACK") /\ Opener!Found(K)
      BY <1>4 DEF Opener!handle_tcp_ack
  <2>2. TakesDown /\ seg.kind = "ACK" /\ toClient' = [k \in {K} |-> down']
      BY <2>1, ClientTaking
  <2>3. UNCHANGED <<toServer, clientFin>>
      BY <1>4 DEF Opener!handle_tcp_ack
  <2>4. \/ /\ n.state = "LAST_ACK"
           /\ Opener!Update(K, released)
           /\ UNCHANGED <<clientThread, clientCalls>>
        \/ /\ n.state # "LAST_ACK" /\ seg.len = 0
           /\ Opener!Update(K, moved)
           /\ UNCHANGED <<clientThread, clientCalls>>
        \/ /\ n.state # "LAST_ACK" /\ seg.len > 0
           /\ Opener!Update(K, fed)
           /\ Opener!Proc(K, "app", Opener!Nothing)
           /\ clientCalls' \in {<<>>}
      BY <1>4 DEF Opener!handle_tcp_ack, client, down
  <2>5. UNCHANGED <<up, clientEnds>>
      BY <2>3 DEF up, clientEnds
  <2>6. Live(client)
      BY <2>1
  <2>7. CASE n.state = "LAST_ACK" /\ Opener!Update(K, released)
             /\ UNCHANGED <<clientThread, clientCalls>>
    <3>1. client' = released /\ clientTcb' = [k \in {K} |-> client']
        BY <2>7, ClientUpdate
    <3>2. UNCHANGED <<clientProc, clientCmd>>
        BY <2>7 DEF clientProc, clientCmd
    <3>3. ClientTakesAck
        BY <2>2, <2>5, <2>6, <2>7, <3>1, <3>2 DEF ClientTakesAck
    <3> QED
        BY <1>0, <2>2, <2>3, <2>5, <2>7, <3>1, <3>3 DEF ClientShape
  <2>8. CASE n.state # "LAST_ACK" /\ seg.len = 0 /\ Opener!Update(K, moved)
             /\ UNCHANGED <<clientThread, clientCalls>>
    <3>1. client' = moved /\ clientTcb' = [k \in {K} |-> client']
        BY <2>8, ClientUpdate
    <3>2. UNCHANGED <<clientProc, clientCmd>>
        BY <2>8 DEF clientProc, clientCmd
    <3>3. ClientTakesAck
        BY <2>2, <2>5, <2>6, <2>8, <3>1, <3>2 DEF ClientTakesAck
    <3> QED
        BY <1>0, <2>2, <2>3, <2>5, <2>8, <3>1, <3>3 DEF ClientShape
  <2>9. CASE n.state # "LAST_ACK" /\ seg.len > 0 /\ Opener!Update(K, fed)
             /\ Opener!Proc(K, "app", Opener!Nothing) /\ clientCalls' \in {<<>>}
    <3>1. client' = fed /\ clientTcb' = [k \in {K} |-> client']
        BY <2>9, ClientUpdate
    <3>2. /\ clientProc' = Place("app", Opener!Nothing) /\ UNCHANGED clientCmd
          /\ clientThread' = [t \in {"proc", "cmd"} |-> clientThread'[t]]
        BY <2>9, ClientHold
    <3>3. ClientTakesAck
        BY <2>2, <2>5, <2>6, <2>9, <3>1, <3>2 DEF ClientTakesAck
    <3> QED
        BY <1>0, <2>2, <2>3, <2>5, <2>9, <3>1, <3>2, <3>3 DEF ClientShape
  <2> QED
      BY <2>4, <2>7, <2>8, <2>9
<1>5. ASSUME Opener!handle_tcp_fin(K) PROVE Goal
  <2>1. Opener!Taking(K, "FIN") /\ Opener!Found(K)
      BY <1>5 DEF Opener!handle_tcp_fin
  <2>2. TakesDown /\ Head(down).kind = "FIN" /\ toClient' = [k \in {K} |-> down']
      BY <2>1, ClientTaking
  <2>3. /\ UNCHANGED <<clientCalls, toServer>>
        /\ clientFin' = [clientFin EXCEPT ![K] = clientEnds \cup {"rcvd"}]
      BY <1>5 DEF Opener!handle_tcp_fin, clientEnds
  <2>4. /\ clientEnds' = clientEnds \cup {"rcvd"}
        /\ clientFin' = [k \in {K} |-> clientEnds']
      BY <2>3 DEF clientEnds, ClientShape
  <2>5. Opener!Update(K, [client EXCEPT !.rcv_nxt = Opener!Add(Head(down).seq, 1)])
      BY <1>5 DEF Opener!handle_tcp_fin, client, down
  <2>6. Opener!Proc(K, Opener!AtFin(client.state), Opener!Nothing)
      BY <1>5 DEF Opener!handle_tcp_fin, client
  <2>7. ClientTakesFin
      BY <2>1, <2>2, <2>3, <2>4, <2>5, <2>6, ClientUpdate, ClientHold
         DEF ClientTakesFin, up
  <2> QED
      BY <1>0, <2>2, <2>3, <2>4, <2>5, <2>6, <2>7, ClientUpdate, ClientHold
         DEF ClientShape, up
<1>6. ASSUME Opener!finish_fin PROVE Goal
  <2> DEFINE n == [client EXCEPT !.state = Opener!AfterFin(clientProc.at, client.state)]
  <2>1. /\ clientProc.at \in {"to_CLOSE_WAIT", "to_TIME_WAIT", "to_stay"}
        /\ Opener!Update(K, n)
        /\ Opener!Hold("proc", "reply", Opener!Header(n, "ACK", 0))
        /\ UNCHANGED <<clientCalls, toClient, toServer, clientFin>>
      BY <1>6 DEF Opener!finish_fin, clientProc
  <2> HIDE DEF n
  <2>2. client' = n /\ clientTcb' = [k \in {K} |-> client']
      BY <2>1, ClientUpdate
  <2>3. ClientFinishesFin
      BY <2>1, <2>2, ClientHold DEF ClientFinishesFin, up, down, clientEnds, n
  <2> QED
      BY <1>0, <2>1, <2>2, <2>3, ClientHold DEF ClientShape, up, down, clientEnds
<1>7. ASSUME Opener!acknowledge_data PROVE Goal
  <2>1. /\ clientProc.at = "app"
        /\ Opener!Hold("proc", "reply", Opener!Header(client, "ACK", 0))
        /\ UNCHANGED <<clientTcb, clientCalls, toClient, toServer, clientFin>>
      BY <1>7 DEF Opener!acknowledge_data, clientProc
  <2>2. ClientAcknowledges
      BY <2>1, ClientHold DEF ClientAcknowledges, client, up, down, clientEnds
  <2> QED
      BY <1>0, <2>1, <2>2, ClientHold DEF ClientShape, client, up, down, clientEnds
<1>8. ASSUME Opener!reply PROVE Goal
  <2>1. /\ clientProc.at = "reply"
        /\ Opener!Send(K, clientProc.seg)
        /\ Opener!Return("proc", "idle")
        /\ UNCHANGED <<clientTcb, clientCalls, toClient, clientFin>>
      BY <1>8 DEF Opener!reply, clientProc
  <2>2. ClientReplies
      BY <2>1, ClientReturn, ClientSend DEF ClientReplies, client, down, clientEnds
  <2> QED
      BY <1>0, <2>1, <2>2, ClientReturn, ClientSend DEF ClientShape, client, down, clientEnds
<1>9. /\ ~Opener!handle_tcp_syn(K)
      /\ ~Opener!app_layer_dispatch
      /\ ~Opener!enter_close("proc") /\ ~Opener!emit("proc") /\ ~Opener!advance("proc")
  <2>1. ~Opener!handle_tcp_syn(K)
      BY DEF Opener!handle_tcp_syn
  <2>2. ~Opener!app_layer_dispatch
      BY <1>0 DEF Opener!app_layer_dispatch
  <2>3. clientThread["proc"].at \notin {"active_close", "passive_close", "emit", "advance"}
      BY DEF Types, ClientProcType, clientProc
  <2> QED
      BY <2>1, <2>2, <2>3 DEF Opener!enter_close, Opener!emit, Opener!advance
<1> HIDE DEF Goal
<1>10. Goal
    BY <1>1, <1>2, <1>3, <1>4, <1>5, <1>6, <1>7, <1>8, <1>9 DEF Opener!ProcStep
<1> QED
    BY <1>10 DEF Goal

\* So are those of its command thread and its user.
LEMMA ClientCmdIs ==
    ASSUME Types, ClientShape,
           Opener!CmdStep \/ Opener!type \/ Opener!exit
               \/ (clientTcb[K] = NoTcb /\ Opener!tcp_connect(K))
    PROVE  /\ \/ ClientConnects \/ ClientInits \/ ClientTypes \/ ClientLeaves
              \/ ClientCloses \/ ClientEmits \/ ClientAdvances
              \/ ClientForgets \/ ClientDrops
           /\ ClientShape' /\ clientCalls' = <<>>
<1> DEFINE Goal == /\ \/ ClientConnects \/ ClientInits \/ ClientTypes \/ ClientLeaves
                      \/ ClientCloses \/ ClientEmits \/ ClientAdvances
                      \/ ClientForgets \/ ClientDrops
                   /\ ClientShape' /\ clientCalls' = <<>>
<1> USE ClientWorks
<1>0. clientCalls = <<>>
    BY DEF Types
<1>1. ASSUME clientTcb[K] = NoTcb, Opener!tcp_connect(K) PROVE Goal
  <2> DEFINE blank == [valid |-> TRUE, state |-> "CLOSED", snd_una |-> 0, snd_nxt |-> 0,
                       snd_wnd |-> 0, rcv_nxt |-> 0, buf |-> NoBuf]
  <2>1. client = NoTcb /\ ~Opener!Found(K)
      BY <1>1 DEF client, Opener!Found
  <2>2. /\ clientCmd.at = "idle"
        /\ Opener!Update(K, blank)
        /\ clientThread' = [clientThread EXCEPT !["cmd"] = Place("connect", Opener!Nothing)]
        /\ UNCHANGED <<clientCalls, toClient, toServer, clientFin>>
      BY <1>1, <2>1 DEF Opener!tcp_connect, clientCmd, Place
  <2>3. /\ clientCmd' = Place("connect", Opener!Nothing)
        /\ UNCHANGED clientProc
        /\ clientThread' = [t \in {"proc", "cmd"} |-> clientThread'[t]]
      BY <2>2 DEF ClientShape, clientCmd, clientProc
  <2>4. client' = blank /\ clientTcb' = [k \in {K} |-> client']
      BY <2>2, ClientUpdate
  <2>5. ClientConnects
      BY <2>1, <2>2, <2>3, <2>4 DEF ClientConnects, up, down, clientEnds
  <2> QED
      BY <1>0, <2>2, <2>3, <2>4, <2>5 DEF ClientShape, up, down, clientEnds
<1>2. ASSUME Opener!connect_init PROVE Goal
  <2>1. /\ clientCmd.at = "connect"
        /\ UNCHANGED <<clientCalls, toClient, toServer, clientFin>>
      BY <1>2 DEF Opener!connect_init, clientCmd
  <2>2. PICK iss \in Iss :
            LET n == [client EXCEPT !.rcv_nxt = 0, !.snd_nxt = iss, !.snd_wnd = Wnd,
                                    !.snd_una = iss, !.state = "SYN_SENT"]
            IN  Opener!Update(K, n) /\ Opener!Hold("cmd", "emit", Opener!Header(n, "SYN", 0))
      BY <1>2 DEF Opener!connect_init
  <2> DEFINE n == [client EXCEPT !.rcv_nxt = 0, !.snd_nxt = iss, !.snd_wnd = Wnd,
                                 !.snd_una = iss, !.state = "SYN_SENT"]
  <2>3. Opener!Update(K, n) /\ Opener!Hold("cmd", "emit", Opener!Header(n, "SYN", 0))
      BY <2>2
  <2> HIDE DEF n
  <2>4. client' = n /\ clientTcb' = [k \in {K} |-> client']
      BY <2>3, ClientUpdate
  <2>5. ClientInits
      BY <2>1, <2>3, <2>4, ClientHold DEF ClientInits, up, down, clientEnds, n
  <2> QED
      BY <1>0, <2>1, <2>3, <2>4, <2>5, ClientHold DEF ClientShape, up, down, clientEnds
<1>3. ASSUME Opener!type PROVE Goal
  <2>1. /\ clientCmd.at = "prompt"
        /\ UNCHANGED <<clientCalls, toClient, toServer, clientFin>>
      BY <1>3 DEF Opener!type, clientCmd
  <2>2. PICK len \in Typed : Opener!tcp_send_data("cmd", len)
      BY <1>3 DEF Opener!type
  <2>3. CASE UNCHANGED <<clientTcb, clientThread>>
    <3>1. UNCHANGED <<client, clientCmd, clientProc>>
        BY <2>3 DEF client, clientCmd, clientProc
    <3>2. ClientTypes
        BY <2>1, <3>1 DEF ClientTypes, up, down, clientEnds
    <3> QED
        BY <1>0, <2>1, <2>3, <3>1, <3>2 DEF ClientShape, up, down, clientEnds
  <2>4. CASE /\ client.state = "ESTABLISHED"
             /\ Opener!Update(K, [client EXCEPT !.buf = [seq |-> client.snd_nxt, len |-> len]])
             /\ Opener!Hold("cmd", "emit", Opener!Header(client, "ACK", len))
    <3>1. /\ client.state = "ESTABLISHED"
          /\ Opener!Update(K, [client EXCEPT !.buf = [seq |-> client.snd_nxt, len |-> len]])
          /\ Opener!Hold("cmd", "emit", Opener!Header(client, "ACK", len))
        BY <2>4
    <3>2. ClientTypes
        BY <2>1, <3>1, ClientUpdate, ClientHold DEF ClientTypes, up, down, clientEnds
    <3> QED
        BY <1>0, <2>1, <3>1, <3>2, ClientUpdate, ClientHold
           DEF ClientShape, up, down, clientEnds
  <2>5. CASE /\ client.state = "ESTABLISHED"
             /\ Opener!Update(K, [client EXCEPT !.buf = NoBuf])
             /\ UNCHANGED clientThread
    <3>1. /\ client' = [client EXCEPT !.buf = NoBuf]
          /\ clientTcb' = [k \in {K} |-> client']
          /\ UNCHANGED <<clientCmd, clientProc>>
        BY <2>5, ClientUpdate DEF clientCmd, clientProc
    <3>2. ClientForgets
        BY <2>1, <2>5, <3>1 DEF ClientForgets, up, down, clientEnds
    <3> QED
        BY <1>0, <2>1, <2>5, <3>1, <3>2 DEF ClientShape, up, down, clientEnds
  <2> QED
      BY <2>2, <2>3, <2>4, <2>5 DEF Opener!tcp_send_data
<1>4. ASSUME Opener!exit PROVE Goal
  <2>1. /\ clientCmd.at = "prompt"
        /\ UNCHANGED <<clientCalls, toClient, toServer, clientFin>>
        /\ UNCHANGED clientTcb
      BY <1>4 DEF Opener!exit, Opener!tcp_close, clientCmd
  <2>2. \/ client.state = "ESTABLISHED" /\ Opener!Go("cmd", "active_close")
        \/ client.state = "CLOSE_WAIT" /\ Opener!Go("cmd", "passive_close")
        \/ Opener!Return("cmd", "idle")
      BY <1>4 DEF Opener!exit, Opener!tcp_close, Opener!Resume
  <2>3. /\ \/ client.state = "ESTABLISHED" /\ clientCmd' = Place("active_close", clientCmd.seg)
           \/ client.state = "CLOSE_WAIT" /\ clientCmd' = Place("passive_close", clientCmd.seg)
           \/ clientCmd' = Rest
        /\ UNCHANGED clientProc
        /\ clientThread' = [t \in {"proc", "cmd"} |-> clientThread'[t]]
      BY <2>2, ClientHold, ClientReturn
  <2>4. ClientLeaves
      BY <2>1, <2>3 DEF ClientLeaves, client, up, down, clientEnds
  <2> QED
      BY <1>0, <2>1, <2>3, <2>4 DEF ClientShape, client, up, down, clientEnds
<1>5. ASSUME Opener!enter_close("cmd") PROVE Goal
  <2> DEFINE n == [client EXCEPT !.state = IF clientCmd.at = "active_close"
                                           THEN "FIN_WAIT_1" ELSE "LAST_ACK"]
  <2>1. /\ clientCmd.at \in {"active_close", "passive_close"}
        /\ Opener!Update(K, n)
        /\ Opener!Hold("cmd", "emit", Opener!Header(client, "FIN", 0))
        /\ UNCHANGED <<clientCalls, toClient, toServer, clientFin>>
      BY <1>5 DEF Opener!enter_close, clientCmd
  <2> HIDE DEF n
  <2>2. client' = n /\ clientTcb' = [k \in {K} |-> client']
      BY <2>1, ClientUpdate
  <2>3. ClientCloses
      BY <2>1, <2>2, ClientHold DEF ClientCloses, up, down, clientEnds, n
  <2> QED
      BY <1>0, <2>1, <2>2, <2>3, ClientHold DEF ClientShape, up, down, clientEnds
<1>6. ASSUME Opener!emit("cmd") PROVE Goal
  <2>1. /\ clientCmd.at = "emit"
        /\ IF clientKnows[K] THEN Opener!Send(K, clientCmd.seg) ELSE UNCHANGED toServer
        /\ clientFin' = [clientFin EXCEPT ![K] = clientEnds \cup
                             IF clientCmd.seg.kind = "FIN" THEN {"sent"} ELSE {}]
        /\ Opener!Go("cmd", "advance")
        /\ UNCHANGED <<clientTcb, clientCalls, toClient>>
      BY <1>6 DEF Opener!emit, Opener!ip_send, clientCmd, clientEnds
  <2>2. /\ clientEnds' \in {clientEnds, clientEnds \cup {"sent"}}
        /\ clientFin' = [k \in {K} |-> clientEnds']
      BY <2>1 DEF ClientShape, clientEnds
  <2>3. CASE clientKnows[K]
    <3>1. ClientEmits
        BY <2>1, <2>2, <2>3, ClientSend, ClientHold DEF ClientEmits, client, down
    <3> QED
        BY <1>0, <2>1, <2>2, <2>3, <3>1, ClientSend, ClientHold DEF ClientShape, client, down
  <2>4. CASE ~clientKnows[K]
    <3>1. ClientDrops
        BY <2>1, <2>2, <2>4, ClientHold DEF ClientDrops, client, up, down
    <3> QED
        BY <1>0, <2>1, <2>2, <2>4, <3>1, ClientHold DEF ClientShape, client, up, down
  <2> QED
      BY <2>3, <2>4
<1>7. ASSUME Opener!advance("cmd") PROVE Goal
  <2> DEFINE n == [client EXCEPT
                       !.snd_nxt = Opener!Add(client.snd_nxt, Opener!Length(clientCmd.seg))]
             place == IF clientCmd.seg.kind = "FIN" THEN "idle" ELSE "prompt"
  <2>1. /\ clientCmd.at = "advance"
        /\ Opener!Update(K, n)
        /\ Opener!Return("cmd", place)
        /\ UNCHANGED <<clientCalls, toClient, toServer, clientFin>>
      BY <1>7 DEF Opener!advance, Opener!Resume, clientCmd
  <2> HIDE DEF n, place
  <2>2. client' = n /\ clientTcb' = [k \in {K} |-> client']
      BY <2>1, ClientUpdate
  <2>3. /\ clientCmd' = IF place = "idle" THEN Rest ELSE Place(place, Opener!Nothing)
        /\ UNCHANGED clientProc
        /\ clientThread' = [t \in {"proc", "cmd"} |-> clientThread'[t]]
      BY <2>1, ClientReturn
  <2>4. ClientAdvances
      BY <2>1, <2>2, <2>3 DEF ClientAdvances, up, down, clientEnds, n, place
  <2> QED
      BY <1>0, <2>1, <2>2, <2>3, <2>4 DEF ClientShape, up, down, clientEnds
<1> HIDE DEF Goal
<1>8. Goal
    BY <1>1, <1>2, <1>3, <1>4, <1>5, <1>6, <1>7 DEF Opener!CmdStep
<1> QED
    BY <1>8 DEF Goal

-------------------------------------------------------------------------------
\* And those of the server's process thread.
LEMMA ServerUpdate ==
    ASSUME ServerShape, NEW n, Acceptor!Update(K, n)
    PROVE  server' = n /\ serverTcb' = [k \in {K} |-> server']
BY DEF ServerShape, Acceptor!Update, server

LEMMA ServerSend ==
    ASSUME ServerShape, NEW seg, Acceptor!Send(K, seg)
    PROVE  down' = Append(down, seg) /\ toClient' = [k \in {K} |-> down']
BY DEF ServerShape, Acceptor!Send, down

LEMMA ServerTaking ==
    ASSUME ServerShape, NEW kind, Acceptor!Taking(K, kind)
    PROVE  /\ TakesUp /\ Head(up).kind = kind
           /\ toServer' = [k \in {K} |-> up']
BY DEF ServerShape, Acceptor!Taking, TakesUp, up, serverProc

LEMMA ServerHold ==
    ASSUME ServerShape, serverProc = Place(serverProc.at, serverProc.seg), NEW place, NEW seg
    PROVE  /\ Acceptor!Hold("proc", place, seg) =>
                  /\ serverProc' = Place(place, seg)
                  /\ serverThread' = [t \in {"proc", "cmd"} |-> serverThread'[t]]
           /\ Acceptor!Go("proc", place) =>
                  /\ serverProc' = Place(place, serverProc.seg)
                  /\ serverThread' = [t \in {"proc", "cmd"} |-> serverThread'[t]]
           /\ Acceptor!Proc(K, place, seg) =>
                  /\ serverProc' = Place(place, seg)
                  /\ serverThread' = [t \in {"proc", "cmd"} |-> serverThread'[t]]
<1>1. Acceptor!Hold("proc", place, seg) =>
          serverThread' = [serverThread EXCEPT !["proc"] = Place(place, seg)]
  <2>1. SUFFICES ASSUME Acceptor!Hold("proc", place, seg)
                 PROVE  serverThread' = [serverThread EXCEPT !["proc"] = Place(place, seg)]
      OBVIOUS
  <2>2. serverThread' = [serverThread EXCEPT !["proc"] =
                             [serverProc EXCEPT !.at = place, !.seg = seg]]
      BY <2>1, Zenon DEF ServerShape, Acceptor!Hold, serverProc
  <2>3. [serverProc EXCEPT !.at = place] = Place(place, serverProc.seg)
      BY DEF Place
  <2>4. [Place(place, serverProc.seg) EXCEPT !.seg = seg] = Place(place, seg)
      BY DEF Place
  <2> QED
      BY <2>2, <2>3, <2>4
<1>2. Acceptor!Go("proc", place) =>
          serverThread' = [serverThread EXCEPT !["proc"] = Place(place, serverProc.seg)]
  <2>1. SUFFICES ASSUME Acceptor!Go("proc", place)
                 PROVE  serverThread' = [serverThread EXCEPT !["proc"] =
                                             Place(place, serverProc.seg)]
      OBVIOUS
  <2>2. serverThread' = [serverThread EXCEPT !["proc"] = [serverProc EXCEPT !.at = place]]
      BY <2>1 DEF Acceptor!Go, serverProc
  <2>3. [serverProc EXCEPT !.at = place] = Place(place, serverProc.seg)
      BY DEF Place
  <2> QED
      BY <2>2, <2>3
<1>3. Acceptor!Proc(K, place, seg) =>
          serverThread' = [serverThread EXCEPT !["proc"] = Place(place, seg)]
    BY DEF Acceptor!Proc, Place
<1>4. ASSUME NEW v, serverThread' = [serverThread EXCEPT !["proc"] = v]
      PROVE  /\ serverProc' = v
             /\ serverThread' = [t \in {"proc", "cmd"} |-> serverThread'[t]]
    BY <1>4 DEF ServerShape, serverProc
<1> QED
    BY <1>1, <1>2, <1>3, <1>4

LEMMA ServerReturn ==
    ASSUME ServerShape, serverProc = Place(serverProc.at, serverProc.seg), NEW place,
           Acceptor!Return("proc", place)
    PROVE  /\ serverProc' = IF place = "idle" THEN Rest ELSE Place(place, Opener!Nothing)
           /\ serverThread' = [t \in {"proc", "cmd"} |-> serverThread'[t]]
<1>1. \/ place = "idle" /\ serverThread' = [serverThread EXCEPT !["proc"] = Rest]
      \/ place # "idle" /\ Acceptor!Hold("proc", place, Opener!Nothing)
    BY IdleIsRest, SameOperators DEF Acceptor!Return
<1> QED
    BY <1>1, ServerHold DEF ServerShape, serverProc

LEMMA ServerWorks ==
    ASSUME Types
    PROVE  /\ serverProc = Place(serverProc.at, serverProc.seg)
           /\ serverProc.conn = K /\ serverThread["proc"].conn = K
           /\ Acceptor!node("proc") = server
           /\ Acceptor!Found(K) <=> Live(server)
BY DEF Types, ServerProcType, Place, Acceptor!node, server, serverProc, Acceptor!Found, Live

LEMMA ServerProcIs ==
    ASSUME Types, ServerShape, Acceptor!ProcStep,
           serverProc.at = "emit" => serverKnows[K]
    PROVE  /\ \/ ServerIgnores \/ ServerTakesSyn \/ ServerTakesAck \/ ServerTakesFin
              \/ ServerFinishesFin \/ ServerSends \/ ServerLeaves \/ ServerAcknowledges
              \/ ServerReplies \/ ServerCloses \/ ServerEmits \/ ServerAdvances
              \/ ServerForgets
           /\ ServerShape'
<1> DEFINE Goal == /\ \/ ServerIgnores \/ ServerTakesSyn \/ ServerTakesAck \/ ServerTakesFin
                      \/ ServerFinishesFin \/ ServerSends \/ ServerLeaves
                      \/ ServerAcknowledges \/ ServerReplies \/ ServerCloses \/ ServerEmits
                      \/ ServerAdvances \/ ServerForgets
                   /\ ServerShape'
<1> USE ServerWorks
<1>1. ASSUME Acceptor!ignore(K) PROVE Goal
  <2>1. \E kind : Acceptor!Taking(K, kind)
      BY <1>1 DEF Acceptor!ignore
  <2>2. TakesUp /\ toServer' = [k \in {K} |-> up']
      BY <2>1, ServerTaking
  <2>3. UNCHANGED <<serverTcb, serverThread, serverCalls, toClient, serverFin>>
      BY <1>1 DEF Acceptor!ignore
  <2>4. UNCHANGED <<server, serverProc, down, serverEnds>>
      BY <2>3 DEF server, serverProc, down, serverEnds
  <2>5. Head(up).kind = "RST" \/ (~Live(server) /\ Head(up).kind # "SYN")
      BY <1>1, ServerTaking DEF Acceptor!ignore
  <2>6. Head(up).kind # "RST"
      BY <2>2, TailType DEF Types, FromClient, TakesUp
  <2> QED
      BY <2>2, <2>3, <2>4, <2>5, <2>6 DEF ServerIgnores, ServerShape
<1>2. ASSUME Acceptor!handle_tcp_syn(K) PROVE Goal
  <2>1. Acceptor!Taking(K, "SYN")
      BY <1>2 DEF Acceptor!handle_tcp_syn
  <2>2. TakesUp /\ Head(up).kind = "SYN" /\ toServer' = [k \in {K} |-> up']
      BY <2>1, ServerTaking
  <2>3. UNCHANGED <<serverCalls, toClient, serverFin>>
      BY <1>2 DEF Acceptor!handle_tcp_syn
  <2>4. PICK iss \in Iss :
            LET fresh == [valid |-> TRUE, state |-> "SYN_RECV", snd_una |-> iss,
                          snd_nxt |-> iss, snd_wnd |-> Wnd,
                          rcv_nxt |-> Opener!Add(Head(up).seq, 1), buf |-> NoBuf]
                n == IF Live(server) THEN server ELSE fresh
            IN  /\ Acceptor!Update(K, [n EXCEPT !.snd_nxt = Opener!Add(n.snd_nxt, 1)])
                /\ Acceptor!Proc(K, "reply", Opener!Header(n, "SYNACK", 0))
      BY <1>2, SameOperators DEF Acceptor!handle_tcp_syn, server, up
  <2> DEFINE fresh == [valid |-> TRUE, state |-> "SYN_RECV", snd_una |-> iss,
                       snd_nxt |-> iss, snd_wnd |-> Wnd,
                       rcv_nxt |-> Opener!Add(Head(up).seq, 1), buf |-> NoBuf]
             n == IF Live(server) THEN server ELSE fresh
             moved == [n EXCEPT !.snd_nxt = Opener!Add(n.snd_nxt, 1)]
  <2>5. /\ Acceptor!Update(K, moved)
        /\ Acceptor!Proc(K, "reply", Opener!Header(n, "SYNACK", 0))
      BY <2>4
  <2>6. /\ server' = moved /\ serverTcb' = [k \in {K} |-> server']
        /\ serverProc' = Place("reply", Opener!Header(n, "SYNACK", 0))
        /\ serverThread' = [t \in {"proc", "cmd"} |-> serverThread'[t]]
    <3> HIDE DEF moved, n
    <3> QED
        BY <2>5, ServerUpdate, ServerHold
  <2>7. ServerTakesSyn
      BY <2>2, <2>3, <2>6 DEF ServerTakesSyn, down, serverEnds
  <2> QED
      BY <2>2, <2>3, <2>6, <2>7 DEF ServerShape, down, serverEnds
<1>3. ASSUME Acceptor!handle_tcp_ack(K) PROVE Goal
  <2> DEFINE seg == Head(up)
             n == Opener!Acknowledge(server, seg)
             fed == [n EXCEPT !.state = Opener!AfterAck(n.state),
                              !.rcv_nxt = Opener!Add(seg.seq, seg.len)]
             moved == [n EXCEPT !.state = Opener!AfterAck(n.state)]
             released == [n EXCEPT !.state = "CLOSED", !.valid = FALSE]
  <2>1. Acceptor!Taking(K, "ACK") /\ Acceptor!Found(K)
      BY <1>3 DEF Acceptor!handle_tcp_ack
  <2>2. TakesUp /\ seg.kind = "ACK" /\ toServer' = [k \in {K} |-> up']
      BY <2>1, ServerTaking
  <2>3. UNCHANGED <<toClient, serverFin>>
      BY <1>3 DEF Acceptor!handle_tcp_ack
  <2>4. \/ /\ n.state = "LAST_ACK"
           /\ Acceptor!Update(K, released)
           /\ UNCHANGED <<serverThread, serverCalls>>
        \/ /\ n.state # "LAST_ACK" /\ seg.len = 0
           /\ Acceptor!Update(K, moved)
           /\ UNCHANGED <<serverThread, serverCalls>>
        \/ /\ n.state # "LAST_ACK" /\ seg.len > 0
           /\ Acceptor!Update(K, fed)
           /\ Acceptor!Proc(K, "app", Opener!Nothing)
           /\ serverCalls' \in ServerResponse
      BY <1>3, SameOperators DEF Acceptor!handle_tcp_ack, server, up
  <2>5. UNCHANGED <<down, serverEnds>>
      BY <2>3 DEF down, serverEnds
  <2>6. Live(server)
      BY <2>1
  <2>7. CASE n.state = "LAST_ACK" /\ Acceptor!Update(K, released)
             /\ UNCHANGED <<serverThread, serverCalls>>
    <3>1. server' = released /\ serverTcb' = [k \in {K} |-> server']
        BY <2>7, ServerUpdate
    <3>2. UNCHANGED serverProc
        BY <2>7 DEF serverProc
    <3>3. ServerTakesAck
        BY <2>2, <2>5, <2>6, <2>7, <3>1, <3>2 DEF ServerTakesAck
    <3> QED
        BY <2>2, <2>3, <2>5, <2>7, <3>1, <3>3 DEF ServerShape
  <2>8. CASE n.state # "LAST_ACK" /\ seg.len = 0 /\ Acceptor!Update(K, moved)
             /\ UNCHANGED <<serverThread, serverCalls>>
    <3>1. server' = moved /\ serverTcb' = [k \in {K} |-> server']
        BY <2>8, ServerUpdate
    <3>2. UNCHANGED serverProc
        BY <2>8 DEF serverProc
    <3>3. ServerTakesAck
        BY <2>2, <2>5, <2>6, <2>8, <3>1, <3>2 DEF ServerTakesAck
    <3> QED
        BY <2>2, <2>3, <2>5, <2>8, <3>1, <3>3 DEF ServerShape
  <2>9. CASE n.state # "LAST_ACK" /\ seg.len > 0 /\ Acceptor!Update(K, fed)
             /\ Acceptor!Proc(K, "app", Opener!Nothing) /\ serverCalls' \in ServerResponse
    <3>1. server' = fed /\ serverTcb' = [k \in {K} |-> server']
        BY <2>9, ServerUpdate
    <3>2. /\ serverProc' = Place("app", Opener!Nothing)
          /\ serverThread' = [t \in {"proc", "cmd"} |-> serverThread'[t]]
        BY <2>9, ServerHold
    <3>3. ServerTakesAck
        BY <2>2, <2>5, <2>6, <2>9, <3>1, <3>2 DEF ServerTakesAck
    <3> QED
        BY <2>2, <2>3, <2>5, <2>9, <3>1, <3>2, <3>3 DEF ServerShape
  <2> QED
      BY <2>4, <2>7, <2>8, <2>9
<1>4. ASSUME Acceptor!handle_tcp_fin(K) PROVE Goal
  <2>1. Acceptor!Taking(K, "FIN") /\ Acceptor!Found(K)
      BY <1>4 DEF Acceptor!handle_tcp_fin
  <2>2. TakesUp /\ Head(up).kind = "FIN" /\ toServer' = [k \in {K} |-> up']
      BY <2>1, ServerTaking
  <2>3. /\ UNCHANGED <<serverCalls, toClient>>
        /\ serverFin' = [serverFin EXCEPT ![K] = serverEnds \cup {"rcvd"}]
      BY <1>4 DEF Acceptor!handle_tcp_fin, serverEnds
  <2>4. /\ serverEnds' = serverEnds \cup {"rcvd"}
        /\ serverFin' = [k \in {K} |-> serverEnds']
      BY <2>3 DEF serverEnds, ServerShape
  <2>5. Acceptor!Update(K, [server EXCEPT !.rcv_nxt = Opener!Add(Head(up).seq, 1)])
      BY <1>4, SameOperators DEF Acceptor!handle_tcp_fin, server, up
  <2>6. Acceptor!Proc(K, Opener!AtFin(server.state), Opener!Nothing)
      BY <1>4, SameOperators DEF Acceptor!handle_tcp_fin, server
  <2>7. ServerTakesFin
      BY <2>1, <2>2, <2>3, <2>4, <2>5, <2>6, ServerUpdate, ServerHold
         DEF ServerTakesFin, down
  <2> QED
      BY <2>2, <2>3, <2>4, <2>5, <2>6, <2>7, ServerUpdate, ServerHold
         DEF ServerShape, down
<1>5. ASSUME Acceptor!finish_fin PROVE Goal
  <2> DEFINE n == [server EXCEPT !.state = Opener!AfterFin(serverProc.at, server.state)]
  <2>1. /\ serverProc.at \in {"to_CLOSE_WAIT", "to_TIME_WAIT", "to_stay"}
        /\ Acceptor!Update(K, n)
        /\ Acceptor!Hold("proc", "reply", Opener!Header(n, "ACK", 0))
        /\ UNCHANGED <<serverCalls, toClient, toServer, serverFin>>
      BY <1>5, SameOperators DEF Acceptor!finish_fin, serverProc
  <2> HIDE DEF n
  <2>2. server' = n /\ serverTcb' = [k \in {K} |-> server']
      BY <2>1, ServerUpdate
  <2>3. ServerFinishesFin
      BY <2>1, <2>2, ServerHold DEF ServerFinishesFin, up, down, serverEnds, n
  <2> QED
      BY <2>1, <2>2, <2>3, ServerHold DEF ServerShape, up, down, serverEnds
<1>6. ASSUME Acceptor!app_layer_dispatch PROVE Goal
  <2>1. /\ serverProc.at = "app" /\ serverCalls # <<>>
        /\ serverCalls' = Tail(serverCalls)
        /\ UNCHANGED <<toClient, toServer, serverFin>>
      BY <1>6 DEF Acceptor!app_layer_dispatch, serverProc
  <2>2. CASE Head(serverCalls) = 0
    <3>1. Acceptor!tcp_close("proc")
        BY <1>6, <2>2, SameOperators DEF Acceptor!app_layer_dispatch
    <3>2. /\ UNCHANGED serverTcb
          /\ \/ server.state = "ESTABLISHED" /\ Acceptor!Go("proc", "active_close")
             \/ server.state = "CLOSE_WAIT" /\ Acceptor!Go("proc", "passive_close")
             \/ Acceptor!Return("proc", "app")
        BY <3>1 DEF Acceptor!tcp_close, Acceptor!Resume
    <3>3. /\ \/ server.state = "ESTABLISHED" /\ serverProc' = Place("active_close", serverProc.seg)
             \/ server.state = "CLOSE_WAIT" /\ serverProc' = Place("passive_close", serverProc.seg)
             \/ serverProc' = Place("app", Opener!Nothing)
          /\ serverThread' = [t \in {"proc", "cmd"} |-> serverThread'[t]]
        BY <3>2, ServerHold, ServerReturn
    <3>4. ServerLeaves
        BY <2>1, <3>2, <3>3 DEF ServerLeaves, server, up, down, serverEnds
    <3> QED
        BY <2>1, <3>2, <3>3, <3>4 DEF ServerShape, server, up, down, serverEnds
  <2>3. CASE Head(serverCalls) # 0
    <3>1. Acceptor!tcp_send_data("proc", Head(serverCalls))
        BY <1>6, <2>3, SameOperators DEF Acceptor!app_layer_dispatch
    <3>2. CASE UNCHANGED <<serverTcb, serverThread>>
      <4>1. UNCHANGED <<server, serverProc>>
          BY <3>2 DEF server, serverProc
      <4>2. ServerSends
          BY <2>1, <2>3, <4>1 DEF ServerSends, up, down, serverEnds
      <4> QED
          BY <2>1, <3>2, <4>1, <4>2 DEF ServerShape, up, down, serverEnds
    <3> DEFINE len == Head(serverCalls)
    <3>3. CASE /\ server.state = "ESTABLISHED"
               /\ Acceptor!Update(K, [server EXCEPT !.buf = [seq |-> server.snd_nxt,
                                                             len |-> len]])
               /\ Acceptor!Hold("proc", "emit", Opener!Header(server, "ACK", len))
      <4>1. /\ server.state = "ESTABLISHED"
            /\ Acceptor!Update(K, [server EXCEPT !.buf = [seq |-> server.snd_nxt, len |-> len]])
            /\ Acceptor!Hold("proc", "emit", Opener!Header(server, "ACK", len))
          BY <3>3
      <4>2. ServerSends
          BY <2>1, <2>3, <4>1, ServerUpdate, ServerHold DEF ServerSends, up, down, serverEnds
      <4> QED
          BY <2>1, <4>1, <4>2, ServerUpdate, ServerHold DEF ServerShape, up, down, serverEnds
    <3>4. CASE /\ server.state = "ESTABLISHED"
               /\ Acceptor!Update(K, [server EXCEPT !.buf = NoBuf])
               /\ UNCHANGED serverThread
      <4>1. /\ server' = [server EXCEPT !.buf = NoBuf]
            /\ serverTcb' = [k \in {K} |-> server']
            /\ UNCHANGED serverProc
          BY <3>4, ServerUpdate DEF serverProc
      <4>2. ServerForgets
          BY <2>1, <3>4, <4>1 DEF ServerForgets, up, down, serverEnds
      <4> QED
          BY <2>1, <3>4, <4>1, <4>2 DEF ServerShape, up, down, serverEnds
    <3> QED
        BY <3>1, <3>2, <3>3, <3>4, SameOperators DEF Acceptor!tcp_send_data
  <2> QED
      BY <2>2, <2>3
<1>7. ASSUME Acceptor!acknowledge_data PROVE Goal
  <2>1. /\ serverProc.at = "app" /\ serverCalls = <<>>
        /\ Acceptor!Hold("proc", "reply", Opener!Header(server, "ACK", 0))
        /\ UNCHANGED <<serverTcb, serverCalls, toClient, toServer, serverFin>>
      BY <1>7, SameOperators DEF Acceptor!acknowledge_data, serverProc
  <2>2. ServerAcknowledges
      BY <2>1, ServerHold DEF ServerAcknowledges, server, up, down, serverEnds
  <2> QED
      BY <2>1, <2>2, ServerHold DEF ServerShape, server, up, down, serverEnds
<1>8. ASSUME Acceptor!reply PROVE Goal
  <2>1. /\ serverProc.at = "reply"
        /\ Acceptor!Send(K, serverProc.seg)
        /\ Acceptor!Return("proc", "idle")
        /\ UNCHANGED <<serverTcb, serverCalls, toServer, serverFin>>
      BY <1>8 DEF Acceptor!reply, serverProc
  <2>2. ServerReplies
      BY <2>1, ServerReturn, ServerSend DEF ServerReplies, server, up, serverEnds
  <2> QED
      BY <2>1, <2>2, ServerReturn, ServerSend DEF ServerShape, server, up, serverEnds
<1>9. ASSUME Acceptor!enter_close("proc") PROVE Goal
  <2> DEFINE n == [server EXCEPT !.state = IF serverProc.at = "active_close"
                                           THEN "FIN_WAIT_1" ELSE "LAST_ACK"]
  <2>1. /\ serverProc.at \in {"active_close", "passive_close"}
        /\ Acceptor!Update(K, n)
        /\ Acceptor!Hold("proc", "emit", Opener!Header(server, "FIN", 0))
        /\ UNCHANGED <<serverCalls, toClient, toServer, serverFin>>
      BY <1>9, SameOperators DEF Acceptor!enter_close, serverProc
  <2> HIDE DEF n
  <2>2. server' = n /\ serverTcb' = [k \in {K} |-> server']
      BY <2>1, ServerUpdate
  <2>3. ServerCloses
      BY <2>1, <2>2, ServerHold DEF ServerCloses, up, down, serverEnds, n
  <2> QED
      BY <2>1, <2>2, <2>3, ServerHold DEF ServerShape, up, down, serverEnds
<1>10. ASSUME Acceptor!emit("proc") PROVE Goal
  <2>1. /\ serverProc.at = "emit"
        /\ Acceptor!Send(K, serverProc.seg)
        /\ serverFin' = [serverFin EXCEPT ![K] = serverEnds \cup
                             IF serverProc.seg.kind = "FIN" THEN {"sent"} ELSE {}]
        /\ Acceptor!Go("proc", "advance")
        /\ UNCHANGED <<serverTcb, serverCalls, toServer>>
      BY <1>10 DEF Acceptor!emit, Acceptor!ip_send, serverProc, serverEnds
  <2>2. /\ serverEnds' \in {serverEnds, serverEnds \cup {"sent"}}
        /\ serverFin' = [k \in {K} |-> serverEnds']
      BY <2>1 DEF ServerShape, serverEnds
  <2>3. ServerEmits
      BY <2>1, <2>2, ServerSend, ServerHold DEF ServerEmits, server, up
  <2> QED
      BY <2>1, <2>2, <2>3, ServerSend, ServerHold DEF ServerShape, server, up
<1>11. ASSUME Acceptor!advance("proc") PROVE Goal
  <2> DEFINE n == [server EXCEPT
                       !.snd_nxt = Opener!Add(server.snd_nxt, Opener!Length(serverProc.seg))]
  <2>1. /\ serverProc.at = "advance"
        /\ Acceptor!Update(K, n)
        /\ Acceptor!Return("proc", "app")
        /\ UNCHANGED <<serverCalls, toClient, toServer, serverFin>>
      BY <1>11, SameOperators DEF Acceptor!advance, Acceptor!Resume, serverProc
  <2> HIDE DEF n
  <2>2. server' = n /\ serverTcb' = [k \in {K} |-> server']
      BY <2>1, ServerUpdate
  <2>3. /\ serverProc' = Place("app", Opener!Nothing)
        /\ serverThread' = [t \in {"proc", "cmd"} |-> serverThread'[t]]
      BY <2>1, ServerReturn
  <2>4. ServerAdvances
      BY <2>1, <2>2, <2>3 DEF ServerAdvances, up, down, serverEnds, n
  <2> QED
      BY <2>1, <2>2, <2>3, <2>4 DEF ServerShape, up, down, serverEnds
<1>12. ~Acceptor!handle_sencond_shake(K) /\ ~Acceptor!finish_shake
  <2>1. ASSUME Acceptor!Taking(K, "SYNACK")
        PROVE  FALSE
      BY <2>1, ServerTaking, TailType DEF Types, FromClient, TakesUp
  <2> QED
      BY <2>1 DEF Types, ServerProcType, serverProc, Acceptor!handle_sencond_shake,
                  Acceptor!finish_shake
<1> HIDE DEF Goal
<1>13. Goal
    BY <1>1, <1>2, <1>3, <1>4, <1>5, <1>6, <1>7, <1>8, <1>9, <1>10, <1>11, <1>12
       DEF Acceptor!ProcStep
<1> QED
    BY <1>13 DEF Goal

\* A MAC that is known stays known, and the client's comes first.
LEMMA KnowsStep ==
    ASSUME Shape, Known, Next
    PROVE  /\ clientKnows' = [k \in {K} |-> clientKnows'[K]]
           /\ serverKnows' = [k \in {K} |-> serverKnows'[K]]
           /\ clientKnows[K] => clientKnows'[K]
           /\ clientKnows'[K] => serverKnows'[K]
<1>1. /\ clientKnows = [k \in {K} |-> clientKnows[K]]
      /\ serverKnows = [k \in {K} |-> serverKnows[K]]
      /\ clientKnows[K] => serverKnows[K]
    BY DEF Shape, Known
<1>2. CASE Learn
  <2>1. \/ /\ serverKnows' = [serverKnows EXCEPT ![K] = TRUE]
           /\ UNCHANGED clientKnows
        \/ /\ serverKnows[K] /\ UNCHANGED serverKnows
           /\ clientKnows' = [clientKnows EXCEPT ![K] = TRUE]
      BY <1>2 DEF Learn, Opener!learn, Acceptor!learn
  <2> QED
      BY <1>1, <2>1
<1>3. ASSUME UNCHANGED addresses
      PROVE  UNCHANGED <<clientKnows, serverKnows>>
    BY <1>3 DEF addresses
<1>4. Opener!ProcStep => UNCHANGED clientKnows
    BY DEF Opener!ProcStep, Opener!ignore, Opener!handle_tcp_syn, Opener!handle_sencond_shake,
           Opener!handle_tcp_ack, Opener!handle_tcp_fin, Opener!finish_shake,
           Opener!finish_fin, Opener!app_layer_dispatch, Opener!acknowledge_data,
           Opener!reply, Opener!enter_close, Opener!emit, Opener!advance
<1>5. Opener!CmdStep \/ Opener!tcp_connect(K) \/ Opener!type \/ Opener!exit
          => UNCHANGED clientKnows
    BY DEF Opener!CmdStep, Opener!connect_init, Opener!enter_close, Opener!emit,
           Opener!advance, Opener!tcp_connect, Opener!type, Opener!exit
<1>6. Acceptor!ProcStep => UNCHANGED serverKnows
    BY DEF Acceptor!ProcStep, Acceptor!ignore, Acceptor!handle_tcp_syn,
           Acceptor!handle_sencond_shake, Acceptor!handle_tcp_ack, Acceptor!handle_tcp_fin,
           Acceptor!finish_shake, Acceptor!finish_fin, Acceptor!app_layer_dispatch,
           Acceptor!acknowledge_data, Acceptor!reply, Acceptor!enter_close, Acceptor!emit,
           Acceptor!advance
<1>7. Opener!TimerStep => UNCHANGED clientKnows
    BY DEF Opener!TimerStep, Opener!check_retransmit
<1>8. Acceptor!TimerStep => UNCHANGED serverKnows
    BY DEF Acceptor!TimerStep, Acceptor!check_retransmit
<1>9. CASE ~Learn
  <2>1. UNCHANGED <<clientKnows, serverKnows>>
    <3>1. CASE ClientProc \/ ClientCmd \/ Open \/ Type \/ Leave
        BY <1>4, <1>5, <3>1 DEF ClientProc, ClientCmd, Open, Type, Leave
    <3>2. CASE ServerProc \/ Lose
        BY <1>3, <1>6, <3>2 DEF ServerProc, Lose
    <3>3. CASE Timer
        BY <1>7, <1>8, <3>3 DEF Timer
    <3> QED
        BY <1>9, <3>1, <3>2, <3>3 DEF Next
  <2> QED
      BY <1>1, <2>1
<1> QED
    BY <1>2, <1>9

\* Together: the actions of TcpPair are these steps; `bare' records what a server that
\* closes has unacknowledged.
LEMMA NextIs ==
    ASSUME Perfect, Types, Shape, Known, Next
    PROVE  /\ \/ ClientProcMoves \/ ClientCmdMoves \/ ClientFails \/ Stays
              \/ (ServerMoves \/ ServerFails) /\ (bare' \/ ~Bare)
           /\ bare => bare'
           /\ Shape' /\ clientCalls' = <<>> /\ lost' = 0
<1>1. ClientShape /\ ServerShape
    BY DEF Shape, ClientShape, ServerShape
<1>2. lost = 0 /\ clientCalls = <<>>
    BY DEF Types
<1>3. /\ clientKnows' = [k \in {K} |-> clientKnows'[K]]
      /\ serverKnows' = [k \in {K} |-> serverKnows'[K]]
    BY KnowsStep
<1>4. ASSUME UNCHANGED serverVars, ClientShape'
      PROVE  Shape' /\ UNCHANGED <<server, serverProc, serverCalls, serverEnds>>
    BY <1>1, <1>3, <1>4 DEF Shape, ClientShape, serverVars, server, serverProc, serverEnds
<1>5. ASSUME UNCHANGED clientVars, ServerShape'
      PROVE  /\ Shape' /\ clientCalls' = <<>>
             /\ UNCHANGED <<client, clientProc, clientCmd, clientEnds>>
    BY <1>1, <1>3, <1>5 DEF Types, Shape, ServerShape, clientVars, client, clientProc,
                            clientCmd, clientEnds
<1>6. CASE ClientProc
  <2>1. Opener!ProcStep /\ UNCHANGED serverVars /\ UNCHANGED lost /\ UNCHANGED bare
      BY <1>6 DEF ClientProc
  <2>2. ClientShape' /\ clientCalls' = <<>>
      BY <1>1, <2>1, ClientProcIs
  <2>3. ClientProcMoves
      BY <1>1, <1>4, <2>1, <2>2, ClientProcIs DEF ClientProcMoves
  <2> QED
      BY <1>2, <1>4, <2>1, <2>2, <2>3
<1>7. CASE ClientCmd \/ Open \/ Type \/ Leave
  <2>1. /\ Opener!CmdStep \/ Opener!type \/ Opener!exit
               \/ (clientTcb[K] = NoTcb /\ Opener!tcp_connect(K))
        /\ UNCHANGED serverVars /\ UNCHANGED lost /\ UNCHANGED bare
      BY <1>7 DEF ClientCmd, Open, Type, Leave
  <2>2. ClientShape' /\ clientCalls' = <<>>
      BY <1>1, <2>1, ClientCmdIs
  <2>3. ClientCmdMoves \/ ClientFails
      BY <1>1, <1>4, <2>1, <2>2, ClientCmdIs DEF ClientCmdMoves, ClientFails
  <2> QED
      BY <1>2, <1>4, <2>1, <2>2, <2>3
<1>8. CASE ServerProc
  <2>1. /\ Acceptor!ProcStep /\ UNCHANGED clientVars /\ UNCHANGED lost
        /\ bare' = (bare \/ Bare)
      BY <1>8 DEF ServerProc
  <2>2. serverProc.at = "emit" => serverKnows[K]
      BY DEF Types, Linked, Known
  <2>3. ServerShape'
      BY <1>1, <2>1, <2>2, ServerProcIs
  <2>4. ServerMoves \/ ServerFails
      BY <1>1, <1>5, <2>1, <2>2, <2>3, ServerProcIs DEF ServerMoves, ServerFails
  <2> QED
      BY <1>2, <1>5, <2>1, <2>3, <2>4
<1>9. CASE Learn
  <2>1. /\ UNCHANGED <<clientTcb, clientThread, clientCalls, clientFin>>
        /\ UNCHANGED <<serverTcb, serverThread, serverCalls, serverFin>>
        /\ UNCHANGED <<toServer, toClient, lost, bare>>
      BY <1>9 DEF Learn, Opener!learn, Acceptor!learn, clientVars, serverVars
  <2>2. Stays
      BY <2>1 DEF Stays, client, server, up, down, clientProc, clientCmd, serverProc,
                  clientEnds, serverEnds
  <2>3. Shape'
      BY <1>1, <1>3, <2>1, <2>2 DEF Shape, ClientShape, ServerShape, Stays
  <2> QED
      BY <1>2, <2>1, <2>2, <2>3
<1>10. ~Timer
    BY Zenon DEF Timer, Perfect
<1>11. ~Lose
    BY <1>2 DEF Lose, Perfect
<1> QED
    BY <1>6, <1>7, <1>8, <1>9, <1>10, <1>11 DEF Next

-------------------------------------------------------------------------------
\* The types.
LEMMA PlaceFields ==
    ASSUME NEW at, NEW seg
    PROVE  /\ Place(at, seg).at = at /\ Place(at, seg).seg = seg
           /\ Place(at, seg).conn = K
           /\ \A A, S : at \in A /\ seg \in S => Place(at, seg) \in [at : A, conn : {K}, seg : S]
BY DEF Place

LEMMA RestFields == Rest.at = "idle" /\ Rest.seg = Opener!Nothing
BY PlaceFields DEF Rest

LEMMA HeaderFields ==
    ASSUME NEW n \in Opener!Tcb, NEW kind \in {"SYN", "SYNACK", "FIN", "ACK"},
           NEW len \in 0 .. MaxLen
    PROVE  /\ Opener!Header(n, kind, len) \in Opener!Segment
           /\ kind # "SYNACK" => Opener!Header(n, kind, len) \in FromClient
           /\ kind # "SYN" => Opener!Header(n, kind, len) \in FromServer
           /\ Opener!Header(n, kind, len).kind = kind
           /\ Opener!Header(n, kind, len).len = len
           /\ Opener!Header(n, kind, len).seq = n.snd_nxt
           /\ Opener!Header(n, kind, len).src = n.snd_nxt
           /\ Opener!Header(n, kind, len).ack = n.rcv_nxt
<1>1. Opener!Header(n, kind, len) \in Opener!Segment
    BY HeaderType DEF Opener!Kind
<1> QED
    BY <1>1 DEF Opener!Header, FromClient, FromServer

LEMMA DownType ==
    ASSUME Types, TakesDown
    PROVE  /\ Head(down) \in FromServer /\ Head(down) \in Opener!Segment
           /\ down' \in Seq(FromServer)
           /\ Opener!Add(Head(down).seq, 1) \in Opener!SeqNum
           /\ Opener!Add(Head(down).seq, Head(down).len) \in Opener!SeqNum
<1>1. Head(down) \in FromServer /\ down' \in Seq(FromServer)
    BY TailType DEF Types, TakesDown
<1>2. Head(down).seq \in Opener!SeqNum /\ Head(down).len \in 0 .. MaxLen
    BY <1>1 DEF FromServer, Opener!Segment
<1> QED
    BY <1>1, <1>2, AddType, SizeAssumption, SeqModAssumption DEF FromServer

LEMMA UpType ==
    ASSUME Types, TakesUp
    PROVE  /\ Head(up) \in FromClient /\ Head(up) \in Opener!Segment
           /\ up' \in Seq(FromClient)
           /\ Opener!Add(Head(up).seq, 1) \in Opener!SeqNum
           /\ Opener!Add(Head(up).seq, Head(up).len) \in Opener!SeqNum
<1>1. Head(up) \in FromClient /\ up' \in Seq(FromClient)
    BY TailType DEF Types, TakesUp
<1>2. Head(up).seq \in Opener!SeqNum /\ Head(up).len \in 0 .. MaxLen
    BY <1>1 DEF FromClient, Opener!Segment
<1> QED
    BY <1>1, <1>2, AddType, SizeAssumption, SeqModAssumption DEF FromClient

LEMMA ClientProcTypes ==
    ASSUME Types, ClientProcMoves
    PROVE  /\ client' \in Opener!Tcb \cup {NoTcb} /\ ClientProcType'
           /\ client # NoTcb => client' # NoTcb
           /\ clientProc'.at # "idle" => client' # NoTcb
           /\ up' \in Seq(FromClient) /\ down' \in Seq(FromServer)
           /\ clientEnds' \in SUBSET {"sent", "rcvd"}
<1> DEFINE Goal == /\ client' \in Opener!Tcb \cup {NoTcb} /\ ClientProcType'
                   /\ client # NoTcb => client' # NoTcb
                   /\ clientProc'.at # "idle" => client' # NoTcb
                   /\ up' \in Seq(FromClient) /\ down' \in Seq(FromServer)
                   /\ clientEnds' \in SUBSET {"sent", "rcvd"}
<1>0. /\ client \in Opener!Tcb \cup {NoTcb} /\ ClientProcType
      /\ clientProc.at # "idle" => client \in Opener!Tcb
      /\ up \in Seq(FromClient) /\ down \in Seq(FromServer)
      /\ clientEnds \in SUBSET {"sent", "rcvd"}
      /\ NoTcb \notin Opener!Tcb
    BY NullAssumption DEF Types, Linked
<1>1. ASSUME NEW place \in {"shaking", "app", "reply", "to_CLOSE_WAIT", "to_TIME_WAIT", "to_stay"},
             NEW seg \in Opener!Segment,
             place = "reply" => seg \in FromClient /\ Empty(seg),
             clientProc' = Place(place, seg)
      PROVE  ClientProcType' /\ clientProc'.at # "idle"
    BY <1>1, PlaceFields DEF ClientProcType
<1>2. ASSUME UNCHANGED clientProc
      PROVE  ClientProcType'
    BY <1>0, <1>2 DEF ClientProcType
<1>3. CASE ClientIgnores
    BY <1>0, <1>2, <1>3, DownType DEF ClientIgnores
<1>4. CASE ClientShakes
  <2>1. client \in Opener!Tcb
      BY <1>0, <1>4 DEF ClientShakes, Live
  <2>2. client' \in Opener!Tcb
      BY <1>4, <2>1, FieldType DEF ClientShakes, Opener!State
  <2> QED
      BY <1>0, <1>1, <1>4, <2>2, DownType DEF ClientShakes
<1>5. CASE ClientTakesOver
  <2>1. client \in Opener!Tcb /\ clientProc.seg \in Opener!Segment
      BY <1>0, <1>5 DEF ClientTakesOver, ClientProcType
  <2>2. Opener!Add(clientProc.seg.seq, 1) \in Opener!SeqNum
      BY <2>1, AddType, SeqModAssumption DEF Opener!Segment
  <2>3. client' \in Opener!Tcb
      BY <1>5, <2>1, <2>2, FieldType DEF ClientTakesOver
  <2>4. Opener!Header(client', "ACK", 0) \in FromClient /\ Empty(Opener!Header(client', "ACK", 0))
      BY <2>3, HeaderFields, SizeAssumption DEF Empty
  <2> QED
      BY <1>0, <1>1, <1>5, <2>3, <2>4 DEF ClientTakesOver, FromClient
<1>6. CASE ClientTakesAck
  <2> DEFINE seg == Head(down)
             n == Opener!Acknowledge(client, seg)
  <2>1. client \in Opener!Tcb /\ TakesDown
      BY <1>0, <1>6 DEF ClientTakesAck, Live
  <2>2. n \in Opener!Tcb
      BY <2>1, AcknowledgeType, DownType
  <2>3. Opener!AfterAck(n.state) \in Opener!State
      BY <2>2, StateType DEF Opener!Tcb
  <2>4. /\ [n EXCEPT !.state = Opener!AfterAck(n.state)] \in Opener!Tcb
        /\ [n EXCEPT !.state = "CLOSED", !.valid = FALSE] \in Opener!Tcb
        /\ [n EXCEPT !.state = Opener!AfterAck(n.state),
                     !.rcv_nxt = Opener!Add(seg.seq, seg.len)] \in Opener!Tcb
    <3> HIDE DEF n
    <3> QED
        BY <2>1, <2>2, <2>3, FieldType, DownType
  <2>5. client' \in Opener!Tcb
      BY <1>6, <2>4 DEF ClientTakesAck
  <2>6. UNCHANGED clientProc \/ clientProc' = Place("app", Opener!Nothing)
      BY <1>6 DEF ClientTakesAck
  <2> QED
      BY <1>0, <1>1, <1>2, <1>6, <2>1, <2>5, <2>6, DownType, NothingType DEF ClientTakesAck
<1>7. CASE ClientTakesFin
  <2>1. client \in Opener!Tcb /\ TakesDown
      BY <1>0, <1>7 DEF ClientTakesFin, Live
  <2>2. client' \in Opener!Tcb
      BY <1>7, <2>1, FieldType, DownType DEF ClientTakesFin
  <2>3. Opener!AtFin(client.state) \in {"to_CLOSE_WAIT", "to_TIME_WAIT", "to_stay"}
      BY <2>1, StateType DEF Opener!Tcb
  <2> QED
      BY <1>0, <1>1, <1>7, <2>1, <2>2, <2>3, DownType, NothingType DEF ClientTakesFin
<1>8. CASE ClientFinishesFin
  <2>1. client \in Opener!Tcb
      BY <1>0, <1>8 DEF ClientFinishesFin
  <2>2. Opener!AfterFin(clientProc.at, client.state) \in Opener!State
      BY <2>1, StateType DEF Opener!Tcb
  <2>3. client' \in Opener!Tcb
      BY <1>8, <2>1, <2>2, FieldType DEF ClientFinishesFin
  <2>4. Opener!Header(client', "ACK", 0) \in FromClient /\ Empty(Opener!Header(client', "ACK", 0))
      BY <2>3, HeaderFields, SizeAssumption DEF Empty
  <2> QED
      BY <1>0, <1>1, <1>8, <2>3, <2>4 DEF ClientFinishesFin, FromClient
<1>9. CASE ClientAcknowledges
  <2>1. client \in Opener!Tcb
      BY <1>0, <1>9 DEF ClientAcknowledges
  <2>2. Opener!Header(client, "ACK", 0) \in FromClient /\ Empty(Opener!Header(client, "ACK", 0))
      BY <2>1, HeaderFields, SizeAssumption DEF Empty
  <2> QED
      BY <1>0, <1>1, <1>9, <2>1, <2>2 DEF ClientAcknowledges, FromClient
<1>10. CASE ClientReplies
  <2>1. clientProc.seg \in FromClient
      BY <1>0, <1>10 DEF ClientReplies, ClientProcType
  <2>2. up' \in Seq(FromClient)
      BY <1>0, <1>10, <2>1, AppendType DEF ClientReplies
  <2>3. ClientProcType' /\ clientProc'.at = "idle"
      BY <1>10, RestFields, PlaceFields, NothingType DEF ClientReplies, ClientProcType, Rest
  <2> QED
      BY <1>0, <1>10, <2>2, <2>3 DEF ClientReplies
<1> HIDE DEF Goal
<1>11. Goal
    BY <1>3, <1>4, <1>5, <1>6, <1>7, <1>8, <1>9, <1>10 DEF ClientProcMoves, Goal
<1> QED
    BY <1>11 DEF Goal

LEMMA ClientCmdTypes ==
    ASSUME Types, ClientCmdMoves
    PROVE  /\ client' \in Opener!Tcb /\ ClientCmdType' /\ ClientProcType'
           /\ clientProc' = clientProc
           /\ up' \in Seq(FromClient) /\ down' \in Seq(FromServer)
           /\ clientEnds' \in SUBSET {"sent", "rcvd"}
<1> DEFINE Goal == /\ client' \in Opener!Tcb /\ ClientCmdType' /\ ClientProcType'
                   /\ clientProc' = clientProc
                   /\ up' \in Seq(FromClient) /\ down' \in Seq(FromServer)
                   /\ clientEnds' \in SUBSET {"sent", "rcvd"}
<1>0. /\ ClientCmdType
      /\ clientCmd.at # "idle" => client \in Opener!Tcb
      /\ up \in Seq(FromClient) /\ down \in Seq(FromServer)
      /\ clientEnds \in SUBSET {"sent", "rcvd"}
    BY DEF Types, Linked
<1>1. clientProc' = clientProc /\ ClientProcType'
  <2>1. clientProc' = clientProc
      BY DEF ClientCmdMoves, ClientConnects, ClientInits, ClientTypes, ClientLeaves,
             ClientCloses, ClientEmits, ClientAdvances
  <2> QED
      BY <2>1 DEF Types, ClientProcType
<1>2. ASSUME NEW place \in {"connect", "emit", "advance", "prompt",
                            "active_close", "passive_close"},
             NEW seg \in Opener!Segment,
             place \in {"emit", "advance"} => seg \in FromClient,
             clientCmd' = Place(place, seg)
      PROVE  ClientCmdType'
    BY <1>2, PlaceFields DEF ClientCmdType
<1>3. ASSUME clientCmd' = Rest PROVE ClientCmdType'
  <2>1. clientCmd' = Place("idle", Opener!Nothing)
      BY <1>3 DEF Rest
  <2> QED
      BY <2>1, PlaceFields, NothingType DEF ClientCmdType
<1>4. CASE ClientConnects
  <2>1. client' \in Opener!Tcb
    <3>1. 0 \in Opener!SeqNum /\ 0 \in 0 .. Wnd
        BY SeqModAssumption, SizeAssumption DEF Opener!SeqNum
    <3> QED
        BY <1>4, <3>1 DEF ClientConnects, Opener!Tcb, Opener!State
  <2> QED
      BY <1>0, <1>1, <1>2, <1>4, <2>1, NothingType DEF ClientConnects
<1>5. CASE ClientInits
  <2>1. client \in Opener!Tcb
      BY <1>0, <1>5 DEF ClientInits
  <2>2. client' \in Opener!Tcb
    <3>1. PICK iss \in Iss :
              client' = [client EXCEPT !.rcv_nxt = 0, !.snd_nxt = iss, !.snd_wnd = Wnd,
                                       !.snd_una = iss, !.state = "SYN_SENT"]
        BY <1>5 DEF ClientInits
    <3>2. 0 \in Opener!SeqNum /\ Wnd \in 0 .. Wnd /\ iss \in Opener!SeqNum
          /\ "SYN_SENT" \in Opener!State
        BY SeqModAssumption, SizeAssumption DEF Opener!SeqNum, Opener!State
    <3> QED
        BY <2>1, <3>1, <3>2 DEF Opener!Tcb
  <2>3. Opener!Header(client', "SYN", 0) \in FromClient
      BY <2>2, HeaderFields, SizeAssumption
  <2> QED
      BY <1>0, <1>1, <1>2, <1>5, <2>2, <2>3 DEF ClientInits, FromClient
<1>6. CASE ClientTypes
  <2>1. client \in Opener!Tcb
      BY <1>0, <1>6 DEF ClientTypes
  <2>2. CASE UNCHANGED <<client, clientCmd>>
      BY <1>0, <1>1, <1>6, <2>1, <2>2 DEF ClientTypes, ClientCmdType
  <2>3. CASE ~(UNCHANGED <<client, clientCmd>>)
    <3>1. PICK len \in Typed :
              /\ client' = [client EXCEPT !.buf = [seq |-> client.snd_nxt, len |-> len]]
              /\ clientCmd' = Place("emit", Opener!Header(client, "ACK", len))
        BY <1>6, <2>3 DEF ClientTypes
    <3>2. len \in 1 .. MaxLen /\ len \in 0 .. MaxLen
        BY SizeAssumption
    <3>3. [seq |-> client.snd_nxt, len |-> len] \in [seq : Opener!SeqNum, len : 1 .. MaxLen]
        BY <2>1, <3>2 DEF Opener!Tcb
    <3>4. client' \in Opener!Tcb
        BY <2>1, <3>1, <3>3, FieldType
    <3>5. Opener!Header(client, "ACK", len) \in FromClient
        BY <2>1, <3>2, HeaderFields
    <3> QED
        BY <1>0, <1>1, <1>2, <1>6, <3>1, <3>4, <3>5 DEF ClientTypes, FromClient
  <2> QED
      BY <2>2, <2>3
<1>7. CASE ClientLeaves
  <2>1. client' \in Opener!Tcb /\ clientCmd.seg \in Opener!Segment
      BY <1>0, <1>7 DEF ClientLeaves, ClientCmdType
  <2> QED
      BY <1>0, <1>1, <1>2, <1>3, <1>7, <2>1 DEF ClientLeaves
<1>8. CASE ClientCloses
  <2>1. client \in Opener!Tcb
      BY <1>0, <1>8 DEF ClientCloses
  <2>2. client' \in Opener!Tcb
    <3>1. (IF clientCmd.at = "active_close" THEN "FIN_WAIT_1" ELSE "LAST_ACK") \in Opener!State
        BY DEF Opener!State
    <3> QED
        BY <1>8, <2>1, <3>1, FieldType DEF ClientCloses
  <2>3. Opener!Header(client, "FIN", 0) \in FromClient
      BY <2>1, HeaderFields, SizeAssumption
  <2> QED
      BY <1>0, <1>1, <1>2, <1>8, <2>2, <2>3 DEF ClientCloses, FromClient
<1>9. CASE ClientEmits
  <2>1. client' \in Opener!Tcb /\ clientCmd.seg \in FromClient
      BY <1>0, <1>9 DEF ClientEmits, ClientCmdType
  <2>2. up' \in Seq(FromClient)
      BY <1>0, <1>9, <2>1, AppendType DEF ClientEmits
  <2> QED
      BY <1>0, <1>1, <1>2, <1>9, <2>1, <2>2 DEF ClientEmits, FromClient
<1>10. CASE ClientAdvances
  <2>1. client \in Opener!Tcb /\ clientCmd.seg \in Opener!Segment
      BY <1>0, <1>10 DEF ClientAdvances, ClientCmdType
  <2>2. Opener!Add(client.snd_nxt, Opener!Length(clientCmd.seg)) \in Opener!SeqNum
      BY <2>1, AddType, LengthType DEF Opener!Tcb
  <2>3. client' \in Opener!Tcb
      BY <1>10, <2>1, <2>2, FieldType DEF ClientAdvances
  <2> QED
      BY <1>0, <1>1, <1>2, <1>3, <1>10, <2>3, NothingType DEF ClientAdvances
<1> HIDE DEF Goal
<1>11. Goal
    BY <1>4, <1>5, <1>6, <1>7, <1>8, <1>9, <1>10 DEF ClientCmdMoves, Goal
<1> QED
    BY <1>11 DEF Goal

LEMMA ServerTypes ==
    ASSUME Types, ServerMoves
    PROVE  /\ server' \in Opener!Tcb \cup {NoTcb} /\ ServerProcType'
           /\ server # NoTcb => server' # NoTcb
           /\ serverProc'.at # "idle" => server' # NoTcb
           /\ serverCalls' \in Opener!Script
           /\ up' \in Seq(FromClient) /\ down' \in Seq(FromServer)
           /\ serverEnds' \in SUBSET {"sent", "rcvd"}
<1> DEFINE Goal == /\ server' \in Opener!Tcb \cup {NoTcb} /\ ServerProcType'
                   /\ server # NoTcb => server' # NoTcb
                   /\ serverProc'.at # "idle" => server' # NoTcb
                   /\ serverCalls' \in Opener!Script
                   /\ up' \in Seq(FromClient) /\ down' \in Seq(FromServer)
                   /\ serverEnds' \in SUBSET {"sent", "rcvd"}
<1>0. /\ server \in Opener!Tcb \cup {NoTcb} /\ ServerProcType
      /\ serverProc.at # "idle" => server \in Opener!Tcb
      /\ serverCalls \in Opener!Script
      /\ up \in Seq(FromClient) /\ down \in Seq(FromServer)
      /\ serverEnds \in SUBSET {"sent", "rcvd"}
      /\ NoTcb \notin Opener!Tcb
    BY NullAssumption DEF Types, Linked
<1>1. ASSUME NEW place \in {"app", "reply", "emit", "advance", "active_close",
                            "passive_close", "to_CLOSE_WAIT", "to_TIME_WAIT", "to_stay"},
             NEW seg \in Opener!Segment,
             place \in {"emit", "advance"} => seg \in FromServer /\ seg.kind \in {"FIN", "ACK"},
             place = "reply" => seg \in FromServer /\ (seg.kind = "SYNACK" \/ Empty(seg)),
             serverProc' = Place(place, seg)
      PROVE  ServerProcType' /\ serverProc'.at # "idle"
    BY <1>1, PlaceFields DEF ServerProcType
<1>2. UNCHANGED serverProc => ServerProcType'
    BY <1>0 DEF ServerProcType
<1>3. CASE ServerIgnores
    BY <1>0, <1>2, <1>3, UpType DEF ServerIgnores
<1>4. CASE ServerTakesSyn
  <2>1. PICK iss \in Iss :
            LET fresh == [valid |-> TRUE, state |-> "SYN_RECV", snd_una |-> iss,
                          snd_nxt |-> iss, snd_wnd |-> Wnd,
                          rcv_nxt |-> Opener!Add(Head(up).seq, 1), buf |-> NoBuf]
                n == IF Live(server) THEN server ELSE fresh
            IN  /\ server' = [n EXCEPT !.snd_nxt = Opener!Add(n.snd_nxt, 1)]
                /\ serverProc' = Place("reply", Opener!Header(n, "SYNACK", 0))
      BY <1>4 DEF ServerTakesSyn
  <2> DEFINE fresh == [valid |-> TRUE, state |-> "SYN_RECV", snd_una |-> iss,
                       snd_nxt |-> iss, snd_wnd |-> Wnd,
                       rcv_nxt |-> Opener!Add(Head(up).seq, 1), buf |-> NoBuf]
             n == IF Live(server) THEN server ELSE fresh
  <2>2. fresh \in Opener!Tcb
    <3>1. /\ TakesUp /\ iss \in Opener!SeqNum /\ Wnd \in 0 .. Wnd
          /\ "SYN_RECV" \in Opener!State
        BY <1>4, SeqModAssumption, SizeAssumption DEF ServerTakesSyn, Opener!State
    <3> QED
        BY <3>1, UpType DEF Opener!Tcb
  <2>3. n \in Opener!Tcb
      BY <1>0, <2>2 DEF Live
  <2>4. /\ server' = [n EXCEPT !.snd_nxt = Opener!Add(n.snd_nxt, 1)]
        /\ serverProc' = Place("reply", Opener!Header(n, "SYNACK", 0))
      BY <2>1
  <2> HIDE DEF n
  <2>5. Opener!Add(n.snd_nxt, 1) \in Opener!SeqNum
      BY <2>3, AddType, SeqModAssumption DEF Opener!Tcb
  <2>6. server' \in Opener!Tcb
      BY <2>3, <2>4, <2>5, FieldType
  <2>7. /\ Opener!Header(n, "SYNACK", 0) \in FromServer
        /\ Opener!Header(n, "SYNACK", 0).kind = "SYNACK"
      BY <2>3, HeaderFields, SizeAssumption
  <2> QED
      BY <1>0, <1>1, <1>4, <2>4, <2>6, <2>7, UpType DEF ServerTakesSyn, FromServer
<1>5. CASE ServerTakesAck
  <2> DEFINE seg == Head(up)
             n == Opener!Acknowledge(server, seg)
  <2>1. server \in Opener!Tcb /\ TakesUp
      BY <1>0, <1>5 DEF ServerTakesAck, Live
  <2>2. n \in Opener!Tcb
      BY <2>1, AcknowledgeType, UpType
  <2>3. Opener!AfterAck(n.state) \in Opener!State
      BY <2>2, StateType DEF Opener!Tcb
  <2>4. /\ [n EXCEPT !.state = Opener!AfterAck(n.state)] \in Opener!Tcb
        /\ [n EXCEPT !.state = "CLOSED", !.valid = FALSE] \in Opener!Tcb
        /\ [n EXCEPT !.state = Opener!AfterAck(n.state),
                     !.rcv_nxt = Opener!Add(seg.seq, seg.len)] \in Opener!Tcb
    <3> HIDE DEF n
    <3> QED
        BY <2>1, <2>2, <2>3, FieldType, UpType
  <2>5. server' \in Opener!Tcb
      BY <1>5, <2>4 DEF ServerTakesAck
  <2>6. \/ UNCHANGED <<serverProc, serverCalls>>
        \/ serverProc' = Place("app", Opener!Nothing) /\ serverCalls' \in ServerResponse
      BY <1>5 DEF ServerTakesAck
  <2> QED
      BY <1>0, <1>1, <1>2, <1>5, <2>1, <2>5, <2>6, UpType, NothingType, ResponseAssumption
         DEF ServerTakesAck
<1>6. CASE ServerTakesFin
  <2>1. server \in Opener!Tcb /\ TakesUp
      BY <1>0, <1>6 DEF ServerTakesFin, Live
  <2>2. server' \in Opener!Tcb
      BY <1>6, <2>1, FieldType, UpType DEF ServerTakesFin
  <2>3. Opener!AtFin(server.state) \in {"to_CLOSE_WAIT", "to_TIME_WAIT", "to_stay"}
      BY <2>1, StateType DEF Opener!Tcb
  <2> QED
      BY <1>0, <1>1, <1>6, <2>1, <2>2, <2>3, UpType, NothingType DEF ServerTakesFin
<1>7. CASE ServerFinishesFin
  <2>1. server \in Opener!Tcb
      BY <1>0, <1>7 DEF ServerFinishesFin
  <2>2. Opener!AfterFin(serverProc.at, server.state) \in Opener!State
      BY <2>1, StateType DEF Opener!Tcb
  <2>3. server' \in Opener!Tcb
      BY <1>7, <2>1, <2>2, FieldType DEF ServerFinishesFin
  <2>4. /\ Opener!Header(server', "ACK", 0) \in FromServer
        /\ Empty(Opener!Header(server', "ACK", 0))
      BY <2>3, HeaderFields, SizeAssumption DEF Empty
  <2> QED
      BY <1>0, <1>1, <1>7, <2>3, <2>4 DEF ServerFinishesFin, FromServer
<1>8. CASE ServerSends
  <2>1. server \in Opener!Tcb /\ serverCalls # <<>>
      BY <1>0, <1>8 DEF ServerSends
  <2>2. Head(serverCalls) \in 0 .. MaxLen /\ serverCalls' \in Opener!Script
      BY <1>0, <1>8, <2>1, TailType DEF ServerSends, Opener!Script
  <2>3. CASE UNCHANGED <<server, serverProc>>
      BY <1>0, <1>2, <1>8, <2>1, <2>2, <2>3 DEF ServerSends
  <2>4. CASE ~(UNCHANGED <<server, serverProc>>)
    <3> DEFINE len == Head(serverCalls)
    <3>1. /\ server' = [server EXCEPT !.buf = [seq |-> server.snd_nxt, len |-> len]]
          /\ serverProc' = Place("emit", Opener!Header(server, "ACK", len))
        BY <1>8, <2>4 DEF ServerSends
    <3>2. len \in 1 .. MaxLen
        BY <1>8, <2>2, SizeAssumption DEF ServerSends
    <3>3. [seq |-> server.snd_nxt, len |-> len] \in [seq : Opener!SeqNum, len : 1 .. MaxLen]
        BY <2>1, <3>2 DEF Opener!Tcb
    <3>4. server' \in Opener!Tcb
        BY <2>1, <3>1, <3>3, FieldType
    <3>5. /\ Opener!Header(server, "ACK", len) \in FromServer
          /\ Opener!Header(server, "ACK", len).kind = "ACK"
        BY <2>1, <2>2, HeaderFields
    <3> QED
        BY <1>0, <1>1, <1>8, <2>2, <3>1, <3>4, <3>5 DEF ServerSends, FromServer
  <2> QED
      BY <2>3, <2>4
<1>9. CASE ServerLeaves
  <2>1. /\ server' \in Opener!Tcb /\ serverProc.seg \in Opener!Segment
        /\ serverCalls # <<>>
      BY <1>0, <1>9 DEF ServerLeaves, ServerProcType
  <2>2. serverCalls' \in Opener!Script
      BY <1>0, <1>9, <2>1, TailType DEF ServerLeaves, Opener!Script
  <2> QED
      BY <1>0, <1>1, <1>9, <2>1, <2>2, NothingType DEF ServerLeaves
<1>10. CASE ServerAcknowledges
  <2>1. server \in Opener!Tcb
      BY <1>0, <1>10 DEF ServerAcknowledges
  <2>2. Opener!Header(server, "ACK", 0) \in FromServer /\ Empty(Opener!Header(server, "ACK", 0))
      BY <2>1, HeaderFields, SizeAssumption DEF Empty
  <2> QED
      BY <1>0, <1>1, <1>10, <2>1, <2>2 DEF ServerAcknowledges, FromServer
<1>11. CASE ServerReplies
  <2>1. serverProc.seg \in FromServer
      BY <1>0, <1>11 DEF ServerReplies, ServerProcType
  <2>2. down' \in Seq(FromServer)
      BY <1>0, <1>11, <2>1, AppendType DEF ServerReplies
  <2>3. ServerProcType' /\ serverProc'.at = "idle"
      BY <1>11, RestFields, PlaceFields, NothingType DEF ServerReplies, ServerProcType, Rest
  <2> QED
      BY <1>0, <1>11, <2>2, <2>3 DEF ServerReplies
<1>12. CASE ServerCloses
  <2>1. server \in Opener!Tcb
      BY <1>0, <1>12 DEF ServerCloses
  <2>2. server' \in Opener!Tcb
    <3>1. (IF serverProc.at = "active_close" THEN "FIN_WAIT_1" ELSE "LAST_ACK") \in Opener!State
        BY DEF Opener!State
    <3> QED
        BY <1>12, <2>1, <3>1, FieldType DEF ServerCloses
  <2>3. /\ Opener!Header(server, "FIN", 0) \in FromServer
        /\ Opener!Header(server, "FIN", 0).kind = "FIN"
      BY <2>1, HeaderFields, SizeAssumption
  <2> QED
      BY <1>0, <1>1, <1>12, <2>2, <2>3 DEF ServerCloses, FromServer
<1>13. CASE ServerEmits
  <2>1. /\ server' \in Opener!Tcb /\ serverProc.seg \in FromServer
        /\ serverProc.seg.kind \in {"FIN", "ACK"}
      BY <1>0, <1>13 DEF ServerEmits, ServerProcType
  <2>2. down' \in Seq(FromServer)
      BY <1>0, <1>13, <2>1, AppendType DEF ServerEmits
  <2> QED
      BY <1>0, <1>1, <1>13, <2>1, <2>2 DEF ServerEmits, FromServer
<1>14. CASE ServerAdvances
  <2>1. server \in Opener!Tcb /\ serverProc.seg \in Opener!Segment
      BY <1>0, <1>14 DEF ServerAdvances, ServerProcType
  <2>2. Opener!Add(server.snd_nxt, Opener!Length(serverProc.seg)) \in Opener!SeqNum
      BY <2>1, AddType, LengthType DEF Opener!Tcb
  <2>3. server' \in Opener!Tcb
      BY <1>14, <2>1, <2>2, FieldType DEF ServerAdvances
  <2> QED
      BY <1>0, <1>1, <1>14, <2>3, NothingType DEF ServerAdvances
<1> HIDE DEF Goal
<1>15. Goal
    BY <1>3, <1>4, <1>5, <1>6, <1>7, <1>8, <1>9, <1>10, <1>11, <1>12, <1>13, <1>14
       DEF ServerMoves, Goal
<1> QED
    BY <1>15 DEF Goal

LEMMA TypesStep ==
    ASSUME Types, Moves, clientCalls' = <<>>, lost' = 0
    PROVE  Types'
<1>1. CASE ClientProcMoves
  <2>1. UNCHANGED <<clientCmd, server, serverProc, serverCalls, serverEnds>>
      BY <1>1 DEF ClientProcMoves, ClientIgnores, ClientShakes, ClientTakesOver, ClientTakesAck,
                  ClientTakesFin, ClientFinishesFin, ClientAcknowledges, ClientReplies
  <2>2. ClientCmdType' /\ ServerProcType'
      BY <2>1 DEF Types, ClientCmdType, ServerProcType
  <2> QED
      BY <1>1, <2>1, <2>2, ClientProcTypes DEF Types, Linked
<1>2. CASE ClientCmdMoves
  <2>1. UNCHANGED <<server, serverProc, serverCalls, serverEnds>>
      BY <1>2 DEF ClientCmdMoves
  <2>2. ServerProcType'
      BY <2>1 DEF Types, ServerProcType
  <2> QED
      BY <1>2, <2>1, <2>2, ClientCmdTypes, NullAssumption DEF Types, Linked
<1>3. CASE ServerMoves
  <2>1. UNCHANGED <<client, clientProc, clientCmd, clientEnds>>
      BY <1>3 DEF ServerMoves
  <2>2. ClientCmdType' /\ ClientProcType'
      BY <2>1 DEF Types, ClientCmdType, ClientProcType
  <2> QED
      BY <1>3, <2>1, <2>2, ServerTypes DEF Types, Linked
<1> QED
    BY <1>1, <1>2, <1>3 DEF Moves

-------------------------------------------------------------------------------
\* Streams.
LEMMA StreamEmpty ==
    ASSUME NEW from \in Opener!SeqNum
    PROVE  Stream(<<>>, from, from)
<1> DEFINE pos == [i \in 1 .. 1 |-> from]
<1>1. /\ pos \in [1 .. Len(<<>>) + 1 -> Opener!SeqNum]
      /\ pos[1] = from /\ pos[Len(<<>>) + 1] = from
      /\ \A i \in 1 .. Len(<<>>) : Follows(<<>>[i], pos[i], pos[i + 1])
    OBVIOUS
<1> QED
    BY <1>1 DEF Stream

LEMMA StreamAppend ==
    ASSUME NEW S, NEW q \in Seq(S), NEW seg \in S,
           NEW from, NEW mid, NEW to \in Opener!SeqNum,
           Stream(q, from, mid), Follows(seg, mid, to)
    PROVE  Stream(Append(q, seg), from, to)
<1>1. PICK pos \in [1 .. Len(q) + 1 -> Opener!SeqNum] :
          /\ pos[1] = from /\ pos[Len(q) + 1] = mid
          /\ \A i \in 1 .. Len(q) : Follows(q[i], pos[i], pos[i + 1])
    BY DEF Stream
<1> DEFINE r == Append(q, seg)
           n == Len(q)
           new == [i \in 1 .. Len(r) + 1 |-> IF i <= n + 1 THEN pos[i] ELSE to]
<1>2. n \in Nat /\ Len(r) = n + 1 /\ r[n + 1] = seg /\ \A i \in 1 .. n : r[i] = q[i]
    BY AppendType
<1> HIDE DEF n, r
<1>3. pos \in [1 .. n + 1 -> Opener!SeqNum] /\ pos[1] = from /\ pos[n + 1] = mid
    BY <1>1 DEF n
<1>4. new \in [1 .. Len(r) + 1 -> Opener!SeqNum]
    BY <1>2, <1>3
<1>5. new[1] = from /\ new[Len(r) + 1] = to /\ new[n + 1] = mid
    BY <1>2, <1>3
<1>6. ASSUME NEW i \in 1 .. Len(r)
      PROVE  Follows(r[i], new[i], new[i + 1])
  <2>1. CASE i = n + 1
    <3>1. r[i] = seg /\ new[i] = mid /\ new[i + 1] = to
        BY <1>2, <1>5, <2>1
    <3> QED
        BY <3>1
  <2>2. CASE i # n + 1
    <3>1. i \in 1 .. n
        BY <1>2, <2>2
    <3>2. r[i] = q[i] /\ new[i] = pos[i] /\ new[i + 1] = pos[i + 1]
        BY <1>2, <3>1
    <3>3. Follows(q[i], pos[i], pos[i + 1])
        BY <1>1, <3>1 DEF n
    <3> QED
        BY <3>2, <3>3
  <2> QED
      BY <2>1, <2>2
<1> HIDE DEF new
<1>7. Stream(r, from, to)
    BY <1>4, <1>5, <1>6 DEF Stream
<1> QED
    BY <1>7 DEF r

LEMMA StreamTail ==
    ASSUME NEW S, NEW q \in Seq(S), q # <<>>, NEW from, NEW to, Stream(q, from, to)
    PROVE  \E mid \in Opener!SeqNum : Follows(Head(q), from, mid) /\ Stream(Tail(q), mid, to)
<1>1. PICK pos \in [1 .. Len(q) + 1 -> Opener!SeqNum] :
          /\ pos[1] = from /\ pos[Len(q) + 1] = to
          /\ \A i \in 1 .. Len(q) : Follows(q[i], pos[i], pos[i + 1])
    BY DEF Stream
<1> DEFINE n == Len(q)
           r == Tail(q)
           new == [i \in 1 .. Len(r) + 1 |-> pos[i + 1]]
<1>2. /\ n \in Nat \ {0} /\ Len(r) = n - 1 /\ Head(q) = q[1]
      /\ \A i \in 1 .. n - 1 : r[i] = q[i + 1]
    BY TailType
<1> HIDE DEF n, r
<1>3. /\ pos \in [1 .. n + 1 -> Opener!SeqNum] /\ pos[1] = from /\ pos[n + 1] = to
      /\ \A i \in 1 .. n : Follows(q[i], pos[i], pos[i + 1])
    BY <1>1 DEF n
<1>4. new \in [1 .. Len(r) + 1 -> Opener!SeqNum]
    BY <1>2, <1>3
<1>5. new[1] = pos[2] /\ new[Len(r) + 1] = to /\ pos[2] \in Opener!SeqNum
    BY <1>2, <1>3
<1>6. ASSUME NEW i \in 1 .. Len(r)
      PROVE  Follows(r[i], new[i], new[i + 1])
  <2>1. i \in 1 .. n - 1 /\ i + 1 \in 1 .. n
      BY <1>2
  <2>2. r[i] = q[i + 1] /\ new[i] = pos[i + 1] /\ new[i + 1] = pos[i + 1 + 1]
      BY <1>2, <2>1
  <2> QED
      BY <1>3, <2>1, <2>2
<1>7. Follows(Head(q), from, pos[2])
  <2>1. 1 \in 1 .. n /\ 1 + 1 = 2
      BY <1>2
  <2> QED
      BY <1>2, <1>3, <2>1
<1> HIDE DEF new
<1>8. Stream(r, pos[2], to)
    BY <1>4, <1>5, <1>6 DEF Stream
<1> QED
    BY <1>5, <1>7, <1>8 DEF r

\* A segment in hand goes where its sender's next number is.
LEMMA AddNothing ==
    ASSUME NEW a \in Opener!SeqNum
    PROVE  Opener!Add(a, 0) = a
BY SeqModAssumption DEF Opener!Add, Opener!SeqNum

LEMMA SegmentFollows ==
    ASSUME NEW seg \in Opener!Segment, NEW a \in Opener!SeqNum, seg.seq = a, seg.src = a
    PROVE  /\ Follows(seg, a, Opener!Add(a, Opener!Length(seg)))
           /\ Opener!Add(a, Opener!Length(seg)) \in Opener!SeqNum
<1>1. Opener!Add(a, Opener!Length(seg)) \in Opener!SeqNum
    BY AddType, LengthType
<1>2. Empty(seg) => Opener!Length(seg) = 0
    BY DEF Empty, Opener!Length
<1> QED
    BY <1>1, <1>2, AddNothing DEF Follows, Consumes

LEMMA EmptyFollows ==
    ASSUME NEW seg, Empty(seg), NEW a
    PROVE  Follows(seg, a, a)
BY DEF Follows, Consumes

-------------------------------------------------------------------------------
\* What a thread holds stays what is sent next: nobody else moves snd_nxt.
LEMMA ClientProcKeeps ==
    ASSUME Types, ClientProcMoves, client # NoTcb
    PROVE  /\ client' \in Opener!Tcb
           /\ client'.snd_nxt = client.snd_nxt
           /\ client.state # "SYN_SENT" => client'.state # "SYN_SENT"
           /\ clientCmd' = clientCmd /\ ClientNext' = ClientNext
<1>1. client \in Opener!Tcb
    BY DEF Types
<1>2. client' \in Opener!Tcb
    BY ClientProcTypes
<1>3. /\ client'.snd_nxt = client.snd_nxt
      /\ client.state # "SYN_SENT" => client'.state # "SYN_SENT"
      /\ clientCmd' = clientCmd
  <2>1. CASE ClientIgnores \/ ClientAcknowledges \/ ClientReplies
      BY <2>1 DEF ClientIgnores, ClientAcknowledges, ClientReplies
  <2>2. CASE ClientShakes \/ ClientTakesOver \/ ClientTakesFin
      BY <1>1, <2>2 DEF ClientShakes, ClientTakesOver, ClientTakesFin, Opener!Tcb
  <2>3. CASE ClientFinishesFin
      BY <1>1, <2>3 DEF ClientFinishesFin, Opener!AfterFin, Opener!Tcb
  <2>4. CASE ClientTakesAck
    <3> DEFINE n == Opener!Acknowledge(client, Head(down))
    <3>1. /\ n \in Opener!Tcb /\ n.snd_nxt = client.snd_nxt /\ n.state = client.state
        BY <1>1, <2>4, AcknowledgeType, DownType DEF ClientTakesAck
    <3>2. n.state # "SYN_SENT" => Opener!AfterAck(n.state) # "SYN_SENT"
        BY DEF Opener!AfterAck
    <3>3. /\ clientCmd' = clientCmd
          /\ \/ client' = [n EXCEPT !.state = "CLOSED", !.valid = FALSE]
             \/ client' = [n EXCEPT !.state = Opener!AfterAck(n.state)]
             \/ client' = [n EXCEPT !.state = Opener!AfterAck(n.state),
                                    !.rcv_nxt = Opener!Add(Head(down).seq, Head(down).len)]
        BY <2>4 DEF ClientTakesAck
    <3> HIDE DEF n
    <3> QED
        BY <3>1, <3>2, <3>3 DEF Opener!Tcb
  <2> QED
      BY <2>1, <2>2, <2>3, <2>4 DEF ClientProcMoves
<1> QED
    BY <1>2, <1>3 DEF ClientNext

LEMMA ClientCmdKeeps ==
    ASSUME Types, HandInv, ClientCmdMoves, client # NoTcb, clientCmd.at # "connect"
    PROVE  /\ client.state # "SYN_SENT" => client'.state # "SYN_SENT"
           /\ client'.rcv_nxt = client.rcv_nxt /\ client'.valid = client.valid
           /\ clientProc' = clientProc /\ down' = down
           /\ clientCmd'.at # "connect"
           /\ \/ up' = up /\ ClientNext' = ClientNext
              \/ /\ clientCmd.at = "emit" /\ up' = Append(up, clientCmd.seg)
                 /\ clientCmd.seg \in FromClient
                 /\ Follows(clientCmd.seg, ClientNext, ClientNext')
                 /\ ClientNext' \in Opener!SeqNum
           /\ clientCmd'.at = "emit" => /\ clientCmd'.seg.seq = client'.snd_nxt
                                        /\ clientCmd'.seg.src = client'.snd_nxt
                                        /\ clientCmd'.seg.kind # "SYN"
<1>1. client \in Opener!Tcb /\ ClientCmdType
    BY DEF Types
<1> DEFINE Goal ==
           /\ client.state # "SYN_SENT" => client'.state # "SYN_SENT"
           /\ client'.rcv_nxt = client.rcv_nxt /\ client'.valid = client.valid
           /\ clientProc' = clientProc /\ down' = down
           /\ clientCmd'.at # "connect"
           /\ \/ up' = up /\ ClientNext' = ClientNext
              \/ /\ clientCmd.at = "emit" /\ up' = Append(up, clientCmd.seg)
                 /\ clientCmd.seg \in FromClient
                 /\ Follows(clientCmd.seg, ClientNext, ClientNext')
                 /\ ClientNext' \in Opener!SeqNum
           /\ clientCmd'.at = "emit" => /\ clientCmd'.seg.seq = client'.snd_nxt
                                        /\ clientCmd'.seg.src = client'.snd_nxt
                                        /\ clientCmd'.seg.kind # "SYN"
<1>2. CASE ClientTypes
  <2>1. CASE UNCHANGED <<client, clientCmd>>
    <3>1. clientCmd.at = "prompt"
        BY <1>2 DEF ClientTypes
    <3> QED
        BY <1>2, <2>1, <3>1 DEF ClientTypes, ClientNext
  <2>2. CASE ~(UNCHANGED <<client, clientCmd>>)
    <3>1. PICK len \in Typed :
              /\ client' = [client EXCEPT !.buf = [seq |-> client.snd_nxt, len |-> len]]
              /\ clientCmd' = Place("emit", Opener!Header(client, "ACK", len))
        BY <1>2, <2>2 DEF ClientTypes
    <3>2. len \in 0 .. MaxLen
        BY SizeAssumption
    <3>3. /\ client'.snd_nxt = client.snd_nxt /\ client'.rcv_nxt = client.rcv_nxt
          /\ client'.state = client.state /\ client'.valid = client.valid
        BY <1>1, <3>1 DEF Opener!Tcb
    <3>4. /\ clientCmd'.at = "emit" /\ clientCmd'.seg.kind = "ACK"
          /\ clientCmd'.seg.seq = client.snd_nxt /\ clientCmd'.seg.src = client.snd_nxt
        BY <1>1, <3>1, <3>2, PlaceFields, HeaderFields
    <3>5. clientCmd.at = "prompt" /\ up' = up /\ down' = down /\ clientProc' = clientProc
        BY <1>2 DEF ClientTypes
    <3> QED
        BY <3>3, <3>4, <3>5 DEF ClientNext
  <2> QED
      BY <2>1, <2>2
<1>3. CASE ClientLeaves
  <2>1. clientCmd'.at \in {"active_close", "passive_close", "idle"}
      BY <1>3, PlaceFields, RestFields DEF ClientLeaves
  <2>2. clientCmd.at = "prompt" /\ UNCHANGED <<client, clientProc, up, down>>
      BY <1>3 DEF ClientLeaves
  <2> QED
      BY <2>1, <2>2 DEF ClientNext
<1>4. CASE ClientCloses
  <2>1. /\ client'.snd_nxt = client.snd_nxt /\ client'.rcv_nxt = client.rcv_nxt
        /\ client'.state # "SYN_SENT" /\ client'.valid = client.valid
      BY <1>1, <1>4 DEF ClientCloses, Opener!Tcb
  <2>2. /\ clientCmd'.at = "emit" /\ clientCmd'.seg.kind = "FIN"
        /\ clientCmd'.seg.seq = client.snd_nxt /\ clientCmd'.seg.src = client.snd_nxt
      BY <1>1, <1>4, PlaceFields, HeaderFields, SizeAssumption DEF ClientCloses
  <2>3. /\ clientCmd.at \in {"active_close", "passive_close"}
        /\ up' = up /\ down' = down /\ clientProc' = clientProc
      BY <1>4 DEF ClientCloses
  <2> QED
      BY <2>1, <2>2, <2>3 DEF ClientNext
<1>5. CASE ClientEmits
  <2>1. /\ clientCmd.at = "emit" /\ up' = Append(up, clientCmd.seg)
        /\ clientCmd'.at = "advance" /\ clientCmd'.seg = clientCmd.seg
        /\ UNCHANGED <<client, clientProc, down>>
      BY <1>5, PlaceFields DEF ClientEmits
  <2>2. clientCmd.seg \in FromClient /\ clientCmd.seg \in Opener!Segment
      BY <1>1, <2>1 DEF ClientCmdType
  <2>3. clientCmd.seg.seq = client.snd_nxt /\ clientCmd.seg.src = client.snd_nxt
      BY <2>1 DEF HandInv
  <2>4. /\ ClientNext = client.snd_nxt
        /\ ClientNext' = Opener!Add(client.snd_nxt, Opener!Length(clientCmd.seg))
      BY <2>1 DEF ClientNext
  <2>5. client.snd_nxt \in Opener!SeqNum
      BY <1>1 DEF Opener!Tcb
  <2>6. Follows(clientCmd.seg, ClientNext, ClientNext') /\ ClientNext' \in Opener!SeqNum
      BY <2>2, <2>3, <2>4, <2>5, SegmentFollows
  <2> QED
      BY <2>1, <2>2, <2>6
<1>6. CASE ClientAdvances
  <2>1. /\ clientCmd.at = "advance" /\ clientCmd'.at \in {"idle", "prompt"}
        /\ UNCHANGED <<up, down, clientProc>>
      BY <1>6, PlaceFields, RestFields DEF ClientAdvances
  <2>2. /\ client'.snd_nxt = Opener!Add(client.snd_nxt, Opener!Length(clientCmd.seg))
        /\ client'.rcv_nxt = client.rcv_nxt /\ client'.state = client.state
        /\ client'.valid = client.valid
      BY <1>1, <1>6 DEF ClientAdvances, Opener!Tcb
  <2> QED
      BY <2>1, <2>2 DEF ClientNext
<1> HIDE DEF Goal
<1>7. Goal
    BY <1>2, <1>3, <1>4, <1>5, <1>6 DEF ClientCmdMoves, ClientConnects, ClientInits, Goal
<1> QED
    BY <1>7 DEF Goal

LEMMA ServerKeeps ==
    ASSUME Types, HandInv, ServerMoves, server # NoTcb,
           ~ServerTakesSyn, serverProc.at = "reply" => serverProc.seg.kind = "ACK"
    PROVE  /\ \/ down' = down /\ ServerNext' = ServerNext
              \/ /\ down' = Append(down, serverProc.seg)
                 /\ serverProc.seg \in FromServer /\ serverProc.seg.kind \in {"FIN", "ACK"}
                 /\ Follows(serverProc.seg, ServerNext, ServerNext')
                 /\ ServerNext' \in Opener!SeqNum
           /\ serverProc'.at = "emit" => /\ serverProc'.seg.seq = server'.snd_nxt
                                         /\ serverProc'.seg.src = server'.snd_nxt
                                         /\ serverProc'.seg.kind = "FIN" =>
                                                server'.state \in {"FIN_WAIT_1", "LAST_ACK"}
           /\ serverProc'.at = "reply" => serverProc'.seg.kind = "ACK"
<1>1. server \in Opener!Tcb /\ ServerProcType /\ server.snd_nxt \in Opener!SeqNum
    BY DEF Types, Opener!Tcb
<1> DEFINE Goal ==
           /\ \/ down' = down /\ ServerNext' = ServerNext
              \/ /\ down' = Append(down, serverProc.seg)
                 /\ serverProc.seg \in FromServer /\ serverProc.seg.kind \in {"FIN", "ACK"}
                 /\ Follows(serverProc.seg, ServerNext, ServerNext')
                 /\ ServerNext' \in Opener!SeqNum
           /\ serverProc'.at = "emit" => /\ serverProc'.seg.seq = server'.snd_nxt
                                         /\ serverProc'.seg.src = server'.snd_nxt
                                         /\ serverProc'.seg.kind = "FIN" =>
                                                server'.state \in {"FIN_WAIT_1", "LAST_ACK"}
           /\ serverProc'.at = "reply" => serverProc'.seg.kind = "ACK"
<1>2. CASE ServerIgnores
    BY <1>2 DEF ServerIgnores, TakesUp, ServerNext
<1>3. CASE ServerTakesAck
  <2> DEFINE n == Opener!Acknowledge(server, Head(up))
  <2>1. n \in Opener!Tcb /\ n.snd_nxt = server.snd_nxt
      BY <1>1, <1>3, AcknowledgeType, UpType DEF ServerTakesAck
  <2>2. /\ serverProc.at = "idle" /\ down' = down
        /\ serverProc' = serverProc \/ serverProc' = Place("app", Opener!Nothing)
        /\ \/ server' = [n EXCEPT !.state = "CLOSED", !.valid = FALSE]
           \/ server' = [n EXCEPT !.state = Opener!AfterAck(n.state)]
           \/ server' = [n EXCEPT !.state = Opener!AfterAck(n.state),
                                  !.rcv_nxt = Opener!Add(Head(up).seq, Head(up).len)]
      BY <1>3 DEF ServerTakesAck, TakesUp
  <2> HIDE DEF n
  <2>3. server'.snd_nxt = server.snd_nxt
      BY <2>1, <2>2 DEF Opener!Tcb
  <2>4. serverProc'.at \in {"idle", "app"}
      BY <2>2, PlaceFields
  <2> QED
      BY <2>2, <2>3, <2>4 DEF ServerNext
<1>4. CASE ServerTakesFin
  <2>1. /\ serverProc.at = "idle" /\ down' = down
        /\ serverProc'.at = Opener!AtFin(server.state)
        /\ server'.snd_nxt = server.snd_nxt
      BY <1>1, <1>4, PlaceFields DEF ServerTakesFin, TakesUp, Opener!Tcb
  <2>2. Opener!AtFin(server.state) \in {"to_CLOSE_WAIT", "to_TIME_WAIT", "to_stay"}
      BY DEF Opener!AtFin
  <2> QED
      BY <2>1, <2>2 DEF ServerNext
<1>5. CASE ServerFinishesFin
  <2>1. server' \in Opener!Tcb
      BY <1>5, ServerTypes, NullAssumption
  <2>2. /\ serverProc.at # "advance" /\ down' = down
        /\ serverProc'.at = "reply" /\ serverProc'.seg.kind = "ACK"
      BY <1>5, <2>1, PlaceFields, HeaderFields, SizeAssumption DEF ServerFinishesFin
  <2>3. server'.snd_nxt = server.snd_nxt
      BY <1>1, <1>5 DEF ServerFinishesFin, Opener!Tcb
  <2> QED
      BY <2>2, <2>3 DEF ServerNext
<1>6. CASE ServerSends
  <2>1. CASE UNCHANGED <<server, serverProc>>
    <3>1. serverProc.at = "app" /\ down' = down
        BY <1>6 DEF ServerSends
    <3> QED
        BY <2>1, <3>1 DEF ServerNext
  <2>2. CASE ~(UNCHANGED <<server, serverProc>>)
    <3> DEFINE len == Head(serverCalls)
    <3>1. /\ server' = [server EXCEPT !.buf = [seq |-> server.snd_nxt, len |-> len]]
          /\ serverProc' = Place("emit", Opener!Header(server, "ACK", len))
          /\ serverProc.at = "app" /\ down' = down /\ serverCalls # <<>>
        BY <1>6, <2>2 DEF ServerSends
    <3>2. len \in 0 .. MaxLen
        BY <3>1, TailType DEF Types, Opener!Script
    <3>3. server'.snd_nxt = server.snd_nxt
        BY <1>1, <3>1 DEF Opener!Tcb
    <3>4. /\ serverProc'.at = "emit" /\ serverProc'.seg.kind = "ACK"
          /\ serverProc'.seg.seq = server.snd_nxt /\ serverProc'.seg.src = server.snd_nxt
        BY <1>1, <3>1, <3>2, PlaceFields, HeaderFields
    <3> QED
        BY <3>1, <3>3, <3>4 DEF ServerNext
  <2> QED
      BY <2>1, <2>2
<1>7. CASE ServerLeaves
  <2>1. serverProc'.at \in {"active_close", "passive_close", "app"}
      BY <1>7, PlaceFields DEF ServerLeaves
  <2>2. serverProc.at = "app" /\ UNCHANGED <<server, down>>
      BY <1>7 DEF ServerLeaves
  <2> QED
      BY <2>1, <2>2 DEF ServerNext
<1>8. CASE ServerAcknowledges
  <2>1. /\ serverProc.at = "app" /\ UNCHANGED <<server, down>>
        /\ serverProc'.at = "reply" /\ serverProc'.seg.kind = "ACK"
      BY <1>1, <1>8, PlaceFields, HeaderFields, SizeAssumption DEF ServerAcknowledges
  <2> QED
      BY <2>1 DEF ServerNext
<1>9. CASE ServerReplies
  <2>1. /\ serverProc.at = "reply" /\ down' = Append(down, serverProc.seg)
        /\ serverProc'.at = "idle" /\ server' = server
      BY <1>9, RestFields DEF ServerReplies
  <2>2. /\ serverProc.seg \in FromServer /\ serverProc.seg.kind = "ACK" /\ Empty(serverProc.seg)
      BY <1>1, <2>1 DEF ServerProcType
  <2>3. ServerNext' = ServerNext /\ ServerNext \in Opener!SeqNum
      BY <1>1, <2>1 DEF ServerNext
  <2> QED
      BY <2>1, <2>2, <2>3, EmptyFollows
<1>10. CASE ServerCloses
  <2>1. server'.snd_nxt = server.snd_nxt /\ server'.state \in {"FIN_WAIT_1", "LAST_ACK"}
      BY <1>1, <1>10 DEF ServerCloses, Opener!Tcb
  <2>2. /\ serverProc'.at = "emit"
        /\ serverProc'.seg.seq = server.snd_nxt /\ serverProc'.seg.src = server.snd_nxt
      BY <1>1, <1>10, PlaceFields, HeaderFields, SizeAssumption DEF ServerCloses
  <2>3. serverProc.at # "advance" /\ down' = down
      BY <1>10 DEF ServerCloses
  <2> QED
      BY <2>1, <2>2, <2>3 DEF ServerNext
<1>11. CASE ServerEmits
  <2>1. /\ serverProc.at = "emit" /\ down' = Append(down, serverProc.seg)
        /\ serverProc'.at = "advance" /\ serverProc'.seg = serverProc.seg
        /\ server' = server
      BY <1>11, PlaceFields DEF ServerEmits
  <2>2. /\ serverProc.seg \in FromServer /\ serverProc.seg \in Opener!Segment
        /\ serverProc.seg.kind \in {"FIN", "ACK"}
      BY <1>1, <2>1 DEF ServerProcType
  <2>3. serverProc.seg.seq = server.snd_nxt /\ serverProc.seg.src = server.snd_nxt
      BY <2>1 DEF HandInv
  <2>4. /\ ServerNext = server.snd_nxt
        /\ ServerNext' = Opener!Add(server.snd_nxt, Opener!Length(serverProc.seg))
      BY <2>1 DEF ServerNext
  <2>5. Follows(serverProc.seg, ServerNext, ServerNext') /\ ServerNext' \in Opener!SeqNum
      BY <1>1, <2>2, <2>3, <2>4, SegmentFollows
  <2> QED
      BY <2>1, <2>2, <2>5
<1>12. CASE ServerAdvances
  <2>1. serverProc.at = "advance" /\ serverProc'.at = "app" /\ down' = down
      BY <1>12, PlaceFields DEF ServerAdvances
  <2>2. server'.snd_nxt = Opener!Add(server.snd_nxt, Opener!Length(serverProc.seg))
      BY <1>1, <1>12 DEF ServerAdvances, Opener!Tcb
  <2> QED
      BY <2>1, <2>2 DEF ServerNext
<1> HIDE DEF Goal
<1>13. Goal
    BY <1>2, <1>3, <1>4, <1>5, <1>6, <1>7, <1>8, <1>9, <1>10, <1>11, <1>12
       DEF ServerMoves, Goal
<1> QED
    BY <1>13 DEF Goal

-------------------------------------------------------------------------------
\* What is taken off the network is the next of the peer's stream.
LEMMA FollowsTaken ==
    ASSUME NEW seg \in Opener!Segment, NEW from, NEW to, Follows(seg, from, to)
    PROVE  /\ seg.kind = "FIN" => to = Opener!Add(seg.seq, 1)
           /\ seg.kind = "ACK" /\ seg.len > 0 => to = Opener!Add(seg.seq, seg.len)
           /\ Empty(seg) => to = from
           /\ Consumes(seg) => seg.seq = from /\ seg.src = from
<1>1. seg.len \in Nat
    BY DEF Opener!Segment
<1> QED
    BY <1>1 DEF Follows, Consumes, Empty, Opener!Length

LEMMA HeadOfNone ==
    ASSUME NEW S, NEW q \in Seq(S), q # <<>>, NoneLeft(q)
    PROVE  Empty(Head(q))
BY TailType DEF NoneLeft, Consumes

LEMMA ClientTakes ==
    ASSUME Types, Shaken, CloseInv, ClientProcMoves
    PROVE  /\ ~ClientShakes
           /\ \/ down' = down /\ ClientWants' = ClientWants
              \/ /\ TakesDown
                 /\ \A mid : Follows(Head(down), ClientWants, mid) => ClientWants' = mid
           /\ \/ up' = up
              \/ /\ up' = Append(up, clientProc.seg) /\ clientProc.at = "reply"
                 /\ clientProc.seg \in FromClient /\ Empty(clientProc.seg)
<1>1. /\ client \in Opener!Tcb /\ ClientProcType
      /\ down \in Seq(FromServer)
    BY DEF Types, Shaken
<1> DEFINE Goal ==
           /\ ~ClientShakes
           /\ \/ down' = down /\ ClientWants' = ClientWants
              \/ /\ TakesDown
                 /\ \A mid : Follows(Head(down), ClientWants, mid) => ClientWants' = mid
           /\ \/ up' = up
              \/ /\ up' = Append(up, clientProc.seg) /\ clientProc.at = "reply"
                 /\ clientProc.seg \in FromClient /\ Empty(clientProc.seg)
<1>2. ~ClientShakes
  <2>1. SUFFICES ASSUME ClientShakes PROVE FALSE
      OBVIOUS
  <2>2. Head(down) = down[1] /\ Len(down) \in Nat \ {0} /\ Head(down).kind = "SYNACK"
      BY <1>1, <2>1, TailType DEF ClientShakes, TakesDown
  <2> QED
      BY <2>2 DEF Shaken
<1>3. CASE ClientIgnores
  <2>1. TakesDown /\ up' = up /\ ClientWants' = ClientWants
      BY <1>3 DEF ClientIgnores, ClientWants
  <2>2. ~client.valid
      BY <1>3 DEF ClientIgnores, Live, Shaken
  <2>3. NoneLeft(down)
      BY <2>2 DEF CloseInv, PeerClosed, Shaken
  <2>4. Empty(Head(down))
      BY <1>1, <2>1, <2>3, HeadOfNone DEF TakesDown
  <2>5. \A mid : Follows(Head(down), ClientWants, mid) => ClientWants' = mid
      BY <2>1, <2>4 DEF Follows, Consumes
  <2> QED
      BY <1>2, <2>1, <2>5
<1>4. CASE ClientTakesOver
  <2>1. /\ clientProc.at = "shaking" /\ up' = up /\ down' = down
        /\ clientProc'.at = "reply"
      BY <1>4, PlaceFields DEF ClientTakesOver
  <2>2. client'.rcv_nxt = Opener!Add(clientProc.seg.seq, 1)
      BY <1>1, <1>4 DEF ClientTakesOver, Opener!Tcb
  <2> QED
      BY <1>2, <2>1, <2>2 DEF ClientWants
<1>5. CASE ClientTakesAck
  <2> DEFINE n == Opener!Acknowledge(client, Head(down))
  <2>1. TakesDown /\ Head(down).kind = "ACK" /\ up' = up
      BY <1>5 DEF ClientTakesAck
  <2>2. Head(down) \in Opener!Segment /\ Head(down).len \in Nat
      BY <2>1, DownType DEF Opener!Segment
  <2>3. n \in Opener!Tcb /\ n.rcv_nxt = client.rcv_nxt /\ n.state = client.state
      BY <1>1, <2>2, AcknowledgeType
  <2>4. client.state = "LAST_ACK" => Empty(Head(down))
    <3>1. client.state = "LAST_ACK" => NoneLeft(down)
        BY DEF CloseInv, PeerClosed, Shaken
    <3> QED
        BY <1>1, <2>1, <3>1, HeadOfNone DEF TakesDown
  <2>5. clientProc.at = "idle" /\ ClientWants = client.rcv_nxt
      BY <2>1 DEF TakesDown, ClientWants
  <2> HIDE DEF n
  <2>6. CASE Empty(Head(down))
    <3>1. /\ UNCHANGED clientProc
          /\ \/ client' = [n EXCEPT !.state = "CLOSED", !.valid = FALSE]
             \/ client' = [n EXCEPT !.state = Opener!AfterAck(n.state)]
        BY <1>5, <2>6 DEF ClientTakesAck, Empty, n
    <3>2. client'.rcv_nxt = client.rcv_nxt
        BY <2>3, <3>1 DEF Opener!Tcb
    <3>3. ClientWants' = ClientWants
        BY <2>5, <3>1, <3>2 DEF ClientWants
    <3>4. \A mid : Follows(Head(down), ClientWants, mid) => ClientWants' = mid
        BY <2>6, <3>3 DEF Follows, Consumes
    <3> QED
        BY <1>2, <2>1, <3>4
  <2>7. CASE ~Empty(Head(down))
    <3>1. Head(down).len > 0
        BY <2>1, <2>2, <2>7 DEF Empty
    <3>2. /\ client' = [n EXCEPT !.state = Opener!AfterAck(n.state),
                                 !.rcv_nxt = Opener!Add(Head(down).seq, Head(down).len)]
          /\ clientProc' = Place("app", Opener!Nothing)
        BY <1>5, <2>3, <2>4, <2>7, <3>1 DEF ClientTakesAck, n
    <3>3. client'.rcv_nxt = Opener!Add(Head(down).seq, Head(down).len)
        BY <2>3, <3>2 DEF Opener!Tcb
    <3>4. ClientWants' = client'.rcv_nxt
        BY <3>2, PlaceFields DEF ClientWants
    <3>5. \A mid : Follows(Head(down), ClientWants, mid) => ClientWants' = mid
        BY <2>1, <2>2, <3>1, <3>3, <3>4, FollowsTaken
    <3> QED
        BY <1>2, <2>1, <3>5
  <2> QED
      BY <2>6, <2>7
<1>6. CASE ClientTakesFin
  <2>1. /\ TakesDown /\ Head(down).kind = "FIN" /\ up' = up
        /\ clientProc'.at = Opener!AtFin(client.state)
      BY <1>6, PlaceFields DEF ClientTakesFin
  <2>2. client'.rcv_nxt = Opener!Add(Head(down).seq, 1)
      BY <1>1, <1>6 DEF ClientTakesFin, Opener!Tcb
  <2>3. ClientWants' = Opener!Add(Head(down).seq, 1)
      BY <2>1, <2>2 DEF ClientWants, Opener!AtFin
  <2>4. \A mid : Follows(Head(down), ClientWants, mid) => ClientWants' = mid
      BY <2>1, <2>3, DownType, FollowsTaken
  <2> QED
      BY <1>2, <2>1, <2>4
<1>7. CASE ClientFinishesFin
  <2>1. /\ clientProc.at # "shaking" /\ up' = up /\ down' = down
        /\ clientProc'.at = "reply"
      BY <1>7, PlaceFields DEF ClientFinishesFin
  <2>2. client'.rcv_nxt = client.rcv_nxt
      BY <1>1, <1>7 DEF ClientFinishesFin, Opener!Tcb
  <2> QED
      BY <1>2, <2>1, <2>2 DEF ClientWants
<1>8. CASE ClientAcknowledges
  <2>1. /\ clientProc.at # "shaking" /\ UNCHANGED <<client, up, down>>
        /\ clientProc'.at = "reply"
      BY <1>8, PlaceFields DEF ClientAcknowledges
  <2> QED
      BY <1>2, <2>1 DEF ClientWants
<1>9. CASE ClientReplies
  <2>1. /\ clientProc.at = "reply" /\ up' = Append(up, clientProc.seg)
        /\ clientProc'.at = "idle" /\ UNCHANGED <<client, down>>
      BY <1>9, RestFields DEF ClientReplies
  <2>2. clientProc.seg \in FromClient /\ Empty(clientProc.seg)
      BY <1>1, <2>1 DEF ClientProcType
  <2> QED
      BY <1>2, <2>1, <2>2 DEF ClientWants
<1> HIDE DEF Goal
<1>10. Goal
    BY <1>2, <1>3, <1>4, <1>5, <1>6, <1>7, <1>8, <1>9 DEF ClientProcMoves, Goal
<1> QED
    BY <1>10 DEF Goal

LEMMA ServerTakes ==
    ASSUME Types, Shaken, CloseInv, ServerMoves
    PROVE  /\ ~ServerTakesSyn
           /\ \/ up' = up /\ server'.rcv_nxt = server.rcv_nxt
              \/ /\ TakesUp
                 /\ \A mid : Follows(Head(up), server.rcv_nxt, mid) => server'.rcv_nxt = mid
<1>1. /\ server \in Opener!Tcb /\ ServerProcType
      /\ up \in Seq(FromClient)
    BY DEF Types, Shaken
<1> DEFINE Goal ==
           /\ ~ServerTakesSyn
           /\ \/ up' = up /\ server'.rcv_nxt = server.rcv_nxt
              \/ /\ TakesUp
                 /\ \A mid : Follows(Head(up), server.rcv_nxt, mid) => server'.rcv_nxt = mid
<1>2. ~ServerTakesSyn
  <2>1. SUFFICES ASSUME ServerTakesSyn PROVE FALSE
      OBVIOUS
  <2>2. Head(up) = up[1] /\ Len(up) \in Nat \ {0} /\ Head(up).kind = "SYN"
      BY <1>1, <2>1, TailType DEF ServerTakesSyn, TakesUp
  <2> QED
      BY <2>2 DEF Shaken
<1>3. CASE ServerIgnores
  <2>1. TakesUp /\ server'.rcv_nxt = server.rcv_nxt
      BY <1>3 DEF ServerIgnores
  <2>2. ~server.valid
      BY <1>3 DEF ServerIgnores, Live, Shaken
  <2>3. NoneLeft(up)
      BY <2>2 DEF CloseInv, PeerClosed, Shaken
  <2>4. Empty(Head(up))
      BY <1>1, <2>1, <2>3, HeadOfNone DEF TakesUp
  <2>5. \A mid : Follows(Head(up), server.rcv_nxt, mid) => server'.rcv_nxt = mid
      BY <2>1, <2>4 DEF Follows, Consumes
  <2> QED
      BY <1>2, <2>1, <2>5
<1>4. CASE ServerTakesAck
  <2> DEFINE n == Opener!Acknowledge(server, Head(up))
  <2>1. TakesUp /\ Head(up).kind = "ACK"
      BY <1>4 DEF ServerTakesAck
  <2>2. Head(up) \in Opener!Segment /\ Head(up).len \in Nat
      BY <2>1, UpType DEF Opener!Segment
  <2>3. n \in Opener!Tcb /\ n.rcv_nxt = server.rcv_nxt /\ n.state = server.state
      BY <1>1, <2>2, AcknowledgeType
  <2>4. server.state = "LAST_ACK" => Empty(Head(up))
    <3>1. server.state = "LAST_ACK" => NoneLeft(up)
        BY DEF CloseInv, PeerClosed, Shaken
    <3> QED
        BY <1>1, <2>1, <3>1, HeadOfNone DEF TakesUp
  <2> HIDE DEF n
  <2>5. CASE Empty(Head(up))
    <3>1. \/ server' = [n EXCEPT !.state = "CLOSED", !.valid = FALSE]
          \/ server' = [n EXCEPT !.state = Opener!AfterAck(n.state)]
        BY <1>4, <2>5 DEF ServerTakesAck, Empty, n
    <3>2. server'.rcv_nxt = server.rcv_nxt
        BY <2>3, <3>1 DEF Opener!Tcb
    <3>3. \A mid : Follows(Head(up), server.rcv_nxt, mid) => server'.rcv_nxt = mid
        BY <2>5, <3>2 DEF Follows, Consumes
    <3> QED
        BY <1>2, <2>1, <3>3
  <2>6. CASE ~Empty(Head(up))
    <3>1. Head(up).len > 0
        BY <2>1, <2>2, <2>6 DEF Empty
    <3>2. server' = [n EXCEPT !.state = Opener!AfterAck(n.state),
                              !.rcv_nxt = Opener!Add(Head(up).seq, Head(up).len)]
        BY <1>4, <2>3, <2>4, <2>6, <3>1 DEF ServerTakesAck, n
    <3>3. server'.rcv_nxt = Opener!Add(Head(up).seq, Head(up).len)
        BY <2>3, <3>2 DEF Opener!Tcb
    <3>4. \A mid : Follows(Head(up), server.rcv_nxt, mid) => server'.rcv_nxt = mid
        BY <2>1, <2>2, <3>1, <3>3, FollowsTaken
    <3> QED
        BY <1>2, <2>1, <3>4
  <2> QED
      BY <2>5, <2>6
<1>5. CASE ServerTakesFin
  <2>1. TakesUp /\ Head(up).kind = "FIN"
      BY <1>5 DEF ServerTakesFin
  <2>2. server'.rcv_nxt = Opener!Add(Head(up).seq, 1)
      BY <1>1, <1>5 DEF ServerTakesFin, Opener!Tcb
  <2>3. \A mid : Follows(Head(up), server.rcv_nxt, mid) => server'.rcv_nxt = mid
      BY <2>1, <2>2, UpType, FollowsTaken
  <2> QED
      BY <1>2, <2>1, <2>3
<1>6. CASE ServerFinishesFin \/ ServerCloses \/ ServerAdvances
    BY <1>1, <1>2, <1>6 DEF ServerFinishesFin, ServerCloses, ServerAdvances, Opener!Tcb
<1>7. CASE ServerSends
    BY <1>1, <1>2, <1>7 DEF ServerSends, Opener!Tcb
<1>8. CASE ServerLeaves \/ ServerAcknowledges \/ ServerReplies \/ ServerEmits
    BY <1>2, <1>8 DEF ServerLeaves, ServerAcknowledges, ServerReplies, ServerEmits
<1> HIDE DEF Goal
<1>9. Goal
    BY <1>2, <1>3, <1>4, <1>5, <1>6, <1>7, <1>8 DEF ServerMoves, Goal
<1> QED
    BY <1>9 DEF Goal

-------------------------------------------------------------------------------
\* What holds of the segments of a channel, when the first is taken off and when
\* one is put in.
Without(q, kind) == \A i \in 1 .. Len(q) : q[i].kind # kind

LEMMA TailKeeps ==
    ASSUME NEW S, NEW q \in Seq(S), q # <<>>
    PROVE  /\ \A kind : Without(q, kind) => Without(Tail(q), kind)
           /\ HasFin(Tail(q)) => HasFin(q)
           /\ Head(q).kind = "FIN" => HasFin(q)
           /\ NoneLeft(q) => NoneLeft(Tail(q))
           /\ FinLast(q) => FinLast(Tail(q))
           /\ FinLast(q) /\ Head(q).kind = "FIN" => NoneLeft(Tail(q))
           /\ \A buf : \/ ~Carries(q, buf)
                       \/ Carries(Tail(q), buf)
                       \/ Head(q).kind = "ACK" /\ Head(q).seq = buf.seq /\ Head(q).len = buf.len
           /\ \A buf : \/ ~Acks(q, buf)
                       \/ Acks(Tail(q), buf)
                       \/ Head(q).kind = "ACK" /\ Head(q).ack = End(buf)
<1> DEFINE n == Len(q)
           r == Tail(q)
<1>1. n \in Nat \ {0} /\ Len(r) = n - 1 /\ Head(q) = q[1]
    BY TailType
<1>2. \A i \in 1 .. n - 1 : r[i] = q[i + 1]
    BY TailType
<1>3. /\ \A i \in 1 .. Len(r) : i + 1 \in 1 .. n /\ r[i] = q[i + 1]
      /\ \A i \in 1 .. n : i # 1 => i - 1 \in 1 .. Len(r) /\ r[i - 1] = q[i]
      /\ 1 \in 1 .. n
  <2> HIDE DEF n, r
  <2> QED
      BY <1>1, <1>2
<1> HIDE DEF n, r
<1>4. \A kind : Without(q, kind) => Without(r, kind)
    BY <1>3 DEF Without, n
<1>5. /\ HasFin(r) => HasFin(q)
      /\ Head(q).kind = "FIN" => HasFin(q)
      /\ NoneLeft(q) => NoneLeft(r)
    BY <1>1, <1>3 DEF HasFin, NoneLeft, n
<1>6. FinLast(q) => FinLast(r)
  <2>1. SUFFICES ASSUME FinLast(q), NEW i \in 1 .. Len(r), NEW j \in 1 .. Len(r),
                        i < j, r[i].kind = "FIN"
                 PROVE  ~Consumes(r[j])
      BY DEF FinLast
  <2>2. /\ i + 1 \in 1 .. n /\ j + 1 \in 1 .. n /\ i + 1 < j + 1
        /\ r[i] = q[i + 1] /\ r[j] = q[j + 1]
      BY <1>1, <1>3, <2>1
  <2> QED
      BY <2>1, <2>2 DEF FinLast, n
<1>7. FinLast(q) /\ Head(q).kind = "FIN" => NoneLeft(r)
  <2>1. SUFFICES ASSUME FinLast(q), Head(q).kind = "FIN", NEW j \in 1 .. Len(r)
                 PROVE  ~Consumes(r[j])
      BY DEF NoneLeft
  <2>2. j + 1 \in 1 .. n /\ 1 < j + 1 /\ r[j] = q[j + 1]
      BY <1>1, <1>3
  <2> QED
      BY <1>1, <1>3, <2>1, <2>2 DEF FinLast, n
<1>8. ASSUME NEW buf
      PROVE  /\ \/ ~Carries(q, buf)
                \/ Carries(r, buf)
                \/ Head(q).kind = "ACK" /\ Head(q).seq = buf.seq /\ Head(q).len = buf.len
             /\ \/ ~Acks(q, buf)
                \/ Acks(r, buf)
                \/ Head(q).kind = "ACK" /\ Head(q).ack = End(buf)
    BY <1>1, <1>3 DEF Carries, Acks, n
<1> QED
    BY <1>4, <1>5, <1>6, <1>7, <1>8 DEF r

LEMMA AppendKeeps ==
    ASSUME NEW S, NEW q \in Seq(S), NEW e \in S
    PROVE  /\ \A kind : Without(q, kind) /\ e.kind # kind => Without(Append(q, e), kind)
           /\ HasFin(Append(q, e)) => HasFin(q) \/ e.kind = "FIN"
           /\ NoneLeft(q) /\ Empty(e) => NoneLeft(Append(q, e))
           /\ FinLast(q) /\ (HasFin(q) => Empty(e)) => FinLast(Append(q, e))
           /\ \A buf : Carries(q, buf) => Carries(Append(q, e), buf)
           /\ \A buf : e.kind = "ACK" /\ e.seq = buf.seq /\ e.len = buf.len
                           => Carries(Append(q, e), buf)
           /\ \A buf : Acks(q, buf) => Acks(Append(q, e), buf)
           /\ \A buf : e.kind = "ACK" /\ e.ack = End(buf) => Acks(Append(q, e), buf)
<1> DEFINE n == Len(q)
           r == Append(q, e)
<1>1. n \in Nat /\ Len(r) = n + 1 /\ r[n + 1] = e /\ \A i \in 1 .. n : r[i] = q[i]
    BY AppendType
<1>2. /\ \A i \in 1 .. n : i \in 1 .. Len(r) /\ r[i] = q[i]
      /\ \A i \in 1 .. Len(r) : (i \in 1 .. n /\ r[i] = q[i]) \/ (i = n + 1 /\ r[i] = e)
      /\ n + 1 \in 1 .. Len(r)
  <2> HIDE DEF n, r
  <2> QED
      BY <1>1
<1> HIDE DEF n, r
<1>3. \A kind : Without(q, kind) /\ e.kind # kind => Without(r, kind)
    BY <1>2 DEF Without, n
<1>4. /\ HasFin(r) => HasFin(q) \/ e.kind = "FIN"
      /\ NoneLeft(q) /\ Empty(e) => NoneLeft(r)
    BY <1>2 DEF HasFin, NoneLeft, Consumes, n
<1>5. FinLast(q) /\ (HasFin(q) => Empty(e)) => FinLast(r)
  <2>1. SUFFICES ASSUME FinLast(q), HasFin(q) => Empty(e),
                        NEW i \in 1 .. Len(r), NEW j \in 1 .. Len(r), i < j, r[i].kind = "FIN"
                 PROVE  ~Consumes(r[j])
      BY DEF FinLast
  <2>2. i \in 1 .. n /\ r[i] = q[i]
      BY <1>1, <1>2, <2>1
  <2>3. CASE j = n + 1
      BY <1>1, <2>1, <2>2, <2>3 DEF HasFin, Consumes, n
  <2>4. CASE j # n + 1
    <3>1. j \in 1 .. n /\ r[j] = q[j]
        BY <1>2, <2>4
    <3> QED
        BY <2>1, <2>2, <3>1 DEF FinLast, n
  <2> QED
      BY <2>3, <2>4
<1>6. ASSUME NEW buf
      PROVE  /\ Carries(q, buf) => Carries(r, buf)
             /\ e.kind = "ACK" /\ e.seq = buf.seq /\ e.len = buf.len => Carries(r, buf)
             /\ Acks(q, buf) => Acks(r, buf)
             /\ e.kind = "ACK" /\ e.ack = End(buf) => Acks(r, buf)
    BY <1>1, <1>2 DEF Carries, Acks, n
<1> QED
    BY <1>3, <1>4, <1>5, <1>6 DEF r

-------------------------------------------------------------------------------
\* Once shaken, the streams run on.
LEMMA ShakenStep ==
    ASSUME Types, Types', HandInv, Shaken, CloseInv, Moves
    PROVE  HandInv' /\ Shaken'
<1>1. /\ client \in Opener!Tcb /\ server \in Opener!Tcb
      /\ up \in Seq(FromClient) /\ down \in Seq(FromServer)
      /\ Without(up, "SYN") /\ Without(down, "SYNACK")
    BY DEF Types, Shaken, Without
<1>2. Stream(up, server.rcv_nxt, ClientNext) /\ Stream(down, ClientWants, ServerNext)
    BY DEF Shaken
<1>3. CASE ClientProcMoves
  <2>1. /\ client' \in Opener!Tcb /\ client'.snd_nxt = client.snd_nxt
        /\ client'.state # "SYN_SENT"
        /\ clientCmd' = clientCmd /\ ClientNext' = ClientNext
      BY <1>3, ClientProcKeeps DEF Shaken
  <2>2. UNCHANGED <<server, serverProc>>
      BY <1>3 DEF ClientProcMoves
  <2>3. client' # NoTcb
      BY <1>3, ClientProcTypes DEF Shaken
  <2>4. Stream(up', server'.rcv_nxt, ClientNext') /\ Without(up', "SYN")
    <3>1. CASE up' = up
        BY <1>1, <1>2, <2>1, <2>2, <3>1
    <3>2. CASE /\ up' = Append(up, clientProc.seg)
               /\ clientProc.seg \in FromClient /\ Empty(clientProc.seg)
      <4>1. ClientNext \in Opener!SeqNum
          BY <1>2 DEF Stream
      <4>2. Follows(clientProc.seg, ClientNext, ClientNext)
          BY <3>2, EmptyFollows
      <4>3. Stream(Append(up, clientProc.seg), server.rcv_nxt, ClientNext)
          BY <1>1, <1>2, <3>2, <4>1, <4>2, StreamAppend
      <4>4. Without(Append(up, clientProc.seg), "SYN")
          BY <1>1, <3>2, AppendKeeps DEF Empty
      <4> QED
          BY <2>1, <2>2, <3>2, <4>3, <4>4
    <3> QED
        BY <1>3, <3>1, <3>2, ClientTakes
  <2>5. Stream(down', ClientWants', ServerNext') /\ Without(down', "SYNACK")
    <3>1. ServerNext' = ServerNext
        BY <2>2 DEF ServerNext
    <3>2. CASE down' = down /\ ClientWants' = ClientWants
        BY <1>1, <1>2, <3>1, <3>2
    <3>3. CASE /\ TakesDown
               /\ \A mid : Follows(Head(down), ClientWants, mid) => ClientWants' = mid
      <4>1. down # <<>> /\ down' = Tail(down)
          BY <3>3 DEF TakesDown
      <4>2. PICK mid \in Opener!SeqNum :
                Follows(Head(down), ClientWants, mid) /\ Stream(Tail(down), mid, ServerNext)
          BY <1>1, <1>2, <4>1, StreamTail
      <4>3. Without(Tail(down), "SYNACK")
          BY <1>1, <4>1, TailKeeps
      <4> QED
          BY <3>1, <3>3, <4>1, <4>2, <4>3
    <3> QED
        BY <1>3, <3>2, <3>3, ClientTakes
  <2>6. HandInv'
      BY <2>1, <2>2 DEF HandInv
  <2>7. /\ clientCmd'.at # "connect"
        /\ clientCmd'.at = "emit" => clientCmd'.seg.kind # "SYN"
        /\ serverProc'.at = "reply" => serverProc'.seg.kind = "ACK"
        /\ server' # NoTcb
      BY <2>1, <2>2 DEF Shaken
  <2> QED
      BY <2>1, <2>3, <2>4, <2>5, <2>6, <2>7 DEF Shaken, Without
<1>4. CASE ClientCmdMoves
  <2>1. /\ client'.state # "SYN_SENT"
        /\ client'.rcv_nxt = client.rcv_nxt
        /\ clientProc' = clientProc /\ down' = down
        /\ clientCmd'.at # "connect"
        /\ \/ up' = up /\ ClientNext' = ClientNext
           \/ /\ clientCmd.at = "emit" /\ up' = Append(up, clientCmd.seg)
              /\ clientCmd.seg \in FromClient
              /\ Follows(clientCmd.seg, ClientNext, ClientNext')
              /\ ClientNext' \in Opener!SeqNum
        /\ clientCmd'.at = "emit" => /\ clientCmd'.seg.seq = client'.snd_nxt
                                     /\ clientCmd'.seg.src = client'.snd_nxt
                                     /\ clientCmd'.seg.kind # "SYN"
      BY <1>4, ClientCmdKeeps DEF Shaken
  <2>2. UNCHANGED <<server, serverProc>>
      BY <1>4 DEF ClientCmdMoves
  <2>3. client' # NoTcb
      BY <1>4, ClientCmdTypes, NullAssumption
  <2>4. Stream(up', server'.rcv_nxt, ClientNext') /\ Without(up', "SYN")
    <3>1. CASE up' = up /\ ClientNext' = ClientNext
        BY <1>1, <1>2, <2>2, <3>1
    <3>2. CASE /\ clientCmd.at = "emit" /\ up' = Append(up, clientCmd.seg)
               /\ clientCmd.seg \in FromClient
               /\ Follows(clientCmd.seg, ClientNext, ClientNext')
               /\ ClientNext' \in Opener!SeqNum
      <4>1. Stream(Append(up, clientCmd.seg), server.rcv_nxt, ClientNext')
          BY <1>1, <1>2, <3>2, StreamAppend
      <4>2. clientCmd.seg.kind # "SYN"
          BY <3>2 DEF Shaken
      <4>3. Without(Append(up, clientCmd.seg), "SYN")
          BY <1>1, <3>2, <4>2, AppendKeeps
      <4> QED
          BY <2>2, <3>2, <4>1, <4>3
    <3> QED
        BY <2>1, <3>1, <3>2
  <2>5. Stream(down', ClientWants', ServerNext') /\ Without(down', "SYNACK")
    <3>1. ServerNext' = ServerNext /\ ClientWants' = ClientWants
        BY <2>1, <2>2 DEF ServerNext, ClientWants
    <3> QED
        BY <1>1, <1>2, <2>1, <3>1
  <2>6. HandInv'
      BY <2>1, <2>2 DEF HandInv
  <2>7. serverProc'.at = "reply" => serverProc'.seg.kind = "ACK"
      BY <2>2 DEF Shaken
  <2>8. server' # NoTcb
      BY <2>2 DEF Shaken
  <2> QED
      BY <2>1, <2>3, <2>4, <2>5, <2>6, <2>7, <2>8 DEF Shaken, Without
<1>5. CASE ServerMoves
  <2>1. /\ \/ down' = down /\ ServerNext' = ServerNext
           \/ /\ down' = Append(down, serverProc.seg)
              /\ serverProc.seg \in FromServer /\ serverProc.seg.kind \in {"FIN", "ACK"}
              /\ Follows(serverProc.seg, ServerNext, ServerNext')
              /\ ServerNext' \in Opener!SeqNum
        /\ serverProc'.at = "emit" => /\ serverProc'.seg.seq = server'.snd_nxt
                                      /\ serverProc'.seg.src = server'.snd_nxt
                                      /\ serverProc'.seg.kind = "FIN" =>
                                             server'.state \in {"FIN_WAIT_1", "LAST_ACK"}
        /\ serverProc'.at = "reply" => serverProc'.seg.kind = "ACK"
    <3>1. ~ServerTakesSyn
        BY <1>5, ServerTakes
    <3> QED
        BY <1>5, <3>1, ServerKeeps DEF Shaken
  <2>2. UNCHANGED <<client, clientProc, clientCmd>>
      BY <1>5 DEF ServerMoves
  <2>3. server' # NoTcb
      BY <1>5, ServerTypes DEF Shaken
  <2>4. Stream(up', server'.rcv_nxt, ClientNext') /\ Without(up', "SYN")
    <3>1. ClientNext' = ClientNext
        BY <2>2 DEF ClientNext
    <3>2. CASE up' = up /\ server'.rcv_nxt = server.rcv_nxt
        BY <1>1, <1>2, <3>1, <3>2
    <3>3. CASE /\ TakesUp
               /\ \A mid : Follows(Head(up), server.rcv_nxt, mid) => server'.rcv_nxt = mid
      <4>1. up # <<>> /\ up' = Tail(up)
          BY <3>3 DEF TakesUp
      <4>2. PICK mid \in Opener!SeqNum :
                Follows(Head(up), server.rcv_nxt, mid) /\ Stream(Tail(up), mid, ClientNext)
          BY <1>1, <1>2, <4>1, StreamTail
      <4>3. Without(Tail(up), "SYN")
          BY <1>1, <4>1, TailKeeps
      <4> QED
          BY <3>1, <3>3, <4>1, <4>2, <4>3
    <3> QED
        BY <1>5, <3>2, <3>3, ServerTakes
  <2>5. Stream(down', ClientWants', ServerNext') /\ Without(down', "SYNACK")
    <3>1. ClientWants' = ClientWants
        BY <2>2 DEF ClientWants
    <3>2. CASE down' = down /\ ServerNext' = ServerNext
        BY <1>1, <1>2, <3>1, <3>2
    <3>3. CASE /\ down' = Append(down, serverProc.seg)
               /\ serverProc.seg \in FromServer /\ serverProc.seg.kind \in {"FIN", "ACK"}
               /\ Follows(serverProc.seg, ServerNext, ServerNext')
               /\ ServerNext' \in Opener!SeqNum
      <4>1. Stream(Append(down, serverProc.seg), ClientWants, ServerNext')
          BY <1>1, <1>2, <3>3, StreamAppend
      <4>2. Without(Append(down, serverProc.seg), "SYNACK")
          BY <1>1, <3>3, AppendKeeps
      <4> QED
          BY <3>1, <3>3, <4>1, <4>2
    <3> QED
        BY <2>1, <3>2, <3>3
  <2>6. HandInv'
      BY <2>1, <2>2 DEF HandInv
  <2>7. /\ clientCmd'.at # "connect"
        /\ clientCmd'.at = "emit" => clientCmd'.seg.kind # "SYN"
        /\ client' # NoTcb /\ client'.state # "SYN_SENT"
      BY <2>2 DEF Shaken
  <2> QED
      BY <2>1, <2>3, <2>4, <2>5, <2>6, <2>7 DEF Shaken, Without
<1> QED
    BY <1>3, <1>4, <1>5 DEF Moves

-------------------------------------------------------------------------------
\* The handshake, step by step.
LEMMA UnopenedStep ==
    ASSUME Types, Unopened, Moves
    PROVE  HandInv' /\ Opening'
<1>1. ~TakesDown /\ ~TakesUp /\ clientProc.at = "idle" /\ serverProc.at = "idle"
      /\ clientCmd.at = "idle"
    BY DEF Unopened, AllIdle, TakesDown, TakesUp
<1>2. ~ClientProcMoves
    BY <1>1 DEF ClientProcMoves, ClientIgnores, ClientShakes, ClientTakesOver, ClientTakesAck,
                ClientTakesFin, ClientFinishesFin, ClientAcknowledges, ClientReplies
<1>3. ~ServerMoves
    BY <1>1 DEF ServerMoves, ServerIgnores, ServerTakesSyn, ServerTakesAck, ServerTakesFin,
                ServerFinishesFin, ServerSends, ServerLeaves, ServerAcknowledges,
                ServerReplies, ServerCloses, ServerEmits, ServerAdvances
<1>4. ClientConnects /\ UNCHANGED <<server, serverProc>>
    BY <1>1, <1>2, <1>3 DEF Moves, ClientCmdMoves, ClientInits, ClientTypes, ClientLeaves,
                            ClientCloses, ClientEmits, ClientAdvances
<1>5. client' # NoTcb
    BY <1>1, <1>2, <1>3, ClientCmdTypes, NullAssumption DEF Moves
<1>6. client'.valid /\ client'.buf = NoBuf /\ client'.state = "CLOSED"
    BY <1>4 DEF ClientConnects
<1>7. clientCmd'.at = "connect" /\ UNCHANGED <<clientProc, up, down>>
    BY <1>4, PlaceFields DEF ClientConnects
<1> QED
    BY <1>1, <1>4, <1>5, <1>6, <1>7 DEF Unopened, Opening, AllIdle, HandInv

LEMMA OpeningStep ==
    ASSUME Types, HandInv, Opening, Moves
    PROVE  HandInv' /\ (Opening' \/ SynSent')
<1>1. /\ ~TakesDown /\ ~TakesUp /\ clientProc.at = "idle" /\ serverProc.at = "idle"
      /\ clientCmd.at \in {"connect", "emit"}
      /\ client \in Opener!Tcb /\ ClientCmdType
    BY DEF Opening, AllIdle, TakesDown, TakesUp, Types
<1>2. ~ClientProcMoves
    BY <1>1 DEF ClientProcMoves, ClientIgnores, ClientShakes, ClientTakesOver, ClientTakesAck,
                ClientTakesFin, ClientFinishesFin, ClientAcknowledges, ClientReplies
<1>3. ~ServerMoves
    BY <1>1 DEF ServerMoves, ServerIgnores, ServerTakesSyn, ServerTakesAck, ServerTakesFin,
                ServerFinishesFin, ServerSends, ServerLeaves, ServerAcknowledges,
                ServerReplies, ServerCloses, ServerEmits, ServerAdvances
<1>4. (ClientInits \/ ClientEmits) /\ UNCHANGED <<server, serverProc>>
    BY <1>1, <1>2, <1>3 DEF Moves, ClientCmdMoves, ClientConnects, ClientTypes, ClientLeaves,
                            ClientCloses, ClientAdvances
<1>5. client' \in Opener!Tcb
    BY <1>1, <1>2, <1>3, ClientCmdTypes DEF Moves
<1>6. CASE ClientInits
  <2>1. /\ clientCmd'.at = "emit" /\ clientCmd'.seg.kind = "SYN"
        /\ clientCmd'.seg.seq = client'.snd_nxt /\ clientCmd'.seg.src = client'.snd_nxt
        /\ UNCHANGED <<clientProc, up, down>>
    <3>1. /\ clientCmd' = Place("emit", Opener!Header(client', "SYN", 0))
          /\ UNCHANGED <<clientProc, up, down>>
        BY <1>6 DEF ClientInits
    <3>2. 0 \in 0 .. MaxLen
        BY SizeAssumption
    <3> QED
        BY <1>5, <3>1, <3>2, PlaceFields, HeaderFields
  <2>2. client'.state = "SYN_SENT" /\ client'.valid /\ client'.buf = NoBuf
      BY <1>1, <1>6 DEF ClientInits, Opening, Opener!Tcb
  <2> QED
      BY <1>1, <1>4, <1>5, <2>1, <2>2, NullAssumption DEF Opening, AllIdle, HandInv
<1>7. CASE ClientEmits
  <2>1. /\ clientCmd.at = "emit" /\ up' = Append(up, clientCmd.seg)
        /\ clientCmd'.at = "advance" /\ clientCmd'.seg = clientCmd.seg
        /\ UNCHANGED <<client, clientProc, down>>
      BY <1>7, PlaceFields DEF ClientEmits
  <2>2. /\ clientCmd.seg.kind = "SYN" /\ client.state = "SYN_SENT" /\ up = <<>>
        /\ clientCmd.seg.seq = client.snd_nxt
      BY <2>1 DEF Opening, HandInv
  <2>3. Len(up') = 1 /\ up'[1] = clientCmd.seg
      BY <2>1, <2>2
  <2>4. ClientNext' = Opener!Add(up'[1].seq, 1)
      BY <2>1, <2>2, <2>3 DEF ClientNext, Opener!Length
  <2>5. Syn'
      BY <2>1, <2>2 DEF Syn, Opening, AllIdle
  <2>6. SynSent'
      BY <1>4, <2>1, <2>2, <2>3, <2>4, <2>5 DEF SynSent, Opening, AllIdle
  <2>7. HandInv'
      BY <1>1, <1>4, <2>1 DEF HandInv
  <2> QED
      BY <2>6, <2>7
<1> QED
    BY <1>4, <1>6, <1>7

\* Until the SYN is answered the user gets nothing done.
LEMMA SynStays ==
    ASSUME Types, Syn, ClientCmdMoves
    PROVE  /\ Syn' /\ ClientNext' = ClientNext
           /\ clientCmd'.at \in {"advance", "prompt", "idle"}
           /\ UNCHANGED <<up, down, clientProc, clientEnds, server, serverProc, serverEnds>>
<1>1. client \in Opener!Tcb /\ client # NoTcb /\ client.state = "SYN_SENT"
    BY DEF Syn, Types
<1>2. client' # NoTcb
    BY ClientCmdTypes, NullAssumption
<1>3. CASE ClientTypes
    BY <1>1, <1>3 DEF ClientTypes, ClientCmdMoves, Syn, ClientNext
<1>4. CASE ClientLeaves
  <2>1. /\ clientCmd' = Rest /\ clientCmd.at = "prompt"
        /\ UNCHANGED <<client, up, down, clientProc, clientEnds>>
      BY <1>1, <1>4 DEF ClientLeaves
  <2> QED
      BY <2>1, RestFields DEF ClientCmdMoves, Syn, ClientNext
<1>5. CASE ClientAdvances
  <2>1. clientCmd.at = "advance" /\ clientCmd.seg.kind = "SYN"
        /\ UNCHANGED <<up, down, clientProc, clientEnds>>
      BY <1>5 DEF ClientAdvances, Syn
  <2>2. /\ client'.snd_nxt = Opener!Add(client.snd_nxt, Opener!Length(clientCmd.seg))
        /\ client'.valid = client.valid /\ client'.state = client.state
        /\ client'.buf = client.buf
      BY <1>1, <1>5 DEF ClientAdvances, Opener!Tcb
  <2>3. clientCmd'.at = "prompt"
      BY <1>5, <2>1, PlaceFields DEF ClientAdvances
  <2> QED
      BY <1>2, <2>1, <2>2, <2>3 DEF ClientCmdMoves, Syn, ClientNext
<1> QED
    BY <1>1, <1>3, <1>4, <1>5
       DEF ClientCmdMoves, ClientConnects, ClientInits, ClientCloses, ClientEmits, Syn

LEMMA SynSentStep ==
    ASSUME Types, SynSent, Moves
    PROVE  HandInv' /\ (SynSent' \/ SynTaken')
<1>1. /\ ~TakesDown /\ clientProc.at = "idle" /\ serverProc.at = "idle" /\ server = NoTcb
      /\ Len(up) = 1 /\ up[1].kind = "SYN" /\ up \in Seq(FromClient) /\ Head(up) = up[1]
      /\ clientCmd.at \in {"advance", "prompt", "idle"}
    BY DEF SynSent, Syn, TakesDown, Types
<1>2. ~ClientProcMoves
    BY <1>1 DEF ClientProcMoves, ClientIgnores, ClientShakes, ClientTakesOver, ClientTakesAck,
                ClientTakesFin, ClientFinishesFin, ClientAcknowledges, ClientReplies
<1>3. CASE ClientCmdMoves
    BY <1>1, <1>3, SynStays DEF SynSent, HandInv
<1>4. CASE ServerMoves
  <2>1. ServerTakesSyn /\ UNCHANGED <<client, clientProc, clientCmd>>
      BY <1>1, <1>4 DEF ServerMoves, ServerIgnores, ServerTakesAck, ServerTakesFin, Live,
                ServerFinishesFin, ServerSends, ServerLeaves, ServerAcknowledges,
                ServerReplies, ServerCloses, ServerEmits, ServerAdvances
  <2>2. PICK iss \in Iss :
            LET fresh == [valid |-> TRUE, state |-> "SYN_RECV", snd_una |-> iss,
                          snd_nxt |-> iss, snd_wnd |-> Wnd,
                          rcv_nxt |-> Opener!Add(Head(up).seq, 1), buf |-> NoBuf]
            IN  /\ server' = [fresh EXCEPT !.snd_nxt = Opener!Add(fresh.snd_nxt, 1)]
                /\ serverProc' = Place("reply", Opener!Header(fresh, "SYNACK", 0))
      BY <1>1, <2>1 DEF ServerTakesSyn, Live
  <2>3. /\ server'.valid /\ server'.state = "SYN_RECV" /\ server'.buf = NoBuf
        /\ server'.rcv_nxt = Opener!Add(up[1].seq, 1)
        /\ server'.snd_nxt = Opener!Add(iss, 1)
      BY <1>1, <2>2
  <2>4. /\ serverProc'.at = "reply" /\ serverProc'.seg.kind = "SYNACK"
        /\ serverProc'.seg.seq = iss
      BY <2>2, PlaceFields DEF Opener!Header
  <2>5. server' # NoTcb
      BY <1>4, <2>4, ServerTypes
  <2>6. up' = <<>>
      BY <1>1, <2>1 DEF ServerTakesSyn, TakesUp
  <2>7. Syn' /\ ClientNext' = ClientNext /\ down' = <<>>
      BY <2>1 DEF SynSent, Syn, ClientNext, ServerTakesSyn
  <2>8. SynTaken'
      BY <2>3, <2>4, <2>5, <2>6, <2>7 DEF SynSent, SynTaken
  <2>9. HandInv'
      BY <1>1, <2>1, <2>4 DEF HandInv
  <2> QED
      BY <2>8, <2>9
<1> QED
    BY <1>2, <1>3, <1>4 DEF Moves

LEMMA SynTakenStep ==
    ASSUME Types, Types', SynTaken, Moves
    PROVE  /\ HandInv' /\ (SynTaken' \/ Shaken')
           /\ client'.buf = NoBuf /\ server'.buf = NoBuf
<1>1. /\ ~TakesUp /\ clientProc.at = "idle" /\ serverProc.at \in {"idle", "reply"}
      /\ up = <<>> /\ down \in Seq(FromServer)
      /\ clientCmd.at \in {"advance", "prompt", "idle"}
      /\ server \in Opener!Tcb /\ client \in Opener!Tcb
      /\ server # NoTcb /\ client # NoTcb
    BY DEF SynTaken, Syn, TakesUp, Types
<1>2. CASE ClientCmdMoves
    BY <1>1, <1>2, SynStays DEF SynTaken, Syn, HandInv
<1>3. CASE ClientProcMoves
  <2>1. TakesDown /\ UNCHANGED <<server, serverProc>>
      BY <1>1, <1>3 DEF ClientProcMoves, ClientIgnores, ClientShakes, ClientTakesOver,
                ClientTakesAck, ClientTakesFin, ClientFinishesFin, ClientAcknowledges,
                ClientReplies
  <2>2. /\ serverProc.at = "idle" /\ Len(down) = 1 /\ Head(down).kind = "SYNACK"
        /\ Opener!Add(Head(down).seq, 1) = server.snd_nxt
      BY <2>1 DEF SynTaken, TakesDown
  <2>3. ClientShakes
      BY <1>1, <1>3, <2>1, <2>2 DEF ClientProcMoves, ClientIgnores, ClientTakesOver,
                ClientTakesAck, ClientTakesFin, ClientFinishesFin, ClientAcknowledges,
                ClientReplies, SynTaken, Syn, Live
  <2>4. /\ client'.state = "ESTABLISHED" /\ client'.snd_nxt = client.snd_nxt
        /\ client'.buf = NoBuf /\ server'.buf = NoBuf
      BY <1>1, <2>1, <2>3 DEF ClientShakes, SynTaken, Syn, Opener!Tcb
  <2>5. /\ clientProc'.at = "shaking" /\ clientProc'.seg = Head(down)
        /\ clientCmd' = clientCmd /\ up' = up /\ down' = <<>>
    <3>1. down' = Tail(down)
        BY <2>1 DEF TakesDown
    <3>2. Tail(down) = <<>>
      <4>1. down # <<>>
          BY <2>1 DEF TakesDown
      <4>2. Tail(down) \in Seq(FromServer) /\ Len(Tail(down)) = 0
          BY <1>1, <2>2, <4>1, TailType
      <4> QED
          BY <4>2, EmptySeq
    <3> QED
        BY <2>3, <3>1, <3>2, PlaceFields DEF ClientShakes
  <2>6. ClientWants' = server.snd_nxt /\ ServerNext' = server.snd_nxt
      BY <2>1, <2>2, <2>5 DEF ClientWants, ServerNext
  <2>7. ClientNext' = ClientNext /\ ClientNext = server.rcv_nxt
      BY <2>4, <2>5 DEF ClientNext, SynTaken
  <2>8. server.rcv_nxt \in Opener!SeqNum /\ server.snd_nxt \in Opener!SeqNum
      BY <1>1 DEF Opener!Tcb
  <2>9. Stream(up', server'.rcv_nxt, ClientNext') /\ Stream(down', ClientWants', ServerNext')
      BY <1>1, <2>1, <2>5, <2>6, <2>7, <2>8, StreamEmpty
  <2>10. /\ \A i \in 1 .. Len(up') : up'[i].kind # "SYN"
         /\ \A i \in 1 .. Len(down') : down'[i].kind # "SYNACK"
      BY <1>1, <2>5
  <2>11. client' # NoTcb
      BY <1>3, <1>1, ClientProcTypes
  <2> QED
      BY <1>1, <2>1, <2>2, <2>4, <2>5, <2>9, <2>10, <2>11 DEF Shaken, HandInv
<1>4. CASE ServerMoves
  <2>1. ServerReplies /\ UNCHANGED <<client, clientProc, clientCmd>>
      BY <1>1, <1>4 DEF ServerMoves, ServerIgnores, ServerTakesSyn, ServerTakesAck,
                ServerTakesFin, ServerFinishesFin, ServerSends, ServerLeaves,
                ServerAcknowledges, ServerCloses, ServerEmits, ServerAdvances
  <2>2. /\ serverProc.at = "reply" /\ serverProc.seg.kind = "SYNACK" /\ down = <<>>
        /\ Opener!Add(serverProc.seg.seq, 1) = server.snd_nxt
      BY <2>1 DEF ServerReplies, SynTaken
  <2>3. /\ serverProc'.at = "idle" /\ Len(down') = 1 /\ down'[1] = serverProc.seg
        /\ server' = server /\ up' = up
      BY <2>1, <2>2, RestFields DEF ServerReplies
  <2>4. Syn' /\ ClientNext' = ClientNext
      BY <2>1 DEF SynTaken, Syn, ClientNext
  <2> QED
      BY <1>1, <2>1, <2>2, <2>3, <2>4 DEF SynTaken, Syn, HandInv
<1> QED
    BY <1>2, <1>3, <1>4 DEF Moves

LEMMA PhaseStep ==
    ASSUME Types, Types', HandInv, PhaseInv, CloseInv, Moves
    PROVE  /\ HandInv' /\ PhaseInv' /\ (Shaken => Shaken')
           /\ Shaken' => Shaken \/ (client'.buf = NoBuf /\ server'.buf = NoBuf)
<1>1. ~(Shaken /\ (Unopened \/ Opening \/ SynSent \/ SynTaken))
    BY DEF Shaken, Unopened, Opening, SynSent, SynTaken, Syn
<1>2. ~(Shaken' /\ (Opening' \/ SynSent' \/ SynTaken'))
    BY DEF Shaken, Opening, SynSent, SynTaken, Syn
<1> QED
    BY <1>1, <1>2, UnopenedStep, OpeningStep, SynSentStep, SynTakenStep, ShakenStep DEF PhaseInv

-------------------------------------------------------------------------------
\* The closing, step by step.  An end treats its peer as closed only after its FIN.
LEMMA ClientPeer ==
    ASSUME Types, ClientProcMoves \/ ClientCmdMoves,
           client # NoTcb /\ PeerClosed(client, clientProc, clientCmd) => "rcvd" \in clientEnds
    PROVE  /\ client' # NoTcb /\ PeerClosed(client', clientProc', clientCmd')
                  => "rcvd" \in clientEnds'
           /\ clientEnds \subseteq clientEnds'
<1> DEFINE Goal == /\ client' # NoTcb /\ PeerClosed(client', clientProc', clientCmd')
                          => "rcvd" \in clientEnds'
                   /\ clientEnds \subseteq clientEnds'
<1>1. client \in Opener!Tcb \cup {NoTcb}
    BY DEF Types
<1>2. CASE ClientIgnores \/ ClientAcknowledges \/ ClientReplies
    BY <1>2, PlaceFields, RestFields
       DEF ClientIgnores, ClientAcknowledges, ClientReplies, PeerClosed
<1>3. CASE ClientShakes \/ ClientTakesOver
  <2>1. client \in Opener!Tcb /\ client # NoTcb
      BY <1>1, <1>3, NullAssumption DEF ClientShakes, ClientTakesOver, Live, Types, Linked
  <2>2. /\ client'.valid = client.valid
        /\ client'.state \in {client.state, "ESTABLISHED"}
        /\ clientProc'.at \in {"shaking", "reply"}
        /\ UNCHANGED <<clientCmd, clientEnds>>
      BY <1>3, <2>1, PlaceFields DEF ClientShakes, ClientTakesOver, Opener!Tcb
  <2> QED
      BY <2>1, <2>2 DEF PeerClosed
<1>4. CASE ClientTakesAck
  <2> DEFINE n == Opener!Acknowledge(client, Head(down))
  <2>1. client \in Opener!Tcb /\ client # NoTcb
      BY <1>1, <1>4 DEF ClientTakesAck, Live
  <2>2. n \in Opener!Tcb /\ n.state = client.state /\ n.valid = client.valid
      BY <1>4, <2>1, AcknowledgeType, DownType DEF ClientTakesAck
  <2>3. /\ \/ n.state = "LAST_ACK"
           \/ client' = [n EXCEPT !.state = Opener!AfterAck(n.state)]
           \/ client' = [n EXCEPT !.state = Opener!AfterAck(n.state),
                                  !.rcv_nxt = Opener!Add(Head(down).seq, Head(down).len)]
        /\ clientProc' = clientProc \/ clientProc' = Place("app", Opener!Nothing)
        /\ UNCHANGED <<clientCmd, clientEnds>>
      BY <1>4 DEF ClientTakesAck
  <2> HIDE DEF n
  <2>4. \/ client.state = "LAST_ACK"
        \/ client'.valid = client.valid /\ client'.state = Opener!AfterAck(client.state)
      BY <2>2, <2>3 DEF Opener!Tcb
  <2>5. clientProc'.at \in {clientProc.at, "app"}
      BY <2>3, PlaceFields
  <2> QED
      BY <2>1, <2>3, <2>4, <2>5 DEF PeerClosed, Opener!AfterAck
<1>5. CASE ClientTakesFin
    BY <1>5 DEF ClientTakesFin
<1>6. CASE ClientFinishesFin
    BY <1>6 DEF ClientFinishesFin, PeerClosed, Types, Linked
<1>7. CASE ClientConnects
  <2>1. clientProc.at = "idle"
      BY <1>7 DEF ClientConnects, Types, Linked
  <2> QED
      BY <1>7, <2>1, PlaceFields DEF ClientConnects, PeerClosed
<1>8. CASE ClientInits \/ ClientTypes \/ ClientCloses \/ ClientEmits \/ ClientAdvances
  <2>1. client \in Opener!Tcb /\ client # NoTcb
      BY <1>1, <1>8 DEF ClientInits, ClientTypes, ClientCloses, ClientEmits, ClientAdvances,
                        Types, Linked
  <2>2. /\ client'.valid = client.valid
        /\ \/ client'.state \in {client.state, "SYN_SENT", "FIN_WAIT_1"}
           \/ clientCmd.at = "passive_close"
        /\ UNCHANGED clientProc /\ clientEnds \subseteq clientEnds'
    <3>1. CASE ClientInits
        BY <2>1, <3>1 DEF ClientInits, Opener!Tcb
    <3>2. CASE ClientTypes
        BY <2>1, <3>2 DEF ClientTypes, Opener!Tcb
    <3>3. CASE ClientCloses \/ ClientEmits \/ ClientAdvances
        BY <2>1, <3>3 DEF ClientCloses, ClientEmits, ClientAdvances, Opener!Tcb
    <3> QED
        BY <1>8, <3>1, <3>2, <3>3
  <2>3. clientCmd'.at \in {clientCmd.at, "emit", "advance", "idle", "prompt"}
    <3>1. CASE ClientInits
        BY <3>1, PlaceFields DEF ClientInits
    <3>2. CASE ClientTypes
        BY <3>2, PlaceFields DEF ClientTypes
    <3>3. CASE ClientCloses \/ ClientEmits \/ ClientAdvances
        BY <3>3, PlaceFields, RestFields DEF ClientCloses, ClientEmits, ClientAdvances
    <3> QED
        BY <1>8, <3>1, <3>2, <3>3
  <2> QED
      BY <2>1, <2>2, <2>3 DEF PeerClosed
<1>9. CASE ClientLeaves
  <2>1. /\ clientCmd'.at = "passive_close" => client.state = "CLOSE_WAIT"
        /\ UNCHANGED <<client, clientProc, clientEnds>>
      BY <1>9, PlaceFields, RestFields DEF ClientLeaves
  <2> QED
      BY <2>1 DEF PeerClosed
<1> HIDE DEF Goal
<1>10. Goal
    BY <1>2, <1>3, <1>4, <1>5, <1>6, <1>7, <1>8, <1>9
       DEF ClientProcMoves, ClientCmdMoves, Goal
<1> QED
    BY <1>10 DEF Goal

LEMMA ServerPeer ==
    ASSUME Types, ServerMoves,
           server # NoTcb /\ PeerClosed(server, serverProc, serverProc) => "rcvd" \in serverEnds
    PROVE  /\ server' # NoTcb /\ PeerClosed(server', serverProc', serverProc')
                  => "rcvd" \in serverEnds'
           /\ serverEnds \subseteq serverEnds'
<1> DEFINE Goal == /\ server' # NoTcb /\ PeerClosed(server', serverProc', serverProc')
                          => "rcvd" \in serverEnds'
                   /\ serverEnds \subseteq serverEnds'
<1>1. server \in Opener!Tcb \cup {NoTcb}
    BY DEF Types
<1>2. CASE ServerIgnores \/ ServerAcknowledges \/ ServerReplies
    BY <1>2, PlaceFields, RestFields
       DEF ServerIgnores, ServerAcknowledges, ServerReplies, PeerClosed
<1>3. CASE ServerTakesSyn
  <2>1. PICK iss \in Iss :
            LET fresh == [valid |-> TRUE, state |-> "SYN_RECV", snd_una |-> iss,
                          snd_nxt |-> iss, snd_wnd |-> Wnd,
                          rcv_nxt |-> Opener!Add(Head(up).seq, 1), buf |-> NoBuf]
                n == IF Live(server) THEN server ELSE fresh
            IN  /\ server' = [n EXCEPT !.snd_nxt = Opener!Add(n.snd_nxt, 1)]
                /\ serverProc' = Place("reply", Opener!Header(n, "SYNACK", 0))
      BY <1>3 DEF ServerTakesSyn
  <2>2. serverProc'.at = "reply" /\ UNCHANGED serverEnds
      BY <1>3, <2>1, PlaceFields DEF ServerTakesSyn
  <2>3. CASE Live(server)
    <3>1. server'.valid /\ server'.state = server.state
        BY <1>1, <2>1, <2>3 DEF Live, Opener!Tcb
    <3> QED
        BY <2>2, <2>3, <3>1 DEF PeerClosed, Live
  <2>4. CASE ~Live(server)
    <3>1. server'.valid /\ server'.state = "SYN_RECV"
        BY <2>1, <2>4
    <3> QED
        BY <2>2, <3>1 DEF PeerClosed
  <2> QED
      BY <2>3, <2>4
<1>4. CASE ServerTakesAck
  <2> DEFINE n == Opener!Acknowledge(server, Head(up))
  <2>1. server \in Opener!Tcb /\ server # NoTcb
      BY <1>1, <1>4 DEF ServerTakesAck, Live
  <2>2. n \in Opener!Tcb /\ n.state = server.state /\ n.valid = server.valid
      BY <1>4, <2>1, AcknowledgeType, UpType DEF ServerTakesAck
  <2>3. /\ \/ n.state = "LAST_ACK"
           \/ server' = [n EXCEPT !.state = Opener!AfterAck(n.state)]
           \/ server' = [n EXCEPT !.state = Opener!AfterAck(n.state),
                                  !.rcv_nxt = Opener!Add(Head(up).seq, Head(up).len)]
        /\ serverProc' = serverProc \/ serverProc' = Place("app", Opener!Nothing)
        /\ UNCHANGED serverEnds
      BY <1>4 DEF ServerTakesAck
  <2> HIDE DEF n
  <2>4. \/ server.state = "LAST_ACK"
        \/ server'.valid = server.valid /\ server'.state = Opener!AfterAck(server.state)
      BY <2>2, <2>3 DEF Opener!Tcb
  <2>5. serverProc'.at \in {serverProc.at, "app"}
      BY <2>3, PlaceFields
  <2> QED
      BY <2>1, <2>3, <2>4, <2>5 DEF PeerClosed, Opener!AfterAck
<1>5. CASE ServerTakesFin
    BY <1>5 DEF ServerTakesFin
<1>6. CASE ServerFinishesFin
    BY <1>6 DEF ServerFinishesFin, PeerClosed, Types, Linked
<1>7. CASE ServerSends \/ ServerCloses \/ ServerEmits \/ ServerAdvances
  <2>1. server \in Opener!Tcb /\ server # NoTcb
      BY <1>1, <1>7 DEF ServerSends, ServerCloses, ServerEmits, ServerAdvances, Types, Linked
  <2>2. /\ server'.valid = server.valid
        /\ \/ server'.state \in {server.state, "FIN_WAIT_1"}
           \/ serverProc.at = "passive_close"
        /\ serverEnds \subseteq serverEnds'
    <3>1. CASE ServerSends
        BY <2>1, <3>1 DEF ServerSends, Opener!Tcb
    <3>2. CASE ServerCloses \/ ServerEmits \/ ServerAdvances
        BY <2>1, <3>2 DEF ServerCloses, ServerEmits, ServerAdvances, Opener!Tcb
    <3> QED
        BY <1>7, <3>1, <3>2
  <2>3. serverProc'.at \in {serverProc.at, "emit", "advance", "app"}
    <3>1. CASE ServerSends
        BY <3>1, PlaceFields DEF ServerSends
    <3>2. CASE ServerCloses \/ ServerEmits \/ ServerAdvances
        BY <3>2, PlaceFields DEF ServerCloses, ServerEmits, ServerAdvances
    <3> QED
        BY <1>7, <3>1, <3>2
  <2> QED
      BY <2>1, <2>2, <2>3 DEF PeerClosed
<1>8. CASE ServerLeaves
  <2>1. /\ serverProc'.at \in {"active_close", "passive_close", "app"}
        /\ serverProc'.at = "passive_close" => server.state = "CLOSE_WAIT"
        /\ UNCHANGED <<server, serverEnds>>
      BY <1>8, PlaceFields DEF ServerLeaves
  <2> QED
      BY <2>1 DEF PeerClosed
<1> HIDE DEF Goal
<1>9. Goal
    BY <1>2, <1>3, <1>4, <1>5, <1>6, <1>7, <1>8 DEF ServerMoves, Goal
<1> QED
    BY <1>9 DEF Goal

\* No FIN goes out before the handshake is over.
LEMMA FinShaken ==
    ASSUME PhaseInv, HasFin(up) \/ HasFin(down)
    PROVE  Shaken
<1>1. CASE Unopened \/ Opening
    BY <1>1 DEF Unopened, Opening, HasFin
<1>2. CASE SynSent
    BY <1>2 DEF SynSent, HasFin
<1>3. CASE SynTaken
    BY <1>3 DEF SynTaken, HasFin
<1> QED
    BY <1>1, <1>2, <1>3 DEF PhaseInv

\* What the client puts into its channel.
LEMMA ClientCloseSends ==
    ASSUME Types, PhaseInv, CloseInv, ClientProcMoves \/ ClientCmdMoves
    PROVE  /\ "rcvd" \in serverEnds => NoneLeft(up') /\ ClientDone'
           /\ FinLast(up') /\ (HasFin(up') => ClientDone')
<1> DEFINE Goal == /\ "rcvd" \in serverEnds => NoneLeft(up') /\ ClientDone'
                   /\ FinLast(up') /\ (HasFin(up') => ClientDone')
<1>1. /\ up \in Seq(FromClient) /\ ClientProcType /\ ClientCmdType
      /\ "rcvd" \in serverEnds => NoneLeft(up) /\ ClientDone /\ client # NoTcb
      /\ FinLast(up) /\ (HasFin(up) => ClientDone /\ client # NoTcb)
    BY FinShaken DEF Types, CloseInv, Shaken
<1>2. CASE clientCmd' = clientCmd /\ up' = up
    BY <1>1, <1>2 DEF ClientDone
<1>3. CASE ClientReplies /\ clientCmd' = clientCmd
  <2>1. /\ clientProc.seg \in FromClient /\ Empty(clientProc.seg)
        /\ up' = Append(up, clientProc.seg)
      BY <1>1, <1>3 DEF ClientReplies, ClientProcType
  <2>2. clientProc.seg.kind # "FIN"
      BY <2>1 DEF Empty
  <2>3. /\ HasFin(up') => HasFin(up)
        /\ NoneLeft(up) => NoneLeft(up')
        /\ FinLast(up')
      BY <1>1, <2>1, <2>2, AppendKeeps
  <2> QED
      BY <1>1, <1>3, <2>3 DEF ClientDone
<1>4. CASE ClientEmits
  <2>1. /\ clientCmd.at = "emit" /\ up' = Append(up, clientCmd.seg)
        /\ clientCmd'.at = "advance" /\ clientCmd'.seg = clientCmd.seg
      BY <1>4, PlaceFields DEF ClientEmits
  <2>2. clientCmd.seg \in FromClient /\ ~ClientDone
      BY <1>1, <2>1 DEF ClientCmdType, ClientDone
  <2>3. FinLast(up') /\ (HasFin(up') => clientCmd.seg.kind = "FIN")
      BY <1>1, <2>1, <2>2, AppendKeeps
  <2> QED
      BY <1>1, <2>1, <2>2, <2>3 DEF ClientDone
<1>5. CASE ClientCmdMoves /\ ~ClientEmits
  <2>1. up' = up
      BY <1>5 DEF ClientCmdMoves, ClientConnects, ClientInits, ClientTypes, ClientLeaves,
                  ClientCloses, ClientAdvances
  <2>2. ASSUME ClientDone, client # NoTcb
        PROVE  ClientDone'
    <3>1. ClientAdvances /\ clientCmd.seg.kind = "FIN"
        BY <1>5, <2>2 DEF ClientCmdMoves, ClientConnects, ClientInits, ClientTypes,
                          ClientLeaves, ClientCloses, ClientAdvances, ClientDone
    <3>2. clientCmd' = Rest
        BY <3>1 DEF ClientAdvances
    <3> QED
        BY <3>2, RestFields DEF ClientDone
  <2> QED
      BY <1>1, <2>1, <2>2
<1> HIDE DEF Goal
<1>6. ClientProcMoves => (clientCmd' = clientCmd /\ (up' = up \/ ClientReplies))
    BY DEF ClientProcMoves, ClientIgnores, ClientShakes, ClientTakesOver, ClientTakesAck,
           ClientTakesFin, ClientFinishesFin, ClientAcknowledges, ClientReplies
<1>7. Goal
    BY <1>2, <1>3, <1>4, <1>5, <1>6 DEF Goal
<1> QED
    BY <1>7 DEF Goal

\* What the server puts into its channel.
LEMMA ServerDoneStays ==
    ASSUME Types, ServerMoves, server # NoTcb, ~ServerTakesSyn, ServerDone
    PROVE  ServerDone' /\ ~ServerEmits
<1>1. server \in Opener!Tcb
    BY DEF Types
<1>2. ~ServerEmits /\ ~ServerCloses
    BY DEF ServerEmits, ServerCloses, ServerDone
<1>3. CASE ServerIgnores \/ ServerAcknowledges \/ ServerReplies
    BY <1>2, <1>3, PlaceFields, RestFields
       DEF ServerIgnores, ServerAcknowledges, ServerReplies, ServerDone
<1>4. CASE ServerTakesAck
  <2> DEFINE n == Opener!Acknowledge(server, Head(up))
  <2>1. n \in Opener!Tcb /\ n.state = server.state
      BY <1>1, <1>4, AcknowledgeType, UpType DEF ServerTakesAck
  <2>2. /\ \/ server' = [n EXCEPT !.state = "CLOSED", !.valid = FALSE]
           \/ server' = [n EXCEPT !.state = Opener!AfterAck(n.state)]
           \/ server' = [n EXCEPT !.state = Opener!AfterAck(n.state),
                                  !.rcv_nxt = Opener!Add(Head(up).seq, Head(up).len)]
        /\ serverProc' = serverProc \/ serverProc' = Place("app", Opener!Nothing)
      BY <1>4 DEF ServerTakesAck
  <2> HIDE DEF n
  <2>3. server'.state \in {"CLOSED", Opener!AfterAck(server.state)}
      BY <2>1, <2>2 DEF Opener!Tcb
  <2>4. serverProc'.at \in {serverProc.at, "app"}
      BY <2>2, PlaceFields
  <2> QED
      BY <1>2, <2>3, <2>4 DEF ServerDone, Opener!AfterAck
<1>5. CASE ServerTakesFin
  <2>1. server'.state = server.state /\ serverProc'.at = Opener!AtFin(server.state)
      BY <1>1, <1>5, PlaceFields DEF ServerTakesFin, Opener!Tcb
  <2> QED
      BY <1>2, <2>1 DEF ServerDone, Opener!AtFin
<1>6. CASE ServerFinishesFin
  <2>1. /\ server'.state = Opener!AfterFin(serverProc.at, server.state)
        /\ serverProc'.at = "reply"
      BY <1>1, <1>6, PlaceFields DEF ServerFinishesFin, Opener!Tcb
  <2> QED
      BY <1>2, <2>1 DEF ServerDone, Opener!AfterFin
<1>7. CASE ServerSends
    BY <1>2, <1>7 DEF ServerSends, ServerDone
<1>8. CASE ServerLeaves
    BY <1>2, <1>8, PlaceFields DEF ServerLeaves, ServerDone
<1>9. CASE ServerAdvances
    BY <1>1, <1>2, <1>9, PlaceFields DEF ServerAdvances, ServerDone, Opener!Tcb
<1> QED
    BY <1>2, <1>3, <1>4, <1>5, <1>6, <1>7, <1>8, <1>9 DEF ServerMoves

LEMMA ServerCloseSends ==
    ASSUME Types, HandInv, PhaseInv, CloseInv, ServerMoves
    PROVE  /\ "rcvd" \in clientEnds => NoneLeft(down') /\ ServerDone'
           /\ FinLast(down') /\ (HasFin(down') => ServerDone')
<1> DEFINE Goal == /\ "rcvd" \in clientEnds => NoneLeft(down') /\ ServerDone'
                   /\ FinLast(down') /\ (HasFin(down') => ServerDone')
<1>1. /\ down \in Seq(FromServer) /\ ServerProcType
      /\ "rcvd" \in clientEnds => NoneLeft(down) /\ ServerDone /\ Shaken
      /\ FinLast(down) /\ (HasFin(down) => ServerDone /\ Shaken)
    BY FinShaken DEF Types, CloseInv
<1>2. Shaken /\ ServerDone => ServerDone' /\ ~ServerEmits
    BY ServerTakes, ServerDoneStays DEF Shaken
<1>3. CASE down' = down
    BY <1>1, <1>2, <1>3
<1>4. CASE ServerReplies
  <2>1. /\ serverProc.seg \in FromServer /\ down' = Append(down, serverProc.seg)
        /\ serverProc.at = "reply"
      BY <1>1, <1>4 DEF ServerReplies, ServerProcType
  <2>2. serverProc.seg.kind # "FIN" /\ (Shaken => Empty(serverProc.seg))
      BY <1>1, <2>1 DEF ServerProcType, Empty, Shaken
  <2>3. /\ HasFin(down') => HasFin(down)
        /\ NoneLeft(down) /\ Empty(serverProc.seg) => NoneLeft(down')
        /\ FinLast(down')
      BY <1>1, <2>1, <2>2, AppendKeeps
  <2> QED
      BY <1>1, <1>2, <2>2, <2>3
<1>5. CASE ServerEmits
  <2>1. /\ serverProc.seg \in FromServer /\ down' = Append(down, serverProc.seg)
        /\ serverProc.at = "emit" /\ serverProc'.at = "advance" /\ server' = server
      BY <1>1, <1>5, PlaceFields DEF ServerEmits, ServerProcType
  <2>2. ~ServerDone
      BY <2>1 DEF ServerDone
  <2>3. FinLast(down') /\ (HasFin(down') => serverProc.seg.kind = "FIN")
      BY <1>1, <2>1, <2>2, AppendKeeps
  <2>4. serverProc.seg.kind = "FIN" => ServerDone'
      BY <2>1 DEF ServerDone, HandInv
  <2> QED
      BY <1>1, <2>2, <2>3, <2>4
<1> HIDE DEF Goal
<1>6. down' = down \/ ServerReplies \/ ServerEmits
    BY DEF ServerMoves, ServerIgnores, ServerTakesSyn, ServerTakesAck, ServerTakesFin,
           ServerFinishesFin, ServerSends, ServerLeaves, ServerAcknowledges, ServerCloses,
           ServerAdvances
<1>7. Goal
    BY <1>3, <1>4, <1>5, <1>6 DEF Goal
<1> QED
    BY <1>7 DEF Goal

\* What each end takes out of the other's.
LEMMA ClientCloseTakes ==
    ASSUME Types, PhaseInv, CloseInv, ClientProcMoves \/ ClientCmdMoves
    PROVE  /\ "rcvd" \in clientEnds' => Shaken /\ NoneLeft(down') /\ ServerDone
           /\ FinLast(down') /\ (HasFin(down') => ServerDone)
<1> DEFINE Goal == /\ "rcvd" \in clientEnds' => Shaken /\ NoneLeft(down') /\ ServerDone
                   /\ FinLast(down') /\ (HasFin(down') => ServerDone)
<1>1. /\ down \in Seq(FromServer)
      /\ "rcvd" \in clientEnds => NoneLeft(down) /\ ServerDone /\ Shaken
      /\ FinLast(down) /\ (HasFin(down) => ServerDone /\ Shaken)
    BY FinShaken DEF Types, CloseInv
<1>2. CASE down' = down /\ clientEnds' \subseteq clientEnds \cup {"sent"}
    BY <1>1, <1>2
<1>3. CASE TakesDown /\ (clientEnds' = clientEnds \/ Head(down).kind = "FIN")
  <2>1. down # <<>> /\ down' = Tail(down)
      BY <1>3 DEF TakesDown
  <2>2. /\ HasFin(down') => HasFin(down)
        /\ Head(down).kind = "FIN" => HasFin(down)
        /\ NoneLeft(down) => NoneLeft(down')
        /\ FinLast(down')
        /\ Head(down).kind = "FIN" => NoneLeft(down')
      BY <1>1, <2>1, TailKeeps
  <2> QED
      BY <1>1, <1>3, <2>2
<1> HIDE DEF Goal
<1>4. \/ down' = down /\ clientEnds' \subseteq clientEnds \cup {"sent"}
      \/ TakesDown /\ (clientEnds' = clientEnds \/ Head(down).kind = "FIN")
    BY DEF ClientProcMoves, ClientIgnores, ClientShakes, ClientTakesOver, ClientTakesAck,
           ClientTakesFin, ClientFinishesFin, ClientAcknowledges, ClientReplies,
           ClientCmdMoves, ClientConnects, ClientInits, ClientTypes, ClientLeaves,
           ClientCloses, ClientEmits, ClientAdvances
<1>5. Goal
    BY <1>2, <1>3, <1>4 DEF Goal
<1> QED
    BY <1>5 DEF Goal

LEMMA ServerCloseTakes ==
    ASSUME Types, PhaseInv, CloseInv, ServerMoves
    PROVE  /\ "rcvd" \in serverEnds' => Shaken /\ NoneLeft(up') /\ ClientDone
           /\ FinLast(up') /\ (HasFin(up') => ClientDone)
<1> DEFINE Goal == /\ "rcvd" \in serverEnds' => Shaken /\ NoneLeft(up') /\ ClientDone
                   /\ FinLast(up') /\ (HasFin(up') => ClientDone)
<1>1. /\ up \in Seq(FromClient)
      /\ "rcvd" \in serverEnds => NoneLeft(up) /\ ClientDone /\ Shaken
      /\ FinLast(up) /\ (HasFin(up) => ClientDone /\ Shaken)
    BY FinShaken DEF Types, CloseInv
<1>2. CASE up' = up /\ serverEnds' \subseteq serverEnds \cup {"sent"}
    BY <1>1, <1>2
<1>3. CASE TakesUp /\ (serverEnds' = serverEnds \/ Head(up).kind = "FIN")
  <2>1. up # <<>> /\ up' = Tail(up)
      BY <1>3 DEF TakesUp
  <2>2. /\ HasFin(up') => HasFin(up)
        /\ Head(up).kind = "FIN" => HasFin(up)
        /\ NoneLeft(up) => NoneLeft(up')
        /\ FinLast(up')
        /\ Head(up).kind = "FIN" => NoneLeft(up')
      BY <1>1, <2>1, TailKeeps
  <2> QED
      BY <1>1, <1>3, <2>2
<1> HIDE DEF Goal
<1>4. \/ up' = up /\ serverEnds' \subseteq serverEnds \cup {"sent"}
      \/ TakesUp /\ (serverEnds' = serverEnds \/ Head(up).kind = "FIN")
    BY DEF ServerMoves, ServerIgnores, ServerTakesSyn, ServerTakesAck, ServerTakesFin,
           ServerFinishesFin, ServerSends, ServerLeaves, ServerAcknowledges,
           ServerReplies, ServerCloses, ServerEmits, ServerAdvances
<1>5. Goal
    BY <1>2, <1>3, <1>4 DEF Goal
<1> QED
    BY <1>5 DEF Goal

LEMMA CloseStep ==
    ASSUME Types, Types', HandInv, PhaseInv, CloseInv, Moves
    PROVE  CloseInv'
<1>1. Shaken => Shaken'
    BY PhaseStep
<1>2. CASE ClientProcMoves \/ ClientCmdMoves
  <2>1. UNCHANGED <<server, serverProc, serverEnds>>
      BY <1>2 DEF ClientProcMoves, ClientCmdMoves
  <2>2. ServerDone' <=> ServerDone
      BY <2>1 DEF ServerDone
  <2>3. /\ client' # NoTcb /\ PeerClosed(client', clientProc', clientCmd')
               => "rcvd" \in clientEnds'
        /\ server' # NoTcb /\ PeerClosed(server', serverProc', serverProc')
               => "rcvd" \in serverEnds'
      BY <1>2, <2>1, ClientPeer DEF CloseInv
  <2>4. "rcvd" \in clientEnds' \cup serverEnds' => Shaken'
      BY <1>1, <1>2, <2>1, ClientCloseTakes DEF CloseInv
  <2>5. /\ "rcvd" \in serverEnds => NoneLeft(up') /\ ClientDone'
        /\ FinLast(up') /\ (HasFin(up') => ClientDone')
      BY <1>2, ClientCloseSends
  <2>6. /\ "rcvd" \in clientEnds' => NoneLeft(down') /\ ServerDone
        /\ FinLast(down') /\ (HasFin(down') => ServerDone)
      BY <1>2, ClientCloseTakes
  <2> QED
      BY <2>1, <2>2, <2>3, <2>4, <2>5, <2>6 DEF CloseInv
<1>3. CASE ServerMoves
  <2>1. UNCHANGED <<client, clientProc, clientCmd, clientEnds>>
      BY <1>3 DEF ServerMoves
  <2>2. ClientDone' <=> ClientDone
      BY <2>1 DEF ClientDone
  <2>3. /\ client' # NoTcb /\ PeerClosed(client', clientProc', clientCmd')
               => "rcvd" \in clientEnds'
        /\ server' # NoTcb /\ PeerClosed(server', serverProc', serverProc')
               => "rcvd" \in serverEnds'
      BY <1>3, <2>1, ServerPeer DEF CloseInv
  <2>4. "rcvd" \in clientEnds' \cup serverEnds' => Shaken'
      BY <1>1, <1>3, <2>1, ServerCloseTakes DEF CloseInv
  <2>5. /\ "rcvd" \in clientEnds => NoneLeft(down') /\ ServerDone'
        /\ FinLast(down') /\ (HasFin(down') => ServerDone')
      BY <1>3, ServerCloseSends
  <2>6. /\ "rcvd" \in serverEnds' => NoneLeft(up') /\ ClientDone
        /\ FinLast(up') /\ (HasFin(up') => ClientDone)
      BY <1>3, ServerCloseTakes
  <2> QED
      BY <2>1, <2>2, <2>3, <2>4, <2>5, <2>6 DEF CloseInv
<1> QED
    BY <1>2, <1>3 DEF Moves

-------------------------------------------------------------------------------
\* The kept payloads, step by step.  What the sender does to its own.
LEMMA ClientCmdMinds ==
    ASSUME Types, Shaken, ClientCmdMoves,
           Minded(client, clientCmd, up, serverProc, server, down)
    PROVE  Minded(client, clientCmd, up, serverProc, server, down)'
<1>1. /\ client \in Opener!Tcb /\ client # NoTcb /\ ClientCmdType
      /\ up \in Seq(FromClient) /\ clientCmd.at # "connect"
      /\ UNCHANGED <<server, serverProc>>
    BY DEF Types, Shaken, ClientCmdMoves
<1>2. CASE ClientTypes
  <2>1. CASE UNCHANGED <<client, clientCmd>>
      BY <1>1, <1>2, <2>1 DEF ClientTypes, Minded
  <2>2. CASE ~(UNCHANGED <<client, clientCmd>>)
    <3>1. PICK len \in Typed :
              /\ client' = [client EXCEPT !.buf = [seq |-> client.snd_nxt, len |-> len]]
              /\ clientCmd' = Place("emit", Opener!Header(client, "ACK", len))
        BY <1>2, <2>2 DEF ClientTypes
    <3>2. client'.buf = [seq |-> client.snd_nxt, len |-> len]
        BY <1>1, <3>1 DEF Opener!Tcb
    <3>3. Holds(clientCmd', client'.buf)
        BY <3>1, <3>2, PlaceFields DEF Holds, Opener!Header
    <3> QED
        BY <3>3 DEF Minded
  <2> QED
      BY <2>1, <2>2
<1>3. CASE ClientLeaves \/ ClientCloses \/ ClientAdvances
  <2>1. /\ client'.valid = client.valid /\ client'.buf = client.buf
        /\ UNCHANGED <<up, down>> /\ clientCmd.at # "emit"
      BY <1>1, <1>3 DEF ClientLeaves, ClientCloses, ClientAdvances, Opener!Tcb
  <2>2. ~Holds(clientCmd, client.buf)
      BY <2>1 DEF Holds
  <2> QED
      BY <1>1, <2>1, <2>2 DEF Minded
<1>4. CASE ClientEmits
  <2>1. /\ clientCmd.at = "emit" /\ up' = Append(up, clientCmd.seg)
        /\ UNCHANGED <<client, down>>
      BY <1>4 DEF ClientEmits
  <2>2. clientCmd.seg \in FromClient
      BY <1>1, <2>1 DEF ClientCmdType
  <2>3. /\ Holds(clientCmd, client.buf) => Carries(up', client.buf)
        /\ Carries(up, client.buf) => Carries(up', client.buf)
      BY <1>1, <2>1, <2>2, AppendKeeps DEF Holds
  <2> QED
      BY <1>1, <2>1, <2>3 DEF Minded
<1> QED
    BY <1>1, <1>2, <1>3, <1>4 DEF ClientCmdMoves, ClientConnects, ClientInits

LEMMA AckReleases ==
    ASSUME NEW n \in Opener!Tcb, NEW seg \in Opener!Segment, n.buf # NoBuf
    PROVE  /\ seg.ack = End(n.buf) => Opener!Acknowledge(n, seg).buf = NoBuf
           /\ Opener!Acknowledge(n, seg).buf \in {n.buf, NoBuf}
<1>1. seg.ack \in Nat
    BY DEF Opener!Segment, Opener!SeqNum
<1>2. Opener!Acknowledge(n, seg).buf =
          IF n.buf # NoBuf /\ seg.ack >= Opener!Add(n.buf.seq, n.buf.len)
          THEN NoBuf ELSE n.buf
    BY AcknowledgeType
<1> QED
    BY <1>1, <1>2 DEF End

LEMMA ClientProcMinds ==
    ASSUME Types, Shaken, CloseInv, ClientProcMoves,
           Minded(client, clientCmd, up, serverProc, server, down)
    PROVE  Minded(client, clientCmd, up, serverProc, server, down)'
<1>1. /\ client \in Opener!Tcb /\ client # NoTcb /\ ClientProcType
      /\ up \in Seq(FromClient) /\ down \in Seq(FromServer)
      /\ UNCHANGED <<server, serverProc>>
    BY DEF Types, Shaken, ClientProcMoves
<1>2. CASE ClientIgnores
    BY <1>1, <1>2 DEF ClientIgnores, Live, Minded
<1>3. CASE ClientTakesAck
  <2> DEFINE n == Opener!Acknowledge(client, Head(down))
  <2>1. /\ down # <<>> /\ down' = Tail(down) /\ TakesDown
        /\ UNCHANGED <<clientCmd, up>>
      BY <1>3 DEF ClientTakesAck, TakesDown
  <2>2. Head(down) \in Opener!Segment
      BY <2>1, DownType
  <2>3. n \in Opener!Tcb /\ n.valid = client.valid /\ (client.buf = NoBuf => n.buf = NoBuf)
      BY <1>1, <2>2, AcknowledgeType
  <2>4. \/ client' = [n EXCEPT !.state = "CLOSED", !.valid = FALSE]
        \/ client' = [n EXCEPT !.state = Opener!AfterAck(n.state)]
        \/ client' = [n EXCEPT !.state = Opener!AfterAck(n.state),
                               !.rcv_nxt = Opener!Add(Head(down).seq, Head(down).len)]
      BY <1>3 DEF ClientTakesAck
  <2>5. client.buf # NoBuf => /\ Head(down).ack = End(client.buf) => n.buf = NoBuf
                              /\ n.buf \in {client.buf, NoBuf}
      BY <1>1, <2>2, AckReleases
  <2> HIDE DEF n
  <2>6. client'.buf = n.buf /\ (client'.valid => client.valid)
      BY <2>3, <2>4 DEF Opener!Tcb
  <2>7. \/ ~Acks(down, client.buf) \/ Acks(down', client.buf)
        \/ Head(down).ack = End(client.buf)
      BY <1>1, <2>1, TailKeeps
  <2> QED
      BY <1>1, <2>1, <2>3, <2>5, <2>6, <2>7 DEF Minded
<1>4. CASE ClientTakesFin
  <2>1. /\ down # <<>> /\ down' = Tail(down) /\ Head(down).kind = "FIN"
        /\ UNCHANGED <<clientCmd, up>>
      BY <1>4 DEF ClientTakesFin, TakesDown
  <2>2. client'.buf = client.buf /\ client'.valid = client.valid
      BY <1>1, <1>4 DEF ClientTakesFin, Opener!Tcb
  <2>3. Acks(down, client.buf) => Acks(down', client.buf)
      BY <1>1, <2>1, TailKeeps
  <2> QED
      BY <1>1, <2>1, <2>2, <2>3 DEF Minded
<1>5. CASE ClientTakesOver \/ ClientFinishesFin \/ ClientAcknowledges
  <2>1. /\ client'.buf = client.buf /\ client'.valid = client.valid
        /\ UNCHANGED <<clientCmd, up, down>>
      BY <1>1, <1>5 DEF ClientTakesOver, ClientFinishesFin, ClientAcknowledges, Opener!Tcb
  <2> QED
      BY <1>1, <2>1 DEF Minded
<1>6. CASE ClientReplies
  <2>1. /\ up' = Append(up, clientProc.seg) /\ clientProc.seg \in FromClient
        /\ UNCHANGED <<client, clientCmd, down>>
      BY <1>1, <1>6 DEF ClientReplies, ClientProcType
  <2>2. Carries(up, client.buf) => Carries(up', client.buf)
      BY <1>1, <2>1, AppendKeeps
  <2> QED
      BY <1>1, <2>1, <2>2 DEF Minded
<1> QED
    BY <1>2, <1>3, <1>4, <1>5, <1>6, ClientTakes DEF ClientProcMoves

\* What the receiver does with the other's.
LEMMA ServerAnswers ==
    ASSUME Types, Shaken, CloseInv, ServerMoves,
           Minded(client, clientCmd, up, serverProc, server, down)
    PROVE  Minded(client, clientCmd, up, serverProc, server, down)'
<1>1. SUFFICES ASSUME client.valid, client.buf # NoBuf, NEW buf, buf = client.buf
               PROVE  \/ Holds(clientCmd, buf) \/ Carries(up', buf)
                      \/ Answers(serverProc', server', buf) \/ Acks(down', buf)
    BY DEF Minded, ServerMoves
<1>2. /\ server \in Opener!Tcb /\ server # NoTcb /\ ServerProcType
      /\ client \in Opener!Tcb /\ client # NoTcb
      /\ up \in Seq(FromClient) /\ down \in Seq(FromServer)
    BY DEF Types, Shaken
<1> DEFINE Goal == \/ Holds(clientCmd, buf) \/ Carries(up', buf)
                   \/ Answers(serverProc', server', buf) \/ Acks(down', buf)
<1>3. buf \in [seq : Opener!SeqNum, len : 1 .. MaxLen]
    BY <1>1, <1>2 DEF Opener!Tcb
<1>4. \/ Holds(clientCmd, buf) \/ Carries(up, buf)
      \/ Answers(serverProc, server, buf) \/ Acks(down, buf)
    BY <1>1, <1>2 DEF Minded
<1>5. CASE ServerIgnores \/ ServerTakesAck \/ ServerTakesFin
  <2>1. /\ TakesUp /\ down' = down /\ serverProc.at = "idle"
        /\ up # <<>> /\ up' = Tail(up)
      BY <1>5 DEF ServerIgnores, ServerTakesAck, ServerTakesFin, TakesUp
  <2>2. ~Answers(serverProc, server, buf)
      BY <2>1 DEF Answers
  <2>3. \/ ~Carries(up, buf) \/ Carries(up', buf)
        \/ Head(up).kind = "ACK" /\ Head(up).seq = buf.seq /\ Head(up).len = buf.len
      BY <1>2, <2>1, TailKeeps
  <2>4. ASSUME Head(up).kind = "ACK", Head(up).seq = buf.seq, Head(up).len = buf.len
        PROVE  Answers(serverProc', server', buf)
    <3> DEFINE n == Opener!Acknowledge(server, Head(up))
    <3>1. Head(up).len > 0 /\ Consumes(Head(up))
        BY <1>3, <2>4, SizeAssumption DEF Consumes, Empty
    <3>2. ~NoneLeft(up)
        BY <1>2, <2>1, <3>1, HeadOfNone DEF Consumes
    <3>3. server.valid /\ server.state # "LAST_ACK"
        BY <1>2, <3>2 DEF CloseInv, PeerClosed
    <3>4. ServerTakesAck
        BY <1>2, <1>5, <2>4, <3>3 DEF ServerIgnores, ServerTakesFin, Live
    <3>5. n \in Opener!Tcb /\ n.state = server.state
        BY <1>2, <2>1, AcknowledgeType, UpType
    <3>6. /\ server' = [n EXCEPT !.state = Opener!AfterAck(n.state),
                                 !.rcv_nxt = Opener!Add(Head(up).seq, Head(up).len)]
          /\ serverProc' = Place("app", Opener!Nothing)
        BY <3>1, <3>3, <3>4, <3>5 DEF ServerTakesAck
    <3> HIDE DEF n
    <3>7. server'.rcv_nxt = End(buf)
        BY <2>4, <3>5, <3>6 DEF End, Opener!Tcb
    <3>8. serverProc'.at = "app"
        BY <3>6, PlaceFields
    <3> QED
        BY <3>7, <3>8 DEF Answers
  <2> QED
      BY <1>4, <2>1, <2>2, <2>3, <2>4
<1>6. CASE ServerFinishesFin
  <2>1. ~Answers(serverProc, server, buf) /\ UNCHANGED <<up, down>>
      BY <1>6 DEF ServerFinishesFin, Answers
  <2> QED
      BY <1>4, <2>1
<1>7. CASE ServerSends \/ ServerLeaves \/ ServerCloses \/ ServerAdvances
  <2>1. UNCHANGED <<up, down>> /\ server'.rcv_nxt = server.rcv_nxt
        /\ serverProc.at # "reply"
    <3>1. CASE ServerSends
        BY <1>2, <3>1 DEF ServerSends, Opener!Tcb
    <3>2. CASE ServerLeaves \/ ServerCloses \/ ServerAdvances
        BY <1>2, <3>2 DEF ServerLeaves, ServerCloses, ServerAdvances, Opener!Tcb
    <3> QED
        BY <1>7, <3>1, <3>2
  <2>2. serverProc'.at \in {"app", "emit", "active_close", "passive_close"}
    <3>1. CASE ServerSends
        BY <3>1, PlaceFields DEF ServerSends
    <3>2. CASE ServerLeaves \/ ServerCloses \/ ServerAdvances
        BY <3>2, PlaceFields DEF ServerLeaves, ServerCloses, ServerAdvances
    <3> QED
        BY <1>7, <3>1, <3>2
  <2> QED
      BY <1>4, <2>1, <2>2 DEF Answers
<1>8. CASE ServerEmits
  <2>1. /\ serverProc.at = "emit" /\ serverProc'.at = "advance"
        /\ down' = Append(down, serverProc.seg) /\ UNCHANGED <<up, server>>
      BY <1>8, PlaceFields DEF ServerEmits
  <2>2. serverProc.seg \in FromServer
      BY <1>2, <2>1 DEF ServerProcType
  <2>3. Acks(down, buf) => Acks(down', buf)
      BY <1>2, <2>1, <2>2, AppendKeeps
  <2> QED
      BY <1>4, <2>1, <2>3 DEF Answers
<1>9. CASE ServerAcknowledges
  <2>1. /\ serverProc.at = "app" /\ UNCHANGED <<up, down>>
        /\ serverProc'.at = "reply" /\ serverProc'.seg.kind = "ACK"
        /\ serverProc'.seg.ack = server.rcv_nxt
      BY <1>2, <1>9, PlaceFields, HeaderFields, SizeAssumption DEF ServerAcknowledges
  <2> QED
      BY <1>4, <2>1 DEF Answers
<1>10. CASE ServerReplies
  <2>1. /\ serverProc.at = "reply" /\ down' = Append(down, serverProc.seg)
        /\ up' = up
      BY <1>10 DEF ServerReplies
  <2>2. serverProc.seg \in FromServer
      BY <1>2, <2>1 DEF ServerProcType
  <2>3. /\ Acks(down, buf) => Acks(down', buf)
        /\ serverProc.seg.kind = "ACK" /\ serverProc.seg.ack = End(buf) => Acks(down', buf)
      BY <1>2, <2>1, <2>2, AppendKeeps
  <2> QED
      BY <1>4, <2>1, <2>3 DEF Answers
<1> HIDE DEF Goal
<1>11. Goal
    BY <1>5, <1>6, <1>7, <1>8, <1>9, <1>10, ServerTakes DEF ServerMoves, Goal
<1> QED
    BY <1>11 DEF Goal

LEMMA ServerMinds ==
    ASSUME Types, Shaken, CloseInv, ServerMoves,
           Minded(server, serverProc, down, clientProc, client, up)
    PROVE  Minded(server, serverProc, down, clientProc, client, up)'
<1>1. /\ server \in Opener!Tcb /\ server # NoTcb /\ ServerProcType
      /\ up \in Seq(FromClient) /\ down \in Seq(FromServer)
      /\ UNCHANGED <<client, clientProc>>
    BY DEF Types, Shaken, ServerMoves
<1>2. CASE ServerIgnores
    BY <1>1, <1>2 DEF ServerIgnores, Live, Minded
<1>3. CASE ServerTakesAck
  <2> DEFINE n == Opener!Acknowledge(server, Head(up))
  <2>1. /\ up # <<>> /\ up' = Tail(up) /\ TakesUp /\ serverProc.at = "idle" /\ down' = down
      BY <1>3 DEF ServerTakesAck, TakesUp
  <2>2. Head(up) \in Opener!Segment
      BY <2>1, UpType
  <2>3. n \in Opener!Tcb /\ n.valid = server.valid /\ (server.buf = NoBuf => n.buf = NoBuf)
      BY <1>1, <2>2, AcknowledgeType
  <2>4. \/ server' = [n EXCEPT !.state = "CLOSED", !.valid = FALSE]
        \/ server' = [n EXCEPT !.state = Opener!AfterAck(n.state)]
        \/ server' = [n EXCEPT !.state = Opener!AfterAck(n.state),
                               !.rcv_nxt = Opener!Add(Head(up).seq, Head(up).len)]
      BY <1>3 DEF ServerTakesAck
  <2>5. server.buf # NoBuf => /\ Head(up).ack = End(server.buf) => n.buf = NoBuf
                              /\ n.buf \in {server.buf, NoBuf}
      BY <1>1, <2>2, AckReleases
  <2> HIDE DEF n
  <2>6. server'.buf = n.buf /\ (server'.valid => server.valid)
      BY <2>3, <2>4 DEF Opener!Tcb
  <2>7. \/ ~Acks(up, server.buf) \/ Acks(up', server.buf)
        \/ Head(up).ack = End(server.buf)
      BY <1>1, <2>1, TailKeeps
  <2>8. ~Holds(serverProc, server.buf)
      BY <2>1 DEF Holds
  <2> QED
      BY <1>1, <2>1, <2>3, <2>5, <2>6, <2>7, <2>8 DEF Minded
<1>4. CASE ServerTakesFin
  <2>1. /\ up # <<>> /\ up' = Tail(up) /\ Head(up).kind = "FIN"
        /\ serverProc.at = "idle" /\ down' = down
      BY <1>4 DEF ServerTakesFin, TakesUp
  <2>2. server'.buf = server.buf /\ server'.valid = server.valid
      BY <1>1, <1>4 DEF ServerTakesFin, Opener!Tcb
  <2>3. Acks(up, server.buf) => Acks(up', server.buf)
      BY <1>1, <2>1, TailKeeps
  <2>4. ~Holds(serverProc, server.buf)
      BY <2>1 DEF Holds
  <2> QED
      BY <1>1, <2>1, <2>2, <2>3, <2>4 DEF Minded
<1>5. CASE ServerSends
  <2>1. CASE UNCHANGED <<server, serverProc>>
      BY <1>1, <1>5, <2>1 DEF ServerSends, Minded
  <2>2. CASE ~(UNCHANGED <<server, serverProc>>)
    <3> DEFINE len == Head(serverCalls)
    <3>1. /\ server' = [server EXCEPT !.buf = [seq |-> server.snd_nxt, len |-> len]]
          /\ serverProc' = Place("emit", Opener!Header(server, "ACK", len))
        BY <1>5, <2>2 DEF ServerSends
    <3>2. server'.buf = [seq |-> server.snd_nxt, len |-> len]
        BY <1>1, <3>1 DEF Opener!Tcb
    <3>3. Holds(serverProc', server'.buf)
        BY <3>1, <3>2, PlaceFields DEF Holds, Opener!Header
    <3> QED
        BY <3>3 DEF Minded
  <2> QED
      BY <2>1, <2>2
<1>6. CASE \/ ServerFinishesFin \/ ServerLeaves \/ ServerAcknowledges
           \/ ServerCloses \/ ServerAdvances
  <2>1. /\ server'.valid = server.valid /\ server'.buf = server.buf
        /\ UNCHANGED <<up, down>> /\ serverProc.at # "emit"
      BY <1>1, <1>6 DEF ServerFinishesFin, ServerLeaves, ServerAcknowledges, ServerCloses,
                        ServerAdvances, Opener!Tcb
  <2>2. ~Holds(serverProc, server.buf)
      BY <2>1 DEF Holds
  <2> QED
      BY <1>1, <2>1, <2>2 DEF Minded
<1>7. CASE ServerReplies \/ ServerEmits
  <2>1. /\ down' = Append(down, serverProc.seg) /\ serverProc.seg \in FromServer
        /\ UNCHANGED <<up, server>>
      BY <1>1, <1>7 DEF ServerReplies, ServerEmits, ServerProcType
  <2>2. /\ Carries(down, server.buf) => Carries(down', server.buf)
        /\ Holds(serverProc, server.buf) => Carries(down', server.buf)
      BY <1>1, <2>1, AppendKeeps DEF Holds
  <2> QED
      BY <1>1, <2>1, <2>2 DEF Minded
<1> QED
    BY <1>2, <1>3, <1>4, <1>5, <1>6, <1>7, ServerTakes DEF ServerMoves

LEMMA ClientAnswers ==
    ASSUME Types, HandInv, Shaken, CloseInv, ClientProcMoves \/ ClientCmdMoves,
           Minded(server, serverProc, down, clientProc, client, up)
    PROVE  Minded(server, serverProc, down, clientProc, client, up)'
<1>0. UNCHANGED <<server, serverProc>>
    BY DEF ClientProcMoves, ClientCmdMoves
<1>1. SUFFICES ASSUME server.valid, server.buf # NoBuf, NEW buf, buf = server.buf
               PROVE  \/ Holds(serverProc, buf) \/ Carries(down', buf)
                      \/ Answers(clientProc', client', buf) \/ Acks(up', buf)
    BY <1>0 DEF Minded
<1>2. /\ server \in Opener!Tcb /\ server # NoTcb /\ ClientProcType
      /\ client \in Opener!Tcb /\ client # NoTcb
      /\ up \in Seq(FromClient) /\ down \in Seq(FromServer)
    BY DEF Types, Shaken
<1> DEFINE Goal == \/ Holds(serverProc, buf) \/ Carries(down', buf)
                   \/ Answers(clientProc', client', buf) \/ Acks(up', buf)
<1>3. buf \in [seq : Opener!SeqNum, len : 1 .. MaxLen]
    BY <1>1, <1>2 DEF Opener!Tcb
<1>4. \/ Holds(serverProc, buf) \/ Carries(down, buf)
      \/ Answers(clientProc, client, buf) \/ Acks(up, buf)
    BY <1>1, <1>2 DEF Minded
<1>5. CASE ClientIgnores \/ ClientTakesAck \/ ClientTakesFin
  <2>1. /\ TakesDown /\ up' = up /\ clientProc.at = "idle"
        /\ down # <<>> /\ down' = Tail(down)
      BY <1>5 DEF ClientIgnores, ClientTakesAck, ClientTakesFin, TakesDown
  <2>2. ~Answers(clientProc, client, buf)
      BY <2>1 DEF Answers
  <2>3. \/ ~Carries(down, buf) \/ Carries(down', buf)
        \/ Head(down).kind = "ACK" /\ Head(down).seq = buf.seq /\ Head(down).len = buf.len
      BY <1>2, <2>1, TailKeeps
  <2>4. ASSUME Head(down).kind = "ACK", Head(down).seq = buf.seq, Head(down).len = buf.len
        PROVE  Answers(clientProc', client', buf)
    <3> DEFINE n == Opener!Acknowledge(client, Head(down))
    <3>1. Head(down).len > 0 /\ Consumes(Head(down))
        BY <1>3, <2>4, SizeAssumption DEF Consumes, Empty
    <3>2. ~NoneLeft(down)
        BY <1>2, <2>1, <3>1, HeadOfNone DEF Consumes
    <3>3. client.valid /\ client.state # "LAST_ACK"
        BY <1>2, <3>2 DEF CloseInv, PeerClosed
    <3>4. ClientTakesAck
        BY <1>2, <1>5, <2>4, <3>3 DEF ClientIgnores, ClientTakesFin, Live
    <3>5. n \in Opener!Tcb /\ n.state = client.state
        BY <1>2, <2>1, AcknowledgeType, DownType
    <3>6. /\ client' = [n EXCEPT !.state = Opener!AfterAck(n.state),
                                 !.rcv_nxt = Opener!Add(Head(down).seq, Head(down).len)]
          /\ clientProc' = Place("app", Opener!Nothing)
        BY <3>1, <3>3, <3>4, <3>5 DEF ClientTakesAck
    <3> HIDE DEF n
    <3>7. client'.rcv_nxt = End(buf)
        BY <2>4, <3>5, <3>6 DEF End, Opener!Tcb
    <3>8. clientProc'.at = "app"
        BY <3>6, PlaceFields
    <3> QED
        BY <3>7, <3>8 DEF Answers
  <2> QED
      BY <1>4, <2>1, <2>2, <2>3, <2>4
<1>6. CASE ClientTakesOver \/ ClientFinishesFin
  <2>1. ~Answers(clientProc, client, buf) /\ UNCHANGED <<up, down>>
      BY <1>6 DEF ClientTakesOver, ClientFinishesFin, Answers
  <2> QED
      BY <1>4, <2>1
<1>7. CASE ClientAcknowledges
  <2>1. /\ clientProc.at = "app" /\ UNCHANGED <<up, down>>
        /\ clientProc'.at = "reply" /\ clientProc'.seg.kind = "ACK"
        /\ clientProc'.seg.ack = client.rcv_nxt
      BY <1>2, <1>7, PlaceFields, HeaderFields, SizeAssumption DEF ClientAcknowledges
  <2> QED
      BY <1>4, <2>1 DEF Answers
<1>8. CASE ClientReplies
  <2>1. /\ clientProc.at = "reply" /\ up' = Append(up, clientProc.seg)
        /\ down' = down
      BY <1>8 DEF ClientReplies
  <2>2. clientProc.seg \in FromClient
      BY <1>2, <2>1 DEF ClientProcType
  <2>3. /\ Acks(up, buf) => Acks(up', buf)
        /\ clientProc.seg.kind = "ACK" /\ clientProc.seg.ack = End(buf) => Acks(up', buf)
      BY <1>2, <2>1, <2>2, AppendKeeps
  <2> QED
      BY <1>4, <2>1, <2>3 DEF Answers
<1>9. CASE ClientCmdMoves
  <2>1. /\ client'.rcv_nxt = client.rcv_nxt
        /\ clientProc' = clientProc /\ down' = down
        /\ \/ up' = up
           \/ up' = Append(up, clientCmd.seg) /\ clientCmd.seg \in FromClient
      BY <1>2, <1>9, ClientCmdKeeps DEF Shaken
  <2>2. Acks(up, buf) => Acks(up', buf)
    <3>1. CASE up' = up
        BY <3>1
    <3>2. CASE up' = Append(up, clientCmd.seg) /\ clientCmd.seg \in FromClient
        BY <1>2, <3>2, AppendKeeps
    <3> QED
        BY <2>1, <3>1, <3>2
  <2> QED
      BY <1>4, <2>1, <2>2 DEF Answers
<1> HIDE DEF Goal
<1>10. Goal
    BY <1>5, <1>6, <1>7, <1>8, <1>9, ClientTakes DEF ClientProcMoves, Goal
<1> QED
    BY <1>10 DEF Goal

LEMMA KeptStep ==
    ASSUME Types, Types', HandInv, PhaseInv, CloseInv, KeptInv, Moves
    PROVE  KeptInv'
<1>1. CASE Shaken
  <2>1. CASE ClientProcMoves
      BY <1>1, <2>1, ClientProcMinds, ClientAnswers DEF KeptInv
  <2>2. CASE ClientCmdMoves
      BY <1>1, <2>2, ClientCmdMinds, ClientAnswers DEF KeptInv
  <2>3. CASE ServerMoves
      BY <1>1, <2>3, ServerMinds, ServerAnswers DEF KeptInv
  <2> QED
      BY <2>1, <2>2, <2>3 DEF Moves
<1>2. CASE ~Shaken
  <2>1. \/ Unopened' \/ Opening' \/ SynSent' \/ SynTaken'
        \/ client'.buf = NoBuf /\ server'.buf = NoBuf
      BY <1>2, PhaseStep DEF PhaseInv
  <2>2. /\ client' = NoTcb \/ client'.buf = NoBuf
        /\ server' = NoTcb \/ server'.buf = NoBuf
      BY <2>1 DEF Unopened, Opening, SynSent, SynTaken, Syn
  <2> QED
      BY <2>2 DEF KeptInv, Minded
<1> QED
    BY <1>1, <1>2

-------------------------------------------------------------------------------
\* The inductive invariant.
LEMMA InitPair ==
    ASSUME Init
    PROVE  Shape /\ PairInv /\ Known
<1>1. /\ clientTcb = [k \in {K} |-> NoTcb] /\ serverTcb = [k \in {K} |-> NoTcb]
      /\ clientThread = [t \in {"proc", "cmd"} |-> Rest]
      /\ serverThread = [t \in {"proc", "cmd"} |-> Rest]
      /\ toServer = [k \in {K} |-> <<>>] /\ toClient = [k \in {K} |-> <<>>]
      /\ clientFin = [k \in {K} |-> {}] /\ serverFin = [k \in {K} |-> {}]
      /\ clientCalls = <<>> /\ serverCalls = <<>> /\ lost = 0
      /\ clientKnows \in [{K} -> BOOLEAN] /\ serverKnows \in [{K} -> BOOLEAN]
      /\ clientKnows[K] => serverKnows[K]
    BY IdleIsRest DEF Init, Opener!Init, Acceptor!Init, Opener!Thread, Acceptor!Thread
<1>2. /\ client = NoTcb /\ server = NoTcb /\ up = <<>> /\ down = <<>>
      /\ clientProc = Rest /\ clientCmd = Rest /\ serverProc = Rest
      /\ clientEnds = {} /\ serverEnds = {}
    BY <1>1 DEF client, server, up, down, clientProc, clientCmd, serverProc, clientEnds,
                serverEnds
<1>3. Shape
    BY <1>1, <1>2 DEF Shape
<1>4. Types
  <2>1. ClientProcType /\ ClientCmdType /\ ServerProcType
      BY <1>2, RestFields, PlaceFields, NothingType
         DEF ClientProcType, ClientCmdType, ServerProcType, Rest
  <2> QED
      BY <1>1, <1>2, <2>1, RestFields DEF Types, Linked, Opener!Script
<1>5. Unopened /\ HandInv
    BY <1>2, RestFields DEF Unopened, AllIdle, HandInv
<1>6. CloseInv
    BY <1>2 DEF CloseInv, FinLast, HasFin
<1>7. KeptInv
    BY <1>2 DEF KeptInv, Minded
<1>8. Known
    BY <1>1, <1>2 DEF Known
<1> QED
    BY <1>3, <1>4, <1>5, <1>6, <1>7, <1>8 DEF PairInv, PhaseInv

LEMMA FailTypes ==
    ASSUME Types, ClientFails \/ ServerFails, clientCalls' = <<>>, lost' = 0
    PROVE  Types'
<1>1. CASE ClientFails
  <2>1. clientCmd.at # "idle" /\ client \in Opener!Tcb
      BY <1>1 DEF ClientFails, ClientForgets, ClientDrops, Types, Linked
  <2>2. client' \in Opener!Tcb
      BY <1>1, <2>1, FieldType DEF ClientFails, ClientForgets, ClientDrops
  <2>3. ClientCmdType'
    <3>1. CASE ClientForgets
        BY <3>1 DEF ClientForgets, Types, ClientCmdType
    <3>2. CASE ClientDrops
      <4>1. clientCmd.seg \in FromClient /\ clientCmd.seg \in Opener!Segment
          BY <3>2 DEF ClientDrops, Types, ClientCmdType
      <4>2. Place("advance", clientCmd.seg) \in
                [at : {"idle", "connect", "emit", "advance", "prompt", "active_close",
                       "passive_close"}, conn : {K}, seg : Opener!Segment]
          BY <4>1 DEF Place
      <4> QED
          BY <3>2, <4>1, <4>2, PlaceFields DEF ClientDrops, ClientCmdType
    <3> QED
        BY <1>1, <3>1, <3>2 DEF ClientFails
  <2>4. /\ UNCHANGED <<clientProc, up, down, server, serverProc, serverCalls, serverEnds>>
        /\ clientEnds' \in {clientEnds, clientEnds \cup {"sent"}}
      BY <1>1 DEF ClientFails, ClientForgets, ClientDrops
  <2>5. ClientProcType' /\ ServerProcType'
      BY <2>4 DEF Types, ClientProcType, ServerProcType
  <2> QED
      BY <2>2, <2>3, <2>4, <2>5, NullAssumption DEF Types, Linked
<1>2. CASE ServerFails
  <2>1. serverProc.at # "idle" /\ server \in Opener!Tcb
      BY <1>2 DEF ServerFails, ServerForgets, Types, Linked
  <2>2. server' \in Opener!Tcb
      BY <1>2, <2>1, FieldType DEF ServerFails, ServerForgets
  <2>3. serverCalls' \in Opener!Script
      BY <1>2, TailType DEF ServerFails, ServerForgets, Types, Opener!Script
  <2>4. /\ UNCHANGED <<clientProc, clientCmd, up, down, client, serverProc, serverEnds>>
        /\ UNCHANGED clientEnds
      BY <1>2 DEF ServerFails, ServerForgets
  <2>5. ClientProcType' /\ ClientCmdType' /\ ServerProcType'
      BY <2>4 DEF Types, ClientProcType, ClientCmdType, ServerProcType
  <2> QED
      BY <2>2, <2>3, <2>4, <2>5, NullAssumption DEF Types, Linked
<1> QED
    BY <1>1, <1>2

\* A payload that is given up changes nothing but the buffer of its node.
LEMMA ForgetsKeeps ==
    ASSUME Types, PhaseInv,
           \/ ClientForgets /\ UNCHANGED <<server, serverProc, serverCalls, serverEnds>>
           \/ ServerFails
    PROVE  /\ Shaken
           /\ UNCHANGED <<clientProc, clientCmd, serverProc, up, down, clientEnds, serverEnds>>
           /\ client \in Opener!Tcb /\ server \in Opener!Tcb
           /\ client # NoTcb /\ client' # NoTcb /\ server # NoTcb /\ server' # NoTcb
           /\ client' = client \/ (ClientForgets /\ client'.buf = NoBuf)
           /\ server' = server \/ (ServerForgets /\ server'.buf = NoBuf)
           /\ client'.valid = client.valid /\ client'.state = client.state
           /\ client'.snd_nxt = client.snd_nxt /\ client'.rcv_nxt = client.rcv_nxt
           /\ server'.valid = server.valid /\ server'.state = server.state
           /\ server'.snd_nxt = server.snd_nxt /\ server'.rcv_nxt = server.rcv_nxt
<1>1. \/ clientCmd.at = "prompt" /\ client.state = "ESTABLISHED"
      \/ serverProc.at = "app"
    BY DEF ClientForgets, ServerFails, ServerForgets
<1>2. Shaken
    BY <1>1 DEF PhaseInv, Unopened, Opening, AllIdle, SynSent, SynTaken, Syn
<1>3. client \in Opener!Tcb /\ client # NoTcb /\ server \in Opener!Tcb /\ server # NoTcb
    BY <1>2 DEF Types, Shaken
<1>4. /\ UNCHANGED <<clientProc, clientCmd, serverProc, up, down, clientEnds, serverEnds>>
      /\ \/ client' = client
         \/ ClientForgets /\ client' = [client EXCEPT !.buf = NoBuf]
      /\ \/ server' = server
         \/ ServerForgets /\ server' = [server EXCEPT !.buf = NoBuf]
    BY DEF ClientForgets, ServerFails, ServerForgets
<1>5. ASSUME NEW n \in Opener!Tcb
      PROVE  LET m == [n EXCEPT !.buf = NoBuf] IN
             /\ m \in Opener!Tcb /\ m.buf = NoBuf /\ m.valid = n.valid /\ m.state = n.state
             /\ m.snd_nxt = n.snd_nxt /\ m.rcv_nxt = n.rcv_nxt
    BY FieldType DEF Opener!Tcb
<1>6. client' \in Opener!Tcb /\ server' \in Opener!Tcb
    BY <1>3, <1>4, <1>5
<1> QED
    BY <1>2, <1>3, <1>4, <1>5, <1>6, NullAssumption

LEMMA ForgetsStep ==
    ASSUME PairInv, Types',
           \/ ClientForgets /\ UNCHANGED <<server, serverProc, serverCalls, serverEnds>>
           \/ ServerFails
    PROVE  PairInv'
<1>1. /\ Types /\ Shaken /\ HandInv /\ CloseInv /\ KeptInv
      /\ UNCHANGED <<clientProc, clientCmd, serverProc, up, down, clientEnds, serverEnds>>
      /\ client # NoTcb /\ client' # NoTcb /\ server # NoTcb /\ server' # NoTcb
      /\ client' = client \/ client'.buf = NoBuf
      /\ server' = server \/ server'.buf = NoBuf
      /\ client'.valid = client.valid /\ client'.state = client.state
      /\ client'.snd_nxt = client.snd_nxt /\ client'.rcv_nxt = client.rcv_nxt
      /\ server'.valid = server.valid /\ server'.state = server.state
      /\ server'.snd_nxt = server.snd_nxt /\ server'.rcv_nxt = server.rcv_nxt
    BY ForgetsKeeps DEF PairInv
<1>2. HandInv'
    BY <1>1 DEF HandInv
<1>3. /\ ClientNext' = ClientNext /\ ServerNext' = ServerNext /\ ClientWants' = ClientWants
    BY <1>1 DEF ClientNext, ServerNext, ClientWants
<1>4. Shaken'
    BY <1>1, <1>3 DEF Shaken
<1>5. (ClientDone' <=> ClientDone) /\ (ServerDone' <=> ServerDone)
    BY <1>1 DEF ClientDone, ServerDone
<1>6. /\ PeerClosed(client', clientProc', clientCmd') => PeerClosed(client, clientProc, clientCmd)
      /\ PeerClosed(server', serverProc', serverProc') => PeerClosed(server, serverProc, serverProc)
    BY <1>1 DEF PeerClosed
<1>7. CloseInv'
    BY <1>1, <1>4, <1>5, <1>6 DEF CloseInv
<1>8. KeptInv'
  <2>1. /\ \A buf : Answers(serverProc, server, buf) => Answers(serverProc', server', buf)
        /\ \A buf : Answers(clientProc, client, buf) => Answers(clientProc', client', buf)
      BY <1>1 DEF Answers
  <2> QED
      BY <1>1, <2>1 DEF KeptInv, Minded
<1> QED
    BY <1>2, <1>4, <1>7, <1>8 DEF PairInv, PhaseInv

\* ip_send drops a segment of the client only while there is no connection: its SYN.
LEMMA DropStep ==
    ASSUME Types, Types', PhaseInv, Known, ClientDrops,
           UNCHANGED <<server, serverProc, serverCalls, serverEnds>>
    PROVE  Unheard'
<1>1. server = NoTcb /\ up = <<>> /\ clientCmd.at = "emit"
    BY DEF ClientDrops, Known
<1>2. Opening
    BY <1>1 DEF PhaseInv, Unopened, SynSent, Syn, SynTaken, Shaken
<1>3. /\ clientCmd'.at = "advance" /\ clientCmd'.seg = clientCmd.seg
      /\ UNCHANGED <<client, clientProc, up, down>>
    BY PlaceFields DEF ClientDrops
<1> QED
    BY <1>1, <1>2, <1>3 DEF Unheard, Syn, Opening, AllIdle

\* After that there is nothing to take, and nothing more to send.
LEMMA UnheardStep ==
    ASSUME Unheard, Types', Moves \/ ClientFails \/ ServerFails \/ Stays
    PROVE  Unheard' /\ UNCHANGED <<up, down, server>>
<1>1. /\ Types /\ Syn
      /\ clientProc.at = "idle" /\ serverProc.at = "idle" /\ client.state = "SYN_SENT"
      /\ clientCmd.at \in {"advance", "prompt", "idle"}
      /\ ~TakesDown /\ ~TakesUp
    BY DEF Unheard, Syn, TakesDown, TakesUp
<1>2. ~ClientProcMoves
    BY <1>1 DEF ClientProcMoves, ClientIgnores, ClientShakes, ClientTakesOver, ClientTakesAck,
                ClientTakesFin, ClientFinishesFin, ClientAcknowledges, ClientReplies
<1>3. ~ServerMoves /\ ~ServerFails
    BY <1>1 DEF ServerMoves, ServerIgnores, ServerTakesSyn, ServerTakesAck, ServerTakesFin,
                ServerFinishesFin, ServerSends, ServerLeaves, ServerAcknowledges,
                ServerReplies, ServerCloses, ServerEmits, ServerAdvances, ServerFails,
                ServerForgets
<1>4. ~ClientFails
    BY <1>1 DEF ClientFails, ClientForgets, ClientDrops
<1>5. CASE ClientCmdMoves
    BY <1>1, <1>5, SynStays DEF Unheard
<1>6. CASE Stays
    BY <1>6 DEF Stays, Unheard, Syn
<1> QED
    BY <1>2, <1>3, <1>4, <1>5, <1>6 DEF Moves

\* Whoever sends knows where to.
LEMMA KnownStep ==
    ASSUME Shape, Known, Types, PhaseInv \/ Unheard, Next,
           Moves \/ ClientFails \/ ServerFails \/ Stays
    PROVE  Known'
<1>1. /\ clientKnows[K] => clientKnows'[K]
      /\ clientKnows'[K] => serverKnows'[K]
    BY KnowsStep
<1>2. SUFFICES ASSUME server = NoTcb, up = <<>>, ~clientKnows[K]
               PROVE  server' = NoTcb /\ up' = <<>>
    BY <1>1 DEF Known
<1>3. clientProc.at = "idle" /\ serverProc.at = "idle" /\ ~TakesUp
    BY <1>2 DEF PhaseInv, Unopened, Opening, SynSent, SynTaken, Shaken, AllIdle, Unheard, Syn,
                TakesUp, Types, Linked
<1>4. ~ServerMoves /\ ~ServerFails
    BY <1>3 DEF ServerMoves, ServerIgnores, ServerTakesSyn, ServerTakesAck, ServerTakesFin,
                ServerFinishesFin, ServerSends, ServerLeaves, ServerAcknowledges,
                ServerReplies, ServerCloses, ServerEmits, ServerAdvances, ServerFails,
                ServerForgets
<1>5. CASE ClientProcMoves
  <2>1. UNCHANGED <<server, up>>
      BY <1>3, <1>5 DEF ClientProcMoves, ClientIgnores, ClientShakes, ClientTakesOver,
                ClientTakesAck, ClientTakesFin, ClientFinishesFin, ClientAcknowledges,
                ClientReplies
  <2> QED
      BY <1>2, <2>1
<1>6. CASE ClientCmdMoves
  <2>1. UNCHANGED <<server, up>>
      BY <1>2, <1>6 DEF ClientCmdMoves, ClientConnects, ClientInits, ClientTypes, ClientLeaves,
                ClientCloses, ClientEmits, ClientAdvances
  <2> QED
      BY <1>2, <2>1
<1>7. CASE ClientFails \/ Stays
    BY <1>2, <1>7 DEF ClientFails, ClientForgets, ClientDrops, Stays
<1> QED
    BY <1>4, <1>5, <1>6, <1>7 DEF Moves

LEMMA StaysStep ==
    ASSUME PairInv, Stays, clientCalls' = <<>>, lost' = 0
    PROVE  PairInv'
<1>2. /\ UNCHANGED <<client, server, up, down, clientProc, clientCmd, serverProc>>
      /\ UNCHANGED <<clientEnds, serverEnds, serverCalls>>
    BY DEF Stays
<1>4. Types' /\ HandInv'
    BY <1>2 DEF PairInv, Types, ClientProcType, ClientCmdType, ServerProcType, Linked, HandInv
<1>5. Shaken' <=> Shaken
    BY <1>2 DEF Shaken, ClientNext, ServerNext, ClientWants
<1>6. PhaseInv'
    BY <1>2, <1>5 DEF PairInv, PhaseInv, Unopened, Opening, AllIdle, SynSent, SynTaken, Syn,
                      ClientNext
<1>7. CloseInv'
    BY <1>2, <1>5 DEF PairInv, CloseInv, ClientDone, ServerDone
<1>8. KeptInv'
    BY <1>2 DEF PairInv, KeptInv
<1> QED
    BY <1>4, <1>6, <1>7, <1>8 DEF PairInv

\* A step that leaves everything unchanged.
LEMMA Stutter ==
    ASSUME Shape, HostsInv, UNCHANGED vars
    PROVE  /\ Stays /\ UNCHANGED <<clientKnows, serverKnows, bare>>
           /\ clientCalls' = <<>> /\ lost' = 0
           /\ Shape' /\ HostsInv'
<1>1. /\ UNCHANGED <<clientTcb, clientThread, clientCalls, clientFin>>
      /\ UNCHANGED <<serverTcb, serverThread, serverCalls, serverFin>>
      /\ UNCHANGED <<toServer, toClient, clientKnows, serverKnows, lost, bare>>
    BY DEF vars, clientVars, serverVars, network, addresses
<1>2. Stays
    BY <1>1 DEF Stays, client, server, up, down, clientProc, clientCmd, serverProc, clientEnds,
                serverEnds
<1>3. Shape'
    BY <1>1, <1>2 DEF Shape, Stays
<1>4. Types /\ clientCalls' = <<>> /\ lost' = 0
    BY <1>1 DEF HostsInv, PairInv, Unheard, Types
<1>5. Known'
    BY <1>1, <1>2 DEF HostsInv, Known, Stays
<1>6. CASE PairInv
    BY <1>1, <1>2, <1>3, <1>4, <1>5, <1>6, StaysStep DEF HostsInv
<1>7. CASE Unheard
  <2>1. Types'
      BY <1>2, <1>4 DEF Stays, Types, ClientProcType, ClientCmdType, ServerProcType, Linked
  <2> QED
      BY <1>1, <1>2, <1>3, <1>4, <1>5, <1>7, <2>1, UnheardStep DEF HostsInv
<1> QED
    BY <1>6, <1>7 DEF HostsInv

LEMMA PairStep ==
    ASSUME Perfect, Shape, HostsInv, Next
    PROVE  Shape' /\ HostsInv' /\ (PairInv /\ Moves => PairInv')
<1>1. Types /\ Known
    BY DEF HostsInv, PairInv, Unheard
<1>2. /\ Moves \/ ClientFails \/ ServerFails \/ Stays
      /\ Shape' /\ clientCalls' = <<>> /\ lost' = 0
    BY <1>1, NextIs DEF Moves
<1>3. Types'
  <2>1. CASE Stays
      BY <1>1, <1>2, <2>1 DEF Stays, Types, ClientProcType, ClientCmdType, ServerProcType, Linked
  <2> QED
      BY <1>1, <1>2, <2>1, TypesStep, FailTypes
<1>4. Known'
    BY <1>1, <1>2, KnownStep DEF HostsInv, PairInv
<1>5. CASE Unheard /\ ~PairInv
    BY <1>2, <1>3, <1>4, <1>5, UnheardStep DEF HostsInv
<1>6. CASE PairInv
  <2>1. CASE Moves
    <3>1. HandInv' /\ PhaseInv'
        BY <1>3, <1>6, <2>1, PhaseStep DEF PairInv
    <3>2. CloseInv'
        BY <1>3, <1>6, <2>1, CloseStep DEF PairInv
    <3>3. KeptInv'
        BY <1>3, <1>6, <2>1, KeptStep DEF PairInv
    <3> QED
        BY <1>2, <1>3, <1>4, <3>1, <3>2, <3>3 DEF PairInv, HostsInv
  <2>2. CASE ~Moves /\ ClientFails
    <3>1. CASE ClientForgets
        BY <1>2, <1>3, <1>4, <1>6, <2>2, <3>1, ForgetsStep DEF ClientFails, HostsInv
    <3>2. CASE ClientDrops
        BY <1>1, <1>2, <1>3, <1>4, <1>6, <2>2, <3>2, DropStep DEF ClientFails, HostsInv, PairInv
    <3> QED
        BY <2>2, <3>1, <3>2 DEF ClientFails
  <2>3. CASE ~Moves /\ ServerFails
      BY <1>2, <1>3, <1>4, <1>6, <2>3, ForgetsStep DEF HostsInv
  <2>4. CASE ~Moves /\ Stays
      BY <1>2, <1>4, <1>6, <2>4, StaysStep DEF HostsInv
  <2> QED
      BY <1>2, <2>1, <2>2, <2>3, <2>4
<1> QED
    BY <1>5, <1>6 DEF HostsInv

\* The invariant holds of every behaviour in which nothing is lost and no RTO passes.
THEOREM PairInvariant ==
    ASSUME Perfect
    PROVE  Spec => [](Shape /\ HostsInv)
<1>1. Shape /\ HostsInv /\ [Next]_vars => (Shape /\ HostsInv)'
    BY PairStep, Stutter
<1>2. Init => Shape /\ HostsInv
    BY InitPair DEF HostsInv
<1> QED
    BY <1>1, <1>2, PTL DEF Spec

\* A channel gets shorter only when the process thread at its end takes a segment.
LEMMA OnlyTaken ==
    ASSUME Types, Types', Moves \/ ClientFails \/ ServerFails \/ Stays
    PROVE  /\ Len(up') < Len(up) => TakesUp
           /\ Len(down') < Len(down) => TakesDown
<1>0. Moves \/ (up' = up /\ down' = down)
    BY DEF ClientFails, ClientForgets, ClientDrops, ServerFails, ServerForgets, Stays
<1>1. up \in Seq(FromClient) /\ down \in Seq(FromServer)
    BY DEF Types
<1>2. \/ up' = up \/ TakesUp
      \/ up' = Append(up, clientProc.seg) \/ up' = Append(up, clientCmd.seg)
    BY <1>0 DEF Moves, ClientProcMoves, ClientIgnores, ClientShakes, ClientTakesOver,
           ClientTakesAck, ClientTakesFin, ClientFinishesFin, ClientAcknowledges,
           ClientReplies, ClientCmdMoves, ClientConnects, ClientInits, ClientTypes,
           ClientLeaves, ClientCloses, ClientEmits, ClientAdvances, ServerMoves,
           ServerIgnores, ServerTakesSyn, ServerTakesAck, ServerTakesFin,
           ServerFinishesFin, ServerSends, ServerLeaves, ServerAcknowledges,
           ServerReplies, ServerCloses, ServerEmits, ServerAdvances
<1>3. down' = down \/ TakesDown \/ down' = Append(down, serverProc.seg)
    BY <1>0 DEF Moves, ClientProcMoves, ClientIgnores, ClientShakes, ClientTakesOver,
           ClientTakesAck, ClientTakesFin, ClientFinishesFin, ClientAcknowledges,
           ClientReplies, ClientCmdMoves, ClientConnects, ClientInits, ClientTypes,
           ClientLeaves, ClientCloses, ClientEmits, ClientAdvances, ServerMoves,
           ServerIgnores, ServerTakesSyn, ServerTakesAck, ServerTakesFin,
           ServerFinishesFin, ServerSends, ServerLeaves, ServerAcknowledges,
           ServerReplies, ServerCloses, ServerEmits, ServerAdvances
<1>4. /\ Len(up) \in Nat /\ Len(down) \in Nat
      /\ \A e : Len(Append(up, e)) = Len(up) + 1 /\ Len(Append(down, e)) = Len(down) + 1
    BY <1>1
<1> QED
    BY <1>2, <1>3, <1>4

\* The head of a stream starts where the stream does.
LEMMA HeadExpected ==
    ASSUME NEW S, NEW q \in Seq(S), q # <<>>, NEW from, NEW to, Stream(q, from, to),
           InSpace(Head(q))
    PROVE  Head(q).seq = from /\ Head(q).src = from
<1>1. PICK mid \in Opener!SeqNum : Follows(Head(q), from, mid)
    BY StreamTail
<1> QED
    BY <1>1 DEF Follows, Consumes, Empty, InSpace

\* Over a network that neither loses nor reorders, and as long as no RTO passes, what
\* a host takes over is the next of its peer's stream, whatever the threads of both
\* interleave, however the sequence numbers wrap: tcp.c:170 and 445 set rcv_nxt from
\* any segment, and it is the right one.
THEOREM StreamsInOrder ==
    ASSUME Perfect
    PROVE  Spec => InOrder
<1>1. ASSUME Shape, HostsInv, [Next]_vars, (Shape /\ HostsInv)'
      PROVE  [Expected(toServer, serverTcb) /\ Expected(toClient, clientTcb)]_vars
  <2>1. SUFFICES ASSUME Next
                 PROVE  Expected(toServer, serverTcb) /\ Expected(toClient, clientTcb)
      BY <1>1
  <2>2. Types /\ Types' /\ Known
      BY <1>1 DEF HostsInv, PairInv, Unheard
  <2>3. Moves \/ ClientFails \/ ServerFails \/ Stays
      BY <1>1, <2>1, <2>2, NextIs DEF Moves
  <2>4. CASE Unheard
    <3>1. UNCHANGED <<up, down>> /\ up = <<>> /\ down = <<>>
        BY <2>2, <2>3, <2>4, UnheardStep DEF Unheard
    <3> QED
        BY <3>1 DEF Expected, Taken, up, down
  <2>5. SUFFICES ASSUME PairInv
                 PROVE  Expected(toServer, serverTcb) /\ Expected(toClient, clientTcb)
      BY <1>1, <2>4 DEF HostsInv
  <2>6. PhaseInv
      BY <2>5 DEF PairInv
  <2>7. up \in Seq(FromClient) /\ down \in Seq(FromServer)
      BY <2>2 DEF Types
  <2>8. ASSUME Len(up') < Len(up), InSpace(Head(up))
        PROVE  server # NoTcb /\ Head(up).seq = server.rcv_nxt /\ Head(up).src = server.rcv_nxt
    <3>1. up # <<>>
        BY <2>2, <2>3, <2>8, OnlyTaken DEF TakesUp
    <3>2. Head(up) = up[1] /\ Head(up).kind # "SYN"
        BY <2>7, <2>8, <3>1, TailType DEF InSpace
    <3>3. Shaken
        BY <2>6, <3>1, <3>2 DEF PhaseInv, Unopened, Opening, SynSent, SynTaken
    <3> QED
        BY <2>7, <2>8, <3>1, <3>3, HeadExpected DEF Shaken
  <2>9. ASSUME Len(down') < Len(down), InSpace(Head(down))
        PROVE  client # NoTcb /\ Head(down).seq = client.rcv_nxt /\ Head(down).src = client.rcv_nxt
    <3>1. down # <<>> /\ clientProc.at = "idle"
        BY <2>2, <2>3, <2>9, OnlyTaken DEF TakesDown
    <3>2. Head(down) = down[1] /\ Head(down).kind # "SYNACK"
        BY <2>7, <2>9, <3>1, TailType DEF InSpace
    <3>3. Shaken
        BY <2>6, <3>1, <3>2 DEF PhaseInv, Unopened, Opening, SynSent, SynTaken
    <3>4. ClientWants = client.rcv_nxt
        BY <3>1 DEF ClientWants
    <3> QED
        BY <2>7, <2>9, <3>1, <3>3, <3>4, HeadExpected DEF Shaken
  <2> QED
      BY <2>8, <2>9 DEF Expected, Taken, up, down, server, client
<1>2. Shape /\ HostsInv /\ [Next]_vars /\ (Shape /\ HostsInv)'
          => [Expected(toServer, serverTcb) /\ Expected(toClient, clientTcb)]_vars
    BY <1>1
<1> QED
    BY <1>2, PairInvariant, PTL DEF Spec, InOrder

\* When nothing is under way both ends agree on both streams, and what an end that is
\* still there has sent has been acknowledged (check_retransmit has nothing to do).
THEOREM EndsSettle ==
    ASSUME Perfect
    PROVE  Spec => []Settled
<1>1. ASSUME PairInv PROVE Settled
  <2>1. SUFFICES ASSUME Quiet, client # NoTcb, server # NoTcb
                 PROVE  /\ client.rcv_nxt = server.snd_nxt
                        /\ server.rcv_nxt = client.snd_nxt
                        /\ client.valid => client.buf = NoBuf
                        /\ server.valid => server.buf = NoBuf
      BY DEF Settled, client, server
  <2>2. /\ up = <<>> /\ down = <<>>
        /\ clientProc.at = "idle" /\ serverProc.at = "idle"
        /\ clientCmd.at \in {"idle", "prompt"}
      BY <2>1 DEF Quiet, up, down, clientProc, serverProc, clientCmd
  <2>3. Shaken
      BY <1>1, <2>1, <2>2 DEF PairInv, PhaseInv, Unopened, Opening, SynSent, SynTaken
  <2>4. \A from, to : Stream(<<>>, from, to) => from = to
      BY DEF Stream
  <2>5. /\ ClientNext = client.snd_nxt /\ ServerNext = server.snd_nxt
        /\ ClientWants = client.rcv_nxt
      BY <2>2 DEF ClientNext, ServerNext, ClientWants
  <2>6. client.rcv_nxt = server.snd_nxt /\ server.rcv_nxt = client.snd_nxt
      BY <2>2, <2>3, <2>4, <2>5 DEF Shaken
  <2>7. \A buf : ~Carries(<<>>, buf) /\ ~Acks(<<>>, buf)
      BY DEF Carries, Acks
  <2>8. /\ client.valid => client.buf = NoBuf
        /\ server.valid => server.buf = NoBuf
      BY <1>1, <2>1, <2>2, <2>7 DEF PairInv, KeptInv, Minded, Holds, Answers
  <2> QED
      BY <2>6, <2>8
<1>2. Unheard => Settled
    BY DEF Unheard, Settled, server
<1>3. Shape /\ HostsInv => Settled
    BY <1>1, <1>2 DEF HostsInv
<1> QED
    BY <1>3, PairInvariant, PTL

-------------------------------------------------------------------------------
\* The comparison that releases a kept payload is one of plain numbers (tcp.c:131).
\* It is right as long as both streams stay in the lower half of the sequence space:
\* time(NULL) starts them there.
Low(n) == n < SeqMod \div 2
BelowHalf == /\ client # NoTcb => Low(ClientNext)
             /\ server # NoTcb => Low(ServerNext)

\* There, what is in flight does not wrap, and what has been taken over is low.
LowSegment(seg) == seg.kind \in {"FIN", "ACK"} /\ Consumes(seg)
                       => Low(seg.seq + Opener!Length(seg))
AllLow(q) == \A i \in 1 .. Len(q) : LowSegment(q[i])

LowInv ==
    /\ AllLow(up) /\ AllLow(down)
    /\ client # NoTcb => Low(client.rcv_nxt) /\ Low(ClientWants)
    /\ client # NoTcb /\ (clientCmd.at = "connect" \/ client.state = "SYN_SENT"
                              \/ clientProc.at = "shaking")
           => client.rcv_nxt = 0
    /\ server # NoTcb => Low(server.rcv_nxt)

\* No acknowledgement is ahead of what its sender has taken over.
Acked(q, n) == \A i \in 1 .. Len(q) : q[i].kind = "ACK" => q[i].ack <= n
Held(thread, n) == thread.at \in {"emit", "reply"} /\ thread.seg.kind = "ACK"
                       => thread.seg.ack <= n

AckInv ==
    /\ client # NoTcb => /\ Acked(up, client.rcv_nxt)
                         /\ Held(clientCmd, client.rcv_nxt) /\ Held(clientProc, client.rcv_nxt)
    /\ server # NoTcb => Acked(down, server.rcv_nxt) /\ Held(serverProc, server.rcv_nxt)

\* A payload is shorter than half of the sequence space.
Room == MaxLen <= SeqMod \div 2

LEMMA LowStart ==
    ASSUME NEW a \in Nat, Low(a)
    PROVE  Low(0)
BY SeqModAssumption DEF Low

LEMMA LowSum ==
    ASSUME Room, NEW a \in Opener!SeqNum, NEW seg \in Opener!Segment,
           Low(a), Low(Opener!Add(a, Opener!Length(seg)))
    PROVE  Low(a + Opener!Length(seg))
<1>1. seg.len \in 0 .. MaxLen /\ a \in Nat /\ MaxLen \in Nat
    BY SizeAssumption DEF Opener!Segment, Opener!SeqNum
<1>2. Opener!Length(seg) \in Nat /\ (Opener!Length(seg) = 1 \/ Opener!Length(seg) <= MaxLen)
    BY <1>1 DEF Opener!Length
<1>3. a + Opener!Length(seg) < SeqMod
    BY <1>1, <1>2, SeqModAssumption DEF Room, Low
<1> QED
    BY <1>3 DEF Low, Opener!Add

LEMMA SumLow ==
    ASSUME NEW a \in Nat, NEW b \in Nat, Low(a + b)
    PROVE  Opener!Add(a, b) = a + b /\ a <= Opener!Add(a, b) /\ Low(Opener!Add(a, b))
<1>1. a + b < SeqMod
    BY SeqModAssumption DEF Low
<1> QED
    BY <1>1 DEF Opener!Add, Low

\* What has been taken over only grows.
LEMMA HeadRises ==
    ASSUME NEW q \in Seq(Opener!Segment), q # <<>>, AllLow(q),
           Head(q).kind \in {"FIN", "ACK"},
           NEW from \in Opener!SeqNum, Low(from), NEW to, Follows(Head(q), from, to)
    PROVE  from <= to /\ Low(to)
<1>1. Head(q) \in Opener!Segment /\ LowSegment(Head(q)) /\ from \in Nat
  <2>1. Len(q) \in Nat \ {0} /\ Head(q) = q[1] /\ Head(q) \in Opener!Segment
      BY TailType
  <2> QED
      BY <2>1 DEF AllLow, Opener!SeqNum
<1>2. CASE Consumes(Head(q))
  <2>1. Low(from + Opener!Length(Head(q))) /\ to = Opener!Add(from, Opener!Length(Head(q)))
      BY <1>1, <1>2 DEF LowSegment, Follows
  <2> QED
      BY <1>1, <2>1, LengthType, SumLow
<1>3. CASE ~Consumes(Head(q))
    BY <1>1, <1>3 DEF Follows
<1> QED
    BY <1>2, <1>3

LEMMA ServerRises ==
    ASSUME Types, Shaken, CloseInv, LowInv, ServerMoves
    PROVE  server.rcv_nxt <= server'.rcv_nxt /\ Low(server'.rcv_nxt)
<1>1. /\ server.rcv_nxt \in Opener!SeqNum /\ server.rcv_nxt \in Nat /\ Low(server.rcv_nxt)
      /\ up \in Seq(FromClient) /\ up \in Seq(Opener!Segment)
      /\ Without(up, "SYN") /\ AllLow(up)
  <2>1. up \in Seq(FromClient) /\ server \in Opener!Tcb /\ server # NoTcb
      BY DEF Types, Shaken
  <2>2. FromClient \subseteq Opener!Segment
      BY DEF FromClient
  <2> QED
      BY <2>1, <2>2 DEF Opener!Tcb, Opener!SeqNum, Shaken, Without, LowInv
<1>2. CASE server'.rcv_nxt = server.rcv_nxt
    BY <1>1, <1>2
<1>3. CASE /\ TakesUp
           /\ \A mid : Follows(Head(up), server.rcv_nxt, mid) => server'.rcv_nxt = mid
  <2>1. up # <<>>
      BY <1>3 DEF TakesUp
  <2>2. PICK mid \in Opener!SeqNum : Follows(Head(up), server.rcv_nxt, mid)
      BY <1>1, <2>1, StreamTail DEF Shaken
  <2>3. Head(up).kind \in {"FIN", "ACK"}
    <3>1. Head(up) \in FromClient /\ Head(up) = up[1] /\ Len(up) \in Nat \ {0}
        BY <1>1, <2>1, TailType
    <3> QED
        BY <1>1, <3>1 DEF Without, FromClient
  <2> QED
      BY <1>1, <1>3, <2>1, <2>2, <2>3, HeadRises
<1> QED
    BY <1>2, <1>3, ServerTakes

LEMMA ClientRises ==
    ASSUME Types, Shaken, CloseInv, LowInv, ClientProcMoves
    PROVE  /\ client.rcv_nxt <= client'.rcv_nxt /\ Low(client'.rcv_nxt) /\ Low(ClientWants')
           /\ clientProc'.at = "shaking" => client'.rcv_nxt = 0
<1>1. /\ client \in Opener!Tcb
      /\ client.rcv_nxt \in Opener!SeqNum /\ client.rcv_nxt \in Nat /\ Low(client.rcv_nxt)
      /\ Low(ClientWants)
      /\ down \in Seq(FromServer) /\ down \in Seq(Opener!Segment)
      /\ Without(down, "SYNACK") /\ AllLow(down)
  <2>1. down \in Seq(FromServer) /\ client \in Opener!Tcb /\ client # NoTcb
      BY DEF Types, Shaken
  <2>2. FromServer \subseteq Opener!Segment
      BY DEF FromServer
  <2> QED
      BY <2>1, <2>2 DEF Opener!Tcb, Opener!SeqNum, Shaken, Without, LowInv
<1>2. clientProc'.at # "shaking" /\ (clientProc.at = "shaking" => ClientTakesOver)
  <2>1. Opener!AtFin(client.state) # "shaking"
      BY DEF Opener!AtFin
  <2>2. ~ClientShakes
      BY ClientTakes
  <2> QED
      BY <2>1, <2>2, PlaceFields, RestFields
         DEF ClientProcMoves, ClientIgnores, ClientTakesOver, ClientTakesAck, ClientTakesFin,
             ClientFinishesFin, ClientAcknowledges, ClientReplies, TakesDown
<1>3. ClientWants' = client'.rcv_nxt
    BY <1>2 DEF ClientWants
<1>4. CASE down' = down /\ ClientWants' = ClientWants
  <2>1. CASE clientProc.at = "shaking"
    <3>1. client.rcv_nxt = 0 /\ client'.rcv_nxt = Opener!Add(clientProc.seg.seq, 1)
        BY <1>1, <1>2, <2>1 DEF LowInv, ClientTakesOver, Opener!Tcb, Shaken
    <3>2. client'.rcv_nxt \in Nat
      <4>1. clientProc.seg.seq \in Opener!SeqNum
          BY DEF Types, ClientProcType, Opener!Segment
      <4>2. Opener!Add(clientProc.seg.seq, 1) \in Opener!SeqNum
          BY <4>1, AddType, SeqModAssumption
      <4> QED
          BY <3>1, <4>2 DEF Opener!SeqNum
    <3> QED
        BY <1>1, <1>2, <1>3, <1>4, <3>1, <3>2
  <2>2. CASE clientProc.at # "shaking"
    <3>1. ClientWants = client.rcv_nxt
        BY <2>2 DEF ClientWants
    <3> QED
        BY <1>1, <1>2, <1>3, <1>4, <3>1
  <2> QED
      BY <2>1, <2>2
<1>5. CASE /\ TakesDown
           /\ \A mid : Follows(Head(down), ClientWants, mid) => ClientWants' = mid
  <2>1. down # <<>> /\ ClientWants = client.rcv_nxt
      BY <1>5 DEF TakesDown, ClientWants
  <2>2. PICK mid \in Opener!SeqNum : Follows(Head(down), ClientWants, mid)
      BY <1>1, <2>1, StreamTail DEF Shaken
  <2>3. Head(down).kind \in {"FIN", "ACK"}
    <3>1. Head(down) \in FromServer /\ Head(down) = down[1] /\ Len(down) \in Nat \ {0}
        BY <1>1, <2>1, TailType
    <3> QED
        BY <1>1, <3>1 DEF Without, FromServer
  <2> QED
      BY <1>1, <1>2, <1>3, <1>5, <2>1, <2>2, <2>3, HeadRises
<1> QED
    BY <1>4, <1>5, ClientTakes

\* Before that there is nothing to take over but the SYN+ACK.
LEMMA EarlyMoves ==
    ASSUME Types, PhaseInv, LowInv, Moves, ~Shaken
    PROVE  /\ client' # NoTcb => client'.rcv_nxt = 0
           /\ client # NoTcb => client.rcv_nxt = 0
           /\ client # NoTcb => client' # NoTcb
           /\ clientProc.at = "idle"
           /\ \/ clientProc' = clientProc /\ UNCHANGED down /\ ClientCmdMoves
              \/ UNCHANGED <<client, clientProc, clientCmd>>
              \/ /\ ClientShakes /\ UNCHANGED <<server, serverProc>> /\ server # NoTcb
                 /\ clientCmd' = clientCmd /\ up' = up
                 /\ ClientWants' = ServerNext
           /\ server # NoTcb => UNCHANGED server
           /\ ~ClientTypes \/ UNCHANGED <<client, clientCmd>>
<1>1. /\ Unopened \/ Opening \/ SynSent \/ SynTaken
      /\ clientProc.at = "idle"
      /\ client = NoTcb \/ client \in Opener!Tcb
      /\ client # NoTcb => client.rcv_nxt = 0
    BY DEF PhaseInv, Unopened, Opening, AllIdle, SynSent, SynTaken, Syn, Types, LowInv
<1>2. client # NoTcb => client' # NoTcb
    BY ClientProcTypes, ClientCmdTypes, NullAssumption DEF Moves, ServerMoves
<1>3. ~ClientTypes \/ UNCHANGED <<client, clientCmd>>
    BY DEF ClientTypes, PhaseInv, Unopened, Opening, SynSent, SynTaken, Syn
<1>4. CASE ClientCmdMoves
  <2>1. client' # NoTcb => client'.rcv_nxt = 0
    <3>1. CASE ClientConnects
        BY <3>1 DEF ClientConnects
    <3>2. CASE ClientTypes
        BY <1>1, <1>3, <3>2
    <3>3. CASE ClientInits
        BY <1>1, <3>3 DEF ClientInits, Opener!Tcb, Types, Linked
    <3>4. CASE ClientLeaves \/ ClientCloses \/ ClientEmits \/ ClientAdvances
      <4>1. client # NoTcb
          BY <3>4 DEF ClientLeaves, ClientCloses, ClientEmits, ClientAdvances, Types, Linked
      <4> QED
          BY <1>1, <3>4, <4>1 DEF ClientLeaves, ClientCloses, ClientEmits, ClientAdvances,
                                  Opener!Tcb
    <3> QED
        BY <1>4, <3>1, <3>2, <3>3, <3>4 DEF ClientCmdMoves
  <2>2. clientProc' = clientProc /\ UNCHANGED <<down, server>>
      BY <1>4 DEF ClientCmdMoves, ClientConnects, ClientInits, ClientTypes, ClientLeaves,
                  ClientCloses, ClientEmits, ClientAdvances
  <2> QED
      BY <1>1, <1>2, <1>3, <1>4, <2>1, <2>2
<1>5. CASE ClientProcMoves
  <2>1. TakesDown /\ UNCHANGED <<server, serverProc>>
      BY <1>1, <1>5 DEF ClientProcMoves, ClientIgnores, ClientShakes, ClientTakesOver,
                ClientTakesAck, ClientTakesFin, ClientFinishesFin, ClientAcknowledges,
                ClientReplies
  <2>2. SynTaken
      BY <1>1, <2>1 DEF TakesDown, Unopened, Opening, SynSent
  <2>3. /\ serverProc.at = "idle" /\ Head(down).kind = "SYNACK"
        /\ Opener!Add(Head(down).seq, 1) = server.snd_nxt
        /\ server # NoTcb /\ Live(client)
      BY <2>1, <2>2 DEF SynTaken, Syn, TakesDown, Live
  <2>4. ClientShakes
      BY <1>1, <1>5, <2>3 DEF ClientProcMoves, ClientIgnores, ClientTakesOver,
                ClientTakesAck, ClientTakesFin, ClientFinishesFin, ClientAcknowledges,
                ClientReplies
  <2>5. client'.rcv_nxt = 0
      BY <1>1, <2>3, <2>4 DEF ClientShakes, Live, Opener!Tcb
  <2>6. ClientWants' = ServerNext
      BY <2>3, <2>4, PlaceFields DEF ClientShakes, ClientWants, ServerNext
  <2>7. clientCmd' = clientCmd /\ up' = up
      BY <2>4 DEF ClientShakes
  <2> QED
      BY <1>1, <1>2, <1>3, <2>1, <2>3, <2>4, <2>5, <2>6, <2>7
<1>6. CASE ServerMoves
  <2>1. UNCHANGED <<client, clientProc, clientCmd>>
      BY <1>6 DEF ServerMoves
  <2>2. ASSUME server # NoTcb
        PROVE  UNCHANGED server
    <3>1. SynTaken /\ ~TakesUp /\ serverProc.at \in {"idle", "reply"}
        BY <1>1, <2>2 DEF Unopened, Opening, SynSent, SynTaken, TakesUp
    <3> QED
        BY <1>6, <3>1 DEF ServerMoves, ServerIgnores, ServerTakesSyn, ServerTakesAck,
                ServerTakesFin, ServerFinishesFin, ServerSends, ServerLeaves,
                ServerAcknowledges, ServerReplies, ServerCloses, ServerEmits, ServerAdvances
  <2> QED
      BY <1>1, <1>2, <1>3, <2>1, <2>2
<1> QED
    BY <1>4, <1>5, <1>6 DEF Moves

LEMMA ClientGrows ==
    ASSUME Types, Types', HandInv, PhaseInv, CloseInv, LowInv, Moves, client # NoTcb
    PROVE  client' # NoTcb /\ client.rcv_nxt <= client'.rcv_nxt
<1>1. client.rcv_nxt \in Nat
    BY DEF Types, Opener!Tcb, Opener!SeqNum
<1>2. client' # NoTcb
    BY ClientProcTypes, ClientCmdTypes, NullAssumption DEF Moves, ServerMoves
<1>3. CASE Shaken
    BY <1>1, <1>2, <1>3, ClientRises, ClientCmdKeeps DEF Moves, ServerMoves, Shaken
<1>4. CASE ~Shaken
    BY <1>1, <1>2, <1>4, EarlyMoves
<1> QED
    BY <1>3, <1>4

LEMMA ServerGrows ==
    ASSUME Types, Types', PhaseInv, CloseInv, LowInv, Moves, server # NoTcb
    PROVE  server' # NoTcb /\ server.rcv_nxt <= server'.rcv_nxt
<1>1. server.rcv_nxt \in Nat
    BY DEF Types, Opener!Tcb, Opener!SeqNum
<1>2. server' # NoTcb
    BY ServerTypes DEF Moves, ClientProcMoves, ClientCmdMoves
<1>3. CASE Shaken
    BY <1>1, <1>2, <1>3, ServerRises DEF Moves, ClientProcMoves, ClientCmdMoves
<1>4. CASE ~Shaken
    BY <1>1, <1>2, <1>4, EarlyMoves
<1> QED
    BY <1>3, <1>4

LEMMA TailLow ==
    ASSUME NEW S, NEW q \in Seq(S), q # <<>>
    PROVE  /\ AllLow(q) => AllLow(Tail(q))
           /\ \A n : Acked(q, n) => Acked(Tail(q), n)
           /\ \A n : Acked(q, n) /\ Head(q).kind = "ACK" => Head(q).ack <= n
<1> DEFINE m == Len(q)
           r == Tail(q)
<1>1. m \in Nat \ {0} /\ Len(r) = m - 1 /\ Head(q) = q[1] /\ \A i \in 1 .. m - 1 : r[i] = q[i + 1]
    BY TailType
<1>2. (\A i \in 1 .. Len(r) : i + 1 \in 1 .. m /\ r[i] = q[i + 1]) /\ 1 \in 1 .. m
  <2> HIDE DEF m, r
  <2> QED
      BY <1>1
<1> HIDE DEF m, r
<1>3. AllLow(q) => AllLow(r)
    BY <1>2 DEF AllLow, m
<1>4. \A n : Acked(q, n) => Acked(r, n) /\ (Head(q).kind = "ACK" => Head(q).ack <= n)
    BY <1>1, <1>2 DEF Acked, m
<1> QED
    BY <1>3, <1>4 DEF r

LEMMA AppendLow ==
    ASSUME NEW S, NEW q \in Seq(S), NEW e \in S
    PROVE  /\ AllLow(q) /\ LowSegment(e) => AllLow(Append(q, e))
           /\ \A n : Acked(q, n) /\ (e.kind = "ACK" => e.ack <= n) => Acked(Append(q, e), n)
<1> DEFINE m == Len(q)
           r == Append(q, e)
<1>1. m \in Nat /\ Len(r) = m + 1 /\ r[m + 1] = e /\ \A i \in 1 .. m : r[i] = q[i]
    BY AppendType
<1>2. \A i \in 1 .. Len(r) : (i \in 1 .. m /\ r[i] = q[i]) \/ r[i] = e
  <2> HIDE DEF m, r
  <2> QED
      BY <1>1
<1> HIDE DEF m, r
<1>3. AllLow(q) /\ LowSegment(e) => AllLow(r)
    BY <1>2 DEF AllLow, m
<1>4. \A n : Acked(q, n) /\ (e.kind = "ACK" => e.ack <= n) => Acked(r, n)
    BY <1>2 DEF Acked, m
<1> QED
    BY <1>3, <1>4 DEF r

LEMMA ChannelMoves ==
    ASSUME Moves
    PROVE  /\ UNCHANGED up \/ TakesUp \/ ClientReplies \/ ClientEmits
           /\ UNCHANGED down \/ TakesDown \/ ServerReplies \/ ServerEmits
<1>1. UNCHANGED up \/ TakesUp \/ ClientReplies \/ ClientEmits
    BY DEF Moves, ClientProcMoves, ClientIgnores, ClientShakes, ClientTakesOver,
           ClientTakesAck, ClientTakesFin, ClientFinishesFin, ClientAcknowledges,
           ClientCmdMoves, ClientConnects, ClientInits, ClientTypes,
           ClientLeaves, ClientCloses, ClientAdvances, ServerMoves,
           ServerIgnores, ServerTakesSyn, ServerTakesAck, ServerTakesFin,
           ServerFinishesFin, ServerSends, ServerLeaves, ServerAcknowledges,
           ServerReplies, ServerCloses, ServerEmits, ServerAdvances
<1>2. UNCHANGED down \/ TakesDown \/ ServerReplies \/ ServerEmits
    BY DEF Moves, ClientProcMoves, ClientIgnores, ClientShakes, ClientTakesOver,
           ClientTakesAck, ClientTakesFin, ClientFinishesFin, ClientAcknowledges,
           ClientReplies, ClientCmdMoves, ClientConnects, ClientInits, ClientTypes,
           ClientLeaves, ClientCloses, ClientEmits, ClientAdvances, ServerMoves,
           ServerIgnores, ServerTakesSyn, ServerTakesAck, ServerTakesFin,
           ServerFinishesFin, ServerSends, ServerLeaves, ServerAcknowledges,
           ServerCloses, ServerAdvances
<1> QED
    BY <1>1, <1>2

LEMMA UpLow ==
    ASSUME Room, Types, HandInv, LowInv, BelowHalf, BelowHalf', Moves
    PROVE  AllLow(up')
<1>1. up \in Seq(FromClient) /\ AllLow(up) /\ ClientProcType /\ ClientCmdType
    BY DEF Types, LowInv
<1>2. CASE TakesUp
    BY <1>1, <1>2, TailLow DEF TakesUp
<1>3. CASE ClientReplies
  <2>1. /\ up' = Append(up, clientProc.seg)
        /\ clientProc.seg \in FromClient /\ Empty(clientProc.seg)
      BY <1>1, <1>3 DEF ClientReplies, ClientProcType
  <2>2. LowSegment(clientProc.seg)
      BY <2>1 DEF LowSegment, Consumes
  <2> QED
      BY <1>1, <2>1, <2>2, AppendLow
<1>4. CASE ClientEmits
  <2>1. /\ up' = Append(up, clientCmd.seg) /\ clientCmd.at = "emit"
        /\ clientCmd'.at = "advance" /\ clientCmd'.seg = clientCmd.seg /\ client' = client
      BY <1>4, PlaceFields DEF ClientEmits
  <2>2. /\ clientCmd.seg \in FromClient /\ clientCmd.seg \in Opener!Segment
        /\ clientCmd.seg.seq = client.snd_nxt /\ client \in Opener!Tcb /\ client # NoTcb
      BY <1>1, <2>1 DEF ClientCmdType, FromClient, HandInv, Types, Linked
  <2>3. Low(client.snd_nxt) /\ Low(Opener!Add(client.snd_nxt, Opener!Length(clientCmd.seg)))
      BY <2>1, <2>2 DEF BelowHalf, ClientNext
  <2>4. client.snd_nxt \in Opener!SeqNum
      BY <2>2 DEF Opener!Tcb
  <2>5. LowSegment(clientCmd.seg)
      BY <2>2, <2>3, <2>4, LowSum DEF LowSegment
  <2> QED
      BY <1>1, <2>1, <2>2, <2>5, AppendLow
<1> QED
    BY <1>1, <1>2, <1>3, <1>4, ChannelMoves

LEMMA DownLow ==
    ASSUME Room, Types, HandInv, LowInv, BelowHalf, BelowHalf', Moves
    PROVE  AllLow(down')
<1>1. down \in Seq(FromServer) /\ AllLow(down) /\ ServerProcType
    BY DEF Types, LowInv
<1>2. CASE TakesDown
    BY <1>1, <1>2, TailLow DEF TakesDown
<1>3. CASE ServerReplies
  <2>1. /\ down' = Append(down, serverProc.seg) /\ serverProc.seg \in FromServer
        /\ serverProc.seg.kind = "SYNACK" \/ Empty(serverProc.seg)
      BY <1>1, <1>3 DEF ServerReplies, ServerProcType
  <2>2. LowSegment(serverProc.seg)
      BY <2>1 DEF LowSegment, Consumes
  <2> QED
      BY <1>1, <2>1, <2>2, AppendLow
<1>4. CASE ServerEmits
  <2>1. /\ down' = Append(down, serverProc.seg) /\ serverProc.at = "emit"
        /\ serverProc'.at = "advance" /\ serverProc'.seg = serverProc.seg /\ server' = server
      BY <1>4, PlaceFields DEF ServerEmits
  <2>2. /\ serverProc.seg \in FromServer /\ serverProc.seg \in Opener!Segment
        /\ serverProc.seg.seq = server.snd_nxt /\ server \in Opener!Tcb /\ server # NoTcb
      BY <1>1, <2>1 DEF ServerProcType, FromServer, HandInv, Types, Linked
  <2>3. Low(server.snd_nxt) /\ Low(Opener!Add(server.snd_nxt, Opener!Length(serverProc.seg)))
      BY <2>1, <2>2 DEF BelowHalf, ServerNext
  <2>4. server.snd_nxt \in Opener!SeqNum
      BY <2>2 DEF Opener!Tcb
  <2>5. LowSegment(serverProc.seg)
      BY <2>2, <2>3, <2>4, LowSum DEF LowSegment
  <2> QED
      BY <1>1, <2>1, <2>2, <2>5, AppendLow
<1> QED
    BY <1>1, <1>2, <1>3, <1>4, ChannelMoves

LEMMA LowStep ==
    ASSUME Room, Types, Types', HandInv, PhaseInv, CloseInv, LowInv, BelowHalf, BelowHalf', Moves
    PROVE  LowInv'
<1>1. AllLow(up') /\ AllLow(down')
    BY UpLow, DownLow
<1>2. ASSUME client' # NoTcb
      PROVE  /\ Low(client'.rcv_nxt) /\ Low(ClientWants')
             /\ clientCmd'.at = "connect" \/ client'.state = "SYN_SENT"
                    \/ clientProc'.at = "shaking" => client'.rcv_nxt = 0
  <2>1. CASE Shaken
    <3>1. clientCmd'.at # "connect" /\ client'.state # "SYN_SENT"
        BY <2>1, PhaseStep DEF Shaken
    <3>2. CASE ClientProcMoves
        BY <2>1, <3>1, <3>2, ClientRises
    <3>3. CASE ClientCmdMoves
      <4>1. client'.rcv_nxt = client.rcv_nxt /\ clientProc' = clientProc
          BY <2>1, <3>3, ClientCmdKeeps DEF Shaken
      <4>2. ClientWants' = ClientWants
          BY <4>1 DEF ClientWants
      <4> QED
          BY <2>1, <3>1, <4>1, <4>2 DEF LowInv, Shaken
    <3>4. CASE ServerMoves
      <4>1. UNCHANGED <<client, clientProc>>
          BY <3>4 DEF ServerMoves
      <4>2. ClientWants' = ClientWants
          BY <4>1 DEF ClientWants
      <4> QED
          BY <2>1, <3>1, <4>1, <4>2 DEF LowInv, Shaken
    <3> QED
        BY <3>2, <3>3, <3>4 DEF Moves
  <2>2. CASE ~Shaken
    <3>1. client'.rcv_nxt = 0
        BY <1>2, <2>2, EarlyMoves
    <3>2. Low(0)
      <4>1. ClientNext' \in Nat
        <5>1. client' \in Opener!Tcb /\ ClientCmdType'
            BY <1>2 DEF Types
        <5>2. client'.snd_nxt \in Opener!SeqNum
            BY <5>1 DEF Opener!Tcb
        <5>3. clientCmd'.seg \in Opener!Segment
            BY <5>1 DEF ClientCmdType
        <5>4. Opener!Add(client'.snd_nxt, Opener!Length(clientCmd'.seg)) \in Opener!SeqNum
            BY <5>2, <5>3, AddType, LengthType
        <5> QED
            BY <5>2, <5>4 DEF ClientNext, Opener!SeqNum
      <4> QED
          BY <1>2, <4>1, LowStart DEF BelowHalf
    <3>3. CASE clientProc'.at = "idle"
        BY <3>1, <3>2, <3>3 DEF ClientWants
    <3>4. CASE ClientWants' = ServerNext /\ server # NoTcb
        BY <3>1, <3>2, <3>4 DEF BelowHalf
    <3> QED
        BY <2>2, <3>3, <3>4, EarlyMoves
  <2> QED
      BY <2>1, <2>2
<1>3. ASSUME server' # NoTcb
      PROVE  Low(server'.rcv_nxt)
  <2>1. CASE server' = server
      BY <1>3, <2>1 DEF LowInv
  <2>2. CASE server' # server
    <3>1. ServerMoves
        BY <2>2 DEF Moves, ClientProcMoves, ClientCmdMoves
    <3>2. CASE Shaken
        BY <3>1, <3>2, ServerRises
    <3>3. CASE ~Shaken
      <4>1. server = NoTcb
          BY <2>2, <3>3, EarlyMoves
      <4>2. SynSent
        <5>1. ~SynTaken /\ ~Shaken
            BY <4>1 DEF SynTaken, Shaken
        <5>2. ~Unopened
            BY <1>3, UnopenedStep DEF Opening
        <5>3. ~Opening
            BY <1>3, OpeningStep DEF Opening, SynSent
        <5> QED
            BY <5>1, <5>2, <5>3 DEF PhaseInv
      <4>3. SynTaken'
          BY <1>3, <4>2, SynSentStep DEF SynSent
      <4> QED
          BY <4>3 DEF SynTaken, Syn, BelowHalf
    <3> QED
        BY <3>2, <3>3
  <2> QED
      BY <2>1, <2>2
<1> QED
    BY <1>1, <1>2, <1>3 DEF LowInv

LEMMA ClientHeld ==
    ASSUME Types, Types', HandInv, PhaseInv, CloseInv, LowInv, Moves, client # NoTcb,
           Held(clientCmd, client.rcv_nxt), Held(clientProc, client.rcv_nxt),
           Acked(up, client.rcv_nxt)
    PROVE  /\ Held(clientCmd', client'.rcv_nxt) /\ Held(clientProc', client'.rcv_nxt)
           /\ Acked(up', client'.rcv_nxt)
<1>1. client' # NoTcb /\ client.rcv_nxt <= client'.rcv_nxt
    BY ClientGrows
<1>2. /\ client \in Opener!Tcb /\ client' \in Opener!Tcb
      /\ client.rcv_nxt \in Nat /\ client'.rcv_nxt \in Nat
      /\ up \in Seq(FromClient)
      /\ \A seg \in Opener!Segment : seg.ack \in Nat
      /\ ClientProcType /\ ClientCmdType
    BY <1>1 DEF Types, Opener!Tcb, Opener!SeqNum, Opener!Segment
<1>3. /\ clientProc.seg \in Opener!Segment /\ clientCmd.seg \in Opener!Segment
      /\ FromClient \subseteq Opener!Segment
    BY <1>2 DEF ClientProcType, ClientCmdType, FromClient
<1>4. \A seg \in Opener!Segment : seg.ack <= client.rcv_nxt => seg.ack <= client'.rcv_nxt
    BY <1>1, <1>2
<1>5. Held(clientCmd, client'.rcv_nxt) /\ Held(clientProc, client'.rcv_nxt)
    BY <1>3, <1>4 DEF Held
<1>6. Acked(up, client'.rcv_nxt)
  <2>1. \A i \in 1 .. Len(up) : up[i] \in Opener!Segment
      BY <1>2, <1>3
  <2> QED
      BY <1>4, <2>1 DEF Acked
<1>7. Held(clientCmd', client'.rcv_nxt)
  <2>1. CASE clientCmd' = clientCmd
      BY <1>5, <2>1
  <2>2. CASE ClientInits
    <3>1. clientCmd' = Place("emit", Opener!Header(client', "SYN", 0))
        BY <2>2 DEF ClientInits
    <3> QED
        BY <3>1, PlaceFields DEF Held, Opener!Header
  <2>3. CASE ClientTypes
    <3>1. \/ clientCmd' = clientCmd
          \/ \E len \in Typed : /\ clientCmd' = Place("emit", Opener!Header(client, "ACK", len))
                                /\ len \in 0 .. MaxLen
        BY <2>3, SizeAssumption DEF ClientTypes
    <3>2. ASSUME NEW len \in Typed, clientCmd' = Place("emit", Opener!Header(client, "ACK", len))
          PROVE  Held(clientCmd', client'.rcv_nxt)
      <4>1. clientCmd'.seg.ack = client.rcv_nxt
          BY <3>2, PlaceFields DEF Opener!Header
      <4> QED
          BY <1>1, <4>1 DEF Held
    <3> QED
        BY <2>1, <3>1, <3>2
  <2>4. CASE ClientCloses
    <3>1. clientCmd'.seg.kind = "FIN"
        BY <2>4, PlaceFields DEF ClientCloses, Opener!Header
    <3> QED
        BY <3>1 DEF Held
  <2>5. CASE ClientConnects \/ ClientLeaves \/ ClientEmits \/ ClientAdvances
    <3>1. clientCmd'.at \notin {"emit", "reply"}
        BY <2>5, PlaceFields, RestFields
           DEF ClientConnects, ClientLeaves, ClientEmits, ClientAdvances
    <3> QED
        BY <3>1 DEF Held
  <2>6. clientCmd' = clientCmd \/ ClientCmdMoves
      BY DEF Moves, ServerMoves, ClientProcMoves, ClientIgnores, ClientShakes, ClientTakesOver,
             ClientTakesAck, ClientTakesFin, ClientFinishesFin, ClientAcknowledges,
             ClientReplies
  <2> QED
      BY <2>1, <2>2, <2>3, <2>4, <2>5, <2>6 DEF ClientCmdMoves
<1>8. Held(clientProc', client'.rcv_nxt)
  <2>1. CASE clientProc' = clientProc
      BY <1>5, <2>1
  <2>2. CASE ClientTakesOver \/ ClientFinishesFin \/ ClientAcknowledges
    <3>1. clientProc'.seg.ack = client'.rcv_nxt
        BY <2>2, PlaceFields
           DEF ClientTakesOver, ClientFinishesFin, ClientAcknowledges, Opener!Header
    <3> QED
        BY <1>2, <3>1 DEF Held
  <2>3. CASE clientProc'.at \notin {"emit", "reply"}
      BY <2>3 DEF Held
  <2>4. CASE ClientShakes \/ ClientTakesAck \/ ClientTakesFin \/ ClientReplies
    <3>1. clientProc' = clientProc \/ clientProc'.at \notin {"emit", "reply"}
        BY <2>4, PlaceFields, RestFields
           DEF ClientShakes, ClientTakesAck, ClientTakesFin, ClientReplies, Opener!AtFin
    <3> QED
        BY <2>1, <2>3, <3>1
  <2>5. clientProc' = clientProc \/ ClientProcMoves
      BY DEF Moves, ServerMoves, ClientCmdMoves, ClientConnects, ClientInits, ClientTypes,
             ClientLeaves, ClientCloses, ClientEmits, ClientAdvances
  <2> QED
      BY <2>1, <2>2, <2>4, <2>5 DEF ClientProcMoves, ClientIgnores
<1>9. Acked(up', client'.rcv_nxt)
  <2>1. CASE UNCHANGED up
      BY <1>6, <2>1
  <2>2. CASE TakesUp
      BY <1>2, <1>6, <2>2, TailLow DEF TakesUp
  <2>3. CASE ClientReplies
    <3>1. /\ clientProc.seg \in FromClient /\ up' = Append(up, clientProc.seg)
          /\ clientProc.at = "reply"
        BY <1>2, <2>3 DEF ClientReplies, ClientProcType
    <3> QED
        BY <1>2, <1>5, <1>6, <3>1, AppendLow DEF Held
  <2>4. CASE ClientEmits
    <3>1. /\ clientCmd.seg \in FromClient /\ up' = Append(up, clientCmd.seg)
          /\ clientCmd.at = "emit"
        BY <1>2, <2>4 DEF ClientEmits, ClientCmdType
    <3> QED
        BY <1>2, <1>5, <1>6, <3>1, AppendLow DEF Held
  <2> QED
      BY <2>1, <2>2, <2>3, <2>4, ChannelMoves
<1> QED
    BY <1>7, <1>8, <1>9

LEMMA ServerHeld ==
    ASSUME Types, Types', PhaseInv, CloseInv, LowInv, Moves, server # NoTcb,
           Held(serverProc, server.rcv_nxt), Acked(down, server.rcv_nxt)
    PROVE  Held(serverProc', server'.rcv_nxt) /\ Acked(down', server'.rcv_nxt)
<1>1. server' # NoTcb /\ server.rcv_nxt <= server'.rcv_nxt
    BY ServerGrows
<1>2. /\ server \in Opener!Tcb /\ server' \in Opener!Tcb
      /\ server.rcv_nxt \in Nat /\ server'.rcv_nxt \in Nat
      /\ down \in Seq(FromServer)
      /\ \A seg \in Opener!Segment : seg.ack \in Nat
      /\ ServerProcType
    BY <1>1 DEF Types, Opener!Tcb, Opener!SeqNum, Opener!Segment
<1>3. serverProc.seg \in Opener!Segment /\ FromServer \subseteq Opener!Segment
    BY <1>2 DEF ServerProcType, FromServer
<1>4. \A seg \in Opener!Segment : seg.ack <= server.rcv_nxt => seg.ack <= server'.rcv_nxt
    BY <1>1, <1>2
<1>5. Held(serverProc, server'.rcv_nxt)
    BY <1>3, <1>4 DEF Held
<1>6. Acked(down, server'.rcv_nxt)
  <2>1. \A i \in 1 .. Len(down) : down[i] \in Opener!Segment
      BY <1>2, <1>3
  <2> QED
      BY <1>4, <2>1 DEF Acked
<1>7. Held(serverProc', server'.rcv_nxt)
  <2>1. CASE serverProc' = serverProc
      BY <1>5, <2>1
  <2>2. CASE ServerTakesSyn
    <3>1. serverProc'.seg.kind = "SYNACK"
        BY <2>2, PlaceFields DEF ServerTakesSyn, Opener!Header
    <3> QED
        BY <3>1 DEF Held
  <2>3. CASE ServerFinishesFin \/ ServerAcknowledges
    <3>1. serverProc'.seg.ack = server'.rcv_nxt
        BY <2>3, PlaceFields DEF ServerFinishesFin, ServerAcknowledges, Opener!Header
    <3> QED
        BY <1>2, <3>1 DEF Held
  <2>4. CASE ServerSends
    <3>1. \/ serverProc' = serverProc
          \/ serverProc' = Place("emit", Opener!Header(server, "ACK", Head(serverCalls)))
        BY <2>4 DEF ServerSends
    <3>2. ASSUME serverProc' = Place("emit", Opener!Header(server, "ACK", Head(serverCalls)))
          PROVE  Held(serverProc', server'.rcv_nxt)
      <4>1. serverProc'.seg.ack = server.rcv_nxt
          BY <3>2, PlaceFields DEF Opener!Header
      <4> QED
          BY <1>1, <4>1 DEF Held
    <3> QED
        BY <2>1, <3>1, <3>2
  <2>5. CASE ServerCloses
    <3>1. serverProc'.seg.kind = "FIN"
        BY <2>5, PlaceFields DEF ServerCloses, Opener!Header
    <3> QED
        BY <3>1 DEF Held
  <2>6. CASE \/ ServerTakesAck \/ ServerTakesFin \/ ServerLeaves \/ ServerReplies
             \/ ServerEmits \/ ServerAdvances
    <3>1. serverProc' = serverProc \/ serverProc'.at \notin {"emit", "reply"}
        BY <2>6, PlaceFields, RestFields
           DEF ServerTakesAck, ServerTakesFin, ServerLeaves, ServerReplies, ServerEmits,
               ServerAdvances, Opener!AtFin
    <3> QED
        BY <2>1, <3>1 DEF Held
  <2>7. serverProc' = serverProc \/ ServerMoves
      BY DEF Moves, ClientProcMoves, ClientCmdMoves
  <2> QED
      BY <2>1, <2>2, <2>3, <2>4, <2>5, <2>6, <2>7 DEF ServerMoves, ServerIgnores
<1>8. Acked(down', server'.rcv_nxt)
  <2>1. CASE UNCHANGED down
      BY <1>6, <2>1
  <2>2. CASE TakesDown
      BY <1>2, <1>6, <2>2, TailLow DEF TakesDown
  <2>3. CASE ServerReplies
    <3>1. /\ serverProc.seg \in FromServer /\ down' = Append(down, serverProc.seg)
          /\ serverProc.at = "reply"
        BY <1>2, <2>3 DEF ServerReplies, ServerProcType
    <3> QED
        BY <1>2, <1>5, <1>6, <3>1, AppendLow DEF Held
  <2>4. CASE ServerEmits
    <3>1. /\ serverProc.seg \in FromServer /\ down' = Append(down, serverProc.seg)
          /\ serverProc.at = "emit"
        BY <1>2, <2>4 DEF ServerEmits, ServerProcType
    <3> QED
        BY <1>2, <1>5, <1>6, <3>1, AppendLow DEF Held
  <2> QED
      BY <2>1, <2>2, <2>3, <2>4, ChannelMoves
<1> QED
    BY <1>7, <1>8

LEMMA AckStep ==
    ASSUME Types, Types', HandInv, PhaseInv, CloseInv, LowInv, AckInv, Moves
    PROVE  AckInv'
<1>1. ASSUME client # NoTcb
      PROVE  /\ Acked(up', client'.rcv_nxt)
             /\ Held(clientCmd', client'.rcv_nxt) /\ Held(clientProc', client'.rcv_nxt)
    BY <1>1, ClientHeld DEF AckInv
<1>2. ASSUME client = NoTcb, client' # NoTcb
      PROVE  /\ Acked(up', client'.rcv_nxt)
             /\ Held(clientCmd', client'.rcv_nxt) /\ Held(clientProc', client'.rcv_nxt)
  <2>1. Unopened
      BY <1>2 DEF PhaseInv, Opening, SynSent, SynTaken, Syn, Shaken
  <2>2. Opening'
      BY <2>1, UnopenedStep
  <2>3. up' = <<>> /\ clientProc'.at = "idle"
      BY <2>2 DEF Opening, AllIdle
  <2>4. clientCmd'.at = "connect" \/ clientCmd'.seg.kind = "SYN"
      BY <2>2 DEF Opening
  <2> QED
      BY <2>3, <2>4 DEF Acked, Held
<1>3. ASSUME server # NoTcb
      PROVE  Acked(down', server'.rcv_nxt) /\ Held(serverProc', server'.rcv_nxt)
    BY <1>3, ServerHeld DEF AckInv
<1>4. ASSUME server = NoTcb, server' # NoTcb
      PROVE  Acked(down', server'.rcv_nxt) /\ Held(serverProc', server'.rcv_nxt)
  <2>1. SynSent
    <3>1. ~SynTaken /\ ~Shaken
        BY <1>4 DEF SynTaken, Shaken
    <3>2. ~Unopened
        BY <1>4, UnopenedStep DEF Opening
    <3>3. ~Opening
        BY <1>4, OpeningStep DEF Opening, SynSent
    <3> QED
        BY <3>1, <3>2, <3>3 DEF PhaseInv
  <2>2. SynTaken' /\ TakesUp /\ UNCHANGED down
    <3>1. SynTaken'
        BY <1>4, <2>1, SynSentStep DEF SynSent
    <3>2. ServerMoves /\ serverProc.at = "idle" /\ ~Live(server)
        BY <1>4, <2>1 DEF Moves, ClientProcMoves, ClientCmdMoves, SynSent, Live
    <3> QED
        BY <1>4, <3>1, <3>2 DEF ServerMoves, ServerIgnores, ServerTakesSyn, ServerTakesAck,
                ServerTakesFin, ServerFinishesFin, ServerSends, ServerLeaves,
                ServerAcknowledges, ServerReplies, ServerCloses, ServerEmits, ServerAdvances
  <2>3. down' = <<>> /\ (serverProc'.at = "idle" \/ serverProc'.seg.kind = "SYNACK")
      BY <2>1, <2>2 DEF SynSent, SynTaken
  <2> QED
      BY <2>3 DEF Acked, Held
<1> QED
    BY <1>1, <1>2, <1>3, <1>4 DEF AckInv

LEMMA LowReach ==
    ASSUME NEW n \in Opener!SeqNum, NEW a \in Opener!SeqNum, Low(n), a <= n
    PROVE  Opener!Sub(n, a) < SeqMod \div 2
<1>1. n \in Nat /\ a \in Nat /\ n < SeqMod /\ n - a \in 0 .. SeqMod - 1
    BY SeqModAssumption DEF Opener!SeqNum
<1>2. Opener!Sub(n, a) = n - a
    BY <1>1, SeqModAssumption DEF Opener!Sub
<1> QED
    BY <1>1, <1>2, SeqModAssumption DEF Low

\* Only an acknowledgement releases a kept payload, and only when it covers it.
LEMMA ClientReleases ==
    ASSUME Types, PhaseInv, CloseInv, LowInv, AckInv, Moves,
           client # NoTcb, client.buf # NoBuf, client'.buf = NoBuf
    PROVE  Opener!Sub(server.rcv_nxt, End(client.buf)) < SeqMod \div 2
<1>1. /\ Shaken /\ client \in Opener!Tcb /\ server \in Opener!Tcb /\ server # NoTcb
      /\ down \in Seq(FromServer) /\ FromServer \subseteq Opener!Segment
    BY DEF PhaseInv, Unopened, Opening, SynSent, SynTaken, Syn, Shaken, Types, FromServer
<1>2. ClientTakesAck
  <2>1. ~ServerMoves
      BY DEF ServerMoves
  <2>2. ~ClientCmdMoves
    <3>1. ~ClientTypes
      <4>1. \A len \in Typed : [seq |-> client.snd_nxt, len |-> len]
                                   \in [seq : Opener!SeqNum, len : 1 .. MaxLen]
          BY <1>1, SizeAssumption DEF Opener!Tcb
      <4>2. \A len \in Typed : [seq |-> client.snd_nxt, len |-> len] # NoBuf
          BY <4>1, NullAssumption
      <4>3. \A buf : [client EXCEPT !.buf = buf].buf = buf
          BY <1>1 DEF Opener!Tcb
      <4> QED
          BY <4>2, <4>3 DEF ClientTypes
    <3>2. ~ClientInits /\ ~ClientCloses /\ ~ClientAdvances
        BY <1>1 DEF ClientInits, ClientCloses, ClientAdvances, Opener!Tcb
    <3> QED
        BY <3>1, <3>2 DEF ClientCmdMoves, ClientConnects, ClientLeaves, ClientEmits
  <2>3. ~ClientShakes /\ ~ClientTakesOver /\ ~ClientTakesFin /\ ~ClientFinishesFin
      BY <1>1 DEF ClientShakes, ClientTakesOver, ClientTakesFin, ClientFinishesFin, Opener!Tcb
  <2> QED
      BY <2>1, <2>2, <2>3
         DEF Moves, ClientProcMoves, ClientIgnores, ClientAcknowledges, ClientReplies
<1>3. /\ down # <<>> /\ Head(down).kind = "ACK" /\ Head(down) \in Opener!Segment
      /\ Head(down).ack <= server.rcv_nxt
  <2>1. down # <<>> /\ Head(down).kind = "ACK"
      BY <1>2 DEF ClientTakesAck, TakesDown
  <2>2. Head(down) \in Opener!Segment
      BY <1>1, <2>1, TailType
  <2> QED
      BY <1>1, <2>1, <2>2, TailLow DEF AckInv
<1>4. Opener!Acknowledge(client, Head(down)).buf = NoBuf
  <2>1. Opener!Acknowledge(client, Head(down)) \in Opener!Tcb
      BY <1>1, <1>3, AcknowledgeType
  <2> QED
      BY <1>2, <2>1 DEF ClientTakesAck, Opener!Tcb
<1>5. End(client.buf) \in Opener!SeqNum /\ Head(down).ack >= End(client.buf)
  <2>1. client.buf.seq \in Opener!SeqNum /\ client.buf.len \in Nat /\ client.buf.len <= SeqMod
      BY <1>1, SizeAssumption, SeqModAssumption DEF Opener!Tcb
  <2>2. Head(down).ack >= End(client.buf)
      BY <1>1, <1>3, <1>4, AcknowledgeType DEF End
  <2> QED
      BY <2>1, <2>2, AddType DEF End
<1>6. server.rcv_nxt \in Opener!SeqNum /\ Low(server.rcv_nxt)
    BY <1>1 DEF LowInv, Opener!Tcb
<1>7. End(client.buf) <= server.rcv_nxt
    BY <1>3, <1>5, <1>6 DEF Opener!SeqNum, Opener!Segment
<1> QED
    BY <1>5, <1>6, <1>7, LowReach

LEMMA ServerReleases ==
    ASSUME Types, PhaseInv, CloseInv, LowInv, AckInv, Moves,
           server # NoTcb, server.buf # NoBuf, server'.buf = NoBuf
    PROVE  Opener!Sub(client.rcv_nxt, End(server.buf)) < SeqMod \div 2
<1>1. /\ Shaken /\ client \in Opener!Tcb /\ server \in Opener!Tcb /\ client # NoTcb
      /\ up \in Seq(FromClient) /\ FromClient \subseteq Opener!Segment
      /\ serverCalls \in Opener!Script
    BY DEF PhaseInv, Unopened, Opening, SynSent, SynTaken, Syn, Shaken, Types, FromClient
<1>2. ServerTakesAck
  <2>1. ~ClientProcMoves /\ ~ClientCmdMoves
      BY DEF ClientProcMoves, ClientCmdMoves
  <2>2. ServerMoves
      BY <2>1 DEF Moves
  <2>3. ~ServerTakesSyn
      BY <1>1, <2>2, ServerTakes
  <2>4. ~ServerSends
    <3>1. ASSUME serverCalls # <<>>, Head(serverCalls) # 0
          PROVE  Head(serverCalls) \in 1 .. MaxLen
      <4>1. Head(serverCalls) \in 0 .. MaxLen
          BY <1>1, <3>1, SizeAssumption DEF Opener!Script, Opener!Close
      <4> QED
          BY <3>1, <4>1, SizeAssumption
    <3>2. \A buf : [server EXCEPT !.buf = buf].buf = buf
        BY <1>1 DEF Opener!Tcb
    <3>3. \A len \in 1 .. MaxLen : [seq |-> server.snd_nxt, len |-> len]
                                       \in [seq : Opener!SeqNum, len : 1 .. MaxLen]
        BY <1>1 DEF Opener!Tcb
    <3> QED
        BY <3>1, <3>2, <3>3, NullAssumption, ZenonT(40) DEF ServerSends
  <2>5. ~ServerTakesFin /\ ~ServerFinishesFin /\ ~ServerCloses /\ ~ServerAdvances
      BY <1>1 DEF ServerTakesFin, ServerFinishesFin, ServerCloses, ServerAdvances, Opener!Tcb
  <2> QED
      BY <2>2, <2>3, <2>4, <2>5
         DEF ServerMoves, ServerIgnores, ServerLeaves, ServerAcknowledges, ServerReplies,
             ServerEmits
<1>3. /\ up # <<>> /\ Head(up).kind = "ACK" /\ Head(up) \in Opener!Segment
      /\ Head(up).ack <= client.rcv_nxt
  <2>1. up # <<>> /\ Head(up).kind = "ACK"
      BY <1>2 DEF ServerTakesAck, TakesUp
  <2>2. Head(up) \in Opener!Segment
      BY <1>1, <2>1, TailType
  <2> QED
      BY <1>1, <2>1, <2>2, TailLow DEF AckInv
<1>4. Opener!Acknowledge(server, Head(up)).buf = NoBuf
  <2>1. Opener!Acknowledge(server, Head(up)) \in Opener!Tcb
      BY <1>1, <1>3, AcknowledgeType
  <2> QED
      BY <1>2, <2>1 DEF ServerTakesAck, Opener!Tcb
<1>5. End(server.buf) \in Opener!SeqNum /\ Head(up).ack >= End(server.buf)
  <2>1. server.buf.seq \in Opener!SeqNum /\ server.buf.len \in Nat /\ server.buf.len <= SeqMod
      BY <1>1, SizeAssumption, SeqModAssumption DEF Opener!Tcb
  <2>2. Head(up).ack >= End(server.buf)
      BY <1>1, <1>3, <1>4, AcknowledgeType DEF End
  <2> QED
      BY <2>1, <2>2, AddType DEF End
<1>6. client.rcv_nxt \in Opener!SeqNum /\ Low(client.rcv_nxt)
    BY <1>1 DEF LowInv, Opener!Tcb
<1>7. End(server.buf) <= client.rcv_nxt
    BY <1>3, <1>5, <1>6 DEF Opener!SeqNum, Opener!Segment
<1> QED
    BY <1>5, <1>6, <1>7, LowReach

\* A kept payload is released only when its last byte has arrived (tcp.c:130), in every
\* behaviour that keeps both streams in the lower half of the sequence space.
THEOREM ReleasedInLowerHalf ==
    ASSUME Perfect, Room
    PROVE  Spec /\ []BelowHalf => ReleasedWhenReceived
<1> DEFINE LowHalf == Unheard \/ (LowInv /\ AckInv)
           Right == /\ Released(toClient, clientTcb, serverTcb)
                    /\ Released(toServer, serverTcb, clientTcb)
<1>1. ASSUME Init
      PROVE  LowHalf
  <2>1. Shape /\ PairInv /\ clientTcb = [k \in {K} |-> NoTcb] /\ serverTcb = [k \in {K} |-> NoTcb]
      BY <1>1, InitPair DEF Init, Opener!Init, Acceptor!Init
  <2>2. toServer = [k \in {K} |-> <<>>] /\ toClient = [k \in {K} |-> <<>>]
      BY <1>1 DEF Init, Opener!Init
  <2>3. client = NoTcb /\ server = NoTcb /\ up = <<>> /\ down = <<>>
      BY <2>1, <2>2 DEF client, server, up, down
  <2> QED
      BY <2>3 DEF LowInv, AckInv, AllLow
<1>2. ASSUME Shape, HostsInv, (Shape /\ HostsInv)', LowHalf, BelowHalf, BelowHalf',
             [Next]_vars
      PROVE  LowHalf'
  <2>1. Types /\ Types' /\ Known
      BY <1>2 DEF HostsInv, PairInv, Unheard
  <2>2. Moves \/ ClientFails \/ ServerFails \/ Stays
      BY <1>2, <2>1, NextIs, Stutter DEF Moves
  <2>3. CASE Unheard
      BY <2>1, <2>2, <2>3, UnheardStep
  <2>4. CASE ~Unheard
    <3>1. HandInv /\ PhaseInv /\ CloseInv /\ LowInv /\ AckInv
        BY <1>2, <2>4 DEF HostsInv, PairInv
    <3>2. CASE Moves
        BY <1>2, <2>1, <3>1, <3>2, LowStep, AckStep
    <3>3. CASE ClientFails /\ ClientDrops
        BY <2>1, <3>1, <3>3, DropStep DEF ClientFails
    <3>4. CASE (ClientFails /\ ClientForgets) \/ ServerFails
      <4>1. /\ UNCHANGED <<clientProc, clientCmd, serverProc, up, down>>
            /\ client # NoTcb /\ server # NoTcb
            /\ client'.state = client.state
            /\ client'.rcv_nxt = client.rcv_nxt /\ server'.rcv_nxt = server.rcv_nxt
          BY <2>1, <3>1, <3>4, ForgetsKeeps DEF ClientFails
      <4>2. ClientWants' = ClientWants
          BY <4>1 DEF ClientWants
      <4> QED
          BY <3>1, <4>1, <4>2 DEF LowInv, AckInv
    <3>5. CASE Stays
        BY <3>1, <3>5 DEF Stays, LowInv, AckInv, ClientWants
    <3> QED
        BY <2>2, <3>2, <3>3, <3>4, <3>5 DEF ClientFails
  <2> QED
      BY <2>3, <2>4
<1>3. ASSUME Shape, HostsInv, HostsInv', LowHalf, [Next]_vars
      PROVE  [Right]_vars
  <2>1. SUFFICES ASSUME Next PROVE Right
      BY <1>3
  <2>2. Types /\ Types' /\ Known
      BY <1>3 DEF HostsInv, PairInv, Unheard
  <2>3. Moves \/ ClientFails \/ ServerFails \/ Stays
      BY <1>3, <2>1, <2>2, NextIs DEF Moves
  <2>4. CASE Moves /\ ~Unheard
    <3>1. PhaseInv /\ CloseInv /\ LowInv /\ AckInv
        BY <1>3, <2>4 DEF HostsInv, PairInv
    <3> QED
        BY <2>2, <2>4, <3>1, ClientReleases, ServerReleases DEF Released, client, server, End
  <2>5. CASE ~Moves \/ Unheard
    <3>1. UNCHANGED <<up, down>>
        BY <2>2, <2>3, <2>5, UnheardStep
           DEF ClientFails, ClientForgets, ClientDrops, ServerFails, ServerForgets, Stays
    <3>2. Len(up) \in Nat /\ Len(down) \in Nat
        BY <2>2 DEF Types
    <3> QED
        BY <3>1, <3>2 DEF Released, Taken, up, down
  <2> QED
      BY <2>4, <2>5
<1>4. /\ Init => LowHalf
      /\ Shape /\ HostsInv /\ (Shape /\ HostsInv)' /\ LowHalf /\ BelowHalf /\ BelowHalf'
             /\ [Next]_vars => LowHalf'
      /\ Shape /\ HostsInv /\ (Shape /\ HostsInv)' /\ LowHalf /\ [Next]_vars => [Right]_vars
    BY <1>1, <1>2, <1>3
<1>5. [][Right]_vars => ReleasedWhenReceived
    BY DEF ReleasedWhenReceived
<1> HIDE DEF LowHalf, Right
<1> QED
    BY <1>4, <1>5, PairInvariant, PTL DEF Spec

-------------------------------------------------------------------------------
\* The closing once more, for a server that has something unacknowledged when it
\* closes, as handle_http_request has, which sends its header before it calls
\* tcp_close, unless no memory was found to keep it: then an ACK of the client comes
\* before the client's own FIN.

\* The client is, or is to be, released in LAST_ACK; it closes, or has closed, without
\* having waited for the peer.
ClientLast    == client.state = "LAST_ACK" \/ ~client.valid
ClientClosing == \/ clientCmd.at \in {"active_close", "idle"}
                 \/ clientCmd.at \in {"emit", "advance"} /\ clientCmd.seg.kind = "FIN"
FinInHand     == clientCmd.at = "emit" /\ clientCmd.seg.kind = "FIN"

\* An acknowledgement comes before any FIN.
AckFirst(q) == \E i \in 1 .. Len(q) : /\ q[i].kind = "ACK"
                                      /\ \A j \in 1 .. i : q[j].kind # "FIN"

\* The server never closes passively: its application is called with a payload only,
\* and none comes after the FIN.  As long as nobody has answered its own FIN it keeps a
\* payload.
ServerTurn == server # NoTcb =>
    /\ server.valid /\ server.state \notin {"CLOSED", "LAST_ACK"}
    /\ serverProc.at # "passive_close"
    /\ "rcvd" \in serverEnds => serverProc.at \notin {"app", "active_close", "emit", "advance"}
    /\ server.state = "FIN_WAIT_1" => server.buf # NoBuf

\* A FIN sent in LAST_ACK is in hand, under way or taken in FIN_WAIT_2; before that, an
\* acknowledgement is in front of it, which takes the server out of FIN_WAIT_1.
ClientTurn == client # NoTcb =>
    /\ client.state = "CLOSED" => ~client.valid \/ clientCmd.at = "connect"
    /\ ClientLast => \/ FinInHand \/ HasFin(up)
                     \/ /\ server # NoTcb
                        /\ serverProc.at = "to_TIME_WAIT" \/ server.state = "TIME_WAIT"
    /\ "rcvd" \in clientEnds /\ server.state = "FIN_WAIT_1" =>
           (ClientClosing /\ ~ClientLast) \/ AckFirst(up)

TurnInv == ServerTurn /\ ClientTurn

\* What taking a segment and putting one in do to the order of ACK and FIN.
LEMMA TailFirst ==
    ASSUME NEW S, NEW q \in Seq(S), q # <<>>
    PROVE  /\ HasFin(q) => HasFin(Tail(q)) \/ Head(q).kind = "FIN"
           /\ AckFirst(q) => /\ Head(q).kind # "FIN"
                             /\ Head(q).kind = "ACK" \/ AckFirst(Tail(q))
           /\ \A buf : Acks(q, buf) /\ ~HasFin(q) => AckFirst(q)
<1> DEFINE n == Len(q)
           r == Tail(q)
<1>1. n \in Nat \ {0} /\ Len(r) = n - 1 /\ Head(q) = q[1]
    BY TailType
<1>2. \A i \in 1 .. n - 1 : r[i] = q[i + 1]
    BY TailType
<1> HIDE DEF n, r
<1>3. /\ \A i \in 1 .. n : i # 1 => i - 1 \in 1 .. Len(r) /\ r[i - 1] = q[i]
      /\ \A i \in 1 .. Len(r) : i + 1 \in 1 .. n /\ r[i] = q[i + 1]
      /\ 1 \in 1 .. n
    BY <1>1, <1>2
<1>4. HasFin(q) => HasFin(r) \/ Head(q).kind = "FIN"
    BY <1>1, <1>3 DEF HasFin, n
<1>5. ASSUME AckFirst(q)
      PROVE  Head(q).kind # "FIN" /\ (Head(q).kind = "ACK" \/ AckFirst(r))
  <2>1. PICK i \in 1 .. n : q[i].kind = "ACK" /\ \A j \in 1 .. i : q[j].kind # "FIN"
      BY <1>5 DEF AckFirst, n
  <2>2. Head(q).kind # "FIN"
      BY <1>1, <2>1
  <2>3. CASE i = 1
      BY <1>1, <2>1, <2>2, <2>3
  <2>4. CASE i # 1
    <3>1. i - 1 \in 1 .. Len(r) /\ r[i - 1].kind = "ACK"
        BY <1>3, <2>1, <2>4
    <3>2. ASSUME NEW j \in 1 .. i - 1 PROVE r[j].kind # "FIN"
      <4>1. j + 1 \in 1 .. i /\ j \in 1 .. Len(r)
          BY <1>1, <2>1
      <4> QED
          BY <1>3, <2>1, <4>1
    <3> QED
        BY <2>2, <3>1, <3>2 DEF AckFirst
  <2> QED
      BY <2>3, <2>4
<1>6. ASSUME NEW buf, Acks(q, buf), ~HasFin(q)
      PROVE  AckFirst(q)
  <2>1. PICK i \in 1 .. n : q[i].kind = "ACK"
      BY <1>6 DEF Acks, n
  <2>2. ASSUME NEW j \in 1 .. i PROVE q[j].kind # "FIN"
    <3>1. j \in 1 .. n
        BY <1>1, <2>1
    <3> QED
        BY <1>6, <3>1 DEF HasFin, n
  <2> QED
      BY <2>1, <2>2 DEF AckFirst, n
<1> QED
    BY <1>4, <1>5, <1>6 DEF r

LEMMA AppendFirst ==
    ASSUME NEW S, NEW q \in Seq(S), NEW e \in S
    PROVE  /\ HasFin(q) \/ e.kind = "FIN" => HasFin(Append(q, e))
           /\ AckFirst(q) => AckFirst(Append(q, e))
<1> DEFINE n == Len(q)
           r == Append(q, e)
<1>1. n \in Nat /\ Len(r) = n + 1 /\ r[n + 1] = e /\ \A i \in 1 .. n : r[i] = q[i]
    BY AppendType
<1> HIDE DEF n, r
<1>2. /\ \A i \in 1 .. n : i \in 1 .. Len(r) /\ r[i] = q[i]
      /\ n + 1 \in 1 .. Len(r)
    BY <1>1
<1>3. HasFin(q) \/ e.kind = "FIN" => HasFin(r)
    BY <1>1, <1>2 DEF HasFin, n
<1>4. ASSUME AckFirst(q) PROVE AckFirst(r)
  <2>1. PICK i \in 1 .. n : q[i].kind = "ACK" /\ \A j \in 1 .. i : q[j].kind # "FIN"
      BY <1>4 DEF AckFirst, n
  <2>2. \A j \in 1 .. i : j \in 1 .. n
      BY <1>1, <2>1
  <2> QED
      BY <1>2, <2>1, <2>2 DEF AckFirst
<1> QED
    BY <1>3, <1>4 DEF r

\* The server's own steps: its process thread is the only one that touches its node.
LEMMA ServerTurns ==
    ASSUME Types, CloseInv, ServerTurn, ~Bare, ServerMoves
    PROVE  ServerTurn'
<1> DEFINE Goal == ServerTurn'
<1>1. server \in Opener!Tcb \cup {NoTcb} /\ up \in Seq(FromClient)
    BY DEF Types
<1>2. serverProc.at # "idle" => server # NoTcb
    BY DEF Types, Linked
<1>3. CASE ServerIgnores \/ ServerAcknowledges \/ ServerReplies
  <2>1. /\ server' = server /\ serverEnds' = serverEnds
        /\ serverProc'.at \in {serverProc.at, "reply", "idle"}
      BY <1>3, PlaceFields, RestFields DEF ServerIgnores, ServerAcknowledges, ServerReplies
  <2> QED
      BY <2>1 DEF ServerTurn
<1>4. CASE ServerTakesSyn
  <2>1. PICK iss \in Iss :
            LET fresh == [valid |-> TRUE, state |-> "SYN_RECV", snd_una |-> iss,
                          snd_nxt |-> iss, snd_wnd |-> Wnd,
                          rcv_nxt |-> Opener!Add(Head(up).seq, 1), buf |-> NoBuf]
                n == IF Live(server) THEN server ELSE fresh
            IN  /\ server' = [n EXCEPT !.snd_nxt = Opener!Add(n.snd_nxt, 1)]
                /\ serverProc' = Place("reply", Opener!Header(n, "SYNACK", 0))
      BY <1>4 DEF ServerTakesSyn
  <2>2. serverProc'.at = "reply"
      BY <2>1, PlaceFields
  <2>3. CASE Live(server)
    <3>1. /\ server \in Opener!Tcb
          /\ server' = [server EXCEPT !.snd_nxt = Opener!Add(server.snd_nxt, 1)]
        BY <1>1, <2>1, <2>3 DEF Live
    <3>2. /\ server'.valid = server.valid /\ server'.state = server.state
          /\ server'.buf = server.buf
        BY <3>1 DEF Opener!Tcb
    <3> QED
        BY <2>2, <2>3, <3>2 DEF ServerTurn, Live
  <2>4. CASE ~Live(server)
    <3>1. server'.valid = TRUE /\ server'.state = "SYN_RECV"
        BY <2>1, <2>4
    <3> QED
        BY <2>2, <3>1, Zenon DEF ServerTurn
  <2> QED
      BY <2>3, <2>4
<1>5. CASE ServerTakesAck
  <2> DEFINE n == Opener!Acknowledge(server, Head(up))
  <2>1. server \in Opener!Tcb /\ server # NoTcb /\ TakesUp /\ up # <<>>
      BY <1>1, <1>5 DEF ServerTakesAck, Live, TakesUp
  <2>2. n \in Opener!Tcb /\ n.state = server.state /\ n.valid = server.valid
      BY <1>5, <2>1, AcknowledgeType, UpType
  <2>3. n.state # "LAST_ACK"
      BY <2>1, <2>2 DEF ServerTurn
  <2>4. /\ \/ server' = [n EXCEPT !.state = Opener!AfterAck(n.state)] /\ serverProc' = serverProc
           \/ /\ server' = [n EXCEPT !.state = Opener!AfterAck(n.state),
                                     !.rcv_nxt = Opener!Add(Head(up).seq, Head(up).len)]
              /\ serverProc' = Place("app", Opener!Nothing)
              /\ Head(up).len > 0
        /\ serverEnds' = serverEnds
      BY <1>5, <2>3 DEF ServerTakesAck
  <2> HIDE DEF n
  <2>5. server'.valid = server.valid /\ server'.state = Opener!AfterAck(server.state)
      BY <2>2, <2>4 DEF Opener!Tcb
  <2>6. /\ server'.state \notin {"CLOSED", "LAST_ACK", "FIN_WAIT_1"}
      BY <2>1, <2>5 DEF ServerTurn, Opener!AfterAck
  <2>7. serverProc'.at = "idle" \/ (serverProc'.at = "app" /\ Head(up).len > 0)
      BY <2>1, <2>4, PlaceFields DEF TakesUp
  <2>8. "rcvd" \in serverEnds => Empty(Head(up))
      BY <1>1, <2>1, HeadOfNone DEF CloseInv
  <2>9. "rcvd" \in serverEnds => serverProc'.at = "idle"
      BY <2>7, <2>8 DEF Empty
  <2> QED
      BY <2>1, <2>4, <2>5, <2>6, <2>7, <2>9 DEF ServerTurn
<1>6. CASE ServerTakesFin
  <2>1. server \in Opener!Tcb /\ server # NoTcb
      BY <1>1, <1>6 DEF ServerTakesFin, Live
  <2>2. /\ server'.valid = server.valid /\ server'.state = server.state
        /\ server'.buf = server.buf
        /\ serverProc'.at = Opener!AtFin(server.state)
      BY <1>6, <2>1, PlaceFields DEF ServerTakesFin, Opener!Tcb
  <2>3. serverProc'.at \in {"to_CLOSE_WAIT", "to_TIME_WAIT", "to_stay"}
      BY <2>2 DEF Opener!AtFin
  <2> QED
      BY <2>1, <2>2, <2>3 DEF ServerTurn
<1>7. CASE ServerFinishesFin
  <2>1. server \in Opener!Tcb /\ server # NoTcb
      BY <1>1, <1>2, <1>7 DEF ServerFinishesFin
  <2>2. /\ server'.valid = server.valid /\ server'.buf = server.buf
        /\ server'.state = Opener!AfterFin(serverProc.at, server.state)
        /\ serverProc'.at = "reply" /\ serverEnds' = serverEnds
      BY <1>7, <2>1, PlaceFields DEF ServerFinishesFin, Opener!Tcb
  <2>3. server'.state \in {server.state, "CLOSE_WAIT", "TIME_WAIT"}
      BY <2>2 DEF Opener!AfterFin
  <2> QED
      BY <2>1, <2>2, <2>3 DEF ServerTurn
<1>8. CASE ServerSends
  <2>1. /\ server \in Opener!Tcb /\ server # NoTcb /\ serverProc.at = "app"
        /\ serverEnds' = serverEnds
      BY <1>1, <1>2, <1>8 DEF ServerSends
  <2>2. CASE UNCHANGED <<server, serverProc>>
      BY <2>1, <2>2 DEF ServerTurn
  <2>3. CASE ~UNCHANGED <<server, serverProc>>
    <3>1. /\ server.state = "ESTABLISHED"
          /\ server' = [server EXCEPT !.buf = [seq |-> server.snd_nxt, len |-> Head(serverCalls)]]
          /\ serverProc' = Place("emit", Opener!Header(server, "ACK", Head(serverCalls)))
        BY <1>8, <2>3 DEF ServerSends
    <3>2. server'.valid = server.valid /\ server'.state = "ESTABLISHED"
        BY <2>1, <3>1 DEF Opener!Tcb
    <3>3. serverProc'.at = "emit"
        BY <3>1, PlaceFields
    <3> QED
        BY <2>1, <3>2, <3>3 DEF ServerTurn
  <2> QED
      BY <2>2, <2>3
<1>9. CASE ServerLeaves
  <2>1. /\ server # NoTcb /\ serverProc.at = "app" /\ server' = server
        /\ serverEnds' = serverEnds
      BY <1>2, <1>9 DEF ServerLeaves
  <2>2. server.state # "CLOSE_WAIT" /\ "rcvd" \notin serverEnds
      BY <2>1 DEF ServerTurn, CloseInv, PeerClosed
  <2>3. serverProc'.at \in {"active_close", "app"}
      BY <1>9, <2>2, PlaceFields DEF ServerLeaves
  <2> QED
      BY <2>1, <2>2, <2>3 DEF ServerTurn
<1>10. CASE ServerCloses
  <2>1. /\ server \in Opener!Tcb /\ server # NoTcb /\ serverProc.at = "active_close"
        /\ serverEnds' = serverEnds /\ server.buf # NoBuf
      BY <1>1, <1>2, <1>10 DEF ServerCloses, ServerTurn, Bare, serverProc, server
  <2>2. /\ server'.valid = server.valid /\ server'.state = "FIN_WAIT_1"
        /\ server'.buf = server.buf
        /\ serverProc'.at = "emit"
      BY <1>10, <2>1, PlaceFields DEF ServerCloses, Opener!Tcb
  <2> QED
      BY <2>1, <2>2 DEF ServerTurn
<1>11. CASE ServerEmits \/ ServerAdvances
  <2>1. server \in Opener!Tcb /\ server # NoTcb /\ serverProc.at \in {"emit", "advance"}
      BY <1>1, <1>2, <1>11 DEF ServerEmits, ServerAdvances
  <2>2. /\ server'.valid = server.valid /\ server'.state = server.state
        /\ server'.buf = server.buf
        /\ "rcvd" \in serverEnds' => "rcvd" \in serverEnds
        /\ serverProc'.at \in {"advance", "app"}
      BY <1>11, <2>1, PlaceFields DEF ServerEmits, ServerAdvances, Opener!Tcb
  <2> QED
      BY <2>1, <2>2 DEF ServerTurn
<1> HIDE DEF Goal
<1>12. Goal
    BY <1>3, <1>4, <1>5, <1>6, <1>7, <1>8, <1>9, <1>10, <1>11 DEF ServerMoves, Goal
<1> QED
    BY <1>12 DEF Goal

\* The process thread of the client neither brings it into LAST_ACK nor touches a FIN.
LEMMA ClientProcTurns ==
    ASSUME Types, ClientProcMoves, client # NoTcb
    PROVE  /\ clientCmd' = clientCmd
           /\ client'.state = "CLOSED" => client.state = "CLOSED" \/ ~client'.valid
           /\ ~client.valid => ~client'.valid
           /\ ClientLast' => ClientLast
           /\ HasFin(up) => HasFin(up')
           /\ AckFirst(up) => AckFirst(up')
           /\ clientEnds' = clientEnds \/ ClientTakesFin
<1> DEFINE Goal == /\ clientCmd' = clientCmd
                   /\ client'.state = "CLOSED" => client.state = "CLOSED" \/ ~client'.valid
                   /\ ~client.valid => ~client'.valid
                   /\ ClientLast' => ClientLast
                   /\ HasFin(up) => HasFin(up')
                   /\ AckFirst(up) => AckFirst(up')
                   /\ clientEnds' = clientEnds \/ ClientTakesFin
<1>1. client \in Opener!Tcb /\ up \in Seq(FromClient) /\ ClientProcType
    BY DEF Types
<1>2. CASE ClientIgnores \/ ClientAcknowledges
    BY <1>2 DEF ClientIgnores, ClientAcknowledges, ClientLast
<1>3. CASE ClientReplies
  <2>1. clientProc.seg \in FromClient /\ up' = Append(up, clientProc.seg)
      BY <1>1, <1>3 DEF ClientReplies, ClientProcType
  <2>2. (HasFin(up) => HasFin(up')) /\ (AckFirst(up) => AckFirst(up'))
      BY <1>1, <2>1, AppendFirst
  <2> QED
      BY <1>3, <2>2 DEF ClientReplies, ClientProcMoves, ClientLast
<1>4. CASE ClientShakes \/ ClientTakesOver
  <2>1. /\ client'.valid = client.valid
        /\ client'.state \in {client.state, "ESTABLISHED"}
        /\ UNCHANGED <<clientCmd, clientEnds, up>>
      BY <1>1, <1>4 DEF ClientShakes, ClientTakesOver, Opener!Tcb
  <2> QED
      BY <2>1 DEF ClientLast
<1>5. CASE ClientTakesAck
  <2> DEFINE n == Opener!Acknowledge(client, Head(down))
  <2>1. n \in Opener!Tcb /\ n.state = client.state /\ n.valid = client.valid
      BY <1>1, <1>5, AcknowledgeType, DownType DEF ClientTakesAck
  <2>2. /\ \/ n.state = "LAST_ACK" /\ client' = [n EXCEPT !.state = "CLOSED", !.valid = FALSE]
           \/ client' = [n EXCEPT !.state = Opener!AfterAck(n.state)]
           \/ client' = [n EXCEPT !.state = Opener!AfterAck(n.state),
                                  !.rcv_nxt = Opener!Add(Head(down).seq, Head(down).len)]
        /\ UNCHANGED <<clientCmd, clientEnds, up>>
      BY <1>5 DEF ClientTakesAck
  <2> HIDE DEF n
  <2>3. \/ client.state = "LAST_ACK" /\ client'.valid = FALSE
        \/ client'.valid = client.valid /\ client'.state = Opener!AfterAck(client.state)
      BY <2>1, <2>2 DEF Opener!Tcb
  <2>4. Opener!AfterAck(client.state) \in {client.state, "ESTABLISHED", "FIN_WAIT_2"}
      BY DEF Opener!AfterAck
  <2>5. \/ client.state = "LAST_ACK" /\ ~client'.valid
        \/ /\ client'.valid = client.valid
           /\ client'.state \in {client.state, "ESTABLISHED", "FIN_WAIT_2"}
      BY <2>3, <2>4
  <2> QED
      BY <2>2, <2>5 DEF ClientLast
<1>6. CASE ClientTakesFin
  <2>1. /\ client'.valid = client.valid /\ client'.state = client.state
        /\ UNCHANGED <<clientCmd, up>>
      BY <1>1, <1>6 DEF ClientTakesFin, Opener!Tcb
  <2> QED
      BY <1>6, <2>1 DEF ClientLast
<1>7. CASE ClientFinishesFin
  <2>1. /\ client'.valid = client.valid
        /\ client'.state = Opener!AfterFin(clientProc.at, client.state)
        /\ UNCHANGED <<clientCmd, clientEnds, up>>
      BY <1>1, <1>7 DEF ClientFinishesFin, Opener!Tcb
  <2>2. client'.state \in {client.state, "CLOSE_WAIT", "TIME_WAIT"}
      BY <2>1 DEF Opener!AfterFin
  <2> QED
      BY <2>1, <2>2 DEF ClientLast
<1> HIDE DEF Goal
<1>8. Goal
    BY <1>2, <1>3, <1>4, <1>5, <1>6, <1>7 DEF ClientProcMoves, Goal
<1> QED
    BY <1>8 DEF Goal

\* When the client takes the server's FIN, an acknowledgement of what the server had
\* sent before is on its way, if it has not arrived.
LEMMA AckOnTheWay ==
    ASSUME Types, CloseInv, KeptInv, ServerTurn, ClientTakesFin,
           server # NoTcb, server.state = "FIN_WAIT_1"
    PROVE  Acks(up, server.buf)
<1>1. /\ server \in Opener!Tcb /\ server.valid /\ server.buf # NoBuf
      /\ down \in Seq(FromServer) /\ down # <<>> /\ down' = Tail(down)
      /\ clientProc.at = "idle" /\ Head(down).kind = "FIN"
    BY DEF Types, ServerTurn, ClientTakesFin, TakesDown
<1>2. HasFin(down) /\ NoneLeft(Tail(down))
    BY <1>1, TailKeeps DEF CloseInv
<1>3. ~Holds(serverProc, server.buf)
    BY <1>2 DEF CloseInv, ServerDone, Holds
<1>4. ~Answers(clientProc, client, server.buf)
    BY <1>1 DEF Answers
<1>5. ~Carries(down, server.buf)
  <2>1. SUFFICES ASSUME Carries(down, server.buf) PROVE FALSE
      OBVIOUS
  <2>2. Carries(Tail(down), server.buf)
      BY <1>1, <2>1, TailKeeps
  <2>3. PICK i \in 1 .. Len(Tail(down)) : Tail(down)[i].len = server.buf.len
      BY <2>2 DEF Carries
  <2>4. Tail(down)[i].len = 0
      BY <1>2, <2>3 DEF NoneLeft, Consumes, Empty
  <2>5. server.buf.len \in 1 .. MaxLen
      BY <1>1 DEF Opener!Tcb
  <2> QED
      BY <2>3, <2>4, <2>5, SizeAssumption
<1> QED
    BY <1>1, <1>3, <1>4, <1>5 DEF KeptInv, Minded

\* So what holds of the client's closing survives its process thread.
LEMMA ClientProcFin ==
    ASSUME Types, PhaseInv, CloseInv, KeptInv, ServerTurn, ClientTurn, ClientProcMoves,
           UNCHANGED <<server, serverProc>>
    PROVE  ClientTurn'
<1>1. CASE client = NoTcb
  <2>1. client' = NoTcb
      BY <1>1 DEF ClientProcMoves, ClientIgnores, ClientShakes, ClientTakesOver, ClientTakesAck,
                  ClientTakesFin, ClientFinishesFin, ClientAcknowledges, ClientReplies, Live,
                  Types, Linked
  <2> QED
      BY <2>1 DEF ClientTurn
<1>2. CASE client # NoTcb
  <2>1. /\ clientCmd' = clientCmd
        /\ client'.state = "CLOSED" => client.state = "CLOSED" \/ ~client'.valid
        /\ ~client.valid => ~client'.valid
        /\ ClientLast' => ClientLast
        /\ HasFin(up) => HasFin(up')
        /\ AckFirst(up) => AckFirst(up')
        /\ clientEnds' = clientEnds \/ ClientTakesFin
      BY <1>2, ClientProcTurns
  <2>2. client'.state = "CLOSED" => ~client'.valid \/ clientCmd'.at = "connect"
      BY <1>2, <2>1 DEF ClientTurn
  <2>3. (FinInHand' <=> FinInHand) /\ (ClientClosing' <=> ClientClosing)
      BY <2>1 DEF FinInHand, ClientClosing
  <2>4. ASSUME "rcvd" \in clientEnds', server.state = "FIN_WAIT_1"
        PROVE  (ClientClosing' /\ ~ClientLast') \/ AckFirst(up')
    <3>1. CASE "rcvd" \in clientEnds
        BY <1>2, <2>1, <2>3, <2>4, <3>1 DEF ClientTurn
    <3>2. CASE "rcvd" \notin clientEnds
      <4>1. ClientTakesFin /\ up \in Seq(FromClient)
          BY <2>1, <2>4, <3>2 DEF Types
      <4>2. server # NoTcb
        <5>1. HasFin(down)
            BY <4>1, TailKeeps DEF ClientTakesFin, TakesDown, Types
        <5> QED
            BY <4>1, <5>1, FinShaken DEF Shaken, Types
      <4>3. Acks(up, server.buf)
          BY <2>4, <4>1, <4>2, AckOnTheWay
      <4>4. ~ClientLast
          BY <1>2, <3>2 DEF ClientLast, CloseInv, PeerClosed
      <4>5. CASE ClientClosing
          BY <2>1, <2>3, <4>4, <4>5
      <4>6. CASE ~ClientClosing
        <5>1. ~HasFin(up)
            BY <4>6 DEF CloseInv, ClientDone, ClientClosing
        <5>2. up # <<>>
            BY <4>3 DEF Acks
        <5>3. AckFirst(up)
            BY <4>1, <4>3, <5>1, <5>2, TailFirst
        <5> QED
            BY <2>1, <5>3
      <4> QED
          BY <4>5, <4>6
    <3> QED
        BY <3>1, <3>2
  <2>5. ClientLast' => \/ FinInHand' \/ HasFin(up')
                       \/ /\ server # NoTcb
                          /\ serverProc.at = "to_TIME_WAIT" \/ server.state = "TIME_WAIT"
      BY <1>2, <2>1, <2>3 DEF ClientTurn
  <2> QED
      BY <2>2, <2>4, <2>5 DEF ClientTurn
<1> QED
    BY <1>1, <1>2

\* Its command thread closes once: actively, or after the FIN of the peer.
LEMMA ClientCmdTurns ==
    ASSUME Types, PhaseInv, CloseInv, ClientTurn, ClientCmdMoves,
           UNCHANGED <<server, serverProc>>
    PROVE  ClientTurn'
<1> DEFINE Goal == ClientTurn'
<1>1. client \in Opener!Tcb \cup {NoTcb} /\ up \in Seq(FromClient) /\ ClientCmdType
    BY DEF Types
<1>2. clientCmd.at # "idle" => client # NoTcb
    BY DEF Types, Linked
<1>3. CASE ClientConnects
  <2>1. /\ client'.valid = TRUE /\ client'.state = "CLOSED" /\ clientCmd'.at = "connect"
        /\ clientEnds' = clientEnds /\ "rcvd" \notin clientEnds
      BY <1>3, PlaceFields DEF ClientConnects, CloseInv, Shaken
  <2> QED
      BY <2>1, Zenon DEF ClientTurn, ClientLast
<1>4. CASE ClientInits
  <2>1. client \in Opener!Tcb /\ client.valid /\ "rcvd" \notin clientEnds
      BY <1>1, <1>2, <1>4 DEF ClientInits, PhaseInv, Unopened, Opening, SynSent, SynTaken, Syn,
                              Shaken, CloseInv
  <2>2. client'.valid = client.valid /\ client'.state = "SYN_SENT" /\ clientEnds' = clientEnds
      BY <1>4, <2>1 DEF ClientInits, Opener!Tcb
  <2> QED
      BY <2>1, <2>2 DEF ClientTurn, ClientLast
<1>5. CASE ClientTypes
  <2>1. /\ client \in Opener!Tcb /\ client # NoTcb /\ clientCmd.at = "prompt"
        /\ up' = up /\ clientEnds' = clientEnds
      BY <1>1, <1>2, <1>5 DEF ClientTypes
  <2>2. ~FinInHand /\ ~ClientClosing
      BY <2>1 DEF FinInHand, ClientClosing
  <2>3. client'.valid = client.valid /\ client'.state = client.state
      BY <1>5, <2>1 DEF ClientTypes, Opener!Tcb
  <2>4. ClientLast' <=> ClientLast
      BY <2>3 DEF ClientLast
  <2> QED
      BY <2>1, <2>2, <2>3, <2>4 DEF ClientTurn
<1>6. CASE ClientLeaves
  <2>1. /\ client # NoTcb /\ clientCmd.at = "prompt"
        /\ UNCHANGED <<client, up, clientEnds>>
      BY <1>2, <1>6 DEF ClientLeaves
  <2>2. ~FinInHand /\ ~ClientClosing
      BY <2>1 DEF FinInHand, ClientClosing
  <2> QED
      BY <2>1, <2>2 DEF ClientTurn, ClientLast
<1>7. CASE ClientCloses
  <2>1. /\ client \in Opener!Tcb /\ client # NoTcb
        /\ clientCmd.at \in {"active_close", "passive_close"}
        /\ up' = up /\ clientEnds' = clientEnds
      BY <1>1, <1>2, <1>7 DEF ClientCloses
  <2>2. clientCmd'.at = "emit" /\ clientCmd'.seg.kind = "FIN"
      BY <1>7, <2>1, PlaceFields, HeaderFields, SizeAssumption DEF ClientCloses
  <2>3. FinInHand' /\ ClientClosing'
      BY <2>2 DEF FinInHand, ClientClosing
  <2>4. /\ client'.valid = client.valid
        /\ client'.state \in {"FIN_WAIT_1", "LAST_ACK"}
        /\ clientCmd.at = "active_close" => client'.state = "FIN_WAIT_1"
      BY <1>7, <2>1 DEF ClientCloses, Opener!Tcb
  <2>5. ClientClosing /\ ~ClientLast => ~ClientLast'
      BY <2>1, <2>4 DEF ClientClosing, ClientLast
  <2> QED
      BY <2>1, <2>3, <2>4, <2>5 DEF ClientTurn
<1>8. CASE ClientEmits
  <2>1. /\ client # NoTcb /\ client' = client /\ clientCmd.at = "emit"
        /\ clientCmd.seg \in FromClient /\ up' = Append(up, clientCmd.seg)
        /\ "rcvd" \in clientEnds' => "rcvd" \in clientEnds
        /\ clientCmd'.at = "advance" /\ clientCmd'.seg = clientCmd.seg
      BY <1>1, <1>2, <1>8, PlaceFields DEF ClientEmits, ClientCmdType
  <2>2. /\ HasFin(up) \/ clientCmd.seg.kind = "FIN" => HasFin(up')
        /\ AckFirst(up) => AckFirst(up')
      BY <1>1, <2>1, AppendFirst
  <2>3. /\ ClientClosing => ClientClosing'
        /\ FinInHand => clientCmd.seg.kind = "FIN"
        /\ ClientLast' <=> ClientLast
      BY <2>1 DEF ClientClosing, FinInHand, ClientLast
  <2> QED
      BY <2>1, <2>2, <2>3 DEF ClientTurn
<1>9. CASE ClientAdvances
  <2>1. /\ client \in Opener!Tcb /\ client # NoTcb /\ clientCmd.at = "advance"
        /\ up' = up /\ clientEnds' = clientEnds
        /\ clientCmd' = IF clientCmd.seg.kind = "FIN" THEN Rest
                                                      ELSE Place("prompt", Opener!Nothing)
      BY <1>1, <1>2, <1>9 DEF ClientAdvances
  <2>2. client'.valid = client.valid /\ client'.state = client.state
      BY <1>9, <2>1 DEF ClientAdvances, Opener!Tcb
  <2>3. ~FinInHand /\ (ClientClosing => ClientClosing') /\ (ClientLast' <=> ClientLast)
      BY <2>1, <2>2, RestFields DEF FinInHand, ClientClosing, ClientLast
  <2> QED
      BY <2>1, <2>2, <2>3 DEF ClientTurn
<1> HIDE DEF Goal
<1>10. Goal
    BY <1>3, <1>4, <1>5, <1>6, <1>7, <1>8, <1>9 DEF ClientCmdMoves, Goal
<1> QED
    BY <1>10 DEF Goal

\* The server takes the client's FIN after it has left FIN_WAIT_1.
LEMMA ServerFinTurns ==
    ASSUME Types, Types', HandInv, PhaseInv, CloseInv, ServerTurn, ClientTurn, ServerMoves,
           client # NoTcb, UNCHANGED <<client, clientCmd, clientEnds>>
    PROVE  ClientTurn'
<1>1. /\ UNCHANGED <<FinInHand, ClientClosing, ClientLast>>
      /\ client.state = "CLOSED" => ~client.valid \/ clientCmd'.at = "connect"
    BY DEF FinInHand, ClientClosing, ClientLast, ClientTurn
<1>2. CASE "rcvd" \notin clientEnds
    BY <1>1, <1>2 DEF ClientTurn, CloseInv, PeerClosed, ClientLast
<1>3. CASE "rcvd" \in clientEnds
  <2>1. Shaken /\ ServerDone /\ up \in Seq(FromClient)
      BY <1>3 DEF CloseInv, Types
  <2>2. /\ server \in Opener!Tcb /\ server # NoTcb /\ server.valid
        /\ server.state \in {"FIN_WAIT_1", "FIN_WAIT_2", "TIME_WAIT"}
        /\ serverProc.at \notin {"active_close", "passive_close", "emit"}
      BY <2>1 DEF Types, Shaken, ServerTurn, ServerDone
  <2>3. server' # NoTcb
      BY <2>1, PhaseStep DEF Moves, Shaken
  <2>4. /\ ~ServerTakesSyn /\ ~ServerIgnores /\ ~ServerCloses /\ ~ServerEmits
      BY <2>1, <2>2, ServerTakes
         DEF ServerIgnores, ServerCloses, ServerEmits, Live
  <2>5. CASE ServerTakesAck
    <3> DEFINE n == Opener!Acknowledge(server, Head(up))
    <3>1. n \in Opener!Tcb /\ n.state = server.state
        BY <2>2, <2>5, AcknowledgeType, UpType DEF ServerTakesAck
    <3>2. /\ \/ server' = [n EXCEPT !.state = Opener!AfterAck(n.state)]
             \/ server' = [n EXCEPT !.state = Opener!AfterAck(n.state),
                                    !.rcv_nxt = Opener!Add(Head(up).seq, Head(up).len)]
          /\ Head(up).kind = "ACK" /\ up # <<>> /\ up' = Tail(up)
          /\ serverProc.at = "idle"
        BY <2>2, <2>5, <3>1 DEF ServerTakesAck, TakesUp
    <3> HIDE DEF n
    <3>3. server'.state = Opener!AfterAck(server.state)
        BY <3>1, <3>2 DEF Opener!Tcb
    <3>4. /\ server'.state # "FIN_WAIT_1"
          /\ server.state = "TIME_WAIT" => server'.state = "TIME_WAIT"
        BY <2>2, <3>3 DEF Opener!AfterAck
    <3>5. HasFin(up) => HasFin(up')
        BY <2>1, <3>2, TailFirst
    <3> QED
        BY <1>1, <2>2, <2>3, <3>2, <3>3, <3>4, <3>5 DEF ClientTurn
  <2>6. CASE ServerTakesFin
    <3>1. /\ server'.state = server.state
          /\ serverProc'.at = Opener!AtFin(server.state)
          /\ Head(up).kind = "FIN" /\ up # <<>>
        BY <2>2, <2>6, PlaceFields DEF ServerTakesFin, TakesUp, Opener!Tcb
    <3>2. ~AckFirst(up)
        BY <2>1, <3>1, TailFirst
    <3>3. server.state = "FIN_WAIT_1" => ClientClosing /\ ~ClientLast
        BY <1>3, <3>2 DEF ClientTurn
    <3>4. ClientLast => server.state \in {"FIN_WAIT_2", "TIME_WAIT"}
        BY <2>2, <3>3
    <3>5. server.state = "FIN_WAIT_2" => serverProc'.at = "to_TIME_WAIT"
        BY <3>1 DEF Opener!AtFin
    <3> QED
        BY <1>1, <2>3, <3>1, <3>3, <3>4, <3>5 DEF ClientTurn
  <2>7. CASE ServerFinishesFin
    <3>1. /\ server'.state = Opener!AfterFin(serverProc.at, server.state)
          /\ up' = up
        BY <2>2, <2>7 DEF ServerFinishesFin, Opener!Tcb
    <3>2. /\ server'.state = "FIN_WAIT_1" => server.state = "FIN_WAIT_1"
          /\ serverProc.at = "to_TIME_WAIT" => server'.state = "TIME_WAIT"
          /\ server.state = "TIME_WAIT" /\ serverProc.at # "to_CLOSE_WAIT"
                => server'.state = "TIME_WAIT"
        BY <3>1 DEF Opener!AfterFin
    <3>3. serverProc.at # "to_CLOSE_WAIT"
        BY <2>1 DEF ServerDone
    <3> QED
        BY <1>1, <2>3, <3>1, <3>2, <3>3 DEF ClientTurn
  <2>8. CASE ServerSends \/ ServerLeaves \/ ServerAcknowledges \/ ServerReplies \/ ServerAdvances
    <3>1. /\ server'.state = server.state /\ up' = up
          /\ serverProc.at # "to_TIME_WAIT"
      <4>1. CASE ServerSends
          BY <2>2, <4>1 DEF ServerSends
      <4>2. CASE ServerLeaves \/ ServerAcknowledges \/ ServerReplies
          BY <2>2, <4>2 DEF ServerLeaves, ServerAcknowledges, ServerReplies
      <4>3. CASE ServerAdvances
          BY <2>2, <4>3 DEF ServerAdvances, Opener!Tcb
      <4> QED
          BY <2>8, <4>1, <4>2, <4>3
    <3> QED
        BY <1>1, <2>3, <3>1 DEF ClientTurn
  <2> QED
      BY <2>4, <2>5, <2>6, <2>7, <2>8 DEF ServerMoves
<1> QED
    BY <1>2, <1>3

\* When an end is released in LAST_ACK by whichever acknowledgement came first
\* (tcp.c:153), it leaves nobody behind, unless the server has closed with nothing
\* unacknowledged: its FIN meets the other end in FIN_WAIT_2.
THEOREM NobodyLeftBehind ==
    ASSUME Perfect
    PROVE  Spec => []ClosesInTurn
<1> DEFINE InTurn == bare \/ Unheard \/ TurnInv
<1>1. ASSUME Init
      PROVE  InTurn
  <2>1. clientTcb = [k \in {K} |-> NoTcb] /\ serverTcb = [k \in {K} |-> NoTcb]
      BY <1>1 DEF Init, Opener!Init, Acceptor!Init
  <2>2. client = NoTcb /\ server = NoTcb
      BY <2>1 DEF client, server
  <2> QED
      BY <2>2 DEF TurnInv, ServerTurn, ClientTurn
<1>2. ASSUME Shape, HostsInv, (Shape /\ HostsInv)', InTurn, [Next]_vars
      PROVE  InTurn'
  <2>1. Types /\ Types' /\ Known
      BY <1>2 DEF HostsInv, PairInv, Unheard
  <2>2. /\ \/ ClientProcMoves \/ ClientCmdMoves \/ ClientFails \/ Stays
           \/ (ServerMoves \/ ServerFails) /\ (bare' \/ ~Bare)
        /\ bare => bare'
      BY <1>2, <2>1, NextIs, Stutter
  <2>3. CASE bare'
      BY <2>3
  <2>4. CASE Unheard
    <3>1. Moves \/ ClientFails \/ ServerFails \/ Stays
        BY <2>2 DEF Moves
    <3> QED
        BY <2>1, <2>4, <3>1, UnheardStep
  <2>5. CASE ~bare' /\ ~Unheard
    <3>1. HandInv /\ PhaseInv /\ CloseInv /\ KeptInv /\ TurnInv
        BY <1>2, <2>2, <2>5 DEF HostsInv, PairInv
    <3>2. CASE ClientProcMoves \/ ClientCmdMoves
      <4>1. UNCHANGED <<server, serverProc, serverEnds>>
          BY <3>2 DEF ClientProcMoves, ClientCmdMoves
      <4>2. ServerTurn'
          BY <3>1, <4>1 DEF TurnInv, ServerTurn
      <4>3. ClientTurn'
          BY <2>1, <3>1, <3>2, <4>1, ClientProcFin, ClientCmdTurns DEF TurnInv
      <4> QED
          BY <4>2, <4>3 DEF TurnInv
    <3>3. CASE ServerMoves /\ ~Bare
      <4>1. UNCHANGED <<client, clientCmd, clientEnds>>
          BY <3>3 DEF ServerMoves
      <4>2. ServerTurn'
          BY <2>1, <3>1, <3>3, ServerTurns DEF TurnInv
      <4>3. ClientTurn'
        <5>1. CASE client = NoTcb
            BY <4>1, <5>1 DEF ClientTurn
        <5>2. CASE client # NoTcb
            BY <2>1, <3>1, <3>3, <4>1, <5>2, ServerFinTurns DEF TurnInv
        <5> QED
            BY <5>1, <5>2
      <4> QED
          BY <4>2, <4>3 DEF TurnInv
    <3>4. CASE ClientFails /\ ClientDrops
        BY <2>1, <3>1, <3>4, DropStep DEF ClientFails
    <3>5. CASE (ClientFails /\ ClientForgets) \/ ServerFails
      <4>1. /\ UNCHANGED <<clientCmd, serverProc, up, clientEnds, serverEnds>>
            /\ client # NoTcb /\ server # NoTcb /\ server' # NoTcb
            /\ client'.valid = client.valid /\ client'.state = client.state
            /\ server'.valid = server.valid /\ server'.state = server.state
            /\ server' = server \/ ServerForgets
          BY <2>1, <3>1, <3>5, ForgetsKeeps DEF ClientFails
      <4>2. ServerTurn'
          BY <3>1, <4>1 DEF TurnInv, ServerTurn, ServerForgets
      <4>3. ClientTurn'
          BY <3>1, <4>1 DEF TurnInv, ClientTurn, ClientLast, ClientClosing, FinInHand
      <4> QED
          BY <4>2, <4>3 DEF TurnInv
    <3>6. CASE Stays
        BY <3>1, <3>6 DEF Stays, TurnInv, ServerTurn, ClientTurn, ClientLast, ClientClosing,
                          FinInHand
    <3> QED
        BY <2>2, <2>5, <3>2, <3>3, <3>4, <3>5, <3>6 DEF ClientFails
  <2> QED
      BY <2>3, <2>4, <2>5
<1>3. ASSUME InTurn
      PROVE  ClosesInTurn
  <2>1. SUFFICES ASSUME Quiet, ~bare, client # NoTcb, server # NoTcb
                 PROVE  /\ client.state = "CLOSED" => server.state = "TIME_WAIT"
                        /\ server.state = "CLOSED" => client.state = "TIME_WAIT"
      BY DEF ClosesInTurn, client, server
  <2>2. /\ up = <<>> /\ serverProc.at = "idle"
        /\ clientCmd.at \in {"idle", "prompt"}
      BY <2>1 DEF Quiet, up, serverProc, clientCmd
  <2>3. ~HasFin(up) /\ ~FinInHand
      BY <2>2 DEF HasFin, FinInHand
  <2>4. TurnInv
      BY <1>3, <2>1 DEF Unheard
  <2> QED
      BY <2>1, <2>2, <2>3, <2>4 DEF TurnInv, ServerTurn, ClientTurn, ClientLast
<1>4. /\ Init => InTurn
      /\ Shape /\ HostsInv /\ (Shape /\ HostsInv)' /\ InTurn /\ [Next]_vars => InTurn'
      /\ InTurn => ClosesInTurn
    BY <1>1, <1>2, <1>3
<1> HIDE DEF InTurn
<1> QED
    BY <1>4, PairInvariant, PTL DEF Spec
===============================================================================
