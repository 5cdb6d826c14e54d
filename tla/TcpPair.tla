------------------------------- MODULE TcpPair --------------------------------
(***************************************************************************)
(* Two hosts that both run this stack, and one connection between them:    *)
(* the user of one opens it with tcp_conversation, types lines and leaves; *)
(* the other listens and answers with what its application sends.  Between *)
(* them each direction of the network is a FIFO channel that may lose a    *)
(* bounded number of segments.  Whether a host knows the other's MAC is    *)
(* open at the start, except that the server knows a client that knows it: *)
(* the server sends nothing of its own before the connection, so a client  *)
(* that knows it has asked it, and arp_reply takes the asker into the      *)
(* cache before it answers.                                                *)
(***************************************************************************)
EXTENDS Naturals, Sequences

CONSTANTS
    SeqMod, Iss, Wnd, MaxLen, Typed, NoTcb, NoBuf,   \* as in Tcp
    ServerResponse, \* what the listening application may do with a payload
    RtoElapses,     \* whether an RTO may pass without an acknowledgement
    MaxLines,       \* bound of the model: lines the user types
    MaxLost,        \* bound of the model: segments the network loses
    MaxInFlight     \* bound of the model: see Tcp

VARIABLES
    clientTcb, clientThread, clientCalls, clientFin,
    serverTcb, serverThread, serverCalls, serverFin,
    toServer, toClient,     \* the two directions of the network
    clientKnows, serverKnows,   \* whether each has the MAC of the other
    lines,                  \* lines the user has typed
    lost,                   \* segments the network has lost
    bare                    \* history: the server closed with nothing unacknowledged

clientVars == <<clientTcb, clientThread, clientCalls, clientFin>>
serverVars == <<serverTcb, serverThread, serverCalls, serverFin>>
network    == <<toServer, toClient>>
addresses  == <<clientKnows, serverKnows>>
vars       == <<clientVars, serverVars, network, addresses, lines, lost, bare>>

K == "connection"

Opener == INSTANCE Tcp WITH
              Conn <- {K}, Listening <- {}, Client <- {K},
              Response <- {<<>>}, PeerSegment <- {},
              tcb <- clientTcb, thread <- clientThread, calls <- clientCalls,
              fin <- clientFin, inq <- toClient, outq <- toServer, known <- clientKnows

Acceptor == INSTANCE Tcp WITH
              Conn <- {K}, Listening <- {K}, Client <- {},
              Response <- ServerResponse, PeerSegment <- {},
              tcb <- serverTcb, thread <- serverThread, calls <- serverCalls,
              fin <- serverFin, inq <- toServer, outq <- toClient, known <- serverKnows

\* As in Tcp, whose instances these are.
ASSUME SeqModAssumption   == SeqMod \in Nat \ {0} /\ Iss \subseteq Opener!SeqNum
ASSUME SizeAssumption     == /\ Wnd \in 0 .. SeqMod - 1
                             /\ MaxLen \in 0 .. SeqMod - 1
                             /\ Typed \subseteq 1 .. MaxLen
ASSUME ResponseAssumption == ServerResponse \subseteq Opener!Script
ASSUME NullAssumption     == /\ NoTcb \notin Opener!Tcb
                             /\ NoBuf \notin [seq : Opener!SeqNum, len : 1 .. MaxLen]

-------------------------------------------------------------------------------
Init == /\ Opener!Init
        /\ Acceptor!Init
        /\ clientKnows[K] => serverKnows[K]
        /\ lines = 0
        /\ lost = 0
        /\ bare = FALSE

\* Each thread of each host; the user of the client opens the connection once.
ClientProc == Opener!ProcStep /\ UNCHANGED <<serverVars, serverKnows, lines, lost, bare>>
ClientCmd  == Opener!CmdStep /\ UNCHANGED <<serverVars, serverKnows, lines, lost, bare>>

Bare == serverThread["proc"].at = "active_close" /\ serverTcb[K].buf = NoBuf
ServerProc == /\ Acceptor!ProcStep
              /\ bare' = (bare \/ Bare)
              /\ UNCHANGED <<clientVars, clientKnows, lines, lost>>

Open  == /\ clientTcb[K] = NoTcb
         /\ Opener!tcp_connect(K)
         /\ UNCHANGED <<serverVars, serverKnows, lines, lost, bare>>
Type  == /\ lines < MaxLines
         /\ lines' = lines + 1
         /\ Opener!type
         /\ UNCHANGED <<serverVars, serverKnows, lost, bare>>
Leave == Opener!exit /\ UNCHANGED <<serverVars, serverKnows, lines, lost, bare>>

Timer == /\ RtoElapses
         /\ Len(toServer[K]) + Len(toClient[K]) < MaxInFlight
         /\ \/ Opener!TimerStep /\ UNCHANGED <<serverVars, serverKnows>>
            \/ Acceptor!TimerStep /\ UNCHANGED <<clientVars, clientKnows>>
         /\ UNCHANGED <<lines, lost, bare>>

\* The client asks for the server's MAC: the server learns the client's from the
\* request, the client the server's from the answer.
Learn == /\ \/ Acceptor!learn(K) /\ UNCHANGED <<clientVars, clientKnows>>
            \/ serverKnows[K] /\ Opener!learn(K) /\ UNCHANGED <<serverVars, serverKnows>>
         /\ UNCHANGED <<lines, lost, bare>>

Lose == /\ lost < MaxLost
        /\ lost' = lost + 1
        /\ \/ /\ toServer[K] # <<>>
              /\ toServer' = [toServer EXCEPT ![K] = Tail(@)]
              /\ UNCHANGED toClient
           \/ /\ toClient[K] # <<>>
              /\ toClient' = [toClient EXCEPT ![K] = Tail(@)]
              /\ UNCHANGED toServer
        /\ UNCHANGED <<clientVars, serverVars, addresses, lines, bare>>

Next == \/ ClientProc \/ ClientCmd \/ ServerProc \/ Open \/ Type \/ Leave
        \/ Timer \/ Learn \/ Lose

Spec == Init /\ [][Next]_vars

\* The threads loop forever (net_process_thread, net_send_thread; the command
\* thread inside tcp_connect, tcp_send_data and tcp_close).  The user need not type.
Fairness == /\ WF_vars(ClientProc)
            /\ WF_vars(ClientCmd)
            /\ WF_vars(ServerProc)
            /\ WF_vars(Timer)

FairSpec == Spec /\ Fairness

-------------------------------------------------------------------------------
Taken(q)     == Len(q'[K]) < Len(q[K])
InSpace(seg) == seg.kind = "FIN" \/ (seg.kind = "ACK" /\ seg.len > 0)

\* Over a network that neither loses nor reorders, and as long as no RTO passes,
\* every payload and every FIN a host takes off the network is the next one of
\* its peer's stream: it starts at the receiver's rcv_nxt and carries the bytes
\* that were first sent there, whatever the threads of the two hosts interleave.
\* The code relies on it, it sets rcv_nxt from any segment (tcp.c:170, 445).
Expected(q, tcb) == Taken(q) /\ InSpace(Head(q[K])) =>
    /\ tcb[K] # NoTcb
    /\ Head(q[K]).seq = tcb[K].rcv_nxt
    /\ Head(q[K]).src = Head(q[K]).seq
InOrder == [][Expected(toServer, serverTcb) /\ Expected(toClient, clientTcb)]_vars

Quiet == /\ toServer[K] = <<>> /\ toClient[K] = <<>>
         /\ clientThread["proc"].at = "idle" /\ serverThread["proc"].at = "idle"
         /\ clientThread["cmd"].at \in {"idle", "prompt"}

\* When nothing is under way the two ends agree: each expects exactly what the
\* other will send next, and no end that is still there keeps a payload as
\* unacknowledged.
Settled == Quiet /\ clientTcb[K] # NoTcb /\ serverTcb[K] # NoTcb =>
    /\ clientTcb[K].rcv_nxt = serverTcb[K].snd_nxt
    /\ serverTcb[K].rcv_nxt = clientTcb[K].snd_nxt
    /\ \A tcb \in {clientTcb[K], serverTcb[K]} : tcb.valid => tcb.buf = NoBuf

\* An acknowledgement releases a kept payload only when its last byte has arrived:
\* the rcv_nxt of the peer is not short of its end (tcp.c:130, "if the ACK covers the
\* data of the retransmission window, it counts as acknowledged").  The exception is
\* the wrap: tcp.c:132 compares plain numbers, so that an acknowledgement on this side
\* of 0 counts for a payload that ends on the other.  The only other step that releases
\* a payload without keeping another is a tcp_send_data that finds no memory
\* (tcp.c:379), and that takes no segment.
AcrossTheWrap(ack, end) == end < ack /\ Opener!Sub(end, ack) < SeqMod \div 2
Released(q, mine, other) ==
    Taken(q) /\ mine[K] # NoTcb /\ mine'[K] # NoTcb
        /\ mine[K].buf # NoBuf /\ mine'[K].buf = NoBuf
        => LET end == Opener!Add(mine[K].buf.seq, mine[K].buf.len) IN
           \/ Opener!Sub(other[K].rcv_nxt, end) < SeqMod \div 2
           \/ AcrossTheWrap(Head(q[K]).ack, end)
ReleasedWhenReceived ==
    [][/\ Released(toClient, clientTcb, serverTcb)
       /\ Released(toServer, serverTcb, clientTcb)]_vars

\* A SYN that is on the network is answered: the opening end comes to ESTABLISHED.
\* One that ip_send drops (ip.c:56), as the client does not know the server's MAC
\* yet, is not: tcp_connect sends it once.
InState(tcb, state) == tcb[K] # NoTcb /\ tcb[K].state = state
SynOut == \E i \in 1 .. Len(toServer[K]) : toServer[K][i].kind = "SYN"
HandshakeCompletes == SynOut ~> InState(clientTcb, "ESTABLISHED")

\* What was sent is acknowledged in the end, the FIN included: an end that is not
\* released neither keeps a payload nor stays in FIN_WAIT_1 for ever.
Waits(tcb) == tcb[K] # NoTcb /\ tcb[K].valid /\ (tcb[K].buf # NoBuf \/ tcb[K].state = "FIN_WAIT_1")
Acknowledged == /\ Waits(clientTcb) ~> ~Waits(clientTcb)
                /\ Waits(serverTcb) ~> ~Waits(serverTcb)

\* check_retransmit repairs losses: as long as an end stays ESTABLISHED its
\* kept payload is acknowledged in the end -- if need be after it has gone out
\* again at several sequence numbers, each acknowledgement moving snd_una on.
Kept(tcb) == InState(tcb, "ESTABLISHED") /\ tcb[K].buf # NoBuf
RepairsLoss == /\ Kept(clientTcb) ~> ~Kept(clientTcb)
               /\ Kept(serverTcb) ~> ~Kept(serverTcb)

\* An end that is released in LAST_ACK, by whichever acknowledgement came first
\* (tcp.c:153), leaves nobody behind, unless the server closed with nothing
\* unacknowledged: the other end has its FIN and is in TIME_WAIT.
ClosesInTurn ==
    Quiet /\ ~bare /\ clientTcb[K] # NoTcb /\ serverTcb[K] # NoTcb =>
        /\ clientTcb[K].state = "CLOSED" => serverTcb[K].state = "TIME_WAIT"
        /\ serverTcb[K].state = "CLOSED" => clientTcb[K].state = "TIME_WAIT"

-------------------------------------------------------------------------------
\* What the source says of a connection and the code does not do.

\* tcp.h:99, CLOSING: "both ends have sent a FIN, the closings cross": the states
\* are said to cover that case, so when both FINs have been received and nothing
\* is under way neither end still waits for the peer to close.
BothClosed ==
    Quiet /\ "rcvd" \in clientFin[K] /\ "rcvd" \in serverFin[K] =>
        \A tcb \in {clientTcb[K], serverTcb[K]} : tcb.state \in {"TIME_WAIT", "CLOSED"}
===============================================================================
