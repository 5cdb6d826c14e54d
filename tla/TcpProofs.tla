------------------------------ MODULE TcpProofs -------------------------------
(***************************************************************************)
(* For every set of connections, every sequence number width, every        *)
(* application and every peer: the endpoint keeps its types, and its       *)
(* closing states mean what they say about the FINs of the two sides, at   *)
(* every interleaving of its threads.                                      *)
(***************************************************************************)
EXTENDS Tcp, SequenceTheorems, TLAPS

-------------------------------------------------------------------------------
\* A thread that is not idle works on a node: nodes are never unlinked.
Linked == \A t \in Thread : thread[t].at # "idle" => tcb[thread[t].conn] # NoTcb

TypeInv == TypeOK /\ Linked

\* uint32_t addition stays in the sequence space.
LEMMA AddType ==
    ASSUME NEW a \in SeqNum, NEW b \in Nat, b <= SeqMod
    PROVE  Add(a, b) \in SeqNum
BY SeqModAssumption DEF Add, SeqNum

LEMMA LengthType ==
    ASSUME NEW seg \in Segment
    PROVE  Length(seg) \in Nat /\ Length(seg) <= SeqMod
BY SeqModAssumption, SizeAssumption DEF Length, Segment

\* Each field of a node can be assigned a value of its type.
LEMMA FieldType ==
    ASSUME NEW n \in Tcb
    PROVE  /\ \A s \in State : [n EXCEPT !.state = s] \in Tcb
           /\ \A a \in SeqNum : [n EXCEPT !.snd_nxt = a] \in Tcb
           /\ \A a \in SeqNum : [n EXCEPT !.rcv_nxt = a] \in Tcb
           /\ \A s \in State, a \in SeqNum : [n EXCEPT !.state = s, !.rcv_nxt = a] \in Tcb
           /\ \A s \in State, a \in SeqNum : [n EXCEPT !.rcv_nxt = a, !.state = s] \in Tcb
           /\ \A s \in State, v \in BOOLEAN : [n EXCEPT !.state = s, !.valid = v] \in Tcb
           /\ \A s \in State, a, b, c \in SeqNum, w \in 0 .. Wnd :
                  [n EXCEPT !.rcv_nxt = a, !.snd_nxt = b, !.snd_wnd = w, !.snd_una = c,
                            !.state = s] \in Tcb
BY DEF Tcb

LEMMA HeaderType ==
    ASSUME NEW n \in Tcb, NEW kind \in Kind, NEW len \in 0 .. MaxLen
    PROVE  Header(n, kind, len) \in Segment
BY SizeAssumption DEF Header, Segment, Tcb

LEMMA IdleType == Idle \in ThreadState /\ Nothing \in Segment
<1>1. (CHOOSE k \in Conn : TRUE) \in Conn
    BY ConnAssumption
<1>2. Nothing \in Segment
    BY SeqModAssumption, SizeAssumption DEF Nothing, Segment, Kind, SeqNum
<1> QED
    BY <1>1, <1>2 DEF Idle, ThreadState, Place

\* What acknowledging does to a node.
LEMMA AcknowledgeType ==
    ASSUME NEW n \in Tcb, NEW seg \in Segment
    PROVE  /\ Acknowledge(n, seg) \in Tcb
           /\ Acknowledge(n, seg).state = n.state
           /\ Acknowledge(n, seg).valid = n.valid
<1> DEFINE buf == IF n.buf # NoBuf /\ seg.ack >= Add(n.buf.seq, n.buf.len)
                  THEN NoBuf ELSE n.buf
<1>1. buf \in [seq : SeqNum, len : 1 .. MaxLen] \cup {NoBuf}
    BY DEF Tcb
<1>2. Acknowledge(n, seg) = [n EXCEPT !.snd_wnd = seg.wnd, !.snd_una = seg.ack, !.buf = buf]
    BY DEF Acknowledge, Tcb
<1> HIDE DEF buf
<1> QED
    BY <1>1, <1>2 DEF Tcb, Segment

LEMMA TailType ==
    ASSUME NEW S, NEW q \in Seq(S), q # <<>>
    PROVE  Head(q) \in S /\ Tail(q) \in Seq(S)
OBVIOUS

LEMMA AppendType ==
    ASSUME NEW S, NEW q \in Seq(S), NEW e \in S
    PROVE  Append(q, e) \in Seq(S)
OBVIOUS

-------------------------------------------------------------------------------
\* The typed pieces a handler works with.
LEMMA NodeType ==
    ASSUME TypeInv, NEW t \in Thread, thread[t].at # "idle"
    PROVE  thread[t].conn \in Conn /\ node(t) \in Tcb /\ thread[t].seg \in Segment
BY DEF TypeInv, TypeOK, Linked, ThreadState, node

LEMMA FoundType ==
    ASSUME TypeInv, NEW k \in Conn, Found(k)
    PROVE  tcb[k] \in Tcb
BY DEF TypeInv, TypeOK, Found

LEMMA TakingType ==
    ASSUME TypeInv, NEW k \in Conn, NEW kind, Taking(k, kind)
    PROVE  /\ Head(inq[k]) \in Segment
           /\ inq' \in [Conn -> Seq(Segment)]
<1>1. inq[k] \in Seq(Segment) /\ inq[k] # <<>>
    BY DEF TypeInv, TypeOK, Taking
<1>2. Head(inq[k]) \in Segment /\ Tail(inq[k]) \in Seq(Segment)
    BY <1>1, TailType
<1> QED
    BY <1>2 DEF TypeInv, TypeOK, Taking

\* What the shared steps of the handlers preserve.
LEMMA UpdateType ==
    ASSUME TypeInv, NEW k \in Conn, NEW n \in Tcb, Update(k, n)
    PROVE  /\ tcb' \in [Conn -> Tcb \cup {NoTcb}]
           /\ tcb'[k] = n
           /\ \A j \in Conn : tcb[j] # NoTcb => tcb'[j] # NoTcb
BY NullAssumption DEF TypeInv, TypeOK, Update

LEMMA SendType ==
    ASSUME TypeInv, NEW k \in Conn, NEW seg \in Segment, Send(k, seg)
    PROVE  outq' \in [Conn -> Seq(Segment)]
<1>1. Append(outq[k], seg) \in Seq(Segment)
    BY AppendType DEF TypeInv, TypeOK
<1> QED
    BY <1>1 DEF TypeInv, TypeOK, Send

LEMMA IpSendType ==
    ASSUME TypeInv, NEW k \in Conn, NEW seg \in Segment, ip_send(k, seg)
    PROVE  outq' \in [Conn -> Seq(Segment)]
BY SendType DEF ip_send, TypeInv, TypeOK

\* A thread that moves on keeps its connection, and only there its node matters.
LEMMA HoldType ==
    ASSUME TypeInv, NEW t \in Thread, NEW place \in Place, NEW seg \in Segment,
           thread[t].at # "idle",
           Hold(t, place, seg) \/ (seg = thread[t].seg /\ Go(t, place)),
           \A j \in Conn : tcb[j] # NoTcb => tcb'[j] # NoTcb
    PROVE  thread' \in [Thread -> ThreadState] /\ Linked'
<1>1. thread' = [thread EXCEPT ![t] = [at |-> place, conn |-> thread[t].conn, seg |-> seg]]
    BY DEF TypeInv, TypeOK, ThreadState, Hold, Go
<1>2. [at |-> place, conn |-> thread[t].conn, seg |-> seg] \in ThreadState
    BY DEF TypeInv, TypeOK, ThreadState
<1>3. thread' \in [Thread -> ThreadState]
    BY <1>1, <1>2 DEF TypeInv, TypeOK
<1>4. ASSUME NEW u \in Thread, thread'[u].at # "idle"
      PROVE  tcb'[thread'[u].conn] # NoTcb
  <2>1. thread'[u].conn = thread[u].conn /\ thread[u].conn \in Conn
      BY <1>1 DEF TypeInv, TypeOK, ThreadState
  <2>2. thread[u].at # "idle"
      BY <1>1, <1>4 DEF TypeInv, TypeOK
  <2> QED
      BY <2>1, <2>2 DEF TypeInv, Linked
<1> QED
    BY <1>3, <1>4 DEF Linked

LEMMA IdleThread ==
    ASSUME TypeInv, NEW t \in Thread, thread' = [thread EXCEPT ![t] = Idle],
           \A j \in Conn : tcb[j] # NoTcb => tcb'[j] # NoTcb
    PROVE  thread' \in [Thread -> ThreadState] /\ Linked'
<1>1. thread' \in [Thread -> ThreadState]
    BY IdleType DEF TypeInv, TypeOK
<1>2. ASSUME NEW u \in Thread, thread'[u].at # "idle"
      PROVE  tcb'[thread'[u].conn] # NoTcb
  <2>1. Idle.at = "idle"
      BY DEF Idle
  <2>2. u # t /\ thread'[u] = thread[u]
      BY <1>2, <2>1 DEF TypeInv, TypeOK
  <2>3. thread[u].conn \in Conn
      BY DEF TypeInv, TypeOK, ThreadState
  <2> QED
      BY <1>2, <2>2, <2>3 DEF TypeInv, Linked
<1> QED
    BY <1>1, <1>2 DEF Linked

LEMMA ReturnType ==
    ASSUME TypeInv, NEW t \in Thread, NEW place \in Place, Return(t, place),
           thread[t].at # "idle",
           \A j \in Conn : tcb[j] # NoTcb => tcb'[j] # NoTcb
    PROVE  thread' \in [Thread -> ThreadState] /\ Linked'
<1>1. CASE place = "idle"
    BY <1>1, IdleThread DEF Return
<1>2. CASE place # "idle"
    BY <1>2, IdleType, HoldType DEF Return
<1> QED
    BY <1>1, <1>2

\* The process thread takes up a segment of a connection that has a node.
LEMMA ProcType ==
    ASSUME TypeInv, NEW k \in Conn, NEW place \in Place, NEW seg \in Segment,
           Proc(k, place, seg), tcb'[k] # NoTcb,
           \A j \in Conn : tcb[j] # NoTcb => tcb'[j] # NoTcb
    PROVE  thread' \in [Thread -> ThreadState] /\ Linked'
<1>1. [at |-> place, conn |-> k, seg |-> seg] \in ThreadState
    BY DEF ThreadState
<1>2. thread' \in [Thread -> ThreadState]
    BY <1>1 DEF TypeInv, TypeOK, Proc
<1>3. ASSUME NEW u \in Thread, thread'[u].at # "idle"
      PROVE  tcb'[thread'[u].conn] # NoTcb
  <2>1. CASE u = "proc"
      BY <2>1 DEF Proc, TypeInv, TypeOK
  <2>2. CASE u # "proc"
    <3>1. thread'[u] = thread[u] /\ thread[u].conn \in Conn
        BY <2>2 DEF Proc, TypeInv, TypeOK, ThreadState
    <3> QED
        BY <3>1, <1>3 DEF TypeInv, Linked
  <2> QED
      BY <2>1, <2>2
<1> QED
    BY <1>2, <1>3 DEF Linked

-------------------------------------------------------------------------------
\* tcp_send_data and tcp_close, by whichever thread makes the call.
LEMMA SendDataType ==
    ASSUME TypeInv, NEW t \in Thread, thread[t].at # "idle",
           NEW len \in 1 .. MaxLen, tcp_send_data(t, len)
    PROVE  /\ tcb' \in [Conn -> Tcb \cup {NoTcb}]
           /\ thread' \in [Thread -> ThreadState]
           /\ Linked'
<1> DEFINE n == node(t)
           m == [n EXCEPT !.buf = [seq |-> n.snd_nxt, len |-> len]]
<1>1. n \in Tcb /\ thread[t].conn \in Conn
    BY NodeType
<1>2. m \in Tcb
    BY <1>1 DEF Tcb
<1>3. CASE Update(thread[t].conn, m) /\ Hold(t, "emit", Header(n, "ACK", len))
  <2>1. Update(thread[t].conn, m) /\ Hold(t, "emit", Header(n, "ACK", len))
      BY <1>3
  <2>2. Header(n, "ACK", len) \in Segment
      BY <1>1, HeaderType DEF Kind
  <2>3. /\ tcb' \in [Conn -> Tcb \cup {NoTcb}]
        /\ \A j \in Conn : tcb[j] # NoTcb => tcb'[j] # NoTcb
      BY <1>1, <1>2, <2>1, UpdateType
  <2>4. "emit" \in Place
      BY DEF Place
  <2> HIDE DEF n, m
  <2>5. thread' \in [Thread -> ThreadState] /\ Linked'
      BY <2>1, <2>2, <2>3, <2>4, HoldType
  <2> QED
      BY <2>3, <2>5
<1>4. CASE Update(thread[t].conn, [n EXCEPT !.buf = NoBuf]) /\ UNCHANGED thread
  <2> DEFINE freed == [n EXCEPT !.buf = NoBuf]
  <2>1. freed \in Tcb
      BY <1>1 DEF Tcb
  <2> HIDE DEF n, freed
  <2>2. /\ tcb' \in [Conn -> Tcb \cup {NoTcb}]
        /\ \A j \in Conn : tcb[j] # NoTcb => tcb'[j] # NoTcb
      BY <1>1, <1>4, <2>1, UpdateType DEF freed
  <2> QED
      BY <1>4, <2>2 DEF TypeInv, TypeOK, Linked, ThreadState
<1>5. CASE UNCHANGED <<tcb, thread>>
    BY <1>5 DEF TypeInv, TypeOK, Linked
<1> QED
    BY <1>3, <1>4, <1>5 DEF tcp_send_data

LEMMA CloseType ==
    ASSUME TypeInv, NEW t \in Thread, thread[t].at # "idle", tcp_close(t)
    PROVE  /\ tcb' \in [Conn -> Tcb \cup {NoTcb}]
           /\ thread' \in [Thread -> ThreadState]
           /\ Linked'
<1>1. tcb' = tcb /\ tcb' \in [Conn -> Tcb \cup {NoTcb}]
    BY DEF tcp_close, TypeInv, TypeOK
<1>2. {"active_close", "passive_close", Resume(t, "FIN")} \subseteq Place
    BY DEF Place, Resume
<1>3. thread[t].seg \in Segment
    BY NodeType
<1>4. \/ Go(t, "active_close")
      \/ Go(t, "passive_close")
      \/ Return(t, Resume(t, "FIN"))
    BY DEF tcp_close
<1>5. CASE Go(t, "active_close") \/ Go(t, "passive_close")
    BY <1>1, <1>2, <1>3, <1>5, HoldType
<1>6. CASE Return(t, Resume(t, "FIN"))
    BY <1>1, <1>2, <1>6, ReturnType
<1> QED
    BY <1>1, <1>4, <1>5, <1>6

\* Only handle_tcp_fin and emit change the history of FINs.
LEMMA EnterCloseType ==
    ASSUME TypeInv, NEW t \in Thread, enter_close(t)
    PROVE  TypeInv'
<1> DEFINE n == node(t)
           closing == IF thread[t].at = "active_close" THEN "FIN_WAIT_1" ELSE "LAST_ACK"
           m == [n EXCEPT !.state = closing]
<1>1. thread[t].at # "idle"
    BY DEF enter_close
<1>2. n \in Tcb /\ thread[t].conn \in Conn
    BY <1>1, NodeType
<1>3. m \in Tcb
    BY <1>2, FieldType DEF State
<1>4. Update(thread[t].conn, m) /\ Hold(t, "emit", Header(n, "FIN", 0))
    BY DEF enter_close
<1>5. Header(n, "FIN", 0) \in Segment /\ "emit" \in Place
    BY <1>2, HeaderType, SizeAssumption DEF Kind, Place
<1> HIDE DEF n, m
<1>6. /\ tcb' \in [Conn -> Tcb \cup {NoTcb}]
      /\ \A j \in Conn : tcb[j] # NoTcb => tcb'[j] # NoTcb
    BY <1>2, <1>3, <1>4, UpdateType
<1>7. thread' \in [Thread -> ThreadState] /\ Linked'
    BY <1>1, <1>4, <1>5, <1>6, HoldType
<1> QED
    BY <1>6, <1>7 DEF enter_close, TypeInv, TypeOK

LEMMA EmitType ==
    ASSUME TypeInv, NEW t \in Thread, emit(t)
    PROVE  TypeInv'
<1>1. thread[t].at # "idle" /\ tcb' = tcb
    BY DEF emit
<1>2. thread[t].conn \in Conn /\ thread[t].seg \in Segment
    BY <1>1, NodeType
<1>3. outq' \in [Conn -> Seq(Segment)]
    BY <1>2, IpSendType DEF emit
<1>4. thread' \in [Thread -> ThreadState] /\ Linked'
  <2>1. "advance" \in Place /\ Go(t, "advance")
      BY DEF Place, emit
  <2> QED
      BY <1>1, <1>2, <2>1, HoldType
<1>5. fin' \in [Conn -> SUBSET {"sent", "rcvd"}]
    BY <1>2 DEF emit, TypeInv, TypeOK
<1> QED
    BY <1>1, <1>3, <1>4, <1>5 DEF emit, TypeInv, TypeOK

LEMMA AdvanceType ==
    ASSUME TypeInv, NEW t \in Thread, advance(t)
    PROVE  TypeInv'
<1> DEFINE n == node(t)
           a == Add(n.snd_nxt, Length(thread[t].seg))
           m == [n EXCEPT !.snd_nxt = a]
<1>1. thread[t].at # "idle"
    BY DEF advance
<1>2. n \in Tcb /\ thread[t].conn \in Conn /\ thread[t].seg \in Segment
    BY <1>1, NodeType
<1>3. a \in SeqNum
  <2>1. n.snd_nxt \in SeqNum
      BY <1>2 DEF Tcb
  <2> QED
      BY <1>2, <2>1, AddType, LengthType
<1>4. m \in Tcb
    BY <1>2, <1>3, FieldType
<1>5. Update(thread[t].conn, m)
    BY DEF advance
<1>6. Return(t, Resume(t, thread[t].seg.kind)) /\ Resume(t, thread[t].seg.kind) \in Place
    BY DEF advance, Resume, Place
<1> HIDE DEF n, a, m
<1>7. /\ tcb' \in [Conn -> Tcb \cup {NoTcb}]
      /\ \A j \in Conn : tcb[j] # NoTcb => tcb'[j] # NoTcb
    BY <1>2, <1>4, <1>5, UpdateType
<1>8. thread' \in [Thread -> ThreadState] /\ Linked'
    BY <1>1, <1>6, <1>7, ReturnType
<1> QED
    BY <1>7, <1>8 DEF advance, TypeInv, TypeOK

-------------------------------------------------------------------------------
\* The handlers of the process thread.
LEMMA SynType ==
    ASSUME TypeInv, NEW k \in Conn, handle_tcp_syn(k)
    PROVE  TypeInv'
<1>1. inq' \in [Conn -> Seq(Segment)] /\ Head(inq[k]) \in Segment
    BY TakingType DEF handle_tcp_syn
<1> DEFINE fresh(iss) == [valid |-> TRUE, state |-> "SYN_RECV", snd_una |-> iss,
                          snd_nxt |-> iss, snd_wnd |-> Wnd,
                          rcv_nxt |-> Add(Head(inq[k]).seq, 1), buf |-> NoBuf]
           n(iss) == IF Found(k) THEN tcb[k] ELSE fresh(iss)
<1>2. PICK iss \in Iss : /\ Update(k, [n(iss) EXCEPT !.snd_nxt = Add(@, 1)])
                         /\ Proc(k, "reply", Header(n(iss), "SYNACK", 0))
    BY DEF handle_tcp_syn
<1>3. Add(Head(inq[k]).seq, 1) \in SeqNum
    BY <1>1, AddType, SeqModAssumption DEF Segment
<1>4. fresh(iss) \in Tcb
    BY <1>3, SeqModAssumption, SizeAssumption DEF Tcb, State
<1> DEFINE m == n(iss)
<1>5. m \in Tcb
    BY <1>4, FoundType
<1>6. Update(k, [m EXCEPT !.snd_nxt = Add(m.snd_nxt, 1)]) /\ Proc(k, "reply", Header(m, "SYNACK", 0))
    BY <1>2
<1> HIDE DEF m
<1>7. m.snd_nxt \in SeqNum
    BY <1>5 DEF Tcb
<1>8. Add(m.snd_nxt, 1) \in SeqNum
    BY <1>7, AddType, SeqModAssumption
<1> DEFINE answered == [m EXCEPT !.snd_nxt = Add(m.snd_nxt, 1)]
<1>9. answered \in Tcb
    BY <1>5, <1>8, FieldType
<1>10. Update(k, answered)
    BY <1>6
<1> HIDE DEF answered
<1>11. /\ tcb' \in [Conn -> Tcb \cup {NoTcb}]
       /\ tcb'[k] # NoTcb
       /\ \A j \in Conn : tcb[j] # NoTcb => tcb'[j] # NoTcb
    BY <1>9, <1>10, UpdateType, NullAssumption
<1>12. Header(m, "SYNACK", 0) \in Segment /\ "reply" \in Place
    BY <1>5, HeaderType, SizeAssumption DEF Kind, Place
<1>13. thread' \in [Thread -> ThreadState] /\ Linked'
    BY <1>6, <1>11, <1>12, ProcType
<1> QED
    BY <1>1, <1>11, <1>13 DEF handle_tcp_syn, TypeInv, TypeOK

LEMMA SecondShakeType ==
    ASSUME TypeInv, NEW k \in Conn, handle_sencond_shake(k)
    PROVE  TypeInv'
<1>1. inq' \in [Conn -> Seq(Segment)] /\ Head(inq[k]) \in Segment
    BY TakingType DEF handle_sencond_shake
<1> DEFINE m == [tcb[k] EXCEPT !.state = "ESTABLISHED"]
<1>2. m \in Tcb
    BY FoundType, FieldType DEF handle_sencond_shake, State
<1>3. Update(k, m) /\ Proc(k, "shaking", Head(inq[k])) /\ "shaking" \in Place
    BY DEF handle_sencond_shake, Place
<1> HIDE DEF m
<1>4. /\ tcb' \in [Conn -> Tcb \cup {NoTcb}]
      /\ tcb'[k] # NoTcb
      /\ \A j \in Conn : tcb[j] # NoTcb => tcb'[j] # NoTcb
    BY <1>2, <1>3, UpdateType, NullAssumption
<1>5. thread' \in [Thread -> ThreadState] /\ Linked'
    BY <1>1, <1>3, <1>4, ProcType
<1> QED
    BY <1>1, <1>4, <1>5 DEF handle_sencond_shake, TypeInv, TypeOK

LEMMA FinishShakeType ==
    ASSUME TypeInv, finish_shake
    PROVE  TypeInv'
<1> DEFINE a == Add(thread["proc"].seg.seq, 1)
           m == [node("proc") EXCEPT !.rcv_nxt = a]
<1>1. "proc" \in Thread /\ thread["proc"].at # "idle"
    BY DEF finish_shake, Thread
<1>2. node("proc") \in Tcb /\ thread["proc"].conn \in Conn /\ thread["proc"].seg \in Segment
    BY <1>1, NodeType
<1>3. a \in SeqNum
    BY <1>2, AddType, SeqModAssumption DEF Segment
<1>4. m \in Tcb
    BY <1>2, <1>3, FieldType
<1>5. Update(thread["proc"].conn, m) /\ Hold("proc", "reply", Header(m, "ACK", 0))
    BY DEF finish_shake
<1> HIDE DEF a, m
<1>6. Header(m, "ACK", 0) \in Segment /\ "reply" \in Place
    BY <1>4, HeaderType, SizeAssumption DEF Kind, Place
<1>7. /\ tcb' \in [Conn -> Tcb \cup {NoTcb}]
      /\ \A j \in Conn : tcb[j] # NoTcb => tcb'[j] # NoTcb
    BY <1>2, <1>4, <1>5, UpdateType
<1>8. thread' \in [Thread -> ThreadState] /\ Linked'
    BY <1>1, <1>5, <1>6, <1>7, HoldType
<1> QED
    BY <1>7, <1>8 DEF finish_shake, TypeInv, TypeOK

LEMMA AckType ==
    ASSUME TypeInv, NEW k \in Conn, handle_tcp_ack(k)
    PROVE  TypeInv'
<1> DEFINE seg == Head(inq[k])
           n == Acknowledge(tcb[k], seg)
           released == [n EXCEPT !.state = "CLOSED", !.valid = FALSE]
           moved == [n EXCEPT !.state = AfterAck(n.state)]
           fed == [n EXCEPT !.state = AfterAck(n.state), !.rcv_nxt = Add(seg.seq, seg.len)]
<1>1. inq' \in [Conn -> Seq(Segment)] /\ seg \in Segment
    BY TakingType DEF handle_tcp_ack
<1>2. n \in Tcb
    BY <1>1, FoundType, AcknowledgeType DEF handle_tcp_ack
<1>3. AfterAck(n.state) \in State
    BY <1>2 DEF AfterAck, Tcb, State
<1>4. Add(seg.seq, seg.len) \in SeqNum
    BY <1>1, AddType, SeqModAssumption, SizeAssumption DEF Segment
<1>5. released \in Tcb /\ moved \in Tcb /\ fed \in Tcb
    BY <1>2, <1>3, <1>4, FieldType DEF State
<1>6. \/ Update(k, released) /\ UNCHANGED <<thread, calls>>
      \/ Update(k, moved) /\ UNCHANGED <<thread, calls>>
      \/ Update(k, fed) /\ Proc(k, "app", Nothing) /\ calls' \in Response
    BY DEF handle_tcp_ack
<1> HIDE DEF n, released, moved, fed
<1>7. /\ tcb' \in [Conn -> Tcb \cup {NoTcb}]
      /\ tcb'[k] # NoTcb
      /\ \A j \in Conn : tcb[j] # NoTcb => tcb'[j] # NoTcb
    BY <1>5, <1>6, UpdateType, NullAssumption
<1>8. CASE UNCHANGED <<thread, calls>>
  <2>1. Linked'
      BY <1>7, <1>8 DEF TypeInv, TypeOK, Linked, ThreadState
  <2> QED
      BY <1>1, <1>7, <1>8, <2>1 DEF handle_tcp_ack, TypeInv, TypeOK
<1>9. CASE Proc(k, "app", Nothing) /\ calls' \in Response
  <2>1. thread' \in [Thread -> ThreadState] /\ Linked'
      BY <1>7, <1>9, IdleType, ProcType DEF Place
  <2>2. calls' \in Script
      BY <1>9, ResponseAssumption
  <2> QED
      BY <1>1, <1>7, <2>1, <2>2 DEF handle_tcp_ack, TypeInv, TypeOK
<1> QED
    BY <1>6, <1>8, <1>9

LEMMA FinType ==
    ASSUME TypeInv, NEW k \in Conn, handle_tcp_fin(k)
    PROVE  TypeInv'
<1> DEFINE seg == Head(inq[k])
           m == [tcb[k] EXCEPT !.rcv_nxt = Add(seg.seq, 1)]
<1>1. inq' \in [Conn -> Seq(Segment)] /\ seg \in Segment
    BY TakingType DEF handle_tcp_fin
<1>2. tcb[k] \in Tcb
    BY FoundType DEF handle_tcp_fin
<1>3. Add(seg.seq, 1) \in SeqNum
  <2>1. seg.seq \in SeqNum
      BY <1>1 DEF Segment
  <2> QED
      BY <2>1, AddType, SeqModAssumption
<1>4. m \in Tcb
    BY <1>2, <1>3, FieldType
<1>5. Update(k, m) /\ Proc(k, AtFin(tcb[k].state), Nothing)
    BY DEF handle_tcp_fin
<1> HIDE DEF m
<1>6. /\ tcb' \in [Conn -> Tcb \cup {NoTcb}]
      /\ tcb'[k] # NoTcb
      /\ \A j \in Conn : tcb[j] # NoTcb => tcb'[j] # NoTcb
    BY <1>4, <1>5, UpdateType, NullAssumption
<1>7. Nothing \in Segment /\ AtFin(tcb[k].state) \in Place
    BY IdleType DEF AtFin, Place
<1>8. thread' \in [Thread -> ThreadState] /\ Linked'
    BY <1>5, <1>6, <1>7, ProcType
<1>9. fin' \in [Conn -> SUBSET {"sent", "rcvd"}]
    BY DEF handle_tcp_fin, TypeInv, TypeOK
<1> QED
    BY <1>1, <1>6, <1>8, <1>9 DEF handle_tcp_fin, TypeInv, TypeOK

LEMMA FinishFinType ==
    ASSUME TypeInv, finish_fin
    PROVE  TypeInv'
<1> DEFINE n == node("proc")
           s == AfterFin(thread["proc"].at, n.state)
           m == [n EXCEPT !.state = s]
<1>1. "proc" \in Thread /\ thread["proc"].at # "idle"
    BY DEF finish_fin, Thread
<1>2. n \in Tcb /\ thread["proc"].conn \in Conn
    BY <1>1, NodeType
<1>3. s \in State
  <2>1. n.state \in State
      BY <1>2 DEF Tcb
  <2> QED
      BY <2>1 DEF AfterFin, State
<1>4. m \in Tcb
    BY <1>2, <1>3, FieldType
<1>5. Update(thread["proc"].conn, m) /\ Hold("proc", "reply", Header(m, "ACK", 0))
    BY DEF finish_fin
<1> HIDE DEF n, s, m
<1>6. Header(m, "ACK", 0) \in Segment /\ "reply" \in Place
    BY <1>4, HeaderType, SizeAssumption DEF Kind, Place
<1>7. /\ tcb' \in [Conn -> Tcb \cup {NoTcb}]
      /\ \A j \in Conn : tcb[j] # NoTcb => tcb'[j] # NoTcb
    BY <1>2, <1>4, <1>5, UpdateType
<1>8. thread' \in [Thread -> ThreadState] /\ Linked'
    BY <1>1, <1>5, <1>6, <1>7, HoldType
<1> QED
    BY <1>7, <1>8 DEF finish_fin, TypeInv, TypeOK

LEMMA AppType ==
    ASSUME TypeInv, app_layer_dispatch
    PROVE  TypeInv'
<1>1. "proc" \in Thread /\ thread["proc"].at # "idle"
    BY DEF app_layer_dispatch, Thread
<1>2. Head(calls) \in 0 .. MaxLen /\ calls' \in Script
    BY TailType DEF app_layer_dispatch, TypeInv, TypeOK, Script
<1>3. CASE Head(calls) = Close
  <2>1. tcp_close("proc")
      BY <1>3 DEF app_layer_dispatch
  <2> QED
      BY <1>1, <1>2, <2>1, CloseType DEF app_layer_dispatch, TypeInv, TypeOK
<1>4. CASE Head(calls) # Close
  <2>1. tcp_send_data("proc", Head(calls)) /\ Head(calls) \in 1 .. MaxLen
      BY <1>2, <1>4, SizeAssumption DEF app_layer_dispatch, Close
  <2> QED
      BY <1>1, <1>2, <2>1, SendDataType DEF app_layer_dispatch, TypeInv, TypeOK
<1> QED
    BY <1>3, <1>4

LEMMA AcknowledgeDataType ==
    ASSUME TypeInv, acknowledge_data
    PROVE  TypeInv'
<1>1. "proc" \in Thread /\ thread["proc"].at # "idle" /\ tcb' = tcb
    BY DEF acknowledge_data, Thread
<1>2. Header(node("proc"), "ACK", 0) \in Segment /\ "reply" \in Place
    BY <1>1, NodeType, HeaderType, SizeAssumption DEF Kind, Place
<1>3. thread' \in [Thread -> ThreadState] /\ Linked'
    BY <1>1, <1>2, HoldType DEF acknowledge_data
<1> QED
    BY <1>1, <1>3 DEF acknowledge_data, TypeInv, TypeOK

LEMMA ReplyType ==
    ASSUME TypeInv, reply
    PROVE  TypeInv'
<1>1. "proc" \in Thread /\ thread["proc"].at # "idle" /\ tcb' = tcb
    BY DEF reply, Thread
<1>2. outq' \in [Conn -> Seq(Segment)]
    BY <1>1, NodeType, SendType DEF reply
<1>3. thread' \in [Thread -> ThreadState] /\ Linked'
    BY <1>1, ReturnType DEF reply, Place
<1> QED
    BY <1>1, <1>2, <1>3 DEF reply, TypeInv, TypeOK

\* The command thread.
LEMMA ConnectType ==
    ASSUME TypeInv, NEW k \in Conn, tcp_connect(k)
    PROVE  TypeInv'
<1> DEFINE blank == [valid |-> TRUE, state |-> "CLOSED", snd_una |-> 0, snd_nxt |-> 0,
                     snd_wnd |-> 0, rcv_nxt |-> 0, buf |-> NoBuf]
           m == IF Found(k) THEN tcb[k] ELSE blank
<1>1. blank \in Tcb
    BY SeqModAssumption, SizeAssumption DEF Tcb, State, SeqNum
<1>2. m \in Tcb /\ Update(k, m)
    BY <1>1, FoundType DEF tcp_connect
<1> HIDE DEF m
<1>3. /\ tcb' \in [Conn -> Tcb \cup {NoTcb}]
      /\ tcb'[k] # NoTcb
      /\ \A j \in Conn : tcb[j] # NoTcb => tcb'[j] # NoTcb
    BY <1>2, UpdateType, NullAssumption
<1> DEFINE held == [at |-> "connect", conn |-> k, seg |-> Nothing]
<1>4. thread' = [thread EXCEPT !["cmd"] = held] /\ held \in ThreadState
    BY IdleType DEF tcp_connect, ThreadState, Place
<1>5. thread' \in [Thread -> ThreadState]
    BY <1>4 DEF TypeInv, TypeOK
<1>6. ASSUME NEW u \in Thread, thread'[u].at # "idle"
      PROVE  tcb'[thread'[u].conn] # NoTcb
  <2>1. CASE u = "cmd"
      BY <1>3, <1>4, <2>1 DEF TypeInv, TypeOK
  <2>2. CASE u # "cmd"
    <3>1. thread'[u] = thread[u] /\ thread[u].conn \in Conn
        BY <1>4, <2>2 DEF TypeInv, TypeOK, ThreadState
    <3> QED
        BY <1>3, <1>6, <3>1 DEF TypeInv, Linked
  <2> QED
      BY <2>1, <2>2
<1> QED
    BY <1>3, <1>5, <1>6 DEF tcp_connect, TypeInv, TypeOK, Linked

LEMMA ConnectInitType ==
    ASSUME TypeInv, connect_init
    PROVE  TypeInv'
<1>1. "cmd" \in Thread /\ thread["cmd"].at # "idle"
    BY DEF connect_init, Thread
<1>2. node("cmd") \in Tcb /\ thread["cmd"].conn \in Conn
    BY <1>1, NodeType
<1> DEFINE n(iss) == [node("cmd") EXCEPT !.rcv_nxt = 0, !.snd_nxt = iss,
                                         !.snd_wnd = Wnd, !.snd_una = iss,
                                         !.state = "SYN_SENT"]
<1>3. PICK iss \in Iss : Update(thread["cmd"].conn, n(iss))
                         /\ Hold("cmd", "emit", Header(n(iss), "SYN", 0))
    BY DEF connect_init
<1> DEFINE m == n(iss)
<1>4. m \in Tcb
  <2>1. /\ 0 \in SeqNum /\ iss \in SeqNum
        /\ Wnd \in 0 .. Wnd /\ "SYN_SENT" \in State
      BY SeqModAssumption, SizeAssumption DEF State, SeqNum
  <2> QED
      BY <1>2, <2>1, FieldType
<1>5. Update(thread["cmd"].conn, m) /\ Hold("cmd", "emit", Header(m, "SYN", 0))
    BY <1>3
<1> HIDE DEF m
<1>6. /\ tcb' \in [Conn -> Tcb \cup {NoTcb}]
      /\ \A j \in Conn : tcb[j] # NoTcb => tcb'[j] # NoTcb
    BY <1>2, <1>4, <1>5, UpdateType
<1>7. Header(m, "SYN", 0) \in Segment /\ "emit" \in Place
    BY <1>4, HeaderType, SizeAssumption DEF Kind, Place
<1>8. thread' \in [Thread -> ThreadState] /\ Linked'
    BY <1>1, <1>5, <1>6, <1>7, HoldType
<1> QED
    BY <1>6, <1>8 DEF connect_init, TypeInv, TypeOK

LEMMA UserType ==
    ASSUME TypeInv, type \/ exit
    PROVE  TypeInv'
<1>1. CASE type
  <2>1. "cmd" \in Thread /\ thread["cmd"].at # "idle"
      BY <1>1 DEF type, Thread
  <2>2. PICK len \in 1 .. MaxLen : tcp_send_data("cmd", len)
      BY <1>1, SizeAssumption DEF type
  <2> QED
      BY <1>1, <2>1, <2>2, SendDataType DEF type, TypeInv, TypeOK
<1>2. CASE exit
  <2>1. "cmd" \in Thread /\ thread["cmd"].at # "idle" /\ tcp_close("cmd")
      BY <1>2 DEF exit, Thread
  <2> QED
      BY <1>2, <2>1, CloseType DEF exit, TypeInv, TypeOK
<1> QED
    BY <1>1, <1>2

\* The send thread, the peers, and segments nobody is waiting for.
LEMMA RetransmitType ==
    ASSUME TypeInv, NEW k \in Conn, check_retransmit(k)
    PROVE  TypeInv'
<1> DEFINE seg == [kind |-> "ACK", seq |-> tcb[k].snd_una, ack |-> tcb[k].rcv_nxt,
                   wnd |-> Wnd, len |-> tcb[k].buf.len, src |-> tcb[k].buf.seq]
<1>1. tcb[k] \in Tcb /\ tcb[k].buf # NoBuf
    BY FoundType DEF check_retransmit
<1>2. tcb[k].buf.seq \in SeqNum /\ tcb[k].buf.len \in 0 .. MaxLen
    BY <1>1, SizeAssumption DEF Tcb
<1>3. seg \in Segment
    BY <1>1, <1>2, SizeAssumption DEF Tcb, Segment, Kind
<1>4. ip_send(k, seg)
    BY DEF check_retransmit
<1> HIDE DEF seg
<1> QED
    BY <1>3, <1>4, IpSendType DEF check_retransmit, TypeInv, TypeOK, Linked

LEMMA PeerType ==
    ASSUME TypeInv, NEW k \in Conn, peer_sends(k) \/ peer_takes(k) \/ ignore(k) \/ learn(k)
    PROVE  TypeInv'
<1>1. CASE peer_sends(k)
  <2>1. PICK seg \in Segment : inq' = [inq EXCEPT ![k] = Append(@, seg)]
      BY <1>1, PeerAssumption DEF peer_sends
  <2>2. Append(inq[k], seg) \in Seq(Segment)
      BY AppendType DEF TypeInv, TypeOK
  <2> QED
      BY <1>1, <2>1, <2>2 DEF peer_sends, TypeInv, TypeOK, Linked
<1>2. CASE peer_takes(k)
  <2>1. Tail(outq[k]) \in Seq(Segment)
      BY <1>2, TailType DEF peer_takes, TypeInv, TypeOK
  <2> QED
      BY <1>2, <2>1 DEF peer_takes, TypeInv, TypeOK, Linked
<1>3. CASE ignore(k)
  <2>1. inq' \in [Conn -> Seq(Segment)]
      BY <1>3, TakingType DEF ignore
  <2> QED
      BY <1>3, <2>1 DEF ignore, TypeInv, TypeOK, Linked
<1>4. CASE learn(k)
    BY <1>4 DEF learn, TypeInv, TypeOK, Linked
<1> QED
    BY <1>1, <1>2, <1>3, <1>4

LEMMA TypeInit == Init => TypeInv
<1> SUFFICES ASSUME Init PROVE TypeInv
    OBVIOUS
<1>1. <<>> \in Seq(Segment) /\ <<>> \in Script
    BY DEF Script
<1>2. Idle.at = "idle"
    BY DEF Idle
<1> QED
    BY <1>1, <1>2, IdleType DEF Init, TypeInv, TypeOK, Linked

LEMMA TypeStep == TypeInv /\ [Next]_vars => TypeInv'
<1> SUFFICES ASSUME TypeInv, [Next]_vars PROVE TypeInv'
    OBVIOUS
<1>0. "proc" \in Thread /\ "cmd" \in Thread
    BY DEF Thread
<1>1. CASE ProcStep
    BY <1>0, <1>1, PeerType, SynType, SecondShakeType, AckType, FinType, FinishFinType,
       FinishShakeType, AppType, AcknowledgeDataType, ReplyType, EnterCloseType, EmitType, AdvanceType
    DEF ProcStep
<1>2. CASE CmdStep
    BY <1>0, <1>2, ConnectInitType, EnterCloseType, EmitType, AdvanceType DEF CmdStep
<1>3. CASE UserStep
    BY <1>3, ConnectType, UserType DEF UserStep
<1>4. CASE TimerStep
    BY <1>4, RetransmitType DEF TimerStep
<1>5. CASE \E k \in Conn : learn(k) \/ peer_sends(k) \/ peer_takes(k)
    BY <1>5, PeerType
<1>6. CASE UNCHANGED vars
    BY <1>6 DEF vars, TypeInv, TypeOK, Linked
<1> QED
    BY <1>1, <1>2, <1>3, <1>4, <1>5, <1>6 DEF Next, StackNext

\* Every node, every segment and every thread stays of its type, for every width
\* of the sequence numbers (tcp.c).
THEOREM TypeCorrect == Spec => []TypeOK
<1>1. TypeInv => TypeOK
    BY DEF TypeInv
<1> QED
    BY <1>1, TypeInit, TypeStep, PTL DEF Spec

-------------------------------------------------------------------------------
\* The closing states and the FINs.

\* A thread that decided for the passive close saw CLOSE_WAIT: the peer's FIN had
\* come.  It is what the invariant must remember between the test and the store.
PassiveClose == \A t \in Thread :
    thread[t].at = "passive_close" => "rcvd" \in fin[thread[t].conn]

\* A process thread that has decided what a FIN does to the state has seen the FIN,
\* and takes the connection for over only if this side has closed.
Decided == {"to_CLOSE_WAIT", "to_TIME_WAIT"}
TakingFin == \A t \in Thread : thread[t].at \in Decided =>
    /\ "rcvd" \in fin[thread[t].conn]
    /\ thread[t].at = "to_TIME_WAIT" =>
           "sent" \in fin[thread[t].conn] \/ ClosingFin(thread[t].conn)

FinInv == PeerHasClosed /\ PassiveClose /\ TakingFin /\ WeHaveClosed

HoldsFin(t) == thread[t].at = "emit" /\ thread[t].seg.kind = "FIN"

\* A thread between tcp_close's FIN and its emission does nothing else, it comes
\* to the passive close only over CLOSE_WAIT, and decides what a FIN does only
\* when it takes one.
Steady(t) ==
    /\ HoldsFin(t) => thread'[t] = thread[t]
    /\ thread'[t].at = "passive_close" =>
           \/ thread'[t] = thread[t]
           \/ /\ thread'[t].conn = thread[t].conn
              /\ thread[t].at # "idle"
              /\ node(t).state = "CLOSE_WAIT"
    /\ thread'[t].at \in Decided =>
           \/ thread'[t] = thread[t]
           \/ LET k == thread'[t].conn IN
              /\ "rcvd" \in fin'[k]
              /\ tcb[k] # NoTcb
              /\ thread'[t].at = "to_TIME_WAIT" => tcb[k].state = "FIN_WAIT_2"

\* The places the other steps lead to are not those of a FIN in work.
LEMMA Undecided ==
    /\ "emit" \notin Decided /\ "reply" \notin Decided /\ "idle" \notin Decided
    /\ "active_close" \notin Decided /\ "passive_close" \notin Decided
BY DEF Decided

LEMMA HoldSteady ==
    ASSUME TypeInv, NEW u \in Thread, NEW place, NEW seg,
           Hold(u, place, seg) \/ Go(u, place),
           ~HoldsFin(u), place \notin Decided,
           place = "passive_close" => thread[u].at # "idle" /\ node(u).state = "CLOSE_WAIT"
    PROVE  \A t \in Thread : Steady(t)
<1> SUFFICES ASSUME NEW t \in Thread PROVE Steady(t)
    OBVIOUS
<1>1. CASE t # u
    BY <1>1 DEF Hold, Go, Steady, TypeInv, TypeOK
<1>2. CASE t = u
  <2>1. thread'[t].conn = thread[t].conn /\ thread'[t].at = place
      BY <1>2 DEF Hold, Go, TypeInv, TypeOK, ThreadState
  <2> QED
      BY <1>2, <2>1 DEF Steady
<1> QED
    BY <1>1, <1>2

LEMMA SetSteady ==
    ASSUME TypeInv, NEW u \in Thread, NEW new \in ThreadState,
           thread' = [thread EXCEPT ![u] = new],
           ~HoldsFin(u), new.at # "passive_close", new.at \notin Decided
    PROVE  \A t \in Thread : Steady(t)
BY DEF Steady, TypeInv, TypeOK

LEMMA ReturnSteady ==
    ASSUME TypeInv, NEW u \in Thread, NEW place,
           Return(u, place), ~HoldsFin(u), place # "passive_close",
           place \notin Decided
    PROVE  \A t \in Thread : Steady(t)
<1>1. CASE place = "idle"
  <2>1. Idle \in ThreadState /\ Idle.at # "passive_close" /\ Idle.at \notin Decided
      BY IdleType DEF Idle, Decided
  <2> QED
      BY <1>1, <2>1, SetSteady DEF Return
<1>2. CASE place # "idle"
    BY <1>2, HoldSteady DEF Return
<1> QED
    BY <1>1, <1>2

LEMMA ProcSteady ==
    ASSUME TypeInv, NEW k \in Conn, NEW place \in Place, NEW seg \in Segment,
           Proc(k, place, seg), thread["proc"].at # "emit", place # "passive_close",
           place \notin Decided
    PROVE  \A t \in Thread : Steady(t)
<1> DEFINE new == [at |-> place, conn |-> k, seg |-> seg]
<1>1. new \in ThreadState /\ new.at # "passive_close" /\ new.at \notin Decided
    BY DEF ThreadState
<1>2. thread' = [thread EXCEPT !["proc"] = new] /\ "proc" \in Thread
    BY DEF Proc, Thread
<1>3. ~HoldsFin("proc")
    BY DEF HoldsFin
<1> HIDE DEF new
<1> QED
    BY <1>1, <1>2, <1>3, SetSteady

LEMMA CloseSteady ==
    ASSUME TypeInv, NEW u \in Thread, thread[u].at \notin {"idle", "emit"}, tcp_close(u)
    PROVE  \A t \in Thread : Steady(t)
<1>1. ~HoldsFin(u)
    BY DEF HoldsFin
<1>2. CASE node(u).state = "CLOSE_WAIT"
    BY <1>1, <1>2, HoldSteady, Undecided DEF tcp_close
<1>3. CASE node(u).state # "CLOSE_WAIT"
  <2>1. Go(u, "active_close") \/ Return(u, Resume(u, "FIN"))
      BY <1>3 DEF tcp_close
  <2>2. Resume(u, "FIN") # "passive_close" /\ Resume(u, "FIN") \notin Decided
      BY DEF Resume, Decided
  <2> QED
      BY <1>1, <2>1, <2>2, Undecided, HoldSteady, ReturnSteady
<1> QED
    BY <1>2, <1>3

LEMMA SendDataSteady ==
    ASSUME TypeInv, NEW u \in Thread, thread[u].at # "emit", NEW len, tcp_send_data(u, len)
    PROVE  \A t \in Thread : Steady(t)
<1>1. ~HoldsFin(u)
    BY DEF HoldsFin
<1>2. CASE thread' = thread
    BY <1>2 DEF Steady
<1>3. CASE Hold(u, "emit", Header(node(u), "ACK", len))
    BY <1>1, <1>3, HoldSteady, Undecided
<1> QED
    BY <1>2, <1>3 DEF tcp_send_data

LEMMA ThreadSteady ==
    ASSUME TypeInv, [Next]_vars, NEW t \in Thread
    PROVE  Steady(t) \/ emit(t)
<1>0. "proc" \in Thread /\ "cmd" \in Thread
    BY DEF Thread
<1>1. ASSUME NEW k \in Conn,
             ignore(k) \/ learn(k) \/ peer_sends(k) \/ peer_takes(k) \/ check_retransmit(k)
      PROVE  Steady(t)
    BY <1>1 DEF ignore, learn, peer_sends, peer_takes, check_retransmit, Steady
<1>2. ASSUME NEW k \in Conn, handle_tcp_syn(k)
      PROVE  Steady(t)
  <2>1. PICK seg : Proc(k, "reply", seg)
      BY <1>2 DEF handle_tcp_syn
  <2>2. thread["proc"].at # "emit" /\ ~HoldsFin("proc")
      BY <1>2 DEF handle_tcp_syn, Taking, HoldsFin
  <2>3. thread' \in [Thread -> ThreadState]
      BY <1>2, SynType DEF TypeInv, TypeOK
  <2> QED
      BY <1>0, <2>1, <2>2, <2>3 DEF Proc, Steady, Decided, TypeInv, TypeOK
<1>3. ASSUME NEW k \in Conn, handle_sencond_shake(k)
      PROVE  Steady(t)
  <2>1. Head(inq[k]) \in Segment
      BY <1>3, TakingType DEF handle_sencond_shake
  <2> QED
      BY <1>3, <2>1, ProcSteady DEF handle_sencond_shake, Taking, Place, Decided
<1>4. ASSUME NEW k \in Conn, handle_tcp_ack(k)
      PROVE  Steady(t)
  <2>1. UNCHANGED thread \/ Proc(k, "app", Nothing)
      BY <1>4 DEF handle_tcp_ack
  <2>2. thread["proc"].at # "emit"
      BY <1>4 DEF handle_tcp_ack, Taking
  <2>3. CASE UNCHANGED thread
      BY <2>3 DEF Steady
  <2>4. CASE Proc(k, "app", Nothing)
      BY <2>2, <2>4, IdleType, ProcSteady DEF Place, Decided
  <2> QED
      BY <2>1, <2>3, <2>4
<1>5. ASSUME NEW k \in Conn, handle_tcp_fin(k)
      PROVE  Steady(t)
  <2> DEFINE place == AtFin(tcb[k].state)
  <2>1. thread' = [thread EXCEPT !["proc"] = [at |-> place, conn |-> k, seg |-> Nothing]]
      BY <1>5 DEF handle_tcp_fin, Proc
  <2>2. ~HoldsFin("proc") /\ tcb[k] # NoTcb /\ "rcvd" \in fin'[k]
      BY <1>5 DEF handle_tcp_fin, Taking, Found, HoldsFin, TypeInv, TypeOK
  <2>3. /\ place # "passive_close"
        /\ place = "to_TIME_WAIT" => tcb[k].state = "FIN_WAIT_2"
      BY DEF AtFin
  <2> HIDE DEF place
  <2>4. CASE t = "proc"
    <3>1. thread'[t].at = place /\ thread'[t].conn = k
        BY <1>0, <2>1, <2>4 DEF TypeInv, TypeOK
    <3> QED
        BY <2>2, <2>3, <2>4, <3>1 DEF Steady
  <2>5. CASE t # "proc"
      BY <2>1, <2>5 DEF Steady, TypeInv, TypeOK
  <2> QED
      BY <2>4, <2>5
<1>6. CASE finish_shake
  <2>1. PICK seg : Hold("proc", "reply", seg)
      BY <1>6 DEF finish_shake
  <2> QED
      BY <1>0, <1>6, <2>1, HoldSteady, Undecided DEF finish_shake, HoldsFin
<1>7. CASE app_layer_dispatch
    BY <1>0, <1>7, CloseSteady, SendDataSteady DEF app_layer_dispatch
<1>8. CASE acknowledge_data
    BY <1>0, <1>8, HoldSteady, Undecided DEF acknowledge_data, HoldsFin
<1>9. CASE reply
    BY <1>0, <1>9, ReturnSteady, Undecided DEF reply, HoldsFin
<1>10. ASSUME NEW u \in Thread, enter_close(u)
       PROVE  Steady(t)
    BY <1>10, HoldSteady, Undecided DEF enter_close, HoldsFin
<1>11. ASSUME NEW u \in Thread, emit(u)
       PROVE  Steady(t) \/ emit(t)
  <2>1. CASE u = t
      BY <1>11, <2>1
  <2>2. CASE u # t
      BY <1>11, <2>2 DEF emit, Go, Steady, TypeInv, TypeOK
  <2> QED
      BY <2>1, <2>2
<1>12. ASSUME NEW u \in Thread, advance(u)
       PROVE  Steady(t)
  <2>1. /\ ~HoldsFin(u)
        /\ Resume(u, thread[u].seg.kind) # "passive_close"
        /\ Resume(u, thread[u].seg.kind) \notin Decided
      BY <1>12 DEF advance, HoldsFin, Resume, Decided
  <2> QED
      BY <1>12, <2>1, ReturnSteady DEF advance
<1>13. ASSUME NEW k \in Conn, tcp_connect(k)
       PROVE  Steady(t)
  <2> DEFINE new == [at |-> "connect", conn |-> k, seg |-> Nothing]
  <2>1. new \in ThreadState /\ new.at # "passive_close" /\ new.at \notin Decided
      BY IdleType DEF ThreadState, Place, Decided
  <2>2. thread' = [thread EXCEPT !["cmd"] = new] /\ ~HoldsFin("cmd")
      BY <1>13 DEF tcp_connect, HoldsFin
  <2> HIDE DEF new
  <2> QED
      BY <1>0, <2>1, <2>2, SetSteady
<1>14. CASE connect_init
  <2>1. PICK seg : Hold("cmd", "emit", seg)
      BY <1>14 DEF connect_init
  <2> QED
      BY <1>0, <1>14, <2>1, HoldSteady, Undecided DEF connect_init, HoldsFin
<1>15. CASE type
  <2>1. PICK len : tcp_send_data("cmd", len)
      BY <1>15 DEF type
  <2> QED
      BY <1>0, <1>15, <2>1, SendDataSteady DEF type
<1>16. CASE exit
    BY <1>0, <1>16, CloseSteady DEF exit
<1>17. CASE UNCHANGED vars
    BY <1>17 DEF vars, Steady
<1>18. CASE finish_fin
  <2>1. PICK seg : Hold("proc", "reply", seg)
      BY <1>18 DEF finish_fin
  <2> QED
      BY <1>0, <1>18, <2>1, HoldSteady, Undecided DEF finish_fin, HoldsFin
<1>19. CASE ProcStep
    BY <1>0, <1>1, <1>2, <1>3, <1>4, <1>5, <1>6, <1>7, <1>8, <1>9, <1>10, <1>11, <1>12,
       <1>19, <1>18 DEF ProcStep
<1>20. CASE CmdStep \/ UserStep
    BY <1>0, <1>10, <1>11, <1>12, <1>13, <1>14, <1>15, <1>16, <1>20 DEF CmdStep, UserStep
<1> QED
    BY <1>1, <1>17, <1>19, <1>20 DEF Next, StackNext, TimerStep

-------------------------------------------------------------------------------
\* The history only grows.
LEMMA FinGrows ==
    ASSUME TypeInv, [Next]_vars, NEW k \in Conn
    PROVE  fin[k] \subseteq fin'[k]
<1>1. ASSUME NEW t \in Thread, emit(t)
      PROVE  fin[k] \subseteq fin'[k]
    BY <1>1 DEF emit, TypeInv, TypeOK
<1>2. ASSUME NEW j \in Conn, handle_tcp_fin(j)
      PROVE  fin[k] \subseteq fin'[k]
    BY <1>2 DEF handle_tcp_fin, TypeInv, TypeOK
<1>3. CASE fin' = fin
    BY <1>3
<1>4. \/ fin' = fin
      \/ \E t \in Thread : emit(t)
      \/ \E j \in Conn : handle_tcp_fin(j)
  <2>1. ProcStep => \/ fin' = fin
                    \/ \E t \in Thread : emit(t)
                    \/ \E j \in Conn : handle_tcp_fin(j)
      BY DEF ProcStep, ignore, handle_tcp_syn, handle_sencond_shake, handle_tcp_ack,
             finish_shake, finish_fin, app_layer_dispatch, acknowledge_data, reply,
             enter_close, advance, Thread
  <2>2. CmdStep \/ UserStep => fin' = fin \/ \E t \in Thread : emit(t)
      BY DEF CmdStep, UserStep, connect_init, enter_close, advance, tcp_connect, type,
             exit, Thread
  <2> QED
      BY <2>1, <2>2 DEF Next, StackNext, TimerStep, check_retransmit, learn,
                        peer_sends, peer_takes, vars
<1> QED
    BY <1>1, <1>2, <1>3, <1>4

\* A FIN that was sent, or that a thread has in its hands, stays so.
LEMMA SentStays ==
    ASSUME TypeInv, [Next]_vars, NEW k \in Conn, "sent" \in fin[k] \/ ClosingFin(k)
    PROVE  "sent" \in fin'[k] \/ ClosingFin(k)'
<1>1. CASE "sent" \in fin[k]
    BY <1>1, FinGrows
<1>2. ASSUME NEW t \in Thread, thread[t].conn = k, HoldsFin(t)
      PROVE  "sent" \in fin'[k] \/ ClosingFin(k)'
  <2>1. CASE emit(t)
      BY <1>2, <2>1 DEF emit, HoldsFin, TypeInv, TypeOK
  <2>2. CASE thread'[t] = thread[t]
      BY <1>2, <2>2 DEF ClosingFin, HoldsFin
  <2> QED
      BY <1>2, <2>1, <2>2, ThreadSteady DEF Steady
<1> QED
    BY <1>1, <1>2 DEF ClosingFin, HoldsFin

\* How the node of a connection may change in one step.
Fresh(k)    == tcb'[k].valid /\ tcb'[k].state \in {"CLOSED", "SYN_RECV"}
Alike(k)    == tcb[k] # NoTcb /\ tcb'[k].valid = tcb[k].valid
Opens(k)    == Alike(k) /\ tcb'[k].state \in {tcb[k].state, "SYN_SENT", "ESTABLISHED"}
Releases(k) == tcb[k] # NoTcb /\ tcb[k].state = "LAST_ACK" /\ tcb'[k].state = "CLOSED"
Waits2(k)   == Alike(k) /\ tcb[k].state = "FIN_WAIT_1" /\ tcb'[k].state = "FIN_WAIT_2"
TakesFin(k) == /\ Alike(k)
               /\ "rcvd" \in fin'[k]
               /\ \/ tcb'[k].state = "CLOSE_WAIT"
                  \/ /\ "sent" \in fin[k] \/ ClosingFin(k)
                     /\ tcb'[k].state = "TIME_WAIT"
Closes(k)   == /\ Alike(k)
               /\ \E t \in Thread :
                      /\ thread[t].conn = k /\ thread'[t].conn = k
                      /\ HoldsFin(t)'
                      /\ \/ tcb'[k].state = "FIN_WAIT_1"
                         \/ thread[t].at = "passive_close" /\ tcb'[k].state = "LAST_ACK"

Moves(k) == tcb'[k] # NoTcb => Fresh(k) \/ Opens(k) \/ Releases(k) \/ Waits2(k)
                               \/ TakesFin(k) \/ Closes(k)

LEMMA UpdateAt ==
    ASSUME TypeInv, NEW k \in Conn, NEW n, Update(k, n)
    PROVE  tcb'[k] = n /\ \A j \in Conn \ {k} : tcb'[j] = tcb[j]
BY DEF Update, TypeInv, TypeOK

LEMMA SameMoves ==
    ASSUME NEW k \in Conn, tcb'[k] = tcb[k]
    PROVE  Moves(k)
BY DEF Moves, Opens, Alike

LEMMA UpdateMoves ==
    ASSUME TypeInv, NEW j \in Conn, NEW n, Update(j, n), NEW k \in Conn,
           tcb'[j] = n => Moves(j)
    PROVE  Moves(k)
<1>1. CASE k = j
    BY <1>1, UpdateAt
<1>2. CASE k # j
    BY <1>2, UpdateAt, SameMoves
<1> QED
    BY <1>1, <1>2

LEMMA SendDataMoves ==
    ASSUME TypeInv, NEW t \in Thread, thread[t].at # "idle", NEW len,
           tcp_send_data(t, len), NEW k \in Conn
    PROVE  Moves(k)
<1> DEFINE j == thread[t].conn
           m(buf) == [node(t) EXCEPT !.buf = buf]
<1>1. j \in Conn /\ node(t) \in Tcb /\ tcb[j] = node(t)
    BY NodeType DEF node
<1>2. tcb' = tcb \/ \E buf : Update(j, m(buf))
    BY DEF tcp_send_data
<1>3. ASSUME NEW buf, Update(j, m(buf))
      PROVE  Moves(k)
  <2> DEFINE n == m(buf)
  <2>1. n.state = node(t).state /\ n.valid = node(t).valid /\ Update(j, n)
      BY <1>1, <1>3 DEF Tcb
  <2> HIDE DEF n, m, j
  <2>2. tcb'[j] = n => Moves(j)
      BY <1>1, <2>1, NullAssumption DEF Moves, Opens, Alike
  <2> QED
      BY <1>1, <2>1, <2>2, UpdateMoves
<1> QED
    BY <1>2, <1>3, SameMoves

LEMMA SynMoves ==
    ASSUME TypeInv, NEW j \in Conn, handle_tcp_syn(j), NEW k \in Conn
    PROVE  Moves(k)
<1> DEFINE fresh(iss) == [valid |-> TRUE, state |-> "SYN_RECV", snd_una |-> iss,
                          snd_nxt |-> iss, snd_wnd |-> Wnd,
                          rcv_nxt |-> Add(Head(inq[j]).seq, 1), buf |-> NoBuf]
           old(iss) == IF Found(j) THEN tcb[j] ELSE fresh(iss)
           new(iss) == [old(iss) EXCEPT !.snd_nxt = Add(old(iss).snd_nxt, 1)]
<1>1. PICK iss \in Iss : Update(j, new(iss))
    BY DEF handle_tcp_syn
<1>2. CASE Found(j)
  <2>1. tcb[j] \in Tcb /\ old(iss) = tcb[j]
      BY <1>2, FoundType
  <2>2. new(iss).state = tcb[j].state /\ new(iss).valid = tcb[j].valid
      BY <2>1 DEF Tcb
  <2> DEFINE n == new(iss)
  <2>3. n.state = tcb[j].state /\ n.valid = tcb[j].valid /\ Update(j, n)
      BY <1>1, <2>2
  <2> HIDE DEF n
  <2>4. tcb'[j] = n => Moves(j)
      BY <1>2, <2>3 DEF Moves, Opens, Alike, Found
  <2> QED
      BY <2>3, <2>4, UpdateMoves
<1>3. CASE ~Found(j)
  <2> DEFINE n == new(iss)
  <2>1. n.state = "SYN_RECV" /\ n.valid = TRUE /\ Update(j, n)
      BY <1>1, <1>3
  <2> HIDE DEF n
  <2>2. tcb'[j] = n => Moves(j)
      BY <2>1 DEF Moves, Fresh
  <2> QED
      BY <2>1, <2>2, UpdateMoves
<1> QED
    BY <1>2, <1>3

LEMMA AckMoves ==
    ASSUME TypeInv, NEW j \in Conn, handle_tcp_ack(j), NEW k \in Conn
    PROVE  Moves(k)
<1> DEFINE seg == Head(inq[j])
           n == Acknowledge(tcb[j], seg)
           released == [n EXCEPT !.state = "CLOSED", !.valid = FALSE]
           moved == [n EXCEPT !.state = AfterAck(n.state)]
           fed == [n EXCEPT !.state = AfterAck(n.state), !.rcv_nxt = Add(seg.seq, seg.len)]
<1>1. Found(j) /\ tcb[j] # NoTcb
    BY DEF handle_tcp_ack, Found
<1>2. n \in Tcb /\ n.state = tcb[j].state /\ n.valid = tcb[j].valid
    BY <1>1, FoundType, TakingType, AcknowledgeType DEF handle_tcp_ack
<1>3. \/ Update(j, released) /\ n.state = "LAST_ACK"
      \/ Update(j, moved)
      \/ Update(j, fed)
    BY DEF handle_tcp_ack
<1> HIDE DEF n
<1>4. /\ released.state = "CLOSED"
      /\ moved.state = AfterAck(n.state) /\ moved.valid = n.valid
      /\ fed.state = AfterAck(n.state) /\ fed.valid = n.valid
    BY <1>2 DEF Tcb
<1>5. \/ AfterAck(n.state) = n.state
      \/ AfterAck(n.state) = "ESTABLISHED"
      \/ n.state = "FIN_WAIT_1" /\ AfterAck(n.state) = "FIN_WAIT_2"
    BY DEF AfterAck
<1> HIDE DEF released, moved, fed
<1>6. CASE Update(j, released) /\ n.state = "LAST_ACK"
  <2>1. tcb'[j] = released => Moves(j)
      BY <1>1, <1>2, <1>4, <1>6 DEF Moves, Releases
  <2> QED
      BY <1>6, <2>1, UpdateMoves
<1>7. ASSUME NEW m, m.state = AfterAck(n.state), m.valid = n.valid, tcb'[j] = m
      PROVE  Moves(j)
    BY <1>1, <1>2, <1>5, <1>7 DEF Moves, Opens, Waits2, Alike
<1>8. CASE Update(j, moved)
    BY <1>4, <1>7, <1>8, UpdateMoves
<1>9. CASE Update(j, fed)
    BY <1>4, <1>7, <1>9, UpdateMoves
<1> QED
    BY <1>3, <1>6, <1>8, <1>9

LEMMA FinishFinMoves ==
    ASSUME TypeInv, FinInv, finish_fin, NEW k \in Conn
    PROVE  Moves(k)
<1> DEFINE j == thread["proc"].conn
           n == node("proc")
           m == [n EXCEPT !.state = AfterFin(thread["proc"].at, n.state)]
<1>0. "proc" \in Thread /\ thread["proc"].at # "idle"
    BY DEF finish_fin, Thread
<1>1. n \in Tcb /\ j \in Conn /\ tcb[j] = n /\ n # NoTcb
    BY <1>0, NodeType, NullAssumption DEF node
<1>2. m.state = AfterFin(thread["proc"].at, n.state) /\ m.valid = n.valid
    BY <1>1 DEF Tcb
<1>3. Update(j, m) /\ fin' = fin
    BY DEF finish_fin
<1>4. \/ thread["proc"].at = "to_CLOSE_WAIT" /\ m.state = "CLOSE_WAIT"
      \/ thread["proc"].at = "to_TIME_WAIT" /\ m.state = "TIME_WAIT"
      \/ m.state = n.state
    BY <1>2 DEF AfterFin
<1>5. /\ thread["proc"].at \in Decided => "rcvd" \in fin[j]
      /\ thread["proc"].at = "to_TIME_WAIT" => "sent" \in fin[j] \/ ClosingFin(j)
    BY <1>0 DEF FinInv, TakingFin, Decided
<1> HIDE DEF j, n, m
<1>6. tcb'[j] = m => Moves(j)
  <2> SUFFICES ASSUME tcb'[j] = m PROVE Moves(j)
      OBVIOUS
  <2>1. Alike(j)
      BY <1>1, <1>2 DEF Alike
  <2> QED
      BY <1>1, <1>3, <1>4, <1>5, <2>1 DEF Moves, Opens, TakesFin, Decided
<1> QED
    BY <1>1, <1>3, <1>6, UpdateMoves

LEMMA EnterCloseMoves ==
    ASSUME TypeInv, NEW t \in Thread, enter_close(t), NEW k \in Conn
    PROVE  Moves(k)
<1> DEFINE j == thread[t].conn
           closing == IF thread[t].at = "active_close" THEN "FIN_WAIT_1" ELSE "LAST_ACK"
           m == [node(t) EXCEPT !.state = closing]
           h == Header(node(t), "FIN", 0)
<1>1. thread[t].at \in {"active_close", "passive_close"}
    BY DEF enter_close
<1>2. j \in Conn /\ node(t) \in Tcb /\ tcb[j] = node(t) /\ tcb[j] # NoTcb
    BY <1>1, NodeType, NullAssumption DEF node
<1>3. m.state = closing /\ m.valid = tcb[j].valid
    BY <1>2 DEF Tcb
<1>4. Update(j, m) /\ Hold(t, "emit", h) /\ h.kind = "FIN"
    BY DEF enter_close, Header
<1> HIDE DEF h
<1>5. thread'[t].conn = j /\ thread'[t].at = "emit" /\ thread'[t].seg = h
    BY <1>4 DEF Hold, TypeInv, TypeOK, ThreadState
<1>6. HoldsFin(t)'
    BY <1>4, <1>5 DEF HoldsFin
<1> HIDE DEF m, j
<1>7. tcb'[j] = m => Moves(j)
  <2> SUFFICES ASSUME tcb'[j] = m PROVE Closes(j)
      BY DEF Moves
  <2>1. \/ tcb'[j].state = "FIN_WAIT_1"
        \/ thread[t].at = "passive_close" /\ tcb'[j].state = "LAST_ACK"
      BY <1>1, <1>3
  <2>2. Alike(j)
      BY <1>2, <1>3 DEF Alike
  <2>3. thread[t].conn = j
      BY DEF j
  <2> QED
      BY <1>5, <1>6, <2>1, <2>2, <2>3 DEF Closes
<1> QED
    BY <1>2, <1>4, <1>7, UpdateMoves

LEMMA ConnectMoves ==
    ASSUME TypeInv, NEW j \in Conn, tcp_connect(j), NEW k \in Conn
    PROVE  Moves(k)
<1> DEFINE blank == [valid |-> TRUE, state |-> "CLOSED", snd_una |-> 0, snd_nxt |-> 0,
                     snd_wnd |-> 0, rcv_nxt |-> 0, buf |-> NoBuf]
<1>1. Update(j, IF Found(j) THEN tcb[j] ELSE blank)
    BY DEF tcp_connect
<1>2. CASE Found(j)
  <2>1. Update(j, tcb[j])
      BY <1>1, <1>2
  <2> QED
      BY <2>1, UpdateMoves, SameMoves
<1>3. CASE ~Found(j)
  <2>1. Update(j, blank) /\ blank.valid = TRUE /\ blank.state = "CLOSED"
      BY <1>1, <1>3
  <2> HIDE DEF blank
  <2>2. tcb'[j] = blank => Moves(j)
      BY <2>1 DEF Moves, Fresh
  <2> QED
      BY <2>1, <2>2, UpdateMoves
<1> QED
    BY <1>2, <1>3

\* Handlers that leave the state alone, or open the connection.
LEMMA OpenMoves ==
    ASSUME TypeInv, NEW j \in Conn, tcb[j] # NoTcb, NEW n, Update(j, n),
           n.valid = tcb[j].valid,
           n.state \in {tcb[j].state, "SYN_SENT", "ESTABLISHED"},
           NEW k \in Conn
    PROVE  Moves(k)
<1>1. tcb'[j] = n => Moves(j)
    BY DEF Moves, Opens, Alike
<1> QED
    BY <1>1, UpdateMoves

LEMMA ThreadOpenMoves ==
    ASSUME TypeInv, NEW t \in Thread, thread[t].at # "idle",
           NEW n, Update(thread[t].conn, n),
           n.valid = node(t).valid,
           n.state \in {node(t).state, "SYN_SENT", "ESTABLISHED"},
           NEW k \in Conn
    PROVE  Moves(k)
<1>1. thread[t].conn \in Conn /\ tcb[thread[t].conn] # NoTcb
    BY DEF TypeInv, TypeOK, Linked, ThreadState
<1> QED
    BY <1>1, OpenMoves DEF node

LEMMA NodeMoves ==
    ASSUME TypeInv, FinInv, [Next]_vars, NEW k \in Conn
    PROVE  Moves(k)
<1>0. "proc" \in Thread /\ "cmd" \in Thread
    BY DEF Thread
<1>1. CASE tcb' = tcb
    BY <1>1, SameMoves
<1>2. ASSUME NEW j \in Conn, handle_sencond_shake(j)
      PROVE  Moves(k)
  <2> DEFINE m == [tcb[j] EXCEPT !.state = "ESTABLISHED"]
  <2>1. tcb[j] \in Tcb /\ tcb[j] # NoTcb /\ Update(j, m)
      BY <1>2, FoundType DEF handle_sencond_shake, Found
  <2>2. m.valid = tcb[j].valid /\ m.state = "ESTABLISHED"
      BY <2>1 DEF Tcb
  <2> HIDE DEF m
  <2> QED
      BY <2>1, <2>2, OpenMoves
<1>3. CASE finish_shake
  <2> DEFINE m == [node("proc") EXCEPT !.rcv_nxt = Add(thread["proc"].seg.seq, 1)]
  <2>1. thread["proc"].at # "idle" /\ Update(thread["proc"].conn, m)
      BY <1>3 DEF finish_shake
  <2>2. node("proc") \in Tcb
      BY <1>0, <2>1, NodeType
  <2>3. m.valid = node("proc").valid /\ m.state = node("proc").state
      BY <2>2 DEF Tcb
  <2> HIDE DEF m
  <2> QED
      BY <1>0, <2>1, <2>3, ThreadOpenMoves
<1>4. ASSUME NEW t \in Thread, advance(t)
      PROVE  Moves(k)
  <2> DEFINE m == [node(t) EXCEPT !.snd_nxt = Add(node(t).snd_nxt, Length(thread[t].seg))]
  <2>1. thread[t].at # "idle" /\ Update(thread[t].conn, m)
      BY <1>4 DEF advance
  <2>2. node(t) \in Tcb
      BY <2>1, NodeType
  <2>3. m.valid = node(t).valid /\ m.state = node(t).state
      BY <2>2 DEF Tcb
  <2> HIDE DEF m
  <2> QED
      BY <2>1, <2>3, ThreadOpenMoves
<1>5. CASE connect_init
  <2> DEFINE n(iss) == [node("cmd") EXCEPT !.rcv_nxt = 0, !.snd_nxt = iss,
                                           !.snd_wnd = Wnd, !.snd_una = iss,
                                           !.state = "SYN_SENT"]
  <2>1. thread["cmd"].at # "idle"
      BY <1>5 DEF connect_init
  <2>2. PICK iss \in Iss : Update(thread["cmd"].conn, n(iss))
      BY <1>5 DEF connect_init
  <2> DEFINE m == n(iss)
  <2>3. node("cmd") \in Tcb
      BY <1>0, <2>1, NodeType
  <2>4. m.valid = node("cmd").valid /\ m.state = "SYN_SENT" /\ Update(thread["cmd"].conn, m)
      BY <2>2, <2>3 DEF Tcb
  <2> HIDE DEF m
  <2> QED
      BY <1>0, <2>1, <2>4, ThreadOpenMoves
<1>6. CASE app_layer_dispatch
  <2>1. thread["proc"].at # "idle"
      BY <1>6 DEF app_layer_dispatch
  <2>2. tcb' = tcb \/ tcp_send_data("proc", Head(calls))
      BY <1>6 DEF app_layer_dispatch, tcp_close
  <2> QED
      BY <1>0, <1>1, <2>1, <2>2, SendDataMoves
<1>7. CASE type
  <2>1. thread["cmd"].at # "idle" /\ \E len : tcp_send_data("cmd", len)
      BY <1>7 DEF type
  <2> QED
      BY <1>0, <2>1, SendDataMoves
<1>8. CASE exit
    BY <1>1, <1>8 DEF exit, tcp_close
<1>9. ASSUME NEW j \in Conn,
             handle_tcp_syn(j) \/ handle_tcp_ack(j) \/ tcp_connect(j)
      PROVE  Moves(k)
    BY <1>9, SynMoves, AckMoves, ConnectMoves
<1>10. ASSUME NEW t \in Thread, enter_close(t)
       PROVE  Moves(k)
    BY <1>10, EnterCloseMoves
<1>11. ASSUME NEW t \in Thread, emit(t)
       PROVE  tcb' = tcb
    BY <1>11 DEF emit
<1>12. ASSUME NEW j \in Conn, \/ ignore(j) \/ check_retransmit(j) \/ learn(j)
                              \/ peer_sends(j) \/ peer_takes(j)
       PROVE  tcb' = tcb
    BY <1>12 DEF ignore, check_retransmit, learn, peer_sends, peer_takes
<1>13. acknowledge_data \/ reply \/ UNCHANGED vars => tcb' = tcb
    BY DEF acknowledge_data, reply, vars
<1>14. ASSUME NEW j \in Conn, handle_tcp_fin(j)
       PROVE  Moves(k)
  <2> DEFINE m == [tcb[j] EXCEPT !.rcv_nxt = Add(Head(inq[j]).seq, 1)]
  <2>1. tcb[j] \in Tcb /\ tcb[j] # NoTcb /\ Update(j, m)
      BY <1>14, FoundType DEF handle_tcp_fin, Found
  <2>2. m.valid = tcb[j].valid /\ m.state = tcb[j].state
      BY <2>1 DEF Tcb
  <2> HIDE DEF m
  <2> QED
      BY <2>1, <2>2, OpenMoves
<1>15. CASE ProcStep
    BY <1>0, <1>1, <1>2, <1>3, <1>4, <1>6, <1>9, <1>10, <1>11, <1>12, <1>13, <1>15, <1>14,
       FinishFinMoves DEF ProcStep
<1>16. CASE CmdStep \/ UserStep
    BY <1>0, <1>1, <1>4, <1>5, <1>7, <1>8, <1>9, <1>10, <1>11, <1>16 DEF CmdStep, UserStep
<1> QED
    BY <1>1, <1>12, <1>13, <1>15, <1>16 DEF Next, StackNext, TimerStep

-------------------------------------------------------------------------------
\* The invariant of the closing states is inductive.
LEMMA FinInit == Init => FinInv
<1>1. Idle.at = "idle"
    BY DEF Idle
<1> QED
    BY <1>1 DEF Init, FinInv, PeerHasClosed, PassiveClose, TakingFin, Decided, WeHaveClosed

LEMMA EmitAdvances ==
    ASSUME TypeInv, NEW t \in Thread, emit(t)
    PROVE  thread'[t].at = "advance"
<1>1. thread' = [thread EXCEPT ![t].at = "advance"]
    BY DEF emit, Go
<1> QED
    BY <1>1 DEF TypeInv, TypeOK, ThreadState

LEMMA FinStep ==
    ASSUME TypeInv, TypeInv', FinInv, [Next]_vars
    PROVE  FinInv'
<1>1. PeerHasClosed'
  <2> SUFFICES ASSUME NEW k \in Conn, tcb'[k] # NoTcb,
                      \/ tcb'[k].state \in {"CLOSE_WAIT", "LAST_ACK", "TIME_WAIT"}
                      \/ ~tcb'[k].valid
               PROVE  "rcvd" \in fin'[k]
      BY DEF PeerHasClosed
  <2>1. fin[k] \subseteq fin'[k] /\ Moves(k)
      BY FinGrows, NodeMoves
  <2>2. CASE Closes(k)
      BY <2>1, <2>2 DEF Closes, Alike, FinInv, PassiveClose, PeerHasClosed
  <2> QED
      BY <2>1, <2>2 DEF Moves, Fresh, Opens, Releases, Waits2, TakesFin, Alike, FinInv,
                        PeerHasClosed
<1>2. PassiveClose'
  <2> SUFFICES ASSUME NEW t \in Thread, thread'[t].at = "passive_close"
               PROVE  "rcvd" \in fin'[thread'[t].conn]
      BY DEF PassiveClose
  <2>1. thread[t].conn \in Conn /\ thread'[t].conn \in Conn
      BY DEF TypeInv, TypeOK, ThreadState
  <2>2. ~emit(t)
      BY EmitAdvances
  <2>3. CASE thread'[t] = thread[t]
      BY <2>1, <2>3, FinGrows DEF FinInv, PassiveClose
  <2>4. CASE /\ thread'[t].conn = thread[t].conn
             /\ thread[t].at # "idle"
             /\ node(t).state = "CLOSE_WAIT"
    <3>1. "rcvd" \in fin[thread[t].conn]
        BY <2>1, <2>4 DEF TypeInv, Linked, node, FinInv, PeerHasClosed
    <3> QED
        BY <2>1, <2>4, <3>1, FinGrows
  <2> QED
      BY <2>2, <2>3, <2>4, ThreadSteady DEF Steady
<1>3. TakingFin'
  <2>1. ASSUME NEW t \in Thread, thread'[t].at \in Decided, NEW k \in Conn, k = thread'[t].conn
        PROVE  /\ "rcvd" \in fin'[k]
               /\ thread'[t].at = "to_TIME_WAIT" => "sent" \in fin'[k] \/ ClosingFin(k)'
    <3>1. ~emit(t)
        BY <2>1, EmitAdvances DEF Decided
    <3>2. CASE thread'[t] = thread[t]
      <4>1. /\ "rcvd" \in fin[k]
            /\ thread'[t].at = "to_TIME_WAIT" => "sent" \in fin[k] \/ ClosingFin(k)
          BY <2>1, <3>2 DEF FinInv, TakingFin
      <4> QED
          BY <4>1, FinGrows, SentStays
    <3>3. CASE /\ "rcvd" \in fin'[k]
               /\ tcb[k] # NoTcb
               /\ thread'[t].at = "to_TIME_WAIT" => tcb[k].state = "FIN_WAIT_2"
      <4>1. thread'[t].at = "to_TIME_WAIT" => "sent" \in fin[k] \/ ClosingFin(k)
          BY <3>3 DEF FinInv, WeHaveClosed
      <4> QED
          BY <3>3, <4>1, SentStays
    <3> QED
        BY <2>1, <3>1, <3>2, <3>3, ThreadSteady DEF Steady
  <2>2. \A t \in Thread : thread'[t].conn \in Conn
      BY DEF TypeInv, TypeOK, ThreadState
  <2> QED
      BY <2>1, <2>2 DEF TakingFin, ClosingFin
<1>4. WeHaveClosed'
  <2> DEFINE Closing(n) ==
          n.state \in {"FIN_WAIT_1", "FIN_WAIT_2", "LAST_ACK", "TIME_WAIT"} \/ ~n.valid
  <2> SUFFICES ASSUME NEW k \in Conn, tcb'[k] # NoTcb, Closing(tcb'[k])
               PROVE  "sent" \in fin'[k] \/ ClosingFin(k)'
      BY DEF WeHaveClosed
  <2>1. Moves(k)
      BY NodeMoves
  <2>2. CASE tcb[k] # NoTcb /\ Closing(tcb[k])
    <3>1. "sent" \in fin[k] \/ ClosingFin(k)
        BY <2>2 DEF FinInv, WeHaveClosed
    <3> QED
        BY <3>1, SentStays
  <2>3. CASE Closes(k)
      BY <2>3 DEF Closes, HoldsFin, ClosingFin
  <2>4. CASE "sent" \in fin[k] \/ ClosingFin(k)
      BY <2>4, SentStays
  <2>5. CASE ~Closes(k) /\ ~(tcb[k] # NoTcb /\ Closing(tcb[k]))
             /\ ~("sent" \in fin[k] \/ ClosingFin(k))
      BY <2>1, <2>5 DEF Moves, Fresh, Opens, Releases, Waits2, TakesFin, Alike
  <2> QED
      BY <2>2, <2>3, <2>4, <2>5
<1> QED
    BY <1>1, <1>2, <1>3, <1>4 DEF FinInv

LEMMA ClosingInvariant == Spec => [](TypeInv /\ FinInv)
<1>1. Init => TypeInv /\ FinInv
    BY TypeInit, FinInit
<1>2. (TypeInv /\ FinInv) /\ [Next]_vars => (TypeInv /\ FinInv)'
    BY TypeStep, FinStep
<1> QED
    BY <1>1, <1>2, PTL DEF Spec

\* Whatever a peer sends and however the threads interleave, no connection waits
\* for the user to close, for the last acknowledgement or is over without a FIN
\* from the peer (handle_tcp_fin is the only way there).
THEOREM PeerClosedCorrect == Spec => []PeerHasClosed
<1>1. FinInv => PeerHasClosed
    BY DEF FinInv
<1> QED
    BY <1>1, ClosingInvariant, PTL

\* A connection in a closing state has handed its own FIN to ip_send, or a thread is
\* about to: the store of the state and the emission of the FIN are never separated
\* for good (tcp_close).
THEOREM WeClosedCorrect == Spec => []WeHaveClosed
<1>1. FinInv => WeHaveClosed
    BY DEF FinInv
<1> QED
    BY <1>1, ClosingInvariant, PTL
===============================================================================
