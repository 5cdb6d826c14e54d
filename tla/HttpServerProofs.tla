--------------------------- MODULE HttpServerProofs ---------------------------
(***************************************************************************)
(* For every buffer, chunk size, page and sequence number width, however   *)
(* long the connection lives: the web server keeps its types, closes what  *)
(* it opens, never sends what does not fit the browser's buffer, and sends *)
(* a page that fits the window whole, and of another all but its end, as   *)
(* long as there is memory and the browser's MAC is known.                 *)
(***************************************************************************)
EXTENDS HttpServer, Integers, TLAPS

-------------------------------------------------------------------------------
\* Sequence numbers.
LEMMA AddType ==
    ASSUME NEW a \in SeqNum, NEW b \in Nat, b <= SeqMod
    PROVE  Add(a, b) \in SeqNum
BY SeqModAssumption DEF Add, SeqNum

LEMMA SubType ==
    ASSUME NEW a \in SeqNum, NEW b \in SeqNum
    PROVE  Sub(a, b) \in SeqNum
BY SeqModAssumption DEF Sub, SeqNum

\* A number that l steps from n do not pass comes l steps nearer.
LEMMA SubNearer ==
    ASSUME NEW x \in SeqNum, NEW n \in SeqNum, NEW l \in Nat, l <= Sub(x, n)
    PROVE  Sub(x, Add(n, l)) = Sub(x, n) - l
BY SeqModAssumption DEF Add, Sub, SeqNum

\* A number that is moved on goes farther away, if it does not come round.
LEMMA SubFarther ==
    ASSUME NEW x \in SeqNum, NEW n \in SeqNum, NEW l \in Nat, Sub(x, n) + l < SeqMod
    PROVE  Sub(Add(x, l), n) = Sub(x, n) + l
BY SeqModAssumption DEF Add, Sub, SeqNum

\* What lies between two numbers, seen from a third one before both.
LEMMA SubBetween ==
    ASSUME NEW x \in SeqNum, NEW y \in SeqNum, NEW n \in SeqNum, Sub(x, n) <= Sub(y, n)
    PROVE  Sub(y, x) = Sub(y, n) - Sub(x, n)
BY SeqModAssumption DEF Sub, SeqNum

LEMMA SubSelf ==
    ASSUME NEW n \in SeqNum
    PROVE  Sub(n, n) = 0
BY SeqModAssumption DEF Sub, SeqNum

-------------------------------------------------------------------------------
\* Sequences.
LEMMA TailType ==
    ASSUME NEW S, NEW q \in Seq(S), q # <<>>
    PROVE  Head(q) \in S /\ Tail(q) \in Seq(S)
OBVIOUS

LEMMA AppendType ==
    ASSUME NEW S, NEW q \in Seq(S), NEW e \in S
    PROVE  Append(q, e) \in Seq(S)
OBVIOUS

ToServer == [ack : SeqNum, wnd : 0 .. RcvBuf, data : Request \cup {Nothing, Fin}]
ToClient == [data : Piece, len : Nat, dropped : BOOLEAN]
                \cup [data : {Fin}, len : {1}, dropped : BOOLEAN]
Conn     == [state : State, snd_una : SeqNum, snd_nxt : SeqNum, snd_wnd : 0 .. RcvBuf]

\* What a part is on its way to the browser, and what a FIN is.
Segment(data, len) == [data |-> data, len |-> len, dropped |-> ~known]

LEMMA SegmentInType ==
    ASSUME known \in BOOLEAN
    PROVE  /\ \A part \in Part : Segment(part.piece, part.len) \in ToClient
           /\ Segment(Fin, 1) \in ToClient
BY DEF Part, Segment, ToClient

\* A part is sent, starved or refused.
LEMMA SendCases ==
    ASSUME NEW part, tcp_send_data(part)
    PROVE  \/ /\ Accepts(conn, part.len)
              /\ conn' = [conn EXCEPT !.snd_nxt = Add(@, part.len)]
              /\ toClient' = Append(toClient, Segment(part.piece, part.len))
              /\ answer' = IF known THEN Append(answer, part) ELSE answer
              /\ starved' = starved
           \/ /\ Accepts(conn, part.len)
              /\ starved' = starved \cup {part}
              /\ UNCHANGED <<conn, toClient, answer>>
           \/ /\ ~Accepts(conn, part.len)
              /\ UNCHANGED <<conn, toClient, answer, starved>>
BY DEF tcp_send_data, ip_send, Segment, sending

LEMMA SendType ==
    ASSUME TypeOK, NEW part \in Part, tcp_send_data(part)
    PROVE  /\ conn' \in Conn
           /\ toClient' \in Seq(ToClient)
           /\ answer' \in Seq(Part)
           /\ starved' \subseteq Part
<1>1. /\ conn \in Conn /\ toClient \in Seq(ToClient) /\ answer \in Seq(Part)
      /\ starved \subseteq Part /\ known \in BOOLEAN
    BY DEF TypeOK, Conn, ToClient
<1>2. CASE /\ Accepts(conn, part.len)
           /\ conn' = [conn EXCEPT !.snd_nxt = Add(@, part.len)]
           /\ toClient' = Append(toClient, Segment(part.piece, part.len))
           /\ answer' = IF known THEN Append(answer, part) ELSE answer
           /\ starved' = starved
    <2>1. Add(conn.snd_una, conn.snd_wnd) \in SeqNum
        BY AddType, SeqModAssumption, BufferAssumption DEF TypeOK
    <2>2. Usable(conn) \in SeqNum
        BY <2>1, SubType DEF TypeOK, Usable
    <2>3. part.len \in Nat /\ part.len <= SeqMod
        BY <1>2, <2>2, SeqModAssumption DEF Accepts, Part, SeqNum
    <2>4. Add(conn.snd_nxt, part.len) \in SeqNum
        BY <2>3, AddType DEF TypeOK
    <2>5. conn' \in Conn
        BY <1>1, <1>2, <2>4 DEF Conn
    <2>6. toClient' \in Seq(ToClient)
        BY <1>1, <1>2, SegmentInType, AppendType
    <2>7. answer' \in Seq(Part)
        BY <1>1, <1>2, AppendType
    <2> QED
        BY <1>1, <1>2, <2>5, <2>6, <2>7
<1>3. CASE UNCHANGED <<conn, toClient, answer>> /\ starved' \in {starved, starved \cup {part}}
    BY <1>1, <1>3
<1> QED
    BY <1>2, <1>3, SendCases

LEMMA CloseType ==
    ASSUME TypeOK, tcp_close
    PROVE  conn' \in Conn /\ toClient' \in Seq(ToClient)
<1>1. Add(conn.snd_nxt, 1) \in SeqNum
    BY AddType, SeqModAssumption DEF TypeOK
<1>2. Segment(Fin, 1) \in ToClient
    BY SegmentInType DEF TypeOK
<1>3. conn' \in Conn
    BY <1>1 DEF tcp_close, TypeOK, Conn, State
<1>4. toClient \in Seq(ToClient)
    BY DEF TypeOK, ToClient
<1>5. toClient' = toClient \/ toClient' = Append(toClient, Segment(Fin, 1))
    BY DEF tcp_close, ip_send, Segment
<1> QED
    BY <1>2, <1>3, <1>4, <1>5, AppendType

LEMMA PartType ==
    /\ Error \in Part
    /\ [piece |-> "header", from |-> 0, len |-> HeaderLen] \in Part
    /\ [piece |-> "404", from |-> 0, len |-> Body404Len] \in Part
BY LengthAssumption DEF Error, Part, Piece

LEMMA ChunkType ==
    ASSUME TypeOK, offset < content_len
    PROVE  /\ ChunkAt(offset) \in Part
           /\ ChunkAt(offset).len \in 1 .. ChunkSize
           /\ ChunkAt(offset).len <= content_len - offset
           /\ offset + ChunkAt(offset).len <= content_len
BY LengthAssumption DEF TypeOK, ChunkAt, Part, Piece

-------------------------------------------------------------------------------
\* Types.  What the actions of the handler do to the parts they share.
LEMMA InitType == Init => TypeOK
BY SeqModAssumption, BufferAssumption, BoundAssumption
   DEF Init, TypeOK, State, Place, Request, Browser, SeqNum

LEMMA StepType ==
    ASSUME TypeOK, conn' \in Conn, toClient' \in Seq(ToClient), answer' \in Seq(Part),
           starved' \subseteq Part, UNCHANGED <<toServer, browser, asked, known, offered>>,
           at' \in Place, content_len' \in Nat, offset' \in Nat, held' \in [file : Nat, buffer : Nat]
    PROVE  TypeOK'
BY DEF TypeOK, Conn, ToClient

\* The file and the buffer, at each place of the handler.
HeldAt(place) ==
    [file   |-> IF place \in {"size", "malloc", "fread"} THEN 1 ELSE 0,
     buffer |-> IF place \in {"fread", "chunk"} THEN 1 ELSE 0]
TypeInv == TypeOK /\ held = HeldAt(at)

\* The steps that leave the connection alone.
LEMMA QuietType ==
    ASSUME TypeInv,
           http_try_open_file \/ (/\ measure \/ allocate
                                  /\ UNCHANGED sending)
    PROVE  TypeInv'
<1>1. /\ conn' \in Conn /\ toClient' \in Seq(ToClient) /\ answer' \in Seq(Part)
      /\ starved' \subseteq Part
    BY DEF TypeInv, TypeOK, Conn, ToClient, http_try_open_file, sending
<1>2. at' \in Place /\ content_len' \in Nat /\ offset' \in Nat
    BY LengthAssumption DEF TypeInv, TypeOK, http_try_open_file, measure, allocate, Say, Place
<1>3. held' = HeldAt(at') /\ held' \in [file : Nat, buffer : Nat]
    BY DEF TypeInv, HeldAt, http_try_open_file, measure, allocate, Say, fopen, malloc, fclose
<1>4. UNCHANGED <<toServer, browser, asked, known, offered>>
    BY DEF http_try_open_file, measure, allocate
<1> QED
    BY <1>1, <1>2, <1>3, <1>4, StepType DEF TypeInv

\* The steps that send a part.
LEMMA SayType ==
    ASSUME TypeInv, NEW part \in Part, tcp_send_data(part),
           UNCHANGED <<toServer, browser, asked, known, offered>>,
           at' \in Place, content_len' \in Nat, offset' \in Nat, held' = HeldAt(at')
    PROVE  TypeInv'
<1>1. held' \in [file : Nat, buffer : Nat]
    BY DEF HeldAt
<1> QED
    BY <1>1, SendType, StepType DEF TypeInv

LEMMA HandlerType ==
    ASSUME TypeInv, handle_http_request
    PROVE  TypeInv'
<1> USE DEF TypeInv
<1>1. ASSUME refuse_request PROVE TypeInv'
    <2>1. tcp_send_data(Error) /\ at' = "idle"
        BY <1>1 DEF refuse_request, Say
    <2>2. held' = HeldAt(at')
        BY <1>1, <2>1 DEF refuse_request, HeldAt
    <2> QED
        BY <1>1, <2>1, <2>2, PartType, SayType DEF refuse_request, TypeOK, Place
<1>2. ASSUME not_found PROVE TypeInv'
    <2>1. tcp_send_data([piece |-> "header", from |-> 0, len |-> HeaderLen]) /\ at' = "404 body"
        BY <1>2 DEF not_found, Say
    <2>2. held' = HeldAt(at')
        BY <1>2, <2>1 DEF not_found, HeldAt
    <2> QED
        BY <1>2, <2>1, <2>2, PartType, SayType DEF not_found, TypeOK, Place
<1>3. ASSUME not_found_body PROVE TypeInv'
    <2>1. tcp_send_data([piece |-> "404", from |-> 0, len |-> Body404Len]) /\ at' = "idle"
        BY <1>3 DEF not_found_body, Say
    <2>2. held' = HeldAt(at')
        BY <1>3, <2>1 DEF not_found_body, HeldAt
    <2> QED
        BY <1>3, <2>1, <2>2, PartType, SayType DEF not_found_body, TypeOK, Place
<1>4. ASSUME http_try_open_file PROVE TypeInv'
    BY <1>4, QuietType
<1>5. ASSUME measure PROVE TypeInv'
    <2>1. CASE Say(Error, "idle") /\ fclose /\ UNCHANGED content_len
        <3>1. tcp_send_data(Error) /\ at' = "idle"
            BY <2>1 DEF Say
        <3>2. held' = HeldAt(at')
            BY <1>5, <2>1, <3>1 DEF measure, HeldAt, fclose
        <3>3. UNCHANGED <<toServer, browser, asked, known, offered>> /\ content_len' \in Nat /\ offset' \in Nat
            BY <1>5, <2>1 DEF measure, TypeOK
        <3>4. at' \in Place
            BY <3>1 DEF Place
        <3> QED
            BY <3>1, <3>2, <3>3, <3>4, PartType, SayType
    <2>2. CASE UNCHANGED sending
        BY <1>5, <2>2, QuietType
    <2> QED
        BY <1>5, <2>1, <2>2 DEF measure
<1>6. ASSUME allocate PROVE TypeInv'
    <2>1. CASE Say(Error, "idle") /\ fclose
        <3>1. tcp_send_data(Error) /\ at' = "idle"
            BY <2>1 DEF Say
        <3>2. held' = HeldAt(at')
            BY <1>6, <2>1, <3>1 DEF allocate, HeldAt, fclose
        <3>3. UNCHANGED <<toServer, browser, asked, known, offered>> /\ content_len' \in Nat /\ offset' \in Nat
            BY <1>6, <2>1 DEF allocate, TypeOK
        <3>4. at' \in Place
            BY <3>1 DEF Place
        <3> QED
            BY <3>1, <3>2, <3>3, <3>4, PartType, SayType
    <2>2. CASE UNCHANGED sending
        BY <1>6, <2>2, QuietType
    <2> QED
        BY <1>6, <2>1, <2>2 DEF allocate
<1>7. ASSUME read_file PROVE TypeInv'
    <2>1. CASE Say(Error, "idle") /\ UNCHANGED offset
                  /\ held' = [file |-> held.file - 1, buffer |-> held.buffer - 1]
        <3>1. tcp_send_data(Error) /\ at' = "idle"
            BY <2>1 DEF Say
        <3>2. held' = HeldAt(at')
            BY <1>7, <2>1, <3>1 DEF read_file, HeldAt
        <3>3. UNCHANGED <<toServer, browser, asked, known, offered>> /\ content_len' \in Nat /\ offset' \in Nat
            BY <1>7, <2>1 DEF read_file, TypeOK
        <3>4. at' \in Place
            BY <3>1 DEF Place
        <3> QED
            BY <3>1, <3>2, <3>3, <3>4, PartType, SayType
    <2>2. CASE /\ fclose /\ offset' = 0
               /\ Say([piece |-> "header", from |-> 0, len |-> HeaderLen], "chunk")
        <3>1. /\ tcp_send_data([piece |-> "header", from |-> 0, len |-> HeaderLen])
              /\ at' = "chunk"
            BY <2>2 DEF Say
        <3>2. held' = HeldAt(at')
            BY <1>7, <2>2, <3>1 DEF read_file, HeldAt, fclose
        <3>3. UNCHANGED <<toServer, browser, asked, known, offered>> /\ content_len' \in Nat /\ offset' \in Nat
            BY <1>7, <2>2 DEF read_file, TypeOK
        <3>4. at' \in Place
            BY <3>1 DEF Place
        <3> QED
            BY <3>1, <3>2, <3>3, <3>4, PartType, SayType
    <2> QED
        BY <1>7, <2>1, <2>2 DEF read_file
<1>8. ASSUME send_chunk PROVE TypeInv'
    <2>1. offset < content_len /\ ChunkAt(offset) \in Part /\ ChunkAt(offset).len \in Nat
        BY <1>8, ChunkType, LengthAssumption DEF send_chunk
    <2>2. tcp_send_data(ChunkAt(offset)) /\ at' = "chunk"
        BY <1>8 DEF send_chunk, Say
    <2>3. held' = HeldAt(at')
        BY <1>8, <2>2 DEF send_chunk, HeldAt
    <2>4. offset' \in Nat
        BY <1>8, <2>1 DEF send_chunk, TypeOK
    <2>5. UNCHANGED <<toServer, browser, asked, known, offered>> /\ content_len' \in Nat
        BY <1>8 DEF send_chunk, TypeOK
    <2>6. at' \in Place
        BY <2>2 DEF Place
    <2> QED
        BY <2>1, <2>2, <2>3, <2>4, <2>5, <2>6, SayType
<1>9. ASSUME finish_page PROVE TypeInv'
    <2>1. tcp_close
        BY <1>9 DEF finish_page
    <2>2. conn' \in Conn /\ toClient' \in Seq(ToClient)
        BY <2>1, CloseType
    <2>3. held' = HeldAt(at') /\ held' \in [file : Nat, buffer : Nat]
        BY <1>9 DEF finish_page, HeldAt, free
    <2> QED
        BY <1>9, <2>2, <2>3, StepType DEF finish_page, TypeOK, Place
<1> QED
    BY <1>1, <1>2, <1>3, <1>4, <1>5, <1>6, <1>7, <1>8, <1>9 DEF handle_http_request

\* The process thread takes a segment.
LEMMA SegmentType ==
    ASSUME TypeOK, toServer # <<>>
    PROVE  /\ Head(toServer) \in ToServer
           /\ toServer' = Tail(toServer) => toServer' \in Seq(ToServer)
<1>1. toServer \in Seq(ToServer)
    BY DEF TypeOK, ToServer
<1> QED
    BY <1>1, TailType

LEMMA AckType ==
    ASSUME TypeInv, handle_tcp_ack
    PROVE  TypeInv'
<1> DEFINE seg == Head(toServer)
           c == IF conn.state = "CLOSED" THEN conn
                ELSE [conn EXCEPT !.snd_una = seg.ack, !.snd_wnd = seg.wnd, !.state = AfterAck(@)]
<1>1. seg \in ToServer /\ toServer' \in Seq(ToServer)
    BY SegmentType DEF handle_tcp_ack, TypeInv
<1>2. AfterAck(conn.state) \in State
    BY DEF TypeInv, TypeOK, AfterAck, State
<1>3. c \in Conn /\ conn' = c
    BY <1>1, <1>2 DEF handle_tcp_ack, TypeInv, TypeOK, Conn, ToServer
<1>4. \/ /\ seg.data \in Gets
         /\ at' = "parse" /\ asked' = seg.data /\ offered' = Usable(c)
         /\ answer' = <<>> /\ starved' = {}
      \/ UNCHANGED <<at, asked, offered, answer, starved>>
    BY DEF handle_tcp_ack
<1> HIDE DEF c
<1>5. Usable(c) \in SeqNum
    <2>1. c.snd_una \in SeqNum /\ c.snd_nxt \in SeqNum /\ c.snd_wnd \in Nat /\ c.snd_wnd <= SeqMod
        BY <1>3, SeqModAssumption, BufferAssumption DEF Conn
    <2>2. Add(c.snd_una, c.snd_wnd) \in SeqNum
        BY <2>1, AddType
    <2> QED
        BY <2>1, <2>2, SubType DEF Usable
<1>6. /\ at' \in {"idle", "parse"}
      /\ asked' \in Request /\ offered' \in SeqNum /\ answer' \in Seq(Part)
      /\ starved' \subseteq Part
    <2>1. /\ at = "idle" /\ asked \in Request /\ offered \in SeqNum /\ answer \in Seq(Part)
          /\ starved \subseteq Part
        BY DEF handle_tcp_ack, TypeInv, TypeOK
    <2>2. <<>> \in Seq(Part)
        OBVIOUS
    <2>3. CASE UNCHANGED <<at, asked, offered, answer, starved>>
        BY <2>1, <2>3
    <2>4. CASE /\ seg.data \in Gets
               /\ at' = "parse" /\ asked' = seg.data /\ offered' = Usable(c)
               /\ answer' = <<>> /\ starved' = {}
        BY <1>5, <2>2, <2>4 DEF Gets
    <2> QED
        BY <1>4, <2>3, <2>4
<1>7. UNCHANGED <<content_len, offset, held, known, toClient, browser>> /\ at = "idle"
    BY DEF handle_tcp_ack
<1>8. held' = HeldAt(at')
    BY <1>6, <1>7 DEF TypeInv, HeldAt
<1> QED
    BY <1>1, <1>3, <1>6, <1>7, <1>8 DEF TypeInv, TypeOK, Conn, ToServer, Place

LEMMA FinType ==
    ASSUME TypeInv, handle_tcp_fin
    PROVE  TypeInv'
<1>1. toServer' \in Seq(ToServer)
    BY SegmentType DEF handle_tcp_fin, TypeInv
<1>2. AfterFin(conn.state) \in State
    BY DEF TypeInv, TypeOK, AfterFin, State
<1>3. conn' \in Conn
    BY <1>2 DEF handle_tcp_fin, TypeInv, TypeOK, Conn
<1> QED
    BY <1>1, <1>3 DEF handle_tcp_fin, serverVars, TypeInv, TypeOK, Conn, ToServer

\* The process thread takes an ARP message.
LEMMA LearnIs ==
    ASSUME learn
    PROVE  /\ UNCHANGED <<conn, toClient, answer, starved, at, asked, content_len, offset, held>>
           /\ UNCHANGED <<offered, toServer, browser>>
           /\ at = "idle" /\ known' = TRUE
BY DEF learn, sending

LEMMA LearnType ==
    ASSUME TypeInv, learn
    PROVE  TypeInv'
BY LearnIs DEF TypeInv, TypeOK

LEMMA PostType ==
    ASSUME TypeOK, NEW data \in Request \cup {Nothing, Fin}, Post(data)
    PROVE  toServer' \in Seq(ToServer)
<1>1. [ack |-> browser.next, wnd |-> browser.room, data |-> data] \in ToServer
    BY DEF TypeOK, Browser, ToServer
<1>2. toServer \in Seq(ToServer)
    BY DEF TypeOK, ToServer
<1> QED
    BY <1>1, <1>2, AppendType DEF Post

\* What the browser does.
BrowserStep == \/ browser_receives \/ browser_reads \/ browser_acknowledges
               \/ browser_requests \/ browser_closes

LEMMA BrowserType ==
    ASSUME TypeInv, BrowserStep
    PROVE  TypeInv'
<1>1. SUFFICES /\ UNCHANGED <<conn, serverVars>>
               /\ toServer' \in Seq(ToServer) /\ toClient' \in Seq(ToClient) /\ browser' \in Browser
    BY DEF TypeInv, TypeOK, serverVars, ToServer, ToClient
<1>2. UNCHANGED <<conn, serverVars>>
    BY DEF BrowserStep, browser_receives, browser_reads, browser_acknowledges, browser_requests,
           browser_closes
<1>3. /\ toServer \in Seq(ToServer) /\ toClient \in Seq(ToClient)
      /\ browser.next \in SeqNum /\ browser.room \in 0 .. RcvBuf
      /\ browser.sent \in 0 .. MaxRequests /\ browser \in Browser
    BY DEF TypeInv, TypeOK, ToServer, ToClient, Browser
<1>4. ASSUME browser_receives
      PROVE  toServer' \in Seq(ToServer) /\ toClient' \in Seq(ToClient) /\ browser' \in Browser
    <2> DEFINE seg == Head(toClient)
               takes == IF seg.data = Fin THEN 0 ELSE seg.len
    <2>1. seg \in ToClient /\ toClient' \in Seq(ToClient) /\ UNCHANGED toServer
        BY <1>3, <1>4, TailType DEF browser_receives
    <2>2. takes \in Nat /\ seg.len \in Nat
        BY <2>1 DEF ToClient
    <2>3. browser' = IF takes <= browser.room
                     THEN [browser EXCEPT !.next = Add(@, seg.len), !.room = @ - takes]
                     ELSE browser
        BY <1>4 DEF browser_receives
    <2>4. takes <= browser.room => seg.len <= SeqMod
        BY <1>3, <2>1, <2>2, SeqModAssumption, BufferAssumption DEF ToClient, Piece, Fin
    <2>5. takes <= browser.room => /\ Add(browser.next, seg.len) \in SeqNum
                                   /\ browser.room - takes \in 0 .. RcvBuf
        BY <1>3, <2>2, <2>4, AddType, BufferAssumption
    <2> HIDE DEF takes
    <2>6. browser' \in Browser
        BY <1>3, <2>3, <2>5 DEF Browser
    <2> QED
        BY <1>3, <2>1, <2>6
<1>5. ASSUME browser_reads
      PROVE  toServer' \in Seq(ToServer) /\ toClient' \in Seq(ToClient) /\ browser' \in Browser
    BY <1>3, <1>5, BufferAssumption DEF browser_reads, Browser
<1>6. ASSUME browser_acknowledges
      PROVE  toServer' \in Seq(ToServer) /\ toClient' \in Seq(ToClient) /\ browser' \in Browser
    BY <1>3, <1>6, PostType DEF browser_acknowledges, TypeInv
<1>7. ASSUME browser_requests
      PROVE  toServer' \in Seq(ToServer) /\ toClient' \in Seq(ToClient) /\ browser' \in Browser
    BY <1>3, <1>7, PostType, BoundAssumption DEF browser_requests, TypeInv, Browser
<1>8. ASSUME browser_closes
      PROVE  toServer' \in Seq(ToServer) /\ toClient' \in Seq(ToClient) /\ browser' \in Browser
    BY <1>3, <1>8, PostType DEF browser_closes, TypeInv, Browser
<1> QED
    BY <1>2, <1>4, <1>5, <1>6, <1>7, <1>8 DEF BrowserStep

LEMMA NextType ==
    ASSUME TypeInv, [Next]_vars
    PROVE  TypeInv'
<1>1. CASE ProcStep
    BY <1>1, AckType, FinType, HandlerType, LearnType DEF ProcStep
<1>2. CASE BrowserStep
    BY <1>2, BrowserType
<1>3. CASE UNCHANGED vars
    BY <1>3 DEF TypeInv, TypeOK, vars, serverVars
<1> QED
    BY <1>1, <1>2, <1>3 DEF Next, BrowserStep

LEMMA TypeInvHolds == Spec => []TypeInv
<1>1. Init => TypeInv
    <2>1. Init => held = HeldAt(at)
        BY DEF Init, HeldAt
    <2> QED
        BY <2>1, InitType DEF TypeInv
<1> QED
    BY <1>1, NextType, PTL DEF Spec

\* Whatever the browser sends and whichever call fails, every part, segment and
\* number the server works with is of its type.
THEOREM TypeCorrect == Spec => []TypeOK
<1>1. TypeInv => TypeOK
    BY DEF TypeInv
<1> QED
    BY <1>1, TypeInvHolds, PTL

\* On every path through handle_http_request (http.c:139-234) the file is closed
\* and the buffer freed as often as they were opened and allocated.
THEOREM ReleasesAll == Spec => []NothingHeld
<1>1. TypeInv => NothingHeld
    BY DEF TypeInv, NothingHeld, HeldAt
<1> QED
    BY <1>1, TypeInvHolds, PTL

-------------------------------------------------------------------------------
\* What is under way to the browser, in bytes: Starts(q) are the offsets at which
\* the segments of q begin, and the one behind the last of them.
Starts(q) ==
    {f \in [1 .. Len(q) + 1 -> Nat] :
        /\ f[1] = 0
        /\ \A i \in 1 .. Len(q) : f[i + 1] = f[i] + q[i].len
        /\ \A i, j \in 1 .. Len(q) + 1 : i <= j => f[i] <= f[j]}

\* How far a number is from the next byte the browser expects, and the right edge
\* of a window, seen from there.
Away(x)     == Sub(x, browser.next)
Edge(a, w)  == Away(Add(a, w))
ConnEdge    == Edge(conn.snd_una, conn.snd_wnd)
SegEdge(i)  == Edge(toServer[i].ack, toServer[i].wnd)

\* The segments under way lie between what the browser expects and snd_nxt; a FIN
\* is the last of them; and while the server may send, the window it goes by and
\* the windows on their way to it end one behind the other, none beyond the buffer.
Between    == \E f \in Starts(toClient) : f[Len(toClient) + 1] <= Away(conn.snd_nxt)
FinLast    == \A i \in 1 .. Len(toClient) : toClient[i].data = Fin =>
                  /\ i = Len(toClient)
                  /\ conn.state \notin {"ESTABLISHED", "CLOSE_WAIT"}
EdgesInRow ==
    conn.state = "ESTABLISHED" =>
        /\ Away(conn.snd_nxt) <= ConnEdge
        /\ ConnEdge <= browser.room
        /\ \A i \in 1 .. Len(toServer) : ConnEdge <= SegEdge(i) /\ SegEdge(i) <= browser.room
        /\ \A i, j \in 1 .. Len(toServer) : i <= j => SegEdge(i) <= SegEdge(j)
Fits == Between /\ FinLast /\ EdgesInRow /\ FitsBuffer
FitsInv == TypeInv /\ Fits

LEMMA StartsTail ==
    ASSUME NEW q \in Seq(ToClient), q # <<>>, NEW f \in Starts(q)
    PROVE  /\ Head(q).len <= f[Len(q) + 1]
           /\ \E g \in Starts(Tail(q)) : g[Len(Tail(q)) + 1] = f[Len(q) + 1] - Head(q).len
<1> DEFINE l == Head(q).len
           n == Len(q)
           g == [i \in 1 .. n |-> f[i + 1] - l]
<1>1. /\ n \in Nat \ {0} /\ Len(Tail(q)) = n - 1
      /\ \A i \in 1 .. n - 1 : Tail(q)[i] = q[i + 1]
      /\ Head(q) = q[1]
    OBVIOUS
<1>2. \A i \in 1 .. n : q[i].len \in Nat
    BY DEF ToClient
<1>3. f[2] = l
    BY <1>1, <1>2 DEF Starts
<1>4. \A i \in 2 .. n + 1 : f[i] \in Nat /\ l <= f[i]
    BY <1>1, <1>3 DEF Starts
<1>5. g \in [1 .. n -> Nat]
    BY <1>1, <1>2, <1>4
<1>6. g[1] = 0 /\ g[n] = f[n + 1] - l
    BY <1>1, <1>2, <1>3
<1>7. \A i \in 1 .. n - 1 : g[i + 1] = g[i] + Tail(q)[i].len
    BY <1>1, <1>2, <1>4 DEF Starts
<1>8. \A i, j \in 1 .. n : i <= j => g[i] <= g[j]
    BY <1>1, <1>2, <1>4, SMTT(30) DEF Starts
<1>9. g \in Starts(Tail(q))
    <2>1. Len(Tail(q)) + 1 = n
        BY <1>1
    <2> HIDE DEF g, n
    <2> QED
        BY <1>1, <1>5, <1>6, <1>7, <1>8, <2>1 DEF Starts
<1> QED
    BY <1>1, <1>4, <1>6, <1>9

LEMMA StartsAppend ==
    ASSUME NEW q \in Seq(ToClient), NEW e \in ToClient, NEW f \in Starts(q)
    PROVE  \E g \in Starts(Append(q, e)) : g[Len(Append(q, e)) + 1] = f[Len(q) + 1] + e.len
<1> DEFINE n == Len(q)
           g == [i \in 1 .. n + 2 |-> IF i <= n + 1 THEN f[i] ELSE f[n + 1] + e.len]
<1>1. /\ n \in Nat /\ Len(Append(q, e)) = n + 1
      /\ \A i \in 1 .. n : Append(q, e)[i] = q[i]
      /\ Append(q, e)[n + 1] = e
    OBVIOUS
<1>2. e.len \in Nat
    BY DEF ToClient
<1>3. \A i \in 1 .. n + 1 : f[i] \in Nat
    BY <1>1 DEF Starts
<1>4. g \in [1 .. n + 2 -> Nat]
    BY <1>1, <1>2, <1>3
<1>5. g[1] = 0 /\ g[n + 2] = f[n + 1] + e.len
    BY <1>1 DEF Starts
<1>6. \A i \in 1 .. n + 1 : g[i + 1] = g[i] + Append(q, e)[i].len
    BY <1>1, <1>3 DEF Starts
<1>7. \A i, j \in 1 .. n + 2 : i <= j => g[i] <= g[j]
    BY <1>1, <1>2, <1>3 DEF Starts
<1>8. g \in Starts(Append(q, e))
    BY <1>1, <1>4, <1>5, <1>6, <1>7, SMTT(30) DEF Starts
<1> QED
    BY <1>1, <1>5, <1>8

\* The numbers the invariant compares are sequence numbers.
LEMMA SeqNumIsNat == \A x \in SeqNum : x \in Nat /\ x < SeqMod
BY SeqModAssumption DEF SeqNum

LEMMA EdgeType ==
    ASSUME TypeOK, NEW a \in SeqNum, NEW w \in 0 .. RcvBuf
    PROVE  /\ Add(a, w) \in SeqNum
           /\ Edge(a, w) \in Nat /\ Edge(a, w) < SeqMod
<1>1. w \in Nat /\ w <= SeqMod
    BY BufferAssumption, SeqModAssumption
<1>2. browser.next \in SeqNum
    BY DEF TypeOK, Browser
<1>3. Add(a, w) \in SeqNum
    BY <1>1, AddType
<1> QED
    BY <1>2, <1>3, SubType, SeqNumIsNat DEF Edge, Away

LEMMA EdgeTypes ==
    ASSUME TypeOK
    PROVE  /\ conn.snd_nxt \in SeqNum /\ browser.next \in SeqNum
           /\ browser.room \in Nat /\ browser.room + 1 < SeqMod
           /\ Away(conn.snd_nxt) \in Nat /\ Away(conn.snd_nxt) < SeqMod
           /\ Add(conn.snd_una, conn.snd_wnd) \in SeqNum
           /\ ConnEdge \in Nat /\ ConnEdge < SeqMod
           /\ \A i \in 1 .. Len(toServer) :
                /\ Add(toServer[i].ack, toServer[i].wnd) \in SeqNum
                /\ SegEdge(i) \in Nat /\ SegEdge(i) < SeqMod
<1>1. /\ conn.snd_nxt \in SeqNum /\ conn.snd_una \in SeqNum /\ conn.snd_wnd \in 0 .. RcvBuf
      /\ browser.next \in SeqNum /\ browser.room \in 0 .. RcvBuf
      /\ toServer \in Seq(ToServer)
    BY DEF TypeOK, Browser, ToServer
<1>2. ASSUME NEW i \in 1 .. Len(toServer)
      PROVE  toServer[i].ack \in SeqNum /\ toServer[i].wnd \in 0 .. RcvBuf
    <2>1. toServer[i] \in ToServer
        BY <1>1
    <2> QED
        BY <2>1 DEF ToServer
<1>3. Away(conn.snd_nxt) \in Nat /\ Away(conn.snd_nxt) < SeqMod
    BY <1>1, SubType, SeqNumIsNat DEF Away
<1>4. browser.room \in Nat /\ browser.room + 1 < SeqMod
    BY <1>1, BufferAssumption, SeqModAssumption
<1>5. /\ Add(conn.snd_una, conn.snd_wnd) \in SeqNum
      /\ ConnEdge \in Nat /\ ConnEdge < SeqMod
    BY <1>1, EdgeType DEF ConnEdge
<1>6. \A i \in 1 .. Len(toServer) :
        /\ Add(toServer[i].ack, toServer[i].wnd) \in SeqNum
        /\ SegEdge(i) \in Nat /\ SegEdge(i) < SeqMod
    BY <1>2, EdgeType DEF SegEdge
<1> QED
    BY <1>1, <1>3, <1>4, <1>5, <1>6

\* A part that tcp_send_data accepts ends before the window does.
LEMMA AcceptedFits ==
    ASSUME TypeOK, EdgesInRow, NEW len \in Nat, Accepts(conn, len)
    PROVE  /\ Away(conn.snd_nxt) + len <= ConnEdge
           /\ Away(Add(conn.snd_nxt, len)) = Away(conn.snd_nxt) + len
<1>1. Away(conn.snd_nxt) <= ConnEdge /\ ConnEdge <= browser.room
    BY DEF EdgesInRow, Accepts
<1>2. Usable(conn) = ConnEdge - Away(conn.snd_nxt)
    BY <1>1, EdgeTypes, SubBetween DEF Usable, ConnEdge, Edge, Away
<1>3. Away(conn.snd_nxt) + len <= ConnEdge
    BY <1>2, EdgeTypes DEF Accepts
<1>4. Away(conn.snd_nxt) + len < SeqMod
    BY <1>3, EdgeTypes, SeqModAssumption
<1> QED
    BY <1>3, <1>4, EdgeTypes, SubFarther DEF Away

LEMMA NoFin ==
    ASSUME FinLast, conn.state \in {"ESTABLISHED", "CLOSE_WAIT"}
    PROVE  ~FinUnderWay
BY DEF FinLast, FinUnderWay

\* The step of a part that is sent.
LEMMA SendFits ==
    ASSUME FitsInv, NEW part \in Part, tcp_send_data(part), UNCHANGED <<toServer, browser>>
    PROVE  Fits'
<1> DEFINE e == Segment(part.piece, part.len)
<1>1. CASE UNCHANGED <<conn, toClient, toServer, browser>>
    BY <1>1 DEF FitsInv, Fits, Between, FinLast, EdgesInRow, FitsBuffer, FinUnderWay,
                ConnEdge, SegEdge, Edge, Away
<1>2. CASE /\ Accepts(conn, part.len)
           /\ conn' = [conn EXCEPT !.snd_nxt = Add(@, part.len)]
           /\ toClient' = Append(toClient, e)
    <2>1. /\ conn.state = "ESTABLISHED" /\ part.len \in Nat
          /\ part.piece \in Piece /\ part.piece # Fin
        BY <1>2 DEF Accepts, Part, Piece, Fin
    <2>2. TypeOK /\ toClient \in Seq(ToClient) /\ e \in ToClient /\ e.data # Fin /\ e.len = part.len
        <3>1. TypeOK /\ toClient \in Seq(ToClient) /\ known \in BOOLEAN
            BY DEF FitsInv, TypeInv, TypeOK, ToClient
        <3> QED
            BY <2>1, <3>1, SegmentInType DEF Segment
    <2>3. /\ toClient' = Append(toClient, e)
          /\ conn'.state = "ESTABLISHED" /\ conn'.snd_nxt = Add(conn.snd_nxt, part.len)
          /\ conn'.snd_una = conn.snd_una /\ conn'.snd_wnd = conn.snd_wnd
        BY <1>2, <2>1 DEF FitsInv, TypeInv, TypeOK
    <2>4. /\ Away(conn.snd_nxt) + part.len <= ConnEdge
          /\ Away(conn'.snd_nxt) = Away(conn.snd_nxt) + part.len
        BY <1>2, <2>1, <2>2, <2>3, AcceptedFits DEF FitsInv, Fits
    <2>5. Away(conn.snd_nxt)' = Away(conn.snd_nxt) + part.len
        BY <2>4 DEF Away
    <2>6. ConnEdge' = ConnEdge /\ \A i \in 1 .. Len(toServer) : SegEdge(i)' = SegEdge(i)
        BY <2>3 DEF ConnEdge, SegEdge, Edge, Away
    <2>7. EdgesInRow'
        <3>1. EdgesInRow
            BY DEF FitsInv, Fits
        <3> QED
            BY <2>1, <2>3, <2>4, <2>5, <2>6, <3>1 DEF EdgesInRow
    <2>8. Between'
        <3>1. PICK f \in Starts(toClient) : f[Len(toClient) + 1] <= Away(conn.snd_nxt)
            BY DEF FitsInv, Fits, Between
        <3>2. PICK g \in Starts(Append(toClient, e)) :
                g[Len(Append(toClient, e)) + 1] = f[Len(toClient) + 1] + e.len
            BY <2>2, StartsAppend
        <3>3. f[Len(toClient) + 1] \in Nat
            BY <2>2 DEF Starts
        <3>4. f[Len(toClient) + 1] + part.len <= Away(conn.snd_nxt) + part.len
            BY <2>1, <2>2, <3>1, <3>3, EdgeTypes
        <3> QED
            BY <2>2, <2>3, <2>5, <3>2, <3>4 DEF Between
    <2>9. FinLast' /\ ~FinUnderWay'
        <3>1. \A i \in 1 .. Len(toClient) : toClient[i].data # Fin
            BY <2>1, NoFin DEF FitsInv, Fits, FinUnderWay
        <3>2. \A i \in 1 .. Len(toClient') : toClient'[i].data # Fin
            BY <2>2, <2>3, <3>1
        <3> QED
            BY <3>2 DEF FinLast, FinUnderWay
    <2>10. FitsBuffer'
        <3>1. ConnEdge <= browser.room
            BY <2>1 DEF FitsInv, Fits, EdgesInRow
        <3>2. Away(conn.snd_nxt)' <= browser.room /\ browser.room \in Nat
            BY <2>1, <2>2, <2>4, <2>5, <3>1, EdgeTypes
        <3> QED
            BY <2>9, <3>2 DEF FitsBuffer, Away
    <2> QED
        BY <2>7, <2>8, <2>9, <2>10 DEF Fits
<1> QED
    BY <1>1, <1>2, SendCases

\* The step of tcp_close: its FIN is the last segment, and takes no room.
LEMMA CloseFits ==
    ASSUME FitsInv, tcp_close, UNCHANGED <<toServer, browser>>
    PROVE  Fits'
<1> DEFINE e == Segment(Fin, 1)
<1>1. CASE conn.state \notin {"ESTABLISHED", "CLOSE_WAIT"}
    <2>1. UNCHANGED <<conn, toClient, toServer, browser>>
        BY <1>1 DEF tcp_close
    <2> QED
        BY <2>1 DEF FitsInv, Fits, Between, FinLast, EdgesInRow, FitsBuffer, FinUnderWay,
                    ConnEdge, SegEdge, Edge, Away
<1>2. CASE conn.state \in {"ESTABLISHED", "CLOSE_WAIT"}
    <2>1. TypeOK /\ toClient \in Seq(ToClient) /\ e \in ToClient /\ e.data = Fin /\ e.len = 1
        <3>1. TypeOK /\ toClient \in Seq(ToClient) /\ known \in BOOLEAN
            BY DEF FitsInv, TypeInv, TypeOK, ToClient
        <3> QED
            BY <3>1, SegmentInType DEF Segment
    <2>2. /\ toClient' = Append(toClient, e)
          /\ conn'.state \in {"FIN_WAIT_1", "LAST_ACK"}
          /\ conn'.snd_nxt = Add(conn.snd_nxt, 1)
        BY <1>2 DEF tcp_close, ip_send, Segment, FitsInv, TypeInv, TypeOK
    <2>3. ~FinUnderWay /\ Away(conn.snd_nxt) <= browser.room
        <3>1. ~FinUnderWay
            BY <1>2, NoFin DEF FitsInv, Fits
        <3> QED
            BY <2>1, <3>1, EdgeTypes DEF FitsInv, Fits, FitsBuffer, Away
    <2>4. Away(Add(conn.snd_nxt, 1)) = Away(conn.snd_nxt) + 1
        <3>1. Away(conn.snd_nxt) + 1 < SeqMod
            BY <2>1, <2>3, EdgeTypes, SeqModAssumption
        <3> QED
            BY <2>1, <3>1, EdgeTypes, SubFarther DEF Away
    <2>5. Away(conn.snd_nxt)' = Away(conn.snd_nxt) + 1
        BY <2>2, <2>4 DEF Away
    <2>6. EdgesInRow'
        BY <2>2 DEF EdgesInRow
    <2>7. Between'
        <3>1. PICK f \in Starts(toClient) : f[Len(toClient) + 1] <= Away(conn.snd_nxt)
            BY DEF FitsInv, Fits, Between
        <3>2. PICK g \in Starts(Append(toClient, e)) :
                g[Len(Append(toClient, e)) + 1] = f[Len(toClient) + 1] + e.len
            BY <2>1, StartsAppend
        <3>3. f[Len(toClient) + 1] \in Nat
            BY <2>1 DEF Starts
        <3>4. f[Len(toClient) + 1] + 1 <= Away(conn.snd_nxt) + 1
            BY <2>1, <3>1, <3>3, EdgeTypes
        <3> QED
            BY <2>1, <2>2, <2>5, <3>2, <3>4 DEF Between
    <2>8. /\ Len(toClient') = Len(toClient) + 1
          /\ \A i \in 1 .. Len(toClient) : toClient'[i] = toClient[i]
          /\ toClient'[Len(toClient')] = e /\ Len(toClient) \in Nat
        BY <2>1, <2>2
    <2>9. FinLast' /\ FinUnderWay'
        <3>1. \A i \in 1 .. Len(toClient) : toClient'[i].data # Fin
            BY <2>3, <2>8 DEF FinUnderWay
        <3>2. Len(toClient') \in 1 .. Len(toClient') /\ toClient'[Len(toClient')].data = Fin
            BY <2>1, <2>8
        <3>3. \A i \in 1 .. Len(toClient') : i = Len(toClient') \/ i \in 1 .. Len(toClient)
            BY <2>8
        <3> QED
            BY <2>2, <3>1, <3>2, <3>3 DEF FinLast, FinUnderWay
    <2>10. FitsBuffer'
        <3>1. Away(conn.snd_nxt)' <= browser.room + 1
            BY <2>1, <2>3, <2>5, EdgeTypes
        <3> QED
            BY <2>9, <3>1 DEF FitsBuffer, Away
    <2> QED
        BY <2>6, <2>7, <2>9, <2>10 DEF Fits
<1> QED
    BY <1>1, <1>2

\* All that the handler does to the connection is to send a part or to close.
LEMMA HandlerFits ==
    ASSUME FitsInv, handle_http_request
    PROVE  Fits'
<1> USE DEF Say
<1>1. UNCHANGED <<toServer, browser>>
    BY DEF handle_http_request, refuse_request, not_found, not_found_body, http_try_open_file,
           measure, allocate, read_file, send_chunk, finish_page
<1>2. \/ \E part \in Part : tcp_send_data(part)
      \/ tcp_close
      \/ UNCHANGED <<conn, toClient>>
    <2>1. ASSUME send_chunk PROVE \E part \in Part : tcp_send_data(part)
        BY <2>1, ChunkType DEF send_chunk, FitsInv, TypeInv
    <2>2. ASSUME refuse_request PROVE \E part \in Part : tcp_send_data(part)
        BY <2>2, PartType DEF refuse_request
    <2>3. ASSUME not_found PROVE \E part \in Part : tcp_send_data(part)
        BY <2>3, PartType DEF not_found
    <2>4. ASSUME not_found_body PROVE \E part \in Part : tcp_send_data(part)
        BY <2>4, PartType DEF not_found_body
    <2>5. ASSUME measure
          PROVE  (\E part \in Part : tcp_send_data(part)) \/ UNCHANGED <<conn, toClient>>
        BY <2>5, PartType DEF measure, sending
    <2>6. ASSUME allocate
          PROVE  (\E part \in Part : tcp_send_data(part)) \/ UNCHANGED <<conn, toClient>>
        BY <2>6, PartType DEF allocate, sending
    <2>7. ASSUME read_file PROVE \E part \in Part : tcp_send_data(part)
        BY <2>7, PartType DEF read_file
    <2> QED
        BY <2>1, <2>2, <2>3, <2>4, <2>5, <2>6, <2>7
           DEF handle_http_request, http_try_open_file, finish_page, sending
<1>3. ASSUME UNCHANGED <<conn, toClient>> PROVE Fits'
    BY <1>1, <1>3 DEF FitsInv, Fits, Between, FinLast, EdgesInRow, FitsBuffer, FinUnderWay,
                      ConnEdge, SegEdge, Edge, Away
<1> QED
    BY <1>1, <1>2, <1>3, SendFits, CloseFits

\* The steps that take a segment.  What is under way to the browser stays.
LEMMA TakenFits ==
    ASSUME FitsInv, UNCHANGED <<toClient, browser>>, conn'.snd_nxt = conn.snd_nxt,
           conn.state \notin {"ESTABLISHED", "CLOSE_WAIT"}
               => conn'.state \notin {"ESTABLISHED", "CLOSE_WAIT"}
    PROVE  Between' /\ FinLast' /\ FitsBuffer'
BY DEF FitsInv, Fits, Between, FinLast, FitsBuffer, FinUnderWay, Away

LEMMA TailOfSegments ==
    ASSUME NEW q \in Seq(ToServer), q # <<>>
    PROVE  /\ Head(q) = q[1] /\ 1 \in 1 .. Len(q)
           /\ \A i \in 1 .. Len(Tail(q)) : Tail(q)[i] = q[i + 1] /\ i + 1 \in 1 .. Len(q)
           /\ \A i \in 1 .. Len(Tail(q)) : i \in Nat
OBVIOUS

LEMMA AckFits ==
    ASSUME FitsInv, handle_tcp_ack
    PROVE  Fits'
<1> DEFINE seg == Head(toServer)
<1>1. TypeOK /\ toServer \in Seq(ToServer) /\ toServer # <<>> /\ toServer' = Tail(toServer)
    BY DEF FitsInv, TypeInv, TypeOK, ToServer, handle_tcp_ack
<1>2. /\ conn'.snd_nxt = conn.snd_nxt
      /\ conn'.state = AfterAck(conn.state)
      /\ conn.state # "CLOSED" => conn'.snd_una = seg.ack /\ conn'.snd_wnd = seg.wnd
      /\ UNCHANGED <<toClient, browser>>
    BY DEF handle_tcp_ack, FitsInv, TypeInv, TypeOK, AfterAck
<1>3. Between' /\ FinLast' /\ FitsBuffer'
    BY <1>2, TakenFits DEF AfterAck
<1>4. ASSUME conn'.state = "ESTABLISHED"
      PROVE  /\ Away(conn.snd_nxt)' <= ConnEdge'
             /\ ConnEdge' <= browser'.room
             /\ \A i \in 1 .. Len(toServer') :
                    ConnEdge' <= SegEdge(i)' /\ SegEdge(i)' <= browser'.room
             /\ \A i, j \in 1 .. Len(toServer') : i <= j => SegEdge(i)' <= SegEdge(j)'
    <2>1. conn.state = "ESTABLISHED"
        BY <1>2, <1>4 DEF AfterAck, FitsInv, TypeInv, TypeOK
    <2>2. /\ Away(conn.snd_nxt) <= ConnEdge /\ ConnEdge <= browser.room
          /\ \A i \in 1 .. Len(toServer) : ConnEdge <= SegEdge(i) /\ SegEdge(i) <= browser.room
          /\ \A i, j \in 1 .. Len(toServer) : i <= j => SegEdge(i) <= SegEdge(j)
        BY <2>1 DEF FitsInv, Fits, EdgesInRow
    <2>3. Away(conn.snd_nxt)' = Away(conn.snd_nxt) /\ ConnEdge' = SegEdge(1)
        BY <1>1, <1>2, <2>1, TailOfSegments DEF ConnEdge, SegEdge, Edge, Away
    <2>4. \A i \in 1 .. Len(toServer') : SegEdge(i)' = SegEdge(i + 1)
        BY <1>1, <1>2, TailOfSegments DEF SegEdge, Edge, Away
    <2>5. \A i \in 1 .. Len(toServer') :
            i \in Nat /\ 1 \in 1 .. Len(toServer) /\ i + 1 \in 1 .. Len(toServer) /\ 1 <= i + 1
        BY <1>1, TailOfSegments
    <2>6. \A i, j \in 1 .. Len(toServer') : i <= j => i + 1 <= j + 1
        OBVIOUS
    <2>7. \A i \in 1 .. Len(toServer) : SegEdge(i) \in Nat
        BY <1>1, EdgeTypes
    <2>8. Away(conn.snd_nxt) <= SegEdge(1) /\ 1 \in 1 .. Len(toServer)
        BY <1>1, <2>2, <2>7, EdgeTypes, TailOfSegments
    <2> QED
        BY <1>2, <2>2, <2>3, <2>4, <2>5, <2>6, <2>8
<1> QED
    BY <1>3, <1>4 DEF Fits, EdgesInRow

LEMMA FinFits ==
    ASSUME FitsInv, handle_tcp_fin
    PROVE  Fits'
<1>1. /\ conn'.snd_nxt = conn.snd_nxt
      /\ conn'.state = AfterFin(conn.state) /\ conn'.state # "ESTABLISHED"
      /\ UNCHANGED <<toClient, browser>>
    BY DEF handle_tcp_fin, FitsInv, TypeInv, TypeOK, AfterFin
<1>2. Between' /\ FinLast' /\ FitsBuffer'
    BY <1>1, TakenFits DEF AfterFin
<1> QED
    BY <1>1, <1>2 DEF Fits, EdgesInRow

LEMMA LearnFits ==
    ASSUME FitsInv, learn
    PROVE  Fits'
BY LearnIs DEF FitsInv, Fits, Between, FinLast, EdgesInRow, FitsBuffer, FinUnderWay,
               ConnEdge, SegEdge, Edge, Away

-------------------------------------------------------------------------------
\* The browser's side.  A segment it sends offers what is free in its buffer.
LEMMA PostFits ==
    ASSUME FitsInv, NEW data \in Request \cup {Nothing, Fin}, Post(data),
           UNCHANGED <<conn, toClient>>,
           browser'.next = browser.next, browser'.room = browser.room
    PROVE  Fits'
<1> DEFINE e == [ack |-> browser.next, wnd |-> browser.room, data |-> data]
<1>1. TypeOK /\ toServer \in Seq(ToServer) /\ toServer' = Append(toServer, e)
    BY DEF FitsInv, TypeInv, TypeOK, ToServer, Post
<1> PICK n \in Nat : n = Len(toServer)
    BY <1>1
<1>2. /\ Len(toServer') = n + 1 /\ toServer'[n + 1] = e
      /\ \A i \in 1 .. n : toServer'[i] = toServer[i]
    BY <1>1
<1>3. Between' /\ FinLast' /\ FitsBuffer'
    BY DEF FitsInv, Fits, Between, FinLast, FitsBuffer, FinUnderWay, Away
<1>4. Away(conn.snd_nxt)' = Away(conn.snd_nxt) /\ ConnEdge' = ConnEdge
    BY DEF ConnEdge, Edge, Away
<1>5. \A i \in 1 .. n : SegEdge(i)' = SegEdge(i)
    BY <1>2 DEF SegEdge, Edge, Away
<1>6. SegEdge(n + 1)' = browser.room
    <2>1. Sub(browser.next, browser.next) = 0 /\ browser.next \in SeqNum /\ browser.room \in Nat
          /\ browser.room < SeqMod
        BY <1>1, EdgeTypes, SubSelf, SeqModAssumption
    <2>2. Sub(Add(browser.next, browser.room), browser.next) = browser.room
        BY <2>1, SubFarther
    <2> QED
        BY <1>2, <2>2 DEF SegEdge, Edge, Away
<1>7. ASSUME conn.state = "ESTABLISHED"
      PROVE  /\ \A i \in 1 .. n + 1 : ConnEdge <= SegEdge(i)' /\ SegEdge(i)' <= browser.room
             /\ \A i, j \in 1 .. n + 1 : i <= j => SegEdge(i)' <= SegEdge(j)'
    <2>1. /\ ConnEdge <= browser.room
          /\ \A i \in 1 .. n : ConnEdge <= SegEdge(i) /\ SegEdge(i) <= browser.room
          /\ \A i, j \in 1 .. n : i <= j => SegEdge(i) <= SegEdge(j)
        BY <1>7 DEF FitsInv, Fits, EdgesInRow
    <2>2. \A i \in 1 .. n + 1 : i = n + 1 \/ i \in 1 .. n
        OBVIOUS
    <2>3. \A i \in 1 .. n : ~(n + 1 <= i)
        OBVIOUS
    <2>4. browser.room <= browser.room
        BY <1>1, EdgeTypes
    <2>5. \A i \in 1 .. n + 1 : ConnEdge <= SegEdge(i)' /\ SegEdge(i)' <= browser.room
        BY <1>5, <1>6, <2>1, <2>2, <2>4
    <2>6. ASSUME NEW i \in 1 .. n + 1, NEW j \in 1 .. n + 1, i <= j
          PROVE  SegEdge(i)' <= SegEdge(j)'
        <3>1. CASE j = n + 1
            BY <1>6, <2>5, <3>1
        <3>2. CASE j # n + 1
            BY <1>5, <2>1, <2>2, <2>3, <2>6, <3>2
        <3> QED
            BY <3>1, <3>2
    <2> QED
        BY <2>5, <2>6
<1>8. EdgesInRow'
    BY <1>2, <1>4, <1>7 DEF EdgesInRow, FitsInv, Fits
<1> QED
    BY <1>3, <1>8 DEF Fits

LEMMA ReadsFits ==
    ASSUME FitsInv, browser_reads
    PROVE  Fits'
<1>1. /\ TypeOK /\ UNCHANGED <<conn, toServer, toClient>>
      /\ browser'.next = browser.next /\ browser'.room = RcvBuf
      /\ browser.room \in Nat /\ RcvBuf \in Nat /\ browser.room <= RcvBuf
    BY BufferAssumption DEF browser_reads, FitsInv, TypeInv, TypeOK, Browser
<1>2. Between' /\ FinLast'
    BY <1>1 DEF FitsInv, Fits, Between, FinLast, Away
<1>3. /\ Away(conn.snd_nxt)' = Away(conn.snd_nxt) /\ ConnEdge' = ConnEdge
      /\ \A i \in 1 .. Len(toServer) : SegEdge(i)' = SegEdge(i)
    BY <1>1 DEF ConnEdge, SegEdge, Edge, Away
<1>4. FitsBuffer'
    <2>1. FitsBuffer /\ Sub(conn.snd_nxt, browser.next) \in Nat
        BY <1>1, EdgeTypes DEF FitsInv, Fits, Away
    <2>2. FinUnderWay' = FinUnderWay
        BY <1>1 DEF FinUnderWay
    <2> QED
        BY <1>1, <2>1, <2>2 DEF FitsBuffer
<1>5. EdgesInRow'
    <2>1. \A x \in Nat : x <= browser.room => x <= RcvBuf
        BY <1>1
    <2>2. ConnEdge \in Nat /\ \A i \in 1 .. Len(toServer) : SegEdge(i) \in Nat
        BY <1>1, EdgeTypes
    <2> QED
        BY <1>1, <1>3, <2>1, <2>2 DEF FitsInv, Fits, EdgesInRow
<1> QED
    BY <1>2, <1>4, <1>5 DEF Fits

\* The first segment under way fits, and there is room for it in front of a FIN.
LEMMA HeadFits ==
    ASSUME FitsInv, toClient # <<>>
    PROVE  LET seg == Head(toClient) IN
           /\ seg \in ToClient /\ seg.len \in Nat
           /\ seg.len <= Away(conn.snd_nxt)
           /\ seg.data # Fin => seg.len <= browser.room
           /\ seg.data = Fin => seg.len = 1 /\ Len(toClient) = 1
<1> DEFINE seg == Head(toClient)
           n == Len(toClient)
<1>1. /\ TypeOK /\ toClient \in Seq(ToClient) /\ n \in Nat \ {0} /\ 1 \in 1 .. n
      /\ seg = toClient[1] /\ seg \in ToClient
    BY DEF FitsInv, TypeInv, TypeOK, ToClient
<1>2. seg.len \in Nat /\ (seg.data = Fin => seg.len = 1)
    BY <1>1 DEF ToClient, Piece, Fin
<1>3. seg.data = Fin => n = 1
    BY <1>1 DEF FitsInv, Fits, FinLast
<1>4. PICK f \in Starts(toClient) : f[n + 1] <= Away(conn.snd_nxt)
    BY DEF FitsInv, Fits, Between
<1>5. seg.len <= f[n + 1] /\ f[n + 1] \in Nat
    <2>1. f[n + 1] \in Nat
        BY <1>1 DEF Starts
    <2> QED
        BY <1>1, <1>4, <2>1, StartsTail
<1>6. Away(conn.snd_nxt) \in Nat /\ browser.room \in Nat
    BY <1>1, EdgeTypes
<1>7. seg.len <= Away(conn.snd_nxt)
    BY <1>2, <1>4, <1>5, <1>6
<1>8. ASSUME seg.data # Fin PROVE seg.len <= browser.room
    <2>1. CASE ~FinUnderWay
        <3>1. Away(conn.snd_nxt) <= browser.room
            BY <1>6, <2>1 DEF FitsInv, Fits, FitsBuffer, Away
        <3> QED
            BY <1>2, <1>6, <1>7, <3>1
    <2>2. CASE FinUnderWay
        <3>1. toClient[n].data = Fin /\ n # 1
            BY <1>1, <1>8, <2>2 DEF FitsInv, Fits, FinLast, FinUnderWay
        <3>2. toClient[n] \in ToClient /\ n \in 1 .. n
            BY <1>1
        <3>3. toClient[n].len = 1
            BY <3>1, <3>2 DEF ToClient, Piece, Fin
        <3>4. f[n + 1] = f[n] + 1 /\ f[2] = f[1] + seg.len /\ f[1] = 0
            BY <1>1, <1>4, <3>2, <3>3 DEF Starts
        <3>5. f[n] \in Nat /\ f[2] <= f[n]
            <4>1. \A k \in Nat \ {0} : k # 1 => 2 \in 1 .. k + 1 /\ k \in 1 .. k + 1 /\ 2 <= k
                OBVIOUS
            <4>2. n \in Nat \ {0} /\ n # 1
                BY <1>1, <3>1
            <4>3. 2 \in 1 .. n + 1 /\ n \in 1 .. n + 1 /\ 2 <= n
                BY <4>1, <4>2
            <4> QED
                BY <4>3 DEF Starts
        <3>6. seg.len + 1 <= f[n + 1]
            BY <1>2, <3>4, <3>5
        <3>7. Away(conn.snd_nxt) <= browser.room + 1
            BY <1>6, <2>2 DEF FitsInv, Fits, FitsBuffer, Away
        <3> QED
            BY <1>2, <1>4, <1>5, <1>6, <3>6, <3>7
    <2> QED
        BY <2>1, <2>2
<1> QED
    BY <1>1, <1>2, <1>3, <1>7, <1>8

LEMMA ReceivesFits ==
    ASSUME FitsInv, browser_receives
    PROVE  Fits'
<1>1. /\ TypeOK /\ toClient \in Seq(ToClient) /\ toClient # <<>> /\ toClient' = Tail(toClient)
      /\ UNCHANGED <<conn, toServer>>
      /\ browser.next \in SeqNum /\ browser.room \in Nat
    BY EdgeTypes DEF FitsInv, TypeInv, TypeOK, ToClient, browser_receives
<1> PICK l \in Nat, takes \in Nat, data \in Piece \cup {Fin} :
        /\ l = Head(toClient).len /\ data = Head(toClient).data
        /\ takes = IF data = Fin THEN 0 ELSE l
    <2>1. Head(toClient).data \in Piece \cup {Fin}
        BY <1>1, HeadFits DEF ToClient
    <2> QED
        BY <1>1, <2>1, HeadFits
<1>2. /\ l <= Away(conn.snd_nxt) /\ takes <= browser.room
      /\ data = Fin => l = 1 /\ Len(toClient) = 1
    BY <1>1, HeadFits
<1>3. browser'.next = Add(browser.next, l) /\ browser'.room = browser.room - takes
    BY <1>1, <1>2 DEF browser_receives, TypeOK, Browser
<1>4. Away(conn.snd_nxt) \in Nat /\ Away(conn.snd_nxt)' = Away(conn.snd_nxt) - l
    BY <1>1, <1>2, <1>3, EdgeTypes, SubNearer DEF Away
<1>5. /\ \A i \in 1 .. Len(toClient') : toClient'[i] = toClient[i + 1] /\ i + 1 \in 1 .. Len(toClient)
      /\ Len(toClient') = Len(toClient) - 1 /\ Len(toClient) \in Nat \ {0}
      /\ Head(toClient) = toClient[1]
    BY <1>1
<1>6. Between'
    <2>1. PICK f \in Starts(toClient) : f[Len(toClient) + 1] <= Away(conn.snd_nxt)
        BY DEF FitsInv, Fits, Between
    <2>2. PICK g \in Starts(Tail(toClient)) :
            g[Len(Tail(toClient)) + 1] = f[Len(toClient) + 1] - l
        BY <1>1, StartsTail
    <2>3. f[Len(toClient) + 1] \in Nat
        BY <1>5 DEF Starts
    <2>4. f[Len(toClient) + 1] - l <= Away(conn.snd_nxt) - l
        BY <1>4, <2>1, <2>3
    <2> QED
        BY <1>1, <1>4, <2>2, <2>4 DEF Between
<1>7. FinLast'
    <2> SUFFICES ASSUME NEW i \in 1 .. Len(toClient'), toClient'[i].data = Fin
                 PROVE  i = Len(toClient') /\ conn.state \notin {"ESTABLISHED", "CLOSE_WAIT"}
        BY <1>1 DEF FinLast
    <2>1. i + 1 = Len(toClient) /\ conn.state \notin {"ESTABLISHED", "CLOSE_WAIT"}
        BY <1>5 DEF FitsInv, Fits, FinLast
    <2> QED
        BY <1>5, <2>1
<1>8. FitsBuffer'
    <2>1. Away(conn.snd_nxt) <= browser.room + (IF FinUnderWay THEN 1 ELSE 0)
        BY DEF FitsInv, Fits, FitsBuffer, Away
    <2>2. CASE data = Fin
        <3>1. Away(conn.snd_nxt)' <= browser'.room
            BY <1>1, <1>2, <1>3, <1>4, <2>1, <2>2
        <3>2. browser'.room \in Nat
            BY <1>1, <1>3, <2>2
        <3> QED
            BY <1>4, <3>1, <3>2 DEF FitsBuffer, Away
    <2>3. CASE data # Fin
        <3>1. FinUnderWay' = FinUnderWay
            <4>1. ASSUME FinUnderWay PROVE FinUnderWay'
                <5>1. PICK i \in 1 .. Len(toClient) : toClient[i].data = Fin
                    BY <4>1 DEF FinUnderWay
                <5>2. i # 1
                    BY <1>5, <2>3, <5>1
                <5>3. i - 1 \in 1 .. Len(toClient') /\ (i - 1) + 1 = i
                    BY <1>5, <5>2
                <5>4. toClient'[i - 1].data = Fin
                    BY <1>5, <5>1, <5>3
                <5> QED
                    BY <5>3, <5>4 DEF FinUnderWay
            <4>2. ASSUME FinUnderWay' PROVE FinUnderWay
                BY <1>5, <4>2 DEF FinUnderWay
            <4>3. FinUnderWay \in BOOLEAN /\ FinUnderWay' \in BOOLEAN
                BY DEF FinUnderWay
            <4> QED
                BY <4>1, <4>2, <4>3
        <3>2. Away(conn.snd_nxt)' <= browser'.room + (IF FinUnderWay THEN 1 ELSE 0)
            BY <1>1, <1>2, <1>3, <1>4, <2>1, <2>3
        <3> QED
            BY <3>1, <3>2 DEF FitsBuffer, Away
    <2> QED
        BY <2>2, <2>3
<1>9. EdgesInRow'
    <2> SUFFICES ASSUME conn.state = "ESTABLISHED"
                 PROVE  EdgesInRow'
        BY <1>1 DEF EdgesInRow
    <2>1. /\ Away(conn.snd_nxt) <= ConnEdge /\ ConnEdge <= browser.room
          /\ \A i \in 1 .. Len(toServer) : ConnEdge <= SegEdge(i) /\ SegEdge(i) <= browser.room
          /\ \A i, j \in 1 .. Len(toServer) : i <= j => SegEdge(i) <= SegEdge(j)
        BY DEF FitsInv, Fits, EdgesInRow
    <2>2. data # Fin
        BY <1>5 DEF FitsInv, Fits, FinLast
    <2>3. browser'.room = browser.room - l
        BY <1>3, <2>2
    <2>4. ConnEdge \in Nat /\ ConnEdge' = ConnEdge - l
        <3>1. l <= ConnEdge
            BY <1>1, <1>2, <2>1, EdgeTypes
        <3> QED
            BY <1>1, <1>3, <3>1, EdgeTypes, SubNearer DEF ConnEdge, Edge, Away
    <2>5. \A i \in 1 .. Len(toServer) : SegEdge(i) \in Nat /\ SegEdge(i)' = SegEdge(i) - l
        <3> SUFFICES ASSUME NEW i \in 1 .. Len(toServer)
                     PROVE  SegEdge(i) \in Nat /\ SegEdge(i)' = SegEdge(i) - l
            OBVIOUS
        <3>1. l <= SegEdge(i) /\ SegEdge(i) \in Nat
            BY <1>1, <1>2, <2>1, EdgeTypes
        <3> QED
            BY <1>1, <1>3, <3>1, EdgeTypes, SubNearer DEF SegEdge, Edge, Away
    <2>6. \A x, y \in Nat : x <= y => x - l <= y - l
        OBVIOUS
    <2> QED
        BY <1>1, <1>4, <2>1, <2>3, <2>4, <2>5, <2>6, ZenonT(40) DEF EdgesInRow
<1> QED
    BY <1>6, <1>7, <1>8, <1>9 DEF Fits

LEMMA BrowserFits ==
    ASSUME FitsInv, BrowserStep
    PROVE  Fits'
<1>1. ASSUME browser_acknowledges PROVE Fits'
    BY <1>1, PostFits DEF browser_acknowledges
<1>2. ASSUME browser_requests PROVE Fits'
    BY <1>2, PostFits DEF browser_requests, FitsInv, TypeInv, TypeOK, Browser
<1>3. ASSUME browser_closes PROVE Fits'
    BY <1>3, PostFits DEF browser_closes, FitsInv, TypeInv, TypeOK, Browser
<1> QED
    BY <1>1, <1>2, <1>3, ReceivesFits, ReadsFits DEF BrowserStep

LEMMA InitFits == Init => FitsInv
<1> SUFFICES ASSUME Init PROVE FitsInv
    OBVIOUS
<1>1. TypeInv
    BY InitType DEF Init, TypeInv, HeldAt
<1>2. /\ conn.snd_nxt = Iss /\ conn.snd_una = Iss /\ conn.snd_wnd = RcvBuf
      /\ toClient = <<>> /\ toServer = <<>> /\ browser.next = Iss /\ browser.room = RcvBuf
    BY DEF Init
<1>3. Away(conn.snd_nxt) = 0 /\ RcvBuf \in Nat
    BY <1>2, SubSelf, SeqModAssumption, BufferAssumption DEF Away
<1>4. Between
    <2> DEFINE f == [i \in 1 .. 1 |-> 0]
    <2>1. Len(toClient) = 0
        BY <1>2
    <2>2. f \in Starts(toClient) /\ f[1] = 0
        BY <2>1 DEF Starts
    <2> QED
        BY <1>3, <2>1, <2>2 DEF Between
<1>5. ConnEdge = RcvBuf
    BY <1>2, <1>3, SubFarther, SeqModAssumption, BufferAssumption DEF ConnEdge, Edge, Away
<1>6. FinLast /\ EdgesInRow
    BY <1>2, <1>3, <1>5 DEF FinLast, EdgesInRow
<1>7. FitsBuffer
    BY <1>2, <1>3 DEF FitsBuffer, Away, FinUnderWay
<1> QED
    BY <1>1, <1>4, <1>6, <1>7 DEF FitsInv, Fits

\* Whatever the browser asks for and however long the page is: what is under way
\* to it fits its receive buffer, and the subtraction of tcp.c:367 never wraps.
THEOREM NeverOverruns == Spec => []FitsBuffer
<1>1. ASSUME FitsInv, [Next]_vars PROVE FitsInv'
    <2>1. TypeInv'
        BY <1>1, NextType DEF FitsInv
    <2> SUFFICES Fits'
        BY <2>1 DEF FitsInv
    <2>2. CASE ProcStep
        BY <1>1, <2>2, AckFits, FinFits, HandlerFits, LearnFits DEF ProcStep
    <2>3. CASE BrowserStep
        BY <1>1, <2>3, BrowserFits
    <2>4. CASE UNCHANGED vars
        BY <1>1, <2>4 DEF vars, FitsInv, Fits, Between, FinLast, EdgesInRow, FitsBuffer,
                          FinUnderWay, ConnEdge, SegEdge, Edge, Away
    <2> QED
        BY <1>1, <2>2, <2>3, <2>4 DEF Next, BrowserStep
<1>2. FitsInv => FitsBuffer
    BY DEF FitsInv, Fits
<1> QED
    BY <1>1, <1>2, InitFits, PTL DEF Spec

-------------------------------------------------------------------------------
\* What is sent of a page: all of it when it fits the window that was open at the
\* request, and if it does not, no full chunk behind a gap of the window's making.

\* Multiples of c, and what div makes of a number that is not one.
LEMMA MultipleIs ==
    ASSUME NEW c \in Nat \ {0}, NEW a \in Nat, a % c = 0
    PROVE  \E q \in Nat : a = q * c
BY SMTT(30)

LEMMA IsMultiple ==
    ASSUME NEW c \in Nat \ {0}, NEW q \in Nat
    PROVE  (q * c) % c = 0
BY SMTT(30)

LEMMA NextMultiple ==
    ASSUME NEW c \in Nat \ {0}, NEW a \in Nat, NEW b \in Nat, a % c = 0, b % c = 0
    PROVE  (a + c) % c = 0 /\ (b < a + c => b <= a)
<1>1. PICK p \in Nat : a = p * c
    BY MultipleIs
<1>2. PICK q \in Nat : b = q * c
    BY MultipleIs
<1>3. a + c = (p + 1) * c
    BY <1>1
<1>4. q * c < p * c + c => q <= p
    BY SMTT(30)
<1>5. q <= p => q * c <= p * c
    BY SMTT(30)
<1> QED
    BY <1>1, <1>2, <1>3, <1>4, <1>5, IsMultiple

LEMMA RoundUp ==
    ASSUME NEW c \in Nat \ {0}, NEW q \in Nat
    PROVE  /\ (q * c + c - 1) \div c = q
           /\ \A r \in 1 .. c : (q * c + r + c - 1) \div c = q + 1
<1>1. (q * c + c - 1) \div c = q
    BY SMTT(30)
<1>2. ASSUME NEW r \in 1 .. c
      PROVE  (q * c + r + c - 1) \div c = q + 1
    BY SMTT(30)
<1> QED
    BY <1>1, <1>2

-------------------------------------------------------------------------------
\* The invariant.  Before the header goes out nothing is sent and the window is as
\* it was at the request; then the thread is at the beginning of a chunk or at the
\* end of the page.
Answered ==
    /\ at \in {"parse", "size", "malloc", "fread"} =>
           answer = <<>> /\ starved = {} /\ Usable(conn) = offered
    /\ at = "404 body" => \A i \in 1 .. Len(answer) : answer[i].piece # "chunk"
    /\ at = "chunk" => /\ offset <= content_len
                       /\ offset = content_len \/ offset % ChunkSize = 0

\* As long as a full chunk can be sent, all chunks so far have been sent or starved.
Tried(o) == Sent(o) \/ ChunkAt(o) \in starved
NoGap ==
    at = "chunk" /\ conn.state = "ESTABLISHED" /\ known /\ ChunkSize <= Usable(conn) =>
        \A o \in Nat : o < offset /\ o % ChunkSize = 0 => Tried(o)

\* A page that fits has used up of the window what has been sent of it.
Going ==
    (/\ at = "chunk" /\ conn.state = "ESTABLISHED" /\ HeaderLen + content_len <= offered
     /\ known /\ starved = {})
    => answer = Whole(offset) /\ Usable(conn) = offered - (HeaderLen + offset)

Page == Answered /\ NoGap /\ Going /\ LosesTheEnd
PageInv == TypeInv /\ Page

LEMMA UsableType ==
    ASSUME TypeOK
    PROVE  Usable(conn) \in Nat /\ offered \in Nat
<1>1. /\ conn.snd_una \in SeqNum /\ conn.snd_nxt \in SeqNum /\ conn.snd_wnd \in 0 .. RcvBuf
      /\ offered \in SeqNum
    BY DEF TypeOK
<1>2. conn.snd_wnd \in Nat /\ conn.snd_wnd <= SeqMod
    BY <1>1, BufferAssumption, SeqModAssumption
<1> QED
    BY <1>1, <1>2, AddType, SubType, SeqNumIsNat DEF Usable

\* A part that is sent takes its length from the window.
LEMMA SendTakes ==
    ASSUME TypeOK, NEW part \in Part, tcp_send_data(part)
    PROVE  /\ conn'.state = conn.state
           /\ \/ /\ Accepts(conn, part.len) /\ Usable(conn') = Usable(conn) - part.len
                 /\ answer' = IF known THEN Append(answer, part) ELSE answer
                 /\ starved' = starved
              \/ /\ Accepts(conn, part.len) /\ UNCHANGED <<conn, answer>>
                 /\ starved' = starved \cup {part}
              \/ ~Accepts(conn, part.len) /\ UNCHANGED <<conn, answer, starved>>
<1>1. conn \in Conn /\ part.len \in Nat
    BY DEF TypeOK, Conn, Part
<1>2. ASSUME Accepts(conn, part.len), conn' = [conn EXCEPT !.snd_nxt = Add(@, part.len)]
      PROVE  conn'.state = conn.state /\ Usable(conn') = Usable(conn) - part.len
    <2>1. /\ conn'.state = conn.state /\ conn'.snd_una = conn.snd_una
          /\ conn'.snd_wnd = conn.snd_wnd /\ conn'.snd_nxt = Add(conn.snd_nxt, part.len)
        BY <1>1, <1>2 DEF Conn
    <2>2. conn.snd_nxt \in SeqNum /\ Add(conn.snd_una, conn.snd_wnd) \in SeqNum
        BY EdgeTypes
    <2>3. part.len <= Sub(Add(conn.snd_una, conn.snd_wnd), conn.snd_nxt)
        BY <1>2 DEF Accepts, Usable
    <2> QED
        BY <1>1, <2>1, <2>2, <2>3, SubNearer DEF Usable
<1> QED
    BY <1>2, SendCases

NoChunk == \A i \in 1 .. Len(answer) : answer[i].piece # "chunk"

LEMMA NoChunkSent ==
    ASSUME TypeOK, NoChunk, NEW part \in Part, part.piece # "chunk", tcp_send_data(part)
    PROVE  NoChunk' /\ LosesTheEnd'
<1>1. answer \in Seq(Part)
    BY DEF TypeOK
<1>2. answer' = answer \/ answer' = Append(answer, part)
    BY SendCases
<1>3. NoChunk'
    BY <1>1, <1>2 DEF NoChunk
<1> QED
    BY <1>3 DEF NoChunk, LosesTheEnd

LEMMA QuietPage ==
    ASSUME PageInv,
           UNCHANGED <<conn, at, content_len, offset, known, offered, answer, starved>>
    PROVE  Page'
BY ZenonT(40) DEF PageInv, Page, Answered, NoGap, Going, LosesTheEnd, Tried, Usable, Sent, Whole,
                  Chunks, ChunkAt

\* The thread is at rest and the answer stays what it was.
LEMMA RestPage ==
    ASSUME PageInv, at' = "idle", UNCHANGED <<answer, starved, content_len>>
    PROVE  Page'
<1>1. LosesTheEnd'
    BY DEF PageInv, Page, LosesTheEnd, Sent, ChunkAt
<1> QED
    BY <1>1 DEF Page, Answered, NoGap, Going

\* The thread returns with an answer that has no chunk.
LEMMA RefusedPage ==
    ASSUME TypeOK, NoChunk, NEW part \in Part, part.piece # "chunk", tcp_send_data(part),
           at' \in {"idle", "404 body"}
    PROVE  Page'
BY NoChunkSent DEF Page, Answered, NoGap, Going, NoChunk

LEMMA TakenPage ==
    ASSUME PageInv, handle_tcp_ack \/ handle_tcp_fin
    PROVE  Page'
<1>1. CASE handle_tcp_fin
    <2>1. at' = "idle" /\ UNCHANGED <<answer, starved, content_len>>
        BY <1>1 DEF handle_tcp_fin, serverVars
    <2> QED
        BY <2>1, RestPage
<1>2. CASE handle_tcp_ack
    <2>1. \/ at' = "idle" /\ UNCHANGED <<answer, starved, content_len>>
          \/ at' = "parse" /\ answer' = <<>> /\ starved' = {} /\ offered' = Usable(conn')
        BY <1>2 DEF handle_tcp_ack
    <2>2. CASE at' = "idle" /\ UNCHANGED <<answer, starved, content_len>>
        BY <2>2, RestPage
    <2>3. CASE at' = "parse" /\ answer' = <<>> /\ starved' = {} /\ offered' = Usable(conn')
        <3>1. Len(answer') = 0
            BY <2>3
        <3>2. LosesTheEnd'
            BY <3>1 DEF LosesTheEnd
        <3> QED
            BY <2>3, <3>2 DEF Page, Answered, NoGap, Going, Usable
    <2> QED
        BY <2>1, <2>2, <2>3
<1> QED
    BY <1>1, <1>2

\* The steps before a chunk, which send an error, a header or nothing.
LEMMA BeforePage ==
    ASSUME PageInv, refuse_request \/ not_found \/ not_found_body \/ http_try_open_file
                    \/ measure \/ allocate
    PROVE  Page'
<1>1. TypeOK /\ Error.piece # "chunk"
    BY DEF PageInv, TypeInv, Error
<1>2. at \in {"parse", "size", "malloc", "404 body"} => NoChunk
    <2>1. answer = <<>> => NoChunk
        BY DEF NoChunk
    <2> QED
        BY <2>1 DEF PageInv, Page, Answered, NoChunk
<1>3. ASSUME refuse_request PROVE Page'
    BY <1>1, <1>2, <1>3, PartType, RefusedPage DEF refuse_request, Say
<1>4. ASSUME not_found PROVE Page'
    BY <1>1, <1>2, <1>4, PartType, RefusedPage DEF not_found, Say
<1>5. ASSUME not_found_body PROVE Page'
    BY <1>1, <1>2, <1>5, PartType, RefusedPage DEF not_found_body, Say
<1>6. ASSUME at \in {"parse", "size", "malloc"}, at' \in {"size", "malloc", "fread"},
             UNCHANGED <<conn, answer, starved, offered>>
      PROVE  Page'
    <2>1. answer' = <<>> /\ starved' = {} /\ Usable(conn') = offered'
        BY <1>6 DEF PageInv, Page, Answered
    <2>2. LosesTheEnd'
        <3>1. Len(answer') = 0
            BY <2>1
        <3> QED
            BY <3>1 DEF LosesTheEnd
    <2> QED
        BY <1>6, <2>1, <2>2 DEF Page, Answered, NoGap, Going, Usable
<1>7. ASSUME http_try_open_file PROVE Page'
    BY <1>6, <1>7 DEF http_try_open_file, sending
<1>8. ASSUME measure PROVE Page'
    <2>1. CASE Say(Error, "idle")
        BY <1>1, <1>2, <1>8, <2>1, PartType, RefusedPage DEF measure, Say
    <2>2. CASE ~Say(Error, "idle")
        BY <1>6, <1>8, <2>2 DEF measure, sending
    <2> QED
        BY <2>1, <2>2
<1>9. ASSUME allocate PROVE Page'
    <2>1. CASE Say(Error, "idle")
        BY <1>1, <1>2, <1>9, <2>1, PartType, RefusedPage DEF allocate, Say
    <2>2. CASE ~Say(Error, "idle")
        BY <1>6, <1>9, <2>2 DEF allocate, sending
    <2> QED
        BY <2>1, <2>2
<1> QED
    BY <1>3, <1>4, <1>5, <1>7, <1>8, <1>9

\* The header of the page.
LEMMA HeaderPage ==
    ASSUME PageInv, read_file
    PROVE  Page'
<1> DEFINE header == [piece |-> "header", from |-> 0, len |-> HeaderLen]
<1>1. /\ TypeOK /\ answer = <<>> /\ NoChunk /\ Usable(conn) = offered
      /\ content_len \in Nat /\ content_len' = content_len /\ offered' = offered
      /\ known' = known
    BY DEF PageInv, TypeInv, TypeOK, Page, Answered, read_file, NoChunk
<1>2. CASE Say(Error, "idle")
    BY <1>1, <1>2, PartType, RefusedPage DEF Say, Error
<1>3. CASE Say(header, "chunk") /\ offset' = 0
    <2>1. tcp_send_data(header) /\ at' = "chunk" /\ header \in Part /\ header.piece # "chunk"
        BY <1>3, PartType DEF Say
    <2> HIDE DEF header
    <2>2. LosesTheEnd'
        BY <1>1, <2>1, NoChunkSent
    <2>3. Answered'
        <3>1. 0 = content_len \/ 0 % ChunkSize = 0
            BY IsMultiple, LengthAssumption
        <3> QED
            BY <1>1, <1>3, <2>1, <3>1 DEF Answered
    <2>4. NoGap'
        BY <1>3 DEF NoGap
    <2>5. ASSUME conn'.state = "ESTABLISHED", HeaderLen + content_len <= offered,
                 known, starved' = {}
          PROVE  answer' = Whole(0)' /\ Usable(conn') = offered - (HeaderLen + 0)
        <3>1. Accepts(conn, header.len) /\ header.len = HeaderLen
            <4>1. conn.state = "ESTABLISHED"
                BY <1>1, <2>1, <2>5, SendTakes
            <4>2. HeaderLen > 0 /\ HeaderLen <= Usable(conn)
                BY <1>1, <2>5, UsableType, LengthAssumption
            <4> QED
                BY <4>1, <4>2 DEF Accepts, header
        <3>2. answer' = Append(<<>>, header) /\ Usable(conn') = offered - HeaderLen
            <4>1. header \notin starved'
                BY <2>5
            <4> QED
                BY <1>1, <2>1, <2>5, <3>1, <4>1, SendTakes
        <3>3. Append(<<>>, header) = [i \in 1 .. 1 |-> header]
            OBVIOUS
        <3>4. Chunks(0) = 0
            BY RoundUp, LengthAssumption DEF Chunks
        <3>5. Whole(0)' = [i \in 1 .. 1 |-> header]
            BY <3>4 DEF Whole, header
        <3> QED
            BY <3>2, <3>3, <3>5, LengthAssumption
    <2>6. Going'
        BY <1>1, <1>3, <2>5 DEF Going, Usable
    <2> QED
        BY <2>2, <2>3, <2>4, <2>6 DEF Page
<1> QED
    BY <1>2, <1>3 DEF read_file

\* What a part that is appended does to what has been sent.
LEMMA SentGrows ==
    ASSUME NEW part \in Part, answer \in Seq(Part), answer' = Append(answer, part),
           part.piece = "chunk"
    PROVE  /\ \A o : Sent(o) => Sent(o)'
           /\ Sent(part.from)'
<1>1. /\ Len(answer') = Len(answer) + 1 /\ Len(answer) \in Nat
      /\ \A i \in 1 .. Len(answer) : answer'[i] = answer[i] /\ i \in 1 .. Len(answer')
      /\ answer'[Len(answer')] = part /\ Len(answer') \in 1 .. Len(answer')
    OBVIOUS
<1> QED
    BY <1>1 DEF Sent

\* The parts of a page up to the next chunk.
LEMMA WholeGrows ==
    ASSUME NEW o \in Nat, NEW l \in 1 .. ChunkSize, o % ChunkSize = 0
    PROVE  Whole(o + l) = Append(Whole(o), ChunkAt(o))
<1>1. PICK q \in Nat : o = q * ChunkSize
    BY MultipleIs, LengthAssumption
<1>2. Chunks(o) = q
    BY <1>1, RoundUp, LengthAssumption DEF Chunks
<1>3. Chunks(o + l) = q + 1
    BY <1>1, RoundUp, LengthAssumption DEF Chunks
<1> DEFINE elt(i) == IF i = 1 THEN [piece |-> "header", from |-> 0, len |-> HeaderLen]
                              ELSE ChunkAt((i - 2) * ChunkSize)
<1>4. Whole(o) = [i \in 1 .. q + 1 |-> elt(i)]
    BY <1>2 DEF Whole
<1>5. Whole(o + l) = [i \in 1 .. q + 2 |-> elt(i)]
    <2>1. (q + 1) + 1 = q + 2
        OBVIOUS
    <2> QED
        BY <1>3, <2>1 DEF Whole
<1>6. elt(q + 2) = ChunkAt(o)
    <2>1. q + 2 # 1 /\ (q + 2) - 2 = q
        OBVIOUS
    <2> QED
        BY <1>1, <2>1
<1> HIDE DEF elt
<1>7. Append([i \in 1 .. q + 1 |-> elt(i)], elt(q + 2)) = [i \in 1 .. q + 2 |-> elt(i)]
    OBVIOUS
<1> QED
    BY <1>4, <1>5, <1>6, <1>7

\* A turn of the loop.
LEMMA ChunkPage ==
    ASSUME PageInv, send_chunk
    PROVE  Page'
<1> PICK part \in Part, l \in 1 .. ChunkSize, off \in Nat :
        /\ off = offset
        /\ part = ChunkAt(offset) /\ l = part.len
        /\ l <= content_len - offset
        /\ l = ChunkSize \/ l = content_len - offset
    <2>1. TypeOK /\ offset < content_len /\ offset \in Nat
        BY DEF send_chunk, PageInv, TypeInv, TypeOK
    <2>2. ChunkAt(offset).len = ChunkSize \/ ChunkAt(offset).len = content_len - offset
        BY DEF ChunkAt
    <2> QED
        BY <2>1, <2>2, ChunkType
<1>1. /\ TypeOK /\ answer \in Seq(Part) /\ at = "chunk" /\ at' = "chunk"
      /\ tcp_send_data(part) /\ part.piece = "chunk" /\ part.from = off
      /\ offset' = off + l /\ off < content_len /\ offset = off
      /\ UNCHANGED <<content_len, known, offered>>
      /\ l \in Nat /\ 0 < l /\ l <= ChunkSize
      /\ content_len \in Nat /\ offered \in Nat /\ Usable(conn) \in Nat
      /\ ChunkSize \in Nat \ {0} /\ HeaderLen \in Nat
    BY UsableType, LengthAssumption DEF send_chunk, Say, ChunkAt, PageInv, TypeInv, TypeOK
<1>2. off % ChunkSize = 0
    BY <1>1 DEF PageInv, Page, Answered
<1>3. Answered'
    <2>1. offset' <= content_len /\ (offset' = content_len \/ offset' % ChunkSize = 0)
        <3>1. CASE l = ChunkSize
            BY <1>1, <1>2, <3>1, NextMultiple, SMTT(30)
        <3>2. CASE l = content_len - off
            BY <1>1, <3>2
        <3> QED
            BY <3>1, <3>2
    <2> QED
        BY <1>1, <2>1 DEF Answered
<1>4. ASSUME NEW o \in Nat, o < off + ChunkSize, o % ChunkSize = 0
      PROVE  o < off \/ o = off
    <2>1. o <= off
        BY <1>1, <1>2, <1>4, NextMultiple
    <2> QED
        BY <2>1
<1>5. /\ PageInv /\ ChunkAt(off) = part /\ \A o : ChunkAt(o)' = ChunkAt(o)
    BY <1>1 DEF ChunkAt
<1>6. CASE ~Accepts(conn, part.len) /\ UNCHANGED <<conn, answer, starved>>
    <2>1. LosesTheEnd'
        BY <1>1, <1>6 DEF PageInv, Page, LosesTheEnd, Sent, ChunkAt
    <2>2. conn.state = "ESTABLISHED" => Usable(conn) < l
        BY <1>1, <1>6 DEF Accepts
    <2>3. NoGap'
        BY <1>1, <1>6, <2>2 DEF NoGap, Usable
    <2>4. Going'
        <3>1. ASSUME conn.state = "ESTABLISHED", HeaderLen + content_len <= offered,
                     known, starved = {}
              PROVE  FALSE
            <4>1. Usable(conn) = offered - (HeaderLen + off)
                BY <1>1, <3>1 DEF PageInv, Page, Going
            <4> QED
                BY <1>1, <2>2, <3>1, <4>1
        <3> QED
            BY <1>1, <1>6, <3>1 DEF Going
    <2> QED
        BY <1>3, <2>1, <2>3, <2>4 DEF Page
<1>7. CASE /\ UNCHANGED <<conn, answer>>
           /\ starved' = starved \cup {part}
    <2>1. LosesTheEnd'
        BY <1>5, <1>7 DEF PageInv, Page, LosesTheEnd, Sent
    <2>2. NoGap'
        <3> SUFFICES ASSUME conn.state = "ESTABLISHED", known, ChunkSize <= Usable(conn),
                            NEW o \in Nat, o < off + l, o % ChunkSize = 0
                     PROVE  Tried(o)'
            BY <1>1, <1>7 DEF NoGap, Usable
        <3>1. o < off + ChunkSize
            BY <1>1
        <3>2. CASE o < off
            BY <1>1, <1>5, <1>7, <3>2 DEF PageInv, Page, NoGap, Tried, Sent
        <3>3. CASE o = off
            BY <1>5, <1>7, <3>3 DEF Tried
        <3> QED
            BY <1>4, <3>1, <3>2, <3>3
    <2>3. Going'
        BY <1>7 DEF Going
    <2> QED
        BY <1>3, <2>1, <2>2, <2>3 DEF Page
<1>8. CASE /\ Accepts(conn, part.len) /\ Usable(conn') = Usable(conn) - part.len
           /\ conn'.state = conn.state /\ starved' = starved
           /\ ~known /\ answer' = answer
    <2>1. LosesTheEnd'
        BY <1>5, <1>8 DEF PageInv, Page, LosesTheEnd, Sent
    <2>2. NoGap' /\ Going'
        BY <1>1, <1>8 DEF NoGap, Going
    <2> QED
        BY <1>3, <2>1, <2>2 DEF Page
<1>9. CASE /\ Accepts(conn, part.len) /\ Usable(conn') = Usable(conn) - part.len
           /\ conn'.state = conn.state /\ starved' = starved
           /\ known /\ answer' = Append(answer, part)
    <2>1. conn.state = "ESTABLISHED" /\ Usable(conn') = Usable(conn) - l /\ l <= Usable(conn)
        BY <1>1, <1>9 DEF Accepts
    <2>2. /\ \A o : Tried(o) => Tried(o)'
          /\ Tried(off)'
        BY <1>1, <1>5, <1>9, SentGrows DEF Tried
    <2>3. ASSUME ChunkSize <= Usable(conn), NEW o \in Nat, o < off + ChunkSize, o % ChunkSize = 0
          PROVE  Tried(o)'
        <3>1. CASE o < off
            BY <1>1, <1>9, <2>1, <2>2, <2>3, <3>1 DEF PageInv, Page, NoGap
        <3>2. CASE o = off
            BY <2>2, <3>2
        <3> QED
            BY <1>4, <2>3, <3>1, <3>2
    <2>4. NoGap'
        <3> SUFFICES ASSUME ChunkSize <= Usable(conn'), NEW o \in Nat, o < offset', o % ChunkSize = 0
                     PROVE  Tried(o)'
            BY DEF NoGap, Usable
        <3>1. ChunkSize <= Usable(conn) /\ o < off + ChunkSize
            <4>1. \A c, u, n \in Nat : c <= u - n => c <= u
                OBVIOUS
            <4>2. o < off + l /\ ChunkSize <= Usable(conn) - l
                BY <1>1, <2>1
            <4>3. ChunkSize \in Nat /\ l \in Nat /\ l <= ChunkSize /\ Usable(conn) \in Nat
                BY <1>1
            <4> QED
                BY <4>1, <4>2, <4>3
        <3> QED
            BY <2>3, <3>1
    <2>5. LosesTheEnd'
        <3> SUFFICES ASSUME NEW i \in 1 .. Len(answer'), answer'[i].piece = "chunk",
                            answer'[i].len = ChunkSize,
                            NEW o \in 0 .. answer'[i].from, o % ChunkSize = 0
                     PROVE  Tried(o)'
            BY DEF LosesTheEnd, Tried
        <3>1. /\ i \in 1 .. Len(answer) /\ answer'[i] = answer[i]
              \/ answer'[i] = part
            BY <1>1, <1>9, SMTT(30)
        <3>2. CASE i \in 1 .. Len(answer) /\ answer'[i] = answer[i]
            <4>1. Tried(o)
                BY <3>2 DEF PageInv, Page, LosesTheEnd, Tried
            <4> QED
                BY <2>2, <4>1
        <3>3. CASE answer'[i] = part
            <4>1. ChunkSize <= Usable(conn) /\ o \in Nat /\ o < off + ChunkSize
                <5>1. l = ChunkSize /\ o \in 0 .. off
                    BY <1>1, <3>3
                <5>2. ChunkSize \in Nat \ {0} /\ l <= Usable(conn)
                    BY <1>1, <2>1
                <5> QED
                    BY <5>1, <5>2
            <4> QED
                BY <2>3, <4>1
        <3> QED
            BY <3>1, <3>2, <3>3
    <2>6. Going'
        <3> SUFFICES ASSUME HeaderLen + content_len <= offered, starved = {}
                     PROVE  /\ answer' = Whole(offset')
                            /\ Usable(conn') = offered - (HeaderLen + offset')
            BY <1>1, <1>9 DEF Going, Usable, Whole, Chunks, ChunkAt
        <3>1. answer = Whole(off) /\ Usable(conn) = offered - (HeaderLen + off)
            BY <1>1, <1>9, <2>1 DEF PageInv, Page, Going
        <3>2. answer' = Whole(off + l)
            BY <1>1, <1>2, <1>9, <3>1, WholeGrows
        <3>3. Usable(conn') = offered - (HeaderLen + (off + l))
            BY <1>1, <2>1, <3>1
        <3> QED
            BY <1>1, <3>2, <3>3
    <2> QED
        BY <1>3, <2>4, <2>5, <2>6 DEF Page
<1> QED
    <2>1. known \in BOOLEAN
        BY <1>1 DEF TypeOK
    <2> QED
        BY <1>1, <1>6, <1>7, <1>8, <1>9, <2>1, SendTakes

LEMMA FinishedPage ==
    ASSUME PageInv, finish_page
    PROVE  Page'
BY RestPage DEF finish_page

LEMMA InitPage == Init => PageInv
<1> SUFFICES ASSUME Init PROVE PageInv
    OBVIOUS
<1>1. TypeInv
    BY InitType DEF Init, TypeInv, HeldAt
<1>2. at = "idle" /\ answer = <<>>
    BY DEF Init
<1>3. LosesTheEnd
    BY <1>2 DEF LosesTheEnd
<1> QED
    BY <1>1, <1>2, <1>3 DEF PageInv, Page, Answered, NoGap, Going

LEMMA PageInvHolds == Spec => []PageInv
<1>1. ASSUME PageInv, [Next]_vars PROVE PageInv'
    <2>1. TypeInv'
        BY <1>1, NextType DEF PageInv
    <2> SUFFICES Page'
        BY <2>1 DEF PageInv
    <2>2. CASE handle_http_request
        BY <1>1, <2>2, BeforePage, HeaderPage, ChunkPage, FinishedPage DEF handle_http_request
    <2>3. CASE handle_tcp_ack \/ handle_tcp_fin \/ learn
        <3>1. learn => at' = "idle" /\ UNCHANGED <<answer, starved, content_len>>
            BY LearnIs
        <3> QED
            BY <1>1, <2>3, <3>1, TakenPage, RestPage
    <2>4. CASE BrowserStep \/ UNCHANGED vars
        <3>1. UNCHANGED <<conn, at, content_len, offset, known, offered, answer, starved>>
            BY <2>4 DEF BrowserStep, browser_receives, browser_reads, browser_acknowledges,
                        browser_requests, browser_closes, serverVars, vars
        <3> QED
            BY <1>1, <3>1, QuietPage
    <2> QED
        BY <1>1, <2>2, <2>3, <2>4 DEF Next, ProcStep, BrowserStep
<1> QED
    BY <1>1, InitPage, PTL DEF Spec

\* A page that fits, with its header, the window that was open when the request was
\* taken is sent from its first chunk to its last without a gap (http.c:218-230),
\* unless tcp_send_data found no memory for a part of it (tcp.c:381) or ip_send no
\* MAC of the browser (ip.c:56).
THEOREM FittingPageIsWhole == Spec => []PageIsWhole
<1>1. PageInv => PageIsWhole
    BY DEF PageInv, Page, Going, PageIsWhole
<1> QED
    BY <1>1, PageInvHolds, PTL

\* No full chunk of a page is sent behind one that was dropped for want of window
\* (tcp.c:371, http.c:229): what lacks in front of it are chunks for which
\* tcp_send_data found no memory (tcp.c:381).
THEOREM OnlyTheEndIsLost == Spec => []LosesTheEnd
<1>1. PageInv => LosesTheEnd
    BY DEF PageInv, Page
<1> QED
    BY <1>1, PageInvHolds, PTL
===============================================================================
