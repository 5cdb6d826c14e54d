------------------------------ MODULE HttpServer ------------------------------
(***************************************************************************)
(* The web server (net_app/http.c) on one accepted connection, with the    *)
(* browser at its other end.  The process thread runs the whole of         *)
(* handle_http_request between two segments it takes: no acknowledgement   *)
(* is handled during a response, so the window it finds at the request is  *)
(* all it has, and what tcp_send_data refuses is dropped for good.         *)
(*                                                                         *)
(* A response is a sequence of parts, each one call of tcp_send_data; of   *)
(* the bytes only the lengths count.  Of the connection only what          *)
(* tcp_send_data and tcp_close look at is kept; a malloc of tcp_send_data  *)
(* may fail, and ip_send may lack the browser's MAC: the handshake did     *)
(* without it, as a reply goes to where the segment came from.  The        *)
(* browser is an ordinary TCP with a receive buffer, whose window never    *)
(* takes back what it has offered and which delivers nothing behind a gap; *)
(* the network neither loses nor reorders, and the timer of                *)
(* check_retransmit, which module Tcp has, does not run out.  That         *)
(* tcp_close and handle_tcp_fin are atomic here loses nothing: no other    *)
(* thread writes an accepted connection.                                   *)
(***************************************************************************)
EXTENDS Naturals, Sequences

CONSTANTS
    SeqMod,         \* 2^32
    Iss,            \* the sequence number of the first byte of the server
    RcvBuf,         \* the browser's receive buffer, in bytes
    ChunkSize,      \* 1024
    HeaderLen,      \* the length of a response header, or of an error answer
    Body404Len,     \* the length of not_found_body
    PageSize,       \* the sizes of the files under HTTP_STATIC_ROOTS
    MaxRequests,    \* bound of the model: payloads the browser sends
    MaxInFlight     \* bound of the model: segments on their way to the server

SeqNum == 0 .. SeqMod - 1

\* What the three tests of app_layer_dispatch and handle_http_request tell apart:
\* not a "GET" in front, fewer than three words, another method that begins with
\* GET, a file that no root has, a file.
Request == {"other", "malformed", "not GET", "missing", "page"}
Nothing == "nothing"        \* an empty segment
Fin     == "FIN"

\* One call of tcp_send_data: which piece, from where in the page, how long.
Piece == {"error", "header", "404", "chunk"}
Part  == [piece : Piece, from : Nat, len : Nat]
State == {"ESTABLISHED", "FIN_WAIT_1", "FIN_WAIT_2", "CLOSE_WAIT", "LAST_ACK",
          "TIME_WAIT", "CLOSED"}
Place == {"idle", "parse", "404 body", "size", "malloc", "fread", "chunk"}

ASSUME SeqModAssumption == SeqMod \in Nat \ {0} /\ Iss \in SeqNum
ASSUME BufferAssumption == RcvBuf \in Nat /\ RcvBuf + 1 < SeqMod
ASSUME LengthAssumption == /\ ChunkSize \in Nat \ {0}
                           /\ HeaderLen \in Nat \ {0}
                           /\ Body404Len \in Nat \ {0}
                           /\ PageSize \subseteq Nat
ASSUME BoundAssumption  == MaxRequests \in Nat /\ MaxInFlight \in Nat

VARIABLES
    conn,       \* the server's node: state, snd_una, snd_nxt, snd_wnd
    at,         \* where the process thread is in handle_http_request
    asked,      \* the request it works on
    content_len, offset,    \* of the page
    held,       \* how often the file is open and file_buf allocated
    toServer,   \* segments under way: [ack, wnd, data]
    toClient,   \* segments under way, or dropped on the way: [data, len, dropped]
    known,      \* whether get_mac_by_ip finds the browser
    browser,    \* what it has received and read up to, and how many payloads it sent
    offered,    \* history: the usable window when the request was taken
    answer,     \* history: the parts sent for this request
    starved     \* history: the parts of it for which tcp_send_data found no memory

sending    == <<conn, toClient, answer, starved>>
serverVars == <<at, asked, content_len, offset, held, known, offered, answer, starved>>
vars == <<conn, toServer, toClient, browser, serverVars>>

-------------------------------------------------------------------------------
Add(a, b) == IF a + b < SeqMod THEN a + b ELSE (a + b) - SeqMod
Sub(a, b) == IF b <= a THEN a - b ELSE (a + SeqMod) - b

\* Mutant of Usable: what is under way is forgotten.
WholeWindow(c) == c.snd_wnd

\* usable_wnd of tcp_send_data.
Usable(c) == Sub(Add(c.snd_una, c.snd_wnd), c.snd_nxt)

\* Whether tcp_send_data lets len bytes through to its malloc.
Accepts(c, len) == c.state = "ESTABLISHED" /\ len > 0 /\ len <= Usable(c)

\* ip_send drops what it has no MAC for; the sequence numbers are used up all the same.
ip_send(data, len) ==
    toClient' = Append(toClient, [data |-> data, len |-> len, dropped |-> ~known])

tcp_send_data(part) ==
    IF Accepts(conn, part.len)
    THEN \/ /\ conn' = [conn EXCEPT !.snd_nxt = Add(@, part.len)]
            /\ ip_send(part.piece, part.len)
            /\ answer' = IF known THEN Append(answer, part) ELSE answer
            /\ UNCHANGED starved
         \/ /\ starved' = starved \cup {part}
            /\ UNCHANGED <<conn, toClient, answer>>
    ELSE UNCHANGED sending

\* tcp_close, when the page has been sent.
tcp_close ==
    IF conn.state \in {"ESTABLISHED", "CLOSE_WAIT"}
    THEN /\ conn' = [conn EXCEPT !.state = IF @ = "ESTABLISHED" THEN "FIN_WAIT_1" ELSE "LAST_ACK",
                                 !.snd_nxt = Add(@, 1)]
         /\ ip_send(Fin, 1)
    ELSE UNCHANGED <<conn, toClient>>

-------------------------------------------------------------------------------
\* The process thread takes the next segment.

AfterAck(state) == CASE state = "FIN_WAIT_1" -> "FIN_WAIT_2"
                     [] state = "LAST_ACK"   -> "CLOSED"
                     [] OTHER                -> state
AfterFin(state) == CASE state = "ESTABLISHED" -> "CLOSE_WAIT"
                     [] state = "FIN_WAIT_2"  -> "TIME_WAIT"
                     [] OTHER                 -> state

\* What app_layer_dispatch hands to handle_http_request.
Gets == Request \ {"other"}

\* Mutant of handle_tcp_ack: acknowledgements are handled in the middle of a page.
AcknowledgeInside ==
    /\ at \in {"idle", "chunk"}
    /\ toServer # <<>>
    /\ Head(toServer).data # Fin
    /\ LET seg == Head(toServer)
           c == [conn EXCEPT !.snd_una = seg.ack, !.snd_wnd = seg.wnd, !.state = AfterAck(@)]
       IN  /\ conn' = c
           /\ IF seg.data \in Gets /\ at = "idle"
              THEN /\ at' = "parse"
                   /\ asked' = seg.data
                   /\ offered' = Usable(c)
                   /\ answer' = <<>>
                   /\ starved' = {}
              ELSE UNCHANGED <<at, asked, offered, answer, starved>>
    /\ toServer' = Tail(toServer)
    /\ UNCHANGED <<content_len, offset, held, known, toClient, browser>>

\* The acknowledgement, and then the payload.
handle_tcp_ack ==
    /\ at = "idle"
    /\ toServer # <<>>
    /\ Head(toServer).data # Fin
    /\ LET seg == Head(toServer)
           c == IF conn.state = "CLOSED" THEN conn
                ELSE [conn EXCEPT !.snd_una = seg.ack, !.snd_wnd = seg.wnd,
                                  !.state = AfterAck(@)]
       IN  /\ conn' = c
           /\ IF seg.data \in Gets /\ c.state # "CLOSED"
              THEN /\ at' = "parse"
                   /\ asked' = seg.data
                   /\ offered' = Usable(c)
                   /\ answer' = <<>>
                   /\ starved' = {}
              ELSE UNCHANGED <<at, asked, offered, answer, starved>>
    /\ toServer' = Tail(toServer)
    /\ UNCHANGED <<content_len, offset, held, known, toClient, browser>>

handle_tcp_fin ==
    /\ at = "idle"
    /\ toServer # <<>>
    /\ Head(toServer).data = Fin
    /\ conn' = [conn EXCEPT !.state = AfterFin(@)]
    /\ toServer' = Tail(toServer)
    /\ UNCHANGED <<toClient, browser, serverVars>>

-------------------------------------------------------------------------------
\* handle_http_request, one call after the other.

Error == [piece |-> "error", from |-> 0, len |-> HeaderLen]

\* A part is sent and the thread goes on.
Say(part, place) == tcp_send_data(part) /\ at' = place

\* How often the file is open and the buffer allocated, after each of these.
fopen  == held' = [held EXCEPT !.file = @ + 1]
fclose == held' = [held EXCEPT !.file = @ - 1]
malloc == held' = [held EXCEPT !.buffer = @ + 1]
free   == held' = [held EXCEPT !.buffer = @ - 1]

\* 400 and 405.
refuse_request ==
    /\ at = "parse"
    /\ asked \in {"malformed", "not GET"}
    /\ Say(Error, "idle")
    /\ UNCHANGED <<asked, content_len, offset, held, known, offered, toServer, browser>>

\* No root has the file: the header of the 404, and then its body.
not_found ==
    /\ at = "parse"
    /\ asked = "missing"
    /\ Say([piece |-> "header", from |-> 0, len |-> HeaderLen], "404 body")
    /\ UNCHANGED <<asked, content_len, offset, held, known, offered, toServer, browser>>

not_found_body ==
    /\ at = "404 body"
    /\ Say([piece |-> "404", from |-> 0, len |-> Body404Len], "idle")
    /\ UNCHANGED <<asked, content_len, offset, held, known, offered, toServer, browser>>

\* One of the roots has it.
http_try_open_file ==
    /\ at = "parse"
    /\ asked = "page"
    /\ fopen
    /\ at' = "size"
    /\ UNCHANGED <<sending, asked, content_len, offset, known, offered, toServer, browser>>

\* fseek and ftell: they fail, or they tell the size.
measure ==
    /\ at = "size"
    /\ \/ /\ fclose
          /\ Say(Error, "idle")
          /\ UNCHANGED content_len
       \/ /\ content_len' \in PageSize
          /\ at' = "malloc"
          /\ UNCHANGED <<held, sending>>
    /\ UNCHANGED <<asked, offset, known, offered, toServer, browser>>

\* Mutant of allocate: the file stays open when there is no memory.
AllocateOrForget ==
    /\ at = "malloc"
    /\ \/ /\ UNCHANGED held
          /\ Say(Error, "idle")
       \/ /\ malloc
          /\ at' = "fread"
          /\ UNCHANGED sending
    /\ UNCHANGED <<asked, content_len, offset, known, offered, toServer, browser>>

allocate ==
    /\ at = "malloc"
    /\ \/ /\ fclose
          /\ Say(Error, "idle")
       \/ /\ malloc
          /\ at' = "fread"
          /\ UNCHANGED sending
    /\ UNCHANGED <<asked, content_len, offset, known, offered, toServer, browser>>

\* fread and fclose; when all of the file came, the header of the 200.
read_file ==
    /\ at = "fread"
    /\ \/ /\ held' = [file |-> held.file - 1, buffer |-> held.buffer - 1]
          /\ Say(Error, "idle")
          /\ UNCHANGED offset
       \/ /\ fclose
          /\ Say([piece |-> "header", from |-> 0, len |-> HeaderLen], "chunk")
          /\ offset' = 0
    /\ UNCHANGED <<asked, content_len, known, offered, toServer, browser>>

\* Mutant of ChunkAt: a whole chunk also at the end of the page.
WholeChunkAt(o) == [piece |-> "chunk", from |-> o, len |-> ChunkSize]

\* to_send bytes from offset on.
ChunkAt(o) ==
    [piece |-> "chunk", from |-> o,
     len |-> IF content_len - o > ChunkSize THEN ChunkSize ELSE content_len - o]

\* The loop: the offset moves on whether the chunk was sent or not.
send_chunk ==
    /\ at = "chunk"
    /\ offset < content_len
    /\ Say(ChunkAt(offset), "chunk")
    /\ offset' = offset + ChunkAt(offset).len
    /\ UNCHANGED <<asked, content_len, held, known, offered, toServer, browser>>

\* The page is through: the buffer is freed and the connection closed.
finish_page ==
    /\ at = "chunk"
    /\ offset >= content_len
    /\ free
    /\ tcp_close
    /\ at' = "idle"
    /\ UNCHANGED <<asked, content_len, offset, known, offered, answer, starved, toServer, browser>>

handle_http_request ==
    \/ refuse_request \/ not_found \/ not_found_body \/ http_try_open_file
    \/ measure \/ allocate \/ read_file \/ send_chunk \/ finish_page

-------------------------------------------------------------------------------
\* The browser: browser.next is the next byte it expects, browser.room what is
\* free in its receive buffer, browser.sent how many payloads it has sent.

Post(data) ==
    toServer' = Append(toServer, [ack |-> browser.next, wnd |-> browser.room, data |-> data])

\* What does not fit into the buffer is dropped; a FIN takes a number and no room.
\* Behind a segment that ip_send dropped the browser takes nothing more.
browser_receives ==
    /\ toClient # <<>>
    /\ ~Head(toClient).dropped
    /\ LET seg == Head(toClient)
           takes == IF seg.data = Fin THEN 0 ELSE seg.len
       IN  browser' = IF takes <= browser.room
                      THEN [browser EXCEPT !.next = Add(@, seg.len), !.room = @ - takes]
                      ELSE browser
    /\ toClient' = Tail(toClient)
    /\ UNCHANGED <<conn, toServer, serverVars>>

browser_reads ==
    /\ browser.room < RcvBuf
    /\ browser' = [browser EXCEPT !.room = RcvBuf]
    /\ UNCHANGED <<conn, toServer, toClient, serverVars>>

browser_acknowledges ==
    /\ ~browser.closed
    /\ Len(toServer) < MaxInFlight
    /\ Post(Nothing)
    /\ UNCHANGED <<conn, toClient, browser, serverVars>>

browser_requests ==
    /\ ~browser.closed
    /\ browser.sent < MaxRequests
    /\ Len(toServer) < MaxInFlight
    /\ \E data \in Request : Post(data)
    /\ browser' = [browser EXCEPT !.sent = @ + 1]
    /\ UNCHANGED <<conn, toClient, serverVars>>

browser_closes ==
    /\ ~browser.closed
    /\ Len(toServer) < MaxInFlight
    /\ Post(Fin)
    /\ browser' = [browser EXCEPT !.closed = TRUE]
    /\ UNCHANGED <<conn, toClient, serverVars>>

-------------------------------------------------------------------------------
Init == /\ conn = [state |-> "ESTABLISHED", snd_una |-> Iss, snd_nxt |-> Iss, snd_wnd |-> RcvBuf]
        /\ at = "idle"
        /\ asked = "other"
        /\ content_len = 0 /\ offset = 0
        /\ held = [file |-> 0, buffer |-> 0]
        /\ toServer = <<>> /\ toClient = <<>>
        /\ browser = [next |-> Iss, room |-> RcvBuf, closed |-> FALSE, sent |-> 0]
        /\ known \in BOOLEAN
        /\ offered = 0
        /\ answer = <<>>
        /\ starved = {}

\* The process thread takes an ARP message of the browser, between two segments.
learn ==
    /\ at = "idle"
    /\ ~known
    /\ known' = TRUE
    /\ UNCHANGED <<sending, at, asked, content_len, offset, held, offered, toServer, browser>>

ProcStep == handle_tcp_ack \/ handle_tcp_fin \/ handle_http_request \/ learn

Next == \/ ProcStep
        \/ browser_receives \/ browser_reads \/ browser_acknowledges
        \/ browser_requests \/ browser_closes

Spec == Init /\ [][Next]_vars

-------------------------------------------------------------------------------
Browser == [next : SeqNum, room : 0 .. RcvBuf, closed : BOOLEAN, sent : 0 .. MaxRequests]

TypeOK ==
    /\ conn \in [state : State, snd_una : SeqNum, snd_nxt : SeqNum, snd_wnd : 0 .. RcvBuf]
    /\ at \in Place
    /\ asked \in Request
    /\ content_len \in Nat /\ offset \in Nat
    /\ held \in [file : Nat, buffer : Nat]
    /\ toServer \in Seq([ack : SeqNum, wnd : 0 .. RcvBuf, data : Request \cup {Nothing, Fin}])
    /\ toClient \in Seq([data : Piece, len : Nat, dropped : BOOLEAN]
                             \cup [data : {Fin}, len : {1}, dropped : BOOLEAN])
    /\ browser \in Browser
    /\ known \in BOOLEAN
    /\ offered \in SeqNum
    /\ answer \in Seq(Part)
    /\ starved \subseteq Part

\* What is under way to the browser, a FIN apart, fits into what is free in its
\* buffer.  tcp_send_data subtracts unsigned numbers (tcp.c:367): if snd_nxt were
\* once beyond snd_una + snd_wnd, the window would look enormous and everything
\* would be sent; it never is, as every part is measured against what the parts
\* before it have left, and the browser's window only grows at its right edge.
FinUnderWay == \E i \in 1 .. Len(toClient) : toClient[i].data = Fin
FitsBuffer ==
    Sub(conn.snd_nxt, browser.next) <= browser.room + (IF FinUnderWay THEN 1 ELSE 0)

\* A page that fits, with its header, into the window that was open when the
\* request was taken is sent whole: the parts are the header and then chunk after
\* chunk without a gap.  Nothing else can be sent in between and eat the window.
\* The exceptions are the two things below the window: that tcp_send_data finds no
\* memory for a part (tcp.c:381), and that the browser's MAC is not known (ip.c:56).
Chunks(o) == (o + ChunkSize - 1) \div ChunkSize
Whole(o) ==
    [i \in 1 .. Chunks(o) + 1 |->
        IF i = 1 THEN [piece |-> "header", from |-> 0, len |-> HeaderLen]
                 ELSE ChunkAt((i - 2) * ChunkSize)]
PageIsWhole ==
    /\ at = "chunk" /\ conn.state = "ESTABLISHED"
    /\ HeaderLen + content_len <= offered
    /\ known /\ starved = {}
    => answer = Whole(offset)

\* The window takes from a page its end, never its middle: in front of every full
\* chunk that was sent, all others were sent, those apart for which there was no
\* memory.  Only the last chunk, a short one, can still slip in behind a gap that
\* the window has made (tcp.c:371 drops, http.c:229 goes on).
Sent(o) == \E i \in 1 .. Len(answer) : answer[i].piece = "chunk" /\ answer[i].from = o
LosesTheEnd ==
    \A i \in 1 .. Len(answer) : answer[i].piece = "chunk" /\ answer[i].len = ChunkSize =>
        \A o \in 0 .. answer[i].from : o % ChunkSize = 0 => Sent(o) \/ ChunkAt(o) \in starved

\* Whichever of fopen, fseek, ftell, malloc and fread fails, when the handler has
\* returned the file is closed once and the buffer freed once.
NothingHeld == at = "idle" => held = [file |-> 0, buffer |-> 0]
===============================================================================
