# Verification of UcanTCPmini

UcanTCPmini is a user-space TCP/IP stack in C on top of npcap: Ethernet, ARP,
IPv4, ICMP, UDP and TCP, a small web server and a shell.  Four threads share its
tables and two packet rings without a single lock.  This directory holds TLA+
modules of it, the TLC configurations that check them on small instances, and
theorems about them with proofs for tlapm.  Paths are relative to the
repository's root; `tcp.c` is `src/net_app/tcp.c` and so on.

Contents: [the system](#1-the-system) ·
[modules](#2-the-modules-and-the-code-they-model) ·
[runs](#3-what-is-model-checked) · [departures](#4-where-the-code-departs-from-its-comments) ·
[proofs](#5-what-is-proved) · [not modelled](#6-what-is-abstracted-or-not-modelled) ·
[plan](#7-plan)

---------------------------------------------------------------------------

## 1. The system

### Threads

`main` (`src/app.c:168`) reads the configuration, opens the capture device and starts
four threads that loop for ever:

| thread | loop | what it touches |
|---|---|---|
| receive, `net_run_thread` | `net_recv` (`tiny_net.c`) | stores each captured frame in `packet_queue_receive` |
| process, `net_process_thread` | scans the receive ring, `packet_process` | ARP table, TCBs, send ring, `icmp_timestamp`; runs the web server |
| send, `net_send_thread` | scans the send ring, then `check_retransmit` | TCBs, ARP table, both ends of the send ring |
| command, `net_cmd_thread` | reads a command | `socket` runs `tcp_conversation`, `ping` runs `send_ping`, `udp` runs `udp_conversation`: TCBs, ARP table, send ring, `icmp_timestamp` |

A received frame travels `net_recv` → receive ring → `packet_process` → `arp_process`
or `ip_process` → `tcp_process` / `icmp_process` / `udp_process`.  A reply is the
return value of that chain and is stored in the send ring by `packet_process`;
everything else goes down through `ip_send`, which asks the ARP table for the MAC and
either calls `net_data_send` or drops the packet and broadcasts a request.

### Components

| component | state | operations | what makes it correct | status |
|---|---|---|---|---|
| ARP cache (`arp.c`, `arp.h`) | `arp_cache[10]`, a head node and a chain per bucket | `arp_process`, `arp_reply`, `arp_process_reply`, `arp_insert`, `get_mac_by_ip`, `arp_request` | a lookup gives the last MAC learned; a frame goes to its host, whatever is inserted during the walk | modelled, proved, atomic and interleaved |
| Packet rings (`tiny_net.c`, `app.c`) | two arrays of 100 pointers, an index each | `net_recv`, `net_data_send`, the two scans | each packet handled once and freed once; the oldest is dropped on overrun; what is stored is handled in the end | modelled, proved |
| TCP endpoint (`tcp.c`, `tcp_conversation.c`) | per node: state, `snd_una`, `snd_nxt`, `snd_wnd`, `rcv_nxt`, one retransmission buffer | the four handlers, `tcp_connect`, `tcp_send_data`, `tcp_close`, `check_retransmit` | states mean what they say about the two FINs, whatever peers send and threads interleave | modelled, proved |
| Connection table and buffers (`tcp.c`) | `tcb_table`, chains, `retrans_buf` | `insert_tcb`, `get_tcb`, release, `malloc`/`memcpy`/`free` of buffers, the sweep | chains stay sound; a lookup finds the node; no misuse of the heap | modelled, proved |
| Two endpoints and a network | both of the above's state, segments under way | the above, loss, RTO | the ends agree when quiet; streams in order; released only when received, the wrap apart; handshake, data and FIN acknowledged; losses repaired | modelled, proved without loss |
| IP (`ip.c`) | none | `ip_process`, `ip_send`, `add_ip_header`, `pseudo_header_checksum` | answers go to the asker, from the address asked for, with checksums that verify | modelled, proved |
| HTTP (`http.c`) | an open file, a buffer | `handle_http_request`, `app_layer_dispatch` | a page that fits the window is sent whole, one that does not loses its end only; what is sent fits the browser's buffer; nothing stays open | modelled, proved |
| ICMP, ping (`icmp.c`, `ping.c`) | `icmp_timestamp[65536]`, `icmp_seq` | `icmp_process`, `icmp_send`, `send_ping` | a reply counts for its own request, once; one verdict except in a known window | modelled, proved |
| UDP (`udp.c`, `udp_conversation.c`) | none | `udp_send_data`, `udp_process` | lengths and text arrive | modelled, proved |
| Checksums (`util.h`) | none | `calculate_checksum` | one's complement sum at any length | modelled, proved; address conversions left out |
| Configuration (`config.h`, `load_config`) | `static` variables of a header, one copy per file | `load_config` | an address is the file's or the compiled one as far as the file went; every layer uses the same address | modelled; the second is not true, see 4 |
| Start, capture device (`app.c`, `lib/xnet/pcap_device.c`) | the handle | `load_pcap_lib`, `pcap_find_device`, `pcap_device_open`, read, send | the configured card is the one that is opened | proved; modelled but for `pcap_device_close`, which nobody calls |
| cJSON (`cJSON.c`) | items and strings on the heap | parse, print, minify, compare, every call that builds or changes a tree | lists sound, everything owned once whatever malloc does, print and parse fit each other | modelled but for fractions, hooks and `cJSON_GetErrorPtr`; strings proved |
| Web server start, shell, thread helpers | listen port | calls of the above | — | starting points of the other modules |
| telnet, npcap | — | — | — | empty files; third-party headers and examples |

### What is hard here

* **Threads without locks.**  Ring slots, ring indices, TCB fields, retransmission
  buffers, the chains and `icmp_timestamp` are plain globals.  The code cannot be read
  function by function: `tcp_close` tests a state and writes it later, `tcp_send_data`
  advances `snd_nxt` after the segment is already in the ring, `get_mac_by_ip` tests a
  pointer and reads it again.
* **A TCP that trusts its peer's order.**  Neither sequence nor acknowledgement numbers
  are compared with what is expected, so correctness rests on the network and on the
  other end behaving like this stack.
* **One retransmission buffer** per connection, repaired only while ESTABLISHED, sent at
  `snd_una` and not at `retrans_seq`.
* **A response without a way back**: `handle_http_request` makes all its calls between
  two segments, so no acknowledgement can open the window on the way.
* **Calls that fail half way**: malloc in the middle of a tree or of a page, a card that
  is not there, a configuration that stops being one.
* **Limits**: a full ring, a full window, the wrap of 32-bit sequence numbers, a text
  that just fits its buffer.

`PROJECT.json` lists each such hazard at the line where it bites, with the properties
that would catch it.  Where no property covers one, or only a part of it, a note says so
and why: mostly because nothing in the code prevents it.

---------------------------------------------------------------------------

## 2. The modules and the code they model

`PROJECT.json` maps every definition to the lines it stands for.  Names are the code's
where there is one.

```
PacketPool <- PacketQueue        ArpMap <- ArpCache        ArpShared <- Ping
Tcp <- TcpPair (two instances)   TcbTable                  HttpServer
Packets, Capture <- Host         JsonText <- JsonItems <- JsonParse, JsonWriter <- Json
```

### ArpFrames, ArpMap, ArpCache (`arp.c`, `ip_send`)

`ArpCache` keeps a bucket as the sequence of its valid nodes, head first.
`InsertInto` is `arp_insert`'s three cases: fill an invalid head, update a head with the
same address, otherwise link *right behind the head without looking at the chain*, so
stale duplicates accumulate.  `get_mac_by_ip` is the head-first walk.  Actions:
`arp_reply`, `arp_process_reply`, `arp_ignore` (traffic for another host), `ip_send`.
`ArpMap` is the abstract specification: a last-writer-wins map that decides which frame
leaves.  `ImplementsMap` is the refinement, `resolved` being mapped to
`[ip \in Ip |-> get_mac_by_ip(ip)]`.  `heard`, the last binding taught, is a history
variable of both: without it the map would accept a cache that forgets to learn by
taking some other step.

### ArpShared, Ping (`arp.c`, `icmp.c`, `ping.c`)

`ArpShared` is one bucket at the grain of its memory accesses: the process thread in
`arp_insert` writes address, first and second half of the MAC, `valid`, and links; a
reader in `ip_send` walks the chain, *reading `cur->next` a second time* after the test
that matched, and copies the MAC half by half.  The number of a half counts the MACs its
host has had.  `Ping` puts the ping command on top: `icmp_send` → `ip_send` → `stamp` →
sleep → `wake` and `give_up` in the command thread, `icmp_process` and `release_seq` in
the process thread, with `icmp_timestamp` between them.  The network delivers a reply
any number of times and late.

### PacketPool, PacketQueue (`net_recv`, `net_data_send`, the scans of `app.c`)

`PacketQueue` is one ring at the grain of its memory accesses.  A producer runs
`Allocate` (allocation and local index) → `Advance` (index stored) → `Examine` (slot
NULL?) → `Drop` (free the old packet, pointer left in place) → `Store`.  The consumer
runs `Test` → `ProcessBegin`/`ProcessEnd` (`packet_process` or `send_packet`, during
which it holds the pointer) → `FreeSlot` (slot re-read) → `ClearSlot`, then `Rescan`
after the last slot.  `Cursor` lets a producer re-read the global index after its own
store or keep the value it computed, since C allows either.  Packets are numbers, `live`
is what is allocated; touching or freeing a freed packet records a fault and the model
stops, because the behaviour is undefined from there.  The receive ring is
`Producer = {receiver}`, `Self` the process thread; the send ring has three producers,
one of which is its own consumer (`check_retransmit` between two scans).

`Arrival` states what is assumed of the timing, which the code enforces nowhere:
`"any"` (nothing), `"slow"` (the next slot is free when a packet arrives), `"apart"`
(no two threads at the same slot at once, as if a lock were held).

`PacketPool` is what a ring promises while it is not overrun: each packet put is taken
at most once, nothing else is.  It is deliberately not a queue: the scan starts at slot
0 whatever the index, so packets can be handled out of order.

### Tcp (`tcp.c`, `tcp_conversation.c`, calls of `http.c`)

One host, any set of connections.  `tcb[k]` is the node of a 4-tuple.  Two threads have
a place of their own (`thread["proc"]`, `thread["cmd"]`); the send thread's
`check_retransmit` is one step.

| action | code |
|---|---|
| `ignore` | `tcp_process` on RST or no flag; SYN to another port; `get_tcb` = NULL |
| `handle_tcp_syn` | `handle_tcp_syn`, `insert_tcb` (new node, or the old one in whatever state) |
| `handle_sencond_shake`, `finish_shake` | `handle_sencond_shake`: ESTABLISHED is stored before `rcv_nxt` |
| `handle_tcp_ack` | `handle_tcp_ack` up to the application: window, `snd_una`, buffer, state, `rcv_nxt` |
| `app_layer_dispatch`, `acknowledge_data` | the application's calls one by one, then the empty ACK |
| `handle_tcp_fin`, `finish_fin` | `handle_tcp_fin`: `rcv_nxt` stored and the state tested; state stored and ACK built |
| `reply` | the returned packet is stored by `packet_process` |
| `tcp_connect`, `connect_init` | node visible with zeroed fields, then filled, SYN built |
| `tcp_send_data`, `tcp_close` then `enter_close`, `emit`, `advance` | state tested; buffer replaced, or lost as there is no memory; state written and header built; segment handed to `ip_send`; `snd_nxt` advanced |
| `ip_send`, `learn` | what goes down is dropped while the peer's MAC is not known; `arp_process` makes it known |
| `type`, `exit` | a line or `exit` in `tcp_conversation` |
| `check_retransmit` | one node of `check_retransmit` after its RTO |
| `peer_sends`, `peer_takes` | a peer that may send any segment of `PeerSegment` at any time |

An application is a set of `Response` scripts: the sequence of `tcp_send_data` and
`tcp_close` calls a payload causes.  A call that is refused (state, window) changes
nothing and the next one is made all the same, as in `handle_http_request`.  One that
passes both tests but finds no memory for its copy has freed the payload kept until then
(`tcp.c:379`): neither is kept, nothing is sent.  `known[k]` is what `get_mac_by_ip` would
say of the peer.  A SYN, a payload, a FIN and a retransmission go through `ip_send` and
are dropped without it, their numbers used up all the same; a reply (SYN+ACK, ACK) does
not ask, it is returned to `packet_process`, which answers to the MAC the segment came
from.  `fin[k]` is the only history: which FINs were handed to `ip_send` and received.

### TcpPair

Two instances of `Tcp`, one that opens (user: `tcp_conversation`) and one that listens,
joined by a FIFO channel in each direction; `Lose` drops the oldest segment of a
channel, `Timer` lets an RTO pass.  The peer of the endpoint module is not used.  Each host
may know the other's MAC at the start or not, and `Learn` is how ARP spreads it: the server
takes the client in when it is asked (`arp_reply`), the client the server from the answer
(`arp_process_reply`).  So a client that knows the server is known to it, at the start as
well.  `bare` is history: the server closed while it had nothing unacknowledged.

### TcbTable (`tcp.c`)

The memory that `Tcp` abstracts to a function: the chains of `tcb_table` and the
retransmission buffers, read and written by three threads.  `look_for` reads the head,
`get_tcb` is one node of the walk, `link` reads the head *again* and `publish` stores it;
`release` marks a node that stays in its chain with its buffer.  `tcp_send_data` →
`free_old` → `allocate` → `memcpy` → `set_len`, `acknowledge` → `free_acked` →
`clear_buf` → `clear_len`, and the send thread's `next_bucket`, `next_node`,
`retransmit` → `read_len` → `copy`.  `locked` is chosen at the start: with it the uses of
a buffer do not overlap, without it they do as in the code, and each property says which
it speaks of.  A misuse of the heap is recorded and ends the behaviour.

### HttpServer (`http.c`)

One accepted connection of which only what `tcp_send_data` and `tcp_close` look at is
kept, the handler with one action per call that can fail (`refuse_request`, `not_found`,
`not_found_body`, `http_try_open_file`, `measure`, `allocate`, `read_file`, `send_chunk`,
`finish_page`), and a browser that is an ordinary TCP with a receive buffer.  A part of a
response is its kind, its place in the page and its length.  `tcp_send_data` may find no
memory, and `ip_send` may lack the browser's MAC (`known`, `learn`): its segment is then
`dropped`, and as the browser takes nothing behind a gap it ends the connection for good.
`offered`, `answer` and `starved` are history: the window at the request, the parts that
were sent, and those for which there was no memory.

### Packets, Capture, Host

`Packets` has the pure functions: the checksum, the IP, UDP and ICMP headers, the pseudo
header checksum *that always writes at TCP's offset*, and what each layer takes a payload
to be.  `Capture` has those of `pcap_device.c`: `read_num`, the version test of
`load_pcap_lib`, the search for a card.  `Host` is the machine: `load_config` (what it can
leave in `tiny_net.c`'s copies), `pcap_device_open`, `thread_create`, then `net_recv` with
the capture filter, `arp_process`, `icmp_process`, `tcp_process`, `udp_process`,
`send_packet`, a user that sends datagrams, and a peer.  Each file's copy of an address is
what that file uses: `tiny_net.mac` in the filter and in the frames that answer, the
constant `DefaultMac` in `arp.c` and `ip.c`.  `Break` stands for undefined behaviour (a
poll of a NULL device, a value that was never returned, a write behind a short datagram).

### JsonText, JsonItems, JsonParse, JsonWriter, Json (`cJSON.c`, `load_config`)

`JsonText` has the texts: escapes, UTF-16, numbers, `cJSON_Minify`.  A character is a
symbol that knows its width, the four hex digits behind `\u` are one symbol.  `JsonItems`
has the heap and everything that builds, changes or compares trees; a heap is a value and
a function of the code is an operator from heap to heap.  `left` says how many more calls
of malloc succeed; a double free, a use after free or a write behind a buffer sets
`fault`.  `JsonParse` is the recursive descent with the position and the depth,
`JsonWriter` the print buffer with `ensure`.  `Json` is a program that makes any legal
sequence of calls, one action per kind of call, and `load_config` with its four `sscanf`s.
Long functions are cut into operators that pass each other the heap, since TLC expands a
local definition at each of its uses.

---------------------------------------------------------------------------

## 3. What is model-checked

Sizes are distinct states found by TLC.

| run | states | properties | what it shows |
|---|---|---|---|
| `MCArpCache` | 6 772 | `ImplementsMap` | buckets with stale duplicates are a last-writer-wins map |
| `MCPacketQueue` | 25 620 | `TypeOK`, `MemorySafe`, `NoLeak`, `ImplementsPool`, `EventuallyHandled` | the receive ring under `"slow"`: no memory error, no leak, every packet once and in the end |
| `MCPacketQueueApart` | 179 635 | `LosesOldestFirst` | the send ring with three producers overrunning, under `"apart"`: only the oldest waiting packet is lost |
| `MCTcp` | 1 928 024 | `TypeOK`, `PeerHasClosed`, `WeHaveClosed` | a connection the host opens or accepts, against any peer, its MAC known or not, memory there or not: CLOSE_WAIT, LAST_ACK, TIME_WAIT or release only after a FIN of the peer; closing states only with the own FIN sent or in hand |
| `MCTcpPair` | 455 865 | `Settled`, `ClosesInTurn`, `InOrder`, `ReleasedWhenReceived`, `HandshakeCompletes`, `Acknowledged` | two hosts, no loss, no RTO, numbers that wrap: when quiet each end expects exactly what the other sends next, and an end that is released leaves the other in TIME_WAIT, unless the server closed with nothing unacknowledged; streams in order; a payload given up by an acknowledgement before it was received only across the wrap; a SYN that is on the network, data and FIN are answered in the end |
| `MCTcpPairLossy` | 403 516 | `RepairsLoss` | one segment lost anywhere, RTO at any time: while an end stays ESTABLISHED its kept payload is acknowledged in the end |
| `MCTcbTable` | 691 198 | `ChainsSound`, `LookupRight`, `MemorySafe`, `AcceptedWritesSafe`, `PayloadOwned` | chains without cycle and a valid node per 4-tuple however insertions and walks interleave; with the uses of a buffer kept apart no misuse and no leak; without, an accepted connection's buffer is at worst read late |
| `MCHttpServer` | 2 389 441 | `FitsBuffer`, `PageIsWhole`, `LosesTheEnd`, `NothingHeld` | what is sent fits the browser's buffer, so `usable_wnd` never wraps; a page that fits comes whole, given memory and the browser's MAC; another loses its end, and of its middle nothing but chunks for which there was no memory; no failure keeps the file open or the buffer allocated |
| `MCPing` | 1 796 140 | `FrameToOwner`, `KnownIsFound`, `OwnReply`, `BothOnlyInTheWindow` | a frame goes to the host it is for, but for the one race of `arp.c:59`/`61`; a known address is found while nodes are linked; a late or duplicate reply never counts for another ping; reply *and* timeout only when the two threads meet |
| `MCHost` | 130 536 | `AnswerRight`, `DeafUnlessDefault`, `OpensConfiguredCard`, `DatagramKept`, `AnsweredInTheEnd` | every answer correct to its checksums; the configured card and no other; a host with another MAC in `config.json` hears nothing but ARP requests; datagrams whole but for one word; pings and ARP requests answered in the end |
| `MCJson` | 165 680 | `ListsSound`, `OwnedOnce`, `RoundTrip`, `ParsedIsPrinted`, `ConfigKept` | any legal calls, with malloc failing anywhere in a parse, a duplicate or a change, keep lists and ownership; printed texts are parsed to the same tree and fit every buffer that is long enough; `load_config` leaves the compiled addresses or a prefix of the file's |

One further run ends in a violation, on purpose: section 4.

### Bounds, and why they are enough

* **ArpCache**: 2 buckets, 3 addresses of which 2 collide, 2 MACs, chains of at most 4
  nodes: a head, a colliding address behind it, and duplicates of that address both
  fresh and stale.  No case of `arp_insert` or of the walk needs a longer chain, and
  the proofs lift the bounds.
* **PacketQueue**: 3 or 4 slots instead of 100, and twice as many packets
  (`MaxPackets`), so the index wraps, slots are reused, and the scan can be ahead of,
  behind or at the producer.
* **Tcp**: one connection at a time (nodes do not interact; `Alone`), `SeqMod` 4 with the
  initial number 3, so numbers wrap at once, payloads of length 1 and a window of 2,
  which one payload half fills; the peer's MAC is known at the start, or learned, or not.  The peer sends every class of segment, in and out of
  sequence.  `MaxInFlight` 1: the stack handles one segment at a time and the peer
  chooses each anew.  `EagerSpec` lets the peer take what is in `outq` before anything
  else happens.  That loses no behaviour of the stack: nothing in it reads `outq`
  except the bound, and what the peer sends does not depend on it.
* **TcpPair**: one connection, two lines of the user, a server that ignores a line or
  sends a page of two segments, fewer when memory fails, and closes.  `SeqMod`
  16 with `Wnd` 8 and payloads of at most 2 keeps all numbers of a run apart; they start
  at 11, so that the first line and most of the first page lie below the wrap and the
  second line ends at it.  `MaxInFlight` 6 bounds `Type` and `Timer` only; no run without
  RTOs is cut by it.  The lossy run is smaller (`SeqMod` 3, an answer of one segment, one
  line, one loss, one segment in flight before a retransmission) as it is a liveness
  check over a state space with arbitrary timeouts.
* **TcbTable**: an accepted and an opened connection in one of two buckets, the other one
  empty; 3 nodes, so a released node, its successor and a node of the other thread are in
  one chain; 2 buffers of 2 lengths, so a payload can replace another and be shorter;
  3 allocations together.
* **HttpServer**: chunks of 2 bytes, a buffer of 6, pages of 0, 1, 2, 5 and 6: less than
  a chunk, one, a page that just fits with its header, and one that does not.  Two
  requests, two segments under way, `SeqMod` 16 from 13 on: every response wraps.
* **Ping**: three addresses in one bucket, two nodes behind the head, one change of a
  MAC; `SeqMod` 2 with 3 pings in a row, so a number is used again while a reply to its
  first use is still possible.
* **Host**: words of 6 bits, so that sums carry; bodies that are empty and that carry; lines
  on both sides of the length at which a datagram reaches to where TCP has its checksum;
  padding of 4 words; at most one thread missing; at most 2 cards with at most 2 and 1
  addresses; versions with no, one and more numbers, old and new.
* **Json**: every text of up to three of 13 characters, and six longer ones (byte order
  mark, nesting beyond the limit, escapes, surrogates, an object) with each character
  replaced, removed or everything behind it cut off; 5 items and 9 strings, four calls
  on each tree after its parse, malloc failing at the first, second, third or fourth
  call, or never.  Five items are a container with more than two children, one of them a
  container, so that first, middle and last place of a list differ.  `CJSON_NESTING_LIMIT`
  is 2, `CJSON_CIRCULAR_LIMIT` 1 and the first buffer 8 bytes, so that each is met.  Configuration files are one
  correct file, changed at one place in the same way, with every number of mallocs.

### Fairness and deadlock

* `PacketQueue!Fairness`: the consumer's loop never blocks, and a producer that has
  allocated a packet runs on to its store: the threads are `while (1)` loops without
  waits other than `Sleep(1)`.  Nothing is assumed about arrivals.
* `TcpPair!Fairness`: weak fairness of each host's process thread, of the command
  thread *inside* a call, and of the timer where RTOs elapse.  The user need never
  type, open or leave; the network is not required to lose or to deliver within any
  time, since a channel's head is taken by the process thread itself, and a host is not
  required to learn the other's MAC (`Learn` has no fairness).
* `Host!FairSpec`: weak fairness of the start, the receive and the send thread; strong
  fairness of the process thread.  The model has one slot where the code has a ring, and
  `net_data_send` never waits in the code: without strong fairness the user's datagrams
  could fill the one slot for ever.
* `CHECK_DEADLOCK FALSE` is set where the system really stops: `TcpPair` after the user
  has left and both ends are quiet, `TcbTable` at a misuse of the heap or when the bound
  of its heap is reached, `HttpServer` and `Ping` when the bounded number of requests is
  spent, `Host` when it is broken, and `Json` after the bounded number of calls.

---------------------------------------------------------------------------

## 4. Where the code departs from its comments

`MCTcpPairBothClose` checks `BothClosed`, taken from a comment, and TLC finds it violated:
`tcp.h:99` says of CLOSING that both ends send a FIN and the closings cross, but nothing
ever sets CLOSING.  A FIN received in FIN_WAIT_1 changes no state (`tcp.c:447`), and one
received between `tcp_close`'s test and store is forgotten when FIN_WAIT_1 is stored over
CLOSE_WAIT; the end waits for ever for a FIN that has come.

More departures from comments, each of which a change of a constant or of a property
shows in the models:

* `tiny_net.c:245`, drop old data on overrun "to avoid a memory leak": two producers can
  compute the same slot, or one stores between the consumer's `free` and its NULL, and a
  packet is neither freed nor reachable (`NoLeak` with `Arrival = "any"` and three
  producers).
* `tcp.h:97`, FIN_WAIT_2 means that the peer's ACK of the FIN has come: any ACK moves
  FIN_WAIT_1 to FIN_WAIT_2 (`tcp.c:147`).
* `tcp.h:38`, `retrans_seq` is the first number of the retransmission: `check_retransmit`
  uses `snd_una` (`tcp.c:596`), which can lie before the payload.
* `tcp.c:130`, released if the ACK covers the data: `>=` on plain `uint32_t`
  (`tcp.c:132`), so that an ACK from before the wrap releases a payload that ends behind
  it, which may not have arrived (`ReleasedWhenReceived` states the exception,
  `AcrossTheWrap`, and is violated without it).
* `ip.c:61`, a packet without a MAC is left "to later packets or the peer's
  retransmission, which use the cached MAC": no later packet repeats the SYN of
  `tcp_connect`, and a peer that has received nothing repeats nothing.  In the first
  contact with a host the connection stays in SYN_SENT, also over a network that loses
  nothing, and the lines typed are dropped; the cache is filled a moment later
  (`HandshakeCompletes` speaks of a SYN that has left, `SynOut`; from `tcp_connect` on it
  is violated).
* `udp.c:42` says that a checksum is computed: the field stays 0, and
  `pseudo_header_checksum` overwrites bytes 8 and 9 of the text instead, or bytes behind
  a buffer that is too short (`DatagramKept` states the exception).
* `tiny_net.c:119–143` says that a field that is wrong keeps its default: `sscanf` has
  stored the numbers in front of the error, so an address can be half of each
  (`ConfigKept` states what is true).
* The error answers of `http.c` say `Connection: close`, but only the way of the 200 calls
  `tcp_close`.

Other things the models show, for which there is no run:

* Without a timing assumption a producer that laps the scan frees the packet the
  consumer works on (`MemorySafe` fails under `"any"`, even with one producer), a packet
  can be dropped that is newer than others, or with the ring not full, and the order of
  handling is not the order of arrival.
* Two insertions into a bucket that overlap lose one of the nodes; the command thread may
  hold a node that the process thread has released; `clear_len` of an acknowledgement may
  overwrite the length of a payload stored meanwhile, which is then never sent again.
* When an application calls `tcp_close` with nothing unacknowledged, the peer's command
  thread can send its own FIN before its process thread has answered the first one.  The
  FIN is then taken in FIN_WAIT_1, the late acknowledgement moves that end to FIN_WAIT_2,
  where it stays, and the peer is released (`ClosesInTurn` without `~bare`).  An
  acknowledgement of something sent before the close prevents it.  The web server sends
  its header first, but with a full window, or when every part fails for want of memory,
  or the last one does and takes with it the payload that was kept, nothing is left that
  would be acknowledged.
* `tcp_send_data` frees the payload it keeps before it allocates the new copy: when that
  fails, the old payload is no longer repaired although nobody has acknowledged it, the
  new one is dropped, and the caller goes on.  The stream has no gap in its numbers; the
  page has one in its middle (`starved`).
* A segment that `ip_send` drops has used up its sequence numbers, and `check_retransmit`
  repairs only the last one and only while ESTABLISHED.
* LAST_ACK is left on any ACK (`tcp.c:153`), also one that does not cover the FIN; the
  node is then gone and the peer's repeated data is never answered.
* When `tcp_close` runs between `handle_tcp_fin`'s test and its store, CLOSE_WAIT is
  stored over FIN_WAIT_1: both FINs are out, and the node waits for a `tcp_close` that
  has already been.
* A payload seen before is taken again and moves `rcv_nxt` back (`tcp.c:170`); a payload
  that is lost just before `tcp_close`, a SYN, a SYN+ACK and a FIN are never sent again.
* `config.h` declares its variables `static`, so every C file has a copy and `load_config`
  changes the ones of `tiny_net.c` only.  With another MAC in `config.json` the filter
  waits for a MAC that ARP never announces.  The `host_ip` of the file is read by nobody,
  and `ifconfig` prints `app.c`'s copies.
* `ip_process` never looks at the destination address; `icmp_process` ends without a
  value for other types; `main` ignores a thread that could not be created; a version
  text without a number makes `read_num` read through NULL; `inet_pton` is not checked,
  so that the card looked for can be any; the handle stays open when a later call is
  refused; `pcap_device_send` returns 0 whatever happens.
* cJSON: a reference whose name cannot be copied is left to no one
  (`cJSON_AddItemReferenceToObject`; `lost` in `Json`); `cJSON_Minify` takes the quote
  behind an escaped backslash for escaped; `\u` with invalid digits gives a NUL that cuts
  the string; the printer has no depth limit, so it prints trees whose text the parser
  refuses; what is behind the first value is ignored.
* The shell compares what `scanf("%s")` has read with `arp -a`, which has a blank and
  never matches.

---------------------------------------------------------------------------

## 5. What is proved

All proofs check with tlapm, without assumptions other than the named ASSUMEs on
constants in the modules (sizes are positive or natural, NULL is no value, peers send
segments, scripts are scripts, the window and the payload are smaller than the sequence
space).  TLC evaluates those in the passing runs.

**ArpCacheProofs** (every table size, every set of addresses):

* `TypeCorrect`, `PlacementHolds`: `TypeOK` and `Placement` (a node is in the bucket its
  address hashes to) are inductive together.
* `Refinement`: `Spec => ImplementsMap`.  `InsertEmpty`, `InsertSame` and
  `InsertCollide` say position by position what an insert makes of a chain;
  `LookupAfterInsert` concludes that a lookup of `q` afterwards gives the new MAC if
  `q` is the inserted address and what it gave before otherwise.  The point is that
  insertion right behind the head and a head-first walk fit together.

**PacketQueueProofs** (every ring size and number of packets):

* `TypeCorrect`, for any producers and any timing; `HoldsPacket` (a producer that has
  begun has a packet) makes it inductive.
* `ReceiveRingSafe`, `ReceiveRingKeeps`, `ReceiveRingIsPool`: `MemorySafe`, `NoLeak`
  and `ImplementsPool` for `ReceiveRing(r)`: one producer, not the consumer, under
  `"slow"`.  The invariant `RingInv` adds to the goals: packets are numbered in order
  of allocation (`Numbered`); a slot holds a stored, live, unhandled packet except the
  one the scan is at, whose packet is handled, then freed, then cleared, and no packet
  is in two slots (`Slotted`); the producer's slot stays NULL until it stores
  (`Producing`) — the consumer only clears, so the guess made at arrival stays true;
  the consumer's slot stays as it found it (`Consuming`).
* `SendRingLosesOldest`, `SendRingSafe`, `SendRingIsPool`: `LosesOldestFirst`, then
  `MemorySafe` with `NoLeak`, and `ImplementsPool`, for any producers, the consumer among
  them or not, and a ring that overruns, under `"apart"`.  These are conditional results
  and `PROJECT.json` does not count them among the theorems: `"apart"` is a lock that the
  code does not have, and the races of `tiny_net.c:242` are what it rules out.  They say
  that such a lock would be enough.  `SendInv` is `RingInv` with
  two differences.  A producer may find its slot taken; it has freed what is in it when it
  stores (`Filling`), and `Occupied` exempts that one slot.  And there is an order:
  `InTurn` says that from the slot that is filled next, once round the ring, packets get
  newer, so the one that is dropped is the oldest, wherever the scan has left gaps.

**TcpProofs** (any connections, sequence width, application, peers, interleaving):

* `TypeCorrect`: all numbers stay in the sequence space and a thread that is inside a
  call is on a connection that has a node (`Linked`; nodes are never unlinked).
* `PeerClosedCorrect` and `WeClosedCorrect`: `PeerHasClosed` and `WeHaveClosed`.
  Neither is inductive alone: between `tcp_close`'s test of CLOSE_WAIT and its write of
  LAST_ACK the process thread may change the state (a SYN+ACK makes it ESTABLISHED
  again), so `PassiveClose` remembers that a thread at that point is on a connection
  whose FIN has come; and between `handle_tcp_fin`'s test and its store `tcp_close` may
  change it, so `TakingFin` remembers the FIN, and this side's own FIN where TIME_WAIT
  is about to be stored.  `ThreadSteady` isolates what a step does to a thread that
  holds a FIN or comes to such a point, `SentStays` that an own FIN is never lost,
  `NodeMoves` which states a step may reach, `FinGrows` that the history only grows.

**TcpPairProofs** (every sequence width, initial number, window, payload size and
application, any number of lines).  All of it is under `Perfect`: the network loses
nothing and no RTO passes.  That is not a weakness of the proof; the code compares no
sequence number with what it expects, so a segment that is lost or comes twice makes
`InOrder` false at once.

* `PairInvariant`: `PairInv` is inductive.  It is built on `Moves`, which says what each
  action of the two instances of `Tcp` does to the one connection (`NextIs`).  A channel is
  a `Stream` from one number to another if its segments lie one behind the other between
  the two, wherever the numbers wrap; empty acknowledgements have no place in it.
  `PhaseInv` is the handshake: four phases in which the state is known nearly completely,
  then `Shaken`, in which the client's channel is a stream from the server's `rcv_nxt` to
  what the client sends next, and the other way round.  "Sends next" has to count a
  segment that is already in the channel while `snd_nxt` is not advanced (`ClientNext`),
  and "expects next" the SYN+ACK whose number is taken over after ESTABLISHED is stored
  (`ClientWants`).  `HandInv` is the segment a thread has built and not yet sent.
  `CloseInv` says that a FIN is the last of its stream, that an end that has sent it says
  no more and that an end that treats its peer as closed has taken its FIN; without it a
  payload could follow a FIN, or LAST_ACK release a node that is still owed something.
  `KeptInv` says that for each kept payload either itself or its acknowledgement is on the
  way: in a hand, in a channel, or in the process thread that will build it.
* `StreamsInOrder` and `EndsSettle`: `InOrder` and `Settled`, from `PairInv`.
* `NobodyLeftBehind`: `ClosesInTurn`.  Four things decide it, all in `TurnInv`: the server
  never closes passively, as its application runs for payloads only; while it is in
  FIN_WAIT_1 and not `bare` it keeps a payload; so when the client takes its FIN, that
  payload's acknowledgement is already on its way (`AckOnTheWay`, from `KeptInv`) and in
  front of any FIN the client sends in LAST_ACK (`AckFirst`), which the server therefore
  takes in FIN_WAIT_2; and a client that had begun to close before never comes into
  LAST_ACK.
* `ReleasedInLowerHalf` is conditional, and `PROJECT.json` does not count it among the
  theorems: `ReleasedWhenReceived` while both streams stay in the lower half of the
  sequence space (`[]BelowHalf`; initial numbers are `time(NULL)`, below 2^31 until 2038,
  but a stream grows) and a payload is not longer than that half (`Room`).  There the
  exception at the wrap does not occur.  `LowInv` is what does not wrap then, `AckInv` that
  no acknowledgement, in a hand or in a channel, is ahead of the `rcv_nxt` of its sender
  (which never falls, by `ClientGrows` and `ServerGrows`).  At the wrap the property is
  only model-checked.

What a host does for itself is folded around these proofs.  `NextIs` has, besides the
moves of the connection, `ClientFails` and `ServerFails` (a `tcp_send_data` without memory,
an `ip_send` without an address) and `Stays` (`Learn`).  `Known` says that nothing has left
a client that does not know the server, and that the server knows a client that knows it;
so only the SYN can be dropped, and `HostsInv` is `PairInv` or `Unheard`: the SYN was
dropped, the server has no node, nothing is under way, and it stays so (`UnheardStep`).  A
payload that is given up changes nothing but its buffer (`ForgetsKeeps`).

**HttpServerProofs** (every receive buffer, chunk size, page and sequence width, however
often the browser asks):

* `TypeCorrect` and `ReleasesAll` from `TypeInv`, which adds to the types how often the
  file is open and the buffer allocated at each place of the handler (`HeldAt`).
* `NeverOverruns`: `FitsBuffer`.  It needs two facts that neither end can see alone.
  `Between`: the segments under way lie, one behind the other, between the byte the
  browser expects and `snd_nxt`; without it a segment could be taken for more than
  `snd_nxt` is away.  `EdgesInRow`: while the server may send, `snd_nxt` is not beyond the
  right edge of the window it goes by, that edge not beyond those of the segments on their
  way to it, in their order, and the last not beyond the buffer; so a window that is taken
  over later is never behind what was already sent.  `FinLast` says that a FIN, which takes
  a number but no room, is the last segment.  Distances are measured from the byte the
  browser expects (`Away`), where they do not wrap; `SubNearer`, `SubFarther` and
  `SubBetween` are the three facts about modular subtraction that are used.
* `FittingPageIsWhole` and `OnlyTheEndIsLost`: `PageIsWhole` and `LosesTheEnd`, with their
  exceptions: a part for which `tcp_send_data` found no memory and, for the first, a
  browser whose MAC is not known.  `Answered` says that nothing has been sent before the
  header and that the loop is always at a multiple of `ChunkSize` or at the end, `Going`
  that a page that fits has used up exactly its own length of the window, `NoGap` that as
  long as a full chunk can still be sent all chunks so far were, those apart for which there
  was no memory.  `RoundUp` and `NextMultiple` are the arithmetic of the chunks.

**TcbTableProofs** (every set of 4-tuples, every hash, any number of nodes and buffers):

* `ChainsAreSound` and `LookupsAreRight`: `ChainsSound` and `LookupRight`, from `TableInv`.
  A chain is the *least* set that holds a head and is closed under `next` (`From`), so
  that it can be reasoned about without recursion: `FromIsLeast` is the induction along a
  chain.  Nodes are allocated in order and `next` leads to an older one of the same bucket
  (`NodesInv`), which excludes cycles.  The insertion race is what makes the rest hard: two
  threads read the same head, and the one that stores later takes the other's node out of
  the chain.  `RaceInv` says what a thread between its two steps can still do: take nodes
  of the other thread out, never its own, and bring none back.  `UniqueInv` then counts the
  valid nodes of a 4-tuple not in its chain alone but also behind a pointer that is about
  to be stored.  `WalkInv` says what a walk has left to see.
* `LockedIsSafe`, `PayloadsAreOwned`, `AcceptedWritesAreSafe`: `MemorySafe`,
  `PayloadOwned`, `AcceptedWritesSafe`, from `HeapInv`.  No two nodes share a buffer
  (`PointerInv`), with or without a lock.  A node is `Private` if there is a lock or if it
  belongs to an accepted connection, and at a private node there is one writer
  (`SoleWriter`); that is why at most one pointer to a freed buffer exists per such node,
  and only where it is about to be overwritten (`BufferInv`, `AtItsBuffer`).  `Lengths`
  exempts the nodes a thread is at, `NoneLost` and `Sending` carry the rest.  The first two
  are implications from `locked` and say what a lock around the uses of a buffer would be
  worth; the code has none, so `PROJECT.json` does not count them among the theorems.  The
  third needs no lock.

**PingProofs** (any addresses, sequence numbers, nodes, MACs and pings):

* `FramesReachOwners` and `LearnedIsFound`: `FrameToOwner` and `KnownIsFound`, from
  `ArpInv`: what the process thread has written of the node it is at (`WriterInv`), that
  a node is complete before it is linked (`NodeInv`), that the chain is the head and then
  the linked nodes from the newest to the oldest (`ChainInv`), and what a walk can still
  come to (`ReaderInv`, `Behind`): an address that was learned is behind the walk's place or
  at it, as nodes are linked in front of it only.
* `RepliesAreOwn` and `BothRaced`: `OwnReply` and `BothOnlyInTheWindow`.  `StampInv` says
  that no number is stamped but that of the ping whose second is running, `VerdictInv`
  what can have been printed for that one, and that if its reply was, either the stamp is
  cleared or the process thread is about to clear it.

**HostProofs** (any addresses, files, cards, lines and bodies that fit the code's buffers; any
text of any symbols for the strings):

* `OpensTheConfigured`: `OpensConfiguredCard`; `Least` is the fact about numbers that
  `pcap_find_device`'s loop rests on.
* `OnlyTheDefaultHears`: `DeafUnlessDefault`.  Its invariant is about the peer: it learns
  `DefaultMac` or nothing (`PeerInv`), since every ARP message of the host carries that one
  (`SentRight`), so nothing but broadcasts is ever addressed to another MAC (`FromPeer`,
  `RingInv`).
* `DatagramsAreKept`: `DatagramKept`, from what the functions of `Packets` make of a
  sequence (`Header`, `Summed`, `Printed`, `NotPrinted`).
* `AnswersAreRight`: `AnswerRight`, the addresses and the checksums.  An induction is made
  with a set: the places where a claim fails would have a least one (`Least`,
  `Induction`).  The sum of a packet's words is a function that adds one word at a time
  (`TotalIs`), so it adds up over parts and follows the change of a word (`TotalConcat`,
  `TotalExcept`); folding a carry in takes away a multiple of `WordMod - 1` (`Carry`,
  `FoldedIs`), so what `calculate_checksum` makes of any number of words is fixed by their
  sum, and a sum completed by its complement verifies (`Completed`).  From this
  `HeaderVerifies`; `SegmentVerifies`, because the sum does not see in which order the
  pseudo header has the two addresses; and `Echoed`, which is about the sum over a request
  with its padding and the answer without.  `Sums` carries them through the rings.
* `StringsFit`, `QuotedFits` and `StringsAreReadBack`: the strings of the file this host is
  configured from, in any text and of any length.  `parse_string` looks at a string three
  times: `StringEnd` finds the closing quote, `Allocation` counts the escapes, `Unescaped`
  converts.  The three are functions with an equation; `Backwards` and `Forwards` say that
  such a function exists, `Descent` that its equation is all there is to it.  The first two
  step over an escape by two characters and the third by two, three or six, so what is left
  to convert and the escapes not yet counted are compared at each place that the walk to
  the quote stops at (`RestFits`); a string that cannot be converted stops earlier and is no
  longer.  In the other direction `print_string_ptr` adds up before it writes: `EscapeBytes`
  says that each escape is as long as was counted, `QuotedFits` that the whole is.
  `StringsAreReadBack` goes backwards from the quote that was written (`ReadBack`), with
  `EscapeIsRead` for the one character.

Each of the invariants `PairInv`, `LowInv`, `AckInv`, `TurnInv`, `SendInv`, `TableInv`,
`HeapInv`, `PingInv` and `HostInv` was also checked by TLC on the instances of the runs.

**Only model-checked**: all liveness (`EventuallyHandled`, `HandshakeCompletes`,
`Acknowledged`, `RepairsLoss`, `AnsweredInTheEnd`) and anything that needs ENABLED, which
the prover does not handle; and of cJSON everything that is about trees (`ListsSound`,
`OwnedOnce`, `RoundTrip`, `ParsedIsPrinted`, `ConfigKept`), because the recursive descent,
printing, copying and deleting are RECURSIVE operators, which the prover cannot follow.
`ParsedIsPrinted` and `RoundTrip` also rest on numbers and on where white space is; of those
nothing is proved.

---------------------------------------------------------------------------

## 6. What is abstracted or not modelled

* **The network of `TcpPair` is FIFO**, while the rings can reorder (section 4).
  `InOrder` and `Settled` hold for segments that leave and arrive one at a time.  A packet
  that an overrun ring drops, or for which `net_recv` finds no memory, is a segment the
  network loses: `Lose` in the run that has it, and excluded by `Perfect`.
* **Memory.**  Modelled are the calls of malloc whose failure the code handles and goes on
  from: `retrans_buf` in `tcp_send_data` (`Tcp`, `TcpPair`, `HttpServer`, `TcbTable`), the
  page of `handle_http_request`, the items of cJSON, the file of `load_config`.  That
  `check_retransmit` finds none for its packet is a retransmission that comes later, which
  the safety properties allow; `RepairsLoss` takes it that this does not last for ever, and
  `AnsweredInTheEnd` the same of `net_recv`.  All other calls of malloc are not checked by
  the code (a TCB, a header, a packet): a failure is a write through NULL and the program
  ends, which is left out.
* **Addresses.**  `Tcp` and `HttpServer` keep of ARP whether the peer's MAC is known: once it
  is it stays so, as `arp_insert` overwrites but never removes.  The request that
  `ip_send` broadcasts is not a message of these modules; its effect is that some later
  `learn` may happen, or not.  That the MAC is right is a matter of `ArpCache` and
  `ArpShared`.  `Learn` of `TcpPair` leaves out that the server might ask: it sends nothing
  through `ip_send` before it knows the client (`Known`).
* **Grain.**  `Tcp` cuts the functions at the points where another thread's view
  matters: tests before stores in `tcp_close` and `handle_tcp_fin`, emission before
  `snd_nxt`, ESTABLISHED before `rcv_nxt`, the zeroed node of `tcp_connect`.  Between
  the cuts a run of plain stores is one step: `handle_tcp_ack` up to the application,
  the fields `tcp_connect` fills in, one node of `check_retransmit`.  In
  `handle_tcp_ack` the states tested (SYN_RECV, FIN_WAIT_1, LAST_ACK) are ones the
  command thread leaves only by reconnecting the same 4-tuple; any other store of its own
  falls before or after the step as a whole.  The buffers' own steps are in `TcbTable`.
* **Table.**  In `Tcp`, `tcb` is a function.  A released node stays in its chain in the
  code and a later SYN creates another one; the function replaces it.  `ChainsSound` and
  `LookupRight` of `TcbTable` are what justifies it.
* **Data.**  Payloads of `Tcp` are a length and the number they were first sent at.  In
  `HttpServer` the bytes of requests and headers are lengths and what the three tests
  tell apart; the content type and the path are left out.  In `Packets` a word is a
  number below a small modulus, and TTL, identification and the like do not vary.
* **Time.**  An RTO may have passed at any time.  A reply to a ping comes before or after
  its second; the test for lateness in `icmp_process` compares seconds with
  `icmp_timeout` = 1000 and never decides anything, as a stamp is cleared after one.
* **Host** has one slot for each ring and the answers of TCP are any segment: `PacketQueue`
  and `Tcp` have the rest.
* **Not modelled at all**: what the shell prints (`netstat`, `ifconfig`, `arp`), the
  address conversions and the unused timer of `util.h`, `pcap_device_close`, fractions
  and exponents of numbers in JSON, `cJSON_InitHooks` (nobody calls it),
  `cJSON_GetErrorPtr` but for the position it reports, the telnet files (empty), the
  headers and examples of npcap, the static site.

---------------------------------------------------------------------------

## 7. Plan

1. **Reconnection**: `tcp_conversation` always uses port 8888, so a second conversation
   with the same server meets the node of the first, and `tcp_connect` resets all of it
   but `retrans_buf` (`tcp.c:293`).  Needs a pair that connects twice.
2. **Stack**: ring and endpoint composed, a pair over a network that reorders; which
   properties of the pair survive.
3. **`netstat`**: the command thread's walk over the chains while nodes are released.

Theorems to prove next: the pair under loss and retransmission, where `InOrder` is false:
that an end still sends nothing after its FIN and treats its peer as closed only after its
FIN (`CloseInv` without the streams); `ReleasedWhenReceived` at the wrap, which needs that
what is in flight is shorter than half of the sequence space; a condition on the window and
the sizes of a page that excludes `bare`; that cJSON's numbers are read back; its lists and
who owns what, once the recursion over trees is written with functions.
