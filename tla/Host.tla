--------------------------------- MODULE Host ---------------------------------
(***************************************************************************)
(* The host as a whole: it starts (net_init and main), with config.h's     *)
(* static addresses, of which every source file has a copy of its own and  *)
(* load_config changes only that of tiny_net.c; then the receive, process  *)
(* and send threads exchange frames with a peer on the network, and the    *)
(* command thread sends datagrams.                                         *)
(*                                                                         *)
(* Left out: the rings between the threads (module PacketQueue has them;   *)
(* here one slot each way), ARP's buckets (ArpCache) and what TCP answers  *)
(* (Tcp): any segment, or none.  The peer is an ordinary host: it learns a *)
(* MAC from ARP replies, and its frames are well formed and padded.        *)
(***************************************************************************)
EXTENDS Packets, Capture, FiniteSets

CONSTANTS
    DefaultIp, DefaultMac,  \* host_ip_addr, host_mac as they are in config.h
    OtherIp, FileMac,       \* another address; the MAC in config.json, or partly from there
    RealIp,                 \* what real_host_ip can be: config.h's, or any text from the file
    Library, Cards,         \* what the machine can have of Npcap, and its lists of cards
    PeerIp, PeerMac, Broadcast, NoMac,
    Line,                   \* what can be typed, as words
    Body,                   \* what the peer sends behind a header
    Padding,                \* words that fill up a short frame
    MaxMissing              \* threads that cannot be created

Ip      == {DefaultIp, OtherIp}
HostMac == {DefaultMac, FileMac}
Threads == {"recv", "cmd", "send", "proc"}

ASSUME AddressAssumption ==
    /\ Ip \cup {PeerIp} \subseteq 0 .. WordMod - 1
    /\ Cardinality(Ip \cup {PeerIp}) = 3
    /\ Cardinality(HostMac \cup {PeerMac, Broadcast, NoMac}) = 5

\* udp_conversation reads a line into 1024 bytes, and a frame has MAX_PACKET_LEN.
ASSUME TextAssumption ==
    /\ Padding \in Nat
    /\ Line \cup Body \subseteq Seq(0 .. WordMod - 1)
    /\ \A text \in Line \cup Body : 2 * (UdpHeaderLen + Len(text)) < WordMod

ASSUME CardAssumption == OtherFamily \in Nat /\ Cards \subseteq Seq(Seq(Nat))

VARIABLES
    phase,      \* "config", "open", "threads", "up", or "broken": undefined behaviour
    machine,    \* what is found and done to open the device, until that is over
    tiny_net,   \* tiny_net.c's real_host_ip and host_mac
    device,     \* "NULL", "sound", or "failing": not every send succeeds
    running,    \* the threads that could be created
    wire,       \* frames on their way to the host, at most one
    received,   \* packet_queue_receive
    toSend,     \* packet_queue_send, each frame with what it answers
    resolved,   \* whether the ARP cache has the peer
    peer,       \* the MACs the peer has learned, and its last question if unanswered
    printed     \* the datagram udp_process printed last, with the frame it came in

netVars == <<wire, received, toSend, resolved, peer, printed>>
vars == <<phase, machine, tiny_net, device, running, netVars>>

\* A frame carries an ARP message or a packet.
Arp(dst, src, op, ip, mac, target) ==
    [dst |-> dst, src |-> src, type |-> "ARP", op |-> op, ip |-> ip, mac |-> mac, target |-> target]
Frame(dst, src, packet) == [dst |-> dst, src |-> src, type |-> "IP", packet |-> packet]

NoQuestion == [type |-> "none"]

\* Npcap may refuse a call when the device is opened.
Refusal == {"nothing", "pcap_open_live", "a_later_call"}
Machine == [library : Library, cards : Cards, refuses : Refusal, opened : {None}, shown : {{}}]
Forgotten == [cards |-> <<>>, opened |-> None]

Break == phase' = "broken" /\ machine' = Forgotten /\ UNCHANGED <<tiny_net, device, running, netVars>>

-------------------------------------------------------------------------------
\* The start.

\* sscanf stores every number it converts before it meets one it cannot, so that an
\* address can come from the file, from config.h, or in part from each.
\* No file, no JSON, a field is missing or no string: the defaults stay.
load_config ==
    /\ phase = "config"
    /\ phase' = "open"
    /\ \E ip \in RealIp, mac \in HostMac : tiny_net' = [real_ip |-> ip, mac |-> mac]
    /\ UNCHANGED <<machine, device, running, netVars>>

\* Npcap's library and the card are found and the handle is opened, or the program
\* goes on without a device.  A handle stays open if a later call is refused
\* (non-blocking mode, the filter); that the direction cannot be set is no matter.
pcap_device_open ==
    /\ phase = "open"
    /\ \E loaded \in load_pcap_lib(machine.library) :
         IF loaded = "crash" THEN Break
         ELSE /\ phase' = "threads"
              /\ \E card \in pcap_find_device(machine.cards, tiny_net.real_ip) :
                   LET opened == IF loaded = "ok" /\ machine.refuses # "pcap_open_live"
                                 THEN card ELSE None
                       shown  == IF loaded = "ok" /\ opened = None
                                 THEN pcap_show_list(machine.cards) ELSE {}
                   IN  /\ machine' = [machine EXCEPT !.opened = opened, !.shown = shown]
                       /\ device' \in IF opened # None /\ machine.refuses = "nothing"
                                      THEN {"sound", "failing"} ELSE {"NULL"}
              /\ UNCHANGED <<tiny_net, running, netVars>>

\* main does not look at what thread_create returns.
thread_create ==
    /\ phase = "threads"
    /\ phase' = "up"
    /\ running' \in {started \in SUBSET Threads : Cardinality(Threads \ started) <= MaxMissing}
    /\ machine' = Forgotten
    /\ UNCHANGED <<tiny_net, device, netVars>>

-------------------------------------------------------------------------------
\* The receive and the send thread.

Up(t) == phase = "up" /\ t \in running

\* Mutant of Admitted: promiscuous.
AdmitAll(frame) == TRUE

\* Mutant of Admitted: without the broadcasts.
AdmitOwn(frame) == frame.dst = tiny_net.mac

\* The capture filter: to host_mac, as tiny_net.c had it, or to all.
Admitted(frame) == frame.dst \in {tiny_net.mac, Broadcast}

net_recv ==
    /\ Up("recv")
    /\ received = <<>>
    /\ \/ device = "NULL" /\ Break
       \/ /\ device # "NULL"
          /\ wire # <<>>
          /\ wire' = <<>>
          /\ received' = IF Admitted(wire[1]) THEN wire ELSE <<>>
          /\ UNCHANGED <<phase, machine, tiny_net, device, running, toSend, resolved, peer, printed>>

\* The peer takes what is for its MAC or for all, learns from ARP, owes an answer to
\* an ARP request for its address, and sees whether its own question is answered.
Taken(message) ==
    LET frame == message.frame
    IN  IF frame.dst \notin {PeerMac, Broadcast} THEN peer
        ELSE [mac   |-> IF frame.type = "ARP" THEN [peer.mac EXCEPT ![frame.ip] = frame.mac]
                        ELSE peer.mac,
              owes  |-> peer.owes \/ (frame.type = "ARP" /\ frame.op = "request"),
              asked |-> IF message.answers = peer.asked THEN NoQuestion ELSE peer.asked]

send_packet ==
    /\ Up("send")
    /\ toSend # <<>>
    /\ \/ device = "NULL" /\ Break
       \/ /\ device # "NULL"
          /\ toSend' = <<>>
          /\ \/ peer' = Taken(toSend[1])
             \/ device = "failing" /\ UNCHANGED peer
          /\ UNCHANGED <<phase, machine, tiny_net, device, running, wire, received, resolved, printed>>

-------------------------------------------------------------------------------
\* The process thread.

net_data_send(frame, question) == toSend' = <<[frame |-> frame, answers |-> question]>>

Processing == Up("proc") /\ received # <<>> /\ toSend = <<>>
Question == received[1]
Handled == received' = <<>> /\ UNCHANGED <<phase, machine, tiny_net, device, running, wire, peer>>

\* A message for the address arp.c has teaches; a request is answered with the MAC
\* arp.c has, in a frame from the MAC tiny_net.c has.
arp_process ==
    /\ Processing
    /\ Question.type = "ARP"
    /\ resolved' = (resolved \/ Question.target = DefaultIp)
    /\ IF Question.target = DefaultIp /\ Question.op = "request"
       THEN net_data_send(Arp(Question.src, tiny_net.mac, "reply", DefaultIp, DefaultMac,
                              Question.ip), Question)
       ELSE UNCHANGED toSend
    /\ Handled /\ UNCHANGED printed

\* ip_process looks at the protocol only, not at the address; the answer goes to the
\* MAC the packet came from, from the address ip.c has.
Answer(words, proto) ==
    net_data_send(Frame(Question.src, tiny_net.mac,
                        add_ip_header(DefaultIp, words, proto, Question.packet.src)), Question)

Carries(proto) == Question.type = "IP" /\ Question.packet.proto = proto

\* A type that is neither echo reply nor request, and a reply to another program,
\* leave icmp_process without a value; ip_process takes what is there for one.
icmp_process ==
    /\ Processing
    /\ Carries(ICMP_TYPE)
    /\ LET message == Payload(Question.packet)
       IN  \/ /\ message[1] = ICMP_ECHO_REQUEST
              /\ Answer(EchoReply(message), ICMP_TYPE)
              /\ Handled /\ UNCHANGED <<resolved, printed>>
           \/ /\ message[1] # ICMP_ECHO_REQUEST
              /\ \/ Handled /\ UNCHANGED <<toSend, resolved, printed>>
                 \/ Break

\* A segment without data, its words those of module Tcp; the checksum, which
\* set_tcp_header leaves as it was in memory, is one of them.
Segment(w) == [i \in 1 .. 10 |-> Word(w * i)]
tcp_process ==
    /\ Processing
    /\ Carries(TCP_TYPE)
    /\ LET asked == Question.packet
       IN  \/ \E w \in 0 .. 1 :
                Answer(pseudo_header_checksum(Segment(w), asked.src, asked.dst), TCP_TYPE)
           \/ UNCHANGED toSend
    /\ Handled /\ UNCHANGED <<resolved, printed>>

udp_process ==
    /\ Processing
    /\ Carries(UDP_TYPE)
    /\ LET words == Question.packet.data
       IN  printed' = IF words[3] < 2 * UdpHeaderLen THEN printed
                      ELSE [body |-> UdpBody(words), of |-> Question]
    /\ Handled /\ UNCHANGED <<toSend, resolved>>

-------------------------------------------------------------------------------
\* The command thread in udp_conversation.

\* Without a MAC for the peer an ARP request is broadcast and the line is gone.
udp_send_data ==
    /\ Up("cmd")
    /\ toSend = <<>>
    /\ \E line \in Line :
         LET datagram == add_udp_header(line, 1, 2)
         IN  IF ~HasChecksumWord(datagram) THEN Break
             ELSE /\ net_data_send(
                        IF ~resolved
                        THEN Arp(Broadcast, DefaultMac, "request", DefaultIp, DefaultMac, PeerIp)
                        ELSE Frame(PeerMac, DefaultMac,
                                   add_ip_header(DefaultIp,
                                       pseudo_header_checksum(datagram, DefaultIp, PeerIp),
                                       UDP_TYPE, PeerIp)),
                        NoQuestion)
                  /\ UNCHANGED <<phase, machine, tiny_net, device, running, wire, received, resolved,
                                 peer, printed>>

-------------------------------------------------------------------------------
\* The peer.

Deliver(frame) ==
    /\ wire' = <<frame>>
    /\ UNCHANGED <<phase, machine, tiny_net, device, running, received, toSend, resolved, printed>>

Ask(frame) == Deliver(frame) /\ peer' = [peer EXCEPT !.asked = frame]

peer_replies ==
    /\ peer.owes
    /\ Deliver(Arp(peer.mac[DefaultIp], PeerMac, "reply", PeerIp, PeerMac, DefaultIp))
    /\ peer' = [peer EXCEPT !.owes = FALSE]

peer_asks_for(ip) == Ask(Arp(Broadcast, PeerMac, "request", PeerIp, PeerMac, ip))

\* A packet of the peer, padded, for an address whose MAC it knows.
Packed(ip, proto, words) ==
    LET p == Packet(proto, PeerIp, ip, words)
    IN  Frame(peer.mac[ip], PeerMac, [p EXCEPT !.data = @ \o Zeros(Padding)])
Echo(ip, data)        == Packed(ip, ICMP_TYPE, IcmpMessage(ICMP_ECHO_REQUEST, 1, 2, data))
Unreachable(ip, data) == Packed(ip, ICMP_TYPE, IcmpMessage(3, 0, 0, data))
Datagram(ip, data)    == Packed(ip, UDP_TYPE, add_udp_header(data, 3, 4))
Runt(ip, data)        == Packed(ip, UDP_TYPE, <<3, 4, 2, 0>> \o data)
Request(ip, data)     == Packed(ip, TCP_TYPE, Segment(1) \o data)

PeerStep ==
    /\ phase = "up"
    /\ wire = <<>>
    /\ \/ peer_replies
       \/ \E ip \in Ip :
            \/ peer_asks_for(ip)
            \/ /\ peer.mac[ip] # NoMac
               /\ \E data \in Body :
                    \E frame \in {Echo(ip, data), Unreachable(ip, data), Datagram(ip, data),
                                  Runt(ip, data), Request(ip, data)} : Ask(frame)

-------------------------------------------------------------------------------
Init == /\ phase = "config"
        /\ machine \in Machine
        /\ tiny_net \in [real_ip : RealIp, mac : {DefaultMac}]
        /\ device = "NULL" /\ running = {}
        /\ wire = <<>> /\ received = <<>> /\ toSend = <<>>
        /\ resolved = FALSE
        /\ peer = [mac |-> [ip \in Ip |-> NoMac], asked |-> NoQuestion, owes |-> FALSE]
        /\ printed = [body |-> <<>>, of |-> NoQuestion]

Start == load_config \/ pcap_device_open \/ thread_create
Process == arp_process \/ icmp_process \/ tcp_process \/ udp_process

Next == Start \/ net_recv \/ Process \/ send_packet \/ udp_send_data \/ PeerStep
Spec == Init /\ [][Next]_vars

\* The threads that were created poll for ever; starting up comes to an end.  In the
\* code net_data_send never waits, so that the process thread gets its turn although
\* the command thread fills the one slot again and again.
FairSpec == Spec /\ WF_vars(Start) /\ WF_vars(net_recv) /\ SF_vars(Process)
                 /\ WF_vars(send_packet)

-------------------------------------------------------------------------------
\* The rings hold frames, and the host is broken or up with what could be started.
TypeOK ==
    /\ phase \in {"config", "open", "threads", "up", "broken"}
    /\ machine.opened \in 0 .. Len(machine.cards)
    /\ tiny_net \in [real_ip : RealIp, mac : HostMac]
    /\ device \in {"NULL", "sound", "failing"}
    /\ running \subseteq Threads
    /\ \A ring \in {wire, received, toSend} : Len(ring) <= 1
    /\ resolved \in BOOLEAN
    /\ peer.mac \in [Ip -> HostMac \cup {NoMac}]

\* A reply goes to the asker, from the address asked for.
AddressedRight(answer, question) ==
    /\ answer.dst = PeerMac
    /\ answer.type = question.type
    /\ answer.type = "ARP" =>
         /\ answer.op = "reply"
         /\ answer.ip = question.target /\ answer.target = question.ip
    /\ answer.type = "IP" =>
         answer.packet.dst = PeerIp /\ answer.packet.src = question.packet.dst

\* Its IP header verifies; an echo reply is the echo of the data without the padding,
\* with a checksum of its own; and a segment verifies with the pseudo header of the
\* packet it leaves in, although tcp_process's answer is summed with that of the
\* packet that came.
SummedRight(answer, question) ==
    answer.type = "IP" =>
      /\ Verifies(HeaderWords(answer.packet))
      /\ answer.packet.proto = ICMP_TYPE =>
           \E data \in Body :
             /\ question.packet = Echo(answer.packet.src, data).packet
             /\ answer.packet.data = IcmpMessage(ICMP_ECHO_REPLY, 1, 2, data)
      /\ answer.packet.proto = TCP_TYPE =>
           Verifies(Pseudo(answer.packet.src, PeerIp, TCP_TYPE, Len(answer.packet.data))
                        \o answer.packet.data)

\* What the host answers (packet_process, ip_process) is right in both respects.
AnswerRight ==
    \A message \in ToSet(toSend) :
        message.answers # NoQuestion =>
            /\ AddressedRight(message.frame, message.answers)
            /\ SummedRight(message.frame, message.answers)

\* The card that is opened (pcap_device_open, pcap_find_device) is the first that has
\* the address configured, whichever of its addresses that is; it is missed only if
\* Npcap is not fit or refuses it; and where no card is opened although Npcap is fit,
\* every card that could be configured instead is shown.
OpensConfiguredCard ==
    (phase = "threads" /\ tiny_net.real_ip # NotAnAddress) =>
        LET having == {c \in DOMAIN machine.cards :
                         \E i \in DOMAIN machine.cards[c] : machine.cards[c][i] = tiny_net.real_ip}
            fit == load_pcap_lib(machine.library) = {"ok"}
        IN  /\ machine.opened # None => machine.opened \in having
                                        /\ \A c \in having : machine.opened <= c
            /\ (fit /\ having # {} /\ machine.opened = None) => machine.refuses = "pcap_open_live"
            /\ (fit /\ machine.opened = None) =>
                 \A c \in DOMAIN machine.cards :
                     c \in machine.shown <=> \E i \in DOMAIN machine.cards[c] :
                                                machine.cards[c][i] # OtherFamily

\* load_config changes the MAC of the capture filter and of the frames' source, but
\* the MAC that ARP announces stays that of config.h: a host with another one in
\* config.json never gets a packet, nor the answer to an ARP request of its own.
DeafUnlessDefault ==
    (tiny_net.mac # DefaultMac /\ received # <<>>) =>
        /\ received[1].type = "ARP" /\ received[1].op = "request"

\* A datagram that leaves says how long it is and carries the line typed, but for
\* the one word that pseudo_header_checksum (udp.c:49) puts where a segment has its
\* checksum; of one that comes all is printed, of every length, without the padding.
DatagramKept ==
    /\ \A message \in ToSet(toSend) :
         LET frame == message.frame
             words == frame.packet.data
         IN  (frame.type = "IP" /\ frame.packet.proto = UDP_TYPE) =>
               /\ words[3] = 2 * Len(words)
               /\ \E line \in Line :
                    /\ Len(words) = UdpHeaderLen + Len(line)
                    /\ \A i \in 1 .. Len(line) :
                         UdpHeaderLen + i = TcpChecksum \/ words[UdpHeaderLen + i] = line[i]
    /\ printed.of # NoQuestion =>
         \E ip \in Ip, data \in Body :
             /\ printed.of.packet = Datagram(ip, data).packet
             /\ printed.body = data

Resolves == peer.asked.type = "ARP" /\ peer.asked.target = DefaultIp
Pings(data) ==
    /\ peer.asked.type = "IP"
    /\ LET p == peer.asked.packet
       IN  /\ p.proto = ICMP_TYPE /\ p.data[1] = ICMP_ECHO_REQUEST
           /\ p.data = SubSeq(p.data, 1, IcmpHeaderLen) \o data \o Zeros(Padding)

\* If the file agrees with config.h and nothing was lacking at the start, a peer that
\* asks for the host's MAC or sends an echo request has its answer in the end
\* (net_recv, packet_process, net_data_send, send_packet), unless it goes on to ask
\* for something else or the host breaks.
AnsweredInTheEnd ==
    LET sound == device = "sound" /\ running = Threads /\ tiny_net.mac = DefaultMac
    IN  /\ (sound /\ Resolves) ~> (~Resolves \/ phase = "broken")
        /\ \A data \in Body : (sound /\ Pings(data)) ~> (~Pings(data) \/ phase = "broken")
===============================================================================
