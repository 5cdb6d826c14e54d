------------------------------- MODULE ArpShared -------------------------------
(***************************************************************************)
(* One bucket of the ARP cache (net_app/arp.c) at the grain of its reads   *)
(* and writes, without a lock between them: the process thread inserts,    *)
(* the reader, a thread in ip_send, walks the chain and copies the MAC     *)
(* into its frame.  Module ArpCache has all buckets, with atomic           *)
(* operations.                                                             *)
(*                                                                         *)
(* The six bytes of a MAC are two halves, as many as it takes to be        *)
(* half-written.  Inserting at any time stands for any ARP traffic.  A     *)
(* host has one MAC at a time; its number counts the MACs it has had.      *)
(***************************************************************************)
EXTENDS Naturals

CONSTANTS
    Addr,           \* IP addresses that share the bucket
    NoAddr,         \* bytes that are not an address of them
    MaxNode,        \* bound of the model: nodes malloced behind the head
    MaxMoves        \* bound of the model: how often one host changes its MAC

ASSUME AddrAssumption  == NoAddr \notin Addr
ASSUME BoundAssumption == MaxNode \in Nat /\ MaxMoves \in Nat

Root   == 0         \* arp_cache[index] itself
NULL   == MaxNode + 1
NodeId == 0 .. MaxNode

\* A half of a MAC says whose it is and which of its MACs; Unset is not written yet.
Ip    == Addr \cup {NoAddr}
Half  == [of : Ip, number : 0 .. MaxMoves]
Unset == [of |-> NoAddr, number |-> 0]
Mac   == Half \X Half
Node  == [ip : Ip, mac : Mac, valid : BOOLEAN, next : NodeId \cup {NULL}]
Blank == [ip |-> NoAddr, mac |-> <<Unset, Unset>>, valid |-> FALSE, next |-> NULL]

\* arp_insert: the address and MAC it writes, and to which node.
Writer == [at : {"idle", "ip", "mac_1", "mac_2", "valid", "link"},
           ip : Ip, number : 0 .. MaxMoves, cur : NodeId]
\* ip_send.  History: known, the address was learned when the walk began; raced, a
\* node was linked between the test of a node and the reading of the pointer to it;
\* torn, the node was written while its MAC was copied.
Reader == [at : {"idle", "test", "advance", "return", "copy_1", "copy_2", "request"},
           ip : Ip, cur : NodeId, ptr : NodeId \cup {NULL}, half : Half,
           known : BOOLEAN, raced : BOOLEAN, torn : BOOLEAN]
Resting == [at |-> "idle", ip |-> NoAddr, number |-> 0, cur |-> Root]
Waiting == [at |-> "idle", ip |-> NoAddr, cur |-> Root, ptr |-> NULL, half |-> Unset,
            known |-> FALSE, raced |-> FALSE, torn |-> FALSE]

\* What ip_send did last: a frame to a MAC, or an ARP request.
Sent == [kind : {"none", "frame", "request"}, ip : Ip, mac : Mac,
         known : BOOLEAN, raced : BOOLEAN, torn : BOOLEAN]

VARIABLES
    node,       \* the head and the nodes behind it
    nodes,      \* how many of those were malloced
    number,     \* the MAC each host has now
    writer,     \* the process thread in arp_insert
    reader,     \* a thread in ip_send
    sent,       \* see Sent
    learned     \* history: the addresses whose insertion has come to its end

arpVars == <<node, nodes, number, writer, reader, sent, learned>>

-------------------------------------------------------------------------------
\* arp_insert in the process thread.

WriteTo(n, changed) == node' = [node EXCEPT ![n] = changed]
Cur == node[writer.cur]
WriterTo(place) == writer' = [writer EXCEPT !.at = place]

\* A sender's address and MAC arrive and the head is looked at: an empty head is
\* filled, one with the address gets the new MAC, otherwise a node is malloced.
arp_insert(a) ==
    /\ writer.at = "idle"
    /\ LET begin(place, n) ==
               writer' = [at |-> place, ip |-> a, number |-> number[a], cur |-> n]
       IN  \/ ~node[Root].valid /\ begin("ip", Root) /\ UNCHANGED nodes
           \/ node[Root].valid /\ node[Root].ip = a /\ begin("mac_1", Root) /\ UNCHANGED nodes
           \/ /\ node[Root].valid /\ node[Root].ip # a
              /\ nodes < MaxNode
              /\ nodes' = nodes + 1
              /\ begin("ip", nodes')
    /\ UNCHANGED <<node, number, reader, sent, learned>>

\* Mutant of write_ip: a node is linked, and then filled.
LinkFirst ==
    /\ writer.at = "ip"
    /\ IF writer.cur = Root
       THEN node' = [node EXCEPT ![Root].ip = writer.ip]
       ELSE node' = [node EXCEPT ![writer.cur] = [@ EXCEPT !.ip = writer.ip, !.valid = TRUE,
                                                           !.next = node[Root].next],
                                 ![Root].next = writer.cur]
    /\ WriterTo("mac_1")
    /\ UNCHANGED <<nodes, number, reader, sent, learned>>

write_ip ==
    /\ writer.at = "ip"
    /\ WriteTo(writer.cur, [Cur EXCEPT !.ip = writer.ip])
    /\ WriterTo("mac_1")
    /\ UNCHANGED <<nodes, number, reader, sent, learned>>

\* A half is written, perhaps between the two copies of a reader.
Torn == IF reader.at = "copy_2" /\ reader.ptr = writer.cur
        THEN [reader EXCEPT !.torn = TRUE] ELSE reader
TheHalf == [of |-> writer.ip, number |-> writer.number]

write_mac_1 ==
    /\ writer.at = "mac_1"
    /\ WriteTo(writer.cur, [Cur EXCEPT !.mac[1] = TheHalf])
    /\ WriterTo("mac_2")
    /\ reader' = Torn
    /\ UNCHANGED <<nodes, number, sent, learned>>

\* The update of a head that was valid ends here.
Learn == learned' = learned \cup {writer.ip} /\ writer' = Resting
write_mac_2 ==
    /\ writer.at = "mac_2"
    /\ WriteTo(writer.cur, [Cur EXCEPT !.mac[2] = TheHalf])
    /\ IF Cur.valid THEN Learn ELSE WriterTo("valid") /\ UNCHANGED learned
    /\ reader' = Torn
    /\ UNCHANGED <<nodes, number, sent>>

\* valid = 1; a node behind the head is also pointed to the nodes there are.
set_valid ==
    /\ writer.at = "valid"
    /\ WriteTo(writer.cur, [Cur EXCEPT !.valid = TRUE,
                                       !.next = IF writer.cur = Root THEN @ ELSE node[Root].next])
    /\ IF writer.cur = Root THEN Learn ELSE WriterTo("link") /\ UNCHANGED learned
    /\ UNCHANGED <<nodes, number, reader, sent>>

\* Mutant of link: the chain is cut behind the new node.
LinkAlone ==
    /\ writer.at = "link"
    /\ node' = [node EXCEPT ![Root].next = writer.cur, ![writer.cur].next = NULL]
    /\ Learn
    /\ UNCHANGED <<nodes, number, reader, sent>>

\* cur->next = node.
link ==
    /\ writer.at = "link"
    /\ WriteTo(Root, [node[Root] EXCEPT !.next = writer.cur])
    /\ Learn
    /\ reader' = IF reader.at = "return" /\ reader.cur = Root
                 THEN [reader EXCEPT !.raced = TRUE] ELSE reader
    /\ UNCHANGED <<nodes, number, sent>>

\* A host comes back with another MAC.
move(a) ==
    /\ number[a] < MaxMoves
    /\ \A b \in Addr \ {a} : number[b] = 0
    /\ number' = [number EXCEPT ![a] = @ + 1]
    /\ UNCHANGED <<node, nodes, writer, reader, sent, learned>>

-------------------------------------------------------------------------------
\* ip_send: get_mac_by_ip, and the copy in add_ethernet_header.

ReaderTo(place) == reader' = [reader EXCEPT !.at = place]
ReaderOnly == UNCHANGED <<node, nodes, number, writer, learned>>

\* The head.  Its address no longer changes when it is valid, so that the two
\* reads can be one.
get_mac_by_ip(a) ==
    /\ reader.at = "idle"
    /\ LET begin(place, p) == reader' = [Waiting EXCEPT !.at = place, !.ip = a, !.ptr = p,
                                                        !.known = a \in learned]
       IN  \/ ~node[Root].valid /\ begin("request", NULL)
           \/ node[Root].valid /\ node[Root].ip = a /\ begin("copy_1", Root)
           \/ node[Root].valid /\ node[Root].ip # a /\ begin("test", NULL)
    /\ ReaderOnly /\ UNCHANGED sent

\* The node behind cur, if there is one; then cur->next is read again, to return
\* its MAC or to go there.
test ==
    /\ reader.at = "test"
    /\ LET next == node[reader.cur].next
       IN  ReaderTo(IF next = NULL THEN "request"
                    ELSE IF node[next].ip = reader.ip /\ node[reader.cur].valid THEN "return"
                    ELSE "advance")
    /\ ReaderOnly /\ UNCHANGED sent

advance ==
    /\ reader.at = "advance"
    /\ reader' = [reader EXCEPT !.at = "test", !.cur = node[reader.cur].next]
    /\ ReaderOnly /\ UNCHANGED sent

return ==
    /\ reader.at = "return"
    /\ reader' = [reader EXCEPT !.at = "copy_1", !.ptr = node[reader.cur].next]
    /\ ReaderOnly /\ UNCHANGED sent

\* Whether the writer is between the halves of the node.
Halfway == writer.at = "mac_2" /\ writer.cur = reader.ptr

copy_1 ==
    /\ reader.at = "copy_1"
    /\ reader' = [reader EXCEPT !.at = "copy_2", !.half = node[reader.ptr].mac[1],
                                !.torn = Halfway]
    /\ ReaderOnly /\ UNCHANGED sent

Finish(kind, mac) ==
    /\ sent' = [kind |-> kind, ip |-> reader.ip, mac |-> mac, known |-> reader.known,
                raced |-> reader.raced, torn |-> reader.torn]
    /\ reader' = Waiting
    /\ ReaderOnly

copy_2 == reader.at = "copy_2" /\ Finish("frame", <<reader.half, node[reader.ptr].mac[2]>>)

\* NULL: arp_request instead, and the packet is gone.
arp_request == reader.at = "request" /\ Finish("request", <<Unset, Unset>>)

-------------------------------------------------------------------------------
ArpInit == /\ node = [n \in NodeId |-> Blank] /\ nodes = 0
           /\ number = [a \in Addr |-> 0]
           /\ writer = Resting
           /\ reader = Waiting
           /\ sent = [kind |-> "none", ip |-> NoAddr, mac |-> <<Unset, Unset>>,
                      known |-> FALSE, raced |-> FALSE, torn |-> FALSE]
           /\ learned = {}

Insertion == write_ip \/ write_mac_1 \/ write_mac_2 \/ set_valid \/ link
Walk      == test \/ advance \/ return \/ copy_1 \/ copy_2 \/ arp_request

ArpTypeOK ==
    /\ node \in [NodeId -> Node]
    /\ nodes \in 0 .. MaxNode
    /\ number \in [Addr -> 0 .. MaxMoves]
    /\ writer \in Writer
    /\ reader \in Reader
    /\ sent \in Sent
    /\ learned \subseteq Addr

\* A frame goes to a MAC of the host it is for, unless a node was linked behind the
\* head just between the test of the node that matched and the second reading of
\* cur->next (arp.c:59 and 61): then it goes to the host of that new node, but
\* never to bytes that were not written yet.  And it goes to one MAC, not half of
\* one and half of another, unless the host's MAC was being replaced.
FrameToOwner ==
    sent.kind = "frame" =>
        /\ \A i \in {1, 2} : sent.mac[i] # Unset /\ (sent.raced \/ sent.mac[i].of = sent.ip)
        /\ sent.torn \/ sent.mac[1] = sent.mac[2]

\* An address that was learned when the walk began is found, whatever is inserted
\* during the walk: no packet to it is dropped for an ARP request.
KnownIsFound == sent.kind = "request" => ~sent.known
===============================================================================
