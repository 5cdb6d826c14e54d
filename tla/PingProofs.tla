------------------------------ MODULE PingProofs ------------------------------
(***************************************************************************)
(* For every set of addresses, every range of sequence numbers and every   *)
(* number of nodes, MACs and pings: what a frame is sent to and which      *)
(* reply is printed for which ping, however the command thread and the     *)
(* process thread interleave.                                              *)
(***************************************************************************)
EXTENDS Ping, SequenceTheorems, TLAPS

-------------------------------------------------------------------------------
\* The shared bucket.  Every step on it is one of these.
ArpNext ==
    \/ \E a \in Addr : arp_insert(a) \/ move(a) \/ get_mac_by_ip(a)
    \/ write_ip \/ write_mac_1 \/ write_mac_2 \/ set_valid \/ link
    \/ test \/ advance \/ return \/ copy_1 \/ copy_2 \/ arp_request

\* The nodes that can be reached: the head, and 1 .. Linked behind it.
Linked == IF writer.cur = Root THEN nodes ELSE nodes - 1

\* What the process thread has written of the node it is at.
WriterInv ==
    LET n == node[writer.cur]
    IN  /\ writer.at = "idle" => writer.cur = Root
        /\ writer.at # "idle" => writer.ip \in Addr
        /\ writer.cur # Root => writer.cur = nodes /\ node[Root].valid
        /\ writer.at = "ip" => ~n.valid
        /\ writer.at \in {"mac_1", "mac_2"} => (n.valid <=> writer.cur = Root /\ node[Root].valid)
        /\ writer.at \in {"mac_1", "mac_2", "valid", "link"} => n.ip = writer.ip
        /\ writer.at \in {"mac_2", "valid", "link"} => n.mac[1] = TheHalf
        /\ writer.at \in {"valid", "link"} => n.mac[2] = TheHalf
        /\ writer.at = "valid" => ~n.valid
        /\ writer.at = "link" => writer.cur # Root /\ n.valid /\ n.next = node[Root].next

\* A valid node is complete, but for a second half that is being replaced.
NodeInv ==
    \A n \in NodeId : node[n].valid =>
        /\ node[n].ip \in Addr
        /\ node[n].mac[1].of = node[n].ip /\ node[n].mac[2].of = node[n].ip
        /\ node[n].mac[1] # node[n].mac[2] => writer.at = "mac_2" /\ writer.cur = n

\* The chain is the head, the newest linked node, and on to the oldest.
ChainInv ==
    /\ node[Root].next = IF Linked = 0 THEN NULL ELSE Linked
    /\ \A n \in NodeId : 0 < n /\ n <= Linked =>
           node[n].valid /\ node[n].next = IF n = 1 THEN NULL ELSE n - 1
    /\ \A n \in NodeId : n > nodes => ~node[n].valid
    /\ ~node[Root].valid => nodes = 0

LearnedInv == \A a \in learned : \E n \in NodeId : n <= Linked /\ node[n].valid /\ node[n].ip = a

\* What a walk that is at c can still come to.
Behind(c) == {m \in NodeId : 0 < m /\ IF c = Root THEN m <= Linked ELSE m < c}

ReaderInv ==
    /\ reader.at \in {"test", "advance", "return"} => node[Root].valid /\ reader.cur <= Linked
    /\ reader.at \in {"advance", "return"} => node[reader.cur].next # NULL
    /\ reader.known /\ reader.at = "test" =>
           \E m \in Behind(reader.cur) : node[m].ip = reader.ip
    /\ reader.known /\ reader.at = "advance" =>
           \E m \in Behind(reader.cur) : m < node[reader.cur].next /\ node[m].ip = reader.ip
    /\ reader.at = "return" => reader.raced \/ node[node[reader.cur].next].ip = reader.ip
    /\ reader.at \in {"copy_1", "copy_2"} =>
           /\ reader.ptr \in NodeId /\ reader.ptr <= Linked /\ node[reader.ptr].valid
           /\ reader.raced \/ node[reader.ptr].ip = reader.ip
    /\ reader.at = "copy_2" =>
           /\ reader.half.of = node[reader.ptr].ip
           /\ ~reader.torn => \A i \in {1, 2} : node[reader.ptr].mac[i] = reader.half
    /\ reader.at = "request" => ~reader.known

ArpInv ==
    /\ ArpTypeOK /\ WriterInv /\ NodeInv /\ ChainInv /\ LearnedInv /\ ReaderInv
    /\ FrameToOwner /\ KnownIsFound

-------------------------------------------------------------------------------
\* The records of the bucket and what is made of them have their types.
LEMMA ArpConstants ==
    /\ Root \in NodeId /\ NULL \notin NodeId
    /\ Unset \in Half /\ Blank \in Node /\ Resting \in Writer /\ Waiting \in Reader
<1>1. Root \in NodeId /\ NULL \notin NodeId /\ 0 \in 0 .. MaxMoves
    BY BoundAssumption DEF Root, NULL, NodeId
<1>2. Unset \in Half
    BY <1>1 DEF Half, Unset, Ip
<1>3. Blank \in Node
    BY <1>2 DEF Node, Blank, Mac, Ip
<1>4. Resting \in Writer
    BY <1>1 DEF Writer, Resting, Ip
<1>5. Waiting \in Reader
    BY <1>1, <1>2 DEF Reader, Waiting, Ip
<1> QED
    BY <1>1, <1>2, <1>3, <1>4, <1>5

LEMMA NodeChanges ==
    ASSUME NEW n \in Node, NEW a \in Ip, NEW h \in Half, NEW m \in NodeId \cup {NULL}
    PROVE  /\ [n EXCEPT !.ip = a] \in Node
           /\ [n EXCEPT !.mac[1] = h] \in Node
           /\ [n EXCEPT !.mac[2] = h] \in Node
           /\ [n EXCEPT !.valid = TRUE, !.next = m] \in Node
           /\ [n EXCEPT !.next = m] \in Node
<1>1. [n EXCEPT !.ip = a] \in Node /\ [n EXCEPT !.next = m] \in Node
    BY DEF Node
<1>2. [n EXCEPT !.mac[1] = h] \in Node
    BY DEF Node, Mac
<1>3. [n EXCEPT !.mac[2] = h] \in Node
    BY DEF Node, Mac
<1>4. [n EXCEPT !.valid = TRUE, !.next = m] \in Node
    BY DEF Node
<1> QED
    BY <1>1, <1>2, <1>3, <1>4

\* A store changes of a node only what is stored.
LEMMA NodeStored ==
    ASSUME NEW n \in Node, NEW a, NEW h \in Half, NEW m
    PROVE  /\ LET u == [n EXCEPT !.ip = a]
              IN  u.ip = a /\ u.mac = n.mac /\ u.valid = n.valid /\ u.next = n.next
           /\ LET u == [n EXCEPT !.mac[1] = h]
              IN  /\ u.ip = n.ip /\ u.valid = n.valid /\ u.next = n.next
                  /\ u.mac[1] = h /\ u.mac[2] = n.mac[2]
           /\ LET u == [n EXCEPT !.mac[2] = h]
              IN  /\ u.ip = n.ip /\ u.valid = n.valid /\ u.next = n.next
                  /\ u.mac[1] = n.mac[1] /\ u.mac[2] = h
           /\ LET u == [n EXCEPT !.valid = TRUE, !.next = m]
              IN  u.ip = n.ip /\ u.mac = n.mac /\ u.valid = TRUE /\ u.next = m
           /\ LET u == [n EXCEPT !.next = m]
              IN  u.ip = n.ip /\ u.mac = n.mac /\ u.valid = n.valid /\ u.next = m
BY DEF Node, Mac

LEMMA ReaderChanges ==
    ASSUME NEW r \in Reader, NEW c \in NodeId, NEW p \in NodeId \cup {NULL}, NEW h \in Half,
           NEW b \in BOOLEAN,
           NEW at \in {"idle", "test", "advance", "return", "copy_1", "copy_2", "request"}
    PROVE  /\ [r EXCEPT !.at = at] \in Reader
           /\ [r EXCEPT !.at = at, !.cur = c] \in Reader
           /\ [r EXCEPT !.at = at, !.ptr = p] \in Reader
           /\ [r EXCEPT !.at = at, !.half = h, !.torn = b] \in Reader
           /\ [r EXCEPT !.torn = b] \in Reader
           /\ [r EXCEPT !.raced = b] \in Reader
BY DEF Reader

LEMMA Membership ==
    ASSUME NEW a, NEW S
    PROVE  (a \in S) = TRUE \/ (a \in S) = FALSE
OBVIOUS

LEMMA WalkBegun ==
    ASSUME NEW S, NEW a \in Ip, NEW p \in NodeId \cup {NULL},
           NEW at \in {"idle", "test", "advance", "return", "copy_1", "copy_2", "request"}
    PROVE  [Waiting EXCEPT !.at = at, !.ip = a, !.ptr = p, !.known = a \in S] \in Reader
<1>1. [Waiting EXCEPT !.at = at, !.ip = a, !.ptr = p, !.known = TRUE] \in Reader
    BY ArpConstants DEF Reader
<1>2. [Waiting EXCEPT !.at = at, !.ip = a, !.ptr = p, !.known = FALSE] \in Reader
    BY ArpConstants DEF Reader
<1>3. (a \in S) = TRUE \/ (a \in S) = FALSE
    BY Membership, Zenon
<1> QED
    BY <1>1, <1>2, <1>3, Zenon

\* The types of the bucket's variables.
LEMMA ArpTypes ==
    ArpTypeOK /\ WriterInv /\ ReaderInv /\ [ArpNext]_arpVars => ArpTypeOK'
<1> SUFFICES ASSUME ArpTypeOK, WriterInv, ReaderInv, [ArpNext]_arpVars PROVE ArpTypeOK'
    OBVIOUS
<1> USE ArpConstants
<1> USE DEF ArpTypeOK
<1>a. /\ writer.at \in {"idle", "ip", "mac_1", "mac_2", "valid", "link"}
      /\ writer.ip \in Ip /\ writer.number \in 0 .. MaxMoves /\ writer.cur \in NodeId
    BY DEF Writer
<1>b. /\ node[writer.cur] \in Node /\ node[Root] \in Node
      /\ node[Root].next \in NodeId \cup {NULL}
    BY <1>a DEF Node
<1>c. /\ reader.ip \in Ip /\ reader.cur \in NodeId /\ reader.ptr \in NodeId \cup {NULL}
      /\ reader.half \in Half
      /\ reader.known \in BOOLEAN /\ reader.raced \in BOOLEAN /\ reader.torn \in BOOLEAN
    BY DEF Reader
<1>d. node[reader.cur].next \in NodeId \cup {NULL}
    BY <1>c DEF Node
<1>e. TheHalf \in Half
    BY <1>a DEF TheHalf, Half
<1>f. ASSUME NEW at \in {"idle", "ip", "mac_1", "mac_2", "valid", "link"}
      PROVE  [writer EXCEPT !.at = at] \in Writer
    BY <1>a DEF Writer
<1>g. Torn \in Reader
    BY ReaderChanges, <1>c DEF Torn
<1>h. writer.at # "idle" => writer.ip \in Addr
    BY DEF WriterInv
<1>i. reader.at \in {"copy_1", "copy_2"} => reader.ptr \in NodeId
    BY DEF ReaderInv
<1>1. CASE \E a \in Addr : arp_insert(a)
  <2> PICK a \in Addr : arp_insert(a)
      BY <1>1
  <2>0. nodes' = nodes \/ (nodes < MaxNode /\ nodes' = nodes + 1)
      BY DEF arp_insert
  <2>1. /\ nodes' \in 0 .. MaxNode
        /\ nodes < MaxNode => nodes + 1 \in NodeId
      BY <2>0, BoundAssumption DEF NodeId
  <2>2. /\ a \in Ip /\ number[a] \in 0 .. MaxMoves
      BY DEF Ip
  <2>3. ASSUME NEW n \in NodeId, NEW at \in {"ip", "mac_1"}
        PROVE  [at |-> at, ip |-> a, number |-> number[a], cur |-> n] \in Writer
      BY <2>2 DEF Writer
  <2>4. writer' \in Writer
      BY <2>1, <2>3 DEF arp_insert
  <2> QED
      BY <2>1, <2>4 DEF arp_insert
<1>2. CASE \E a \in Addr : move(a)
    BY <1>2, BoundAssumption DEF move
<1>3. CASE \E a \in Addr : get_mac_by_ip(a)
  <2> PICK a \in Addr : get_mac_by_ip(a)
      BY <1>3
  <2>1. ASSUME NEW p \in NodeId \cup {NULL}, NEW at \in {"request", "copy_1", "test"}
        PROVE  [Waiting EXCEPT !.at = at, !.ip = a, !.ptr = p, !.known = a \in learned] \in Reader
      BY WalkBegun DEF Ip
  <2>2. reader' \in Reader
      BY <2>1 DEF get_mac_by_ip
  <2> QED
      BY <2>2 DEF get_mac_by_ip, ReaderOnly
<1>4. CASE write_ip
  <2>1. [Cur EXCEPT !.ip = writer.ip] \in Node
      BY NodeChanges, <1>a, <1>b, <1>e DEF Cur
  <2> QED
      BY <2>1, <1>4, <1>a, <1>f DEF write_ip, WriteTo, WriterTo
<1>5. CASE write_mac_1
  <2>1. [Cur EXCEPT !.mac[1] = TheHalf] \in Node
      BY NodeChanges, <1>a, <1>b, <1>e DEF Cur
  <2> QED
      BY <2>1, <1>5, <1>a, <1>f, <1>g DEF write_mac_1, WriteTo, WriterTo
<1>6. CASE write_mac_2
  <2>1. [Cur EXCEPT !.mac[2] = TheHalf] \in Node
      BY NodeChanges, <1>a, <1>b, <1>e DEF Cur
  <2>2. writer' \in Writer
      BY <1>6, <1>f DEF write_mac_2, Learn, WriterTo
  <2>3. learned' \subseteq Addr
      BY <1>6, <1>h DEF write_mac_2, Learn, WriterTo
  <2> QED
      BY <2>1, <2>2, <2>3, <1>6, <1>a, <1>g DEF write_mac_2, WriteTo
<1>7. CASE set_valid
  <2> DEFINE m == IF writer.cur = Root THEN node[writer.cur].next ELSE node[Root].next
  <2>1. m \in NodeId \cup {NULL}
      BY <1>a, <1>b DEF Node
  <2>2. [Cur EXCEPT !.valid = TRUE, !.next = m] \in Node
      BY <2>1, NodeChanges, <1>a, <1>b, <1>e DEF Cur
  <2>3. node' = [node EXCEPT ![writer.cur] = [Cur EXCEPT !.valid = TRUE, !.next = m]]
      BY <1>7 DEF set_valid, WriteTo, Cur
  <2> HIDE DEF m
  <2> QED
      BY <2>2, <2>3, <1>7, <1>a, <1>f, <1>h DEF set_valid, Learn, WriterTo
<1>8. CASE link
  <2>1. [node[Root] EXCEPT !.next = writer.cur] \in Node
      BY NodeChanges, <1>a, <1>b, <1>e
  <2>2. reader' \in Reader
      BY <1>8, ReaderChanges, <1>c DEF link
  <2> QED
      BY <2>1, <2>2, <1>8, <1>a, <1>h DEF link, WriteTo, Learn
<1>9. CASE test
  <2>1. reader' \in Reader
      BY <1>9, ReaderChanges, <1>c DEF test, ReaderTo
  <2> QED
      BY <2>1, <1>9 DEF test, ReaderOnly
<1>10. CASE advance
  <2>1. node[reader.cur].next \in NodeId
      BY <1>10, <1>d DEF advance, ReaderInv
  <2>2. reader' \in Reader
      BY <1>10, <2>1, ReaderChanges, <1>c DEF advance
  <2> QED
      BY <2>2, <1>10 DEF advance, ReaderOnly
<1>11. CASE return
  <2>2. reader' \in Reader
      BY <1>11, <1>d, ReaderChanges, <1>c DEF return
  <2> QED
      BY <2>2, <1>11 DEF return, ReaderOnly
<1>12. CASE copy_1
  <2>1. reader.ptr \in NodeId
      BY <1>12, <1>i DEF copy_1
  <2>2. node[reader.ptr].mac[1] \in Half
      BY <2>1 DEF Node, Mac
  <2>3. reader' \in Reader
      BY <1>12, <2>2, ReaderChanges, <1>c DEF copy_1, Halfway
  <2> QED
      BY <2>3, <1>12 DEF copy_1, ReaderOnly
<1>13. CASE copy_2
  <2>1. reader.ptr \in NodeId
      BY <1>13, <1>i DEF copy_2
  <2>2. node[reader.ptr].mac[2] \in Half
      BY <2>1 DEF Node, Mac
  <2>3. sent' \in Sent
      BY <1>13, <2>2, <1>c DEF copy_2, Finish, Sent, Mac
  <2> QED
      BY <2>3, <1>13 DEF copy_2, Finish, ReaderOnly
<1>14. CASE arp_request
  <2>1. sent' \in Sent
      BY <1>14, <1>c DEF arp_request, Finish, Sent, Mac
  <2> QED
      BY <2>1, <1>14 DEF arp_request, Finish, ReaderOnly
<1>15. CASE UNCHANGED arpVars
    BY <1>15 DEF arpVars
<1> QED
    BY <1>1, <1>2, <1>3, <1>4, <1>5, <1>6, <1>7, <1>8, <1>9, <1>10, <1>11, <1>12, <1>13, <1>14,
       <1>15 DEF ArpNext

-------------------------------------------------------------------------------
\* The writing thread, step by step.
LEMMA ArpWriter ==
    ASSUME ArpTypeOK, WriterInv, NodeInv, ChainInv, LearnedInv,
           \/ \E a \in Addr : arp_insert(a) \/ move(a)
           \/ write_ip \/ write_mac_1 \/ write_mac_2 \/ set_valid \/ link
    PROVE  WriterInv' /\ NodeInv' /\ ChainInv' /\ LearnedInv'
<1> DEFINE c == writer.cur
<1>a. /\ writer.at \in {"idle", "ip", "mac_1", "mac_2", "valid", "link"}
      /\ c \in NodeId /\ Root \in NodeId /\ Root = 0
      /\ nodes \in Nat /\ nodes <= MaxNode /\ MaxNode \in Nat
    BY ArpConstants, BoundAssumption DEF ArpTypeOK, Writer, Root
<1>b. \A n \in NodeId : n \in Nat /\ n <= MaxNode
    BY BoundAssumption DEF NodeId
<1>c. \A n \in NodeId : node[n] \in Node
    BY DEF ArpTypeOK
<1>d. writer \in Writer /\ DOMAIN node = NodeId
    BY DEF ArpTypeOK
<1>e. TheHalf.of = writer.ip
    BY DEF TheHalf
<1>f. \A at \in {"mac_1", "mac_2", "valid", "link"} :
          LET w == [writer EXCEPT !.at = at]
          IN  w.at = at /\ w.ip = writer.ip /\ w.cur = c /\ w.number = writer.number
    BY <1>d DEF Writer
<1>g. TheHalf \in Half
    BY <1>d DEF TheHalf, Half, Writer
<1>h. c \in Nat /\ c <= MaxNode
    BY <1>a, <1>b
<1>j. Resting.cur = Root /\ Resting.at = "idle"
    BY DEF Resting
<1>i. Linked = IF c = Root THEN nodes ELSE nodes - 1
    BY DEF Linked
<1>4. CASE write_ip
  <2>1. /\ writer.at = "ip" /\ writer' = [writer EXCEPT !.at = "mac_1"]
        /\ node' = [node EXCEPT ![c] = [node[c] EXCEPT !.ip = writer.ip]]
        /\ nodes' = nodes /\ learned' = learned
      BY <1>4 DEF write_ip, WriteTo, Cur, WriterTo
  <2>2. /\ writer'.at = "mac_1" /\ writer'.ip = writer.ip /\ writer'.cur = c
        /\ writer'.number = writer.number
      BY <2>1, <1>f
  <2>3. /\ \A n \in NodeId : n # c => node'[n] = node[n]
        /\ node'[c].ip = writer.ip /\ node'[c].mac = node[c].mac
        /\ node'[c].valid = node[c].valid /\ node'[c].next = node[c].next
      BY <2>1, <1>a, <1>c, <1>d, NodeStored, <1>g
  <2>4. Linked' = Linked
      BY <2>1, <2>2 DEF Linked
  <2>5. \A n \in NodeId : node'[n].valid = node[n].valid /\ node'[n].next = node[n].next
      BY <2>3
  <2>6. WriterInv'
      BY <1>a, <1>b, <1>h, <2>1, <2>2, <2>3, <2>5 DEF WriterInv, ChainInv
  <2>7. NodeInv'
      BY <1>a, <1>b, <1>h, <2>1, <2>2, <2>3 DEF NodeInv, WriterInv
  <2>8. ChainInv'
      BY <1>a, <1>b, <1>h, <2>1, <2>4, <2>5 DEF ChainInv
  <2>9. LearnedInv'
      BY <1>a, <1>b, <1>h, <2>1, <2>2, <2>3, <2>4 DEF LearnedInv, WriterInv
  <2> QED
      BY <2>6, <2>7, <2>8, <2>9
<1>1. CASE \E a \in Addr : arp_insert(a)
  <2> PICK a \in Addr : arp_insert(a)
      BY <1>1
  <2>1. /\ writer.at = "idle" /\ c = Root /\ Linked = nodes
        /\ node' = node /\ learned' = learned
      BY DEF arp_insert, WriterInv, Linked
  <2>2. \/ /\ ~node[Root].valid /\ nodes' = nodes
           /\ writer'.at = "ip" /\ writer'.cur = Root /\ writer'.ip = a
        \/ /\ node[Root].valid /\ node[Root].ip = a /\ nodes' = nodes
           /\ writer'.at = "mac_1" /\ writer'.cur = Root /\ writer'.ip = a
        \/ /\ node[Root].valid /\ nodes < MaxNode /\ nodes' = nodes + 1
           /\ writer'.at = "ip" /\ writer'.cur = nodes + 1 /\ writer'.ip = a
      BY DEF arp_insert
  <2>3. Linked' = Linked
      BY <1>a, <1>b, <1>h, <2>1, <2>2 DEF Linked
  <2>4. nodes < MaxNode => nodes + 1 \in NodeId /\ nodes + 1 > nodes
      BY <1>a DEF NodeId
  <2>5. WriterInv'
      BY <1>a, <1>b, <1>h, <2>1, <2>2, <2>4 DEF WriterInv, ChainInv
  <2>6. NodeInv'
      BY <2>1 DEF NodeInv
  <2>7. \A n \in NodeId : n > nodes' => n > nodes
      BY <1>a, <1>b, <1>h, <2>2
  <2>8. ChainInv'
      BY <1>a, <1>b, <1>h, <2>1, <2>2, <2>3, <2>7 DEF ChainInv
  <2>9. LearnedInv'
      BY <2>1, <2>3 DEF LearnedInv
  <2> QED
      BY <2>5, <2>6, <2>8, <2>9
<1>2. CASE \E a \in Addr : move(a)
    BY <1>2 DEF move, WriterInv, NodeInv, ChainInv, LearnedInv, Linked, TheHalf
<1>5. CASE write_mac_1
  <2>1. /\ writer.at = "mac_1" /\ writer' = [writer EXCEPT !.at = "mac_2"]
        /\ node' = [node EXCEPT ![c] = [node[c] EXCEPT !.mac[1] = TheHalf]]
        /\ nodes' = nodes /\ learned' = learned
      BY <1>5 DEF write_mac_1, WriteTo, Cur, WriterTo
  <2>2. /\ writer'.at = "mac_2" /\ writer'.ip = writer.ip /\ writer'.cur = c
        /\ TheHalf' = TheHalf
      BY <2>1, <1>f, <1>a DEF TheHalf
  <2>3. /\ \A n \in NodeId : n # c => node'[n] = node[n]
        /\ node'[c].mac[1] = TheHalf /\ node'[c].mac[2] = node[c].mac[2]
        /\ node'[c].ip = node[c].ip
        /\ node'[c].valid = node[c].valid /\ node'[c].next = node[c].next
      BY <2>1, <1>a, <1>c, <1>d, <1>g, NodeStored
  <2>4. Linked' = Linked
      BY <2>1, <2>2 DEF Linked
  <2>5. \A n \in NodeId : /\ node'[n].valid = node[n].valid /\ node'[n].next = node[n].next
                          /\ node'[n].ip = node[n].ip
      BY <2>3
  <2>6. WriterInv'
      BY <1>a, <1>b, <1>h, <2>1, <2>2, <2>3, <2>5 DEF WriterInv
  <2>7. NodeInv'
      BY <1>a, <1>b, <1>h, <1>e, <2>1, <2>2, <2>3 DEF NodeInv, WriterInv
  <2>8. ChainInv'
      BY <1>a, <1>b, <1>h, <2>1, <2>4, <2>5 DEF ChainInv
  <2>9. LearnedInv'
      BY <1>a, <1>b, <1>h, <2>1, <2>2, <2>4, <2>5 DEF LearnedInv
  <2> QED
      BY <2>6, <2>7, <2>8, <2>9
<1>6. CASE write_mac_2
  <2>1. /\ writer.at = "mac_2"
        /\ node' = [node EXCEPT ![c] = [node[c] EXCEPT !.mac[2] = TheHalf]]
        /\ nodes' = nodes
        /\ \/ node[c].valid /\ writer' = Resting /\ learned' = learned \cup {writer.ip}
           \/ ~node[c].valid /\ writer' = [writer EXCEPT !.at = "valid"] /\ learned' = learned
      BY <1>6 DEF write_mac_2, WriteTo, Cur, WriterTo, Learn
  <2>2. /\ writer'.cur = c
        /\ \/ node[c].valid /\ c = Root /\ writer'.at = "idle"
           \/ /\ ~node[c].valid /\ writer'.at = "valid"
              /\ writer'.ip = writer.ip /\ TheHalf' = TheHalf
    <3>1. node[c].valid => c = Root
        BY <2>1 DEF WriterInv
    <3> QED
        BY <2>1, <3>1, <1>f, <1>j DEF TheHalf
  <2>3. /\ \A n \in NodeId : n # c => node'[n] = node[n]
        /\ node'[c].mac[1] = node[c].mac[1] /\ node'[c].mac[2] = TheHalf
        /\ node'[c].ip = node[c].ip
        /\ node'[c].valid = node[c].valid /\ node'[c].next = node[c].next
      BY <2>1, <1>a, <1>c, <1>d, <1>g, NodeStored
  <2>4. Linked' = Linked
      BY <2>1, <2>2 DEF Linked
  <2>5. \A n \in NodeId : /\ node'[n].valid = node[n].valid /\ node'[n].next = node[n].next
                          /\ node'[n].ip = node[n].ip
      BY <2>3
  <2>6. WriterInv'
      BY <1>a, <1>b, <1>h, <2>1, <2>2, <2>3, <2>5 DEF WriterInv
  <2>7. NodeInv'
      BY <1>a, <1>b, <1>h, <1>e, <2>1, <2>2, <2>3 DEF NodeInv, WriterInv
  <2>8. ChainInv'
      BY <1>a, <1>b, <1>h, <2>1, <2>4, <2>5 DEF ChainInv
  <2>9. \A a \in learned' : \E n \in NodeId : n <= Linked /\ node[n].valid /\ node[n].ip = a
    <3>1. CASE node[c].valid
      <4>1. Root <= Linked /\ node[Root].ip = writer.ip /\ c = Root
          BY <1>a, <1>b, <1>h, <2>2, <3>1, <2>1 DEF Linked, WriterInv
      <4> QED
          BY <1>a, <3>1, <4>1, <2>1 DEF LearnedInv
    <3>2. CASE ~node[c].valid
        BY <3>2, <2>1 DEF LearnedInv
    <3> QED
        BY <3>1, <3>2
  <2>10. LearnedInv'
      BY <2>9, <2>4, <2>5 DEF LearnedInv
  <2> QED
      BY <2>6, <2>7, <2>8, <2>10
<1>7. CASE set_valid
  <2>1. /\ writer.at = "valid"
        /\ node' = [node EXCEPT ![c] = [node[c] EXCEPT !.valid = TRUE, !.next = node[Root].next]]
        /\ nodes' = nodes
        /\ \/ c = Root /\ writer' = Resting /\ learned' = learned \cup {writer.ip}
           \/ c # Root /\ writer' = [writer EXCEPT !.at = "link"] /\ learned' = learned
      BY <1>7, <1>c DEF set_valid, WriteTo, Cur, WriterTo, Learn
  <2>2. /\ writer'.cur = c
        /\ \/ c = Root /\ writer'.at = "idle"
           \/ /\ c # Root /\ writer'.at = "link"
              /\ writer'.ip = writer.ip /\ TheHalf' = TheHalf
      BY <2>1, <1>f, <1>j DEF TheHalf
  <2>3. /\ \A n \in NodeId : n # c => node'[n] = node[n]
        /\ node'[c].mac = node[c].mac /\ node'[c].ip = node[c].ip
        /\ node'[c].valid = TRUE /\ node'[c].next = node[Root].next
        /\ node'[Root].next = node[Root].next
      BY <2>1, <1>a, <1>c, <1>d, <1>g, NodeStored
  <2>4. Linked' = Linked
      BY <2>1, <2>2 DEF Linked
  <2>5. ~node[c].valid /\ node[c].ip = writer.ip /\ writer.ip \in Addr
        /\ node[c].mac[1] = TheHalf /\ node[c].mac[2] = TheHalf
        /\ (c # Root => c = nodes /\ node[Root].valid)
      BY <2>1 DEF WriterInv
  <2>6. WriterInv'
      BY <1>a, <1>b, <1>h, <2>1, <2>2, <2>3, <2>5 DEF WriterInv
  <2>7. NodeInv'
      BY <1>a, <1>b, <1>h, <1>e, <2>1, <2>2, <2>3, <2>5 DEF NodeInv
  <2>8. ChainInv'
    <3>1. c # Root => Linked < c
        BY <1>a, <1>b, <1>h, <2>5 DEF Linked
    <3>2. c = Root => ~(0 < c)
        BY <1>a
    <3>3. \A n \in NodeId : 0 < n /\ n <= Linked => n # c
        BY <3>1, <3>2, <1>a DEF Linked
    <3>4. \A n \in NodeId : n > nodes => n # c
        BY <2>5, <1>a
    <3> QED
        BY <1>a, <1>b, <1>h, <2>1, <2>3, <2>4, <2>5, <3>3, <3>4 DEF ChainInv
  <2>9. \A a \in learned' : \E n \in NodeId : n <= Linked /\ node'[n].valid /\ node'[n].ip = a
    <3>1. CASE c = Root
      <4>1. Root <= Linked
          BY <1>a, <1>b, <1>h, <3>1 DEF Linked
      <4> QED
          BY <1>a, <3>1, <4>1, <2>1, <2>3, <2>5 DEF LearnedInv
    <3>2. CASE c # Root
        BY <3>2, <2>1, <2>3 DEF LearnedInv
    <3> QED
        BY <3>1, <3>2
  <2>10. LearnedInv'
      BY <2>9, <2>4 DEF LearnedInv
  <2> QED
      BY <2>6, <2>7, <2>8, <2>10
<1>8. CASE link
  <2>1. /\ writer.at = "link"
        /\ node' = [node EXCEPT ![Root] = [node[Root] EXCEPT !.next = c]]
        /\ nodes' = nodes /\ writer' = Resting /\ learned' = learned \cup {writer.ip}
      BY <1>8 DEF link, WriteTo, Learn
  <2>2. writer'.cur = Root /\ writer'.at = "idle"
      BY <2>1 DEF Resting
  <2>3. /\ \A n \in NodeId : n # Root => node'[n] = node[n]
        /\ node'[Root].mac = node[Root].mac /\ node'[Root].ip = node[Root].ip
        /\ node'[Root].valid = node[Root].valid /\ node'[Root].next = c
      BY <2>1, <1>a, <1>c, <1>d, <1>g, NodeStored
  <2>4. /\ c # Root /\ c = nodes /\ node[Root].valid /\ node[c].valid
        /\ node[c].ip = writer.ip /\ node[c].next = node[Root].next
      BY <2>1 DEF WriterInv
  <2>5. Linked' = nodes /\ Linked = nodes - 1 /\ nodes > 0
      BY <1>a, <1>b, <1>h, <2>1, <2>2, <2>4 DEF Linked
  <2>6. WriterInv'
      BY <2>2 DEF WriterInv
  <2>7. NodeInv'
      BY <1>a, <1>b, <1>h, <2>1, <2>2, <2>3, <2>4 DEF NodeInv
  <2>8. ChainInv'
    <3>1. \A n \in NodeId : 0 < n /\ n <= nodes => n # Root /\ (n = nodes \/ n <= Linked)
        BY <1>a, <1>b, <1>h, <2>5
    <3>2. node[nodes].next = IF nodes = 1 THEN NULL ELSE nodes - 1
        BY <1>a, <1>b, <1>h, <2>4, <2>5 DEF ChainInv
    <3>3. nodes # 0
        BY <1>a, <1>b, <1>h, <2>5
    <3> QED
        BY <1>a, <1>b, <1>h, <2>1, <2>3, <2>4, <2>5, <3>1, <3>2, <3>3 DEF ChainInv
  <2>9. LearnedInv'
    <3>1. \A n \in NodeId : n <= Linked => n <= Linked'
        BY <1>a, <1>b, <1>h, <2>5
    <3>2. \A n \in NodeId : node'[n].valid = node[n].valid /\ node'[n].ip = node[n].ip
        BY <2>3
    <3>3. c <= Linked'
        BY <1>a, <1>b, <1>h, <2>4, <2>5
    <3> QED
        BY <1>a, <1>b, <1>h, <2>1, <2>4, <3>1, <3>2, <3>3 DEF LearnedInv
  <2> QED
      BY <2>6, <2>7, <2>8, <2>9
<1> QED
    BY <1>1, <1>2, <1>4, <1>5, <1>6, <1>7, <1>8

\* What a walk sees of a step of the writing thread: valid nodes stay and stay linked to
\* the same ones, only the head gets a new neighbour; what a walk might have missed is
\* noted in raced and torn.
LEMMA WriterSeen ==
    ASSUME ArpTypeOK, WriterInv, ChainInv,
           \/ \E a \in Addr : arp_insert(a) \/ move(a)
           \/ write_ip \/ write_mac_1 \/ write_mac_2 \/ set_valid \/ link
    PROVE  /\ \A n \in NodeId : node[n].valid =>
                 /\ node'[n].valid /\ node'[n].ip = node[n].ip
                 /\ n # Root => node'[n].next = node[n].next
           /\ \/ node'[Root].next = node[Root].next /\ Linked' = Linked
              \/ /\ node'[Root].next = Linked' /\ Linked' = Linked + 1
                 /\ Linked' <= MaxNode
                 /\ reader.at = "return" /\ reader.cur = Root => reader'.raced
           /\ /\ reader'.at = reader.at /\ reader'.ip = reader.ip /\ reader'.cur = reader.cur
              /\ reader'.ptr = reader.ptr /\ reader'.half = reader.half
              /\ reader'.known = reader.known
              /\ reader.raced => reader'.raced
              /\ ~reader'.torn => ~reader.torn
           /\ reader.at = "copy_2" /\ ~reader'.torn /\ reader.ptr \in NodeId /\ node[reader.ptr].valid
                  => node'[reader.ptr].mac = node[reader.ptr].mac
           /\ sent' = sent
<1> DEFINE c == writer.cur
<1>a. /\ writer.at \in {"idle", "ip", "mac_1", "mac_2", "valid", "link"}
      /\ c \in NodeId /\ Root \in NodeId
      /\ nodes \in Nat /\ nodes <= MaxNode /\ MaxNode \in Nat
    BY ArpConstants, BoundAssumption DEF ArpTypeOK, Writer
<1>b. \A n \in NodeId : n \in Nat /\ n <= MaxNode
    BY BoundAssumption DEF NodeId
<1>c. (\A n \in NodeId : node[n] \in Node) /\ DOMAIN node = NodeId
    BY DEF ArpTypeOK
<1>d. TheHalf \in Half
    BY DEF ArpTypeOK, TheHalf, Half, Writer
<1>e. /\ Resting.cur = Root
      /\ \A at : [writer EXCEPT !.at = at].cur = c
    BY DEF Resting, ArpTypeOK, Writer
<1>f. reader \in Reader
    BY DEF ArpTypeOK
<1>g. /\ LET r == [reader EXCEPT !.torn = TRUE]
         IN  /\ r.at = reader.at /\ r.ip = reader.ip /\ r.cur = reader.cur /\ r.ptr = reader.ptr
             /\ r.half = reader.half /\ r.known = reader.known /\ r.raced = reader.raced
             /\ r.torn = TRUE
      /\ LET r == [reader EXCEPT !.raced = TRUE]
         IN  /\ r.at = reader.at /\ r.ip = reader.ip /\ r.cur = reader.cur /\ r.ptr = reader.ptr
             /\ r.half = reader.half /\ r.known = reader.known /\ r.torn = reader.torn
             /\ r.raced = TRUE
    BY <1>f DEF Reader
<1>1. CASE \E a \in Addr : arp_insert(a)
  <2> PICK a \in Addr : arp_insert(a)
      BY <1>1
  <2>1. node' = node /\ reader' = reader /\ sent' = sent
      BY DEF arp_insert
  <2>2. Linked' = Linked
    <3>1. writer.at = "idle" /\ writer.cur = Root
        BY DEF arp_insert, WriterInv
    <3>2. \/ writer'.cur = Root /\ nodes' = nodes
          \/ writer'.cur = nodes + 1 /\ nodes' = nodes + 1
        BY DEF arp_insert
    <3> QED
        BY <1>a, <3>1, <3>2 DEF Linked, Root
  <2> QED
      BY <2>1, <2>2
<1>2. CASE \E a \in Addr : move(a)
    BY <1>2 DEF move, Linked
<1>3. CASE write_ip
  <2>1. /\ ~node[c].valid /\ Linked' = Linked /\ reader' = reader /\ sent' = sent
        /\ node' = [node EXCEPT ![c] = [node[c] EXCEPT !.ip = writer.ip]]
      BY <1>3, <1>e DEF write_ip, WriteTo, Cur, WriterTo, WriterInv, Linked
  <2>2. \A n \in NodeId : (n # c => node'[n] = node[n]) /\ node'[n].next = node[n].next
      BY <2>1, <1>a, <1>c, <1>d, NodeStored
  <2> QED
      BY <2>1, <2>2, <1>a
<1>4. CASE write_mac_1
  <2>1. /\ Linked' = Linked /\ reader' = Torn /\ sent' = sent
        /\ node' = [node EXCEPT ![c] = [node[c] EXCEPT !.mac[1] = TheHalf]]
      BY <1>4, <1>e DEF write_mac_1, WriteTo, Cur, WriterTo, Linked
  <2>2. \A n \in NodeId : /\ n # c => node'[n] = node[n]
                          /\ node'[n].next = node[n].next /\ node'[n].valid = node[n].valid
                          /\ node'[n].ip = node[n].ip
      BY <2>1, <1>a, <1>c, <1>d, NodeStored
  <2> QED
      BY <2>1, <2>2, <1>a, <1>g DEF Torn
<1>5. CASE write_mac_2
  <2>1. /\ reader' = Torn /\ sent' = sent /\ nodes' = nodes
        /\ node' = [node EXCEPT ![c] = [node[c] EXCEPT !.mac[2] = TheHalf]]
        /\ writer'.cur = IF node[c].valid THEN Root ELSE c
        /\ node[c].valid => c = Root
      BY <1>5, <1>e DEF write_mac_2, WriteTo, Cur, WriterTo, WriterInv, Learn
  <2>2. \A n \in NodeId : /\ n # c => node'[n] = node[n]
                          /\ node'[n].next = node[n].next /\ node'[n].valid = node[n].valid
                          /\ node'[n].ip = node[n].ip
      BY <2>1, <1>a, <1>c, <1>d, NodeStored
  <2>3. Linked' = Linked
      BY <2>1 DEF Linked
  <2> QED
      BY <2>1, <2>2, <2>3, <1>a, <1>g DEF Torn
<1>6. CASE set_valid
  <2>1. /\ reader' = reader /\ sent' = sent /\ nodes' = nodes
        /\ node' = [node EXCEPT ![c] = [node[c] EXCEPT !.valid = TRUE, !.next = node[Root].next]]
        /\ writer'.cur = c /\ ~node[c].valid
      BY <1>6, <1>e DEF set_valid, WriteTo, Cur, WriterTo, WriterInv, Learn
  <2>2. /\ \A n \in NodeId : n # c => node'[n] = node[n]
        /\ node'[Root].next = node[Root].next
      BY <2>1, <1>a, <1>c, <1>d, NodeStored
  <2>3. Linked' = Linked
      BY <2>1 DEF Linked
  <2> QED
      BY <2>1, <2>2, <2>3, <1>a
<1>7. CASE link
  <2>1. /\ sent' = sent /\ nodes' = nodes /\ writer'.cur = Root /\ c # Root /\ c = nodes
        /\ node' = [node EXCEPT ![Root] = [node[Root] EXCEPT !.next = c]]
        /\ reader' = IF reader.at = "return" /\ reader.cur = Root
                     THEN [reader EXCEPT !.raced = TRUE] ELSE reader
      BY <1>7, <1>e DEF link, WriteTo, WriterInv, Learn
  <2>2. /\ \A n \in NodeId : n # Root => node'[n] = node[n]
        /\ node'[Root].next = c /\ node'[Root].mac = node[Root].mac
        /\ node'[Root].valid = node[Root].valid /\ node'[Root].ip = node[Root].ip
      BY <2>1, <1>a, <1>c, <1>d, NodeStored
  <2>3. Linked' = nodes /\ Linked' = Linked + 1
      BY <1>a, <2>1 DEF Linked
  <2>4. \A n \in NodeId : node'[n].mac = node[n].mac
      BY <2>2
  <2> QED
      BY <2>1, <2>2, <2>3, <2>4, <1>a, <1>g
<1> QED
    BY <1>1, <1>2, <1>3, <1>4, <1>5, <1>6, <1>7

\* Whatever the writing thread does, a walk stays sound.
LEMMA ReaderUnderWriter ==
    ASSUME ArpInv,
           \/ \E a \in Addr : arp_insert(a) \/ move(a)
           \/ write_ip \/ write_mac_1 \/ write_mac_2 \/ set_valid \/ link
    PROVE  ReaderInv' /\ FrameToOwner' /\ KnownIsFound'
<1>a. ArpTypeOK /\ WriterInv /\ NodeInv /\ ChainInv /\ ReaderInv /\ FrameToOwner /\ KnownIsFound
    BY DEF ArpInv
<1>b. /\ nodes \in Nat /\ nodes <= MaxNode /\ MaxNode \in Nat /\ NULL = MaxNode + 1
      /\ \A n \in NodeId : n \in Nat /\ n <= MaxNode
      /\ Root \in NodeId /\ Root = 0 /\ reader.cur \in NodeId /\ reader.cur \in Nat
    BY <1>a, ArpConstants, BoundAssumption DEF ArpTypeOK, NULL, NodeId, Root, Reader
<1>c. Linked \in Int /\ Linked <= nodes
    BY <1>b DEF Linked
<1>1. /\ \A n \in NodeId : node[n].valid =>
                 /\ node'[n].valid /\ node'[n].ip = node[n].ip
                 /\ n # Root => node'[n].next = node[n].next
      /\ \/ node'[Root].next = node[Root].next /\ Linked' = Linked
         \/ /\ node'[Root].next = Linked' /\ Linked' = Linked + 1
            /\ Linked' <= MaxNode
            /\ reader.at = "return" /\ reader.cur = Root => reader'.raced
      /\ /\ reader'.at = reader.at /\ reader'.ip = reader.ip /\ reader'.cur = reader.cur
         /\ reader'.ptr = reader.ptr /\ reader'.half = reader.half
         /\ reader'.known = reader.known
         /\ reader.raced => reader'.raced
         /\ ~reader'.torn => ~reader.torn
      /\ reader.at = "copy_2" /\ ~reader'.torn /\ reader.ptr \in NodeId /\ node[reader.ptr].valid
             => node'[reader.ptr].mac = node[reader.ptr].mac
      /\ sent' = sent
    BY <1>a, WriterSeen
<1>2. \A n \in NodeId : 0 < n /\ n <= Linked =>
          node[n].valid /\ node[n].next = IF n = 1 THEN NULL ELSE n - 1
    BY <1>a DEF ChainInv
<1>3. node[Root].next = IF Linked = 0 THEN NULL ELSE Linked
    BY <1>a DEF ChainInv
<1>d. Linked <= Linked' /\ Linked' \in Int
    BY <1>c, <1>1
<1>4. ASSUME reader.at \in {"test", "advance", "return"}
      PROVE  /\ node[reader.cur].valid /\ node'[Root].valid /\ reader.cur <= Linked
             /\ reader.cur # Root => node'[reader.cur].next = node[reader.cur].next
  <2>1. node[Root].valid /\ reader.cur <= Linked
      BY <1>4, <1>a DEF ReaderInv
  <2>2. reader.cur # Root => 0 < reader.cur
      BY <1>b
  <2>3. node[reader.cur].valid
      BY <2>1, <2>2, <1>2, <1>b
  <2> QED
      BY <2>1, <2>3, <1>1, <1>b
<1>5. ASSUME reader.at \in {"advance", "return"}
      PROVE  /\ node[reader.cur].next \in NodeId /\ node[reader.cur].next # Root
             /\ node[reader.cur].next <= Linked
  <2>1. node[reader.cur].next # NULL
      BY <1>a, <1>5 DEF ReaderInv
  <2>2. CASE reader.cur = Root
    <3>1. node[Root].next = Linked /\ Linked # 0
        BY <2>1, <2>2, <1>3
    <3>2. node[Root].next \in NodeId
        BY <2>1, <2>2, <1>a, <1>b DEF ArpTypeOK, Node
    <3> QED
        BY <3>1, <3>2, <2>2, <1>b, <1>c, Linked <= Linked
  <2>3. CASE reader.cur # Root
    <3>1. 0 < reader.cur /\ reader.cur <= Linked
        BY <2>3, <1>4, <1>5, <1>b
    <3>2. node[reader.cur].next = reader.cur - 1 /\ reader.cur # 1
        BY <3>1, <1>2, <2>1, <1>b
    <3>3. node[reader.cur].next \in NodeId
        BY <2>1, <1>a, <1>b DEF ArpTypeOK, Node
    <3> QED
        BY <3>1, <3>2, <3>3, <1>b, <1>c
  <2> QED
      BY <2>2, <2>3
<1>6. reader'.at \in {"test", "advance", "return"} => node'[Root].valid /\ reader'.cur <= Linked'
  <2> SUFFICES ASSUME reader.at \in {"test", "advance", "return"}
               PROVE  node'[Root].valid /\ reader.cur <= Linked'
      BY <1>1
  <2> QED
      BY <1>4, <1>b, <1>c, <1>d
<1>7. reader'.at \in {"advance", "return"} => node'[reader'.cur].next # NULL'
  <2> SUFFICES ASSUME reader.at \in {"advance", "return"} PROVE node'[reader.cur].next # NULL
      BY <1>1 DEF NULL
  <2>1. CASE reader.cur # Root
      BY <2>1, <1>4, <1>5, <1>b
  <2>2. CASE reader.cur = Root
    <3>1. node'[Root].next = node[Root].next \/ node'[Root].next <= MaxNode
        BY <1>1
    <3>2. node[Root].next # NULL
        BY <2>2, <1>5, <1>b
    <3>3. ~(NULL <= MaxNode)
        BY <1>b
    <3> QED
        BY <3>1, <3>2, <3>3, <2>2
  <2> QED
      BY <2>1, <2>2
<1>8. reader'.known /\ reader'.at = "test" =>
          \E m \in Behind(reader.cur)' : node'[m].ip = reader'.ip
  <2> SUFFICES ASSUME reader.known, reader.at = "test"
               PROVE  \E m \in Behind(reader.cur)' : node'[m].ip = reader.ip
      BY <1>1
  <2> PICK m \in Behind(reader.cur) : node[m].ip = reader.ip
      BY <1>a DEF ReaderInv
  <2>1. m \in NodeId /\ 0 < m /\ IF reader.cur = Root THEN m <= Linked ELSE m < reader.cur
      BY DEF Behind
  <2>2. m <= Linked
    <3>1. reader.cur <= Linked
        BY <1>4
    <3>2. m \in Nat /\ reader.cur \in Nat
        BY <2>1, <1>b
    <3> QED
        BY <3>1, <3>2, <2>1, <1>c
  <2>3. node'[m].ip = reader.ip
      BY <2>1, <2>2, <1>1, <1>2
  <2>4. m \in Behind(reader.cur)'
      BY <2>1, <2>2, <1>b, <1>d, <1>c, <1>1 DEF Behind
  <2> QED
      BY <2>3, <2>4
<1>9. reader'.known /\ reader'.at = "advance" =>
          \E m \in Behind(reader.cur)' : m < node'[reader.cur].next /\ node'[m].ip = reader'.ip
  <2> SUFFICES ASSUME reader.known, reader.at = "advance"
               PROVE  \E m \in Behind(reader.cur)' : m < node'[reader.cur].next /\ node'[m].ip = reader.ip
      BY <1>1
  <2> PICK m \in Behind(reader.cur) : m < node[reader.cur].next /\ node[m].ip = reader.ip
      BY <1>a DEF ReaderInv
  <2>1. m \in NodeId /\ 0 < m /\ IF reader.cur = Root THEN m <= Linked ELSE m < reader.cur
      BY DEF Behind
  <2>2. m <= Linked
    <3>1. reader.cur <= Linked
        BY <1>4
    <3>2. m \in Nat /\ reader.cur \in Nat
        BY <2>1, <1>b
    <3> QED
        BY <3>1, <3>2, <2>1, <1>c
  <2>3. node'[m].ip = reader.ip
      BY <2>1, <2>2, <1>1, <1>2
  <2>4. m \in Behind(reader.cur)'
      BY <2>1, <2>2, <1>b, <1>d, <1>c, <1>1 DEF Behind
  <2>5. m < node'[reader.cur].next
    <3>1. CASE reader.cur # Root
        BY <3>1, <1>4
    <3>2. CASE reader.cur = Root
        BY <3>2, <2>1, <2>2, <1>1, <1>b, <1>c
    <3> QED
        BY <3>1, <3>2
  <2> QED
      BY <2>3, <2>4, <2>5
<1>10. reader'.at = "return" => reader'.raced \/ node'[node'[reader.cur].next].ip = reader'.ip
  <2> SUFFICES ASSUME reader.at = "return", ~reader'.raced
               PROVE  node'[node'[reader.cur].next].ip = reader.ip
      BY <1>1
  <2>1. node'[reader.cur].next = node[reader.cur].next
      BY <1>1, <1>4
  <2>2. node[node[reader.cur].next].ip = reader.ip
      BY <1>1, <1>a DEF ReaderInv
  <2>3. node[node[reader.cur].next].valid
    <3> DEFINE n == node[reader.cur].next
    <3>1. n \in NodeId /\ n <= Linked /\ n # 0
        BY <1>5, <1>b
    <3> HIDE DEF n
    <3>2. 0 < n
        BY <3>1, <1>b
    <3> QED
        BY <3>1, <3>2, <1>2 DEF n
  <2> QED
      BY <2>1, <2>2, <2>3, <1>5, <1>1
<1>11. reader'.at \in {"copy_1", "copy_2"} =>
           /\ reader'.ptr \in NodeId /\ reader'.ptr <= Linked' /\ node'[reader'.ptr].valid
           /\ reader'.raced \/ node'[reader'.ptr].ip = reader'.ip
  <2> SUFFICES ASSUME reader.at \in {"copy_1", "copy_2"}
               PROVE  /\ reader.ptr \in NodeId /\ reader.ptr <= Linked' /\ node'[reader.ptr].valid
                      /\ reader'.raced \/ node'[reader.ptr].ip = reader.ip
      BY <1>1
  <2>1. /\ reader.ptr \in NodeId /\ reader.ptr <= Linked /\ node[reader.ptr].valid
        /\ reader.raced \/ node[reader.ptr].ip = reader.ip
      BY <1>a DEF ReaderInv
  <2>2. reader.ptr <= Linked'
    <3>1. reader.ptr \in Nat
        BY <2>1, <1>b
    <3> QED
        BY <3>1, <2>1, <1>c, <1>d
  <2> QED
      BY <2>1, <2>2, <1>1
<1>12. reader'.at = "copy_2" =>
           /\ reader'.half.of = node'[reader'.ptr].ip
           /\ ~reader'.torn => \A i \in {1, 2} : node'[reader'.ptr].mac[i] = reader'.half
    BY <1>1, <1>a DEF ReaderInv
<1>13. reader'.at = "request" => ~reader'.known
    BY <1>1, <1>a DEF ReaderInv
<1>14. ReaderInv'
    BY <1>1, <1>6, <1>7, <1>8, <1>9, <1>10, <1>11, <1>12, <1>13 DEF ReaderInv, NodeId
<1> QED
    BY <1>14, <1>1, <1>a DEF FrameToOwner, KnownIsFound

-------------------------------------------------------------------------------
\* The walk, step by step.
LEMMA ArpReader ==
    ASSUME ArpInv,
           \/ \E a \in Addr : get_mac_by_ip(a)
           \/ test \/ advance \/ return \/ copy_1 \/ copy_2 \/ arp_request
    PROVE  ReaderInv' /\ FrameToOwner' /\ KnownIsFound'
<1>a. ArpTypeOK /\ WriterInv /\ NodeInv /\ ChainInv /\ LearnedInv /\ ReaderInv
      /\ FrameToOwner /\ KnownIsFound
    BY DEF ArpInv
<1>b. /\ nodes \in Nat /\ nodes <= MaxNode /\ MaxNode \in Nat /\ NULL = MaxNode + 1
      /\ \A n \in NodeId : n \in Nat /\ n <= MaxNode
      /\ Root \in NodeId /\ Root = 0 /\ reader.cur \in NodeId /\ reader.cur \in Nat
    BY <1>a, ArpConstants, BoundAssumption DEF ArpTypeOK, NULL, NodeId, Root, Reader
<1>c. Linked \in Int /\ Linked <= nodes
    BY <1>b DEF Linked
<1>d. /\ reader \in Reader /\ \A n \in NodeId : node[n] \in Node
    BY <1>a DEF ArpTypeOK
<1>e. \A n \in NodeId : 0 < n /\ n <= Linked =>
          node[n].valid /\ node[n].next = IF n = 1 THEN NULL ELSE n - 1
    BY <1>a DEF ChainInv
<1>f. node[Root].next = IF Linked = 0 THEN NULL ELSE Linked
    BY <1>a DEF ChainInv
<1>g. node' = node /\ writer' = writer /\ nodes' = nodes /\ Linked' = Linked
    BY DEF get_mac_by_ip, test, advance, return, copy_1, copy_2, arp_request, Finish, ReaderOnly,
           Linked
<1>h. \A c : Behind(c)' = Behind(c)
    BY <1>g DEF Behind
<1>i. /\ \A at : LET r == [reader EXCEPT !.at = at]
                 IN  /\ r.at = at /\ r.ip = reader.ip /\ r.cur = reader.cur /\ r.ptr = reader.ptr
                     /\ r.half = reader.half /\ r.known = reader.known
                     /\ r.raced = reader.raced /\ r.torn = reader.torn
      /\ \A at, c : LET r == [reader EXCEPT !.at = at, !.cur = c]
                    IN  r.at = at /\ r.ip = reader.ip /\ r.cur = c /\ r.known = reader.known
      /\ \A at, p : LET r == [reader EXCEPT !.at = at, !.ptr = p]
                    IN  r.at = at /\ r.ip = reader.ip /\ r.ptr = p /\ r.raced = reader.raced
      /\ \A at, h, b : LET r == [reader EXCEPT !.at = at, !.half = h, !.torn = b]
                       IN  /\ r.at = at /\ r.ip = reader.ip /\ r.ptr = reader.ptr
                           /\ r.raced = reader.raced /\ r.half = h /\ r.torn = b
    BY <1>d DEF Reader
\* Where a node points to that has a neighbour.
<1>j. ASSUME reader.at \in {"test", "advance", "return"}, node[reader.cur].next # NULL
      PROVE  LET next == node[reader.cur].next
             IN  /\ next \in NodeId /\ 0 < next /\ next <= Linked /\ node[next].valid
                 /\ reader.cur # Root => next = reader.cur - 1
  <2> DEFINE next == node[reader.cur].next
  <2>1. next \in NodeId
      BY <1>j, <1>b, <1>d DEF Node
  <2>2. reader.cur <= Linked
      BY <1>j, <1>a DEF ReaderInv
  <2>3. CASE reader.cur = Root
    <3>1. next = Linked /\ Linked # 0
        BY <2>3, <1>f, <1>j
    <3> HIDE DEF next
    <3>2. next \in Nat /\ next <= Linked /\ next # 0
        BY <3>1, <2>1, <1>b
    <3>3. 0 < next
        BY <3>2
    <3> QED
        BY <3>2, <3>3, <2>1, <1>e, <2>3 DEF next
  <2>4. CASE reader.cur # Root
    <3>1. 0 < reader.cur
        BY <2>4, <1>b
    <3>2. next = reader.cur - 1 /\ reader.cur # 1
        BY <3>1, <2>2, <1>e, <1>b, <1>j
    <3> HIDE DEF next
    <3>3. 0 < next /\ next <= Linked
        BY <3>1, <3>2, <2>2, <1>b, <1>c
    <3> QED
        BY <3>2, <3>3, <2>1, <1>e DEF next
  <2> QED
      BY <2>3, <2>4
<1>1. CASE \E a \in Addr : get_mac_by_ip(a)
  <2> PICK a \in Addr : get_mac_by_ip(a)
      BY <1>1
  <2>1. /\ sent' = sent /\ reader'.ip = a /\ reader'.cur = Root
        /\ reader'.known <=> a \in learned
        /\ \/ ~node[Root].valid /\ reader'.at = "request"
           \/ node[Root].valid /\ node[Root].ip = a /\ reader'.at = "copy_1" /\ reader'.ptr = Root
           \/ node[Root].valid /\ node[Root].ip # a /\ reader'.at = "test"
      BY DEF get_mac_by_ip, Waiting
  <2>2. ASSUME reader'.known, node[Root].ip # a \/ ~node[Root].valid
        PROVE  node[Root].valid /\ \E m \in Behind(Root) : node[m].ip = a
    <3>1. a \in learned
        BY <2>1, <2>2
    <3> PICK n \in NodeId : n <= Linked /\ node[n].valid /\ node[n].ip = a
        BY <3>1, <1>a DEF LearnedInv
    <3>2. n # Root
        BY <2>2
    <3>3. 0 < n /\ n \in Nat
        BY <3>2, <1>b
    <3>4. nodes # 0
        BY <3>3, <1>b, <1>c
    <3>5. n \in Behind(Root)
        BY <3>3 DEF Behind
    <3> QED
        BY <3>4, <3>5, <1>a DEF ChainInv
  <2>3. node[Root].valid => 0 <= Linked
    <3>1. writer.cur # Root => nodes # 0
        BY <1>a, <1>b DEF WriterInv
    <3> QED
        BY <3>1, <1>b DEF Linked
  <2>4. ReaderInv'
      BY <2>1, <2>2, <2>3, <1>b, <1>g, <1>h DEF ReaderInv
  <2> QED
      BY <2>1, <2>4, <1>a DEF FrameToOwner, KnownIsFound
<1>2. CASE test
  <2> DEFINE next == node[reader.cur].next
  <2>1. /\ reader.at = "test" /\ sent' = sent
        /\ reader' = [reader EXCEPT !.at = IF next = NULL THEN "request"
                    ELSE IF node[next].ip = reader.ip /\ node[reader.cur].valid THEN "return"
                    ELSE "advance"]
      BY <1>2 DEF test, ReaderTo
  <2>2. /\ reader'.ip = reader.ip /\ reader'.cur = reader.cur /\ reader'.known = reader.known
        /\ \/ next = NULL /\ reader'.at = "request"
           \/ next # NULL /\ node[next].ip = reader.ip /\ reader'.at = "return"
           \/ /\ next # NULL /\ reader'.at = "advance"
              /\ ~(node[next].ip = reader.ip /\ node[reader.cur].valid)
      BY <2>1, <1>i
  <2>3. node[Root].valid /\ reader.cur <= Linked
      BY <2>1, <1>a DEF ReaderInv
  <2>4. node[reader.cur].valid
    <3>1. reader.cur # Root => 0 < reader.cur
        BY <1>b
    <3> QED
        BY <3>1, <2>3, <1>b, <1>e
  <2>5. ASSUME reader.known
        PROVE  /\ next # NULL
               /\ \E m \in Behind(reader.cur) : node[m].ip = reader.ip /\ (m < next \/ m = next)
    <3> PICK m \in Behind(reader.cur) : node[m].ip = reader.ip
        BY <2>5, <2>1, <1>a DEF ReaderInv
    <3>1. m \in NodeId /\ 0 < m /\ IF reader.cur = Root THEN m <= Linked ELSE m < reader.cur
        BY DEF Behind
    <3>2. m \in Nat
        BY <3>1, <1>b
    <3>3. CASE reader.cur = Root
      <4>1. Linked # 0 /\ next = Linked
          BY <3>3, <3>1, <3>2, <1>c, <1>f
      <4>2. Linked # NULL
          BY <1>b, <1>c
      <4> HIDE DEF next
      <4>3. m < next \/ m = next
          BY <3>1, <3>2, <3>3, <4>1, <1>c
      <4> QED
          BY <4>1, <4>2, <4>3
    <3>4. CASE reader.cur # Root
      <4>1. reader.cur # 1 /\ 0 < reader.cur
          BY <3>4, <3>1, <3>2, <1>b
      <4>2. next = reader.cur - 1
          BY <4>1, <2>3, <1>b, <1>e
      <4>3. next # NULL
          BY <4>2, <2>3, <1>b, <1>c
      <4> HIDE DEF next
      <4>4. m < next \/ m = next
          BY <3>1, <3>2, <3>4, <4>2, <1>b
      <4> QED
          BY <4>3, <4>4
    <3> QED
        BY <3>3, <3>4
  <2>6. ReaderInv'
      BY <2>2, <2>3, <2>4, <2>5, <1>g, <1>h DEF ReaderInv
  <2> QED
      BY <2>1, <2>6, <1>a DEF FrameToOwner, KnownIsFound
<1>3. CASE advance
  <2> DEFINE next == node[reader.cur].next
  <2>1. /\ reader.at = "advance" /\ sent' = sent /\ next # NULL /\ node[Root].valid
        /\ reader' = [reader EXCEPT !.at = "test", !.cur = next]
      BY <1>3, <1>a DEF advance, ReaderInv
  <2>2. /\ reader'.at = "test" /\ reader'.ip = reader.ip /\ reader'.cur = next
        /\ reader'.known = reader.known
      BY <2>1, <1>i
  <2>3. next \in NodeId /\ 0 < next /\ next <= Linked
      BY <2>1, <1>j
  <2>4. ASSUME reader.known
        PROVE  \E m \in Behind(next) : node[m].ip = reader.ip
    <3> PICK m \in Behind(reader.cur) : m < next /\ node[m].ip = reader.ip
        BY <2>4, <2>1, <1>a DEF ReaderInv
    <3> HIDE DEF next
    <3>1. next # Root
        BY <2>3, <1>b
    <3> QED
        BY <3>1 DEF Behind
  <2> HIDE DEF next
  <2>5. ReaderInv'
      BY <2>1, <2>2, <2>3, <2>4, <1>g, <1>h DEF ReaderInv
  <2> QED
      BY <2>1, <2>5, <1>a DEF FrameToOwner, KnownIsFound
<1>4. CASE return
  <2> DEFINE next == node[reader.cur].next
  <2>1. /\ reader.at = "return" /\ sent' = sent /\ next # NULL
        /\ reader.raced \/ node[next].ip = reader.ip
        /\ reader' = [reader EXCEPT !.at = "copy_1", !.ptr = next]
      BY <1>4, <1>a DEF return, ReaderInv
  <2>2. /\ reader'.at = "copy_1" /\ reader'.ip = reader.ip /\ reader'.ptr = next
        /\ reader'.raced = reader.raced
      BY <2>1, <1>i
  <2>3. next \in NodeId /\ next <= Linked /\ node[next].valid
      BY <2>1, <1>j
  <2> HIDE DEF next
  <2>4. ReaderInv'
      BY <2>1, <2>2, <2>3, <1>g DEF ReaderInv
  <2> QED
      BY <2>1, <2>4, <1>a DEF FrameToOwner, KnownIsFound
<1>5. CASE copy_1
  <2>1. /\ reader.at = "copy_1" /\ sent' = sent
        /\ reader.ptr \in NodeId /\ reader.ptr <= Linked /\ node[reader.ptr].valid
        /\ reader.raced \/ node[reader.ptr].ip = reader.ip
        /\ reader' = [reader EXCEPT !.at = "copy_2", !.half = node[reader.ptr].mac[1],
                                    !.torn = Halfway]
      BY <1>5, <1>a DEF copy_1, ReaderInv
  <2>2. /\ reader'.at = "copy_2" /\ reader'.ip = reader.ip /\ reader'.ptr = reader.ptr
        /\ reader'.raced = reader.raced /\ reader'.half = node[reader.ptr].mac[1]
        /\ reader'.torn = Halfway
      BY <2>1, <1>i
  <2>3. /\ node[reader.ptr].mac[1].of = node[reader.ptr].ip
        /\ node[reader.ptr].mac[1] # node[reader.ptr].mac[2] => Halfway
      BY <2>1, <1>a DEF NodeInv, Halfway
  <2>4. ReaderInv'
      BY <2>1, <2>2, <2>3, <1>g DEF ReaderInv
  <2> QED
      BY <2>1, <2>4, <1>a DEF FrameToOwner, KnownIsFound
<1>6. CASE copy_2
  <2> DEFINE n == node[reader.ptr]
  <2>1. /\ reader.at = "copy_2" /\ reader' = Waiting
        /\ sent'.kind = "frame" /\ sent'.ip = reader.ip /\ sent'.mac = <<reader.half, n.mac[2]>>
        /\ sent'.raced = reader.raced /\ sent'.torn = reader.torn
      BY <1>6 DEF copy_2, Finish
  <2>2. /\ reader.ptr \in NodeId /\ n.valid /\ (reader.raced \/ n.ip = reader.ip)
        /\ reader.half.of = n.ip
        /\ ~reader.torn => n.mac[2] = reader.half
      BY <2>1, <1>a DEF ReaderInv
  <2>3. n.ip \in Addr /\ n.mac[2].of = n.ip
      BY <2>2, <1>a DEF NodeInv
  <2>4. reader.half # Unset /\ n.mac[2] # Unset
      BY <2>2, <2>3, AddrAssumption DEF Unset
  <2> HIDE DEF n
  <2>5. sent'.mac[1] = reader.half /\ sent'.mac[2] = n.mac[2]
      BY <2>1
  <2>6. FrameToOwner'
      BY <2>1, <2>2, <2>3, <2>4, <2>5 DEF FrameToOwner, Unset
  <2>7. ReaderInv'
      BY <2>1 DEF ReaderInv, Waiting
  <2> QED
      BY <2>1, <2>6, <2>7 DEF KnownIsFound
<1>7. CASE arp_request
  <2>1. /\ reader.at = "request" /\ reader' = Waiting
        /\ sent'.kind = "request" /\ sent'.known = reader.known
      BY <1>7 DEF arp_request, Finish
  <2>2. ReaderInv'
      BY <2>1 DEF ReaderInv, Waiting
  <2> QED
      BY <2>1, <2>2, <1>a DEF FrameToOwner, KnownIsFound, ReaderInv
<1> QED
    BY <1>1, <1>2, <1>3, <1>4, <1>5, <1>6, <1>7

\* The invariant of the shared bucket holds at the start and is kept by every step on it.
LEMMA ArpInitial ==
    ArpInit => ArpInv
<1> SUFFICES ASSUME ArpInit PROVE ArpInv
    OBVIOUS
<1>1. /\ node = [n \in NodeId |-> Blank] /\ nodes = 0 /\ writer = Resting /\ reader = Waiting
      /\ learned = {} /\ sent.kind = "none"
    BY DEF ArpInit
<1>2. Root \in NodeId /\ \A n \in NodeId : n \in Nat
    BY BoundAssumption, ArpConstants DEF NodeId
<1>3. ArpTypeOK
  <2>1. sent \in Sent
      BY ArpConstants DEF ArpInit, Sent, Mac, Ip
  <2> QED
      BY <2>1, ArpConstants, BoundAssumption DEF ArpInit, ArpTypeOK
<1>4. WriterInv /\ NodeInv /\ LearnedInv /\ ReaderInv
    BY <1>1, <1>2 DEF WriterInv, NodeInv, LearnedInv, ReaderInv, Resting, Waiting, Blank
<1>5. ChainInv
    BY <1>1, <1>2 DEF ChainInv, Linked, Resting, Blank
<1>6. FrameToOwner /\ KnownIsFound
    BY <1>1 DEF FrameToOwner, KnownIsFound
<1> QED
    BY <1>3, <1>4, <1>5, <1>6 DEF ArpInv

LEMMA ArpStep ==
    ArpInv /\ [ArpNext]_arpVars => ArpInv'
<1> SUFFICES ASSUME ArpInv, [ArpNext]_arpVars PROVE ArpInv'
    OBVIOUS
<1>1. ArpTypeOK'
    BY ArpTypes DEF ArpInv
<1>2. CASE \/ \E a \in Addr : arp_insert(a) \/ move(a)
           \/ write_ip \/ write_mac_1 \/ write_mac_2 \/ set_valid \/ link
    BY <1>1, <1>2, ArpWriter, ReaderUnderWriter DEF ArpInv
<1>3. CASE \/ \E a \in Addr : get_mac_by_ip(a)
           \/ test \/ advance \/ return \/ copy_1 \/ copy_2 \/ arp_request
  <2>1. ReaderInv' /\ FrameToOwner' /\ KnownIsFound'
      BY <1>3, ArpReader
  <2>2. UNCHANGED <<node, nodes, writer, learned>>
      BY <1>3 DEF get_mac_by_ip, test, advance, return, copy_1, copy_2, arp_request, Finish,
                  ReaderOnly
  <2>3. WriterInv' /\ NodeInv' /\ ChainInv' /\ LearnedInv'
      BY <2>2 DEF ArpInv, WriterInv, NodeInv, ChainInv, LearnedInv, Linked, TheHalf
  <2> QED
      BY <1>1, <2>1, <2>3 DEF ArpInv
<1>4. CASE UNCHANGED arpVars
  <2>1. UNCHANGED <<node, nodes, writer, learned, reader, sent>>
      BY <1>4 DEF arpVars
  <2>2. WriterInv' /\ NodeInv' /\ ChainInv' /\ LearnedInv'
      BY <2>1 DEF ArpInv, WriterInv, NodeInv, ChainInv, LearnedInv, Linked, TheHalf
  <2>3. ReaderInv' /\ FrameToOwner' /\ KnownIsFound'
      BY <2>1 DEF ArpInv, ReaderInv, Behind, Linked, FrameToOwner, KnownIsFound
  <2> QED
      BY <1>1, <2>2, <2>3 DEF ArpInv
<1> QED
    BY <1>2, <1>3, <1>4 DEF ArpNext

-------------------------------------------------------------------------------
\* The ping command.

\* How far the command thread is, against the requests there may be.
CommandInv ==
    /\ cmd.at # "idle" => cmd.target \in Addr
    /\ cmd.at = "begin" => cmd.left > 0 /\ pings + cmd.left <= MaxPings
    /\ cmd.at \in {"ip_send", "stamp", "sleep", "clear"} =>
           cmd.left > 0 /\ pings > 0 /\ pings + cmd.left <= MaxPings + 1

\* No number is stamped but the one of the ping whose second is running.
StampInv == \A s \in Seqs : icmp_timestamp[s] => s = icmp_seq /\ cmd.at \in {"sleep", "clear"}

\* A request that was not sent has neither come anywhere nor been judged.
FutureInv == \A n \in PingId : n > pings => n \notin arrived /\ verdict[n] = <<>>

Once == {<<"timeout">>, <<"reply", "timeout">>, <<"timeout", "reply">>}

\* What was printed for the ping whose second is running; and while its number is
\* stamped although its reply was printed, the process thread is about to clear it.
VerdictInv ==
    /\ cmd.at \in {"ip_send", "stamp"} => verdict[pings] = <<>>
    /\ cmd.at = "sleep" => verdict[pings] \in {<<>>, <<"reply">>}
    /\ cmd.at = "clear" => verdict[pings] \in Once
    /\ cmd.at \in {"sleep", "clear"} /\ icmp_timestamp[icmp_seq] =>
           \/ verdict[pings] \in {<<>>, <<"timeout">>}
           \/ judging.at = "clear" /\ judging.seq = icmp_seq

PingInv == TypeOK /\ ArpInv /\ CommandInv /\ StampInv /\ FutureInv /\ VerdictInv

-------------------------------------------------------------------------------
\* Numbers and verdicts.

\* Of fewer than SeqMod requests in a row no two have the same number.
LEMMA OwnNumber ==
    ASSUME NEW n \in Nat, NEW m \in Nat, n <= m, n + SeqMod > m, SeqOf(n) = SeqOf(m)
    PROVE  n = m
<1>1. SeqMod \in Nat /\ SeqMod > 0
    BY PingAssumption
<1>2. \A x \in Nat : /\ x % SeqMod \in 0 .. SeqMod - 1 /\ x \div SeqMod \in Int
                     /\ x = SeqMod * (x \div SeqMod) + (x % SeqMod)
    BY <1>1, SMTT(30)
<1> DEFINE p == n \div SeqMod
           q == m \div SeqMod
<1>3. p \in Int /\ q \in Int /\ m - n = SeqMod * q - SeqMod * p
    BY <1>1, <1>2 DEF SeqOf
<1> HIDE DEF p, q
<1>4. m - n = SeqMod * (q - p) /\ 0 <= m - n /\ m - n < SeqMod
    BY <1>1, <1>3, SMTT(30)
<1>5. q - p <= 0
  <2>1. CASE q - p >= 1
    <3>1. SeqMod * (q - p) >= SeqMod
        BY <1>1, <1>3, <2>1, SMTT(30)
    <3> QED
        BY <3>1, <1>1, <1>3, <1>4
  <2> QED
      BY <2>1, <1>3
<1>6. SeqMod * (q - p) <= 0
    BY <1>1, <1>3, <1>5, SMTT(30)
<1> QED
    BY <1>4, <1>6

LEMMA NumberInRange ==
    ASSUME NEW n \in Nat
    PROVE  SeqOf(n) \in Seqs
BY PingAssumption, SMTT(30) DEF SeqOf, Seqs

\* What one more verdict makes of those before.
LEMMA Announced ==
    /\ Append(<<>>, "reply") = <<"reply">>
    /\ Append(<<>>, "timeout") = <<"timeout">>
    /\ Append(<<"reply">>, "timeout") = <<"reply", "timeout">>
    /\ Append(<<"timeout">>, "reply") = <<"timeout", "reply">>
<1>1. /\ <<>> \in Seq(Verdict) /\ Len(<<>>) = 0
      /\ \A v \in Verdict : <<v>> \in Seq(Verdict) /\ Len(<<v>>) = 1 /\ <<v>>[1] = v
      /\ "reply" \in Verdict /\ "timeout" \in Verdict
    BY DEF Verdict
<1>2. \A v \in Verdict : Append(<<>>, v) = <<v>>
    BY <1>1
<1>3. ASSUME NEW u \in Verdict, NEW v \in Verdict PROVE Append(<<u>>, v) = <<u, v>>
  <2>1. /\ Append(<<u>>, v) \in Seq(Verdict) /\ Len(Append(<<u>>, v)) = 2
        /\ Append(<<u>>, v)[1] = u /\ Append(<<u>>, v)[2] = v
    <3>1. Len(<<u>>) = 1 /\ <<u>>[1] = u /\ <<u>> \in Seq(Verdict)
        BY <1>1
    <3> QED
        BY <3>1, AppendProperties
  <2>2. <<u, v>> \in Seq(Verdict) /\ Len(<<u, v>>) = 2 /\ <<u, v>>[1] = u /\ <<u, v>>[2] = v
      OBVIOUS
  <2>3. \A i \in 1 .. 2 : i = 1 \/ i = 2
      OBVIOUS
  <2> QED
      BY <2>1, <2>2, <2>3, SeqEqual
<1> QED
    BY <1>1, <1>2, <1>3

LEMMA AnnouncedOther ==
    ASSUME NEW s \in Seq(Verdict)
    PROVE  s # Append(s, "reply") /\ Append(s, "timeout") # Append(s, "reply")
<1>1. "reply" \in Verdict /\ "timeout" \in Verdict /\ Len(s) \in Nat
    BY DEF Verdict
<1>2. Len(Append(s, "reply")) = Len(s) + 1
    BY <1>1, AppendProperties
<1>3. Append(s, "timeout") # Append(s, "reply")
    BY <1>1, AppendInjective
<1> QED
    BY <1>1, <1>2, <1>3

-------------------------------------------------------------------------------
\* On the shared bucket every step of the ping command and of its surroundings is a
\* step of the bucket.
LEMMA PingOnBucket ==
    ASSUME CommandInv, [Next]_vars
    PROVE  [ArpNext]_arpVars
<1>1. CASE CmdStep
    BY <1>1 DEF CmdStep, icmp_send, ip_send, stamp, wake, give_up, Walk, ArpNext, CommandInv
<1>2. CASE ProcStep
    BY <1>2 DEF ProcStep, release_seq, Insertion, ArpNext
<1>3. CASE Packet
    BY <1>3 DEF Packet, icmp_process, ArpNext
<1>4. CASE Outside
    BY <1>4 DEF Outside, send_ping, ArpNext
<1>5. CASE UNCHANGED vars
    BY <1>5 DEF vars
<1> QED
    BY <1>1, <1>2, <1>3, <1>4, <1>5 DEF Next

\* Every step of the ping command leaves everything but what it is about as it was.
LEMMA PingInvKept ==
    ASSUME PingInv, [Next]_vars
    PROVE  /\ PingInv'
           /\ \A n \in PingId : verdict'[n] = Append(verdict[n], "reply")
                  => n = pings /\ verdict[n] \in {<<>>, <<"timeout">>}
           /\ \A n \in PingId : verdict[n] # <<>> /\ verdict'[n] # verdict[n]
                  => \/ judging.at = "clear" /\ judging.seq = SeqOf(n)
                     \/ cmd.at = "clear" /\ n = pings
<1> DEFINE Own(n)    == verdict'[n] = Append(verdict[n], "reply")
                            => n = pings /\ verdict[n] \in {<<>>, <<"timeout">>}
           Window(n) == verdict[n] # <<>> /\ verdict'[n] # verdict[n]
                            => \/ judging.at = "clear" /\ judging.seq = SeqOf(n)
                               \/ cmd.at = "clear" /\ n = pings
           Good      == /\ TypeOK' /\ CommandInv' /\ StampInv' /\ FutureInv' /\ VerdictInv'
                        /\ \A n \in PingId : Own(n) /\ Window(n)
<1> SUFFICES Good
  <2>1. ArpInv'
      BY PingOnBucket, ArpStep DEF PingInv
  <2> QED
      BY <2>1 DEF PingInv
<1>a. TypeOK /\ ArpInv /\ CommandInv /\ StampInv /\ FutureInv /\ VerdictInv
    BY DEF PingInv
<1>b. ArpTypeOK'
    BY PingOnBucket, ArpStep, <1>a DEF ArpInv
<1>c. /\ pings \in Nat /\ pings <= MaxPings /\ MaxPings \in Nat
      /\ cmd.left \in Nat /\ cmd.left <= Times /\ Times \in Nat /\ cmd.target \in Ip
      /\ cmd.at \in {"idle", "begin", "ip_send", "stamp", "sleep", "clear"}
      /\ cmd = [at |-> cmd.at, target |-> cmd.target, left |-> cmd.left]
    BY <1>a, PingAssumption DEF TypeOK
<1>d. /\ icmp_timestamp \in [Seqs -> BOOLEAN] /\ arrived \subseteq PingId
      /\ verdict \in [PingId -> Seq(Verdict)]
      /\ judging \in [at : {"idle", "clear"}, seq : Seqs]
    BY <1>a DEF TypeOK
<1>e. icmp_seq = SeqOf(pings) /\ icmp_seq \in Seqs
    BY <1>c, NumberInRange DEF icmp_seq
<1>f. \A n \in PingId : n \in Nat /\ verdict[n] \in Seq(Verdict) /\ verdict[n] # Append(verdict[n], "reply")
    BY <1>d, AnnouncedOther DEF PingId
<1>g. "reply" \in Verdict /\ "timeout" \in Verdict
    BY DEF Verdict
\* A step that leaves the stamps, the verdicts and the requests alone.
<1>k. ASSUME UNCHANGED pingVars PROVE Good
  <2>1. TypeOK' /\ CommandInv'
      BY <1>k, <1>a, <1>b DEF pingVars, TypeOK, CommandInv
  <2>2. StampInv' /\ FutureInv' /\ VerdictInv'
      BY <1>k, <1>a DEF pingVars, StampInv, FutureInv, VerdictInv, icmp_seq
  <2>3. \A n \in PingId : Own(n) /\ Window(n)
      BY <1>k, <1>f DEF pingVars
  <2> QED
      BY <2>1, <2>2, <2>3
<1>1. CASE \E a \in Addr : send_ping(a)
  <2> PICK a \in Addr : send_ping(a)
      BY <1>1
  <2>1. /\ cmd.at = "idle" /\ pings + Times <= MaxPings
        /\ cmd' = [at |-> "begin", target |-> a, left |-> Times]
        /\ UNCHANGED <<pings, icmp_timestamp, judging, arrived, verdict>>
      BY DEF send_ping
  <2>2. cmd'.at = "begin" /\ cmd'.target = a /\ cmd'.left = Times /\ a \in Ip
      BY <2>1 DEF Ip
  <2>3. TypeOK'
      BY <2>1, <2>2, <1>a, <1>b, PingAssumption DEF TypeOK
  <2>4. CommandInv'
      BY <2>1, <2>2, PingAssumption DEF CommandInv
  <2>5. StampInv' /\ FutureInv' /\ VerdictInv'
      BY <2>1, <2>2, <1>a DEF StampInv, FutureInv, VerdictInv, icmp_seq
  <2> QED
      BY <2>1, <2>3, <2>4, <2>5, <1>f
<1>2. CASE icmp_send
  <2>1. /\ cmd.at = "begin" /\ pings' = pings + 1 /\ cmd' = [cmd EXCEPT !.at = "ip_send"]
        /\ UNCHANGED <<icmp_timestamp, judging, arrived, verdict>>
      BY <1>2 DEF icmp_send, ToCmd
  <2>2. cmd'.at = "ip_send" /\ cmd'.target = cmd.target /\ cmd'.left = cmd.left
      BY <2>1, <1>c
  <2>3. cmd.left > 0 /\ pings + cmd.left <= MaxPings /\ cmd.target \in Addr
      BY <2>1, <1>a DEF CommandInv
  <2>4. pings + 1 \in 0 .. MaxPings /\ pings + 1 \in PingId /\ pings + 1 > pings
        /\ pings + 1 + cmd.left <= MaxPings + 1
      BY <2>3, <1>c DEF PingId
  <2>5. TypeOK'
    <3>1. cmd' \in [at : {"idle", "begin", "ip_send", "stamp", "sleep", "clear"},
                    target : Ip, left : 0 .. Times]
        BY <2>1, <1>c
    <3> QED
        BY <3>1, <2>1, <2>4, <1>a, <1>b DEF TypeOK
  <2>6. CommandInv'
      BY <2>1, <2>2, <2>3, <2>4, <1>c DEF CommandInv
  <2>7. StampInv'
      BY <2>1, <1>a DEF StampInv
  <2>8. FutureInv'
      BY <2>1, <1>a, <1>c, <1>f DEF FutureInv
  <2>9. VerdictInv'
      BY <2>1, <2>2, <2>4, <1>a DEF VerdictInv, FutureInv
  <2> QED
      BY <2>1, <2>5, <2>6, <2>7, <2>8, <2>9, <1>f
<1>3. CASE ip_send
  <2>1. /\ cmd.at = "ip_send"
        /\ UNCHANGED <<pings, icmp_timestamp, judging, verdict>>
        /\ \/ cmd' = cmd /\ arrived' = arrived
           \/ /\ cmd' = [cmd EXCEPT !.at = "stamp"]
              /\ arrived' = arrived \/ arrived' = arrived \cup {pings}
      BY <1>3 DEF ip_send, ToCmd
  <2>2. /\ cmd'.at \in {"ip_send", "stamp"} /\ cmd'.target = cmd.target /\ cmd'.left = cmd.left
        /\ cmd' \in [at : {"idle", "begin", "ip_send", "stamp", "sleep", "clear"},
                     target : Ip, left : 0 .. Times]
      BY <2>1, <1>c
  <2>3. pings \in PingId
      BY <2>1, <1>a, <1>c DEF CommandInv, PingId
  <2>4. TypeOK'
      BY <2>1, <2>2, <2>3, <1>a, <1>b DEF TypeOK
  <2>5. CommandInv'
      BY <2>1, <2>2, <1>a DEF CommandInv
  <2>6. StampInv'
      BY <2>1, <1>a DEF StampInv
  <2>7. FutureInv'
      BY <2>1, <1>a, <1>c, <1>f DEF FutureInv
  <2>8. VerdictInv'
      BY <2>1, <2>2, <1>a DEF VerdictInv
  <2> QED
      BY <2>1, <2>4, <2>5, <2>6, <2>7, <2>8, <1>f
<1>4. CASE stamp
  <2>1. /\ cmd.at = "stamp" /\ cmd' = [cmd EXCEPT !.at = "sleep"]
        /\ icmp_timestamp' = [icmp_timestamp EXCEPT ![icmp_seq] = TRUE]
        /\ UNCHANGED <<pings, judging, arrived, verdict>>
      BY <1>4 DEF stamp, ToCmd
  <2>2. /\ cmd'.at = "sleep" /\ cmd'.target = cmd.target /\ cmd'.left = cmd.left
        /\ cmd' \in [at : {"idle", "begin", "ip_send", "stamp", "sleep", "clear"},
                     target : Ip, left : 0 .. Times]
      BY <2>1, <1>c
  <2>3. TypeOK'
      BY <2>1, <2>2, <1>a, <1>b DEF TypeOK
  <2>4. CommandInv'
      BY <2>1, <2>2, <1>a DEF CommandInv
  <2>5. icmp_seq' = icmp_seq
      BY <2>1 DEF icmp_seq
  <2>6. StampInv'
      BY <2>1, <2>2, <2>5, <1>a, <1>d DEF StampInv
  <2>7. FutureInv'
      BY <2>1, <1>a DEF FutureInv
  <2>8. VerdictInv'
      BY <2>1, <2>2, <1>a DEF VerdictInv
  <2> QED
      BY <2>1, <2>3, <2>4, <2>6, <2>7, <2>8, <1>f
<1>5. CASE wake
  <2>1. /\ cmd.at = "sleep" /\ UNCHANGED <<pings, icmp_timestamp, judging, arrived>>
        /\ \/ /\ icmp_timestamp[icmp_seq]
              /\ verdict' = [verdict EXCEPT ![pings] = Append(verdict[pings], "timeout")]
              /\ cmd' = [cmd EXCEPT !.at = "clear"]
           \/ /\ ~icmp_timestamp[icmp_seq] /\ verdict' = verdict /\ NextPing
      BY <1>5 DEF wake, Announce, ToCmd
  <2>2. pings \in PingId /\ cmd.left > 0 /\ pings + cmd.left <= MaxPings + 1 /\ cmd.target \in Addr
      BY <2>1, <1>a, <1>c DEF CommandInv, PingId
  <2>3. icmp_seq' = icmp_seq
      BY <2>1 DEF icmp_seq
  <2>4. CASE icmp_timestamp[icmp_seq]
    <3>1. /\ cmd'.at = "clear" /\ cmd'.target = cmd.target /\ cmd'.left = cmd.left
          /\ cmd' \in [at : {"idle", "begin", "ip_send", "stamp", "sleep", "clear"},
                       target : Ip, left : 0 .. Times]
        BY <2>1, <2>4, <1>c
    <3>2. /\ verdict'[pings] = Append(verdict[pings], "timeout")
          /\ \A n \in PingId : n # pings => verdict'[n] = verdict[n]
        BY <2>1, <2>2, <2>4, <1>d
    <3>3. verdict' \in [PingId -> Seq(Verdict)]
      <4>1. Append(verdict[pings], "timeout") \in Seq(Verdict)
          BY <2>2, <1>f, <1>g, AppendProperties
      <4> QED
          BY <4>1, <2>1, <2>2, <2>4, <1>d
    <3>4. TypeOK'
        BY <3>1, <3>3, <2>1, <1>a, <1>b DEF TypeOK
    <3>5. CommandInv'
        BY <3>1, <2>1, <2>2, <1>a DEF CommandInv
    <3>6. StampInv'
        BY <3>1, <2>1, <2>3, <1>a DEF StampInv
    <3>7. FutureInv'
        BY <3>2, <2>1, <1>a, <1>c DEF FutureInv
    <3>8. /\ verdict[pings] \in {<<>>, <<"reply">>}
          /\ verdict[pings] # <<>> => judging.at = "clear" /\ judging.seq = icmp_seq
        BY <2>1, <2>4, <1>a DEF VerdictInv
    <3>9. VerdictInv'
      <4>1. CASE verdict[pings] = <<>>
        <5>1. verdict'[pings] = <<"timeout">>
            BY <4>1, <3>2, Announced
        <5> QED
            BY <5>1, <3>1, <2>1, Zenon DEF VerdictInv, Once
      <4>2. CASE verdict[pings] = <<"reply">>
        <5>1. verdict'[pings] = <<"reply", "timeout">>
            BY <4>2, <3>2, Announced
        <5>2. judging.at = "clear" /\ judging.seq = icmp_seq
            BY <4>2, <3>8
        <5> QED
            BY <5>1, <5>2, <3>1, <2>1, <2>3 DEF VerdictInv, Once
      <4> QED
          BY <4>1, <4>2, <3>8
    <3>10. \A n \in PingId : Own(n)
        BY <3>2, <1>f, AnnouncedOther
    <3>11. \A n \in PingId : Window(n)
        BY <3>2, <3>8, <1>e
    <3> QED
        BY <3>4, <3>5, <3>6, <3>7, <3>9, <3>10, <3>11
  <2>5. CASE ~icmp_timestamp[icmp_seq]
    <3>1. verdict' = verdict /\ cmd' = [cmd EXCEPT !.at = IF cmd.left = 1 THEN "idle" ELSE "begin",
                                                   !.left = cmd.left - 1]
        BY <2>1, <2>5 DEF NextPing
    <3>2. /\ cmd'.at = IF cmd.left = 1 THEN "idle" ELSE "begin"
          /\ cmd'.target = cmd.target /\ cmd'.left = cmd.left - 1
          /\ cmd' = [at |-> cmd'.at, target |-> cmd'.target, left |-> cmd'.left]
        BY <3>1, <1>c
    <3>3. cmd'.left \in 0 .. Times
        BY <3>2, <2>2, <1>c
    <3>4. TypeOK'
      <4>1. cmd' \in [at : {"idle", "begin", "ip_send", "stamp", "sleep", "clear"},
                      target : Ip, left : 0 .. Times]
          BY <3>2, <3>3, <1>c
      <4> QED
          BY <4>1, <3>1, <2>1, <1>a, <1>b DEF TypeOK
    <3>5. CommandInv'
        BY <3>2, <2>1, <2>2, <1>c DEF CommandInv
    <3>6. StampInv'
        BY <2>1, <2>3, <2>5, <1>a DEF StampInv
    <3>7. FutureInv' /\ VerdictInv'
        BY <3>1, <3>2, <2>1, <1>a DEF FutureInv, VerdictInv
    <3> QED
        BY <3>1, <3>4, <3>5, <3>6, <3>7, <1>f
  <2> QED
      BY <2>4, <2>5
<1>6. CASE give_up
  <2>1. /\ cmd.at = "clear" /\ UNCHANGED <<pings, judging, arrived, verdict>>
        /\ icmp_timestamp' = [icmp_timestamp EXCEPT ![icmp_seq] = FALSE]
        /\ cmd' = [cmd EXCEPT !.at = IF cmd.left = 1 THEN "idle" ELSE "begin",
                              !.left = cmd.left - 1]
      BY <1>6 DEF give_up, NextPing
  <2>2. pings \in PingId /\ cmd.left > 0 /\ pings + cmd.left <= MaxPings + 1 /\ cmd.target \in Addr
      BY <2>1, <1>a, <1>c DEF CommandInv, PingId
  <2>3. /\ cmd'.at = IF cmd.left = 1 THEN "idle" ELSE "begin"
        /\ cmd'.target = cmd.target /\ cmd'.left = cmd.left - 1
        /\ cmd' = [at |-> cmd'.at, target |-> cmd'.target, left |-> cmd'.left]
      BY <2>1, <1>c
  <2>4. cmd'.left \in 0 .. Times
      BY <2>3, <2>2, <1>c
  <2>5. TypeOK'
    <3>1. cmd' \in [at : {"idle", "begin", "ip_send", "stamp", "sleep", "clear"},
                    target : Ip, left : 0 .. Times]
        BY <2>3, <2>4, <1>c
    <3> QED
        BY <3>1, <2>1, <1>a, <1>b DEF TypeOK
  <2>6. CommandInv'
      BY <2>1, <2>3, <2>2, <1>c DEF CommandInv
  <2>7. StampInv'
    <3>1. \A s \in Seqs : ~icmp_timestamp'[s]
        BY <2>1, <1>a, <1>d DEF StampInv
    <3> QED
        BY <3>1 DEF StampInv
  <2>8. FutureInv' /\ VerdictInv'
      BY <2>1, <2>3, <1>a DEF FutureInv, VerdictInv
  <2> QED
      BY <2>1, <2>5, <2>6, <2>7, <2>8, <1>f
<1>7. CASE release_seq
  <2>1. /\ judging.at = "clear" /\ UNCHANGED <<cmd, pings, arrived, verdict>>
        /\ icmp_timestamp' = [icmp_timestamp EXCEPT ![judging.seq] = FALSE]
        /\ judging' = [judging EXCEPT !.at = "idle"]
      BY <1>7 DEF release_seq
  <2>2. /\ judging' \in [at : {"idle", "clear"}, seq : Seqs]
        /\ icmp_timestamp' \in [Seqs -> BOOLEAN]
        /\ \A s \in Seqs : icmp_timestamp'[s] => icmp_timestamp[s] /\ s # judging.seq
        /\ icmp_seq' = icmp_seq
      BY <2>1, <1>d DEF icmp_seq
  <2>3. TypeOK' /\ CommandInv'
      BY <2>1, <2>2, <1>a, <1>b DEF TypeOK, CommandInv
  <2>4. StampInv'
      BY <2>1, <2>2, <1>a DEF StampInv
  <2>5. FutureInv'
      BY <2>1, <1>a DEF FutureInv
  <2>6. VerdictInv'
      BY <2>1, <2>2, <1>a, <1>e DEF VerdictInv
  <2> QED
      BY <2>1, <2>3, <2>4, <2>5, <2>6, <1>f
<1>8. CASE \E n \in PingId : icmp_process(n)
  <2> PICK n \in PingId : icmp_process(n)
      BY <1>8
  <2>1. /\ judging.at = "idle" /\ UNCHANGED <<cmd, pings, icmp_timestamp, arrived>>
        /\ n \in arrived /\ n + SeqMod > pings /\ icmp_timestamp[SeqOf(n)]
        /\ verdict' = [verdict EXCEPT ![n] = Append(verdict[n], "reply")]
        /\ judging' = [at |-> "clear", seq |-> SeqOf(n)]
      BY DEF icmp_process, Free, Announce
  <2>2. n = pings /\ cmd.at \in {"sleep", "clear"}
    <3>1. SeqOf(n) = icmp_seq /\ cmd.at \in {"sleep", "clear"}
        BY <2>1, <1>a, <1>f, NumberInRange DEF StampInv
    <3>2. n <= pings
        BY <2>1, <1>a, <1>c, <1>f DEF FutureInv
    <3> QED
        BY <3>1, <3>2, <2>1, <1>c, <1>e, <1>f, OwnNumber
  <2>3. verdict[n] \in {<<>>, <<"timeout">>}
      BY <2>1, <2>2, <1>a, <1>e DEF VerdictInv
  <2>4. /\ verdict'[n] = Append(verdict[n], "reply")
        /\ \A i \in PingId : i # n => verdict'[i] = verdict[i]
      BY <2>1, <1>d
  <2>5. TypeOK'
    <3>1. verdict' \in [PingId -> Seq(Verdict)]
        BY <2>1, <1>d, <1>f, <1>g, AppendProperties
    <3>2. judging' \in [at : {"idle", "clear"}, seq : Seqs]
        BY <2>1, <1>f, NumberInRange
    <3> QED
        BY <3>1, <3>2, <2>1, <1>a, <1>b DEF TypeOK
  <2>6. CommandInv' /\ StampInv'
      BY <2>1, <1>a DEF CommandInv, StampInv, icmp_seq
  <2>7. FutureInv'
      BY <2>1, <2>2, <2>4, <1>a, <1>c DEF FutureInv
  <2>8. VerdictInv'
    <3>1. judging'.at = "clear" /\ judging'.seq = icmp_seq' /\ cmd' = cmd /\ pings' = pings
        BY <2>1, <2>2 DEF icmp_seq
    <3>2. CASE cmd.at = "sleep"
      <4>1. verdict[n] = <<>>
          BY <3>2, <2>2, <2>3, <1>a DEF VerdictInv
      <4>2. verdict'[pings] = <<"reply">>
          BY <4>1, <2>2, <2>4, Announced
      <4> QED
          BY <4>2, <3>1, <3>2 DEF VerdictInv
    <3>3. CASE cmd.at = "clear"
      <4>1. verdict[n] = <<"timeout">>
        <5>1. verdict[n] \in Once
            BY <3>3, <2>2, <1>a DEF VerdictInv
        <5>2. <<>> \notin Once
            BY DEF Once
        <5> QED
            BY <5>1, <5>2, <2>3
      <4>2. verdict'[pings] = <<"timeout", "reply">>
          BY <4>1, <2>2, <2>4, Announced
      <4> QED
          BY <4>2, <3>1, <3>3 DEF VerdictInv, Once
    <3> QED
        BY <3>2, <3>3, <2>2
  <2>9. \A i \in PingId : Own(i)
      BY <2>2, <2>3, <2>4, <1>f
  <2>10. \A i \in PingId : Window(i)
    <3>1. verdict[n] # <<>> => cmd.at = "clear"
      <4> SUFFICES ASSUME verdict[n] = <<"timeout">>, cmd.at = "sleep" PROVE FALSE
          BY <2>2, <2>3
      <4>1. <<"timeout">> \notin {<<>>, <<"reply">>}
          OBVIOUS
      <4> QED
          BY <4>1, <2>2, <1>a DEF VerdictInv
    <3> QED
        BY <3>1, <2>2, <2>4
  <2> QED
      BY <2>5, <2>6, <2>7, <2>8, <2>9, <2>10
<1> QED
  <2>1. CASE UNCHANGED vars
      BY <2>1, <1>k DEF vars
  <2>2. CASE Next
      BY <2>2, <1>k, <1>1, <1>2, <1>3, <1>4, <1>5, <1>6, <1>7, <1>8
      DEF Next, CmdStep, ProcStep, Packet, Outside
  <2> QED
      BY <2>1, <2>2

LEMMA PingInitial ==
    Init => PingInv
<1> SUFFICES ASSUME Init PROVE PingInv
    OBVIOUS
<1>1. ArpInv
    BY ArpInitial DEF Init
<1>2. 0 \in Seqs /\ NoAddr \in Ip /\ 0 \in 0 .. MaxPings /\ 0 \in 0 .. Times
    BY PingAssumption DEF Seqs, Ip
<1>3. TypeOK
  <2>1. verdict \in [PingId -> Seq(Verdict)]
      BY EmptySeq DEF Init
  <2> QED
      BY <1>1, <1>2, <2>1 DEF Init, TypeOK, ArpInv
<1>4. CommandInv /\ StampInv /\ FutureInv /\ VerdictInv
    BY DEF Init, CommandInv, StampInv, FutureInv, VerdictInv
<1> QED
    BY <1>1, <1>3, <1>4 DEF PingInv

LEMMA PingInvariant == Spec => []PingInv
    BY PingInitial, PingInvKept, PTL DEF Spec

-------------------------------------------------------------------------------
\* The variables of the ping command and of the bucket keep their types.
THEOREM TypeCorrect == Spec => []TypeOK
<1>1. PingInv => TypeOK
    BY DEF PingInv
<1> QED
    BY <1>1, PingInvariant, PTL

\* A frame goes to a MAC of the host it is for, and to one MAC, but for the two races
\* (get_mac_by_ip and add_ethernet_header against arp_insert).
THEOREM FramesReachOwners == Spec => []FrameToOwner
<1>1. PingInv => FrameToOwner
    BY DEF PingInv, ArpInv
<1> QED
    BY <1>1, PingInvariant, PTL

\* An address that was learned is found by every walk that begins later, whatever is
\* inserted meanwhile (get_mac_by_ip).
THEOREM LearnedIsFound == Spec => []KnownIsFound
<1>1. PingInv => KnownIsFound
    BY DEF PingInv, ArpInv
<1> QED
    BY <1>1, PingInvariant, PTL

\* A reply is printed only for the ping of its own number that is waiting, and once
\* (icmp_process).
THEOREM RepliesAreOwn == Spec => OwnReply
<1>1. PingInv /\ [Next]_vars =>
          [\A n \in PingId : verdict'[n] = Append(verdict[n], "reply")
               => n = pings /\ verdict[n] \in {<<>>, <<"timeout">>}]_vars
    BY PingInvKept
<1> QED
    BY <1>1, PingInvariant, PTL DEF Spec, OwnReply

\* Reply and timeout are both printed for one ping only when its reply was handled
\* between the print of one thread and the clearing of the stamp (icmp_process, send_ping).
THEOREM BothRaced == Spec => BothOnlyInTheWindow
<1>1. PingInv /\ [Next]_vars =>
          [\A n \in PingId : verdict[n] # <<>> /\ verdict'[n] # verdict[n]
               => \/ judging.at = "clear" /\ judging.seq = SeqOf(n)
                  \/ cmd.at = "clear" /\ n = pings]_vars
    BY PingInvKept
<1> QED
    BY <1>1, PingInvariant, PTL DEF Spec, BothOnlyInTheWindow
===============================================================================
