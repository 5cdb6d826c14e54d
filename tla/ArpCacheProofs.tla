---------------------------- MODULE ArpCacheProofs ----------------------------
(***************************************************************************)
(* For every number of buckets, every set of addresses and every chain     *)
(* bound: the ARP cache keeps every node in its bucket and implements the  *)
(* last-writer-wins map of ArpMap.                                         *)
(***************************************************************************)
EXTENDS ArpCache, SequenceTheorems, TLAPS

-------------------------------------------------------------------------------
\* The bucket function stays within the table.
LEMMA IndexInBucket ==
    ASSUME NEW ip \in Ip
    PROVE  Index(ip) \in Bucket
BY CacheSizeAssumption, IpAssumption DEF Index, Bucket

\* What arp_insert makes of a bucket, position by position: an invalid head is
\* filled, ...
LEMMA InsertEmpty ==
    ASSUME NEW ip \in Ip, NEW mac \in Mac
    PROVE  /\ InsertInto(<<>>, ip, mac) = <<[ip |-> ip, mac |-> mac]>>
           /\ InsertInto(<<>>, ip, mac) \in Seq(Node)
BY DEF InsertInto, Node

\* ... a head with the same address is updated where it is, ...
LEMMA InsertSame ==
    ASSUME NEW chain \in Seq(Node), NEW ip \in Ip, NEW mac \in Mac,
           chain # <<>>, chain[1].ip = ip
    PROVE  LET new == InsertInto(chain, ip, mac) IN
           /\ new \in Seq(Node)
           /\ Len(new) = Len(chain)
           /\ Len(chain) >= 1
           /\ new[1] = [ip |-> ip, mac |-> mac]
           /\ \A n \in 2 .. Len(chain) : new[n] = chain[n]
<1> DEFINE node == [ip |-> ip, mac |-> mac]
<1>1. InsertInto(chain, ip, mac) = [chain EXCEPT ![1] = node]
    BY DEF InsertInto
<1>2. node \in Node /\ Len(chain) \in Nat /\ Len(chain) >= 1
    BY DEF Node
<1> HIDE DEF node
<1>3. /\ [chain EXCEPT ![1] = node] \in Seq(Node)
      /\ Len([chain EXCEPT ![1] = node]) = Len(chain)
      /\ \A j \in 1 .. Len(chain) :
             [chain EXCEPT ![1] = node][j] = IF j = 1 THEN node ELSE chain[j]
    BY <1>2, ExceptSeq, 1 \in 1 .. Len(chain)
<1> QED
    BY <1>1, <1>2, <1>3 DEF node

\* ... and a collision moves the chain behind the head up by one.
LEMMA InsertCollide ==
    ASSUME NEW chain \in Seq(Node), NEW ip \in Ip, NEW mac \in Mac,
           chain # <<>>, chain[1].ip # ip
    PROVE  LET new == InsertInto(chain, ip, mac) IN
           /\ new \in Seq(Node)
           /\ Len(new) = Len(chain) + 1
           /\ Len(chain) >= 1
           /\ new[1] = chain[1]
           /\ new[2] = [ip |-> ip, mac |-> mac]
           /\ \A n \in 2 .. Len(chain) : new[n + 1] = chain[n]
<1> DEFINE node  == [ip |-> ip, mac |-> mac]
           front == <<chain[1], node>>
           rest  == Tail(chain)
<1>1. InsertInto(chain, ip, mac) = front \o rest
    BY DEF InsertInto
<1>2. chain[1] \in Node /\ node \in Node /\ Len(chain) \in Nat /\ Len(chain) >= 1
  <2>1. Len(chain) \in Nat /\ Len(chain) >= 1
      OBVIOUS
  <2>2. chain[1] \in Node
      BY <2>1
  <2> QED
      BY <2>1, <2>2 DEF Node
<1> HIDE DEF node
<1>3. front \in Seq(Node) /\ Len(front) = 2 /\ front[1] = chain[1] /\ front[2] = node
    BY <1>2
<1>4. /\ rest \in Seq(Node)
      /\ Len(rest) = Len(chain) - 1
      /\ \A n \in 1 .. Len(chain) - 1 : rest[n] = chain[n + 1]
    BY <1>2
<1> HIDE DEF front, rest
<1>5. /\ front \o rest \in Seq(Node)
      /\ Len(front \o rest) = Len(front) + Len(rest)
      /\ \A i \in 1 .. Len(front) + Len(rest) :
             (front \o rest)[i] = IF i <= Len(front) THEN front[i] ELSE rest[i - Len(front)]
    BY <1>3, <1>4, ConcatProperties
<1>6. Len(front) + Len(rest) = Len(chain) + 1
    BY <1>2, <1>3, <1>4
<1>7. (front \o rest)[1] = chain[1] /\ (front \o rest)[2] = node
    BY <1>2, <1>3, <1>5, <1>6
<1>8. ASSUME NEW n \in 2 .. Len(chain)
      PROVE  (front \o rest)[n + 1] = chain[n]
  <2>1. (front \o rest)[n + 1] = rest[(n + 1) - 2]
      BY <1>2, <1>3, <1>5, <1>6
  <2>2. rest[n - 1] = chain[(n - 1) + 1]
      BY <1>2, <1>4
  <2> QED
      BY <1>2, <2>1, <2>2
<1> QED
    BY <1>1, <1>2, <1>5, <1>6, <1>7, <1>8 DEF node

-------------------------------------------------------------------------------
\* A walk stops at the first node with the address; there is only one such place.
LEMMA LookupAt ==
    ASSUME NEW chain \in Seq(Node), NEW ip, NEW n, FirstAt(chain, ip, n)
    PROVE  Lookup(chain, ip) = chain[n].mac
<1>1. n \in 1 .. Len(chain) /\ n \in DOMAIN chain
    BY DEF FirstAt
<1>2. \A m \in DOMAIN chain : FirstAt(chain, ip, m) => m = n
    BY <1>1 DEF FirstAt
<1> QED
    BY <1>1, <1>2 DEF Lookup

\* A walk that finds nothing returns NULL.
LEMMA LookupNone ==
    ASSUME NEW chain, NEW ip, \A n \in DOMAIN chain : ~FirstAt(chain, ip, n)
    PROVE  Lookup(chain, ip) = NoMac
BY DEF Lookup

\* The heart of the refinement: after an insert, a lookup of the inserted address
\* returns the new MAC and every other lookup returns what it returned before.
LEMMA LookupAfterInsert ==
    ASSUME NEW chain \in Seq(Node), NEW ip \in Ip, NEW mac \in Mac, NEW q \in Ip
    PROVE  Lookup(InsertInto(chain, ip, mac), q)
               = IF q = ip THEN mac ELSE Lookup(chain, q)
<1> DEFINE new == InsertInto(chain, ip, mac)
           node == [ip |-> ip, mac |-> mac]
<1>0. new \in Seq(Node)
    BY InsertEmpty, InsertSame, InsertCollide
<1>a. DOMAIN new = 1 .. Len(new) /\ DOMAIN chain = 1 .. Len(chain) /\ Len(chain) \in Nat
    BY <1>0
<1>b. node.ip = ip /\ node.mac = mac
    OBVIOUS
<1>c. ASSUME chain # <<>>, chain[1].ip # ip
      PROVE  /\ Len(new) = Len(chain) + 1
             /\ new[1] = chain[1]
             /\ new[2] = node
             /\ \A n \in 2 .. Len(chain) : new[n + 1] = chain[n]
             /\ Len(chain) >= 1
    BY <1>c, InsertCollide
<1>d. ASSUME chain # <<>>, chain[1].ip = ip
      PROVE  /\ Len(new) = Len(chain)
             /\ new[1] = node
             /\ \A n \in 2 .. Len(chain) : new[n] = chain[n]
             /\ Len(chain) >= 1
    BY <1>d, InsertSame
<1>e. ASSUME chain = <<>>
      PROVE  new = <<node>> /\ Len(new) = 1 /\ new[1] = node
    BY <1>e, InsertEmpty
<1> HIDE DEF new, node
<1>1. CASE q = ip
  <2>1. CASE chain = <<>> \/ chain[1].ip = ip
    <3>1. FirstAt(new, q, 1) /\ new[1] = node
      <4>1. new[1] = node /\ Len(new) >= 1
        <5>1. CASE chain = <<>>
            BY <1>e, <5>1
        <5>2. CASE chain # <<>>
            BY <1>a, <1>d, <2>1, <5>2
        <5> QED
            BY <5>1, <5>2
      <4> QED
          BY <1>a, <1>b, <1>1, <4>1 DEF FirstAt
    <3> QED
        BY <1>0, <1>b, <1>1, <3>1, LookupAt DEF new
  <2>2. CASE chain # <<>> /\ chain[1].ip # ip
    <3>1. 2 \in DOMAIN new /\ new[1] = chain[1] /\ new[2] = node
      <4>1. /\ Len(new) = Len(chain) + 1 /\ Len(chain) >= 1
            /\ new[1] = chain[1] /\ new[2] = node
          BY <1>c, <2>2
      <4> QED
          BY <1>a, <4>1
    <3>2. FirstAt(new, q, 2)
        BY <1>b, <1>1, <2>2, <3>1 DEF FirstAt
    <3> QED
        BY <1>0, <1>b, <1>1, <3>1, <3>2, LookupAt DEF new
  <2> QED
      BY <2>1, <2>2
<1>2. CASE q # ip /\ \E n \in DOMAIN chain : FirstAt(chain, q, n)
  <2>1. PICK n \in DOMAIN chain : FirstAt(chain, q, n)
      BY <1>2
  <2>2. chain # <<>> /\ n \in 1 .. Len(chain) /\ chain[n].ip = q
        /\ \A m \in 1 .. n - 1 : chain[m].ip # q
      BY <1>a, <2>1 DEF FirstAt
  <2>3. \E k \in DOMAIN new : FirstAt(new, q, k) /\ new[k] = chain[n]
    <3>1. CASE chain[1].ip = ip
      <4>0. /\ Len(new) = Len(chain)
            /\ new[1] = node
            /\ \A i \in 2 .. Len(chain) : new[i] = chain[i]
          BY <1>d, <2>2, <3>1
      <4>1. n # 1
          BY <1>2, <2>2, <3>1
      <4>2. new[n] = chain[n] /\ n \in DOMAIN new
          BY <1>a, <2>2, <4>0, <4>1
      <4>3. \A m \in 1 .. n - 1 : new[m].ip # q
        <5> TAKE m \in 1 .. n - 1
        <5>1. CASE m = 1
            BY <1>b, <1>2, <4>0, <5>1
        <5>2. CASE m # 1
            BY <1>a, <2>2, <4>0, <5>2
        <5> QED
            BY <5>1, <5>2
      <4> QED
          BY <2>2, <4>2, <4>3 DEF FirstAt
    <3>2. CASE chain[1].ip # ip /\ n = 1
      <4>1. Len(new) = Len(chain) + 1 /\ new[1] = chain[1]
          BY <1>c, <2>2, <3>2
      <4> QED
          BY <1>a, <2>2, <3>2, <4>1 DEF FirstAt
    <3>3. CASE chain[1].ip # ip /\ n # 1
      <4>0. /\ Len(new) = Len(chain) + 1
            /\ new[1] = chain[1]
            /\ new[2] = node
            /\ \A i \in 2 .. Len(chain) : new[i + 1] = chain[i]
          BY <1>c, <2>2, <3>3
      <4>1. n + 1 \in DOMAIN new /\ new[n + 1] = chain[n]
          BY <1>a, <2>2, <3>3, <4>0
      <4>2. \A m \in 1 .. (n + 1) - 1 : new[m].ip # q
        <5> TAKE m \in 1 .. (n + 1) - 1
        <5>1. CASE m = 1
            BY <1>a, <2>2, <3>3, <4>0, <5>1
        <5>2. CASE m = 2
            BY <1>b, <1>2, <4>0, <5>2
        <5>3. CASE m # 1 /\ m # 2
          <6>1. m - 1 \in 2 .. Len(chain) /\ m - 1 \in 1 .. n - 1
              BY <1>a, <2>2, <5>3
          <6>2. new[(m - 1) + 1] = chain[m - 1]
              BY <4>0, <6>1
          <6> QED
              BY <1>a, <2>2, <6>1, <6>2
        <5> QED
            BY <5>1, <5>2, <5>3
      <4> QED
          BY <2>2, <4>1, <4>2 DEF FirstAt
    <3> QED
        BY <3>1, <3>2, <3>3
  <2> QED
      BY <1>0, <1>2, <2>1, <2>3, LookupAt DEF new
<1>3. CASE q # ip /\ ~\E n \in DOMAIN chain : FirstAt(chain, q, n)
  <2>1. \A k \in DOMAIN new : ~FirstAt(new, q, k)
    <3> SUFFICES ASSUME NEW k \in DOMAIN new, FirstAt(new, q, k)
                 PROVE  FALSE
        OBVIOUS
    <3>1. k \in 1 .. Len(new) /\ new[k].ip = q /\ \A m \in 1 .. k - 1 : new[m].ip # q
        BY <1>a DEF FirstAt
    <3>2. CASE chain = <<>>
        BY <1>b, <1>e, <1>3, <3>1, <3>2
    <3>3. CASE chain # <<>> /\ chain[1].ip = ip
      <4>0. /\ Len(new) = Len(chain)
            /\ new[1] = node
            /\ \A i \in 2 .. Len(chain) : new[i] = chain[i]
            /\ Len(chain) >= 1
          BY <1>d, <3>3
      <4>1. k # 1 /\ k \in 2 .. Len(chain)
          BY <1>a, <1>b, <1>3, <3>1, <4>0
      <4>2. FirstAt(chain, q, k)
        <5>1. \A m \in 1 .. k - 1 : chain[m].ip # q
            BY <1>a, <1>3, <3>1, <3>3, <4>0, <4>1
        <5> QED
            BY <1>a, <3>1, <4>0, <4>1, <5>1 DEF FirstAt
      <4> QED
          BY <1>3, <1>a, <4>1, <4>2
    <3>4. CASE chain # <<>> /\ chain[1].ip # ip
      <4>0. /\ Len(new) = Len(chain) + 1
            /\ new[1] = chain[1]
            /\ new[2] = node
            /\ \A i \in 2 .. Len(chain) : new[i + 1] = chain[i]
            /\ Len(chain) >= 1
          BY <1>c, <3>4
      <4>1. k # 2
          BY <1>b, <1>3, <3>1, <4>0
      <4>2. CASE k = 1
          BY <1>a, <1>3, <3>1, <4>0, <4>2 DEF FirstAt
      <4>3. CASE k # 1
        <5>1. k - 1 \in 2 .. Len(chain) /\ new[(k - 1) + 1] = chain[k - 1]
            BY <1>a, <3>1, <4>0, <4>1, <4>3
        <5>2. chain[k - 1].ip = q
            BY <1>a, <3>1, <5>1
        <5>3. \A m \in 1 .. (k - 1) - 1 : chain[m].ip # q
          <6> TAKE m \in 1 .. (k - 1) - 1
          <6>1. CASE m = 1
              BY <1>a, <3>1, <4>0, <4>1, <4>3, <6>1
          <6>2. CASE m # 1
            <7>1. m \in 2 .. Len(chain) /\ m + 1 \in 1 .. k - 1
                BY <1>a, <3>1, <5>1, <6>2
            <7> QED
                BY <3>1, <4>0, <7>1
          <6> QED
              BY <6>1, <6>2
        <5> QED
            BY <1>3, <1>a, <5>1, <5>2, <5>3 DEF FirstAt
      <4> QED
          BY <4>2, <4>3
    <3> QED
        BY <3>2, <3>3, <3>4
  <2> QED
      BY <1>3, <2>1, LookupNone DEF new
<1> QED
    BY <1>1, <1>2, <1>3

\* A lookup returns a MAC or NULL.
LEMMA LookupType ==
    ASSUME NEW chain \in Seq(Node), NEW ip \in Ip
    PROVE  Lookup(chain, ip) \in Mac \cup {NoMac}
<1>1. CASE \E n \in DOMAIN chain : FirstAt(chain, ip, n)
  <2>1. PICK n \in DOMAIN chain : FirstAt(chain, ip, n)
      BY <1>1
  <2>2. chain[n] \in Node
      BY <2>1
  <2> QED
      BY <2>1, <2>2, LookupAt DEF Node
<1>2. CASE ~\E n \in DOMAIN chain : FirstAt(chain, ip, n)
    BY <1>2, LookupNone
<1> QED
    BY <1>1, <1>2

\* An insert keeps the table typed.
LEMMA InsertType ==
    ASSUME TypeOK, NEW ip \in Ip, NEW mac \in Mac, arp_insert(ip, mac)
    PROVE  /\ arp_cache' \in [Bucket -> Seq(Node)]
           /\ arp_cache' = [arp_cache EXCEPT
                  ![Index(ip)] = InsertInto(arp_cache[Index(ip)], ip, mac)]
           /\ arp_cache[Index(ip)] \in Seq(Node)
           /\ InsertInto(arp_cache[Index(ip)], ip, mac) \in Seq(Node)
<1>1. Index(ip) \in Bucket
    BY IndexInBucket
<1>2. arp_cache[Index(ip)] \in Seq(Node)
    BY <1>1 DEF TypeOK
<1>3. InsertInto(arp_cache[Index(ip)], ip, mac) \in Seq(Node)
    BY <1>2, InsertEmpty, InsertSame, InsertCollide
<1> QED
    BY <1>1, <1>2, <1>3 DEF TypeOK, arp_insert

-------------------------------------------------------------------------------
\* Type correctness: the table holds nodes and only well-formed frames are
\* handed down -- in particular no packet is addressed to a NULL MAC.
THEOREM TypeCorrect == Spec => []TypeOK
<1>1. Init => TypeOK
    BY DEF Init, TypeOK, Frame
<1>2. TypeOK /\ [Next]_vars => TypeOK'
  <2> SUFFICES ASSUME TypeOK, [Next]_vars PROVE TypeOK'
      OBVIOUS
  <2>1. ASSUME NEW ip \in Ip, NEW mac \in Mac, NEW eth \in Mac, NEW target \in Ip,
               arp_reply(ip, mac, target, eth)
        PROVE  TypeOK'
    <3>1. arp_cache' \in [Bucket -> Seq(Node)]
        BY <2>1, InsertType DEF arp_reply
    <3>2. sent' \in Frame
        BY <2>1 DEF arp_reply, Frame
    <3> QED
        BY <2>1, <3>1, <3>2 DEF TypeOK, arp_reply
  <2>2. ASSUME NEW ip \in Ip, NEW mac \in Mac, NEW target \in Ip,
               arp_process_reply(ip, mac, target)
        PROVE  TypeOK'
    <3>1. arp_cache' \in [Bucket -> Seq(Node)]
        BY <2>2, InsertType DEF arp_process_reply
    <3> QED
        BY <2>2, <3>1 DEF TypeOK, arp_process_reply
  <2>3. ASSUME NEW target \in Ip, arp_ignore(target)
        PROVE  TypeOK'
      BY <2>3 DEF TypeOK, arp_ignore, vars
  <2>4. ASSUME NEW ip \in Ip, ip_send(ip)
        PROVE  TypeOK'
    <3>1. get_mac_by_ip(ip) \in Mac \cup {NoMac}
        BY IndexInBucket, LookupType DEF TypeOK, get_mac_by_ip
    <3>2. sent' \in Frame
        BY <2>4, <3>1 DEF ip_send, Frame
    <3> QED
        BY <2>4, <3>2 DEF TypeOK, ip_send
  <2>5. CASE UNCHANGED vars
      BY <2>5 DEF TypeOK, vars
  <2> QED
      BY <2>1, <2>2, <2>3, <2>4, <2>5 DEF Next
<1> QED
    BY <1>1, <1>2, PTL DEF Spec

\* Placement after an insert: the new node goes where its address hashes to and
\* every other node of the bucket was there before.
LEMMA InsertPlaced ==
    ASSUME TypeOK, Placement, NEW ip \in Ip, NEW mac \in Mac, arp_insert(ip, mac)
    PROVE  Placement'
<1> DEFINE old == arp_cache[Index(ip)]
           new == InsertInto(old, ip, mac)
<1>1. arp_cache' = [arp_cache EXCEPT ![Index(ip)] = new] /\ old \in Seq(Node)
    BY InsertType
<1>2. \A n \in DOMAIN old : Index(old[n].ip) = Index(ip)
    BY IndexInBucket DEF Placement
<1>3. ASSUME NEW n \in DOMAIN new
      PROVE  Index(new[n].ip) = Index(ip)
  <2> DEFINE node == [ip |-> ip, mac |-> mac]
  <2>0. node.ip = ip
      OBVIOUS
  <2> HIDE DEF old, node
  <2>1. CASE old = <<>>
    <3>1. new = <<node>>
        BY <2>1, InsertEmpty DEF node
    <3> QED
        BY <2>0, <3>1
  <2>2. CASE old # <<>> /\ old[1].ip = ip
    <3>1. /\ new \in Seq(Node) /\ Len(new) = Len(old)
          /\ new[1] = node
          /\ \A i \in 2 .. Len(old) : new[i] = old[i]
        BY <1>1, <2>2, InsertSame DEF node
    <3> HIDE DEF new
    <3>2. n \in 1 .. Len(old) /\ DOMAIN old = 1 .. Len(old) /\ Len(old) \in Nat
        BY <1>1, <3>1
    <3> QED
        BY <1>2, <2>0, <3>1, <3>2
  <2>3. CASE old # <<>> /\ old[1].ip # ip
    <3>1. /\ new \in Seq(Node) /\ Len(new) = Len(old) + 1
          /\ Len(old) >= 1
          /\ new[1] = old[1]
          /\ new[2] = node
          /\ \A i \in 2 .. Len(old) : new[i + 1] = old[i]
        BY <1>1, <2>3, InsertCollide DEF node
    <3> HIDE DEF new
    <3>2. n \in 1 .. Len(old) + 1 /\ DOMAIN old = 1 .. Len(old) /\ Len(old) \in Nat
        BY <1>1, <3>1
    <3>3. CASE n = 1
        BY <1>2, <3>1, <3>2, <3>3
    <3>4. CASE n = 2
        BY <2>0, <3>1, <3>4
    <3>5. CASE n # 1 /\ n # 2
      <4>1. n - 1 \in 2 .. Len(old) /\ new[(n - 1) + 1] = old[n - 1]
          BY <3>1, <3>2, <3>5
      <4>2. new[n] = old[n - 1] /\ n - 1 \in DOMAIN old
          BY <3>2, <4>1
      <4> QED
          BY <1>2, <4>2
    <3> QED
        BY <3>3, <3>4, <3>5
  <2> QED
      BY <2>1, <2>2, <2>3
<1> HIDE DEF new, old
<1>4. Index(ip) \in Bucket
    BY IndexInBucket
<1>5. ASSUME NEW i \in Bucket, NEW n \in DOMAIN arp_cache'[i]
      PROVE  Index(arp_cache'[i][n].ip) = i
  <2>1. CASE i = Index(ip)
    <3>1. arp_cache'[i] = new
        BY <1>1, <2>1, <1>4 DEF TypeOK
    <3> QED
        BY <1>3, <2>1, <3>1
  <2>2. CASE i # Index(ip)
    <3>1. arp_cache'[i] = arp_cache[i]
        BY <1>1, <2>2, <1>4 DEF TypeOK
    <3> QED
        BY <3>1 DEF Placement
  <2> QED
      BY <2>1, <2>2
<1> QED
    BY <1>5 DEF Placement, Index

\* No node is ever in a bucket other than its own, for any number of buckets.
THEOREM PlacementHolds == Spec => []Placement
<1>1. Init => Placement
    BY DEF Init, Placement
<1>2. TypeOK /\ Placement /\ [Next]_vars => Placement'
  <2> SUFFICES ASSUME TypeOK, Placement, [Next]_vars PROVE Placement'
      OBVIOUS
  <2>1. ASSUME NEW ip \in Ip, NEW mac \in Mac, NEW eth \in Mac, NEW target \in Ip,
               arp_reply(ip, mac, target, eth)
        PROVE  Placement'
      BY <2>1, InsertPlaced DEF arp_reply
  <2>2. ASSUME NEW ip \in Ip, NEW mac \in Mac, NEW target \in Ip,
               arp_process_reply(ip, mac, target)
        PROVE  Placement'
      BY <2>2, InsertPlaced DEF arp_process_reply
  <2>3. CASE UNCHANGED arp_cache
      BY <2>3 DEF Placement
  <2> QED
      BY <2>1, <2>2, <2>3 DEF Next, arp_ignore, ip_send, vars
<1> QED
    BY <1>1, <1>2, TypeCorrect, PTL DEF Spec

-------------------------------------------------------------------------------
\* What an insert does to the map the table stands for.
LEMMA InsertLearns ==
    ASSUME TypeOK, NEW ip \in Ip, NEW mac \in Mac, arp_insert(ip, mac)
    PROVE  heard' = <<ip, mac>> => Map!Learn(ip, mac)
<1> DEFINE map == [q \in Ip |-> get_mac_by_ip(q)]
           new == InsertInto(arp_cache[Index(ip)], ip, mac)
<1>1. /\ arp_cache' = [arp_cache EXCEPT ![Index(ip)] = new]
      /\ arp_cache[Index(ip)] \in Seq(Node)
    BY InsertType
<1>2. ASSUME NEW q \in Ip
      PROVE  get_mac_by_ip(q)' = IF q = ip THEN mac ELSE get_mac_by_ip(q)
  <2>0. Index(q) \in Bucket /\ Index(ip) \in Bucket
      BY IndexInBucket
  <2>1. CASE Index(q) = Index(ip)
    <3>1. arp_cache'[Index(q)] = new
        BY <1>1, <2>0, <2>1 DEF TypeOK
    <3>2. Lookup(new, q) = IF q = ip THEN mac ELSE Lookup(arp_cache[Index(ip)], q)
        BY <1>1, LookupAfterInsert
    <3> QED
        BY <2>1, <3>1, <3>2 DEF get_mac_by_ip
  <2>2. CASE Index(q) # Index(ip)
    <3>1. arp_cache'[Index(q)] = arp_cache[Index(q)]
        BY <1>1, <2>0, <2>2 DEF TypeOK
    <3> QED
        BY <2>2, <3>1 DEF get_mac_by_ip
  <2> QED
      BY <2>1, <2>2
<1>3. map' = [map EXCEPT ![ip] = mac]
    BY <1>2
<1> QED
    BY <1>3 DEF Map!Learn

\* The cache implements the map: whatever collides, however long the chains,
\* each lookup returns the last MAC learned for the address, and each frame is
\* the one the map would have sent.
THEOREM Refinement == Spec => ImplementsMap
<1>1. Init => Map!Init
  <2> SUFFICES ASSUME Init PROVE Map!Init
      OBVIOUS
  <2>1. ASSUME NEW ip \in Ip PROVE get_mac_by_ip(ip) = NoMac
    <3>1. arp_cache[Index(ip)] = <<>>
        BY IndexInBucket DEF Init
    <3> QED
        BY <3>1, LookupNone DEF get_mac_by_ip
  <2> QED
      BY <2>1 DEF Init, Map!Init, NoFrame, Map!NoFrame
<1>2. TypeOK /\ [Next]_vars => [Map!Next]_(Map!vars)
  <2> SUFFICES ASSUME TypeOK, [Next]_vars PROVE [Map!Next]_(Map!vars)
      OBVIOUS
  <2>1. ASSUME NEW ip \in Ip, NEW mac \in Mac, NEW eth \in Mac, NEW target \in Ip,
               arp_reply(ip, mac, target, eth)
        PROVE  Map!Next
    <3>1. Map!AnswerRequest(ip, mac, eth)
        BY <2>1, InsertLearns
        DEF arp_reply, Map!AnswerRequest, ReplyFrame, Map!ReplyFrame
    <3> QED
        BY <3>1 DEF Map!Next
  <2>2. ASSUME NEW ip \in Ip, NEW mac \in Mac, NEW target \in Ip,
               arp_process_reply(ip, mac, target)
        PROVE  Map!Next
    <3>1. Map!TakeReply(ip, mac)
        BY <2>2, InsertLearns DEF arp_process_reply, Map!TakeReply
    <3> QED
        BY <3>1 DEF Map!Next
  <2>3. CASE UNCHANGED vars
      BY <2>3 DEF vars, Map!vars, get_mac_by_ip
  <2>4. ASSUME NEW ip \in Ip, ip_send(ip)
        PROVE  Map!Next
    <3>1. Map!SendPacket(ip)
        BY <2>4 DEF ip_send, get_mac_by_ip, Map!SendPacket, RequestFrame,
                    PacketFrame, Map!RequestFrame, Map!PacketFrame
    <3> QED
        BY <3>1 DEF Map!Next
  <2> QED
      BY <2>1, <2>2, <2>3, <2>4 DEF Next, arp_ignore
<1> QED
    BY <1>1, <1>2, TypeCorrect, PTL DEF Spec, ImplementsMap, Map!Spec
===============================================================================
