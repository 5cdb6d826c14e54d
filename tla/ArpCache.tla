------------------------------- MODULE ArpCache -------------------------------
(***************************************************************************)
(* The ARP cache of net_app/arp.c and its two users: arp_process (the      *)
(* process thread, which learns) and ip_send (which looks up).  The table  *)
(* is an array of CacheSize buckets; a bucket is an embedded head node     *)
(* with a chain behind it, written here as the sequence of its valid       *)
(* nodes, head first, so that an invalid head is the empty sequence.       *)
(* Nothing ever leaves the table: `time' is written and never read, and    *)
(* arp_init and clear_arp_table are empty or missing.                      *)
(***************************************************************************)
EXTENDS Naturals, Sequences, ArpFrames

CONSTANTS
    CacheSize,  \* ARP_CACHE_SIZE
    HostIp,     \* host_ip_addr
    NoMac,      \* NULL
    MaxChain    \* bound of the model: no bucket grows beyond this length

ASSUME CacheSizeAssumption == CacheSize \in Nat \ {0}
ASSUME IpAssumption == Ip \subseteq Nat /\ HostIp \in Ip
ASSUME MacAssumption == NoMac \notin Mac

VARIABLES
    arp_cache,  \* arp_cache[i]: the valid nodes of bucket i, head first
    heard,      \* history: the last binding an ARP packet for this host taught
    sent        \* the last frame handed to net_data_send

vars == <<arp_cache, heard, sent>>

Node   == [ip : Ip, mac : Mac]
Bucket == 0 .. CacheSize - 1

Index(ip) == ip % CacheSize

-------------------------------------------------------------------------------
\* Mutant of InsertInto: it appends at the tail.
InsertAtTail(chain, ip, mac) ==
    IF chain # <<>> /\ chain[1].ip = ip
    THEN [chain EXCEPT ![1].mac = mac]
    ELSE Append(chain, [ip |-> ip, mac |-> mac])

\* The bucket after arp_insert: an invalid head is filled, a head with the same
\* address is updated in place, and anything else goes right behind the head
\* without a look at the chain.
InsertInto(chain, ip, mac) ==
    LET node == [ip |-> ip, mac |-> mac] IN
    IF chain = <<>> THEN <<node>>
    ELSE IF chain[1].ip = ip THEN [chain EXCEPT ![1] = node]
    ELSE <<chain[1], node>> \o Tail(chain)

FirstAt(chain, ip, n) == /\ n \in DOMAIN chain
                         /\ chain[n].ip = ip
                         /\ \A m \in 1 .. n - 1 : chain[m].ip # ip

\* get_mac_by_ip walks the bucket from its head: the first node with the address.
Lookup(chain, ip) ==
    IF \E n \in DOMAIN chain : FirstAt(chain, ip, n)
    THEN chain[CHOOSE n \in DOMAIN chain : FirstAt(chain, ip, n)].mac
    ELSE NoMac

get_mac_by_ip(ip) == Lookup(arp_cache[Index(ip)], ip)

arp_insert(ip, mac) ==
    LET chain == InsertInto(arp_cache[Index(ip)], ip, mac) IN
    /\ Len(chain) <= MaxChain
    /\ arp_cache' = [arp_cache EXCEPT ![Index(ip)] = chain]

-------------------------------------------------------------------------------
Init == /\ arp_cache = [i \in Bucket |-> <<>>]
        /\ heard = <<>>
        /\ sent = NoFrame

\* packet_process -> arp_process -> arp_reply: a request for this host teaches
\* the sender and is answered to the Ethernet source of the frame.
arp_reply(ip, mac, target, eth) ==
    /\ target = HostIp
    /\ arp_insert(ip, mac)
    /\ heard' = <<ip, mac>>
    /\ sent' = ReplyFrame(eth, ip)

\* arp_process -> arp_process_reply: a reply to this host teaches the sender.
arp_process_reply(ip, mac, target) ==
    /\ target = HostIp
    /\ arp_insert(ip, mac)
    /\ heard' = <<ip, mac>>
    /\ UNCHANGED sent

\* arp_process: traffic for another host changes nothing.
arp_ignore(target) ==
    /\ target # HostIp
    /\ UNCHANGED vars

\* ip_send: the packet leaves for the cached MAC, or is dropped and replaced by
\* a broadcast request (arp_request).
ip_send(ip) ==
    /\ sent' = IF get_mac_by_ip(ip) = NoMac
               THEN RequestFrame(ip)
               ELSE PacketFrame(get_mac_by_ip(ip), ip)
    /\ UNCHANGED <<arp_cache, heard>>

Next == \E ip \in Ip :
            \/ \E mac, eth \in Mac, target \in Ip : arp_reply(ip, mac, target, eth)
            \/ \E mac \in Mac, target \in Ip : arp_process_reply(ip, mac, target)
            \/ arp_ignore(ip)
            \/ ip_send(ip)

Spec == Init /\ [][Next]_vars

-------------------------------------------------------------------------------
TypeOK == /\ arp_cache \in [Bucket -> Seq(Node)]
          /\ heard \in {<<>>} \cup (Ip \X Mac)
          /\ sent \in Frame

\* Every node lies in the bucket its own address hashes to, so a lookup, which
\* walks one bucket only, can never miss an address that was stored
\* (arp_insert and get_mac_by_ip compute the index separately).
Placement == \A i \in Bucket : \A n \in DOMAIN arp_cache[i] :
                 Index(arp_cache[i][n].ip) = i

\* The cache is a last-writer-wins map although chains hold stale duplicates:
\* insertion right behind the head and the head-first walk must fit together.
Map == INSTANCE ArpMap WITH resolved <- [ip \in Ip |-> get_mac_by_ip(ip)]
ImplementsMap == Map!Spec
===============================================================================
