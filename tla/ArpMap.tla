-------------------------------- MODULE ArpMap --------------------------------
(***************************************************************************)
(* What the ARP layer promises to the rest of the stack: a map from IP     *)
(* addresses to MAC addresses in which the last MAC learned for an         *)
(* address wins, and which decides what leaves for the wire -- the IP      *)
(* packet itself when the address is known, a broadcast request when it    *)
(* is not.  ArpCache implements it with buckets and chains.                *)
(***************************************************************************)
EXTENDS ArpFrames

CONSTANT NoMac  \* what a lookup of an unknown address returns

VARIABLES
    resolved,   \* resolved[ip]: the MAC a lookup of ip returns, or NoMac
    heard,      \* the last binding of an IP to a MAC address that was taught
    sent        \* the last frame handed to net_data_send

vars == <<resolved, heard, sent>>

Init == /\ resolved = [ip \in Ip |-> NoMac]
        /\ heard = <<>>
        /\ sent = NoFrame

Learn(ip, mac) == /\ heard' = <<ip, mac>>
                  /\ resolved' = [resolved EXCEPT ![ip] = mac]

\* A request for this host is answered to the frame's sender and teaches the
\* sender's address.
AnswerRequest(ip, mac, eth) == Learn(ip, mac) /\ sent' = ReplyFrame(eth, ip)

\* A reply to this host teaches the sender's address.
TakeReply(ip, mac) == Learn(ip, mac) /\ UNCHANGED sent

\* An IP packet leaves when the next hop is known; otherwise it is dropped and
\* a request is broadcast.
SendPacket(ip) ==
    /\ sent' = IF resolved[ip] = NoMac THEN RequestFrame(ip)
                                       ELSE PacketFrame(resolved[ip], ip)
    /\ UNCHANGED <<resolved, heard>>

Next == \E ip \in Ip :
            \/ \E mac, eth \in Mac : AnswerRequest(ip, mac, eth)
            \/ \E mac \in Mac : TakeReply(ip, mac)
            \/ SendPacket(ip)

Spec == Init /\ [][Next]_vars
===============================================================================
