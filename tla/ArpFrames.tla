------------------------------ MODULE ArpFrames -------------------------------
(***************************************************************************)
(* The frames the ARP layer and ip_send hand to net_data_send, told apart  *)
(* by what their receiver can see: the kind, the Ethernet destination and  *)
(* the IP address the frame is about.                                      *)
(***************************************************************************)
CONSTANTS
    Ip,         \* the addresses in play
    Mac         \* the hardware addresses in play, broadcast_mac not among them

NoFrame              == [kind |-> "none"]
ReplyFrame(dst, ip)  == [kind |-> "arp_reply", dst |-> dst, ip |-> ip]
RequestFrame(ip)     == [kind |-> "arp_request", ip |-> ip]
PacketFrame(dst, ip) == [kind |-> "ip", dst |-> dst, ip |-> ip]

Frame == {NoFrame}
    \cup {ReplyFrame(dst, ip) : dst \in Mac, ip \in Ip}
    \cup {RequestFrame(ip) : ip \in Ip}
    \cup {PacketFrame(dst, ip) : dst \in Mac, ip \in Ip}
===============================================================================
