-------------------------------- MODULE Packets --------------------------------
(***************************************************************************)
(* How packets are built and taken apart: the checksum of define/util.h,   *)
(* the headers that ip.c, udp.c and tiny_net.c put in front, and what of a *)
(* received frame each layer hands up.                                     *)
(*                                                                         *)
(* A packet is a sequence of 16-bit words, of a smaller modulus; an odd    *)
(* last byte is a word whose other byte is 0, as in calculate_checksum.    *)
(* The words of a TCP or UDP header stand where they are; of an IP header  *)
(* only the words that vary are kept, an address being one word.           *)
(***************************************************************************)
EXTENDS Integers, SequencesExt

CONSTANT WordMod    \* 2^16

ASSUME WordAssumption == WordMod \in Nat /\ WordMod > 1

ICMP_TYPE == 1
TCP_TYPE  == 6
UDP_TYPE  == 17
ICMP_ECHO_REQUEST == 8
ICMP_ECHO_REPLY   == 0
IpHeaderLen   == 10     \* in words
IcmpHeaderLen == 4
UdpHeaderLen  == 4
TcpChecksum   == 9      \* where a TCP_HEADER has its checksum

Word(n) == n % WordMod
Zeros(n) == [i \in 1 .. n |-> 0]

\* The carry is added until there is none.
Folded(sum) ==
    LET fold[n \in Nat] == IF n < WordMod THEN n ELSE fold[(n % WordMod) + (n \div WordMod)]
    IN  fold[sum]

\* Word after word.
Total(words) ==
    LET sum[i \in 0 .. Len(words)] == IF i = 0 THEN 0 ELSE sum[i - 1] + words[i]
    IN  sum[Len(words)]

calculate_checksum(words) == WordMod - 1 - Folded(Total(words))

\* What a checksum promises, of all words with the checksum among them: in one's
\* complement, which counts modulo WordMod - 1, they add up to nothing.
Verifies(words) == Total(words) % (WordMod - 1) = 0

\* A header and what is behind it, as IP sees it.
Packet(proto, src, dst, data) ==
    [proto |-> proto, src |-> src, dst |-> dst,
     total_len |-> IpHeaderLen + Len(data), checksum |-> 0, data |-> data]
HeaderWords(p) == <<Word(p.proto), p.src, p.dst, Word(2 * p.total_len), p.checksum>>

\* add_ip_header, with the host's own address as the source.
add_ip_header(host, data, proto, dst) ==
    LET p == Packet(proto, host, dst, data)
    IN  [p EXCEPT !.checksum = calculate_checksum(HeaderWords(p))]

Pseudo(src, dst, proto, len) == <<src, dst, Word(proto), Word(2 * len)>>

\* The segment with a checksum where TCP has it, whatever the protocol; there must
\* be such a word, otherwise bytes behind the buffer are written.
HasChecksumWord(segment) == TcpChecksum <= Len(segment)
pseudo_header_checksum(segment, src, dst) ==
    LET cleared == [segment EXCEPT ![TcpChecksum] = 0]
    IN  [cleared EXCEPT ![TcpChecksum] =
            calculate_checksum(Pseudo(src, dst, TCP_TYPE, Len(segment)) \o cleared)]

\* Mutant of add_udp_header: the length without the header.
CountData(data, src_port, dst_port) == <<src_port, dst_port, Word(2 * Len(data)), 0>> \o data

\* udp_send_data in front of its data.
add_udp_header(data, src_port, dst_port) ==
    <<src_port, dst_port, Word(2 * (UdpHeaderLen + Len(data))), 0>> \o data

\* Mutant of Payload: the padding stays.
AllWords(p) == p.data

\* ip_process: what total_len says is behind the header, without the padding.
Payload(p) == SubSeq(p.data, 1, p.total_len - IpHeaderLen)

\* A message with its checksum in the second word, and the reply of icmp_process.
IcmpMessage(type, id, seq, data) ==
    <<type, calculate_checksum(<<type, id, seq>> \o data), id, seq>> \o data
EchoReply(request) ==
    LET plain == [request EXCEPT ![1] = ICMP_ECHO_REPLY, ![2] = 0]
    IN  [plain EXCEPT ![2] = calculate_checksum(plain)]

\* udp_process: as much as the UDP header says, whatever the length IP says.
UdpBody(words) == SubSeq(words, UdpHeaderLen + 1, words[3] \div 2)
===============================================================================
