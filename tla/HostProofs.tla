------------------------------ MODULE HostProofs ------------------------------
(***************************************************************************)
(* For any addresses, cards, lines and bodies: which card is opened, what  *)
(* a host with a MAC from config.json can still receive, to whom and with  *)
(* which checksums it answers, and what becomes of a datagram.  For any    *)
(* text: what cJSON.c, which reads config.json, makes of its strings.      *)
(***************************************************************************)
EXTENDS Host, SequenceTheorems, FiniteSetTheorems, WellFoundedInduction, TLAPS

-------------------------------------------------------------------------------
\* What the peer sends: it never learns another MAC than that of config.h, which is the
\* one that ARP announces, and only for the one address the host has in arp.c.
Learnt == {DefaultMac, NoMac}

Padded(proto, words) ==
    [Packet(proto, PeerIp, DefaultIp, words) EXCEPT !.data = @ \o Zeros(Padding)]

Pinging(data)  == Padded(ICMP_TYPE, IcmpMessage(ICMP_ECHO_REQUEST, 1, 2, data))
Refusing(data) == Padded(ICMP_TYPE, IcmpMessage(3, 0, 0, data))
Telling(data)  == Padded(UDP_TYPE, add_udp_header(data, 3, 4))
Cutting(data)  == Padded(UDP_TYPE, <<3, 4, 2, 0>> \o data)
Asking(data)   == Padded(TCP_TYPE, Segment(1) \o data)

PeerPacket == UNION {{Pinging(d), Refusing(d), Telling(d), Cutting(d), Asking(d)} : d \in Body}
PeerArp ==
    {Arp(Broadcast, PeerMac, "request", PeerIp, PeerMac, ip) : ip \in Ip}
        \cup {Arp(mac, PeerMac, "reply", PeerIp, PeerMac, DefaultIp) : mac \in Learnt}
FromPeer == PeerArp \cup {Frame(DefaultMac, PeerMac, p) : p \in PeerPacket}

\* A datagram that was typed: the length is the header's, the words are the line's.
Typed(words, line) ==
    /\ words[3] = 2 * Len(words)
    /\ Len(words) = UdpHeaderLen + Len(line)
    /\ \A i \in 1 .. Len(line) :
         UdpHeaderLen + i = TcpChecksum \/ words[UdpHeaderLen + i] = line[i]

\* The echo of what the peer pinged with.
Echoes(p, asked) ==
    \E data \in Body : asked = Pinging(data) /\ p.data = IcmpMessage(ICMP_ECHO_REPLY, 1, 2, data)

\* A packet is from the one address, and its checksums are those of what it leaves as.
Sums(p, asked) ==
    /\ p.src = DefaultIp
    /\ Verifies(HeaderWords(p))
    /\ p.proto = ICMP_TYPE => Echoes(p, asked)
    /\ p.proto = TCP_TYPE =>
         Verifies(Pseudo(DefaultIp, PeerIp, TCP_TYPE, Len(p.data)) \o p.data)

\* What the host sends.
SentRight(message) ==
    /\ message.frame.type = "ARP" => message.frame.ip = DefaultIp /\ message.frame.mac = DefaultMac
    /\ message.answers # NoQuestion => AddressedRight(message.frame, message.answers)
    /\ (message.frame.type = "IP" /\ message.frame.packet.proto = UDP_TYPE) =>
         \E line \in Line : Typed(message.frame.packet.data, line)
    /\ message.frame.type = "IP" => Sums(message.frame.packet, message.answers.packet)

\* A frame for everybody, or one that the capture filter lets pass.
Passed(frame) == tiny_net.mac = DefaultMac \/ (frame.type = "ARP" /\ frame.op = "request")

StartInv ==
    /\ phase \in {"config", "open"} => machine \in Machine
    /\ phase \in {"config", "open", "threads"} => wire = <<>> /\ received = <<>>

RingInv ==
    /\ wire # <<>> => \E f \in FromPeer : wire = <<f>>
    /\ received # <<>> => \E f \in FromPeer : received = <<f>> /\ Passed(f)
    /\ toSend # <<>> => \E m : toSend = <<m>> /\ SentRight(m)

PeerInv ==
    /\ DOMAIN peer = {"mac", "asked", "owes"}
    /\ peer.mac \in [Ip -> Learnt] /\ peer.mac[OtherIp] = NoMac

PrintedInv ==
    printed.of # NoQuestion =>
        \E data \in Body : printed.of.packet = Telling(data) /\ printed.body = data

HostInv == TypeOK /\ StartInv /\ RingInv /\ PeerInv /\ PrintedInv /\ OpensConfiguredCard

-------------------------------------------------------------------------------
\* Facts about the constants and about sequences.

LEMMA OneMore ==
    ASSUME NEW S, IsFiniteSet(S), NEW n \in Nat, Cardinality(S) <= n, NEW x
    PROVE  IsFiniteSet(S \cup {x}) /\ Cardinality(S \cup {x}) <= n + 1
<1>1. Cardinality(S) \in Nat
    BY FS_CardinalityType
<1>2. IsFiniteSet(S \cup {x}) /\ Cardinality(S \cup {x}) \in {Cardinality(S), Cardinality(S) + 1}
    BY FS_AddElement
<1> QED
    BY <1>1, <1>2

LEMMA Two ==
    ASSUME NEW a, NEW b
    PROVE  IsFiniteSet({a, b}) /\ Cardinality({a, b}) <= 2
<1>1. IsFiniteSet({a}) /\ Cardinality({a}) <= 1
    BY FS_Singleton
<1>2. {a, b} = {a} \cup {b}
    OBVIOUS
<1> QED
    BY <1>1, <1>2, OneMore

LEMMA Four ==
    ASSUME NEW a, NEW b, NEW c, NEW d
    PROVE  Cardinality({a, b, c, d}) <= 4
<1>2. IsFiniteSet({a, b}) /\ Cardinality({a, b}) <= 2
    BY Two
<1>3. IsFiniteSet({a, b, c}) /\ Cardinality({a, b, c}) <= 3
  <2>1. {a, b, c} = {a, b} \cup {c}
      OBVIOUS
  <2>2. IsFiniteSet({a, b} \cup {c}) /\ Cardinality({a, b} \cup {c}) <= 2 + 1
      BY <1>2, OneMore
  <2> QED
      BY <2>1, <2>2
<1>4. {a, b, c, d} = {a, b, c} \cup {d}
    OBVIOUS
<1> QED
    BY <1>3, <1>4, OneMore

LEMMA Distinct ==
    /\ DefaultMac # FileMac /\ DefaultMac # Broadcast
    /\ NoMac # FileMac /\ NoMac # Broadcast
    /\ DefaultIp # OtherIp
<1> DEFINE macs == HostMac \cup {PeerMac, Broadcast, NoMac}
<1>1. \A a, b, c, d : macs # {a, b, c, d}
  <2>1. Cardinality(macs) = 5
      BY AddressAssumption
  <2> HIDE DEF macs
  <2> SUFFICES ASSUME NEW a, NEW b, NEW c, NEW d, macs = {a, b, c, d} PROVE FALSE
      OBVIOUS
  <2>2. Cardinality({a, b, c, d}) <= 4
      BY Four
  <2> QED
      BY <2>1, <2>2
<1> HIDE DEF macs
<1>2. DefaultMac # FileMac
  <2>1. DefaultMac = FileMac => macs = {FileMac, PeerMac, Broadcast, NoMac}
      BY DEF macs, HostMac
  <2> QED
      BY <1>1, <2>1
<1>3. DefaultMac # Broadcast
  <2>1. DefaultMac = Broadcast => macs = {FileMac, PeerMac, Broadcast, NoMac}
      BY DEF macs, HostMac
  <2> QED
      BY <1>1, <2>1
<1>4. NoMac # FileMac
  <2>1. NoMac = FileMac => macs = {DefaultMac, PeerMac, Broadcast, NoMac}
      BY DEF macs, HostMac
  <2> QED
      BY <1>1, <2>1
<1>5. NoMac # Broadcast
  <2>1. NoMac = Broadcast => macs = {DefaultMac, FileMac, PeerMac, NoMac}
      BY DEF macs, HostMac
  <2> QED
      BY <1>1, <2>1
<1>6. DefaultIp # OtherIp
  <2>1. DefaultIp = OtherIp => Ip \cup {PeerIp} = {DefaultIp, PeerIp}
      BY DEF Ip
  <2>2. Cardinality({DefaultIp, PeerIp}) <= 2
      BY Two
  <2> QED
      BY <2>1, <2>2, AddressAssumption
<1> QED
    BY <1>2, <1>3, <1>4, <1>5, <1>6

LEMMA InSlot ==
    /\ \A m : /\ <<m>> # <<>> /\ <<m>>[1] = m /\ Len(<<m>>) = 1
              /\ ToSet(<<m>>) = {m}
    /\ Len(<<>>) = 0 /\ ToSet(<<>>) = {}
BY DEF ToSet

LEMMA AtMostOne ==
    ASSUME NEW ring, ring = <<>> \/ \E m : ring = <<m>>
    PROVE  Len(ring) <= 1
<1>1. CASE ring = <<>>
    BY <1>1
<1>2. CASE \E m : ring = <<m>>
  <2> PICK m : ring = <<m>>
      BY <1>2
  <2>1. Len(ring) = 1
      OBVIOUS
  <2> QED
      BY <2>1
<1> QED
    BY <1>1, <1>2

LEMMA Texts ==
    ASSUME NEW text \in Line \cup Body
    PROVE  /\ text \in Seq(Nat) /\ Len(text) \in Nat
           /\ Word(2 * (UdpHeaderLen + Len(text))) = 2 * (UdpHeaderLen + Len(text))
<1>1. text \in Seq(0 .. WordMod - 1) /\ 2 * (UdpHeaderLen + Len(text)) < WordMod
    BY TextAssumption
<1>2. text \in Seq(Nat) /\ Len(text) \in Nat
  <2>1. 0 .. WordMod - 1 \subseteq Nat
      BY WordAssumption
  <2> QED
      BY <1>1, <2>1, SeqMonotonic, LenProperties
<1>3. \A n \in Nat : n < WordMod => n % WordMod = n
    BY WordAssumption, SMTT(30)
<1> QED
    BY <1>1, <1>2, <1>3 DEF Word, UdpHeaderLen

-------------------------------------------------------------------------------
\* Induction over the natural numbers, with a set for the formula.

LEMMA Least ==
    ASSUME NEW S, S \subseteq Nat, S # {}
    PROVE  \E c \in S : \A d \in S : c <= d
<1>1. \E c \in S : \A d \in S : ~(d < c)
  <2> PICK c \in S : \A d \in S : ~(<<d, c>> \in OpToRel(<, Nat))
      BY WFMin, NatLessThanWellFounded
  <2>1. ASSUME NEW d \in S PROVE ~(d < c)
      BY DEF OpToRel
  <2> QED
      BY <2>1
<1> QED
    BY <1>1

LEMMA Induction ==
    ASSUME NEW S, 0 \in S, \A n \in Nat : n \in S => n + 1 \in S
    PROVE  Nat \subseteq S
<1> DEFINE R == Nat \ S
<1> SUFFICES ASSUME R # {} PROVE FALSE
    OBVIOUS
<1> PICK c \in R : \A d \in R : c <= d
    BY Least
<1>1. c \in Nat /\ c # 0
    OBVIOUS
<1>2. c - 1 \in Nat /\ c - 1 \notin R
    BY <1>1
<1>3. (c - 1) + 1 \in S
    BY <1>2
<1> QED
    BY <1>1, <1>3

-------------------------------------------------------------------------------
\* The sum of words.

\* f has the sums of the first words, up to k of them, as calculate_checksum's first
\* loop has them one after another.
AddsUpTo(words, k, f) ==
    /\ f \in [0 .. k -> Int]
    /\ f[0] = 0
    /\ \A i \in 1 .. k : f[i] = f[i - 1] + words[i]
Adds(words, f) == AddsUpTo(words, Len(words), f)

LEMMA AddsUnique ==
    ASSUME NEW words \in Seq(Int), NEW f, NEW g, Adds(words, f), Adds(words, g)
    PROVE  \A i \in 0 .. Len(words) : f[i] = g[i]
<1>0. Len(words) \in Nat
    BY LenProperties
<1> DEFINE S == {i \in Nat : i <= Len(words) => f[i] = g[i]}
<1>1. 0 \in S
    BY DEF Adds, AddsUpTo
<1>2. ASSUME NEW n \in Nat, n \in S PROVE n + 1 \in S
  <2> SUFFICES ASSUME n + 1 <= Len(words) PROVE f[n + 1] = g[n + 1]
      OBVIOUS
  <2>1. n + 1 \in 1 .. Len(words) /\ (n + 1) - 1 = n
      BY <1>0
  <2>2. f[n + 1] = f[n] + words[n + 1] /\ g[n + 1] = g[n] + words[n + 1]
      BY <2>1 DEF Adds, AddsUpTo
  <2>3. f[n] = g[n]
      BY <1>0, <1>2
  <2> QED
      BY <2>2, <2>3
<1> HIDE DEF S
<1>3. Nat \subseteq S
    BY <1>1, <1>2, Induction
<1> QED
    BY <1>0, <1>3 DEF S

LEMMA AddsExists ==
    ASSUME NEW words \in Seq(Int)
    PROVE  \E f : Adds(words, f)
<1>0. Len(words) \in Nat /\ \A i \in 1 .. Len(words) : words[i] \in Int
    BY LenProperties, ElementOfSeq
<1> DEFINE S == {k \in Nat : k <= Len(words) => \E f : AddsUpTo(words, k, f)}
<1>1. 0 \in S
  <2> DEFINE f == [i \in 0 .. 0 |-> 0]
  <2>1. AddsUpTo(words, 0, f)
      BY DEF AddsUpTo
  <2> QED
      BY <2>1
<1>2. ASSUME NEW n \in Nat, n \in S PROVE n + 1 \in S
  <2> SUFFICES ASSUME n + 1 <= Len(words) PROVE \E f : AddsUpTo(words, n + 1, f)
      OBVIOUS
  <2>0. n <= Len(words) /\ n \in S
      BY <1>0, <1>2
  <2> PICK f : AddsUpTo(words, n, f)
      BY <2>0
  <2> DEFINE g == [i \in 0 .. n + 1 |-> IF i <= n THEN f[i] ELSE f[n] + words[n + 1]]
  <2>1. f \in [0 .. n -> Int] /\ f[0] = 0 /\ \A i \in 1 .. n : f[i] = f[i - 1] + words[i]
      BY DEF AddsUpTo
  <2>2. words[n + 1] \in Int
      BY <1>0
  <2>3. g \in [0 .. n + 1 -> Int]
      BY <2>1, <2>2
  <2>4. \A i \in 0 .. n : g[i] = f[i]
      BY <2>1
  <2>5. g[n + 1] = f[n] + words[n + 1]
      BY <2>1
  <2> HIDE DEF g
  <2>6. ASSUME NEW i \in 1 .. n + 1 PROVE g[i] = g[i - 1] + words[i]
    <3>1. CASE i = n + 1
      <4>1. i - 1 = n /\ n \in 0 .. n
          BY <3>1
      <4> QED
          BY <2>4, <2>5, <3>1, <4>1
    <3>2. CASE i \in 1 .. n
      <4>1. i \in 0 .. n /\ i - 1 \in 0 .. n
          BY <3>2
      <4> QED
          BY <2>1, <2>4, <3>2, <4>1
    <3> QED
        BY <3>1, <3>2
  <2>7. g[0] = 0
      BY <2>1, <2>4
  <2> QED
      BY <2>3, <2>6, <2>7 DEF AddsUpTo
<1> HIDE DEF S
<1>3. Nat \subseteq S
    BY <1>1, <1>2, Induction
<1> QED
    BY <1>0, <1>3 DEF S, Adds

LEMMA TotalIs ==
    ASSUME NEW words \in Seq(Int)
    PROVE  \E f : Adds(words, f) /\ Total(words) = f[Len(words)]
<1> DEFINE Step(f) == f = [i \in 0 .. Len(words) |-> IF i = 0 THEN 0 ELSE f[i - 1] + words[i]]
           sum == CHOOSE f : Step(f)
<1>0. Len(words) \in Nat /\ \A i \in 1 .. Len(words) : words[i] \in Int
    BY LenProperties, ElementOfSeq
<1>1. \E f : Step(f)
  <2> PICK f : Adds(words, f)
      BY AddsExists
  <2>1. DOMAIN f = 0 .. Len(words) /\ f = [i \in 0 .. Len(words) |-> f[i]]
      BY DEF Adds, AddsUpTo
  <2>2. \A i \in 0 .. Len(words) : f[i] = IF i = 0 THEN 0 ELSE f[i - 1] + words[i]
      BY <1>0 DEF Adds, AddsUpTo
  <2>3. [i \in 0 .. Len(words) |-> f[i]] =
            [i \in 0 .. Len(words) |-> IF i = 0 THEN 0 ELSE f[i - 1] + words[i]]
      BY <2>2
  <2>4. Step(f)
      BY <2>1, <2>3
  <2> QED
      BY <2>4
<1>2. Step(sum)
    BY <1>1, Zenon
<1>3. Total(words) = sum[Len(words)]
    BY Zenon DEF Total
<1> HIDE DEF sum
<1>4. /\ DOMAIN sum = 0 .. Len(words) /\ sum[0] = 0
      /\ sum = [i \in 0 .. Len(words) |-> sum[i]]
      /\ \A i \in 1 .. Len(words) : sum[i] = sum[i - 1] + words[i]
    BY <1>0, <1>2
<1> DEFINE S == {i \in Nat : i <= Len(words) => sum[i] \in Int}
<1>5. 0 \in S
    BY <1>4
<1>6. ASSUME NEW n \in Nat, n \in S PROVE n + 1 \in S
  <2> SUFFICES ASSUME n + 1 <= Len(words) PROVE sum[n + 1] \in Int
      OBVIOUS
  <2>1. n + 1 \in 1 .. Len(words) /\ (n + 1) - 1 = n /\ sum[n] \in Int
      BY <1>0, <1>6
  <2>2. sum[n + 1] = sum[n] + words[n + 1]
      BY <1>4, <2>1
  <2> QED
      BY <1>0, <2>1, <2>2
<1> HIDE DEF S
<1>7. Nat \subseteq S
    BY <1>5, <1>6, Induction
<1>8. \A i \in 0 .. Len(words) : sum[i] \in Int
    BY <1>0, <1>7 DEF S
<1>9. Adds(words, sum)
    BY <1>4, <1>8 DEF Adds, AddsUpTo
<1> QED
    BY <1>3, <1>9

LEMMA TotalOf ==
    ASSUME NEW words \in Seq(Int), NEW f, Adds(words, f)
    PROVE  Total(words) = f[Len(words)]
<1> PICK g : Adds(words, g) /\ Total(words) = g[Len(words)]
    BY TotalIs
<1>1. Len(words) \in 0 .. Len(words)
    BY LenProperties
<1> QED
    BY <1>1, AddsUnique

LEMMA TotalInt ==
    ASSUME NEW words \in Seq(Int)
    PROVE  Total(words) \in Int
<1> PICK f : Adds(words, f) /\ Total(words) = f[Len(words)]
    BY TotalIs
<1> QED
    BY LenProperties DEF Adds, AddsUpTo

LEMMA TotalNat ==
    ASSUME NEW words \in Seq(Nat)
    PROVE  Total(words) \in Nat
<1>0. /\ words \in Seq(Int) /\ Len(words) \in Nat
      /\ \A i \in 1 .. Len(words) : words[i] \in Nat
    BY LenProperties, ElementOfSeq, SeqMonotonic
<1> PICK f : Adds(words, f) /\ Total(words) = f[Len(words)]
    BY <1>0, TotalIs
<1> DEFINE S == {k \in Nat : k <= Len(words) => f[k] \in Nat}
<1>1. 0 \in S
    BY DEF Adds, AddsUpTo
<1>2. ASSUME NEW n \in Nat, n \in S PROVE n + 1 \in S
  <2> SUFFICES ASSUME n + 1 <= Len(words) PROVE f[n + 1] \in Nat
      OBVIOUS
  <2>1. n + 1 \in 1 .. Len(words) /\ (n + 1) - 1 = n /\ f[n] \in Nat
      BY <1>0, <1>2
  <2>2. f[n + 1] = f[n] + words[n + 1]
      BY <2>1 DEF Adds, AddsUpTo
  <2> QED
      BY <1>0, <2>1, <2>2
<1> HIDE DEF S
<1>3. Nat \subseteq S
    BY <1>1, <1>2, Induction
<1> QED
    BY <1>0, <1>3 DEF S

LEMMA TotalConcat ==
    ASSUME NEW a \in Seq(Int), NEW b \in Seq(Int)
    PROVE  Total(a \o b) = Total(a) + Total(b)
<1> DEFINE m == Len(a)
           n == Len(b)
           c == a \o b
<1> PICK f : Adds(a, f) /\ Total(a) = f[m]
    BY TotalIs
<1> PICK g : Adds(b, g) /\ Total(b) = g[n]
    BY TotalIs
<1>1. m \in Nat /\ n \in Nat
    BY LenProperties
<1>2. /\ c \in Seq(Int) /\ Len(c) = m + n
      /\ \A i \in 1 .. m + n : c[i] = IF i <= m THEN a[i] ELSE b[i - m]
    BY ConcatProperties
<1> HIDE DEF c, m, n
<1>3. f \in [0 .. m -> Int] /\ f[0] = 0 /\ \A i \in 1 .. m : f[i] = f[i - 1] + a[i]
    BY DEF Adds, AddsUpTo, m
<1>4. g \in [0 .. n -> Int] /\ g[0] = 0 /\ \A i \in 1 .. n : g[i] = g[i - 1] + b[i]
    BY DEF Adds, AddsUpTo, n
<1> DEFINE h == [i \in 0 .. m + n |-> IF i <= m THEN f[i] ELSE f[m] + g[i - m]]
<1>5. h \in [0 .. m + n -> Int]
    BY <1>1, <1>3, <1>4
<1>6. (\A i \in 0 .. m : h[i] = f[i]) /\ \A i \in 0 .. n : h[m + i] = f[m] + g[i]
    BY <1>1, <1>3, <1>4
<1> HIDE DEF h
<1>7. ASSUME NEW i \in 1 .. m + n PROVE h[i] = h[i - 1] + c[i]
  <2>1. CASE i \in 1 .. m
    <3>1. i \in 0 .. m /\ i - 1 \in 0 .. m /\ c[i] = a[i]
        BY <1>1, <1>2, <2>1
    <3> QED
        BY <1>3, <1>6, <2>1, <3>1
  <2>2. CASE i \notin 1 .. m
    <3> PICK j \in 1 .. n : i = m + j
        <4>1. i - m \in 1 .. n /\ i = m + (i - m)
            BY <1>1, <2>2
        <4> QED
            BY <4>1
    <3>1. c[i] = b[j]
      <4>1. i \in 1 .. m + n /\ ~(i <= m) /\ i - m = j
          BY <1>1
      <4> QED
          BY <1>2, <4>1
    <3>2. h[i] = f[m] + g[j] /\ h[i - 1] = f[m] + g[j - 1]
      <4>1. j \in 0 .. n /\ j - 1 \in 0 .. n /\ i - 1 = m + (j - 1)
          BY <1>1
      <4> QED
          BY <1>6, <4>1
    <3>3. g[j] = g[j - 1] + b[j] /\ g[j - 1] \in Int /\ g[j] \in Int /\ f[m] \in Int /\ b[j] \in Int
      <4>1. j - 1 \in 0 .. n /\ j \in 0 .. n /\ m \in 0 .. m /\ j \in 1 .. Len(b)
          BY <1>1 DEF n
      <4> QED
          BY <1>3, <1>4, <4>1, ElementOfSeq
    <3> QED
        BY <3>1, <3>2, <3>3
  <2> QED
      BY <2>1, <2>2
<1>8. Adds(c, h)
  <2>1. h[0] = 0
      BY <1>1, <1>3, <1>6
  <2> QED
      BY <1>2, <1>5, <1>7, <2>1 DEF Adds, AddsUpTo
<1>9. Total(c) = h[m + n]
    BY <1>2, <1>8, TotalOf
<1>10. h[m + n] = f[m] + g[n]
    BY <1>1, <1>6
<1> QED
    BY <1>9, <1>10 DEF c

LEMMA TotalExcept ==
    ASSUME NEW words \in Seq(Int), NEW k \in 1 .. Len(words), NEW v \in Int
    PROVE  Total([words EXCEPT ![k] = v]) = Total(words) - words[k] + v
<1> DEFINE n == Len(words)
           c == [words EXCEPT ![k] = v]
<1> PICK f : Adds(words, f) /\ Total(words) = f[n]
    BY TotalIs
<1>1. n \in Nat /\ \A i \in 1 .. n : words[i] \in Int
    BY LenProperties, ElementOfSeq
<1>2. c \in Seq(Int) /\ Len(c) = n /\ \A i \in 1 .. n : c[i] = IF i = k THEN v ELSE words[i]
    BY ExceptSeq
<1>3. f \in [0 .. n -> Int] /\ f[0] = 0 /\ \A i \in 1 .. n : f[i] = f[i - 1] + words[i]
    BY DEF Adds, AddsUpTo
<1>k. k \in 1 .. n
    OBVIOUS
<1> HIDE DEF c, n
<1> DEFINE h == [i \in 0 .. n |-> IF i < k THEN f[i] ELSE f[i] - words[k] + v]
<1>4. h \in [0 .. n -> Int]
  <2>1. words[k] \in Int /\ \A i \in 0 .. n : f[i] \in Int
      BY <1>1, <1>3, <1>k
  <2>2. \A i \in 0 .. n : (IF i < k THEN f[i] ELSE f[i] - words[k] + v) \in Int
      BY <2>1
  <2> QED
      BY <2>2
<1>5. \A i \in 0 .. n : h[i] = IF i < k THEN f[i] ELSE f[i] - words[k] + v
    OBVIOUS
<1> HIDE DEF h
<1>6. ASSUME NEW i \in 1 .. n PROVE h[i] = h[i - 1] + c[i]
  <2>1. i \in 0 .. n /\ i - 1 \in 0 .. n /\ f[i] \in Int /\ f[i - 1] \in Int /\ words[i] \in Int
        /\ words[k] \in Int
      BY <1>1, <1>3, <1>k
  <2>2. f[i] = f[i - 1] + words[i]
      BY <1>3
  <2>3. CASE i < k
    <3>1. h[i] = f[i] /\ h[i - 1] = f[i - 1] /\ c[i] = words[i]
        BY <1>k, <1>2, <1>5, <2>1, <2>3
    <3> QED
        BY <2>2, <3>1
  <2>4. CASE i = k
    <3>1. h[i] = f[i] - words[k] + v /\ h[i - 1] = f[i - 1] /\ c[i] = v
        BY <1>k, <1>2, <1>5, <2>1, <2>4
    <3> QED
        BY <2>1, <2>2, <2>4, <3>1
  <2>5. CASE i > k
    <3>1. h[i] = f[i] - words[k] + v /\ h[i - 1] = f[i - 1] - words[k] + v /\ c[i] = words[i]
        BY <1>k, <1>2, <1>5, <2>1, <2>5
    <3> QED
        BY <2>1, <2>2, <3>1
  <2> QED
      BY <1>k, <2>3, <2>4, <2>5
<1>7. h[0] = 0 /\ h[n] = f[n] - words[k] + v
  <2>1. 0 \in 0 .. n /\ 0 < k /\ n \in 0 .. n /\ ~(n < k)
      BY <1>1, <1>k
  <2> QED
      BY <1>3, <1>5, <2>1
<1>8. Adds(c, h)
    BY <1>2, <1>4, <1>6, <1>7 DEF Adds, AddsUpTo
<1>9. Total(c) = h[n]
    BY <1>2, <1>8, TotalOf
<1> QED
    BY <1>7, <1>9 DEF c

LEMMA Total3 ==
    ASSUME NEW a \in Int, NEW b \in Int, NEW c \in Int
    PROVE  Total(<<a, b, c>>) = a + b + c
<1> DEFINE w == <<a, b, c>>
<1>1. w \in Seq(Int) /\ Len(w) = 3 /\ w[1] = a /\ w[2] = b /\ w[3] = c
    OBVIOUS
<1> HIDE DEF w
<1> PICK f : Adds(w, f) /\ Total(w) = f[3]
    BY <1>1, TotalIs
<1>2. f[0] = 0 /\ \A i \in 1 .. 3 : f[i] = f[i - 1] + w[i]
    BY <1>1 DEF Adds, AddsUpTo
<1>3. f[1] = a /\ f[2] = f[1] + b /\ f[3] = f[2] + c
    BY <1>1, <1>2
<1>4. Total(w) = a + b + c
    BY <1>3
<1> QED
    BY <1>4 DEF w

LEMMA Total4 ==
    ASSUME NEW a \in Int, NEW b \in Int, NEW c \in Int, NEW d \in Int
    PROVE  Total(<<a, b, c, d>>) = a + b + c + d
<1> DEFINE w == <<a, b, c, d>>
<1>1. w \in Seq(Int) /\ Len(w) = 4 /\ w[1] = a /\ w[2] = b /\ w[3] = c /\ w[4] = d
    OBVIOUS
<1> HIDE DEF w
<1> PICK f : Adds(w, f) /\ Total(w) = f[4]
    BY <1>1, TotalIs
<1>2. f[0] = 0 /\ \A i \in 1 .. 4 : f[i] = f[i - 1] + w[i]
    BY <1>1 DEF Adds, AddsUpTo
<1>3. f[1] = a /\ f[2] = f[1] + b /\ f[3] = f[2] + c /\ f[4] = f[3] + d
    BY <1>1, <1>2
<1>4. Total(w) = a + b + c + d
    BY <1>3
<1> QED
    BY <1>4 DEF w

LEMMA Total5 ==
    ASSUME NEW a \in Int, NEW b \in Int, NEW c \in Int, NEW d \in Int, NEW e \in Int
    PROVE  Total(<<a, b, c, d, e>>) = a + b + c + d + e
<1> DEFINE w == <<a, b, c, d, e>>
<1>1. w \in Seq(Int) /\ Len(w) = 5
      /\ w[1] = a /\ w[2] = b /\ w[3] = c /\ w[4] = d /\ w[5] = e
    OBVIOUS
<1> HIDE DEF w
<1> PICK f : Adds(w, f) /\ Total(w) = f[5]
    BY <1>1, TotalIs
<1>2. f[0] = 0 /\ \A i \in 1 .. 5 : f[i] = f[i - 1] + w[i]
    BY <1>1 DEF Adds, AddsUpTo
<1>3. f[1] = a /\ f[2] = f[1] + b /\ f[3] = f[2] + c /\ f[4] = f[3] + d /\ f[5] = f[4] + e
    BY <1>1, <1>2
<1>4. Total(w) = a + b + c + d + e
    BY <1>3
<1> QED
    BY <1>4 DEF w

-------------------------------------------------------------------------------
\* The carries.

\* Division with rest: there is one quotient and one rest.
LEMMA Division ==
    ASSUME NEW m \in Nat \ {0}, NEW n \in Nat
    PROVE  /\ n \div m \in Nat /\ n % m \in 0 .. m - 1
           /\ n = m * (n \div m) + (n % m)
OBVIOUS

LEMMA OneRest ==
    ASSUME NEW m \in Nat \ {0}, NEW q \in Nat, NEW r \in 0 .. m - 1
    PROVE  (m * q + r) % m = r
<1> DEFINE n == m * q + r
<1>1. n \in Nat
    OBVIOUS
<1> PICK p \in Nat, s \in 0 .. m - 1 : n = m * p + s /\ n % m = s
    BY <1>1, Division
<1>2. m * (p - q) = r - s
    OBVIOUS
<1>3. r \in Nat /\ s \in Nat /\ r < m /\ s < m
    OBVIOUS
<1> HIDE DEF n
<1> PICK d \in Int : d = p - q
    OBVIOUS
<1>5. d >= 1 => m * d >= m
    OBVIOUS
<1>6. d <= -1 => m * d <= -m
    OBVIOUS
<1>7. m * d = r - s
    BY <1>2
<1>8. d = 0
    BY <1>3, <1>5, <1>6, <1>7
<1>9. m * d = 0
    BY <1>8
<1>10. s = r
    BY <1>7, <1>9
<1> QED
    BY <1>10 DEF n

\* What one round of calculate_checksum's loop does to a sum: it is smaller by a
\* multiple of WordMod - 1.
Carried(n) == (n % WordMod) + (n \div WordMod)

LEMMA Carry ==
    ASSUME NEW n \in Nat, n >= WordMod
    PROVE  /\ Carried(n) \in Nat /\ Carried(n) > 0 /\ Carried(n) < n
           /\ \E q \in Nat : n = Carried(n) + (WordMod - 1) * q
<1> PICK m : m = WordMod
    OBVIOUS
<1>1. m \in Nat /\ m > 1
    BY WordAssumption
<1> PICK q \in Nat, r \in 0 .. m - 1 : n = m * q + r /\ q = n \div m /\ r = n % m
  <2>1. m \in Nat \ {0}
      BY <1>1
  <2> QED
      BY <2>1, Division
<1>2. Carried(n) = r + q
    BY DEF Carried
<1>3. m * q = q + (m - 1) * q
    BY <1>1
<1>4. q >= 1
  <2>1. q = 0 => m * q = 0
      BY <1>1
  <2> QED
      BY <1>1, <2>1
<1>5. (m - 1) * q >= 1
    BY <1>1, <1>4
<1>6. (m - 1) * q \in Int
    BY <1>1
<1>7. n = (r + q) + (m - 1) * q
    BY <1>1, <1>3, <1>6
<1>8. r + q < n /\ r + q > 0 /\ r + q \in Nat
    BY <1>1, <1>4, <1>5, <1>6, <1>7
<1> QED
    BY <1>2, <1>7, <1>8

\* The loop that adds the carries, as a function of the sum.
IsFold(f) == f = [n \in Nat |-> IF n < WordMod THEN n ELSE f[Carried(n)]]

LEMMA FoldsExists ==
    \E f : IsFold(f)
<1> PICK m : m = WordMod - 1
    OBVIOUS
<1>1. m \in Nat \ {0} /\ WordMod = m + 1
    BY WordAssumption
<1> DEFINE Rest(n) == IF n = 0 THEN 0 ELSE ((n - 1) % m) + 1
           f == [n \in Nat |-> Rest(n)]
<1>2. ASSUME NEW n \in Nat, n < WordMod PROVE Rest(n) = n
  <2>1. CASE n = 0
      BY <2>1
  <2>2. CASE n # 0
    <3>1. n - 1 \in 0 .. m - 1 /\ m * 0 + (n - 1) = n - 1
        BY <1>1, <1>2, <2>2
    <3>2. (n - 1) % m = n - 1
        BY <1>1, <3>1, OneRest
    <3> QED
        BY <2>2, <3>2
  <2> QED
      BY <2>1, <2>2
<1>3. ASSUME NEW n \in Nat, n >= WordMod PROVE Carried(n) \in Nat /\ Rest(Carried(n)) = Rest(n)
  <2> PICK c \in Nat, q \in Nat : c = Carried(n) /\ c > 0 /\ n = c + m * q
      BY <1>3, Carry
  <2> PICK b \in Nat : b = c - 1
      OBVIOUS
  <2> PICK p \in Nat, r \in 0 .. m - 1 : b = m * p + r /\ b % m = r
      BY <1>1, Division
  <2>1. m * p \in Int /\ m * q \in Int /\ m * (p + q) = m * p + m * q
      BY <1>1
  <2> PICK a \in Nat : a = n - 1
      BY <1>1, <1>3
  <2>2. a = m * (p + q) + r
      BY <1>1, <2>1
  <2> PICK k \in Nat : k = p + q
      OBVIOUS
  <2>3. a = m * k + r
      BY <2>2
  <2>4. a % m = r
    <3>1. (m * k + r) % m = r
        BY <1>1, OneRest
    <3> QED
        BY <2>3, <3>1
  <2>5. Rest(c) = (b % m) + 1 /\ Rest(n) = (a % m) + 1
    <3>1. n # 0
        BY <1>1, <1>3
    <3>2. c # 0
        OBVIOUS
    <3>3. c - 1 = b /\ n - 1 = a
        OBVIOUS
    <3> QED
        BY <3>1, <3>2, <3>3
  <2> QED
      BY <2>4, <2>5
<1> HIDE DEF Rest
<1>4. \A n \in Nat : f[n] = IF n < WordMod THEN n ELSE f[Carried(n)]
  <2> SUFFICES ASSUME NEW n \in Nat PROVE f[n] = IF n < WordMod THEN n ELSE f[Carried(n)]
      OBVIOUS
  <2>1. n < WordMod \/ n >= WordMod
      BY <1>1
  <2> QED
      BY <1>2, <1>3, <2>1
<1>5. f = [n \in Nat |-> f[n]]
    OBVIOUS
<1> HIDE DEF f
<1>6. [n \in Nat |-> f[n]] = [n \in Nat |-> IF n < WordMod THEN n ELSE f[Carried(n)]]
    BY <1>4
<1> QED
    BY <1>5, <1>6 DEF IsFold

\* What the carries leave is one word, which differs from the sum by a multiple of
\* WordMod - 1.
LEMMA FoldedIs ==
    ASSUME NEW sum \in Nat
    PROVE  /\ Folded(sum) \in 0 .. WordMod - 1
           /\ \E k \in Nat : sum = Folded(sum) + (WordMod - 1) * k
<1> DEFINE fold == CHOOSE f : IsFold(f)
<1>1. IsFold(fold)
    BY FoldsExists, Zenon
<1>2. Folded(sum) = fold[sum]
    BY Zenon DEF Folded, IsFold, Carried
<1> HIDE DEF fold
<1>3. \A n \in Nat : fold[n] = IF n < WordMod THEN n ELSE fold[Carried(n)]
    BY <1>1 DEF IsFold
<1> DEFINE Good(n) == /\ fold[n] \in 0 .. WordMod - 1
                      /\ \E k \in Nat : n = fold[n] + (WordMod - 1) * k
           R == {n \in Nat : ~Good(n)}
<1> HIDE DEF Good
<1>4. R = {}
  <2> SUFFICES ASSUME R # {} PROVE FALSE
      OBVIOUS
  <2>1. R \subseteq Nat
      OBVIOUS
  <2> PICK n \in R : \A d \in R : n <= d
      BY <2>1, Least
  <2>2. n \in Nat /\ ~Good(n)
      OBVIOUS
  <2>3. CASE n < WordMod
    <3>1. fold[n] = n /\ n \in 0 .. WordMod - 1
        BY <1>3, <2>2, <2>3, WordAssumption
    <3>2. n = fold[n] + (WordMod - 1) * 0
        BY <2>2, <3>1, WordAssumption
    <3>3. Good(n)
        BY <3>1, <3>2 DEF Good
    <3> QED
        BY <2>2, <3>3
  <2>4. CASE n >= WordMod
    <3> PICK c \in Nat, q \in Nat : c = Carried(n) /\ c < n /\ n = c + (WordMod - 1) * q
        BY <2>2, <2>4, Carry
    <3>1. c \notin R
        BY <2>2
    <3>2. Good(c)
        BY <3>1
    <3>3. fold[n] = fold[c]
        BY <1>3, <2>2, <2>4, WordAssumption
    <3>4. PICK v \in 0 .. WordMod - 1, k \in Nat : v = fold[c] /\ c = v + (WordMod - 1) * k
        BY <3>2 DEF Good
    <3>5. (WordMod - 1) * (k + q) = (WordMod - 1) * k + (WordMod - 1) * q
          /\ (WordMod - 1) * k \in Int /\ (WordMod - 1) * q \in Int
        BY WordAssumption
    <3>6. n = v + (WordMod - 1) * (k + q) /\ k + q \in Nat
        BY <3>4, <3>5, WordAssumption
    <3>7. Good(n)
        BY <3>3, <3>4, <3>6 DEF Good
    <3> QED
        BY <2>2, <3>7
  <2> QED
      BY <2>2, <2>3, <2>4, WordAssumption
<1>5. Good(sum)
    BY <1>4
<1> QED
    BY <1>2, <1>5 DEF Good

\* The complement of the folded sum completes the sum to a multiple of WordMod - 1.
LEMMA Completed ==
    ASSUME NEW words \in Seq(Nat)
    PROVE  /\ calculate_checksum(words) \in 0 .. WordMod - 1
           /\ (Total(words) + calculate_checksum(words)) % (WordMod - 1) = 0
<1> PICK m : m = WordMod - 1
    OBVIOUS
<1>1. m \in Nat \ {0} /\ WordMod = m + 1
    BY WordAssumption
<1> PICK t \in Nat : t = Total(words)
    BY TotalNat
<1> PICK s \in 0 .. m, k \in Nat : s = Folded(t) /\ t = s + m * k
    BY <1>1, FoldedIs
<1>2. calculate_checksum(words) = m - s
    BY <1>1 DEF calculate_checksum
<1>3. m * (k + 1) = m * k + m /\ m * k \in Int
    BY <1>1
<1>4. t + (m - s) = m * (k + 1) + 0
    BY <1>1, <1>3
<1>5. (m * (k + 1) + 0) % m = 0
  <2>1. k + 1 \in Nat /\ 0 \in 0 .. m - 1
      BY <1>1
  <2> QED
      BY <1>1, <2>1, OneRest
<1>6. (t + (m - s)) % m = 0
    BY <1>4, <1>5
<1>7. m - s \in 0 .. WordMod - 1
    BY <1>1
<1> QED
    BY <1>2, <1>6, <1>7

-------------------------------------------------------------------------------
\* What is in a datagram.

LEMMA Header ==
    ASSUME NEW text \in Line \cup Body, NEW src \in Nat, NEW dst \in Nat
    PROVE  LET d == add_udp_header(text, src, dst)
           IN  /\ d \in Seq(Nat) /\ Len(d) = UdpHeaderLen + Len(text)
               /\ d[3] = 2 * (UdpHeaderLen + Len(text))
               /\ \A i \in 1 .. Len(text) : d[UdpHeaderLen + i] = text[i]
<1> DEFINE n == Word(2 * (UdpHeaderLen + Len(text)))
           h == <<src, dst, n, 0>>
<1>1. text \in Seq(Nat) /\ Len(text) \in Nat /\ n = 2 * (UdpHeaderLen + Len(text))
    BY Texts
<1>2. n \in Nat
    BY <1>1 DEF UdpHeaderLen
<1> HIDE DEF n
<1>3. h \in Seq(Nat) /\ Len(h) = UdpHeaderLen /\ h[3] = n
    BY <1>2 DEF UdpHeaderLen
<1>4. add_udp_header(text, src, dst) = h \o text
    BY DEF add_udp_header, n
<1> HIDE DEF h
<1>5. /\ h \o text \in Seq(Nat) /\ Len(h \o text) = Len(h) + Len(text)
      /\ \A i \in 1 .. Len(h) + Len(text) :
             (h \o text)[i] = IF i <= Len(h) THEN h[i] ELSE text[i - Len(h)]
    BY <1>1, <1>3, ConcatProperties
<1>6. (h \o text)[3] = n
    BY <1>1, <1>3, <1>5 DEF UdpHeaderLen
<1>7. \A i \in 1 .. Len(text) : (h \o text)[UdpHeaderLen + i] = text[i]
    BY <1>1, <1>3, <1>5 DEF UdpHeaderLen
<1> QED
    BY <1>1, <1>3, <1>4, <1>5, <1>6, <1>7

LEMMA NoWords ==
    Zeros(Padding) \in Seq(Nat)
BY TextAssumption, IsASeq DEF Zeros

\* udp_process prints the body of the peer's datagram, without the padding.
LEMMA Printed ==
    ASSUME NEW data \in Body
    PROVE  /\ Telling(data).data[3] = 2 * (UdpHeaderLen + Len(data))
           /\ UdpBody(Telling(data).data) = data
<1> PICK d \in Seq(Nat) :
        /\ d = add_udp_header(data, 3, 4) /\ Len(d) = UdpHeaderLen + Len(data)
        /\ d[3] = 2 * (UdpHeaderLen + Len(data))
        /\ \A i \in 1 .. Len(data) : d[UdpHeaderLen + i] = data[i]
    BY Header
<1> PICK z \in Seq(Nat) : z = Zeros(Padding)
    BY NoWords
<1> DEFINE w == d \o z
<1>1. Telling(data).data = w
    BY DEF Telling, Padded, Packet
<1>2. /\ w \in Seq(Nat) /\ Len(d) \in Nat /\ Len(z) \in Nat
      /\ \A i \in 1 .. Len(d) + Len(z) : w[i] = IF i <= Len(d) THEN d[i] ELSE z[i - Len(d)]
    BY ConcatProperties, LenProperties
<1>3. data \in Seq(Nat) /\ Len(data) \in Nat
    BY Texts
<1> HIDE DEF w
<1>4. w[3] = 2 * (UdpHeaderLen + Len(data))
  <2>1. 3 \in 1 .. Len(d) + Len(z) /\ 3 <= Len(d)
      BY <1>2, <1>3 DEF UdpHeaderLen
  <2>2. w[3] = d[3]
      BY <1>2, <2>1
  <2> QED
      BY <2>2
<1>5. w[3] \div 2 = UdpHeaderLen + Len(data)
  <2>1. \A k \in Nat : (2 * k) \div 2 = k
      BY SMTT(30)
  <2> QED
      BY <1>3, <1>4, <2>1 DEF UdpHeaderLen
<1>6. \A i \in UdpHeaderLen + 1 .. UdpHeaderLen + Len(data) : w[i] \in Nat /\ w[i] = data[i - UdpHeaderLen]
  <2> SUFFICES ASSUME NEW i \in UdpHeaderLen + 1 .. UdpHeaderLen + Len(data)
               PROVE  w[i] \in Nat /\ w[i] = data[i - UdpHeaderLen]
      OBVIOUS
  <2> DEFINE j == i - UdpHeaderLen
  <2>1. j \in 1 .. Len(data) /\ UdpHeaderLen + j = i
      BY <1>3 DEF UdpHeaderLen
  <2>2. w[i] = d[i]
    <3>1. i \in Nat /\ 1 <= i /\ i <= UdpHeaderLen + Len(data)
        BY <1>3 DEF UdpHeaderLen
    <3>2. i <= Len(d)
        BY <3>1
    <3>3. i \in 1 .. Len(d) + Len(z)
        BY <1>2, <3>1, <3>2
    <3> QED
        BY <1>2, <3>2, <3>3
  <2>3. d[i] = data[j]
      BY <2>1
  <2>4. data[j] \in Nat
      BY <1>3, <2>1, ElementOfSeq
  <2> QED
      BY <2>2, <2>3, <2>4
<1> DEFINE body == SubSeq(w, UdpHeaderLen + 1, UdpHeaderLen + Len(data))
<1>7. body \in Seq(Nat) /\ Len(body) = Len(data)
      /\ \A i \in 1 .. Len(data) : body[i] = w[UdpHeaderLen + i]
  <2> DEFINE m == UdpHeaderLen + 1
             n == UdpHeaderLen + Len(data)
  <2>1. m \in Int /\ n \in Int /\ \A i \in m .. n : w[i] \in Nat
      BY <1>3, <1>6 DEF UdpHeaderLen
  <2>2. /\ SubSeq(w, m, n) \in Seq(Nat)
        /\ Len(SubSeq(w, m, n)) = IF m <= n THEN n - m + 1 ELSE 0
        /\ \A i \in 1 .. n - m + 1 : SubSeq(w, m, n)[i] = w[m + i - 1]
      BY <2>1, SubSeqProperties, SMTT(30)
  <2>3. n - m + 1 = Len(data) /\ Len(SubSeq(w, m, n)) = Len(data)
        /\ \A i \in 1 .. Len(data) : m + i - 1 = UdpHeaderLen + i
      BY <1>3, <2>2 DEF UdpHeaderLen
  <2> QED
      BY <2>2, <2>3
<1> HIDE DEF body
<1>8. \A i \in 1 .. Len(data) : body[i] = data[i]
  <2> SUFFICES ASSUME NEW i \in 1 .. Len(data) PROVE body[i] = data[i]
      OBVIOUS
  <2> PICK j \in Nat : j = UdpHeaderLen + i
      BY <1>3 DEF UdpHeaderLen
  <2>1. j \in UdpHeaderLen + 1 .. UdpHeaderLen + Len(data) /\ j - UdpHeaderLen = i
      BY <1>3 DEF UdpHeaderLen
  <2>2. w[j] = data[j - UdpHeaderLen]
      BY <1>6, <2>1
  <2>3. body[i] = w[j]
      BY <1>7
  <2> QED
      BY <2>1, <2>2, <2>3
<1>9. body = data
    BY <1>3, <1>7, <1>8, SeqEqual
<1> QED
    BY <1>1, <1>4, <1>5, <1>9 DEF UdpBody, body

\* Of one that says it is shorter than its header nothing is printed.
LEMMA NotPrinted ==
    ASSUME NEW data \in Body
    PROVE  Cutting(data).data[3] < 2 * UdpHeaderLen
<1> DEFINE h == <<3, 4, 2, 0>>
<1>1. h \in Seq(Nat) /\ Len(h) = 4 /\ h[3] = 2
    OBVIOUS
<1>2. data \in Seq(Nat) /\ Len(data) \in Nat /\ Zeros(Padding) \in Seq(Nat)
    BY Texts, NoWords
<1>3. Cutting(data).data = (h \o data) \o Zeros(Padding)
    BY DEF Cutting, Padded, Packet
<1> HIDE DEF h
<1>4. h \o data \in Seq(Nat) /\ Len(h \o data) = 4 + Len(data) /\ (h \o data)[3] = 2
  <2>1. /\ h \o data \in Seq(Nat) /\ Len(h \o data) = Len(h) + Len(data)
        /\ \A i \in 1 .. Len(h) + Len(data) :
               (h \o data)[i] = IF i <= Len(h) THEN h[i] ELSE data[i - Len(h)]
      BY <1>1, <1>2, ConcatProperties
  <2> QED
      BY <1>1, <1>2, <2>1
<1>5. Len(Zeros(Padding)) \in Nat
    BY <1>2, LenProperties
<1>6. ((h \o data) \o Zeros(Padding))[3] = (h \o data)[3]
    BY <1>2, <1>4, <1>5, ConcatProperties
<1> QED
    BY <1>3, <1>4, <1>6 DEF UdpHeaderLen

\* The checksum takes one word of a datagram that leaves, and nothing else changes.
LEMMA Summed ==
    ASSUME NEW line \in Line, NEW src, NEW dst,
           HasChecksumWord(add_udp_header(line, 1, 2))
    PROVE  Typed(pseudo_header_checksum(add_udp_header(line, 1, 2), src, dst), line)
<1> PICK d \in Seq(Nat) :
        /\ d = add_udp_header(line, 1, 2) /\ Len(d) = UdpHeaderLen + Len(line)
        /\ d[3] = 2 * (UdpHeaderLen + Len(line))
        /\ \A i \in 1 .. Len(line) : d[UdpHeaderLen + i] = line[i]
    BY Header
<1> DEFINE cleared == [d EXCEPT ![TcpChecksum] = 0]
           sum     == calculate_checksum(Pseudo(src, dst, TCP_TYPE, Len(d)) \o cleared)
           words   == [cleared EXCEPT ![TcpChecksum] = sum]
<1>1. pseudo_header_checksum(d, src, dst) = words
    BY DEF pseudo_header_checksum
<1> HIDE DEF sum
<1>2. TcpChecksum \in 1 .. Len(d) /\ Len(d) \in Nat /\ Len(line) \in Nat
    BY Texts, LenProperties DEF HasChecksumWord, TcpChecksum
<1>3. /\ cleared \in Seq(Nat) /\ Len(cleared) = Len(d)
      /\ \A i \in 1 .. Len(d) : i # TcpChecksum => cleared[i] = d[i]
    BY <1>2, ExceptSeq
<1> HIDE DEF cleared
<1>4. cleared \in Seq(Nat \cup {sum})
    BY <1>3, SeqMonotonic
<1>5. /\ Len(words) = Len(d)
      /\ \A i \in 1 .. Len(d) : i # TcpChecksum => words[i] = d[i]
  <2>1. sum \in Nat \cup {sum} /\ TcpChecksum \in 1 .. Len(cleared)
      BY <1>2, <1>3
  <2>2. /\ Len(words) = Len(cleared)
        /\ \A i \in 1 .. Len(cleared) : words[i] = IF i = TcpChecksum THEN sum ELSE cleared[i]
      BY <1>4, <2>1, ExceptSeq
  <2> QED
      BY <1>3, <2>2
<1> HIDE DEF words
<1>6. words[3] = 2 * Len(words)
  <2>1. 3 \in 1 .. Len(d) /\ 3 # TcpChecksum
      BY <1>2 DEF TcpChecksum
  <2> QED
      BY <1>5, <2>1
<1>7. \A i \in 1 .. Len(line) :
          UdpHeaderLen + i = TcpChecksum \/ words[UdpHeaderLen + i] = line[i]
  <2> SUFFICES ASSUME NEW i \in 1 .. Len(line), UdpHeaderLen + i # TcpChecksum
               PROVE  words[UdpHeaderLen + i] = line[i]
      OBVIOUS
  <2>1. UdpHeaderLen + i \in 1 .. Len(d)
      BY <1>2 DEF UdpHeaderLen
  <2> QED
      BY <1>5, <2>1
<1> QED
    BY <1>1, <1>5, <1>6, <1>7 DEF Typed

-------------------------------------------------------------------------------
\* What verifies.

LEMMA HostAddresses ==
    DefaultIp \in Nat /\ PeerIp \in Nat
<1>1. DefaultIp \in 0 .. WordMod - 1 /\ PeerIp \in 0 .. WordMod - 1
    BY AddressAssumption DEF Ip
<1> QED
    BY <1>1, WordAssumption

\* With the checksum in a place that was 0 when it was calculated, words verify.
LEMMA Verified ==
    ASSUME NEW words \in Seq(Nat), NEW n \in Int,
           Total(words) + calculate_checksum(words) = n
    PROVE  n % (WordMod - 1) = 0
BY Completed

LEMMA WordIs ==
    \A n \in Nat : Word(n) \in Nat
<1>1. WordMod \in Nat \ {0}
    BY WordAssumption
<1> PICK m \in Nat \ {0} : m = WordMod
    BY <1>1
<1> SUFFICES ASSUME NEW n \in Nat PROVE n % m \in Nat
    BY DEF Word
<1> QED
    BY Division

\* add_ip_header: the header of whatever leaves verifies.
LEMMA HeaderVerifies ==
    ASSUME NEW host \in Nat, NEW dst \in Nat, NEW proto \in Nat, NEW data, Len(data) \in Nat
    PROVE  Verifies(HeaderWords(add_ip_header(host, data, proto, dst)))
<1> DEFINE p == Packet(proto, host, dst, data)
           w == HeaderWords(p)
           c == calculate_checksum(w)
           q == [p EXCEPT !.checksum = c]
           a == Word(proto)
           b == Word(2 * p.total_len)
<1>1. a \in Nat /\ b \in Nat
    BY WordIs DEF Packet, IpHeaderLen
<1>2. w = <<a, host, dst, b, 0>>
    BY DEF HeaderWords, Packet
<1>3. HeaderWords(q) = <<a, host, dst, b, c>>
    BY DEF HeaderWords, Packet
<1>4. add_ip_header(host, data, proto, dst) = q
    BY DEF add_ip_header
<1> HIDE DEF a, b, w, q, p
<1>5. w \in Seq(Nat)
    BY <1>1, <1>2
<1>6. c \in Nat
  <2>1. c \in 0 .. WordMod - 1
      BY <1>5, Completed
  <2> QED
      BY <2>1, WordAssumption
<1> HIDE DEF c
<1>7. Total(w) = a + host + dst + b + 0 /\ Total(HeaderWords(q)) = a + host + dst + b + c
  <2>1. /\ a \in Int /\ host \in Int /\ dst \in Int /\ b \in Int /\ 0 \in Int /\ c \in Int
      BY <1>1, <1>6
  <2>2. Total(<<a, host, dst, b, 0>>) = a + host + dst + b + 0
      BY <2>1, Total5, SMTT(30)
  <2>3. Total(<<a, host, dst, b, c>>) = a + host + dst + b + c
      BY <2>1, Total5, SMTT(30)
  <2> QED
      BY <1>2, <1>3, <2>2, <2>3
<1>8. Total(HeaderWords(q)) = Total(w) + c /\ Total(HeaderWords(q)) \in Int
    BY <1>1, <1>6, <1>7
<1>9. Total(HeaderWords(q)) % (WordMod - 1) = 0
    BY <1>5, <1>8, Verified DEF c
<1> QED
    BY <1>4, <1>9 DEF Verifies

\* pseudo_header_checksum: the segment verifies, in either direction, since the sum
\* does not see the order of the addresses.
LEMMA SegmentVerifies ==
    ASSUME NEW segment \in Seq(Nat), HasChecksumWord(segment), NEW src \in Nat, NEW dst \in Nat
    PROVE  LET s == pseudo_header_checksum(segment, src, dst)
           IN  /\ s \in Seq(Nat) /\ Len(s) = Len(segment)
               /\ Verifies(Pseudo(dst, src, TCP_TYPE, Len(s)) \o s)
<1> DEFINE n == Len(segment)
           z == [segment EXCEPT ![TcpChecksum] = 0]
           h == Pseudo(src, dst, TCP_TYPE, n)
           b == Pseudo(dst, src, TCP_TYPE, n)
           c == calculate_checksum(h \o z)
           s == [z EXCEPT ![TcpChecksum] = c]
<1>1. n \in Nat /\ TcpChecksum \in 1 .. n
    BY LenProperties DEF HasChecksumWord, TcpChecksum
<1>2. pseudo_header_checksum(segment, src, dst) = s
    BY DEF pseudo_header_checksum
<1>3. z \in Seq(Nat) /\ Len(z) = n /\ z[TcpChecksum] = 0
    BY <1>1, ExceptSeq
<1>4. h \in Seq(Nat) /\ b \in Seq(Nat) /\ Total(h) = Total(b) /\ Total(h) \in Nat
  <2> PICK x \in Nat : x = Word(TCP_TYPE)
      BY WordIs DEF TCP_TYPE
  <2> PICK y \in Nat : y = Word(2 * n)
    <3>1. 2 * n \in Nat
        BY <1>1
    <3> QED
        BY <3>1, WordIs
  <2>1. h = <<src, dst, x, y>> /\ b = <<dst, src, x, y>>
      BY DEF Pseudo
  <2> HIDE DEF h, b
  <2>2. h \in Seq(Nat) /\ b \in Seq(Nat)
      BY <2>1
  <2>3. Total(h) = src + dst + x + y /\ Total(b) = dst + src + x + y
      BY <2>1, Total4
  <2> QED
      BY <2>2, <2>3
<1> HIDE DEF z, h, b, n
<1>5. h \o z \in Seq(Nat)
    BY <1>3, <1>4, ConcatProperties
<1>6. c \in Nat
  <2>1. c \in 0 .. WordMod - 1
      BY <1>5, Completed
  <2> QED
      BY <2>1, WordAssumption
<1>7. s \in Seq(Nat) /\ Len(s) = n
    BY <1>1, <1>3, <1>6, ExceptSeq
<1>8. z \in Seq(Int) /\ h \in Seq(Int) /\ b \in Seq(Int) /\ s \in Seq(Int)
    BY <1>3, <1>4, <1>7, SeqMonotonic
<1>9. Total(s) = Total(z) + c
  <2>1. TcpChecksum \in 1 .. Len(z) /\ c \in Int
      BY <1>1, <1>3, <1>6
  <2>2. Total(s) = Total(z) - z[TcpChecksum] + c
      BY <1>8, <2>1, TotalExcept
  <2>3. Total(z) \in Int
      BY <1>8, TotalInt
  <2> QED
      BY <1>3, <1>6, <2>2, <2>3
<1>10. Total(b \o s) = Total(h \o z) + c /\ Total(b \o s) \in Int
  <2> HIDE DEF s
  <2>1. Total(b \o s) = Total(b) + Total(s) /\ Total(h \o z) = Total(h) + Total(z)
      BY <1>8, TotalConcat
  <2>2. Total(z) \in Int
      BY <1>8, TotalInt
  <2> QED
      BY <1>4, <1>6, <1>9, <2>1, <2>2
<1>11. Total(b \o s) % (WordMod - 1) = 0
    BY <1>5, <1>10, Verified DEF c
<1>12. Verifies(Pseudo(dst, src, TCP_TYPE, Len(s)) \o s)
  <2> HIDE DEF s
  <2> QED
      BY <1>7, <1>11 DEF Verifies, b
<1> QED
    BY <1>2, <1>7, <1>12 DEF n

\* What ip_process hands up of the peer's packet is what was packed, without the padding.
LEMMA PayloadIs ==
    ASSUME NEW words \in Seq(Nat), NEW proto
    PROVE  Payload(Padded(proto, words)) = words
<1> PICK z \in Seq(Nat) : z = Zeros(Padding)
    BY NoWords
<1> DEFINE n == Len(words)
           w == words \o z
           s == SubSeq(w, 1, n)
<1>1. n \in Nat /\ Len(z) \in Nat
    BY LenProperties
<1>2. Payload(Padded(proto, words)) = s
  <2> DEFINE p == Padded(proto, words)
  <2>1. p.data = w /\ p.total_len = IpHeaderLen + n
      BY DEF Padded, Packet
  <2>2. p.total_len - IpHeaderLen = n
      BY <1>1, <2>1 DEF IpHeaderLen
  <2> HIDE DEF p
  <2> QED
      BY <2>1, <2>2 DEF Payload, p
<1>3. \A i \in 1 .. n : w[i] = words[i] /\ w[i] \in Nat
    BY <1>1, ConcatProperties, ElementOfSeq
<1> HIDE DEF w
<1>4. s \in Seq(Nat) /\ Len(s) = n /\ \A i \in 1 .. n : s[i] = w[i]
  <2>1. /\ s \in Seq(Nat)
        /\ Len(s) = IF 1 <= n THEN n - 1 + 1 ELSE 0
        /\ \A i \in 1 .. n - 1 + 1 : s[i] = w[1 + i - 1]
      BY <1>1, <1>3, SubSeqProperties
  <2>2. n - 1 + 1 = n /\ \A i \in 1 .. n : 1 + i - 1 = i
      BY <1>1
  <2> QED
      BY <1>1, <2>1, <2>2
<1> HIDE DEF s
<1>5. s = words
    BY <1>3, <1>4, SeqEqual
<1> QED
    BY <1>2, <1>5

\* A message with four words before its data.
LEMMA Message ==
    ASSUME NEW a \in Nat, NEW b \in Nat, NEW c \in Nat, NEW d \in Nat, NEW data \in Seq(Nat)
    PROVE  LET w == <<a, b, c, d>> \o data
           IN  /\ w \in Seq(Nat) /\ Len(w) = 4 + Len(data)
               /\ w[1] = a /\ w[2] = b /\ w[3] = c /\ w[4] = d
               /\ \A i \in 5 .. 4 + Len(data) : w[i] = data[i - 4]
               /\ Total(w) = a + b + c + d + Total(data)
<1> DEFINE h == <<a, b, c, d>>
           w == h \o data
<1>1. /\ h \in Seq(Nat) /\ Len(h) = 4 /\ h[1] = a /\ h[2] = b /\ h[3] = c /\ h[4] = d
      /\ Len(data) \in Nat
    BY LenProperties
<1>2. Total(h) = a + b + c + d
    BY Total4
<1> HIDE DEF h
<1>3. /\ w \in Seq(Nat) /\ Len(w) = 4 + Len(data)
      /\ \A i \in 1 .. 4 + Len(data) : w[i] = IF i <= 4 THEN h[i] ELSE data[i - 4]
  <2>1. /\ w \in Seq(Nat) /\ Len(w) = Len(h) + Len(data)
        /\ \A i \in 1 .. Len(h) + Len(data) :
               w[i] = IF i <= Len(h) THEN h[i] ELSE data[i - Len(h)]
      BY <1>1, ConcatProperties
  <2> HIDE DEF w
  <2> QED
      BY <1>1, <2>1
<1>4. Total(w) = Total(h) + Total(data)
  <2>1. h \in Seq(Int) /\ data \in Seq(Int)
      BY <1>1, SeqMonotonic
  <2> QED
      BY <2>1, TotalConcat
<1> HIDE DEF w
<1>5. w[1] = a /\ w[2] = b /\ w[3] = c /\ w[4] = d
    BY <1>1, <1>3
<1>6. \A i \in 5 .. 4 + Len(data) : w[i] = data[i - 4]
  <2> SUFFICES ASSUME NEW i \in 5 .. 4 + Len(data) PROVE w[i] = data[i - 4]
      OBVIOUS
  <2>1. i \in 1 .. 4 + Len(data) /\ ~(i <= 4)
      BY <1>1
  <2> QED
      BY <1>3, <2>1
<1> QED
    BY <1>2, <1>3, <1>4, <1>5, <1>6 DEF w, h

\* The checksum of a message sees neither where its own word is nor that the word is 0.
LEMMA SameSum ==
    ASSUME NEW a \in Nat, NEW c \in Nat, NEW d \in Nat, NEW data \in Seq(Nat)
    PROVE  calculate_checksum(<<a, 0, c, d>> \o data) = calculate_checksum(<<a, c, d>> \o data)
<1> DEFINE h == <<a, c, d>>
<1>1. h \in Seq(Int) /\ data \in Seq(Int)
    BY SeqMonotonic
<1>2. Total(h) = a + c + d
    BY Total3
<1> HIDE DEF h
<1>3. Total(h \o data) = Total(h) + Total(data) /\ Total(data) \in Int
    BY <1>1, TotalConcat, TotalInt
<1>4. Total(<<a, 0, c, d>> \o data) = a + 0 + c + d + Total(data)
    BY Message
<1>5. Total(<<a, 0, c, d>> \o data) = Total(h \o data)
    BY <1>2, <1>3, <1>4
<1> QED
    BY <1>5 DEF calculate_checksum, h

LEMMA IcmpWords ==
    ASSUME NEW type \in Nat, NEW id \in Nat, NEW seq \in Nat, NEW data \in Body
    PROVE  /\ IcmpMessage(type, id, seq, data) \in Seq(Nat)
           /\ IcmpMessage(type, id, seq, data)[1] = type
<1>1. data \in Seq(Nat)
    BY Texts
<1> DEFINE h == <<type, id, seq>>
<1>2. h \in Seq(Nat)
    OBVIOUS
<1> HIDE DEF h
<1>3. h \o data \in Seq(Nat)
    BY <1>1, <1>2, ConcatProperties
<1>4. calculate_checksum(h \o data) \in Nat
  <2>1. calculate_checksum(h \o data) \in 0 .. WordMod - 1
      BY <1>3, Completed
  <2> QED
      BY <2>1, WordAssumption
<1> PICK c \in Nat : c = calculate_checksum(h \o data)
    BY <1>4
<1>5. IcmpMessage(type, id, seq, data) = <<type, c, id, seq>> \o data
    BY DEF IcmpMessage, h
<1> QED
    BY <1>1, <1>5, Message

\* icmp_process: the reply is the echo message with another type and a new checksum.
LEMMA Echoed ==
    ASSUME NEW data \in Body
    PROVE  EchoReply(IcmpMessage(ICMP_ECHO_REQUEST, 1, 2, data)) =
               IcmpMessage(ICMP_ECHO_REPLY, 1, 2, data)
<1>1. data \in Seq(Nat) /\ Len(data) \in Nat
    BY Texts
<1> PICK c \in Nat : c = calculate_checksum(<<ICMP_ECHO_REQUEST, 1, 2>> \o data)
  <2>1. calculate_checksum(<<ICMP_ECHO_REQUEST, 1, 2>> \o data) \in 0 .. WordMod - 1
    <3> DEFINE h == <<ICMP_ECHO_REQUEST, 1, 2>>
    <3>1. h \in Seq(Nat)
        BY DEF ICMP_ECHO_REQUEST
    <3> HIDE DEF h
    <3>2. h \o data \in Seq(Nat)
        BY <1>1, <3>1, ConcatProperties
    <3> QED
        BY <3>2, Completed DEF h
  <2> QED
      BY <2>1, WordAssumption
<1> DEFINE q == <<ICMP_ECHO_REQUEST, c, 1, 2>> \o data
           plain == <<0, 0, 1, 2>> \o data
           n == 4 + Len(data)
<1>2. IcmpMessage(ICMP_ECHO_REQUEST, 1, 2, data) = q
    BY DEF IcmpMessage
<1>3. q \in Seq(Nat) /\ Len(q) = n /\ q[3] = 1 /\ q[4] = 2
      /\ \A i \in 5 .. n : q[i] = data[i - 4]
    BY <1>1, Message DEF ICMP_ECHO_REQUEST
<1>4. plain \in Seq(Nat) /\ Len(plain) = n
      /\ plain[1] = 0 /\ plain[2] = 0 /\ plain[3] = 1 /\ plain[4] = 2
      /\ \A i \in 5 .. n : plain[i] = data[i - 4]
    BY <1>1, Message
<1> HIDE DEF q, plain
<1>5. [q EXCEPT ![1] = 0, ![2] = 0] = plain
  <2> DEFINE r == [q EXCEPT ![1] = 0]
             s == [r EXCEPT ![2] = 0]
  <2>1. [q EXCEPT ![1] = 0, ![2] = 0] = s
      OBVIOUS
  <2>2. r \in Seq(Nat) /\ Len(r) = n /\ \A i \in 1 .. n : r[i] = IF i = 1 THEN 0 ELSE q[i]
      BY <1>1, <1>3, ExceptSeq
  <2> HIDE DEF r
  <2>3. s \in Seq(Nat) /\ Len(s) = n /\ \A i \in 1 .. n : s[i] = IF i = 2 THEN 0 ELSE r[i]
      BY <1>1, <2>2, ExceptSeq
  <2> HIDE DEF s
  <2>4. \A i \in 1 .. n : s[i] = plain[i]
    <3> SUFFICES ASSUME NEW i \in 1 .. n PROVE s[i] = plain[i]
        OBVIOUS
    <3>1. i \in 1 .. 4 \/ i \in 5 .. n
        BY <1>1
    <3>2. CASE i \in 5 .. n
        BY <1>1, <1>3, <1>4, <2>2, <2>3, <3>2
    <3>3. CASE i \in 1 .. 4
      <4>1. i = 1 \/ i = 2 \/ i = 3 \/ i = 4
          BY <3>3
      <4> QED
          BY <1>3, <1>4, <2>2, <2>3, <4>1
    <3> QED
        BY <3>1, <3>2, <3>3
  <2>5. s = plain
      BY <1>4, <2>3, <2>4, SeqEqual
  <2> QED
      BY <2>1, <2>5
<1> DEFINE k == calculate_checksum(plain)
<1>6. EchoReply(q) = [plain EXCEPT ![2] = k]
    BY <1>5 DEF EchoReply, ICMP_ECHO_REPLY
<1>7. k \in Nat
  <2>1. k \in 0 .. WordMod - 1
      BY <1>4, Completed
  <2> QED
      BY <2>1, WordAssumption
<1>8. k = calculate_checksum(<<0, 1, 2>> \o data)
    BY <1>1, SameSum DEF plain
<1> HIDE DEF k
<1> DEFINE a == <<0, k, 1, 2>> \o data
           b == [plain EXCEPT ![2] = k]
<1>9. IcmpMessage(ICMP_ECHO_REPLY, 1, 2, data) = a
    BY <1>8 DEF IcmpMessage, ICMP_ECHO_REPLY
<1>10. a \in Seq(Nat) /\ Len(a) = n
       /\ a[1] = 0 /\ a[2] = k /\ a[3] = 1 /\ a[4] = 2
       /\ \A i \in 5 .. n : a[i] = data[i - 4]
    BY <1>1, <1>7, Message
<1>11. b \in Seq(Nat) /\ Len(b) = n /\ \A i \in 1 .. n : b[i] = IF i = 2 THEN k ELSE plain[i]
    BY <1>1, <1>4, <1>7, ExceptSeq
<1> HIDE DEF a, b
<1>12. \A i \in 1 .. n : a[i] = b[i]
  <2> SUFFICES ASSUME NEW i \in 1 .. n PROVE a[i] = b[i]
      OBVIOUS
  <2>1. i \in 1 .. 4 \/ i \in 5 .. n
      BY <1>1
  <2>2. CASE i \in 5 .. n
      BY <1>1, <1>4, <1>10, <1>11, <2>2
  <2>3. CASE i \in 1 .. 4
    <3>1. i = 1 \/ i = 2 \/ i = 3 \/ i = 4
        BY <2>3
    <3> QED
        BY <1>4, <1>10, <1>11, <3>1
  <2> QED
      BY <2>1, <2>2, <2>3
<1>13. a = b
    BY <1>10, <1>11, <1>12, SeqEqual
<1> QED
    BY <1>2, <1>6, <1>9, <1>13 DEF b

-------------------------------------------------------------------------------
\* The card that is opened.

Having(cards, ip) == {c \in DOMAIN cards : \E i \in DOMAIN cards[c] : cards[c][i] = ip}

LEMMA HasIs ==
    ASSUME NEW card, NEW ip
    PROVE  Has(card, ip) <=> \E i \in DOMAIN card : card[i] = ip
BY DEF Has, Addresses, ToSet

LEMMA CardNumbers ==
    ASSUME NEW cards \in Cards
    PROVE  Len(cards) \in Nat /\ DOMAIN cards = 1 .. Len(cards)
<1>1. cards \in Seq(Seq(Nat))
    BY CardAssumption
<1> QED
    BY <1>1, LenProperties

FirstOf(S) == IF S = {} THEN None ELSE CHOOSE c \in S : \A d \in S : c <= d

LEMMA FirstIs ==
    ASSUME NEW S, S \subseteq Nat, S # {}
    PROVE  FirstOf(S) \in S /\ \A d \in S : FirstOf(S) <= d
<1>1. \E c \in S : \A d \in S : c <= d
    BY Least
<1> QED
    BY <1>1 DEF FirstOf

\* The loop over the cards stops at the first that has the address.
LEMMA FirstFound ==
    ASSUME NEW cards \in Cards, NEW dest
    PROVE  LET found == FirstOf({c \in DOMAIN cards : Has(cards[c], dest)})
           IN  /\ found \in 0 .. Len(cards)
               /\ Having(cards, dest) = {} => found = None
               /\ Having(cards, dest) # {} =>
                    found # None /\ found \in Having(cards, dest)
                    /\ \A c \in Having(cards, dest) : found <= c
<1> PICK H : H = {c \in DOMAIN cards : Has(cards[c], dest)}
    OBVIOUS
<1>1. H = Having(cards, dest)
    BY HasIs DEF Having
<1>2. H \subseteq 1 .. Len(cards) /\ Len(cards) \in Nat
    BY CardNumbers
<1> SUFFICES /\ FirstOf(H) \in 0 .. Len(cards)
             /\ H = {} => FirstOf(H) = None
             /\ H # {} => /\ FirstOf(H) # None /\ FirstOf(H) \in H
                         /\ \A c \in H : FirstOf(H) <= c
    BY <1>1
<1>3. CASE H = {}
  <2>1. FirstOf(H) = 0
      BY <1>3 DEF FirstOf, None
  <2> QED
      BY <1>2, <1>3, <2>1 DEF None
<1>4. CASE H # {}
  <2>1. H \subseteq Nat
      BY <1>2
  <2>2. FirstOf(H) \in H /\ \A d \in H : FirstOf(H) <= d
      BY <1>4, <2>1, FirstIs
  <2> QED
      BY <1>2, <1>4, <2>2 DEF None
<1> QED
    BY <1>3, <1>4

LEMMA FindDevice ==
    ASSUME NEW cards \in Cards, NEW ip, NEW card \in pcap_find_device(cards, ip)
    PROVE  /\ card \in 0 .. Len(cards)
           /\ ip # NotAnAddress =>
                /\ Having(cards, ip) = {} => card = None
                /\ Having(cards, ip) # {} =>
                     card # None /\ card \in Having(cards, ip)
                     /\ \A c \in Having(cards, ip) : card <= c
<1> DEFINE least(dest) == FirstOf({c \in DOMAIN cards : Has(cards[c], dest)})
<1>1. \/ ip # NotAnAddress /\ card = least(ip)
      \/ ip = NotAnAddress /\ card = None
      \/ ip = NotAnAddress /\ \E dest : card = least(dest)
    BY DEF pcap_find_device, FirstOf
<1>2. CASE ip # NotAnAddress /\ card = least(ip)
    BY <1>2, FirstFound
<1>3. CASE ip = NotAnAddress /\ card = None
  <2>1. Len(cards) \in Nat
      BY CardNumbers
  <2> QED
      BY <1>3, <2>1 DEF None
<1>4. CASE ip = NotAnAddress /\ \E dest : card = least(dest)
  <2>1. card \in 0 .. Len(cards)
      BY <1>4, FirstFound
  <2> QED
      BY <1>4, <2>1
<1> QED
    BY <1>1, <1>2, <1>3, <1>4

LEMMA ShowList ==
    ASSUME NEW cards
    PROVE  \A c \in DOMAIN cards :
               c \in pcap_show_list(cards) <=> \E i \in DOMAIN cards[c] : cards[c][i] # OtherFamily
BY DEF pcap_show_list, Addresses, ToSet

LEMMA OpensRight ==
    ASSUME HostInv, pcap_device_open
    PROVE  machine'.opened \in 0 .. Len(machine'.cards) /\ OpensConfiguredCard'
<1>1. CASE Break
    BY <1>1 DEF Break, Forgotten, None, OpensConfiguredCard
<1>2. CASE ~Break
  <2>1. machine \in Machine /\ tiny_net' = tiny_net
      BY <1>2 DEF pcap_device_open, HostInv, StartInv
  <2> PICK loaded \in load_pcap_lib(machine.library) :
          \E card \in pcap_find_device(machine.cards, tiny_net.real_ip) :
             machine' = [machine EXCEPT
                 !.opened = IF loaded = "ok" /\ machine.refuses # "pcap_open_live" THEN card ELSE None,
                 !.shown  = IF loaded = "ok"
                               /\ (IF loaded = "ok" /\ machine.refuses # "pcap_open_live"
                                   THEN card ELSE None) = None
                            THEN pcap_show_list(machine.cards) ELSE {}]
      BY <1>2 DEF pcap_device_open
  <2> PICK card \in pcap_find_device(machine.cards, tiny_net.real_ip) :
          machine' = [machine EXCEPT
              !.opened = IF loaded = "ok" /\ machine.refuses # "pcap_open_live" THEN card ELSE None,
              !.shown  = IF loaded = "ok"
                            /\ (IF loaded = "ok" /\ machine.refuses # "pcap_open_live"
                                THEN card ELSE None) = None
                         THEN pcap_show_list(machine.cards) ELSE {}]
      OBVIOUS
  <2> PICK opened : opened = IF loaded = "ok" /\ machine.refuses # "pcap_open_live" THEN card ELSE None
      OBVIOUS
  <2> PICK shown : shown = IF loaded = "ok" /\ opened = None THEN pcap_show_list(machine.cards) ELSE {}
      OBVIOUS
  <2>2. machine' = [machine EXCEPT !.opened = opened, !.shown = shown]
      OBVIOUS
  <2>3. /\ machine'.library = machine.library /\ machine'.cards = machine.cards
        /\ machine'.refuses = machine.refuses /\ machine'.opened = opened /\ machine'.shown = shown
        /\ machine.cards \in Cards
      BY <2>1, <2>2 DEF Machine
  <2> PICK ip : ip = tiny_net.real_ip
      OBVIOUS
  <2> PICK cards \in Cards : cards = machine.cards
      BY <2>3
  <2>4. /\ card \in 0 .. Len(cards)
        /\ ip # NotAnAddress =>
             /\ Having(cards, ip) = {} => card = None
             /\ Having(cards, ip) # {} =>
                  card # None /\ card \in Having(cards, ip)
                  /\ \A c \in Having(cards, ip) : card <= c
      BY FindDevice
  <2>5. opened \in 0 .. Len(cards)
      BY <2>4 DEF None
  <2>6. ASSUME ip # NotAnAddress
        PROVE  /\ opened # None =>
                    opened \in Having(cards, ip) /\ \A c \in Having(cards, ip) : opened <= c
               /\ load_pcap_lib(machine.library) = {"ok"} /\ Having(cards, ip) # {} /\ opened = None
                    => machine.refuses = "pcap_open_live"
      BY <2>4, <2>6
  <2>7. load_pcap_lib(machine.library) = {"ok"} /\ opened = None =>
            \A c \in DOMAIN cards :
                c \in shown <=> \E i \in DOMAIN cards[c] : cards[c][i] # OtherFamily
      BY ShowList
  <2> HIDE DEF Having
  <2>8. OpensConfiguredCard'
    <3> SUFFICES ASSUME ip # NotAnAddress
                 PROVE
            LET having == {c \in DOMAIN cards : \E i \in DOMAIN cards[c] : cards[c][i] = ip}
                fit == load_pcap_lib(machine.library) = {"ok"}
            IN  /\ opened # None => opened \in having /\ \A c \in having : opened <= c
                /\ (fit /\ having # {} /\ opened = None) => machine.refuses = "pcap_open_live"
                /\ (fit /\ opened = None) =>
                     \A c \in DOMAIN cards :
                         c \in shown <=> \E i \in DOMAIN cards[c] : cards[c][i] # OtherFamily
        BY <2>1, <2>3 DEF OpensConfiguredCard
    <3> QED
        BY <2>6, <2>7 DEF Having
  <2> QED
      BY <2>3, <2>5, <2>8
<1> QED
    BY <1>1, <1>2

-------------------------------------------------------------------------------
\* Frames of the peer.

LEMMA PeerPacketIs ==
    ASSUME NEW p \in PeerPacket
    PROVE  /\ p.src = PeerIp /\ p.dst = DefaultIp
           /\ p.proto = UDP_TYPE => \E data \in Body : p \in {Telling(data), Cutting(data)}
           /\ p.proto = ICMP_TYPE => \E data \in Body : p \in {Pinging(data), Refusing(data)}
<1>1. \A proto, words : LET q == Padded(proto, words)
                        IN  q.src = PeerIp /\ q.dst = DefaultIp /\ q.proto = proto
    BY DEF Padded, Packet
<1> PICK data \in Body : p \in {Pinging(data), Refusing(data), Telling(data), Cutting(data), Asking(data)}
    BY DEF PeerPacket
<1>2. p.src = PeerIp /\ p.dst = DefaultIp
    BY <1>1 DEF Pinging, Refusing, Telling, Cutting, Asking
<1>3. p \in {Pinging(data), Refusing(data), Asking(data)} => p.proto # UDP_TYPE
    BY <1>1 DEF Pinging, Refusing, Asking, ICMP_TYPE, TCP_TYPE, UDP_TYPE
<1>4. p \in {Telling(data), Cutting(data), Asking(data)} => p.proto # ICMP_TYPE
    BY <1>1 DEF Telling, Cutting, Asking, ICMP_TYPE, TCP_TYPE, UDP_TYPE
<1> QED
    BY <1>2, <1>3, <1>4

LEMMA FromPeerIs ==
    ASSUME NEW f \in FromPeer
    PROVE  /\ f # NoQuestion /\ f.src = PeerMac /\ f.type \in {"ARP", "IP"}
           /\ f.type = "ARP" =>
                /\ f.ip = PeerIp
                /\ \/ f.op = "request" /\ f.dst = Broadcast
                   \/ f.op = "reply" /\ f.dst \in Learnt
           /\ f.type = "IP" => f.packet \in PeerPacket /\ f.dst = DefaultMac
<1>1. CASE \E ip \in Ip : f = Arp(Broadcast, PeerMac, "request", PeerIp, PeerMac, ip)
    BY <1>1 DEF Arp, NoQuestion
<1>2. CASE \E mac \in Learnt : f = Arp(mac, PeerMac, "reply", PeerIp, PeerMac, DefaultIp)
    BY <1>2 DEF Arp, NoQuestion
<1>3. CASE \E p \in PeerPacket : f = Frame(DefaultMac, PeerMac, p)
    BY <1>3 DEF Frame, NoQuestion
<1> QED
    BY <1>1, <1>2, <1>3 DEF FromPeer, PeerArp

\* The peer sends packets to the one address it can have learned.
LEMMA PeerSends ==
    ASSUME PeerInv, NEW ip \in Ip, peer.mac[ip] # NoMac, NEW data \in Body,
           NEW f \in {Echo(ip, data), Unreachable(ip, data), Datagram(ip, data),
                      Runt(ip, data), Request(ip, data)}
    PROVE  f \in FromPeer
<1>1. ip = DefaultIp /\ peer.mac[ip] = DefaultMac
    BY DEF PeerInv, Ip, Learnt
<1>2. \A proto, words : Packed(ip, proto, words) = Frame(DefaultMac, PeerMac, Padded(proto, words))
    BY <1>1 DEF Packed, Padded
<1>3. f \in {Frame(DefaultMac, PeerMac, p) :
                 p \in {Pinging(data), Refusing(data), Telling(data), Cutting(data), Asking(data)}}
    BY <1>2 DEF Echo, Unreachable, Datagram, Runt, Request, Pinging, Refusing, Telling, Cutting, Asking
<1> QED
    BY <1>3 DEF FromPeer, PeerPacket

\* With another MAC, what the capture filter lets through is for everybody.
LEMMA AdmittedPasses ==
    ASSUME TypeOK, NEW f \in FromPeer, Admitted(f)
    PROVE  Passed(f)
<1>1. tiny_net.mac \in HostMac
    BY DEF TypeOK
<1> QED
    BY <1>1, FromPeerIs, Distinct DEF Admitted, Passed, HostMac, Learnt

-------------------------------------------------------------------------------
\* What a step of the threads has to show.

LEMMA Running ==
    ASSUME HostInv, phase = "up", phase' = "up",
           machine' = machine, tiny_net' = tiny_net, running' = running, device' = device,
           resolved' \in BOOLEAN, RingInv', PeerInv', PrintedInv'
    PROVE  HostInv'
<1>1. /\ machine'.opened \in 0 .. Len(machine'.cards)
      /\ tiny_net' \in [real_ip : RealIp, mac : HostMac] /\ running' \subseteq Threads
      /\ device' \in {"NULL", "sound", "failing"}
    BY DEF HostInv, TypeOK
<1>2. \A ring \in {wire', received', toSend'} : Len(ring) <= 1
  <2>2. wire' = <<>> \/ \E m : wire' = <<m>>
      BY DEF RingInv
  <2>3. received' = <<>> \/ \E m : received' = <<m>>
      BY DEF RingInv
  <2>4. toSend' = <<>> \/ \E m : toSend' = <<m>>
      BY DEF RingInv
  <2> QED
      BY <2>2, <2>3, <2>4, AtMostOne
<1>3. peer'.mac \in [Ip -> HostMac \cup {NoMac}]
    BY DEF PeerInv, Learnt, HostMac
<1>4. TypeOK'
  <2>1. phase' \in {"config", "open", "threads", "up", "broken"}
      OBVIOUS
  <2> QED
      BY <1>1, <1>2, <1>3, <2>1, Zenon DEF TypeOK
<1>5. StartInv' /\ OpensConfiguredCard'
    BY DEF StartInv, OpensConfiguredCard
<1> QED
    BY <1>4, <1>5 DEF HostInv

LEMMA NetKept ==
    ASSUME HostInv, UNCHANGED <<tiny_net, netVars>>
    PROVE  RingInv' /\ PeerInv' /\ PrintedInv'
BY DEF HostInv, netVars, RingInv, PeerInv, PrintedInv, Passed, SentRight

LEMMA Breaks ==
    ASSUME HostInv, Break
    PROVE  HostInv'
<1>1. RingInv' /\ PeerInv' /\ PrintedInv'
    BY NetKept DEF Break
<1>2. machine'.opened = 0 /\ Len(machine'.cards) = 0
    BY DEF Break, Forgotten, None
<1>3. TypeOK'
    BY <1>2 DEF Break, netVars, HostInv, TypeOK
<1>4. StartInv' /\ OpensConfiguredCard'
    BY DEF Break, StartInv, OpensConfiguredCard
<1> QED
    BY <1>1, <1>3, <1>4 DEF HostInv

-------------------------------------------------------------------------------
\* The steps.

LEMMA HostInit ==
    Init => HostInv
<1> SUFFICES ASSUME Init PROVE HostInv
    OBVIOUS
<1>1. machine.opened = None /\ machine.cards \in Cards /\ tiny_net \in [real_ip : RealIp, mac : HostMac]
    BY DEF Init, Machine, HostMac
<1>2. Len(machine.cards) \in Nat
    BY <1>1, CardNumbers
<1>3. PeerInv
    BY DEF Init, PeerInv, Learnt, Ip
<1>4. TypeOK
  <2>1. phase \in {"config", "open", "threads", "up", "broken"} /\ running \subseteq Threads
        /\ resolved \in BOOLEAN /\ device \in {"NULL", "sound", "failing"}
      BY DEF Init
  <2>2. machine.opened \in 0 .. Len(machine.cards)
      BY <1>1, <1>2 DEF None
  <2>3. \A ring \in {wire, received, toSend} : Len(ring) <= 1
      BY AtMostOne DEF Init
  <2>4. peer.mac \in [Ip -> HostMac \cup {NoMac}]
      BY <1>3 DEF PeerInv, Learnt, HostMac
  <2> QED
      BY <1>1, <2>1, <2>2, <2>3, <2>4, Zenon DEF TypeOK
<1>5. StartInv /\ RingInv /\ PrintedInv /\ OpensConfiguredCard
    BY DEF Init, StartInv, RingInv, PrintedInv, OpensConfiguredCard
<1> QED
    BY <1>3, <1>4, <1>5 DEF HostInv

LEMMA StartKept ==
    ASSUME HostInv, Start
    PROVE  HostInv'
<1>1. CASE load_config
  <2>1. PeerInv' /\ PrintedInv'
      BY <1>1 DEF load_config, netVars, HostInv, PeerInv, PrintedInv
  <2>2. StartInv' /\ OpensConfiguredCard'
      BY <1>1 DEF load_config, netVars, HostInv, StartInv, OpensConfiguredCard
  <2>3. RingInv'
      BY <1>1 DEF load_config, netVars, HostInv, StartInv, RingInv, SentRight
  <2>4. TypeOK'
      BY <1>1 DEF load_config, netVars, HostInv, TypeOK
  <2> QED
      BY <2>1, <2>2, <2>3, <2>4 DEF HostInv
<1>2. CASE pcap_device_open
  <2>1. CASE Break
      BY <2>1, Breaks
  <2>2. CASE ~Break
    <3>1. phase' = "threads" /\ phase = "open" /\ UNCHANGED <<tiny_net, running, netVars>>
        BY <1>2, <2>2 DEF pcap_device_open
    <3>2. RingInv' /\ PeerInv' /\ PrintedInv'
        BY <3>1, NetKept
    <3>3. machine'.opened \in 0 .. Len(machine'.cards) /\ OpensConfiguredCard'
        BY <1>2, OpensRight
    <3>4. TypeOK'
      <4>1. device' \in {"NULL", "sound", "failing"}
          BY <1>2, <2>2 DEF pcap_device_open
      <4> QED
          BY <3>1, <3>3, <4>1 DEF netVars, HostInv, TypeOK
    <3>5. StartInv'
        BY <3>1 DEF netVars, HostInv, StartInv
    <3> QED
        BY <3>2, <3>3, <3>4, <3>5 DEF HostInv
  <2> QED
      BY <2>1, <2>2
<1>3. CASE thread_create
  <2>1. phase' = "up" /\ machine' = Forgotten /\ UNCHANGED <<tiny_net, device, netVars>> /\ running' \subseteq Threads
      BY <1>3 DEF thread_create
  <2>2. RingInv' /\ PeerInv' /\ PrintedInv'
      BY <2>1, NetKept
  <2>3. machine'.opened = 0 /\ Len(machine'.cards) = 0
      BY <2>1 DEF Forgotten, None
  <2>4. TypeOK'
      BY <2>1, <2>3 DEF netVars, HostInv, TypeOK
  <2>5. StartInv' /\ OpensConfiguredCard'
      BY <2>1 DEF StartInv, OpensConfiguredCard
  <2> QED
      BY <2>2, <2>4, <2>5 DEF HostInv
<1> QED
    BY <1>1, <1>2, <1>3 DEF Start

LEMMA ReceiveKept ==
    ASSUME HostInv, net_recv
    PROVE  HostInv'
<1>1. CASE Break
    BY <1>1, Breaks
<1>2. CASE ~Break
  <2>1. /\ phase = "up" /\ wire # <<>> /\ wire' = <<>>
        /\ received' = IF Admitted(wire[1]) THEN wire ELSE <<>>
        /\ UNCHANGED <<phase, machine, tiny_net, device, running, toSend, resolved, peer, printed>>
      BY <1>2 DEF net_recv, Up
  <2> PICK f \in FromPeer : wire = <<f>>
      BY <2>1 DEF HostInv, RingInv
  <2>2. received' # <<>> => received' = <<f>> /\ Passed(f)
      BY <2>1, AdmittedPasses, InSlot DEF HostInv
  <2>3. RingInv'
      BY <2>1, <2>2 DEF HostInv, RingInv, Passed, SentRight
  <2>4. PeerInv' /\ PrintedInv' /\ resolved' \in BOOLEAN
      BY <2>1 DEF HostInv, TypeOK, PeerInv, PrintedInv
  <2> QED
      BY <2>1, <2>3, <2>4, Running
<1> QED
    BY <1>1, <1>2

\* What the peer learns is what the host says in every ARP message.
LEMMA SendKept ==
    ASSUME HostInv, send_packet
    PROVE  HostInv'
<1>1. CASE Break
    BY <1>1, Breaks
<1>2. CASE ~Break
  <2>1. /\ phase = "up" /\ toSend # <<>> /\ toSend' = <<>>
        /\ peer' = Taken(toSend[1]) \/ peer' = peer
        /\ UNCHANGED <<phase, machine, tiny_net, device, running, wire, received, resolved, printed>>
      BY <1>2 DEF send_packet, Up
  <2> PICK m : toSend = <<m>> /\ SentRight(m)
      BY <2>1 DEF HostInv, RingInv
  <2>2. PeerInv'
    <3>1. CASE peer' = peer
        BY <3>1 DEF HostInv, PeerInv
    <3>2. CASE peer' = Taken(m)
      <4>1. PeerInv
          BY DEF HostInv
      <4>2. DOMAIN peer' = {"mac", "asked", "owes"}
          BY <3>2, <4>1 DEF Taken, PeerInv
      <4>3. \/ peer'.mac = peer.mac
            \/ peer'.mac = [peer.mac EXCEPT ![DefaultIp] = DefaultMac]
          BY <3>2 DEF Taken, SentRight
      <4>4. DefaultIp \in Ip /\ DefaultMac \in Learnt
          BY DEF Ip, Learnt
      <4>5. peer'.mac \in [Ip -> Learnt] /\ peer'.mac[OtherIp] = NoMac
        <5> PICK mac \in [Ip -> Learnt] : mac = peer.mac /\ mac[OtherIp] = NoMac
            BY <4>1 DEF PeerInv
        <5>1. /\ [mac EXCEPT ![DefaultIp] = DefaultMac] \in [Ip -> Learnt]
              /\ [mac EXCEPT ![DefaultIp] = DefaultMac][OtherIp] = NoMac
          <6>1. OtherIp \in Ip
              BY DEF Ip
          <6> QED
              BY <4>4, <6>1, Distinct
        <5> QED
            BY <4>3, <5>1
      <4> QED
          BY <4>2, <4>5 DEF PeerInv
    <3> QED
        BY <2>1, <3>1, <3>2, InSlot
  <2>3. RingInv'
      BY <2>1 DEF HostInv, RingInv, Passed
  <2>4. PrintedInv' /\ resolved' \in BOOLEAN
      BY <2>1 DEF HostInv, TypeOK, PrintedInv
  <2> QED
      BY <2>1, <2>2, <2>3, <2>4, Running
<1> QED
    BY <1>1, <1>2

\* icmp_process answers an echo request only, and with the echo of its data.
LEMMA Replies ==
    ASSUME NEW data \in Body, NEW p \in {Pinging(data), Refusing(data)},
           Payload(p)[1] = ICMP_ECHO_REQUEST
    PROVE  /\ p = Pinging(data)
           /\ EchoReply(Payload(p)) = IcmpMessage(ICMP_ECHO_REPLY, 1, 2, data)
<1>1. Payload(Refusing(data))[1] = 3
  <2>1. IcmpMessage(3, 0, 0, data) \in Seq(Nat) /\ IcmpMessage(3, 0, 0, data)[1] = 3
      BY IcmpWords
  <2> QED
      BY <2>1, PayloadIs DEF Refusing
<1>2. p = Pinging(data)
    BY <1>1 DEF ICMP_ECHO_REQUEST
<1>3. IcmpMessage(ICMP_ECHO_REQUEST, 1, 2, data) \in Seq(Nat)
    BY IcmpWords DEF ICMP_ECHO_REQUEST
<1>4. Payload(p) = IcmpMessage(ICMP_ECHO_REQUEST, 1, 2, data)
    BY <1>2, <1>3, PayloadIs DEF Pinging
<1> QED
    BY <1>2, <1>4, Echoed

\* The segments tcp_process may answer with have a place for the checksum.
LEMMA Segments ==
    ASSUME NEW w \in 0 .. 1
    PROVE  Segment(w) \in Seq(Nat) /\ HasChecksumWord(Segment(w))
<1>1. \A i \in 1 .. 10 : Word(w * i) \in Nat
  <2> SUFFICES ASSUME NEW i \in 1 .. 10 PROVE Word(w * i) \in Nat
      OBVIOUS
  <2>1. w * i \in Nat
    <3>1. w = 0 \/ w = 1
        OBVIOUS
    <3> QED
        BY <3>1
  <2> QED
      BY <2>1, WordIs
<1>2. Segment(w) \in Seq(Nat)
    BY <1>1, IsASeq DEF Segment
<1>3. Len(Segment(w)) = 10
    BY <1>2, LenProperties DEF Segment
<1> QED
    BY <1>2, <1>3 DEF HasChecksumWord, TcpChecksum

\* A frame was received and is handled, with an answer or without.
LEMMA Handles ==
    ASSUME HostInv, Processing, Handled, resolved' \in BOOLEAN, PrintedInv',
           toSend' = toSend \/ \E m : toSend' = <<m>> /\ SentRight(m)
    PROVE  HostInv'
<1>1. phase = "up" /\ received' = <<>> /\ toSend = <<>>
      /\ UNCHANGED <<phase, machine, tiny_net, device, running, wire, peer>>
    BY DEF Processing, Up, Handled
<1>2. RingInv'
  <2>1. toSend' # <<>> => \E m : toSend' = <<m>> /\ SentRight(m)
      BY <1>1
  <2> QED
      BY <1>1, <2>1 DEF HostInv, RingInv, SentRight
<1>3. PeerInv'
    BY <1>1 DEF HostInv, PeerInv
<1> QED
    BY <1>1, <1>2, <1>3, Running

LEMMA QuestionIs ==
    ASSUME HostInv, Processing
    PROVE  Question \in FromPeer
<1> PICK f \in FromPeer : received = <<f>>
    BY DEF Processing, HostInv, RingInv
<1> QED
    BY InSlot DEF Question

\* An answer to a packet goes back where it came from.
LEMMA Answers ==
    ASSUME HostInv, Processing, Question.type = "IP", NEW words, Len(words) \in Nat,
           NEW proto \in Nat, proto # UDP_TYPE, Answer(words, proto),
           proto = ICMP_TYPE =>
               \E data \in Body : /\ Question.packet = Pinging(data)
                                 /\ words = IcmpMessage(ICMP_ECHO_REPLY, 1, 2, data),
           proto = TCP_TYPE =>
               Verifies(Pseudo(DefaultIp, PeerIp, TCP_TYPE, Len(words)) \o words)
    PROVE  \E m : toSend' = <<m>> /\ SentRight(m)
<1> PICK q \in FromPeer : q = Question
    BY QuestionIs
<1>1. q.type = "IP" /\ q.src = PeerMac /\ q.packet.src = PeerIp /\ q.packet.dst = DefaultIp
    BY FromPeerIs, PeerPacketIs
<1> DEFINE p == add_ip_header(DefaultIp, words, proto, q.packet.src)
           f == Frame(q.src, tiny_net.mac, p)
           m == [frame |-> f, answers |-> q]
<1>2. p.proto = proto /\ p.src = DefaultIp /\ p.dst = q.packet.src /\ p.data = words
    BY DEF add_ip_header, Packet
<1>7. Verifies(HeaderWords(p))
    BY <1>1, HostAddresses, HeaderVerifies
<1> HIDE DEF p
<1>3. f.dst = q.src /\ f.type = "IP" /\ f.packet = p
    BY DEF Frame
<1> HIDE DEF f
<1>4. m.frame = f /\ m.answers = q
    OBVIOUS
<1>5. toSend' = <<m>>
    BY DEF Answer, net_data_send, f, p
<1> HIDE DEF m
<1>8. Sums(p, q.packet)
    BY <1>2, <1>7 DEF Sums, Echoes
<1>6. SentRight(m)
    BY <1>1, <1>2, <1>3, <1>4, <1>8 DEF SentRight, AddressedRight
<1> QED
    BY <1>5, <1>6

LEMMA ProcessKept ==
    ASSUME HostInv, Process
    PROVE  HostInv'
<1>0. PrintedInv /\ resolved \in BOOLEAN
    BY DEF HostInv, TypeOK
<1>1. CASE arp_process
  <2>1. /\ Processing /\ Handled /\ printed' = printed /\ Question.type = "ARP"
        /\ resolved' = (resolved \/ Question.target = DefaultIp)
      BY <1>1 DEF arp_process
  <2>2. resolved' \in BOOLEAN /\ PrintedInv'
      BY <1>0, <2>1 DEF PrintedInv
  <2> PICK q \in FromPeer : q = Question
      BY <2>1, QuestionIs
  <2>3. q.type = "ARP" /\ q.src = PeerMac /\ q.ip = PeerIp
      BY <2>1, FromPeerIs
  <2>4. toSend' = toSend \/ \E m : toSend' = <<m>> /\ SentRight(m)
    <3>1. CASE UNCHANGED toSend
        BY <3>1
    <3>2. CASE q.target = DefaultIp
               /\ net_data_send(Arp(q.src, tiny_net.mac, "reply", DefaultIp, DefaultMac, q.ip), q)
      <4> DEFINE f == Arp(q.src, tiny_net.mac, "reply", DefaultIp, DefaultMac, q.ip)
                 m == [frame |-> f, answers |-> q]
      <4>1. /\ f.type = "ARP" /\ f.dst = q.src /\ f.op = "reply"
            /\ f.ip = DefaultIp /\ f.mac = DefaultMac /\ f.target = q.ip
          BY DEF Arp
      <4>2. toSend' = <<m>>
          BY <3>2 DEF net_data_send
      <4> HIDE DEF f
      <4>3. m.frame = f /\ m.answers = q
          OBVIOUS
      <4> HIDE DEF m
      <4>4. SentRight(m)
          BY <2>3, <3>2, <4>1, <4>3 DEF SentRight, AddressedRight
      <4> QED
          BY <4>2, <4>4
    <3> QED
        BY <1>1, <3>1, <3>2 DEF arp_process
  <2> QED
      BY <2>1, <2>2, <2>4, Handles
<1>2. CASE icmp_process
  <2>1. CASE Break
      BY <2>1, Breaks
  <2>2. CASE ~Break
    <3>1. /\ Processing /\ Handled /\ UNCHANGED <<resolved, printed>>
          /\ Question.type = "IP" /\ Question.packet.proto = ICMP_TYPE
          /\ \/ /\ Payload(Question.packet)[1] = ICMP_ECHO_REQUEST
                /\ Answer(EchoReply(Payload(Question.packet)), ICMP_TYPE)
             \/ toSend' = toSend
        BY <1>2, <2>2 DEF icmp_process, Carries
    <3>2. toSend' = toSend \/ \E m : toSend' = <<m>> /\ SentRight(m)
      <4>1. ICMP_TYPE # UDP_TYPE /\ ICMP_TYPE # TCP_TYPE /\ ICMP_TYPE \in Nat
          BY DEF ICMP_TYPE, TCP_TYPE, UDP_TYPE
      <4>2. CASE /\ Payload(Question.packet)[1] = ICMP_ECHO_REQUEST
                 /\ Answer(EchoReply(Payload(Question.packet)), ICMP_TYPE)
        <5>1. Question.packet \in PeerPacket
            BY <3>1, QuestionIs, FromPeerIs
        <5> PICK data \in Body : Question.packet \in {Pinging(data), Refusing(data)}
            BY <3>1, <5>1, PeerPacketIs
        <5> DEFINE words == IcmpMessage(ICMP_ECHO_REPLY, 1, 2, data)
        <5>2. Question.packet = Pinging(data) /\ EchoReply(Payload(Question.packet)) = words
            BY <4>2, Replies
        <5>3. words \in Seq(Nat)
            BY IcmpWords DEF ICMP_ECHO_REPLY
        <5> HIDE DEF words
        <5>4. Len(words) \in Nat
            BY <5>3, LenProperties
        <5>5. Answer(words, ICMP_TYPE)
            BY <4>2, <5>2
        <5> QED
            BY <3>1, <4>1, <5>2, <5>4, <5>5, Answers DEF words
      <4> QED
          BY <3>1, <4>2
    <3>3. PrintedInv' /\ resolved' \in BOOLEAN
        BY <1>0, <3>1 DEF PrintedInv
    <3> QED
        BY <3>1, <3>2, <3>3, Handles
  <2> QED
      BY <2>1, <2>2
<1>3. CASE tcp_process
  <2>1. /\ Processing /\ Handled /\ UNCHANGED <<resolved, printed>> /\ Question.type = "IP"
        /\ \/ \E w \in 0 .. 1 :
                 Answer(pseudo_header_checksum(Segment(w), Question.packet.src,
                                               Question.packet.dst), TCP_TYPE)
           \/ toSend' = toSend
      BY <1>3 DEF tcp_process, Carries
  <2>2. toSend' = toSend \/ \E m : toSend' = <<m>> /\ SentRight(m)
    <3>1. TCP_TYPE # UDP_TYPE /\ TCP_TYPE # ICMP_TYPE /\ TCP_TYPE \in Nat
        BY DEF TCP_TYPE, UDP_TYPE, ICMP_TYPE
    <3>2. Question.packet.src = PeerIp /\ Question.packet.dst = DefaultIp
        BY <2>1, QuestionIs, FromPeerIs, PeerPacketIs
    <3>3. ASSUME NEW w \in 0 .. 1,
                 Answer(pseudo_header_checksum(Segment(w), PeerIp, DefaultIp), TCP_TYPE)
          PROVE  \E m : toSend' = <<m>> /\ SentRight(m)
      <4> DEFINE words == pseudo_header_checksum(Segment(w), PeerIp, DefaultIp)
      <4>1. /\ words \in Seq(Nat)
            /\ Verifies(Pseudo(DefaultIp, PeerIp, TCP_TYPE, Len(words)) \o words)
          BY Segments, HostAddresses, SegmentVerifies
      <4> HIDE DEF words
      <4>2. Len(words) \in Nat
          BY <4>1, LenProperties
      <4>3. Answer(words, TCP_TYPE)
          BY <3>3 DEF words
      <4> QED
          BY <2>1, <3>1, <4>1, <4>2, <4>3, Answers
    <3> QED
        BY <2>1, <3>2, <3>3
  <2>3. PrintedInv' /\ resolved' \in BOOLEAN
      BY <1>0, <2>1 DEF PrintedInv
  <2> QED
      BY <2>1, <2>2, <2>3, Handles
<1>4. CASE udp_process
  <2>1. /\ Processing /\ Handled /\ UNCHANGED <<toSend, resolved>>
        /\ Question.type = "IP" /\ Question.packet.proto = UDP_TYPE
      BY <1>4 DEF udp_process, Carries
  <2> PICK q \in FromPeer : q = Question
      BY <2>1, QuestionIs
  <2> PICK data \in Body : q.packet \in {Telling(data), Cutting(data)}
      BY <2>1, FromPeerIs, PeerPacketIs
  <2>2. printed' = IF q.packet.data[3] < 2 * UdpHeaderLen THEN printed
                   ELSE [body |-> UdpBody(q.packet.data), of |-> q]
      BY <1>4 DEF udp_process
  <2>3. PrintedInv'
    <3>1. CASE q.packet = Telling(data)
      <4>1. UdpBody(q.packet.data) = data /\ ~(q.packet.data[3] < 2 * UdpHeaderLen)
        <5>1. q.packet.data[3] = 2 * (UdpHeaderLen + Len(data))
            BY <3>1, Printed
        <5>2. Len(data) \in Nat
            BY Texts
        <5> QED
            BY <3>1, <5>1, <5>2, Printed DEF UdpHeaderLen
      <4>2. printed'.of = q /\ printed'.body = data
          BY <2>2, <4>1
      <4> QED
          BY <3>1, <4>2 DEF PrintedInv
    <3>2. CASE q.packet = Cutting(data)
      <4>1. printed' = printed
          BY <2>2, <3>2, NotPrinted
      <4> QED
          BY <1>0, <4>1 DEF PrintedInv
    <3> QED
        BY <3>1, <3>2
  <2> QED
      BY <1>0, <2>1, <2>3, Handles
<1> QED
    BY <1>1, <1>2, <1>3, <1>4 DEF Process

\* A line typed becomes a datagram, or an ARP request and is gone.
LEMMA TypeKept ==
    ASSUME HostInv, udp_send_data
    PROVE  HostInv'
<1>1. CASE Break
    BY <1>1, Breaks
<1>2. CASE ~Break
  <2> PICK line \in Line :
          /\ HasChecksumWord(add_udp_header(line, 1, 2))
          /\ net_data_send(
                 IF ~resolved
                 THEN Arp(Broadcast, DefaultMac, "request", DefaultIp, DefaultMac, PeerIp)
                 ELSE Frame(PeerMac, DefaultMac,
                            add_ip_header(DefaultIp,
                                pseudo_header_checksum(add_udp_header(line, 1, 2), DefaultIp, PeerIp),
                                UDP_TYPE, PeerIp)),
                 NoQuestion)
          /\ UNCHANGED <<phase, machine, tiny_net, device, running, wire, received, resolved,
                         peer, printed>>
      BY <1>2 DEF udp_send_data
  <2> DEFINE words == pseudo_header_checksum(add_udp_header(line, 1, 2), DefaultIp, PeerIp)
             p == add_ip_header(DefaultIp, words, UDP_TYPE, PeerIp)
             a == Arp(Broadcast, DefaultMac, "request", DefaultIp, DefaultMac, PeerIp)
             i == Frame(PeerMac, DefaultMac, p)
  <2>1. Typed(words, line)
      BY Summed
  <2> HIDE DEF words
  <2>2. p.data = words /\ p.src = DefaultIp /\ p.proto = UDP_TYPE
      BY DEF add_ip_header, Packet
  <2>9. Verifies(HeaderWords(p))
    <3>1. Len(words) \in Nat
        BY <2>1, Texts DEF Typed, UdpHeaderLen
    <3>2. UDP_TYPE \in Nat
        BY DEF UDP_TYPE
    <3> QED
        BY <3>1, <3>2, HostAddresses, HeaderVerifies
  <2> HIDE DEF p
  <2>10. \A asked : Sums(p, asked)
    <3>1. UDP_TYPE # ICMP_TYPE /\ UDP_TYPE # TCP_TYPE
        BY DEF ICMP_TYPE, UDP_TYPE, TCP_TYPE
    <3> QED
        BY <2>2, <2>9, <3>1 DEF Sums
  <2>3. a.type = "ARP" /\ a.ip = DefaultIp /\ a.mac = DefaultMac /\ i.type = "IP" /\ i.packet = p
      BY DEF Arp, Frame
  <2>4. \E f \in {a, i} : toSend' = <<[frame |-> f, answers |-> NoQuestion]>>
      BY DEF net_data_send, p, words
  <2> HIDE DEF a, i
  <2> PICK f \in {a, i} : toSend' = <<[frame |-> f, answers |-> NoQuestion]>>
      BY <2>4
  <2> PICK m : m = [frame |-> f, answers |-> NoQuestion]
      OBVIOUS
  <2>5. m.frame = f /\ m.answers = NoQuestion /\ toSend' = <<m>>
      OBVIOUS
  <2>6. SentRight(m)
      BY <2>1, <2>2, <2>3, <2>5, <2>10 DEF SentRight
  <2>7. RingInv'
    <3>1. toSend' # <<>> => \E n : toSend' = <<n>> /\ SentRight(n)
        BY <2>5, <2>6
    <3> QED
        BY <3>1 DEF HostInv, RingInv, Passed, SentRight
  <2>8. PeerInv' /\ PrintedInv' /\ resolved' \in BOOLEAN /\ phase = "up"
      BY DEF HostInv, TypeOK, PeerInv, PrintedInv, udp_send_data, Up
  <2> QED
      BY <2>7, <2>8, Running
<1> QED
    BY <1>1, <1>2

LEMMA PeerKept ==
    ASSUME HostInv, PeerStep
    PROVE  HostInv'
<1>0. PeerInv /\ phase = "up" /\ PrintedInv /\ resolved \in BOOLEAN
    BY DEF HostInv, TypeOK, PeerStep
<1>1. \E f \in FromPeer :
          /\ Deliver(f)
          /\ peer' = [peer EXCEPT !.asked = f] \/ peer' = [peer EXCEPT !.owes = FALSE]
  <2>1. CASE peer_replies
    <3>1. peer.mac[DefaultIp] \in Learnt
        BY <1>0 DEF PeerInv, Ip
    <3>2. Arp(peer.mac[DefaultIp], PeerMac, "reply", PeerIp, PeerMac, DefaultIp) \in FromPeer
        BY <3>1 DEF FromPeer, PeerArp
    <3> QED
        BY <2>1, <3>2 DEF peer_replies
  <2>2. ASSUME NEW ip \in Ip, peer_asks_for(ip)
        PROVE  \E f \in FromPeer : Deliver(f) /\ peer' = [peer EXCEPT !.asked = f]
    <3>1. Arp(Broadcast, PeerMac, "request", PeerIp, PeerMac, ip) \in FromPeer
        BY DEF FromPeer, PeerArp
    <3> QED
        BY <2>2, <3>1 DEF peer_asks_for, Ask
  <2>3. ASSUME NEW ip \in Ip, peer.mac[ip] # NoMac, NEW data \in Body,
               NEW f \in {Echo(ip, data), Unreachable(ip, data), Datagram(ip, data),
                          Runt(ip, data), Request(ip, data)}, Ask(f)
        PROVE  f \in FromPeer /\ Deliver(f) /\ peer' = [peer EXCEPT !.asked = f]
    <3>1. f \in FromPeer
        BY <1>0, <2>3, PeerSends
    <3> QED
        BY <2>3, <3>1 DEF Ask
  <2> QED
      BY <2>1, <2>2, <2>3 DEF PeerStep
<1> PICK f \in FromPeer :
        /\ Deliver(f)
        /\ peer' = [peer EXCEPT !.asked = f] \/ peer' = [peer EXCEPT !.owes = FALSE]
    BY <1>1
<1>2. /\ wire' = <<f>>
      /\ UNCHANGED <<phase, machine, tiny_net, device, running, received, toSend, resolved, printed>>
    BY DEF Deliver
<1>3. RingInv'
    BY <1>2 DEF HostInv, RingInv, Passed, SentRight
<1>4. PeerInv'
    BY <1>0 DEF PeerInv
<1>5. PrintedInv' /\ resolved' \in BOOLEAN
    BY <1>0, <1>2 DEF PrintedInv
<1> QED
    BY <1>0, <1>2, <1>3, <1>4, <1>5, Running

LEMMA HostKept ==
    HostInv /\ [Next]_vars => HostInv'
<1> SUFFICES ASSUME HostInv, [Next]_vars PROVE HostInv'
    OBVIOUS
<1>1. CASE Next
    BY <1>1, StartKept, ReceiveKept, ProcessKept, SendKept, TypeKept, PeerKept DEF Next
<1>2. CASE UNCHANGED vars
  <2>1. RingInv' /\ PeerInv' /\ PrintedInv'
      BY <1>2, NetKept DEF vars
  <2>2. TypeOK' /\ StartInv' /\ OpensConfiguredCard'
      BY <1>2 DEF vars, netVars, HostInv, TypeOK, StartInv, OpensConfiguredCard
  <2> QED
      BY <2>1, <2>2 DEF HostInv
<1> QED
    BY <1>1, <1>2

LEMMA HostAlways ==
    Spec => []HostInv
BY HostInit, HostKept, PTL DEF Spec

-------------------------------------------------------------------------------
\* The rings hold at most a frame each and the host is in a phase it has.
THEOREM TypeCorrect ==
    Spec => []TypeOK
<1>1. HostInv => TypeOK
    BY DEF HostInv
<1> QED
    BY <1>1, HostAlways, PTL

\* The card that pcap_device_open opens is the first with the configured address.
THEOREM OpensTheConfigured ==
    Spec => []OpensConfiguredCard
<1>1. HostInv => OpensConfiguredCard
    BY DEF HostInv
<1> QED
    BY <1>1, HostAlways, PTL

\* A host whose MAC in config.json is another than in config.h, which is the one that
\* ARP announces, receives ARP requests and nothing else.
THEOREM OnlyTheDefaultHears ==
    Spec => []DeafUnlessDefault
<1>1. HostInv => DeafUnlessDefault
  <2> SUFFICES ASSUME HostInv, tiny_net.mac # DefaultMac, received # <<>>
               PROVE  received[1].type = "ARP" /\ received[1].op = "request"
      BY DEF DeafUnlessDefault
  <2> PICK f : received = <<f>> /\ Passed(f)
      BY DEF HostInv, RingInv
  <2> QED
      BY InSlot DEF Passed
<1> QED
    BY <1>1, HostAlways, PTL

\* The length and the words of a datagram that leaves are those of the line, but for
\* the one word that pseudo_header_checksum overwrites; one that comes is printed whole.
THEOREM DatagramsAreKept ==
    Spec => []DatagramKept
<1>1. HostInv => DatagramKept
  <2> SUFFICES ASSUME HostInv PROVE DatagramKept
      OBVIOUS
  <2>1. ASSUME NEW m \in ToSet(toSend), m.frame.type = "IP", m.frame.packet.proto = UDP_TYPE
        PROVE  \E line \in Line : Typed(m.frame.packet.data, line)
    <3>1. toSend # <<>>
        BY InSlot
    <3> PICK n : toSend = <<n>> /\ SentRight(n)
        BY <3>1 DEF HostInv, RingInv
    <3>2. m = n
        BY InSlot
    <3> QED
        BY <2>1, <3>2 DEF SentRight
  <2>2. ASSUME printed.of # NoQuestion
        PROVE  \E ip \in Ip, data \in Body :
                   printed.of.packet = Datagram(ip, data).packet /\ printed.body = data
    <3> PICK data \in Body : printed.of.packet = Telling(data) /\ printed.body = data
        BY <2>2 DEF HostInv, PrintedInv
    <3>1. Datagram(DefaultIp, data).packet = Telling(data) /\ DefaultIp \in Ip
        BY DEF Datagram, Packed, Frame, Telling, Padded, Ip
    <3> QED
        BY <3>1
  <2> QED
      BY <2>1, <2>2 DEF DatagramKept, Typed
<1> QED
    BY <1>1, HostAlways, PTL

\* Whatever the host answers (arp_process, icmp_process, tcp_process) goes to the host
\* that asked, from the address it asked for; its IP header verifies; an echo reply is
\* the echo of the data that came, without the padding and with its own checksum; and
\* a segment verifies with the pseudo header of the packet it leaves in.
THEOREM AnswersAreRight ==
    Spec => []AnswerRight
<1>1. HostInv => AnswerRight
  <2> SUFFICES ASSUME HostInv, NEW m \in ToSet(toSend), m.answers # NoQuestion
               PROVE  /\ AddressedRight(m.frame, m.answers)
                      /\ SummedRight(m.frame, m.answers)
      BY DEF AnswerRight
  <2>1. toSend # <<>>
      BY InSlot
  <2> PICK n : toSend = <<n>> /\ SentRight(n)
      BY <2>1 DEF HostInv, RingInv
  <2>2. m = n
      BY InSlot
  <2>3. AddressedRight(m.frame, m.answers)
      BY <2>2 DEF SentRight
  <2>4. SummedRight(m.frame, m.answers)
    <3> SUFFICES ASSUME m.frame.type = "IP" PROVE SummedRight(m.frame, m.answers)
        BY DEF SummedRight
    <3>1. Sums(m.frame.packet, m.answers.packet)
        BY <2>2 DEF SentRight
    <3>2. m.frame.packet.src = DefaultIp
        BY <3>1 DEF Sums
    <3>3. \A data : Echo(DefaultIp, data).packet = Pinging(data)
        BY DEF Echo, Packed, Frame, Pinging, Padded
    <3> QED
        BY <3>1, <3>2, <3>3 DEF Sums, Echoes, SummedRight
  <2> QED
      BY <2>3, <2>4
<1> QED
    BY <1>1, HostAlways, PTL

-------------------------------------------------------------------------------
\* The strings of config.json, in any text: what parse_string of net_app/cJSON.c reads
\* and print_string_ptr writes.  The recursions of JsonText are functions: that there
\* is a function with such an equation is Backwards and Forwards, that it is the only
\* one that matters is Descent.

\* A function whose value at j is given by its value at a later place, or by none.
Follows(n, stop, base, next, step, f) ==
    \A j \in 1 .. n : f[j] = IF j \in stop THEN base[j] ELSE step[<<j, f[next[j]]>>]

\* There is such a function, if every step leads further and no value leaves V.
LEMMA Backwards ==
    ASSUME NEW n \in Nat, NEW V, NEW stop,
           NEW base, \A j \in 1 .. n : j \in stop => base[j] \in V,
           NEW next, \A j \in 1 .. n : j \notin stop => next[j] \in j + 1 .. n,
           NEW step, \A j \in 1 .. n : j \notin stop => \A v \in V : step[<<j, v>>] \in V
    PROVE  \E f \in [1 .. n -> V] : Follows(n, stop, base, next, step, f)
<1> DEFINE Good(k, f) ==
               \A j \in n - k + 1 .. n :
                   f[j] = IF j \in stop THEN base[j] ELSE step[<<j, f[next[j]]>>]
           S == {k \in Nat : k <= n => \E f \in [n - k + 1 .. n -> V] : Good(k, f)}
<1>1. 0 \in S
  <2> DEFINE f == [j \in n + 1 .. n |-> 0]
  <2>1. n + 1 .. n = {}
      OBVIOUS
  <2>2. f \in [n - 0 + 1 .. n -> V] /\ Good(0, f)
      BY <2>1
  <2> QED
      BY <2>2
<1>2. ASSUME NEW k \in Nat, k \in S PROVE k + 1 \in S
  <2> SUFFICES ASSUME k + 1 <= n PROVE \E f \in [n - (k + 1) + 1 .. n -> V] : Good(k + 1, f)
      OBVIOUS
  <2>0. k <= n
      OBVIOUS
  <2> PICK f \in [n - k + 1 .. n -> V] : Good(k, f)
      BY <1>2, <2>0
  <2> DEFINE m == n - k
             v == IF m \in stop THEN base[m] ELSE step[<<m, f[next[m]]>>]
             g == [j \in m .. n |-> IF j = m THEN v ELSE f[j]]
  <2>1. m \in 1 .. n /\ n - (k + 1) + 1 = m /\ n - k + 1 = m + 1
      OBVIOUS
  <2>2. v \in V
    <3>1. CASE m \in stop
        BY <2>1, <3>1
    <3>2. CASE m \notin stop
      <4>1. next[m] \in m + 1 .. n
          BY <2>1, <3>2
      <4>2. f[next[m]] \in V
          BY <2>1, <4>1
      <4> QED
          BY <2>1, <3>2, <4>2
    <3> QED
        BY <3>1, <3>2
  <2>3. \A j \in m + 1 .. n : f[j] = IF j \in stop THEN base[j] ELSE step[<<j, f[next[j]]>>]
      BY <2>1
  <2>4. f \in [m + 1 .. n -> V]
      BY <2>1
  <2> HIDE DEF Good
  <2>5. g \in [m .. n -> V]
    <3> HIDE DEF v
    <3> QED
        BY <2>1, <2>2, <2>4
  <2>6. g[m] = v /\ \A j \in m + 1 .. n : g[j] = f[j]
      BY <2>1
  <2> HIDE DEF g
  <2>7. ASSUME NEW j \in m .. n
        PROVE  g[j] = IF j \in stop THEN base[j] ELSE step[<<j, g[next[j]]>>]
    <3>1. j \in 1 .. n
        BY <2>1
    <3>2. j \notin stop => next[j] \in j + 1 .. n /\ next[j] \in m + 1 .. n
        BY <2>1, <3>1
    <3>3. j \notin stop => g[next[j]] = f[next[j]]
        BY <2>6, <3>2
    <3>4. CASE j = m
        BY <2>6, <3>3, <3>4
    <3>5. CASE j \in m + 1 .. n
        BY <2>3, <2>6, <3>3, <3>5
    <3> QED
        BY <2>1, <3>4, <3>5
  <2>8. Good(k + 1, g)
      BY <2>1, <2>7 DEF Good
  <2> QED
      BY <2>1, <2>5, <2>8
<1> HIDE DEF S
<1>3. Nat \subseteq S
    BY <1>1, <1>2, Induction
<1>4. n \in S /\ n - n + 1 = 1
    BY <1>3
<1> QED
    BY <1>4 DEF S, Follows

\* What holds at j if it holds behind j holds everywhere: the induction from the end.
LEMMA Descent ==
    ASSUME NEW n \in Nat, NEW S, \A j \in 1 .. n : j + 1 .. n \subseteq S => j \in S
    PROVE  1 .. n \subseteq S
<1> DEFINE R == {k \in Nat : k <= n => n - k + 1 .. n \subseteq S}
<1>1. 0 \in R
    OBVIOUS
<1>2. ASSUME NEW k \in Nat, k \in R PROVE k + 1 \in R
  <2> SUFFICES ASSUME k + 1 <= n PROVE n - (k + 1) + 1 .. n \subseteq S
      OBVIOUS
  <2> DEFINE m == n - k
  <2>1. /\ m \in 1 .. n /\ n - (k + 1) + 1 = m /\ n - k + 1 = m + 1
        /\ \A j \in m .. n : j = m \/ j \in m + 1 .. n
      OBVIOUS
  <2>2. m + 1 .. n \subseteq S
      BY <1>2, <2>1
  <2>3. m \in S
      BY <2>1, <2>2
  <2> QED
      BY <2>1, <2>2, <2>3
<1> HIDE DEF R
<1>3. Nat \subseteq R
    BY <1>1, <1>2, Induction
<1>4. n \in R /\ n - n + 1 = 1
    BY <1>3
<1> QED
    BY <1>4 DEF R

Text == INSTANCE JsonText

\* The walk to the closing quote.
Closes(c, f) ==
    /\ f \in [1 .. Len(c) + 2 -> Nat]
    /\ \A j \in 1 .. Len(c) + 2 :
           f[j] = IF j > Len(c) THEN 0
                  ELSE IF c[j] = Text!Quote THEN j
                  ELSE IF c[j] = Text!Backslash THEN f[j + 2]
                  ELSE f[j + 1]

\* StringEnd is the value of a function that walks to the closing quote.
LEMMA StringEndIs ==
    ASSUME NEW c, Len(c) \in Nat
    PROVE  \E f : Closes(c, f) /\ \A i \in 0 .. Len(c) : Text!StringEnd(c, i) = f[i + 1]
<1> DEFINE n == Len(c) + 2
           stop == {j \in 1 .. n : j > Len(c) \/ c[j] = Text!Quote}
           base == [j \in 1 .. n |-> IF j > Len(c) THEN 0 ELSE j]
           next == [j \in 1 .. n |-> IF c[j] = Text!Backslash THEN j + 2 ELSE j + 1]
           step == [p \in (1 .. n) \X Nat |-> p[2]]
           Clause(g, j) == IF j > Len(c) THEN 0
                         ELSE IF c[j] = Text!Quote THEN j
                         ELSE IF c[j] = Text!Backslash THEN g[j + 2]
                         ELSE g[j + 1]
           Step(g) == g = [j \in 1 .. Len(c) + 2 |->
                              IF j > Len(c) THEN 0
                              ELSE CASE c[j] = Text!Quote     -> j
                                     [] c[j] = Text!Backslash -> g[j + 2]
                                     [] OTHER                 -> g[j + 1]]
           from == CHOOSE g : Step(g)
<1>0. Text!Quote # Text!Backslash
    BY DEF Text!Quote, Text!Backslash
<1>1. n \in Nat
    OBVIOUS
<1>2. \A j \in 1 .. n : j \in stop => base[j] \in Nat
    OBVIOUS
<1>3. \A j \in 1 .. n : j \notin stop => next[j] \in j + 1 .. n
    OBVIOUS
<1>4. \A j \in 1 .. n : j \notin stop => \A v \in Nat : step[<<j, v>>] \in Nat
    OBVIOUS
<1>5. ASSUME NEW g \in [1 .. n -> Nat], Follows(n, stop, base, next, step, g),
             NEW j \in 1 .. n
      PROVE  g[j] = Clause(g, j)
  <2>1. CASE j \in stop
    <3>1. g[j] = base[j]
        BY <1>5, <2>1 DEF Follows
    <3> QED
        BY <2>1, <3>1
  <2>2. CASE j \notin stop
    <3>1. next[j] \in 1 .. n /\ g[next[j]] \in Nat
        BY <1>3, <2>2
    <3>2. g[j] = g[next[j]]
        BY <1>5, <2>2, <3>1 DEF Follows
    <3> QED
        BY <2>2, <3>2
  <2> QED
      BY <2>1, <2>2
<1>6. \E f \in [1 .. n -> Nat] : \A j \in 1 .. n : f[j] = Clause(f, j)
  <2> PICK f \in [1 .. n -> Nat] : Follows(n, stop, base, next, step, f)
    <3> HIDE DEF n, stop, base, next, step
    <3> QED
        BY <1>1, <1>2, <1>3, <1>4, Backwards
  <2> QED
      BY <1>5
<1> PICK f \in [1 .. n -> Nat] : \A j \in 1 .. n : f[j] = Clause(f, j)
    BY <1>6
<1>7. Step(f)
  <2>1. \A j \in 1 .. n : f[j] = IF j > Len(c) THEN 0
                              ELSE CASE c[j] = Text!Quote     -> j
                                     [] c[j] = Text!Backslash -> f[j + 2]
                                     [] OTHER                 -> f[j + 1]
      BY <1>0
  <2>2. f = [j \in 1 .. n |-> f[j]]
      OBVIOUS
  <2>3. [j \in 1 .. n |-> f[j]] = [j \in 1 .. Len(c) + 2 |->
                              IF j > Len(c) THEN 0
                              ELSE CASE c[j] = Text!Quote     -> j
                                     [] c[j] = Text!Backslash -> f[j + 2]
                                     [] OTHER                 -> f[j + 1]]
      BY <2>1
  <2> QED
      BY <2>2, <2>3
<1>8. Step(from)
    BY <1>7, Zenon
<1>9. \A i \in 0 .. Len(c) : Text!StringEnd(c, i) = from[i + 1]
    BY Zenon DEF Text!StringEnd
<1> HIDE DEF from
<1>10. from = [j \in 1 .. n |-> from[j]] /\ \A j \in 1 .. n : from[j] = Clause(from, j)
    BY <1>0, <1>8
<1> DEFINE S == {j \in 1 .. n : from[j] = f[j]}
<1>11. ASSUME NEW j \in 1 .. n, j + 1 .. n \subseteq S PROVE j \in S
  <2>1. j <= Len(c) => j + 1 \in S /\ j + 2 \in S
    <3>1. j <= Len(c) => j + 1 \in j + 1 .. n /\ j + 2 \in j + 1 .. n
        OBVIOUS
    <3> QED
        BY <1>11, <3>1
  <2>2. Clause(from, j) = Clause(f, j)
      BY <2>1
  <2> QED
      BY <1>10, <2>2
<1> HIDE DEF S, n
<1>12. 1 .. n \subseteq S
    BY <1>1, <1>11, Descent
<1>13. from \in [1 .. n -> Nat]
    BY <1>10, <1>12 DEF S
<1> QED
    BY <1>9, <1>10, <1>13 DEF Closes, n

\* The sum of a text's bytes is a sum of words.
Widths(text) == [i \in 1 .. Len(text) |-> Text!Width(text[i])]

\* A character has between one and five bytes.
LEMMA WidthIs ==
    ASSUME NEW x
    PROVE  Text!Width(x) \in 1 .. 5 /\ Text!Width(x) \in Int /\ Text!Width(x) \in Nat
BY DEF Text!Width

\* The bytes of a text are the sum of its characters' widths.
LEMMA BytesIs ==
    ASSUME NEW Char, NEW text \in Seq(Char)
    PROVE  /\ Widths(text) \in Seq(Nat) /\ Widths(text) \in Seq(Int)
           /\ Text!Bytes(text) = Total(Widths(text))
<1> DEFINE n == Len(text)
           w == Widths(text)
           Step(f) == f = [i \in 0 .. Len(text) |-> IF i = 0 THEN 0 ELSE f[i - 1] + Text!Width(text[i])]
           sum == CHOOSE f : Step(f)
<1>0. n \in Nat
    BY LenProperties
<1>1. w \in Seq(Nat) /\ Len(w) = n /\ w \in Seq(Int) /\ \A i \in 1 .. n : w[i] = Text!Width(text[i])
  <2>1. \A i \in 1 .. n : Text!Width(text[i]) \in Nat
      BY WidthIs
  <2>2. w \in [1 .. n -> Nat] /\ \A i \in 1 .. n : w[i] = Text!Width(text[i])
      BY <2>1 DEF Widths
  <2>3. w \in Seq(Nat) /\ Len(w) = n
      BY <1>0, <2>2, SeqDef, LenProperties
  <2> QED
      BY <2>2, <2>3, SeqMonotonic
<1> HIDE DEF w
<1>2. \E f : Step(f)
  <2> PICK f : Adds(w, f)
      BY <1>1, AddsExists
  <2>1. f \in [0 .. n -> Int] /\ f[0] = 0 /\ \A i \in 1 .. n : f[i] = f[i - 1] + w[i]
      BY <1>1 DEF Adds, AddsUpTo
  <2>2. \A i \in 0 .. n : f[i] = IF i = 0 THEN 0 ELSE f[i - 1] + Text!Width(text[i])
      BY <1>0, <1>1, <2>1
  <2>3. f = [i \in 0 .. n |-> f[i]]
      BY <2>1
  <2>4. [i \in 0 .. n |-> f[i]] =
            [i \in 0 .. Len(text) |-> IF i = 0 THEN 0 ELSE f[i - 1] + Text!Width(text[i])]
      BY <2>2
  <2>5. Step(f)
      BY <2>3, <2>4
  <2> QED
      BY <2>5
<1>3. Step(sum)
    BY <1>2, Zenon
<1>4. Text!Bytes(text) = sum[Len(text)]
    BY Zenon DEF Text!Bytes, Text!Sum
<1> HIDE DEF sum
<1>5. /\ DOMAIN sum = 0 .. n /\ sum[0] = 0
      /\ sum = [i \in 0 .. n |-> sum[i]]
      /\ \A i \in 1 .. n : sum[i] = sum[i - 1] + w[i]
  <2>1. sum = [i \in 0 .. n |-> IF i = 0 THEN 0 ELSE sum[i - 1] + Text!Width(text[i])]
      BY <1>3
  <2>2. DOMAIN sum = 0 .. n /\ sum = [i \in 0 .. n |-> sum[i]]
      BY <2>1
  <2>3. sum[0] = 0
      BY <1>0, <2>1
  <2>4. \A i \in 1 .. n : sum[i] = sum[i - 1] + Text!Width(text[i])
      BY <1>0, <2>1
  <2> QED
      BY <1>1, <2>2, <2>3, <2>4
<1> DEFINE S == {i \in Nat : i <= n => sum[i] \in Int}
<1>6. 0 \in S
    BY <1>5
<1>7. ASSUME NEW k \in Nat, k \in S PROVE k + 1 \in S
  <2> SUFFICES ASSUME k + 1 <= n PROVE sum[k + 1] \in Int
      OBVIOUS
  <2>1. k + 1 \in 1 .. n /\ (k + 1) - 1 = k /\ sum[k] \in Int
      BY <1>0, <1>7
  <2>2. sum[k + 1] = sum[k] + w[k + 1] /\ w[k + 1] \in Int
      BY <1>1, <1>5, <2>1, ElementOfSeq, WidthIs
  <2> QED
      BY <2>1, <2>2
<1> HIDE DEF S
<1>8. Nat \subseteq S
    BY <1>6, <1>7, Induction
<1>9. \A i \in 0 .. n : sum[i] \in Int
    BY <1>0, <1>8 DEF S
<1>10. Adds(w, sum)
    BY <1>1, <1>5, <1>9 DEF Adds, AddsUpTo
<1>11. Total(w) = sum[n]
    BY <1>1, <1>10, TotalOf
<1> QED
    BY <1>1, <1>4, <1>11 DEF w

\* The bytes of two texts behind each other are the bytes of both.
LEMMA BytesConcat ==
    ASSUME NEW Char, NEW a \in Seq(Char), NEW b \in Seq(Char)
    PROVE  /\ Text!Bytes(a) \in Nat
           /\ Text!Bytes(a \o b) = Text!Bytes(a) + Text!Bytes(b)
<1>1. a \o b \in Seq(Char) /\ Len(a) \in Nat /\ Len(b) \in Nat
    BY ConcatProperties, LenProperties
<1>2. Text!Bytes(a) = Total(Widths(a)) /\ Text!Bytes(b) = Total(Widths(b))
      /\ Text!Bytes(a \o b) = Total(Widths(a \o b))
    BY <1>1, BytesIs
<1>3. Widths(a \o b) = Widths(a) \o Widths(b)
    BY <1>1 DEF Widths
<1>4. Total(Widths(a)) \in Nat
    BY BytesIs, TotalNat
<1>5. Total(Widths(a) \o Widths(b)) = Total(Widths(a)) + Total(Widths(b))
    BY BytesIs, TotalConcat
<1> QED
    BY <1>2, <1>3, <1>4, <1>5

\* A text of one character has its bytes, and the empty one none.
LEMMA BytesOne ==
    ASSUME NEW x
    PROVE  /\ Text!Bytes(<<x>>) = Text!Width(x)
           /\ Text!Bytes(<<>>) = 0
<1> DEFINE v == Text!Width(x)
           one == <<x>>
           none == <<>>
           Char == {x}
<1>0. v \in Int
    BY WidthIs
<1>1. one \in Seq(Char) /\ none \in Seq(Char) /\ Len(one) = 1 /\ Len(none) = 0 /\ one[1] = x
    OBVIOUS
<1>2. Widths(one)[1] = v /\ Len(Widths(one)) = 1 /\ Len(Widths(none)) = 0
  <2>1. \A i \in 1 .. 1 : Widths(one)[i] = Text!Width(one[i])
      BY <1>1 DEF Widths
  <2>2. Widths(one)[1] = v
      BY <1>1, <2>1
  <2>3. DOMAIN Widths(one) = 1 .. 1 /\ DOMAIN Widths(none) = 1 .. 0
      BY <1>1 DEF Widths
  <2>4. Widths(one) \in Seq(Int) /\ Widths(none) \in Seq(Int)
      BY <1>1, BytesIs
  <2>5. Len(Widths(one)) = 1 /\ Len(Widths(none)) = 0
      BY <2>3, <2>4, LenProperties
  <2> QED
      BY <2>2, <2>5
<1>3. /\ Text!Bytes(one) = Total(Widths(one)) /\ Text!Bytes(none) = Total(Widths(none))
      /\ Widths(one) \in Seq(Int) /\ Widths(none) \in Seq(Int)
    BY <1>1, BytesIs
<1> HIDE DEF v, one, none
<1>4. Text!Bytes(none) = 0
  <2> PICK f : Adds(Widths(none), f) /\ Total(Widths(none)) = f[Len(Widths(none))]
      BY <1>3, TotalIs
  <2>1. Total(Widths(none)) = f[0] /\ f[0] = 0
      BY <1>2 DEF Adds, AddsUpTo
  <2> QED
      BY <1>3, <2>1
<1>5. Text!Bytes(one) = v
  <2> PICK f : Adds(Widths(one), f) /\ Total(Widths(one)) = f[Len(Widths(one))]
      BY <1>3, TotalIs
  <2>1. f[0] = 0 /\ f[1] = f[0] + Widths(one)[1]
      BY <1>2 DEF Adds, AddsUpTo
  <2>2. Total(Widths(one)) = f[1]
      BY <1>2
  <2>3. f[1] = v
      BY <1>0, <1>2, <2>1
  <2> QED
      BY <1>3, <2>2, <2>3
<1> QED
    BY <1>4, <1>5 DEF one, none, v

\* The walk that counts the escapes in front of the closing quote.
Counts(c, end, f) ==
    /\ f \in [1 .. end + 1 -> Nat]
    /\ \A j \in 1 .. end + 1 :
           f[j] = IF j >= end THEN 0
                  ELSE IF c[j] = Text!Backslash THEN 1 + f[j + 2]
                  ELSE f[j + 1]

\* Allocation is what is in front of the closing quote less the escapes counted, and one.
LEMMA AllocationIs ==
    ASSUME NEW c, NEW end \in Nat
    PROVE  \E f : /\ Counts(c, end, f)
                  /\ \A i \in 0 .. end :
                        Text!Allocation(c, i, end) = Text!Bytes(SubSeq(c, i, end - 1)) - f[i + 1] + 1
<1> DEFINE n == end + 1
           stop == {j \in 1 .. n : j >= end}
           base == [j \in 1 .. n |-> 0]
           next == [j \in 1 .. n |-> IF c[j] = Text!Backslash THEN j + 2 ELSE j + 1]
           step == [p \in (1 .. n) \X Nat |-> IF c[p[1]] = Text!Backslash THEN 1 + p[2] ELSE p[2]]
           Clause(g, j) == IF j >= end THEN 0
                         ELSE IF c[j] = Text!Backslash THEN 1 + g[j + 2]
                         ELSE g[j + 1]
           Step(g) == g = [j \in 1 .. end + 1 |->
                              IF j >= end THEN 0
                              ELSE IF c[j] = Text!Backslash THEN 1 + g[j + 2]
                              ELSE g[j + 1]]
           escapes == CHOOSE g : Step(g)
<1>1. n \in Nat
    OBVIOUS
<1>2. \A j \in 1 .. n : j \in stop => base[j] \in Nat
    OBVIOUS
<1>3. \A j \in 1 .. n : j \notin stop => next[j] \in j + 1 .. n
    OBVIOUS
<1>4. \A j \in 1 .. n : j \notin stop => \A v \in Nat : step[<<j, v>>] \in Nat
    OBVIOUS
<1>5. ASSUME NEW g \in [1 .. n -> Nat], Follows(n, stop, base, next, step, g),
             NEW j \in 1 .. n
      PROVE  g[j] = Clause(g, j)
  <2>1. CASE j \in stop
    <3>1. g[j] = base[j]
        BY <1>5, <2>1 DEF Follows
    <3> QED
        BY <2>1, <3>1
  <2>2. CASE j \notin stop
    <3>1. next[j] \in 1 .. n /\ g[next[j]] \in Nat
        BY <1>3, <2>2
    <3>2. g[j] = step[<<j, g[next[j]]>>]
        BY <1>5, <2>2 DEF Follows
    <3>3. g[j] = IF c[j] = Text!Backslash THEN 1 + g[next[j]] ELSE g[next[j]]
      <4> HIDE DEF next, n
      <4> QED
          BY <3>1, <3>2
    <3> QED
        BY <2>2, <3>3
  <2> QED
      BY <2>1, <2>2
<1>6. \E f \in [1 .. n -> Nat] : \A j \in 1 .. n : f[j] = Clause(f, j)
  <2> PICK f \in [1 .. n -> Nat] : Follows(n, stop, base, next, step, f)
    <3> HIDE DEF n, stop, base, next, step
    <3> QED
        BY <1>1, <1>2, <1>3, <1>4, Backwards
  <2> QED
      BY <1>5
<1> PICK f \in [1 .. n -> Nat] : \A j \in 1 .. n : f[j] = Clause(f, j)
    BY <1>6
<1>7. Step(f)
  <2>1. f = [j \in 1 .. n |-> f[j]]
      OBVIOUS
  <2>2. [j \in 1 .. n |-> f[j]] = [j \in 1 .. end + 1 |->
                              IF j >= end THEN 0
                              ELSE IF c[j] = Text!Backslash THEN 1 + f[j + 2]
                              ELSE f[j + 1]]
      OBVIOUS
  <2> QED
      BY <2>1, <2>2
<1>8. Step(escapes)
    BY <1>7, Zenon
<1>9. \A i \in 0 .. end :
          Text!Allocation(c, i, end) = Text!Bytes(SubSeq(c, i, end - 1)) - escapes[i + 1] + 1
    BY Zenon DEF Text!Allocation
<1> HIDE DEF escapes
<1>10. escapes = [j \in 1 .. n |-> escapes[j]] /\ \A j \in 1 .. n : escapes[j] = Clause(escapes, j)
    BY <1>8
<1> DEFINE S == {j \in 1 .. n : escapes[j] = f[j]}
<1>11. ASSUME NEW j \in 1 .. n, j + 1 .. n \subseteq S PROVE j \in S
  <2>1. j < end => j + 1 \in S /\ j + 2 \in S
    <3>1. j < end => j + 1 \in j + 1 .. n /\ j + 2 \in j + 1 .. n
        OBVIOUS
    <3> QED
        BY <1>11, <3>1
  <2>2. Clause(escapes, j) = Clause(f, j)
      BY <2>1
  <2> QED
      BY <1>10, <2>2
<1> HIDE DEF S, n
<1>12. 1 .. n \subseteq S
    BY <1>1, <1>11, Descent
<1>13. escapes \in [1 .. n -> Nat]
    BY <1>10, <1>12 DEF S
<1> QED
    BY <1>9, <1>10, <1>13 DEF Counts, n

\* The conversion, of which at j the part behind j is left.
Chars(c, end) == {Text!CharAt(c, j, end).char : j \in 1 .. end}
Takes(c, j, end) == Text!CharAt(c, j, end).takes
Char(c, j, end) == Text!CharAt(c, j, end).char

Converts(c, end, f) ==
    /\ f \in [1 .. end + 1 -> [out : Seq(Chars(c, end)), at : Nat]]
    /\ \A j \in 1 .. end + 1 :
           f[j] = IF j >= end \/ Takes(c, j, end) = 0 THEN [out |-> <<>>, at |-> j]
                  ELSE [out |-> <<Char(c, j, end)>> \o f[j + Takes(c, j, end)].out,
                        at  |-> f[j + Takes(c, j, end)].at]

\* No conversion takes more than there is in front of the closing quote.
LEMMA TakesAre ==
    ASSUME NEW c, NEW end \in Nat, NEW j \in 1 .. end, j < end
    PROVE  Takes(c, j, end) \in 0 .. end + 1 - j
<1>1. Takes(c, j, end) \in {0, 1, 2} \/ Takes(c, j, end) = Text!utf16_literal_to_utf8(c, j, end).takes
    BY DEF Takes, Text!CharAt
<1> DEFINE t == Text!utf16_literal_to_utf8(c, j, end).takes
<1>2. t = 0 \/ (t = 3 /\ j + 2 < end) \/ (t = 6 /\ (j + 3) + 2 < end)
    BY DEF Text!utf16_literal_to_utf8
<1> HIDE DEF t
<1>3. t \in 0 .. end + 1 - j
    BY <1>2
<1>4. Takes(c, j, end) \in {0, 1, 2} \/ Takes(c, j, end) = t
    BY <1>1 DEF t
<1> QED
    BY <1>3, <1>4

\* Unescaped is the value of a function that converts from each place on.
LEMMA UnescapedIs ==
    ASSUME NEW c, NEW end \in Nat
    PROVE  \E f : Converts(c, end, f) /\ \A i \in 0 .. end : Text!Unescaped(c, i, end) = f[i + 1]
<1> DEFINE n == end + 1
           V == [out : Seq(Chars(c, end)), at : Nat]
           stop == {j \in 1 .. n : j >= end \/ Takes(c, j, end) = 0}
           base == [j \in 1 .. n |-> [out |-> <<>>, at |-> j]]
           next == [j \in 1 .. n |-> j + Takes(c, j, end)]
           step == [p \in (1 .. n) \X V |-> [out |-> <<Char(c, p[1], end)>> \o p[2].out, at |-> p[2].at]]
           Clause(g, j) == IF j >= end \/ Takes(c, j, end) = 0 THEN [out |-> <<>>, at |-> j]
                         ELSE [out |-> <<Char(c, j, end)>> \o g[j + Takes(c, j, end)].out,
                               at  |-> g[j + Takes(c, j, end)].at]
           Step(g) == g = [j \in 1 .. end + 1 |->
                              IF j >= end \/ Text!CharAt(c, j, end).takes = 0 THEN [out |-> <<>>, at |-> j]
                              ELSE [out |-> <<Text!CharAt(c, j, end).char>> \o
                                                g[j + Text!CharAt(c, j, end).takes].out,
                                    at  |-> g[j + Text!CharAt(c, j, end).takes].at]]
           from == CHOOSE g : Step(g)
<1>1. n \in Nat
    OBVIOUS
<1>2. \A j \in 1 .. n : j \in stop => base[j] \in V
    OBVIOUS
<1>3. \A j \in 1 .. n : j \notin stop => next[j] \in j + 1 .. n
  <2> SUFFICES ASSUME NEW j \in 1 .. n, j \notin stop PROVE next[j] \in j + 1 .. n
      OBVIOUS
  <2>1. j \in 1 .. end /\ j < end /\ Takes(c, j, end) # 0 /\ next[j] = j + Takes(c, j, end)
      OBVIOUS
  <2>2. Takes(c, j, end) \in 0 .. end + 1 - j
      BY <2>1, TakesAre
  <2> QED
      BY <2>1, <2>2
<1>4. \A j \in 1 .. n : j \notin stop => \A v \in V : step[<<j, v>>] \in V
  <2> SUFFICES ASSUME NEW j \in 1 .. n, j \notin stop, NEW v \in V PROVE step[<<j, v>>] \in V
      OBVIOUS
  <2>1. Char(c, j, end) \in Chars(c, end)
    <3>1. j \in 1 .. end
        OBVIOUS
    <3> QED
        BY <3>1 DEF Char, Chars
  <2>2. <<Char(c, j, end)>> \o v.out \in Seq(Chars(c, end)) /\ v.at \in Nat
      BY <2>1
  <2>3. step[<<j, v>>] = [out |-> <<Char(c, j, end)>> \o v.out, at |-> v.at]
    <3>1. <<j, v>> \in (1 .. n) \X V /\ <<j, v>>[1] = j /\ <<j, v>>[2] = v
        OBVIOUS
    <3> QED
        BY <3>1
  <2> QED
      BY <2>2, <2>3
<1>5. ASSUME NEW g \in [1 .. n -> V], Follows(n, stop, base, next, step, g),
             NEW j \in 1 .. n
      PROVE  g[j] = Clause(g, j)
  <2>1. CASE j \in stop
    <3>1. g[j] = base[j]
        BY <1>5, <2>1 DEF Follows
    <3> QED
        BY <2>1, <3>1
  <2>2. CASE j \notin stop
    <3>1. next[j] \in 1 .. n /\ g[next[j]] \in V
        BY <1>3, <2>2
    <3>2. g[j] = step[<<j, g[next[j]]>>]
        BY <1>5, <2>2 DEF Follows
    <3>3. step[<<j, g[next[j]]>>] = [out |-> <<Char(c, j, end)>> \o g[next[j]].out, at |-> g[next[j]].at]
      <4> DEFINE v == g[next[j]]
      <4>1. v \in V
          BY <3>1
      <4> HIDE DEF v
      <4>2. <<j, v>> \in (1 .. n) \X V /\ <<j, v>>[1] = j /\ <<j, v>>[2] = v
          BY <4>1
      <4>3. step[<<j, v>>] = [out |-> <<Char(c, j, end)>> \o v.out, at |-> v.at]
          BY <4>2
      <4> QED
          BY <4>3 DEF v
    <3>4. next[j] = j + Takes(c, j, end) /\ ~(j >= end \/ Takes(c, j, end) = 0)
        BY <2>2
    <3> QED
        BY <3>2, <3>3, <3>4
  <2> QED
      BY <2>1, <2>2
<1>6. \E f \in [1 .. n -> V] : \A j \in 1 .. n : f[j] = Clause(f, j)
  <2> PICK f \in [1 .. n -> V] : Follows(n, stop, base, next, step, f)
    <3> HIDE DEF n, V, stop, base, next, step
    <3> QED
        BY <1>1, <1>2, <1>3, <1>4, Backwards
  <2> QED
      BY <1>5
<1> PICK f \in [1 .. n -> V] : \A j \in 1 .. n : f[j] = Clause(f, j)
    BY <1>6
<1>7. Step(f)
  <2>1. f = [j \in 1 .. n |-> f[j]]
      OBVIOUS
  <2>2. [j \in 1 .. n |-> f[j]] = [j \in 1 .. n |-> Clause(f, j)]
    <3> HIDE DEF Clause, n
    <3> QED
        OBVIOUS
  <2> QED
      BY <2>1, <2>2, Zenon DEF Takes, Char
<1>8. Step(from)
    BY <1>7, Zenon
<1>9. \A i \in 0 .. end : Text!Unescaped(c, i, end) = from[i + 1]
    BY Zenon DEF Text!Unescaped
<1> HIDE DEF from
<1>10. from = [j \in 1 .. n |-> from[j]] /\ \A j \in 1 .. n : from[j] = Clause(from, j)
    BY <1>8 DEF Takes, Char
<1> HIDE DEF Step
<1> DEFINE S == {j \in 1 .. n : from[j] = f[j]}
<1>11. ASSUME NEW j \in 1 .. n, j + 1 .. n \subseteq S PROVE j \in S
  <2>1. CASE j \in stop
    <3>1. Clause(from, j) = Clause(f, j)
        BY <2>1
    <3> QED
        BY <1>10, <3>1
  <2>2. CASE j \notin stop
    <3>1. j + Takes(c, j, end) \in S
      <4>1. next[j] \in j + 1 .. n /\ next[j] = j + Takes(c, j, end)
          BY <1>3, <2>2
      <4> QED
          BY <1>11, <4>1
    <3>2. from[j + Takes(c, j, end)] = f[j + Takes(c, j, end)]
        BY <3>1
    <3>3. Clause(from, j) = Clause(f, j)
        BY <3>2
    <3> QED
        BY <1>10, <3>3
  <2> QED
      BY <2>1, <2>2
<1> HIDE DEF S, n
<1>12. 1 .. n \subseteq S
    BY <1>1, <1>11, Descent
<1>13. from \in [1 .. n -> V]
    BY <1>10, <1>12 DEF S
<1> QED
    BY <1>9, <1>10, <1>13 DEF Converts, n

\* What the closing quote is.
LEMMA EndAhead ==
    ASSUME NEW c, Len(c) \in Nat, NEW f, Closes(c, f), NEW j \in 1 .. Len(c) + 2
    PROVE  f[j] = 0 \/ (f[j] \in j .. Len(c) /\ c[f[j]] = Text!Quote)
<1> DEFINE n == Len(c) + 2
           S == {k \in 1 .. n : f[k] = 0 \/ (f[k] \in k .. Len(c) /\ c[f[k]] = Text!Quote)}
<1>1. ASSUME NEW k \in 1 .. n, k + 1 .. n \subseteq S PROVE k \in S
  <2>1. k <= Len(c) => k + 1 \in S /\ k + 2 \in S
    <3>1. k <= Len(c) => k + 1 \in k + 1 .. n /\ k + 2 \in k + 1 .. n
        OBVIOUS
    <3> QED
        BY <1>1, <3>1
  <2>2. f[k] = IF k > Len(c) THEN 0
               ELSE IF c[k] = Text!Quote THEN k
               ELSE IF c[k] = Text!Backslash THEN f[k + 2]
               ELSE f[k + 1]
      BY DEF Closes
  <2>3. f[k] = 0 \/ (f[k] \in k .. Len(c) /\ c[f[k]] = Text!Quote)
      BY <2>1, <2>2
  <2> QED
      BY <2>3
<1> HIDE DEF S
<1>2. n \in Nat
    OBVIOUS
<1> HIDE DEF n
<1>3. 1 .. n \subseteq S
    BY <1>1, <1>2, Descent
<1> QED
    BY <1>3 DEF S, n

\* What CharAt takes, and how wide what it gives is.
LEMMA CharIs ==
    ASSUME NEW c, NEW j \in Nat, NEW end \in Nat
    PROVE  LET here == Text!CharAt(c, j, end)
           IN  \/ c[j] # Text!Backslash /\ here = [char |-> c[j], takes |-> 1]
               \/ /\ c[j] = Text!Backslash
                  /\ \/ here.takes = 0
                     \/ here.takes = 2 /\ Text!Width(here.char) = 1
                     \/ /\ here.takes = 3 /\ j + 2 < end
                        /\ c[j + 2] \in DOMAIN Text!Coded
                        /\ Text!Width(here.char) <= 3
                     \/ /\ here.takes = 6 /\ j + 5 < end
                        /\ c[j + 2] = Text!HighHalf /\ c[j + 3] = Text!Backslash
                        /\ c[j + 5] = Text!LowHalf /\ Text!Width(here.char) = 4
<1>1. CASE c[j] # Text!Backslash
    BY <1>1 DEF Text!CharAt
<1>2. CASE c[j] = Text!Backslash /\ c[j + 1] \in DOMAIN Text!Control
  <2>1. Text!CharAt(c, j, end) = [char |-> Text!Control[c[j + 1]], takes |-> 2]
      BY <1>2 DEF Text!CharAt, Text!Control, Text!Quote, Text!Backslash
  <2>2. Text!Width(Text!Control[c[j + 1]]) = 1
      BY <1>2 DEF Text!Control, Text!Width, Text!Quad, Text!Coded, Text!HighHalf, Text!LowHalf
  <2> QED
      BY <1>2, <2>1, <2>2
<1>3. CASE c[j] = Text!Backslash /\ c[j + 1] \in {Text!Quote, Text!Backslash, "/"}
  <2>1. Text!CharAt(c, j, end) = [char |-> c[j + 1], takes |-> 2]
      BY <1>3 DEF Text!CharAt, Text!Control, Text!Quote, Text!Backslash
  <2>2. Text!Width(c[j + 1]) = 1
      BY <1>3 DEF Text!Quote, Text!Backslash, Text!Width, Text!Quad, Text!Coded,
                  Text!HighHalf, Text!LowHalf
  <2> QED
      BY <1>3, <2>1, <2>2
<1>4. CASE c[j] = Text!Backslash /\ c[j + 1] = "u"
  <2>1. Text!CharAt(c, j, end) = Text!utf16_literal_to_utf8(c, j, end)
      BY <1>4 DEF Text!CharAt, Text!Control, Text!Quote, Text!Backslash
  <2>2. CASE j + 2 < end /\ c[j + 2] \in DOMAIN Text!Coded
    <3>1. Text!CharAt(c, j, end) = [char |-> Text!Coded[c[j + 2]], takes |-> 3]
      <4>1. c[j + 2] # Text!HighHalf
          BY <2>2 DEF Text!Coded, Text!HighHalf
      <4> QED
          BY <1>4, <2>1, <2>2, <4>1 DEF Text!utf16_literal_to_utf8
    <3>2. Text!Width(Text!Coded[c[j + 2]]) <= 3
        BY <2>2 DEF Text!Coded, Text!NUL, Text!Width, Text!Quad, Text!HighHalf, Text!LowHalf
    <3> QED
        BY <1>4, <2>2, <3>1, <3>2
  <2>3. CASE ~(j + 2 < end /\ c[j + 2] \in DOMAIN Text!Coded)
    <3>1. \/ /\ Text!utf16_literal_to_utf8(c, j, end) = [char |-> "smiley", takes |-> 6]
             /\ (j + 3) + 2 < end /\ c[j + 3] = Text!Backslash
             /\ c[j + 2] = Text!HighHalf /\ c[j + 5] = Text!LowHalf
          \/ Text!utf16_literal_to_utf8(c, j, end) = [char |-> Text!NUL, takes |-> 0]
        BY <2>3 DEF Text!utf16_literal_to_utf8
    <3>2. Text!Width("smiley") = 4
        BY DEF Text!Width, Text!Quad, Text!Coded, Text!HighHalf, Text!LowHalf
    <3> QED
        BY <1>4, <2>1, <3>1, <3>2
  <2> QED
      BY <2>2, <2>3
<1>5. CASE /\ c[j] = Text!Backslash /\ c[j + 1] \notin DOMAIN Text!Control
           /\ c[j + 1] \notin {Text!Quote, Text!Backslash, "/"} /\ c[j + 1] # "u"
  <2>1. Text!CharAt(c, j, end) = [char |-> Text!NUL, takes |-> 0]
      BY <1>5 DEF Text!CharAt
  <2> QED
      BY <1>5, <2>1
<1> QED
    BY <1>1, <1>2, <1>3, <1>4, <1>5

\* The bytes of c from j on, in front of end.
Behind(c, j, end) == Text!Bytes(SubSeq(c, j, end - 1))

\* Each character takes its bytes away from those that are left.
LEMMA BehindIs ==
    ASSUME NEW Symbol, NEW c \in Seq(Symbol), NEW end \in 1 .. Len(c) + 1
    PROVE  /\ Behind(c, end, end) = 0
           /\ \A j \in 1 .. end - 1 : Behind(c, j, end) = Text!Width(c[j]) + Behind(c, j + 1, end)
           /\ \A j \in 1 .. end : Behind(c, j, end) \in Nat
<1>0. Len(c) \in Nat
    BY LenProperties
<1>1. Behind(c, end, end) = 0
  <2>1. SubSeq(c, end, end - 1) = <<>>
      BY <1>0, SubSeqProperties
  <2> QED
      BY <2>1, BytesOne DEF Behind
<1>2. ASSUME NEW j \in 1 .. end - 1
      PROVE  Behind(c, j, end) = Text!Width(c[j]) + Behind(c, j + 1, end)
  <2>1. c[j] \in Symbol /\ <<c[j]>> \in Seq(Symbol)
      BY <1>0, ElementOfSeq
  <2>2. SubSeq(c, j + 1, end - 1) \in Seq(Symbol)
      BY <1>0, SubSeqProperties
  <2>3. SubSeq(c, j, end - 1) = <<c[j]>> \o SubSeq(c, j + 1, end - 1)
      BY <1>0, <2>1
  <2> QED
      BY <2>1, <2>2, <2>3, BytesConcat, BytesOne DEF Behind
<1>3. ASSUME NEW j \in 1 .. end PROVE Behind(c, j, end) \in Nat
  <2>1. SubSeq(c, j, end - 1) \in Seq(Symbol)
      BY <1>0, SubSeqProperties
  <2> QED
      BY <2>1, BytesConcat DEF Behind
<1> QED
    BY <1>1, <1>2, <1>3

\* Wherever a string that ends stands, what is left to convert and the escapes that
\* are left need no more bytes than are left.
LEMMA RestFits ==
    ASSUME NEW Symbol, NEW c \in Seq(Symbol), NEW end \in 1 .. Len(c),
           NEW ends, Closes(c, ends), NEW escapes, Counts(c, end, escapes),
           NEW from, Converts(c, end, from), NEW i \in 1 .. end, ends[i] = end
    PROVE  /\ escapes[i] \in Nat /\ Text!Bytes(from[i].out) \in Nat /\ Behind(c, i, end) \in Nat
           /\ escapes[i] <= Behind(c, i, end)
           /\ Text!Bytes(from[i].out) + escapes[i] <= Behind(c, i, end)
<1>0. Len(c) \in Nat /\ end \in Nat /\ end \in 1 .. Len(c) + 1
    BY LenProperties
<1> DEFINE Out(j)   == Text!Bytes(from[j].out)
           Left(j)  == Behind(c, j, end)
           Fits(j)  == escapes[j] <= Left(j) /\ Out(j) + escapes[j] <= Left(j)
           S == {j \in 1 .. end : ends[j] = end => Fits(j)}
<1>1. \A j \in 1 .. end : escapes[j] \in Nat /\ Out(j) \in Nat /\ Left(j) \in Nat
  <2> SUFFICES ASSUME NEW j \in 1 .. end
               PROVE  escapes[j] \in Nat /\ Out(j) \in Nat /\ Left(j) \in Nat
      OBVIOUS
  <2>1. from[j].out \in Seq(Chars(c, end))
      BY DEF Converts
  <2>2. Out(j) \in Nat
      BY <2>1, BytesConcat
  <2> QED
      BY <1>0, <2>2, BehindIs DEF Counts
<1>2. Left(end) = 0 /\ \A j \in 1 .. end - 1 : Left(j) = Text!Width(c[j]) + Left(j + 1)
    BY <1>0, BehindIs
<1>3. \A j \in 1 .. end - 1 :
          escapes[j] = IF c[j] = Text!Backslash THEN 1 + escapes[j + 2] ELSE escapes[j + 1]
    BY <1>0 DEF Counts
<1>4. \A j \in 1 .. end : ends[j] = IF c[j] = Text!Quote THEN j
                                   ELSE IF c[j] = Text!Backslash THEN ends[j + 2]
                                   ELSE ends[j + 1]
    BY <1>0 DEF Closes
<1>5. \A j \in 1 .. end + 2 : ends[j] = end => j <= end
  <2> SUFFICES ASSUME NEW j \in 1 .. end + 2, ends[j] = end PROVE j <= end
      OBVIOUS
  <2>1. j \in 1 .. Len(c) + 2
      BY <1>0
  <2> QED
      BY <1>0, <2>1, EndAhead
<1>6. ASSUME NEW j \in 1 .. end - 1
      PROVE  Out(j) = IF Takes(c, j, end) = 0 THEN 0
                      ELSE Text!Width(Char(c, j, end)) + Out(j + Takes(c, j, end))
  <2>0. j \in 1 .. end + 1 /\ j \in 1 .. end /\ ~(j >= end) /\ j < end
      BY <1>0
  <2>1. CASE Takes(c, j, end) = 0
    <3>1. from[j] = [out |-> <<>>, at |-> j]
        BY <2>0, <2>1 DEF Converts
    <3>2. from[j].out = <<>>
        BY <3>1
    <3> QED
        BY <2>1, <3>2, BytesOne
  <2>2. CASE Takes(c, j, end) # 0
    <3> DEFINE k == j + Takes(c, j, end)
               x == Char(c, j, end)
    <3>1. k \in 1 .. end + 1
        BY <1>0, <2>0, TakesAre
    <3>2. x \in Chars(c, end) /\ <<x>> \in Seq(Chars(c, end))
        BY <2>0 DEF Chars, Char
    <3>3. from[k].out \in Seq(Chars(c, end))
        BY <3>1 DEF Converts
    <3>4. from[j].out = <<x>> \o from[k].out
      <4>1. from[j] = [out |-> <<x>> \o from[k].out, at |-> from[k].at]
          BY <2>0, <2>2 DEF Converts
      <4> QED
          BY <4>1
    <3> HIDE DEF k, x
    <3>5. Out(j) = Text!Bytes(<<x>>) + Out(k)
        BY <3>2, <3>3, <3>4, BytesConcat
    <3>6. Out(j) = Text!Width(x) + Out(k)
        BY <3>5, BytesOne
    <3> QED
        BY <2>2, <3>6 DEF k, x
  <2> QED
      BY <2>1, <2>2
<1>7. \A j \in 1 .. end : Text!Width(c[j]) \in 1 .. 5 /\ Text!Width(Char(c, j, end)) \in 1 .. 5
    BY WidthIs
<1>8. /\ Text!Quote # Text!Backslash /\ Text!Width(Text!Backslash) = 1
      /\ \A q \in DOMAIN Text!Coded \cup {Text!HighHalf, Text!LowHalf} :
            Text!Width(q) = 4 /\ q # Text!Quote /\ q # Text!Backslash
    BY DEF Text!Quote, Text!Backslash, Text!Width, Text!Quad, Text!Coded, Text!HighHalf, Text!LowHalf
<1> HIDE DEF Out, Left
<1>9. ASSUME NEW j \in 1 .. end, j + 1 .. end \subseteq S PROVE j \in S
  <2> SUFFICES ASSUME ends[j] = end PROVE Fits(j)
      OBVIOUS
  <2>0. \A k \in j + 1 .. end : ends[k] = end => Fits(k)
      BY <1>9
  <2>1. CASE j = end
    <3>1. escapes[end] = 0 /\ Out(end) = 0
      <4>1. end \in 1 .. end + 1
          BY <1>0
      <4>2. escapes[end] = 0
          BY <1>0, <4>1 DEF Counts
      <4>3. from[end] = [out |-> <<>>, at |-> end]
        <5>1. end >= end
            BY <1>0
        <5> QED
            BY <4>1, <5>1 DEF Converts
      <4>4. from[end].out = <<>>
          BY <4>3
      <4> QED
          BY <4>2, <4>4, BytesOne DEF Out
    <3> QED
        BY <1>2, <2>1, <3>1
  <2>2. CASE j \in 1 .. end - 1 /\ c[j] # Text!Backslash
    <3>1. ends[j + 1] = end /\ j + 1 \in j + 1 .. end /\ j + 1 \in 1 .. end
        BY <1>0, <1>4, <2>2
    <3>2. Takes(c, j, end) = 1 /\ Char(c, j, end) = c[j]
        BY <2>2 DEF Takes, Char, Text!CharAt
    <3>3. Out(j) = Text!Width(c[j]) + Out(j + 1)
        BY <1>6, <2>2, <3>2
    <3>4. Left(j) = Text!Width(c[j]) + Left(j + 1) /\ escapes[j] = escapes[j + 1]
        BY <1>2, <1>3, <2>2
    <3>5. Fits(j + 1)
        BY <2>0, <3>1
    <3>6. /\ escapes[j + 1] \in Nat /\ Out(j + 1) \in Nat /\ Left(j + 1) \in Nat
          /\ Text!Width(c[j]) \in 1 .. 5
        BY <1>1, <1>7, <3>1
    <3> QED
        BY <3>3, <3>4, <3>5, <3>6
  <2>3. CASE j \in 1 .. end - 1 /\ c[j] = Text!Backslash
    <3>1. ends[j + 2] = end
        BY <1>4, <1>8, <2>3
    <3>2. j + 2 <= end
        BY <1>0, <1>5, <2>3, <3>1
    <3>3. j + 1 \in 1 .. end - 1 /\ j + 2 \in 1 .. end /\ j + 2 \in j + 1 .. end
        BY <1>0, <2>3, <3>2
    <3>4. Fits(j + 2)
        BY <2>0, <3>1, <3>3
    <3>5. escapes[j] = 1 + escapes[j + 2]
        BY <1>3, <2>3
    <3>6. Left(j) = 1 + Text!Width(c[j + 1]) + Left(j + 2) /\ Text!Width(c[j + 1]) \in 1 .. 5
      <4>1. Left(j) = 1 + Left(j + 1)
          BY <1>2, <1>8, <2>3
      <4>2. Left(j + 1) = Text!Width(c[j + 1]) + Left((j + 1) + 1) /\ (j + 1) + 1 = j + 2
          BY <1>2, <3>3
      <4>3. Text!Width(c[j + 1]) \in 1 .. 5 /\ Left(j + 2) \in Nat /\ Left(j + 1) \in Nat
          BY <1>1, <1>7, <3>3
      <4> QED
          BY <4>1, <4>2, <4>3
    <3>n. /\ escapes[j + 2] \in Nat /\ Out(j + 2) \in Nat /\ Left(j + 2) \in Nat
          /\ escapes[j] \in Nat /\ Out(j) \in Nat /\ Left(j) \in Nat
        BY <1>1, <3>3
    <3>7. escapes[j] <= Left(j)
      <4>1. escapes[j + 2] <= Left(j + 2)
          BY <3>4
      <4>2. Left(j) >= 2 + Left(j + 2)
          BY <3>6, <3>n
      <4> HIDE DEF Fits, S
      <4> QED
          BY <3>5, <3>n, <4>1, <4>2
    <3>8. CASE Takes(c, j, end) = 0
      <4>1. Out(j) = 0
          BY <1>6, <2>3, <3>8
      <4> QED
          BY <3>7, <3>n, <4>1
    <3>9. CASE Takes(c, j, end) = 2 /\ Text!Width(Char(c, j, end)) = 1
      <4>1. Out(j) = 1 + Out(j + 2)
          BY <1>6, <2>3, <3>9
      <4>2. Out(j) + escapes[j] = 2 + (Out(j + 2) + escapes[j + 2])
          BY <3>5, <3>n, <4>1
      <4>3. Left(j) >= 2 + Left(j + 2)
          BY <3>6, <3>n
      <4>4. Out(j) + escapes[j] <= Left(j)
          BY <3>4, <3>n, <4>2, <4>3
      <4> QED
          BY <3>7, <4>4
    <3>10. CASE /\ Takes(c, j, end) = 3 /\ j + 2 < end /\ c[j + 2] \in DOMAIN Text!Coded
                /\ Text!Width(Char(c, j, end)) <= 3
      <4>0. j + 2 \in 1 .. end - 1 /\ j + 3 \in 1 .. end /\ j + 3 \in j + 1 .. end /\ (j + 2) + 1 = j + 3
          BY <1>0, <2>3, <3>10
      <4>1. ends[j + 3] = end /\ escapes[j + 2] = escapes[j + 3] /\ Left(j + 2) = 4 + Left(j + 3)
          BY <1>2, <1>3, <1>4, <1>8, <3>1, <3>3, <3>10, <4>0
      <4>2. Out(j) = Text!Width(Char(c, j, end)) + Out(j + 3) /\ Text!Width(Char(c, j, end)) \in 1 .. 3
          BY <1>6, <1>7, <2>3, <3>10
      <4>3. Fits(j + 3)
          BY <2>0, <4>0, <4>1
      <4>4. escapes[j + 3] \in Nat /\ Out(j + 3) \in Nat /\ Left(j + 3) \in Nat
          BY <1>1, <4>0
      <4>5. Out(j + 3) + escapes[j + 3] <= Left(j + 3)
          BY <4>3
      <4>6. escapes[j] = 1 + escapes[j + 3] /\ Out(j) <= 3 + Out(j + 3)
        <5>1. escapes[j] = 1 + escapes[j + 3]
            BY <3>5, <4>1
        <5>2. Out(j) <= 3 + Out(j + 3)
          <6> PICK w \in 1 .. 3 : Out(j) = w + Out(j + 3)
              BY <4>2
          <6> HIDE DEF Fits, S
          <6> QED
              BY <4>4
        <5> QED
            BY <5>1, <5>2
      <4>7. Left(j) >= 6 + Left(j + 3)
        <5>1. Left(j) >= 2 + Left(j + 2)
            BY <3>6, <3>n
        <5> QED
            BY <3>n, <4>1, <4>4, <5>1
      <4>8. Out(j) + escapes[j] <= Left(j)
        <5> HIDE DEF Fits, S
        <5> QED
            BY <3>n, <4>4, <4>5, <4>6, <4>7, SMTT(30)
      <4> QED
          BY <3>7, <4>8
    <3>11. CASE /\ Takes(c, j, end) = 6 /\ j + 5 < end /\ c[j + 2] = Text!HighHalf
                /\ c[j + 3] = Text!Backslash /\ c[j + 5] = Text!LowHalf
                /\ Text!Width(Char(c, j, end)) = 4
      <4>0. /\ j + 2 \in 1 .. end - 1 /\ j + 3 \in 1 .. end - 1 /\ j + 4 \in 1 .. end - 1
            /\ j + 5 \in 1 .. end - 1 /\ j + 3 \in 1 .. end /\ j + 4 \in 1 .. end
            /\ j + 5 \in 1 .. end /\ j + 6 \in 1 .. end /\ j + 6 \in j + 1 .. end
            /\ (j + 2) + 1 = j + 3 /\ (j + 3) + 2 = j + 5 /\ (j + 5) + 1 = j + 6
            /\ (j + 3) + 1 = j + 4 /\ (j + 4) + 1 = j + 5
          BY <1>0, <2>3, <3>11
      <4>1. ends[j + 3] = end
          BY <1>4, <1>8, <3>1, <3>3, <3>11, <4>0
      <4>2. ends[j + 5] = end
          BY <1>4, <1>8, <3>11, <4>0, <4>1
      <4>3. ends[j + 6] = end
          BY <1>4, <1>8, <3>11, <4>0, <4>2
      <4>4. escapes[j] = 2 + escapes[j + 6]
        <5>1. escapes[j + 2] = escapes[j + 3]
            BY <1>3, <1>8, <3>11, <4>0
        <5>2. escapes[j + 3] = 1 + escapes[j + 5]
            BY <1>3, <3>11, <4>0
        <5>3. escapes[j + 5] = escapes[j + 6] /\ escapes[j + 6] \in Nat
            BY <1>1, <1>3, <1>8, <3>11, <4>0
        <5> QED
            BY <3>5, <5>1, <5>2, <5>3
      <4>5. Left(j) >= 12 + Left(j + 6) /\ Left(j + 6) \in Nat
        <5>1. Left(j + 2) = 4 + Left(j + 3)
            BY <1>2, <1>8, <3>11, <4>0
        <5>2. Left(j + 3) = 1 + Left(j + 4)
            BY <1>2, <1>8, <3>11, <4>0
        <5>3. Left(j + 4) = Text!Width(c[j + 4]) + Left(j + 5) /\ Text!Width(c[j + 4]) \in 1 .. 5
            BY <1>2, <1>7, <4>0
        <5>4. Left(j + 5) = 4 + Left(j + 6) /\ Left(j + 6) \in Nat
            BY <1>1, <1>2, <1>8, <3>11, <4>0
        <5>5. Left(j + 4) >= 5 + Left(j + 6) /\ Left(j + 4) \in Nat
            BY <5>3, <5>4
        <5>6. Left(j + 2) >= 10 + Left(j + 6) /\ Left(j + 2) \in Nat
            BY <5>1, <5>2, <5>4, <5>5
        <5>7. Left(j) >= 2 + Left(j + 2)
            BY <3>6, <3>n
        <5>8. Left(j) >= 12 + Left(j + 6)
          <6> HIDE DEF Fits, S
          <6> QED
              BY <3>n, <5>4, <5>6, <5>7
        <5> QED
            BY <5>4, <5>8
      <4>6. Out(j) = 4 + Out(j + 6) /\ Out(j + 6) \in Nat
        <5>1. Out(j) = 4 + Out(j + 6)
            BY <1>6, <2>3, <3>11
        <5>2. Out(j + 6) \in Nat
            BY <1>1, <4>0
        <5> QED
            BY <5>1, <5>2
      <4>7. Fits(j + 6) /\ escapes[j + 6] \in Nat
          BY <1>1, <2>0, <4>0, <4>3
      <4>8. Out(j + 6) + escapes[j + 6] <= Left(j + 6)
          BY <4>7
      <4>9. Out(j) + escapes[j] <= Left(j)
        <5>0. /\ escapes[j + 6] \in Nat /\ Out(j + 6) \in Nat
              /\ Out(j) = 4 + Out(j + 6) /\ escapes[j] = 2 + escapes[j + 6]
            BY <4>4, <4>6, <4>7
        <5> HIDE DEF Fits, S
        <5>1. Out(j) + escapes[j] = 6 + (Out(j + 6) + escapes[j + 6])
            BY <5>0
        <5>2. 6 + (Out(j + 6) + escapes[j + 6]) <= 12 + Left(j + 6)
            BY <4>5, <4>8, <5>0
        <5> QED
            BY <3>n, <4>5, <5>0, <5>1, <5>2, SMTT(30)
      <4> QED
          BY <3>7, <4>9
    <3> QED
        BY <1>0, <2>3, <3>8, <3>9, <3>10, <3>11, CharIs DEF Takes, Char
  <2> QED
      BY <2>1, <2>2, <2>3
<1> HIDE DEF S
<1>10. 1 .. end \subseteq S
    BY <1>0, <1>9, Descent
<1> QED
    BY <1>1, <1>10 DEF S, Out, Left

\* What parse_string converts, and the NUL behind it, fit into what it allocates, in
\* every text and wherever the string stands in it, however its escapes follow one
\* another and whether all of them can be converted or not: it counts a byte less for
\* every backslash it passes, and no escape makes more bytes of itself than that.
THEOREM StringsFit ==
    ASSUME NEW Symbol, NEW c \in Seq(Symbol), NEW i \in 1 .. Len(c),
           Text!StringEnd(c, i) # 0
    PROVE  LET end == Text!StringEnd(c, i)
           IN  Text!Bytes(Text!Unescaped(c, i, end).out) + 1 <= Text!Allocation(c, i, end)
<1> DEFINE end == Text!StringEnd(c, i)
<1>0. Len(c) \in Nat /\ i \in 0 .. Len(c) /\ i + 1 \in 1 .. Len(c) + 2
    BY LenProperties
<1> PICK ends : Closes(c, ends) /\ \A k \in 0 .. Len(c) : Text!StringEnd(c, k) = ends[k + 1]
    BY <1>0, StringEndIs
<1>1. end = ends[i + 1] /\ end # 0
    BY <1>0
<1> HIDE DEF end
<1>2. end \in i + 1 .. Len(c)
    BY <1>0, <1>1, EndAhead
<1>n. end \in Nat
    BY <1>0, <1>2
<1>3. /\ end \in 1 .. Len(c) /\ end \in 1 .. Len(c) + 1
      /\ i \in 0 .. end /\ i \in 1 .. end - 1 /\ i + 1 \in 1 .. end
    BY <1>0, <1>2
<1> PICK escapes :
        /\ Counts(c, end, escapes)
        /\ \A k \in 0 .. end :
              Text!Allocation(c, k, end) = Text!Bytes(SubSeq(c, k, end - 1)) - escapes[k + 1] + 1
    BY <1>n, AllocationIs
<1> PICK from :
        Converts(c, end, from) /\ \A k \in 0 .. end : Text!Unescaped(c, k, end) = from[k + 1]
    BY <1>n, UnescapedIs
<1>4. /\ Text!Allocation(c, i, end) = Behind(c, i, end) - escapes[i + 1] + 1
      /\ Text!Unescaped(c, i, end) = from[i + 1]
    BY <1>3 DEF Behind
<1>5. /\ escapes[i + 1] \in Nat /\ Text!Bytes(from[i + 1].out) \in Nat /\ Behind(c, i + 1, end) \in Nat
      /\ Text!Bytes(from[i + 1].out) + escapes[i + 1] <= Behind(c, i + 1, end)
    BY <1>1, <1>3, RestFits
<1>6. Behind(c, i, end) = Text!Width(c[i]) + Behind(c, i + 1, end)
    BY <1>3, BehindIs
<1>7. Text!Bytes(from[i + 1].out) + 1 <= Behind(c, i, end) - escapes[i + 1] + 1
    BY <1>5, <1>6, WidthIs
<1> QED
    BY <1>4, <1>7 DEF end

\* The same for the bytes that escaping adds.
Additions(text) == [i \in 1 .. Len(text) |-> Text!EscapeCharacters(text[i])]

\* Escaping adds five bytes at most.
LEMMA AddedIs ==
    ASSUME NEW x
    PROVE  /\ Text!EscapeCharacters(x) \in 0 .. 5
           /\ Text!EscapeCharacters(x) \in Int /\ Text!EscapeCharacters(x) \in Nat
BY DEF Text!EscapeCharacters

\* OutputLength is the sum of the bytes and of what escaping adds.
LEMMA OutputLengthIs ==
    ASSUME NEW Symbol, NEW text \in Seq(Symbol)
    PROVE  /\ Additions(text) \in Seq(Int)
           /\ Text!OutputLength(text) = Text!Bytes(text) + Total(Additions(text))
<1> DEFINE n == Len(text)
           w == Additions(text)
           Step(f) == f = [i \in 0 .. Len(text) |->
                              IF i = 0 THEN 0 ELSE f[i - 1] + Text!EscapeCharacters(text[i])]
           sum == CHOOSE f : Step(f)
<1>0. n \in Nat
    BY LenProperties
<1>1. w \in Seq(Int) /\ Len(w) = n /\ \A i \in 1 .. n : w[i] = Text!EscapeCharacters(text[i])
  <2>1. \A i \in 1 .. n : Text!EscapeCharacters(text[i]) \in Int
      BY AddedIs
  <2>2. w \in [1 .. n -> Int] /\ \A i \in 1 .. n : w[i] = Text!EscapeCharacters(text[i])
      BY <2>1 DEF Additions
  <2>3. w \in Seq(Int) /\ Len(w) = n
      BY <1>0, <2>2, SeqDef, LenProperties
  <2> QED
      BY <2>2, <2>3
<1> HIDE DEF w
<1>2. \E f : Step(f)
  <2> PICK f : Adds(w, f)
      BY <1>1, AddsExists
  <2>1. f \in [0 .. n -> Int] /\ f[0] = 0 /\ \A i \in 1 .. n : f[i] = f[i - 1] + w[i]
      BY <1>1 DEF Adds, AddsUpTo
  <2>2. \A i \in 0 .. n : f[i] = IF i = 0 THEN 0 ELSE f[i - 1] + Text!EscapeCharacters(text[i])
      BY <1>0, <1>1, <2>1
  <2>3. f = [i \in 0 .. n |-> f[i]]
      BY <2>1
  <2>4. [i \in 0 .. n |-> f[i]] =
            [i \in 0 .. Len(text) |->
                IF i = 0 THEN 0 ELSE f[i - 1] + Text!EscapeCharacters(text[i])]
      BY <2>2
  <2>5. Step(f)
      BY <2>3, <2>4
  <2> QED
      BY <2>5
<1>3. Step(sum)
    BY <1>2, Zenon
<1>4. Text!OutputLength(text) = Text!Bytes(text) + sum[Len(text)]
    BY Zenon DEF Text!OutputLength, Text!Sum
<1> HIDE DEF sum
<1>5. /\ DOMAIN sum = 0 .. n /\ sum[0] = 0
      /\ sum = [i \in 0 .. n |-> sum[i]]
      /\ \A i \in 1 .. n : sum[i] = sum[i - 1] + w[i]
  <2>1. sum = [i \in 0 .. n |-> IF i = 0 THEN 0 ELSE sum[i - 1] + Text!EscapeCharacters(text[i])]
      BY <1>3
  <2>2. DOMAIN sum = 0 .. n /\ sum = [i \in 0 .. n |-> sum[i]]
      BY <2>1
  <2>3. sum[0] = 0
      BY <1>0, <2>1
  <2>4. \A i \in 1 .. n : sum[i] = sum[i - 1] + Text!EscapeCharacters(text[i])
      BY <1>0, <2>1
  <2> QED
      BY <1>1, <2>2, <2>3, <2>4
<1> DEFINE S == {i \in Nat : i <= n => sum[i] \in Int}
<1>6. 0 \in S
    BY <1>5
<1>7. ASSUME NEW k \in Nat, k \in S PROVE k + 1 \in S
  <2> SUFFICES ASSUME k + 1 <= n PROVE sum[k + 1] \in Int
      OBVIOUS
  <2>1. k + 1 \in 1 .. n /\ (k + 1) - 1 = k /\ sum[k] \in Int
      BY <1>0, <1>7
  <2>2. sum[k + 1] = sum[k] + w[k + 1] /\ w[k + 1] \in Int
      BY <1>1, <1>5, <2>1, AddedIs
  <2> QED
      BY <2>1, <2>2
<1> HIDE DEF S
<1>8. Nat \subseteq S
    BY <1>6, <1>7, Induction
<1>9. \A i \in 0 .. n : sum[i] \in Int
    BY <1>0, <1>8 DEF S
<1>10. Adds(w, sum)
    BY <1>1, <1>5, <1>9 DEF Adds, AddsUpTo
<1>11. Total(w) = sum[n]
    BY <1>1, <1>10, TotalOf
<1> QED
    BY <1>1, <1>4, <1>11 DEF w

\* What a character becomes when it is printed, and that CharAt reads it again.
Marks == {Text!Quote, Text!Backslash, "u", "U0001"} \cup DOMAIN Text!Control

\* A character is printed as it is, as a backslash and one mark, or as a quad, and as many
\* bytes longer as print_string_ptr counts.
LEMMA EscapeIs ==
    ASSUME NEW x
    PROVE  \/ /\ x # Text!Quote /\ x # Text!Backslash
              /\ Text!Escape(x) = <<x>> /\ Text!EscapeCharacters(x) = 0
           \/ \E e \in Marks :
                 /\ Text!Escape(x) = <<Text!Backslash, e>> /\ Text!EscapeCharacters(x) = 1
                 /\ Text!Width(x) = 1 /\ Text!Width(e) = 1
                 /\ \/ e \in DOMAIN Text!Control /\ Text!Control[e] = x
                    \/ e \in {Text!Quote, Text!Backslash} /\ e = x
           \/ /\ x = "SOH" /\ Text!EscapeCharacters(x) = 5 /\ Text!Width(x) = 1
              /\ Text!Escape(x) = <<Text!Backslash, "u", "U0001">>
<1> DEFINE special == {Text!Quote, Text!Backslash}
<1>1. CASE x \in special
  <2>1. Text!Escape(x) = <<Text!Backslash, x>>
      BY <1>1 DEF Text!Escape, Text!Letter, Text!Quote, Text!Backslash
  <2>2. Text!EscapeCharacters(x) = 1 /\ Text!Width(x) = 1
      BY <1>1 DEF Text!EscapeCharacters, Text!Quote, Text!Backslash, Text!Width,
                  Text!Quad, Text!Coded, Text!HighHalf, Text!LowHalf
  <2>3. x \in Marks
      BY <1>1 DEF Marks
  <2> QED
      BY <1>1, <2>1, <2>2, <2>3
<1>2. CASE x \in DOMAIN Text!Letter
  <2> DEFINE e == Text!Letter[x]
  <2>1. Text!Escape(x) = <<Text!Backslash, e>>
      BY <1>2 DEF Text!Escape, Text!Letter, Text!Quote, Text!Backslash
  <2>2. e \in DOMAIN Text!Control /\ Text!Control[e] = x
      BY <1>2 DEF Text!Letter, Text!Control
  <2>3. Text!Width(e) = 1
      BY <1>2 DEF Text!Letter, Text!Width, Text!Quad, Text!Coded, Text!HighHalf, Text!LowHalf
  <2>4. Text!EscapeCharacters(x) = 1 /\ Text!Width(x) = 1
      BY <1>2 DEF Text!EscapeCharacters, Text!Letter, Text!Width, Text!Quad, Text!Coded,
                  Text!HighHalf, Text!LowHalf, Text!Quote, Text!Backslash
  <2>5. e \in Marks
      BY <2>2 DEF Marks
  <2> HIDE DEF e
  <2> QED
      BY <1>2, <2>1, <2>2, <2>3, <2>4, <2>5
<1>3. CASE x = "SOH"
  <2>1. Text!Escape(x) = <<Text!Backslash, "u", "U0001">>
      BY <1>3 DEF Text!Escape, Text!Letter, Text!Quote, Text!Backslash
  <2>2. Text!EscapeCharacters(x) = 5 /\ Text!Width(x) = 1
      BY <1>3 DEF Text!EscapeCharacters, Text!Width, Text!Quad, Text!Coded, Text!HighHalf,
                  Text!LowHalf, Text!Quote, Text!Backslash
  <2> QED
      BY <1>3, <2>1, <2>2
<1>4. CASE x \notin special \cup DOMAIN Text!Letter \cup {"SOH"}
  <2>1. Text!Escape(x) = <<x>>
      BY <1>4 DEF Text!Escape
  <2>2. Text!EscapeCharacters(x) = 0
      BY <1>4 DEF Text!EscapeCharacters, Text!Letter
  <2> QED
      BY <1>4, <2>1, <2>2
<1> QED
    BY <1>1, <1>2, <1>3, <1>4

\* A function whose value at i is given by its value at i - 1.
Grows(n, first, step, f) == f[0] = first /\ \A i \in 1 .. n : f[i] = step[<<i, f[i - 1]>>]

\* There is such a function, if no value leaves V.
LEMMA Forwards ==
    ASSUME NEW n \in Nat, NEW V, NEW first \in V,
           NEW step, \A i \in 1 .. n : \A v \in V : step[<<i, v>>] \in V
    PROVE  \E f \in [0 .. n -> V] : Grows(n, first, step, f)
<1> DEFINE Good(k, f) == /\ f \in [0 .. k -> V] /\ f[0] = first
                         /\ \A i \in 1 .. k : f[i] = step[<<i, f[i - 1]>>]
           S == {k \in Nat : k <= n => \E f : Good(k, f)}
<1>1. 0 \in S
  <2> DEFINE f == [i \in 0 .. 0 |-> first]
  <2>1. Good(0, f)
      OBVIOUS
  <2> QED
      BY <2>1
<1>2. ASSUME NEW k \in Nat, k \in S PROVE k + 1 \in S
  <2> SUFFICES ASSUME k + 1 <= n PROVE \E f : Good(k + 1, f)
      OBVIOUS
  <2>1. k <= n
      OBVIOUS
  <2> PICK f : Good(k, f)
      BY <1>2, <2>1
  <2> DEFINE v == step[<<k + 1, f[k]>>]
             g == [i \in 0 .. k + 1 |-> IF i = k + 1 THEN v ELSE f[i]]
  <2>2. f \in [0 .. k -> V] /\ f[0] = first /\ \A i \in 1 .. k : f[i] = step[<<i, f[i - 1]>>]
      OBVIOUS
  <2>3. v \in V
      BY <2>2
  <2>4. g[k + 1] = v /\ \A i \in 0 .. k : g[i] = f[i]
      OBVIOUS
  <2>5. g \in [0 .. k + 1 -> V]
    <3> HIDE DEF v
    <3> QED
        BY <2>2, <2>3
  <2> HIDE DEF g
  <2>6. ASSUME NEW i \in 1 .. k + 1 PROVE g[i] = step[<<i, g[i - 1]>>]
    <3>1. i - 1 \in 0 .. k /\ g[i - 1] = f[i - 1]
        BY <2>4
    <3>2. CASE i = k + 1
        BY <2>4, <3>1, <3>2
    <3>3. CASE i \in 1 .. k
        BY <2>2, <2>4, <3>1, <3>3
    <3> QED
        BY <3>2, <3>3
  <2>7. Good(k + 1, g)
      BY <2>2, <2>4, <2>5, <2>6
  <2> QED
      BY <2>7
<1> HIDE DEF S
<1>3. Nat \subseteq S
    BY <1>1, <1>2, Induction
<1> QED
    BY <1>3 DEF S, Grows

\* What is written before and after each character of a text.
Writes(text, Symbol, f) ==
    /\ f \in [0 .. Len(text) -> Seq(Symbol \cup Marks)]
    /\ f[0] = <<Text!Quote>>
    /\ \A i \in 1 .. Len(text) : f[i] = f[i - 1] \o Text!Escape(text[i])

\* An escape is made of the character and of marks.
LEMMA EscapeType ==
    ASSUME NEW Symbol, NEW x \in Symbol
    PROVE  Text!Escape(x) \in Seq(Symbol \cup Marks)
<1>1. {Text!Quote, Text!Backslash, "u", "U0001"} \subseteq Marks
    BY DEF Marks
<1> DEFINE Mark == Symbol \cup Marks
<1>2. /\ Text!Backslash \in Mark /\ "u" \in Mark /\ "U0001" \in Mark /\ x \in Mark
      /\ \A e \in Marks : e \in Mark
    BY <1>1
<1> HIDE DEF Mark
<1>3. /\ <<x>> \in Seq(Mark) /\ <<Text!Backslash, "u", "U0001">> \in Seq(Mark)
      /\ \A e \in Marks : <<Text!Backslash, e>> \in Seq(Mark)
    BY <1>2
<1>4. Text!Escape(x) \in Seq(Mark)
    BY <1>3, EscapeIs
<1> QED
    BY <1>4 DEF Mark

\* Quoted is the value of a function that writes one character after the other.
LEMMA QuotedIs ==
    ASSUME NEW Symbol, NEW text \in Seq(Symbol)
    PROVE  \E f : Writes(text, Symbol, f) /\ Text!Quoted(text) = Append(f[Len(text)], Text!Quote)
<1> DEFINE n == Len(text)
           V == Seq(Symbol \cup Marks)
           step == [p \in (1 .. n) \X V |-> p[2] \o Text!Escape(text[p[1]])]
           Step(f) == f = [i \in 0 .. Len(text) |->
                              IF i = 0 THEN <<Text!Quote>> ELSE f[i - 1] \o Text!Escape(text[i])]
           upto == CHOOSE f : Step(f)
<1>0. n \in Nat /\ \A i \in 1 .. n : text[i] \in Symbol
    BY LenProperties, ElementOfSeq
<1>1. <<Text!Quote>> \in V
    BY DEF Marks
<1>n. n \in Nat
    BY <1>0
<1>2. \A i \in 1 .. n : \A v \in V : v \o Text!Escape(text[i]) \in V
  <2> SUFFICES ASSUME NEW i \in 1 .. n, NEW v \in V PROVE v \o Text!Escape(text[i]) \in V
      OBVIOUS
  <2>1. Text!Escape(text[i]) \in V
      BY <1>0, EscapeType
  <2> QED
      BY <2>1, ConcatProperties
<1>3. \A i \in 1 .. n : \A v \in V : step[<<i, v>>] = v \o Text!Escape(text[i])
  <2> SUFFICES ASSUME NEW i \in 1 .. n, NEW v \in V
               PROVE  step[<<i, v>>] = v \o Text!Escape(text[i])
      OBVIOUS
  <2>1. <<i, v>> \in (1 .. n) \X V /\ <<i, v>>[1] = i /\ <<i, v>>[2] = v
    <3> HIDE DEF n, V
    <3> QED
        OBVIOUS
  <2> HIDE DEF V
  <2> QED
      BY <2>1
<1>4. \E f : Step(f)
  <2> PICK f \in [0 .. n -> V] : Grows(n, <<Text!Quote>>, step, f)
    <3>1. \A i \in 1 .. n : \A v \in V : step[<<i, v>>] \in V
        BY <1>2, <1>3
    <3> DEFINE first == <<Text!Quote>>
    <3>2. first \in V
        BY <1>1
    <3> HIDE DEF n, V, step, first
    <3>3. \E f \in [0 .. n -> V] : Grows(n, first, step, f)
        BY <1>n, <3>1, <3>2, Forwards
    <3> QED
        BY <3>3 DEF first
  <2> HIDE DEF V, step
  <2>1. \A i \in 1 .. n : f[i] = f[i - 1] \o Text!Escape(text[i])
    <3> SUFFICES ASSUME NEW i \in 1 .. n PROVE f[i] = f[i - 1] \o Text!Escape(text[i])
        OBVIOUS
    <3>1. i - 1 \in 0 .. n /\ f[i - 1] \in V
        BY <1>0
    <3> QED
        BY <1>3, <3>1 DEF Grows
  <2>2. \A i \in 0 .. n : f[i] = IF i = 0 THEN <<Text!Quote>> ELSE f[i - 1] \o Text!Escape(text[i])
    <3> SUFFICES ASSUME NEW i \in 0 .. n
                 PROVE  f[i] = IF i = 0 THEN <<Text!Quote>> ELSE f[i - 1] \o Text!Escape(text[i])
        OBVIOUS
    <3>1. CASE i = 0
        BY <3>1 DEF Grows
    <3>2. CASE i \in 1 .. n
        BY <2>1, <3>2
    <3> QED
        BY <1>0, <3>1, <3>2
  <2>3. f = [i \in 0 .. n |-> f[i]]
      OBVIOUS
  <2>4. [i \in 0 .. n |-> f[i]] =
            [i \in 0 .. Len(text) |->
                IF i = 0 THEN <<Text!Quote>> ELSE f[i - 1] \o Text!Escape(text[i])]
      BY <2>2
  <2>5. Step(f)
      BY <2>3, <2>4
  <2> QED
      BY <2>5
<1>5. Step(upto)
    BY <1>4, Zenon
<1>6. Text!Quoted(text) = Append(upto[Len(text)], Text!Quote)
    BY Zenon DEF Text!Quoted
<1> HIDE DEF upto
<1>7. /\ upto = [i \in 0 .. n |-> upto[i]]
      /\ upto[0] = <<Text!Quote>>
      /\ \A i \in 1 .. n : upto[i] = upto[i - 1] \o Text!Escape(text[i])
  <2>1. /\ upto = [i \in 0 .. n |-> upto[i]]
        /\ \A i \in 0 .. n : upto[i] = IF i = 0 THEN <<Text!Quote>>
                                       ELSE upto[i - 1] \o Text!Escape(text[i])
      BY <1>5
  <2> QED
      BY <1>0, <2>1
<1> HIDE DEF V, Step, n
<1> DEFINE S == {i \in Nat : i <= n => upto[i] \in V}
<1>8. 0 \in S
    BY <1>1, <1>7
<1>9. ASSUME NEW k \in Nat, k \in S PROVE k + 1 \in S
  <2> SUFFICES ASSUME k + 1 <= n PROVE upto[k + 1] \in V
      OBVIOUS
  <2>1. k + 1 \in 1 .. n /\ (k + 1) - 1 = k /\ upto[k] \in V
      BY <1>0, <1>9
  <2>2. upto[k + 1] = upto[k] \o Text!Escape(text[k + 1])
      BY <1>7, <2>1
  <2> QED
      BY <1>2, <2>1, <2>2
<1> HIDE DEF S
<1>10. Nat \subseteq S
    BY <1>8, <1>9, Induction
<1>11. upto \in [0 .. n -> V]
  <2>1. \A i \in 0 .. n : upto[i] \in V
      BY <1>0, <1>10 DEF S
  <2> QED
      BY <1>7, <2>1
<1> QED
    BY <1>6, <1>7, <1>11 DEF Writes, V, n

\* Two characters are one behind the other.
LEMMA PairIs ==
    ASSUME NEW a, NEW b
    PROVE  <<a, b>> = <<a>> \o <<b>>
<1> DEFINE Mark == {a, b}
           s == <<a>>
           t == <<b>>
           both == <<a, b>>
<1>1. /\ s \in Seq(Mark) /\ t \in Seq(Mark) /\ both \in Seq(Mark)
      /\ Len(s) = 1 /\ Len(t) = 1 /\ Len(both) = 2
      /\ s[1] = a /\ t[1] = b /\ both[1] = a /\ both[2] = b
    OBVIOUS
<1> HIDE DEF Mark, s, t, both
<1>2. s \o t \in Seq(Mark) /\ Len(s \o t) = 2 /\ (s \o t)[1] = a /\ (s \o t)[2] = b
    BY <1>1, ConcatProperties
<1>3. \A i \in 1 .. 2 : both[i] = (s \o t)[i]
    BY <1>1, <1>2
<1>4. both = s \o t
    BY <1>1, <1>2, <1>3, SeqEqual
<1> QED
    BY <1>4 DEF s, t, both

\* An escape has the bytes of its character and those that were counted for it.
LEMMA EscapeBytes ==
    ASSUME NEW x
    PROVE  Text!Bytes(Text!Escape(x)) = Text!Width(x) + Text!EscapeCharacters(x)
<1> DEFINE Mark == {x, Text!Backslash, "u", "U0001"} \cup Marks
           one(y) == <<y>>
<1>1. \A y \in Mark : one(y) \in Seq(Mark)
    OBVIOUS
<1>2. \A y \in Mark : Text!Bytes(one(y)) = Text!Width(y)
    BY BytesOne
<1>3. \A a, b \in Mark : <<a, b>> = one(a) \o one(b)
    BY PairIs
<1>4. \A a, b \in Mark : Text!Bytes(<<a, b>>) = Text!Width(a) + Text!Width(b) /\ <<a, b>> \in Seq(Mark)
  <2> SUFFICES ASSUME NEW a \in Mark, NEW b \in Mark
               PROVE  Text!Bytes(<<a, b>>) = Text!Width(a) + Text!Width(b) /\ <<a, b>> \in Seq(Mark)
      OBVIOUS
  <2>1. one(a) \in Seq(Mark) /\ one(b) \in Seq(Mark) /\ <<a, b>> = one(a) \o one(b)
      BY <1>1, <1>3
  <2>2. Text!Bytes(one(a)) = Text!Width(a) /\ Text!Bytes(one(b)) = Text!Width(b)
      BY <1>2
  <2> HIDE DEF Mark, one
  <2>3. Text!Bytes(one(a) \o one(b)) = Text!Width(a) + Text!Width(b)
      BY <2>1, <2>2, BytesConcat
  <2>4. one(a) \o one(b) \in Seq(Mark)
      BY <2>1, ConcatProperties
  <2> QED
      BY <2>1, <2>3, <2>4
<1>5. /\ x \in Mark /\ Text!Backslash \in Mark /\ "u" \in Mark /\ "U0001" \in Mark
      /\ \A e \in Marks : e \in Mark
    OBVIOUS
<1>6. Text!Width(Text!Backslash) = 1 /\ Text!Width("u") = 1 /\ Text!Width("U0001") = 4
    BY DEF Text!Width, Text!Backslash, Text!Quad, Text!Coded, Text!HighHalf, Text!LowHalf
<1>7. CASE Text!Escape(x) = <<x>> /\ Text!EscapeCharacters(x) = 0
  <2>1. Text!Bytes(<<x>>) = Text!Width(x)
      BY BytesOne
  <2> QED
      BY <1>7, <2>1, WidthIs
<1>8. ASSUME NEW e \in Marks, Text!Escape(x) = <<Text!Backslash, e>>,
             Text!EscapeCharacters(x) = 1, Text!Width(x) = 1, Text!Width(e) = 1
      PROVE  Text!Bytes(Text!Escape(x)) = Text!Width(x) + Text!EscapeCharacters(x)
    BY <1>4, <1>5, <1>6, <1>8
<1>9. CASE /\ Text!EscapeCharacters(x) = 5 /\ Text!Width(x) = 1
           /\ Text!Escape(x) = <<Text!Backslash, "u", "U0001">>
  <2> DEFINE a == <<Text!Backslash, "u">>
             b == one("U0001")
  <2>1. a \in Seq(Mark) /\ b \in Seq(Mark) /\ Text!Bytes(a) = 2 /\ Text!Bytes(b) = 4
      BY <1>1, <1>2, <1>4, <1>5, <1>6
  <2>2. <<Text!Backslash, "u", "U0001">> = a \o b
      OBVIOUS
  <2> HIDE DEF a, b, Mark
  <2>3. Text!Bytes(a \o b) = 6
      BY <2>1, BytesConcat
  <2>4. Text!Bytes(Text!Escape(x)) = 6
      BY <1>9, <2>2, <2>3
  <2> QED
      BY <1>9, <2>4
<1> QED
    BY <1>7, <1>8, <1>9, EscapeIs

\* print_string_ptr counts before it writes: what it writes, two quotes and a NUL, is
\* as long as what it asks ensure for, to the byte, for every text.
THEOREM QuotedFits ==
    ASSUME NEW Symbol, NEW text \in Seq(Symbol)
    PROVE  Text!Bytes(Text!Quoted(text)) + 1 = Text!OutputLength(text) + 3
<1> DEFINE n == Len(text)
           Mark == Symbol \cup Marks
<1>0. n \in Nat /\ \A i \in 1 .. n : text[i] \in Symbol
    BY LenProperties, ElementOfSeq
<1> PICK f : Writes(text, Symbol, f) /\ Text!Quoted(text) = Append(f[n], Text!Quote)
    BY QuotedIs
<1> PICK w : Adds(Widths(text), w) /\ Total(Widths(text)) = w[Len(Widths(text))]
    BY BytesIs, TotalIs
<1> PICK a : Adds(Additions(text), a) /\ Total(Additions(text)) = a[Len(Additions(text))]
    BY OutputLengthIs, TotalIs
<1>1. /\ Len(Widths(text)) = n /\ \A i \in 1 .. n : Widths(text)[i] = Text!Width(text[i])
      /\ Len(Additions(text)) = n
      /\ \A i \in 1 .. n : Additions(text)[i] = Text!EscapeCharacters(text[i])
    BY <1>0 DEF Widths, Additions
<1>2. w \in [0 .. n -> Int] /\ w[0] = 0 /\ \A i \in 1 .. n : w[i] = w[i - 1] + Text!Width(text[i])
    BY <1>1 DEF Adds, AddsUpTo
<1>3. /\ a \in [0 .. n -> Int] /\ a[0] = 0
      /\ \A i \in 1 .. n : a[i] = a[i - 1] + Text!EscapeCharacters(text[i])
    BY <1>1 DEF Adds, AddsUpTo
<1>4. /\ f \in [0 .. n -> Seq(Mark)] /\ f[0] = <<Text!Quote>>
      /\ \A i \in 1 .. n : f[i] = f[i - 1] \o Text!Escape(text[i])
    BY DEF Writes
<1>5. /\ Text!Width(Text!Quote) = 1 /\ Text!Quote \in Mark
      /\ Text!Bytes(<<Text!Quote>>) = 1
  <2>1. Text!Width(Text!Quote) = 1
      BY DEF Text!Width, Text!Quote, Text!Quad, Text!Coded, Text!HighHalf, Text!LowHalf
  <2> QED
      BY <2>1, BytesOne DEF Marks
<1> HIDE DEF n, Mark
<1> DEFINE S == {i \in Nat : i <= n => Text!Bytes(f[i]) = 1 + w[i] + a[i]}
<1>6. 0 \in S
    BY <1>2, <1>3, <1>4, <1>5
<1>7. ASSUME NEW k \in Nat, k \in S PROVE k + 1 \in S
  <2> SUFFICES ASSUME k + 1 <= n PROVE Text!Bytes(f[k + 1]) = 1 + w[k + 1] + a[k + 1]
      OBVIOUS
  <2> DEFINE x == text[k + 1]
  <2>1. k + 1 \in 1 .. n /\ (k + 1) - 1 = k /\ k \in 0 .. n /\ Text!Bytes(f[k]) = 1 + w[k] + a[k]
      BY <1>0, <1>7
  <2>2. f[k + 1] = f[k] \o Text!Escape(x) /\ f[k] \in Seq(Mark)
      BY <1>4, <2>1
  <2>3. Text!Escape(x) \in Seq(Mark)
      BY <1>0, <2>1, EscapeType DEF Mark
  <2>4. Text!Bytes(f[k + 1]) = Text!Bytes(f[k]) + Text!Bytes(Text!Escape(x))
      BY <2>2, <2>3, BytesConcat
  <2>5. Text!Bytes(Text!Escape(x)) = Text!Width(x) + Text!EscapeCharacters(x)
      BY EscapeBytes
  <2>6. w[k + 1] = w[k] + Text!Width(x) /\ a[k + 1] = a[k] + Text!EscapeCharacters(x)
      BY <1>2, <1>3, <2>1
  <2>7. /\ w[k] \in Int /\ a[k] \in Int /\ Text!Width(x) \in Int
        /\ Text!EscapeCharacters(x) \in Int
      BY <1>2, <1>3, <2>1, WidthIs, AddedIs
  <2> HIDE DEF x
  <2> QED
      BY <2>1, <2>4, <2>5, <2>6, <2>7
<1> HIDE DEF S
<1>8. Nat \subseteq S
    BY <1>6, <1>7, Induction
<1>9. Text!Bytes(f[n]) = 1 + w[n] + a[n] /\ w[n] \in Int /\ a[n] \in Int /\ f[n] \in Seq(Mark)
  <2>1. n \in S /\ n \in 0 .. n
      BY <1>0, <1>8
  <2> QED
      BY <1>2, <1>3, <1>4, <2>1 DEF S
<1>10. Text!OutputLength(text) = w[n] + a[n]
    BY <1>1, <1>9, BytesIs, OutputLengthIs
<1>11. Text!Bytes(Text!Quoted(text)) = Text!Bytes(f[n]) + 1
  <2>1. <<Text!Quote>> \in Seq(Mark)
      BY <1>5
  <2>2. Append(f[n], Text!Quote) = f[n] \o <<Text!Quote>>
      BY <1>5, <1>9, AppendIsConcat
  <2>3. Text!Bytes(f[n] \o <<Text!Quote>>) = Text!Bytes(f[n]) + Text!Bytes(<<Text!Quote>>)
      BY <1>9, <2>1, BytesConcat
  <2> QED
      BY <1>5, <2>2, <2>3 DEF n
<1> QED
    BY <1>9, <1>10, <1>11

\* Where the characters of a printed string stand in a text: the one that was the k-th
\* is printed from q[k - 1] on, and the closing quote is at the last place.
Stands(text, Symbol, c, first, q) ==
    /\ q \in [0 .. Len(text) -> Nat] /\ q[0] = first + 1
    /\ q[Len(text)] <= Len(c) /\ c[q[Len(text)]] = Text!Quote
    /\ \A k \in 1 .. Len(text) :
          LET escape == Text!Escape(text[k])
          IN  /\ q[k] = q[k - 1] + Len(escape) /\ q[k] <= q[Len(text)]
              /\ \A j \in 1 .. Len(escape) : c[q[k - 1] + j - 1] = escape[j]

\* A printed string stands where it was put: each character's escape behind the one
\* before, the closing quote behind the last.
LEMMA QuotedStands ==
    ASSUME NEW Symbol, NEW before \in Seq(Symbol), NEW text \in Seq(Symbol), NEW after \in Seq(Symbol)
    PROVE  LET c == before \o Text!Quoted(text) \o after
           IN  /\ Len(c) \in Nat /\ Len(before) \in Nat /\ Len(text) \in Nat
               /\ c[Len(before) + 1] = Text!Quote
               /\ \E q : /\ Stands(text, Symbol, c, Len(before) + 1, q)
                         /\ q[Len(text)] = Len(before) + Len(Text!Quoted(text))
<1> DEFINE n == Len(text)
           p == Len(before)
           Mark == Symbol \cup Marks
           quoted == Text!Quoted(text)
           c == before \o quoted \o after
<1>0. n \in Nat /\ p \in Nat /\ \A i \in 1 .. n : text[i] \in Symbol
    BY LenProperties, ElementOfSeq
<1> PICK f : Writes(text, Symbol, f) /\ quoted = Append(f[n], Text!Quote)
    BY QuotedIs
<1>1. /\ f \in [0 .. n -> Seq(Mark)] /\ f[0] = <<Text!Quote>>
      /\ \A i \in 1 .. n : f[i] = f[i - 1] \o Text!Escape(text[i])
    BY DEF Writes
<1> DEFINE l == [k \in 0 .. n |-> Len(f[k])]
           e(k) == Text!Escape(text[k])
<1>2. l \in [0 .. n -> Nat] /\ \A k \in 0 .. n : l[k] = Len(f[k])
    BY <1>1, LenProperties
<1>3. /\ before \in Seq(Mark) /\ after \in Seq(Mark)
      /\ Text!Quote \in Mark
  <2>1. Symbol \subseteq Mark
      OBVIOUS
  <2>2. Text!Quote \in Mark
      BY DEF Marks
  <2> HIDE DEF Mark
  <2> QED
      BY <2>1, <2>2, SeqMonotonic
<1>4. \A k \in 1 .. n :
          /\ e(k) \in Seq(Mark) /\ Len(e(k)) \in Nat /\ l[k] = l[k - 1] + Len(e(k))
          /\ \A j \in 1 .. l[k - 1] : f[k][j] = f[k - 1][j]
          /\ \A j \in 1 .. Len(e(k)) : f[k][l[k - 1] + j] = e(k)[j]
  <2> SUFFICES ASSUME NEW k \in 1 .. n
               PROVE  /\ e(k) \in Seq(Mark) /\ Len(e(k)) \in Nat /\ l[k] = l[k - 1] + Len(e(k))
                      /\ \A j \in 1 .. l[k - 1] : f[k][j] = f[k - 1][j]
                      /\ \A j \in 1 .. Len(e(k)) : f[k][l[k - 1] + j] = e(k)[j]
      OBVIOUS
  <2> DEFINE s == f[k - 1]
             t == e(k)
  <2>0. k - 1 \in 0 .. n /\ k \in 0 .. n
      BY <1>0
  <2>1. s \in Seq(Mark) /\ f[k] = s \o t
      BY <1>1, <2>0
  <2>2. t \in Seq(Mark)
      BY <1>0, EscapeType
  <2>3. l[k - 1] = Len(s) /\ l[k] = Len(f[k])
      BY <1>2, <2>0
  <2> HIDE DEF Mark, s, t, l
  <2>4. Len(s) \in Nat /\ Len(t) \in Nat
      BY <2>1, <2>2, LenProperties
  <2>5. /\ Len(f[k]) = Len(s) + Len(t)
        /\ \A j \in 1 .. Len(s) + Len(t) : f[k][j] = IF j <= Len(s) THEN s[j] ELSE t[j - Len(s)]
      BY <2>1, <2>2, ConcatProperties
  <2>6. \A j \in 1 .. Len(s) : f[k][j] = s[j]
      BY <2>4, <2>5
  <2>7. ASSUME NEW j \in 1 .. Len(t) PROVE f[k][Len(s) + j] = t[j]
    <3>1. Len(s) + j \in 1 .. Len(s) + Len(t) /\ ~(Len(s) + j <= Len(s)) /\ (Len(s) + j) - Len(s) = j
        BY <2>4
    <3> QED
        BY <2>5, <3>1
  <2> QED
      BY <2>2, <2>3, <2>4, <2>5, <2>6, <2>7 DEF s, t
<1>5. l[0] = 1
  <2>1. 0 \in 0 .. n
      BY <1>0
  <2>2. Len(<<Text!Quote>>) = 1
      OBVIOUS
  <2> HIDE DEF l, n
  <2> QED
      BY <1>1, <1>2, <2>1, <2>2
<1> HIDE DEF l, Mark, n, p, e
<1> DEFINE Prefix(k, m) == l[k] <= l[m] /\ \A j \in 1 .. l[k] : f[m][j] = f[k][j]
           S == {m \in Nat : m <= n => \A k \in 0 .. m : Prefix(k, m)}
<1>6. 0 \in S
    BY <1>0, <1>2
<1>7. ASSUME NEW m \in Nat, m \in S PROVE m + 1 \in S
  <2> SUFFICES ASSUME m + 1 <= n, NEW k \in 0 .. m + 1 PROVE Prefix(k, m + 1)
      OBVIOUS
  <2>1. m + 1 \in 1 .. n /\ m \in 0 .. n /\ m + 1 \in 0 .. n /\ (m + 1) - 1 = m /\ k \in 0 .. n
      BY <1>0
  <2>2. CASE k = m + 1
    <3>1. l[m + 1] \in Nat
        BY <1>2, <2>1
    <3> QED
        BY <2>2, <3>1
  <2>3. CASE k \in 0 .. m
    <3>1. Prefix(k, m)
      <4>1. m <= n
          BY <1>0, <2>1
      <4>2. \A i \in 0 .. m : Prefix(i, m)
        <5> HIDE DEF Prefix
        <5> QED
            BY <1>7, <4>1
      <4> QED
          BY <2>3, <4>2
    <3>2. l[m + 1] = l[m] + Len(e(m + 1)) /\ Len(e(m + 1)) \in Nat
          /\ \A j \in 1 .. l[m] : f[m + 1][j] = f[m][j]
        BY <1>4, <2>1
    <3>3. l[k] \in Nat /\ l[m] \in Nat /\ l[m + 1] \in Nat
        BY <1>2, <2>1
    <3> QED
        BY <3>1, <3>2, <3>3
  <2> QED
      BY <2>2, <2>3
<1> HIDE DEF S, Prefix
<1>8. Nat \subseteq S
    BY <1>6, <1>7, Induction
<1>9. \A k \in 0 .. n : Prefix(k, n)
    BY <1>0, <1>8 DEF S
<1>10. /\ quoted \in Seq(Mark) /\ Len(quoted) = l[n] + 1 /\ quoted[l[n] + 1] = Text!Quote
       /\ \A j \in 1 .. l[n] : quoted[j] = f[n][j]
  <2>1. n \in 0 .. n /\ f[n] \in Seq(Mark) /\ l[n] = Len(f[n])
      BY <1>0, <1>1, <1>2
  <2> QED
      BY <1>3, <2>1, AppendProperties
<1> HIDE DEF quoted
<1>11. /\ Len(c) \in Nat /\ p + l[n] + 1 <= Len(c)
       /\ \A j \in 1 .. l[n] + 1 : c[p + j] = quoted[j]
  <2>1. l[n] \in Nat /\ Len(after) \in Nat
      BY <1>0, <1>2, LenProperties
  <2> DEFINE d == before \o quoted
  <2>2. /\ d \in Seq(Mark) /\ Len(d) = p + Len(quoted)
        /\ \A j \in 1 .. p + Len(quoted) : d[j] = IF j <= p THEN before[j] ELSE quoted[j - p]
      BY <1>3, <1>10, ConcatProperties DEF p
  <2> HIDE DEF d
  <2>3. /\ Len(d \o after) = Len(d) + Len(after)
        /\ \A j \in 1 .. Len(d) + Len(after) : (d \o after)[j] = IF j <= Len(d) THEN d[j] ELSE after[j - Len(d)]
      BY <1>3, <2>2, ConcatProperties
  <2>4. c = d \o after
      BY DEF d
  <2> HIDE DEF c
  <2>5. ASSUME NEW j \in 1 .. l[n] + 1 PROVE c[p + j] = quoted[j]
    <3>1. /\ p + j \in 1 .. p + Len(quoted) /\ ~(p + j <= p) /\ (p + j) - p = j
          /\ p + j \in 1 .. Len(d) + Len(after) /\ p + j <= Len(d)
        BY <1>0, <1>10, <2>1, <2>2
    <3> QED
        BY <2>2, <2>3, <2>4, <3>1
  <2>6. Len(c) = p + (l[n] + 1) + Len(after)
      BY <1>10, <2>2, <2>3, <2>4
  <2>7. Len(c) \in Nat /\ p + l[n] + 1 <= Len(c)
    <3> DEFINE z == l[n]
               r == Len(after)
    <3>1. z \in Nat /\ r \in Nat /\ Len(c) = p + (z + 1) + r
        BY <2>1, <2>6
    <3> HIDE DEF z, r
    <3>2. Len(c) \in Nat /\ p + z + 1 <= Len(c)
        BY <1>0, <3>1
    <3> QED
        BY <3>2 DEF z
  <2> QED
      BY <2>5, <2>7
<1> HIDE DEF c
<1> DEFINE q == [k \in 0 .. n |-> p + l[k] + 1]
<1>12. q \in [0 .. n -> Nat] /\ \A k \in 0 .. n : q[k] = p + l[k] + 1
    BY <1>0, <1>2
<1> HIDE DEF q
<1>13. q[0] = (p + 1) + 1
    BY <1>0, <1>5, <1>12
<1>14. q[n] = p + Len(quoted) /\ q[n] <= Len(c) /\ c[q[n]] = Text!Quote
  <2>1. n \in 0 .. n /\ l[n] \in Nat /\ l[n] + 1 \in 1 .. l[n] + 1
      BY <1>0, <1>2
  <2>2. q[n] = p + (l[n] + 1)
      BY <1>0, <1>12, <2>1
  <2>3. q[n] = p + Len(quoted)
      BY <1>10, <2>2
  <2>4. q[n] <= Len(c)
      BY <1>0, <1>11, <2>1, <2>2
  <2>5. c[q[n]] = Text!Quote
      BY <1>10, <1>11, <2>1, <2>2
  <2> QED
      BY <2>3, <2>4, <2>5
<1>15. ASSUME NEW k \in 1 .. n
       PROVE  /\ q[k] = q[k - 1] + Len(e(k)) /\ q[k] <= q[n]
              /\ \A j \in 1 .. Len(e(k)) : c[q[k - 1] + j - 1] = e(k)[j]
  <2>1. k \in 0 .. n /\ k - 1 \in 0 .. n /\ n \in 0 .. n
      BY <1>0
  <2>2. q[k] = p + l[k] + 1 /\ q[k - 1] = p + l[k - 1] + 1 /\ q[n] = p + l[n] + 1
      BY <1>12, <2>1
  <2>3. l[k] \in Nat /\ l[k - 1] \in Nat /\ l[n] \in Nat /\ Len(e(k)) \in Nat
        /\ l[k] = l[k - 1] + Len(e(k)) /\ l[k] <= l[n]
      BY <1>2, <1>4, <1>9, <2>1 DEF Prefix
  <2> DEFINE a == l[k - 1]
             b == l[k]
             z == l[n]
             x == Len(e(k))
  <2>n. a \in Nat /\ b \in Nat /\ z \in Nat /\ x \in Nat /\ b = a + x /\ b <= z
      BY <2>3
  <2>q. q[k] = p + b + 1 /\ q[k - 1] = p + a + 1 /\ q[n] = p + z + 1
      BY <2>2
  <2> HIDE DEF a, b, z, x
  <2>4. ASSUME NEW j \in 1 .. x PROVE c[q[k - 1] + j - 1] = e(k)[j]
    <3>1. /\ q[k - 1] + j - 1 = p + (a + j) /\ a + j \in 1 .. b
          /\ a + j \in 1 .. z /\ a + j \in 1 .. z + 1
        BY <1>0, <2>n, <2>q
    <3>2. c[q[k - 1] + j - 1] = quoted[a + j]
        BY <1>11, <3>1 DEF z
    <3>3. quoted[a + j] = f[n][a + j]
        BY <1>10, <3>1 DEF z
    <3>4. f[n][a + j] = f[k][a + j]
        BY <1>9, <2>1, <3>1 DEF Prefix, b
    <3>5. f[k][a + j] = e(k)[j]
        BY <1>4 DEF a, x
    <3> QED
        BY <3>2, <3>3, <3>4, <3>5
  <2>5. q[k] = q[k - 1] + x /\ q[k] <= q[n]
      BY <1>0, <2>n, <2>q
  <2> QED
      BY <2>4, <2>5 DEF x
<1>16. c[p + 1] = Text!Quote
  <2>1. 1 \in 1 .. l[0] /\ 0 \in 0 .. n /\ l[n] \in Nat /\ f[0][1] = Text!Quote
      BY <1>0, <1>1, <1>2, <1>5
  <2>2. l[0] <= l[n] /\ f[n][1] = f[0][1]
      BY <1>9, <2>1 DEF Prefix
  <2>3. 1 \in 1 .. l[n] /\ 1 \in 1 .. l[n] + 1
      BY <1>5, <2>1, <2>2
  <2> QED
      BY <1>10, <1>11, <2>1, <2>2, <2>3
<1>17. Stands(text, Symbol, c, p + 1, q)
    BY <1>12, <1>13, <1>14, <1>15 DEF Stands, n, e
<1> QED
    BY <1>0, <1>11, <1>14, <1>16, <1>17 DEF c, n, p, quoted

\* CharAt reads what Escape wrote, and the walk to the closing quote passes it.
LEMMA EscapeIsRead ==
    ASSUME NEW c, Len(c) \in Nat, NEW end \in 1 .. Len(c), NEW ends, Closes(c, ends),
           NEW x, NEW b \in Nat \ {0}, b + Len(Text!Escape(x)) <= end,
           \A j \in 1 .. Len(Text!Escape(x)) : c[b + j - 1] = Text!Escape(x)[j]
    PROVE  /\ Len(Text!Escape(x)) \in 1 .. 3
           /\ Text!CharAt(c, b, end) = [char |-> x, takes |-> Len(Text!Escape(x))]
           /\ ends[b] = ends[b + Len(Text!Escape(x))]
<1> DEFINE e == Text!Escape(x)
<1>0. \A j \in 1 .. end : ends[j] = IF c[j] = Text!Quote THEN j
                                    ELSE IF c[j] = Text!Backslash THEN ends[j + 2]
                                    ELSE ends[j + 1]
    BY DEF Closes
<1>n. Text!Quote # Text!Backslash /\ "U0001" # Text!Quote /\ "U0001" # Text!Backslash
    BY DEF Text!Quote, Text!Backslash
<1>1. CASE x # Text!Quote /\ x # Text!Backslash /\ e = <<x>>
  <2>1. Len(e) = 1 /\ e[1] = x /\ 1 \in 1 .. Len(e)
      BY <1>1
  <2>2. c[b] = x /\ b \in 1 .. end
      BY <2>1
  <2>3. ends[b] = ends[b + 1]
      BY <1>0, <1>1, <2>2
  <2>4. Text!CharAt(c, b, end) = [char |-> x, takes |-> 1]
      BY <1>1, <2>2 DEF Text!CharAt
  <2> QED
      BY <2>1, <2>3, <2>4
<1>2. ASSUME NEW m \in Marks, e = <<Text!Backslash, m>>,
             \/ m \in DOMAIN Text!Control /\ Text!Control[m] = x
             \/ m \in {Text!Quote, Text!Backslash} /\ m = x
      PROVE  /\ Len(e) = 2 /\ Text!CharAt(c, b, end) = [char |-> x, takes |-> 2]
             /\ ends[b] = ends[b + 2]
  <2>1. Len(e) = 2 /\ e[1] = Text!Backslash /\ e[2] = m /\ 1 \in 1 .. Len(e) /\ 2 \in 1 .. Len(e)
      BY <1>2
  <2>2. c[b] = Text!Backslash /\ c[b + 1] = m /\ b \in 1 .. end
      BY <2>1
  <2>3. ends[b] = ends[b + 2]
      BY <1>0, <1>n, <2>2
  <2>4. CASE m \in DOMAIN Text!Control /\ Text!Control[m] = x
    <3>1. m # Text!Quote /\ m # Text!Backslash /\ m # "/" /\ m # "u"
        BY <2>4 DEF Text!Control, Text!Quote, Text!Backslash
    <3> QED
        BY <2>1, <2>2, <2>3, <2>4, <3>1 DEF Text!CharAt
  <2>5. CASE m \in {Text!Quote, Text!Backslash} /\ m = x
    <3>1. m \notin DOMAIN Text!Control /\ m # "u"
        BY <2>5 DEF Text!Control, Text!Quote, Text!Backslash
    <3> QED
        BY <2>1, <2>2, <2>3, <2>5, <3>1 DEF Text!CharAt
  <2> QED
      BY <1>2, <2>4, <2>5
<1>3. CASE x = "SOH" /\ e = <<Text!Backslash, "u", "U0001">>
  <2>1. /\ Len(e) = 3 /\ e[1] = Text!Backslash /\ e[2] = "u" /\ e[3] = "U0001"
        /\ 1 \in 1 .. Len(e) /\ 2 \in 1 .. Len(e) /\ 3 \in 1 .. Len(e)
      BY <1>3
  <2>2. /\ c[b] = Text!Backslash /\ c[b + 1] = "u" /\ c[b + 2] = "U0001"
        /\ b \in 1 .. end /\ b + 2 \in 1 .. end /\ (b + 2) + 1 = b + 3 /\ b + 2 < end
      BY <2>1
  <2>3. ends[b] = ends[b + 3]
      BY <1>0, <1>n, <2>2
  <2>4. Text!CharAt(c, b, end) = Text!utf16_literal_to_utf8(c, b, end)
      BY <2>2 DEF Text!CharAt, Text!Control, Text!Quote, Text!Backslash
  <2>5. c[b + 2] \in DOMAIN Text!Coded /\ Text!Coded[c[b + 2]] = x /\ c[b + 2] # Text!HighHalf
      BY <1>3, <2>2 DEF Text!Coded, Text!HighHalf
  <2>6. Text!utf16_literal_to_utf8(c, b, end) = [char |-> x, takes |-> 3]
      BY <2>2, <2>5 DEF Text!utf16_literal_to_utf8
  <2> QED
      BY <2>1, <2>3, <2>4, <2>6
<1>4. \/ x # Text!Quote /\ x # Text!Backslash /\ e = <<x>>
      \/ \E m \in Marks : /\ e = <<Text!Backslash, m>>
                          /\ \/ m \in DOMAIN Text!Control /\ Text!Control[m] = x
                             \/ m \in {Text!Quote, Text!Backslash} /\ m = x
      \/ x = "SOH" /\ e = <<Text!Backslash, "u", "U0001">>
    BY EscapeIs
<1>5. ASSUME NEW m \in Marks, e = <<Text!Backslash, m>>,
             \/ m \in DOMAIN Text!Control /\ Text!Control[m] = x
             \/ m \in {Text!Quote, Text!Backslash} /\ m = x
      PROVE  /\ Len(e) \in 1 .. 3 /\ Text!CharAt(c, b, end) = [char |-> x, takes |-> Len(e)]
             /\ ends[b] = ends[b + Len(e)]
  <2>1. /\ Len(e) = 2 /\ Text!CharAt(c, b, end) = [char |-> x, takes |-> 2]
        /\ ends[b] = ends[b + 2]
      BY <1>2, <1>5
  <2> HIDE DEF e
  <2> QED
      BY <2>1
<1> DEFINE Read == /\ Len(e) \in 1 .. 3 /\ Text!CharAt(c, b, end) = [char |-> x, takes |-> Len(e)]
                   /\ ends[b] = ends[b + Len(e)]
<1>6. /\ (x # Text!Quote /\ x # Text!Backslash /\ e = <<x>>) => Read
      /\ (x = "SOH" /\ e = <<Text!Backslash, "u", "U0001">>) => Read
    BY <1>1, <1>3
<1>7. ASSUME NEW m \in Marks, e = <<Text!Backslash, m>>,
             \/ m \in DOMAIN Text!Control /\ Text!Control[m] = x
             \/ m \in {Text!Quote, Text!Backslash} /\ m = x
      PROVE  Read
    BY <1>5, <1>7
<1> HIDE DEF e, Read
<1>8. Read
    BY <1>4, <1>6, <1>7
<1> QED
    BY <1>8 DEF e, Read

\* Where a printed string stands, the walk from the first character ends at its closing
\* quote, and the conversion gives the string: from the last character to the first.
LEMMA ReadBack ==
    ASSUME NEW Symbol, NEW text \in Seq(Symbol), NEW c, Len(c) \in Nat, NEW first \in Nat,
           NEW q, Stands(text, Symbol, c, first, q),
           NEW ends, Closes(c, ends), NEW from, Converts(c, q[Len(text)], from)
    PROVE  /\ q[Len(text)] \in first + 1 .. Len(c)
           /\ ends[first + 1] = q[Len(text)]
           /\ from[first + 1] = [out |-> text, at |-> q[Len(text)]]
<1> DEFINE n == Len(text)
           end == q[n]
<1>0. n \in Nat /\ \A i \in 1 .. n : text[i] \in Symbol
    BY LenProperties, ElementOfSeq
<1>1. /\ q \in [0 .. n -> Nat] /\ q[0] = first + 1 /\ end <= Len(c) /\ c[end] = Text!Quote
      /\ \A k \in 1 .. n : /\ q[k] = q[k - 1] + Len(Text!Escape(text[k])) /\ q[k] <= end
                           /\ \A j \in 1 .. Len(Text!Escape(text[k])) :
                                 c[q[k - 1] + j - 1] = Text!Escape(text[k])[j]
    BY DEF Stands
<1>2. \A k \in 0 .. n : q[k] \in Nat \ {0}
  <2> SUFFICES ASSUME NEW k \in 0 .. n PROVE q[k] # 0
      BY <1>1
  <2>1. CASE k = 0
      BY <1>1, <2>1
  <2>2. CASE k \in 1 .. n
    <3>1. Text!Escape(text[k]) \in Seq(Symbol \cup Marks)
        BY <1>0, <2>2, EscapeType
    <3>2. Len(Text!Escape(text[k])) \in Nat \ {0}
      <4>1. Text!Escape(text[k]) # <<>>
        <5>1. \A y : <<y>> # <<>> /\ <<Text!Backslash, y>> # <<>>
              /\ <<Text!Backslash, "u", "U0001">> # <<>>
            OBVIOUS
        <5> QED
            BY <5>1, EscapeIs
      <4> QED
          BY <3>1, <4>1, EmptySeq
    <3>3. k - 1 \in 0 .. n
        BY <1>0, <2>2
    <3>4. q[k - 1] \in Nat
        BY <1>1, <3>3
    <3>5. q[k] = q[k - 1] + Len(Text!Escape(text[k]))
        BY <1>1, <2>2
    <3> QED
        BY <3>2, <3>4, <3>5
  <2> QED
      BY <1>0, <2>1, <2>2
<1>3. end \in 1 .. Len(c) /\ end \in Nat
  <2>1. n \in 0 .. n
      BY <1>0
  <2> QED
      BY <1>1, <1>2, <2>1
<1>4. first + 1 <= end
  <2>1. CASE n = 0
      BY <1>1, <1>3, <2>1
  <2>2. CASE 1 \in 1 .. n
    <3>1. q[1] = q[0] + Len(Text!Escape(text[1])) /\ q[1] <= end /\ 1 \in 0 .. n
        BY <1>0, <1>1, <2>2
    <3>2. Len(Text!Escape(text[1])) \in Nat
        BY <1>0, <2>2, EscapeType, LenProperties
    <3> QED
        BY <1>1, <1>3, <3>1, <3>2
  <2> QED
      BY <1>0, <2>1, <2>2
<1>5. \A j \in 1 .. end :
          from[j] = IF j >= end \/ Takes(c, j, end) = 0 THEN [out |-> <<>>, at |-> j]
                    ELSE [out |-> <<Char(c, j, end)>> \o from[j + Takes(c, j, end)].out,
                          at  |-> from[j + Takes(c, j, end)].at]
  <2>1. Converts(c, end, from)
      OBVIOUS
  <2>2. \A j \in 1 .. end : j \in 1 .. end + 1
      BY <1>3
  <2> HIDE DEF end
  <2> QED
      BY <2>1, <2>2 DEF Converts
<1> HIDE DEF n, end
<1> DEFINE Right(k) == ends[q[k]] = end /\ from[q[k]] = [out |-> SubSeq(text, k + 1, n), at |-> end]
           S == {d \in Nat : d <= n => Right(n - d)}
<1>6. 0 \in S
  <2>1. n - 0 = n /\ q[n] = end /\ end \in 1 .. Len(c) + 2
      BY <1>0, <1>3 DEF end
  <2>2. ends[end] = end
      BY <1>1, <1>3, <2>1 DEF Closes
  <2>3. from[end] = [out |-> <<>>, at |-> end]
    <3>1. end >= end /\ end \in 1 .. end
        BY <1>3
    <3> QED
        BY <1>5, <3>1
  <2>4. SubSeq(text, n + 1, n) = <<>>
      BY <1>0, SubSeqEmpty
  <2> QED
      BY <2>1, <2>2, <2>3, <2>4
<1>7. ASSUME NEW d \in Nat, d \in S PROVE d + 1 \in S
  <2> SUFFICES ASSUME d + 1 <= n PROVE Right(n - (d + 1))
      OBVIOUS
  <2> DEFINE k == n - d
             x == text[k]
             b == q[k - 1]
             t == Len(Text!Escape(x))
  <2>1. k \in 1 .. n /\ n - (d + 1) = k - 1 /\ k - 1 \in 0 .. n /\ d <= n /\ (k - 1) + 1 = k
      BY <1>0
  <2>2. Right(k)
      BY <1>7, <2>1
  <2>3. /\ b \in Nat \ {0} /\ q[k] = b + t /\ b + t <= end
        /\ \A j \in 1 .. t : c[b + j - 1] = Text!Escape(x)[j]
      BY <1>1, <1>2, <2>1
  <2> HIDE DEF k, b
  <2>4. t \in 1 .. 3 /\ Text!CharAt(c, b, end) = [char |-> x, takes |-> t] /\ ends[b] = ends[b + t]
      BY <1>3, <2>3, EscapeIsRead
  <2>5. ends[b] = end
      BY <2>2, <2>3, <2>4
  <2>6. Takes(c, b, end) = t /\ Char(c, b, end) = x
      BY <2>4 DEF Takes, Char
  <2>7. b \in 1 .. end /\ ~(b >= end) /\ t # 0
    <3> HIDE DEF t
    <3>1. t \in 1 .. 3 /\ b \in Nat \ {0} /\ b + t <= end
        BY <2>3, <2>4
    <3> QED
        BY <1>3, <3>1
  <2>8. from[b] = [out |-> <<x>> \o from[b + t].out, at |-> from[b + t].at]
      BY <1>5, <2>6, <2>7
  <2>9. from[b + t].out = SubSeq(text, k + 1, n) /\ from[b + t].at = end
      BY <2>2, <2>3
  <2>10. SubSeq(text, k, n) = <<x>> \o SubSeq(text, k + 1, n)
    <3>1. k \in 1 .. Len(text) /\ n \in k .. Len(text)
        BY <1>0, <2>1 DEF n
    <3> QED
        BY <3>1, SubSeqRecursiveFirst
  <2>11. from[b] = [out |-> SubSeq(text, k, n), at |-> end]
      BY <2>8, <2>9, <2>10
  <2> QED
      BY <2>1, <2>5, <2>11 DEF b
<1> HIDE DEF S
<1>8. Nat \subseteq S
    BY <1>6, <1>7, Induction
<1>9. Right(0)
  <2>1. n \in S /\ n - n = 0 /\ n <= n
      BY <1>0, <1>8
  <2>2. Right(n - n)
    <3> HIDE DEF Right
    <3> QED
        BY <2>1 DEF S
  <2> QED
      BY <2>1, <2>2
<1>10. SubSeq(text, 0 + 1, n) = text
    BY SubSeqFull DEF n
<1> QED
    BY <1>1, <1>3, <1>4, <1>9, <1>10 DEF end, n

\* parse_string reads what print_string_ptr wrote: in whatever text the printed string
\* stands, it finds the closing quote that was written and nothing that was escaped
\* in front of it, and what it converts is what was printed, character for character.
THEOREM StringsAreReadBack ==
    ASSUME NEW Symbol, NEW before \in Seq(Symbol), NEW text \in Seq(Symbol), NEW after \in Seq(Symbol)
    PROVE  LET c   == before \o Text!Quoted(text) \o after
               i   == Len(before) + 1
               end == Len(before) + Len(Text!Quoted(text))
           IN  /\ c[i] = Text!Quote
               /\ Text!StringEnd(c, i) = end
               /\ Text!Unescaped(c, i, end) = [out |-> text, at |-> end]
<1> DEFINE c   == before \o Text!Quoted(text) \o after
           i   == Len(before) + 1
           end == Len(before) + Len(Text!Quoted(text))
<1>0. /\ Len(c) \in Nat /\ Len(before) \in Nat /\ Len(text) \in Nat
      /\ c[i] = Text!Quote
      /\ \E q : Stands(text, Symbol, c, i, q) /\ q[Len(text)] = end
    BY QuotedStands, Zenon
<1>1. Len(c) \in Nat /\ i \in Nat /\ Len(text) \in Nat /\ c[i] = Text!Quote
  <2> HIDE DEF c
  <2> QED
      BY <1>0
<1> PICK q : Stands(text, Symbol, c, i, q) /\ q[Len(text)] = end
    BY <1>0
<1> HIDE DEF c, i, end
<1>2. end \in Nat
  <2>1. q \in [0 .. Len(text) -> Nat] /\ Len(text) \in 0 .. Len(text)
      BY <1>1 DEF Stands
  <2> QED
      BY <2>1
<1> PICK ends : Closes(c, ends) /\ \A k \in 0 .. Len(c) : Text!StringEnd(c, k) = ends[k + 1]
    BY <1>1, StringEndIs
<1> PICK from : Converts(c, end, from) /\ \A k \in 0 .. end : Text!Unescaped(c, k, end) = from[k + 1]
    BY <1>2, UnescapedIs
<1>3. end \in i + 1 .. Len(c) /\ ends[i + 1] = end /\ from[i + 1] = [out |-> text, at |-> end]
  <2>1. Converts(c, q[Len(text)], from)
      OBVIOUS
  <2> QED
      BY <1>1, <2>1, ReadBack
<1>4. i \in 0 .. Len(c) /\ i \in 0 .. end
    BY <1>1, <1>3
<1>5. c[i] = Text!Quote /\ Text!StringEnd(c, i) = end
      /\ Text!Unescaped(c, i, end) = [out |-> text, at |-> end]
    BY <1>1, <1>3, <1>4
<1> QED
    BY <1>5 DEF c, i, end
===============================================================================
