--------------------------------- MODULE Ping ---------------------------------
(***************************************************************************)
(* The ping command (net_app/ping.c, icmp_send and the echo reply part of  *)
(* icmp_process in net_app/icmp.c): the command thread sends a request,    *)
(* stamps its sequence number, sleeps for a second and judges; the process *)
(* thread judges every reply; icmp_timestamp is shared without a lock.     *)
(* The request finds its MAC, or not, in the shared ARP bucket.            *)
(*                                                                         *)
(* A stamp is TRUE or FALSE: it is the time, which is not 0, and a reply   *)
(* is late after icmp_timeout, which is 1000 but compared with seconds,    *)
(* while a stamp is cleared a second after it was set.  Whether a reply    *)
(* comes within the second is left open.  A host may answer a request any  *)
(* number of times, and late, but not later than SeqMod - 1 pings, nor     *)
(* does the process thread take that long to print.                        *)
(***************************************************************************)
EXTENDS ArpShared, Sequences

CONSTANTS
    SeqMod,         \* 2^16, the numbers of icmp_seq
    Times,          \* 4
    MaxPings        \* bound of the model: requests sent

ASSUME PingAssumption == SeqMod \in Nat \ {0, 1} /\ Times \in Nat \ {0} /\ MaxPings \in Nat

Seqs    == 0 .. SeqMod - 1
PingId  == 1 .. MaxPings
Verdict == {"reply", "timeout"}

VARIABLES
    cmd,        \* the command thread in send_ping: [at, target, left]
    pings,      \* how many requests were begun; the last has icmp_seq's number
    icmp_timestamp,
    judging,    \* the process thread in icmp_process: [at, seq]
    arrived,    \* the requests that have come to their host
    verdict     \* what was printed for each

pingVars == <<cmd, pings, icmp_timestamp, judging, arrived, verdict>>
vars == <<arpVars, pingVars>>

SeqOf(n) == n % SeqMod
icmp_seq == SeqOf(pings)
ToCmd(place) == cmd' = [cmd EXCEPT !.at = place]
Announce(n, what) == verdict' = [verdict EXCEPT ![n] = Append(@, what)]

-------------------------------------------------------------------------------
\* The command thread.

send_ping(a) ==
    /\ cmd.at = "idle"
    /\ pings + Times <= MaxPings
    /\ cmd' = [at |-> "begin", target |-> a, left |-> Times]
    /\ UNCHANGED <<arpVars, pings, icmp_timestamp, judging, arrived, verdict>>

\* The request is built and ip_send begins.  (No reply of the number's last use is
\* still being printed.)
icmp_send ==
    /\ cmd.at = "begin"
    /\ ~(judging.at = "clear" /\ judging.seq = SeqOf(pings + 1))
    /\ pings' = pings + 1
    /\ get_mac_by_ip(cmd.target)
    /\ ToCmd("ip_send")
    /\ UNCHANGED <<icmp_timestamp, judging, arrived, verdict>>

\* It sends the request, or an ARP request instead.
ip_send ==
    /\ cmd.at = "ip_send"
    /\ Walk
    /\ IF reader'.at = "idle"
       THEN /\ ToCmd("stamp")
            /\ arrived' = IF sent'.mac = [i \in {1, 2} |-> [of |-> cmd.target,
                                                           number |-> number[cmd.target]]]
                          THEN arrived \cup {pings} ELSE arrived
       ELSE UNCHANGED <<cmd, arrived>>
    /\ UNCHANGED <<pings, icmp_timestamp, judging, verdict>>

\* The number is stamped when the request is on its way.
stamp ==
    /\ cmd.at = "stamp"
    /\ icmp_timestamp' = [icmp_timestamp EXCEPT ![icmp_seq] = TRUE]
    /\ ToCmd("sleep")
    /\ UNCHANGED <<arpVars, pings, judging, arrived, verdict>>

\* What follows a ping: icmp_seq is advanced; after the last one the prompt.
NextPing == cmd' = [cmd EXCEPT !.at = IF cmd.left = 1 THEN "idle" ELSE "begin", !.left = @ - 1]

\* The second is over.
wake ==
    /\ cmd.at = "sleep"
    /\ IF icmp_timestamp[icmp_seq] THEN Announce(pings, "timeout") /\ ToCmd("clear")
                                   ELSE NextPing /\ UNCHANGED verdict
    /\ UNCHANGED <<arpVars, pings, icmp_timestamp, judging, arrived>>

give_up ==
    /\ cmd.at = "clear"
    /\ icmp_timestamp' = [icmp_timestamp EXCEPT ![icmp_seq] = FALSE]
    /\ NextPing
    /\ UNCHANGED <<arpVars, pings, judging, arrived, verdict>>

-------------------------------------------------------------------------------
\* The process thread takes a reply, unless it is in arp_insert.

Free == judging.at = "idle" /\ writer.at = "idle"

\* Mutant of icmp_process: whatever comes is printed.
PrintAny(n) ==
    /\ Free
    /\ n \in arrived /\ n + SeqMod > pings
    /\ Announce(n, "reply")
    /\ judging' = [at |-> "clear", seq |-> SeqOf(n)]
    /\ UNCHANGED <<arpVars, cmd, pings, icmp_timestamp, arrived>>

\* A reply whose number is stamped is printed, any other one is ignored.
icmp_process(n) ==
    /\ Free
    /\ n \in arrived /\ n + SeqMod > pings
    /\ icmp_timestamp[SeqOf(n)]
    /\ Announce(n, "reply")
    /\ judging' = [at |-> "clear", seq |-> SeqOf(n)]
    /\ UNCHANGED <<arpVars, cmd, pings, icmp_timestamp, arrived>>

\* Mutant of release_seq: it stays stamped, for a duplicate.
KeepSeq ==
    /\ judging.at = "clear"
    /\ judging' = [judging EXCEPT !.at = "idle"]
    /\ UNCHANGED <<arpVars, cmd, pings, icmp_timestamp, arrived, verdict>>

release_seq ==
    /\ judging.at = "clear"
    /\ icmp_timestamp' = [icmp_timestamp EXCEPT ![judging.seq] = FALSE]
    /\ judging' = [judging EXCEPT !.at = "idle"]
    /\ UNCHANGED <<arpVars, cmd, pings, arrived, verdict>>

-------------------------------------------------------------------------------
Init == /\ ArpInit
        /\ cmd = [at |-> "idle", target |-> NoAddr, left |-> 0]
        /\ pings = 0
        /\ icmp_timestamp = [s \in Seqs |-> FALSE]
        /\ judging = [at |-> "idle", seq |-> 0]
        /\ arrived = {}
        /\ verdict = [n \in PingId |-> <<>>]

CmdStep  == icmp_send \/ ip_send \/ stamp \/ wake \/ give_up
ProcStep == release_seq \/ (Insertion /\ UNCHANGED pingVars)
Packet   == \/ \E n \in PingId : icmp_process(n)
            \/ judging.at = "idle" /\ UNCHANGED pingVars /\ \E a \in Addr : arp_insert(a)
Outside  == \/ \E a \in Addr : send_ping(a)
            \/ UNCHANGED pingVars /\ \E a \in Addr : move(a)

Next == CmdStep \/ ProcStep \/ Packet \/ Outside

Spec == Init /\ [][Next]_vars

-------------------------------------------------------------------------------
TypeOK ==
    /\ ArpTypeOK
    /\ cmd \in [at : {"idle", "begin", "ip_send", "stamp", "sleep", "clear"},
                target : Ip, left : 0 .. Times]
    /\ pings \in 0 .. MaxPings
    /\ icmp_timestamp \in [Seqs -> BOOLEAN]
    /\ judging \in [at : {"idle", "clear"}, seq : Seqs]
    /\ arrived \subseteq PingId
    /\ verdict \in [PingId -> Seq(Verdict)]

\* A late reply is never taken for the answer to the ping that is waiting: a reply
\* is printed only for the ping of its own number, and only once, however often
\* the network delivers it.
OwnReply ==
    [][\A n \in PingId : verdict'[n] = Append(verdict[n], "reply")
            => n = pings /\ verdict[n] \in {<<>>, <<"timeout">>}]_vars

\* Reply and timeout are both printed for one ping only if the reply was handled
\* while the sleep ended: one of the two threads was between its print and the
\* clearing of the stamp.
BothOnlyInTheWindow ==
    [][\A n \in PingId : verdict[n] # <<>> /\ verdict'[n] # verdict[n]
            => \/ judging.at = "clear" /\ judging.seq = SeqOf(n)
               \/ cmd.at = "clear" /\ n = pings]_vars
===============================================================================
