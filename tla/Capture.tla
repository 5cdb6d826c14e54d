-------------------------------- MODULE Capture --------------------------------
(***************************************************************************)
(* How the capture device is found and opened (lib/xnet/pcap_device.c),    *)
(* built for Windows.  Npcap is external: whether it is installed, what it *)
(* gives for its version, its list of the cards, and which of its calls    *)
(* fail.  An address of a card is a number for an IPv4 address, or         *)
(* OtherFamily; a version is a sequence of digits and of other characters. *)
(***************************************************************************)
EXTENDS Integers, SequencesExt

CONSTANTS
    NPCAP_VERSION_M, NPCAP_VERSION_N,   \* the version asked for
    OtherFamily,                        \* an address that is not of AF_INET
    NotAnAddress                        \* a text that inet_pton does not take

ASSUME VersionAssumption == NPCAP_VERSION_M \in Nat /\ NPCAP_VERSION_N \in Nat

Digit == 0 .. 9

\* The number that the digits at the front of a text are.
Value(text) ==
    LET value[i \in 0 .. Len(text)] == IF i = 0 THEN 0 ELSE 10 * value[i - 1] + text[i]
    IN  value[Len(text)]

\* The first number of a text and what follows the character behind it, or nothing,
\* where read_num returns NULL and leaves the number unset.
read_num(text) ==
    LET IsDigit(i) == text[i] \in Digit
        runs == {r \in (DOMAIN text) \X (DOMAIN text) :
                   /\ r[1] <= r[2]
                   /\ \A i \in 1 .. r[1] - 1 : ~IsDigit(i)
                   /\ \A i \in r[1] .. r[2] : IsDigit(i)
                   /\ r[2] < Len(text) => ~IsDigit(r[2] + 1)}
    IN  {[num |-> Value(SubSeq(text, r[1], r[2])), rest |-> SubSeq(text, r[2] + 2, Len(text))] :
            r \in runs}

TooOld(m, n) == m < NPCAP_VERSION_M \/ (m = NPCAP_VERSION_M /\ n < NPCAP_VERSION_N)

\* Where the text has no second number n_version has any value; where it has none at
\* all, the second call of read_num reads through NULL.  A file npcap.dll in the
\* directory is taken for an error.
load_pcap_lib(library) ==
    LET verdicts(major, minors) == {IF TooOld(major, n) THEN "old" ELSE "ok" : n \in minors}
        numbers == {m.num : m \in read_num(library.version)}
        others  == UNION {read_num(m.rest) : m \in read_num(library.version)}
    IN  IF ~library.directory \/ library.npcap_dll THEN {"error"}
        ELSE IF numbers = {} THEN {"crash"}
        ELSE UNION {verdicts(number, IF others = {} THEN {0, NPCAP_VERSION_N} ELSE {n.num : n \in others}) :
                      number \in numbers}

-------------------------------------------------------------------------------
\* The cards, each with its addresses.  A list that cannot be had is an empty one.

None == 0
Addresses(card) == ToSet(card)

\* Mutant of Has: only the first address of a card is looked at.
HasFirst(card, dest) == card # <<>> /\ card[1] = dest

Has(card, dest) == dest \in Addresses(card)

\* The first card with the address; dest_ip is any where inet_pton could not set it.
pcap_find_device(cards, ip) ==
    LET having(dest) == {c \in DOMAIN cards : Has(cards[c], dest)}
        least(found) == IF found = {} THEN None ELSE CHOOSE c \in found : \A d \in found : c <= d
        others == UNION {Addresses(cards[c]) : c \in DOMAIN cards} \ {OtherFamily}
    IN  IF ip # NotAnAddress THEN {least(having(ip))}
        ELSE {None} \cup {least(having(dest)) : dest \in others}

\* The cards that are shown: those with an IPv4 address.
pcap_show_list(cards) == {c \in DOMAIN cards : Addresses(cards[c]) \ {OtherFamily} # {}}
===============================================================================
