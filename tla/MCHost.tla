-------------------------------- MODULE MCHost --------------------------------
(***************************************************************************)
(* Host for TLC, with words of six bits: an empty body, one that makes the *)
(* checksum carry, and lines on both sides of the length at which a        *)
(* datagram reaches to where TCP has its checksum.                         *)
(***************************************************************************)
EXTENDS Host

MCLine == {<<7>>, <<1, 2, 3, 4, 5, 6>>}
MCBody == {<<>>, <<63, 62>>}

\* Characters of a version that are no digits.
Letter == 10
Dot    == 11

\* Npcap in another place, an old one, those of now, and texts without a number.
MCLibrary ==
    [directory : BOOLEAN, npcap_dll : BOOLEAN, version : {<<Letter, 1, Dot, 1, 0>>}]
        \cup [directory : {TRUE}, npcap_dll : {FALSE},
              version : {<<>>, <<Letter>>, <<0>>, <<Letter, 0, Dot, 9, 9, Letter>>,
                         <<0, Dot, 9, 8, Dot, 9, 9>>}]

\* Up to two cards, the first with up to two addresses.
Card(n) == UNION {[1 .. k -> {1, 2, 9}] : k \in 0 .. n}
MCCards == {<<>>} \cup {<<c>> : c \in Card(2)} \cup {<<c, d>> : c \in Card(2), d \in Card(1)}
MCRealIp == {1, 8}
===============================================================================
