-------------------------------- MODULE MCJson --------------------------------
(***************************************************************************)
(* Texts of up to three characters, and larger ones with one character     *)
(* replaced, left out or everything behind it cut off.                     *)
(***************************************************************************)
EXTENDS Json

MCLiteral == << <<"a">>, <<"A">>, <<"a", Quote>> >>

Character == {"[", "]", "{", "}", ",", ":", "1", "-", Quote, "a", " ", Backslash, "null"}
Short     == UNION {[1 .. n -> Character] : n \in 0 .. 3}

Sample ==
    { <<"BOM", " ", "[", "1", "2", " ", ",", "LF", "-", "7", ",", "[", "]", ",", "{", "}", "]">>,
      <<"{", Quote, "a", Quote, ":", "[", "true", "]", ",", Quote, "A", Quote, ":", "false", "}">>,
      <<"[", Quote, Backslash, "n", "a", Backslash, Quote, Quote, ",", Quote, Quote, "]">>,
      <<Quote, Backslash, "u", "U20AC", Backslash, "u", "U0001", Backslash, "/", "eacute", Quote>>,
      <<Quote, Backslash, "u", HighHalf, Backslash, "u", LowHalf, Backslash, "u", "Uzzzz", "a", Quote>>,
      <<"[", "[", "[", "1", "]", "]", "]">> }

\* A quad stands behind \u, and nothing else does but the end of the string.
WellCoded(text) ==
    \A i \in DOMAIN text :
        LET coded == i > 2 /\ text[i - 1] = "u" /\ text[i - 2] = Backslash
        IN  /\ text[i] \in Quad => coded
            /\ coded => text[i] \in Quad \cup {Quote}

Mutated(samples, characters) ==
    {text \in UNION {
        {s} \cup {[s EXCEPT ![i] = c] : i \in DOMAIN s, c \in characters}
            \cup {RemoveAt(s, i) : i \in DOMAIN s} \cup {SubSeq(s, 1, i) : i \in DOMAIN s} : s \in samples} :
        WellCoded(text)}

MCEdited == { <<"[", "1", ",", "{", "}", "]">>, <<"[", "[", "1", "]", "]">>,
              <<"{", Quote, "a", Quote, ":", "[", "true", "]", ",", Quote, "A", Quote, ":", "false", "}">> }

MCText == MCEdited \cup Short \cup Mutated(Sample, Character)

File == { <<"{", Quote, "host_ip", Quote, ":", Quote, "1", ".", "2", Quote, ",",
            Quote, "host_mac", Quote, ":", Quote, "3", ":", "4", ":", "5", Quote, ",",
            Quote, "real_host_ip", Quote, ":", Quote, "6", ".", "7", ".", "8", Quote, ",",
            Quote, "real_host_mac", Quote, ":", Quote, "9", ":", "1", ":", "2", Quote, "}">> }

MCConfigFile == Mutated(File, {Quote, "null", " ", "}"})

MCDefault == [host_ip |-> <<10, 5>>, host_mac |-> <<17, 34, 51>>, real_host_ip |-> <<"9">>,
              real_host_mac |-> <<68, 85, 102>>]
===============================================================================
