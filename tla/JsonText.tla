------------------------------- MODULE JsonText -------------------------------
(***************************************************************************)
(* The characters of a JSON text and what net_app/cJSON.c does with them:  *)
(* strings with their escapes, numbers, white space, cJSON_Minify.         *)
(*                                                                         *)
(* A text is a sequence of characters without the final 0, which NUL is.   *)
(* One character stands for each of the words null, false and true, for    *)
(* the byte order mark, and for the four characters behind a \u, which are *)
(* a Quad: the code of a character, a half of a surrogate pair, or not     *)
(* hexadecimal.  A number is its sign and its digits; valueint, the number *)
(* cut to an int, has no part in what is printed or compared.              *)
(***************************************************************************)
EXTENDS Integers, SequencesExt

NUL       == "NUL"
Quote     == "\""
Backslash == "\\"
Digits    == <<"0", "1", "2", "3", "4", "5", "6", "7", "8", "9">>
NumberChar == ToSet(Digits) \cup {"-"}

\* The escapes of one letter, and the characters behind the quads.
Control  == [b |-> "BS", f |-> "FF", n |-> "LF", r |-> "CR", t |-> "TAB"]
Coded    == [U0001 |-> "SOH", U0041 |-> "A", U00E9 |-> "eacute", U20AC |-> "euro",
             Uzzzz |-> NUL]
HighHalf == "UD83D"
LowHalf  == "UDE00"
Quad     == DOMAIN Coded \cup {HighHalf, LowHalf}

\* Characters up to 32, the space.
Blank == {" ", "LF", "TAB", "CR", "BS", "FF", "SOH", NUL}

\* How many bytes a character has, in UTF-8.
Width(c) == CASE c \in {"null", "true"} \cup Quad -> 4
              [] c = "false"                     -> 5
              [] c \in {"BOM", "euro"}           -> 3
              [] c = "eacute"                    -> 2
              [] c = "smiley"                    -> 4
              [] OTHER                           -> 1
Sum(f(_), text) ==
    LET upto[i \in 0 .. Len(text)] == IF i = 0 THEN 0 ELSE upto[i - 1] + f(text[i]) IN upto[Len(text)]
Bytes(text) == Sum(Width, text)

\* The characters up to the first NUL, which are all that C sees of them.
CString(chars) ==
    LET ends == {i \in DOMAIN chars : chars[i] = NUL}
    IN  IF ends = {} THEN chars ELSE SubSeq(chars, 1, (CHOOSE i \in ends : \A j \in ends : i <= j) - 1)

Lower(c) == IF c = "A" THEN "a" ELSE c
case_insensitive_strcmp(s, t) ==
    Len(s) = Len(t) /\ \A i \in DOMAIN s : Lower(s[i]) = Lower(t[i])

-------------------------------------------------------------------------------
\* Strings.  Of c, which ends with NUL, the string begins with the quote at i.

\* The closing quote, or 0.
StringEnd(c, i) ==
    LET from[j \in 1 .. Len(c) + 2] ==
            IF j > Len(c) THEN 0
            ELSE CASE c[j] = Quote     -> j
                   [] c[j] = Backslash -> from[j + 2]
                   [] OTHER            -> from[j + 1]
    IN  from[i + 1]

\* \uXXXX at j in front of end: the character, and how many characters it takes
\* here, none for what cannot be converted.
utf16_literal_to_utf8(c, j, end) ==
    LET coded(k) == k + 2 < end /\ c[k] = Backslash /\ c[k + 1] = "u"
    IN  CASE coded(j) /\ c[j + 2] \in DOMAIN Coded -> [char |-> Coded[c[j + 2]], takes |-> 3]
          [] coded(j) /\ c[j + 2] = HighHalf /\ coded(j + 3) /\ c[j + 5] = LowHalf
                                                   -> [char |-> "smiley", takes |-> 6]
          [] OTHER                                 -> [char |-> NUL, takes |-> 0]

\* The character a string has at j, escaped or not.
CharAt(c, j, end) ==
    IF c[j] # Backslash THEN [char |-> c[j], takes |-> 1]
    ELSE CASE c[j + 1] \in DOMAIN Control          -> [char |-> Control[c[j + 1]], takes |-> 2]
           [] c[j + 1] \in {Quote, Backslash, "/"} -> [char |-> c[j + 1], takes |-> 2]
           [] c[j + 1] = "u"                       -> utf16_literal_to_utf8(c, j, end)
           [] OTHER                                -> [char |-> NUL, takes |-> 0]

\* What the string holds, and where the conversion stops: at the end if it is right.
Unescaped(c, i, end) ==
    LET from[j \in 1 .. end + 1] ==
            IF j >= end \/ CharAt(c, j, end).takes = 0 THEN [out |-> <<>>, at |-> j]
            ELSE LET here == CharAt(c, j, end)
                     rest == from[j + here.takes]
                 IN  [out |-> <<here.char>> \o rest.out, at |-> rest.at]
    IN  from[i + 1]

\* The bytes parse_string allocates for it: one less for every escape.
Allocation(c, i, end) ==
    LET escapes[j \in 1 .. end + 1] ==
            IF j >= end THEN 0
            ELSE IF c[j] = Backslash THEN 1 + escapes[j + 2]
            ELSE escapes[j + 1]
    IN  Bytes(SubSeq(c, i, end - 1)) - escapes[i + 1] + 1

\* Mutant of Escape: control characters are printed as they are.
EscapeQuotes(c) == IF c \in {Quote, Backslash} THEN <<Backslash, c>> ELSE <<c>>

\* print_string_ptr: the escape of a character, how many bytes it adds, and the
\* string in its quotes.
Letter == [BS |-> "b", FF |-> "f", LF |-> "n", CR |-> "r", TAB |-> "t"]
Escape(c) ==
    CASE c \in {Quote, Backslash} -> <<Backslash, c>>
      [] c \in DOMAIN Letter      -> <<Backslash, Letter[c]>>
      [] c = "SOH"                -> <<Backslash, "u", "U0001">>
      [] OTHER                    -> <<c>>
EscapeCharacters(c) ==
    CASE c \in {Quote, Backslash, "BS", "FF", "LF", "CR", "TAB"} -> 1
      [] c = "SOH" -> 5
      [] OTHER     -> 0
OutputLength(text) == Bytes(text) + Sum(EscapeCharacters, text)
Quoted(text) ==
    LET upto[i \in 0 .. Len(text)] == IF i = 0 THEN <<Quote>> ELSE upto[i - 1] \o Escape(text[i])
    IN  Append(upto[Len(text)], Quote)

-------------------------------------------------------------------------------
\* Numbers.

DigitValue(d) == (CHOOSE i \in DOMAIN Digits : Digits[i] = d) - 1

\* What strtod (or scanf) takes of the digits at i: where the number ends, which is i
\* if there is none, and its value.
Numeral(c, i, base) ==
    LET first == IF c[i] = "-" THEN i + 1 ELSE i
        from[j \in 1 .. Len(c), n \in Nat] ==
            IF c[j] \notin ToSet(Digits) THEN [end |-> j, value |-> n]
            ELSE from[j + 1, base * n + DigitValue(c[j])]
        digits == from[first, 0]
    IN  IF digits.end = first THEN [end |-> i, value |-> 0]
        ELSE [digits EXCEPT !.value = IF c[i] = "-" THEN -@ ELSE @]

\* The digits of a number, as printf writes them.
Written(n) ==
    LET natural[m \in Nat] == IF m < 10 THEN <<Digits[m + 1]>>
                              ELSE natural[m \div 10] \o <<Digits[(m % 10) + 1]>>
    IN  IF n < 0 THEN <<"-">> \o natural[-n] ELSE natural[n]

-------------------------------------------------------------------------------
\* Between the parts of a text.  Positions are those of c, which ends with NUL.

\* The NUL counts as blank, but the last position is not passed.
buffer_skip_whitespace(c, i) ==
    LET from[j \in 1 .. Len(c) + 1] ==
            IF j > Len(c) THEN Len(c) ELSE IF c[j] \in Blank THEN from[j + 1] ELSE j
    IN  IF i > Len(c) THEN i ELSE from[i]

\* A byte order mark is skipped if there is something behind it.
skip_utf8_bom(c) == IF c[1] = "BOM" /\ Bytes(c) > 4 THEN 2 ELSE 1

\* cJSON_Minify: without white space and comments, strings as they are.
Minify(text) ==
    LET At(i) == IF i <= Len(text) THEN text[i] ELSE NUL
        line[i \in 1 .. Len(text) + 2] ==
            IF i > Len(text) THEN i ELSE IF text[i] = "LF" THEN i + 1 ELSE line[i + 1]
        comment[i \in 1 .. Len(text) + 2] ==
            IF i > Len(text) THEN i
            ELSE IF text[i] = "*" /\ At(i + 1) = "/" THEN i + 2 ELSE comment[i + 1]
        string[i \in 1 .. Len(text) + 2] ==
            CASE i > Len(text)                                 -> Len(text)
              [] i <= Len(text) /\ text[i] = Quote             -> i
              [] i <= Len(text) /\ text[i] = Backslash /\ At(i + 1) = Quote -> string[i + 2]
              [] OTHER                                         -> string[i + 1]
        from[i \in 1 .. Len(text) + 2] ==
            CASE i > Len(text) -> <<>>
              [] i <= Len(text) /\ text[i] \in {" ", "TAB", "CR", "LF"} -> from[i + 1]
              [] i <= Len(text) /\ text[i] = "/" ->
                     from[CASE At(i + 1) = "/" -> line[i + 2]
                            [] At(i + 1) = "*" -> comment[i + 2]
                            [] OTHER           -> i + 1]
              [] i <= Len(text) /\ text[i] = Quote ->
                     SubSeq(text, i, string[i + 1]) \o from[string[i + 1] + 1]
              [] OTHER -> <<text[i]>> \o from[i + 1]
    IN  from[1]
===============================================================================
