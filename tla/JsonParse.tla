------------------------------ MODULE JsonParse -------------------------------
(***************************************************************************)
(* The parser of net_app/cJSON.c, by recursive descent over a text.        *)
(*                                                                         *)
(* c is the text with its final NUL.  A parse buffer S holds the heap, the *)
(* position, how deeply nested it is, and whether the last step succeeded; *)
(* a failed step leaves the position where the code leaves it, which is    *)
(* what cJSON_GetErrorPtr reports.                                         *)
(***************************************************************************)
EXTENDS JsonItems

CONSTANT CJSON_NESTING_LIMIT

Failed(S)       == [S EXCEPT !.ok = FALSE]
FailedAt(S, i)  == [S EXCEPT !.ok = FALSE, !.pos = i]
Passed(S, i)    == [S EXCEPT !.pos = i]
Skip(c, S)      == Passed(S, buffer_skip_whitespace(c, S.pos))
SkipOne(c, S)   == Skip(c, Passed(S, S.pos + 1))    \* a character and the blanks behind it
Set(S, n, field, x) == [S EXCEPT !.h.item[n][field] = x]

\* The number lies in a buffer of its own while strtod reads it.
parse_number(c, S, n) ==
    LET number == Numeral(c, S.pos, 10)
    IN  IF S.h.left = 0 THEN Failed(S)
        ELSE IF number.end = S.pos THEN Failed([S EXCEPT !.h.left = @ - 1])
        ELSE [Passed(S, number.end) EXCEPT !.h.left = @ - 1, !.h.item[n].type = "Number",
                                           !.h.item[n].value = number.value]

\* What parse_string does with what it allocated: size bytes, for the text of which
\* the closing quote is at end.
Held(S, n, made, text, end, size) ==
    LET held == [made.h EXCEPT !.fault = @ \/ Bytes(text.out) + 1 > size]
    IN  IF text.at # end THEN FailedAt([S EXCEPT !.h = FreeStr(held, made.s)], text.at)
        ELSE [Passed(S, end + 1) EXCEPT !.h = [held EXCEPT !.item[n].type = "String",
                                                           !.item[n].valuestring = made.s]]

\* Also the name of an object's item, which is a valuestring at first.
ParseText(c, S, n, end, text) ==
    LET made == NewStr(S.h, CString(text.out))
    IN  IF c[S.pos] # Quote \/ end = 0 \/ made.s = NULL THEN FailedAt(S, S.pos + 1)
        ELSE Held(S, n, made, text, end, Allocation(c, S.pos, end))
ParseUpTo(c, S, n, end) == ParseText(c, S, n, end, Unescaped(c, S.pos, end))
parse_string(c, S, n)   == ParseUpTo(c, S, n, StringEnd(c, S.pos))

RECURSIVE parse_value(_, _, _), parse_list(_, _, _, _, _)

\* In an object: the name was parsed to name.
AfterName(c, name, n) ==
    IF c[name.pos] # ":" THEN Failed(name) ELSE parse_value(c, SkipOne(c, name), n)
Renamed(S, n) == [S EXCEPT !.h.item[n].string = S.h.item[n].valuestring,
                           !.h.item[n].valuestring = NULL]
NamedValue(c, name, n) == IF ~name.ok THEN name ELSE AfterName(c, Skip(c, Renamed(name, n)), n)
ParseItem(c, S, n, key) ==
    IF key THEN NamedValue(c, parse_string(c, S, n), n) ELSE parse_value(c, S, n)

\* The list has the items from head to last, of which the last was parsed to value.
\* The result has the first item and the last one.
ListUpTo(S, head, last) == [S |-> S, head |-> head, last |-> last]
NextItem(c, after, head, last, key) ==
    IF c[after.pos] = "," THEN parse_list(c, after, head, last, key)
    ELSE ListUpTo(after, head, last)
AfterItem(c, value, head, last, key) ==
    IF value.ok THEN NextItem(c, Skip(c, value), head, last, key)
    ELSE ListUpTo(value, head, last)

\* One more item, behind last, and what follows it; key says that it has a name.
LinkedItem(c, S, made, head, last) ==
    SkipOne(c, [S EXCEPT !.h = IF head = NULL THEN made.h ELSE suffix_object(made.h, last, made.n)])
ItemInto(c, S, made, head, last, key) ==
    IF made.n = NULL THEN ListUpTo(Failed(S), head, last)
    ELSE AfterItem(c, ParseItem(c, LinkedItem(c, S, made, head, last), made.n, key),
                   IF head = NULL THEN made.n ELSE head, made.n, key)
parse_list(c, S, head, last, key) == ItemInto(c, S, cJSON_New_Item(S.h), head, last, key)

Circled(h, list) == IF list.head = NULL THEN h ELSE [h EXCEPT !.item[list.head].prev = list.last]
Closed(S, n, list, type) ==
    [S EXCEPT !.pos = @ + 1, !.depth = @ - 1,
              !.h = [Circled(@, list) EXCEPT !.item[n].type = type, !.item[n].child = list.head]]

\* Mutant of ContainerEnd: what was read before the error is not deleted.
ContainerEndLeaks(c, list, n, type, close) ==
    IF ~list.S.ok \/ c[list.S.pos] # close THEN Failed(list.S) ELSE Closed(list.S, n, list, type)

ContainerEnd(c, list, n, type, close) ==
    IF ~list.S.ok \/ c[list.S.pos] # close
    THEN Failed([list.S EXCEPT !.h = cJSON_Delete(@, list.head)])
    ELSE Closed(list.S, n, list, type)

\* parse_array and parse_object: the items stand between the character at the
\* position and close.
Items(c, inside, close, key) ==
    IF c[inside.pos] = close THEN ListUpTo(inside, NULL, NULL)
    ELSE parse_list(c, Passed(inside, inside.pos - 1), NULL, NULL, key)
parse_container(c, S, n, type, close, key) ==
    IF S.depth >= CJSON_NESTING_LIMIT THEN Failed(S)
    ELSE ContainerEnd(c, Items(c, [SkipOne(c, S) EXCEPT !.depth = @ + 1], close, key), n, type, close)
parse_array(c, S, n)  == parse_container(c, S, n, "Array", "]", FALSE)
parse_object(c, S, n) == parse_container(c, S, n, "Object", "}", TRUE)

WordType == [null |-> "NULL", false |-> "False", true |-> "True"]

parse_value(c, S, n) ==
    LET first == c[S.pos]
    IN  CASE first \in DOMAIN WordType -> Set(Passed(S, S.pos + 1), n, "type", WordType[first])
          [] first = Quote             -> parse_string(c, S, n)
          [] first \in NumberChar      -> parse_number(c, S, n)
          [] first = "["               -> parse_array(c, S, n)
          [] first = "{"               -> parse_object(c, S, n)
          [] OTHER                     -> Failed(S)

\* cJSON_Parse: a new root with its value; what is behind the value is not read.
\* The result: the heap, the root or NULL, and the position behind it or of the error.
ParsedRoot(c, n, value) ==
    LET pos == IF value.pos <= Len(c) THEN value.pos ELSE Len(c)
    IN  IF value.ok THEN [h |-> value.h, n |-> n, pos |-> pos]
        ELSE [h |-> cJSON_Delete(value.h, n), n |-> NULL, pos |-> pos]
ParseRoot(c, made) ==
    LET start == [h |-> made.h, pos |-> skip_utf8_bom(c), depth |-> 0, ok |-> TRUE]
    IN  IF made.n = NULL THEN [h |-> made.h, n |-> NULL, pos |-> 1]
        ELSE ParsedRoot(c, made.n, parse_value(c, Skip(c, start), made.n))
cJSON_Parse(h, text) == ParseRoot(Append(text, NUL), cJSON_New_Item(h))
===============================================================================
