------------------------------ MODULE JsonWriter ------------------------------
(***************************************************************************)
(* The printer of net_app/cJSON.c: a tree as a text, in a buffer that      *)
(* grows or in one of the caller.                                          *)
(*                                                                         *)
(* out is what the buffer holds; offset, where it goes on, and length, its *)
(* size, are in bytes.  The code writes first and moves its offset later;  *)
(* it asks nothing of the buffer in between, so that Put does both.        *)
(* realloc always has memory.                                              *)
(***************************************************************************)
EXTENDS JsonParse

CONSTANTS MaxInt, default_buffer_size     \* INT_MAX; of cJSON_Print

ASSUME IntAssumption == MaxInt \in Nat \ {0}

Buffer(length, noalloc) ==
    [out |-> <<>>, offset |-> 0, length |-> length, noalloc |-> noalloc, ok |-> TRUE, fault |-> FALSE]

\* Mutant of ensure: the NUL is forgotten.
EnsureTight(p, needed) ==
    LET total == needed + p.offset - 1
    IN  IF ~p.ok \/ (total > p.length /\ p.noalloc) THEN [p EXCEPT !.ok = FALSE]
        ELSE IF total <= p.length THEN p ELSE [p EXCEPT !.length = 2 * total]

\* Space for needed bytes more, and a NUL.
ensure(p, needed) ==
    LET total  == needed + p.offset + 1
        stuck  == \/ p.length > 0 /\ p.offset >= p.length
                  \/ needed > MaxInt
                  \/ total > p.length /\ (p.noalloc \/ total > MaxInt)
    IN  IF ~p.ok \/ stuck THEN [p EXCEPT !.ok = FALSE]
        ELSE IF total <= p.length THEN p
        ELSE [p EXCEPT !.length = IF total > MaxInt \div 2 THEN MaxInt ELSE 2 * total]

\* text, with the bytes asked for it, and with a NUL behind it or not.
Put(p, needed, text, nul) ==
    LET q   == ensure(p, needed)
        end == q.offset + Bytes(text)
    IN  IF ~q.ok THEN q
        ELSE [q EXCEPT !.out = @ \o text, !.offset = end,
                       !.fault = @ \/ end + (IF nul THEN 1 ELSE 0) > q.length]

\* print_string_ptr
print_string(h, s, p) ==
    IF s = NULL THEN Put(p, 3, <<Quote, Quote>>, TRUE)
    ELSE Put(p, OutputLength(h.str[s]) + 3, Quoted(h.str[s]), TRUE)

print_number(value, p) == Put(p, Len(Written(value)) + 1, Written(value), TRUE)

Tabs(n) == [i \in 1 .. n |-> "TAB"]

RECURSIVE print_value(_, _, _, _, _)

\* depth is that of the items.
print_array(h, n, p, format, depth) ==
    LET items == Children(h, n)
        comma == IF format THEN <<",", " ">> ELSE <<",">>
        from[i \in 0 .. Len(items)] ==
            IF i = 0 THEN Put(p, 1, <<"[">>, FALSE)
            ELSE LET here == print_value(h, items[i], from[i - 1], format, depth)
                 IN  IF i = Len(items) THEN here ELSE Put(here, Len(comma) + 1, comma, TRUE)
    IN  Put(from[Len(items)], 2, <<"]">>, TRUE)

print_object(h, n, p, format, depth) ==
    LET items == Children(h, n)
        open  == IF format THEN <<"{", "LF">> ELSE <<"{">>
        colon == IF format THEN <<":", "TAB">> ELSE <<":">>
        after(i) == (IF i = Len(items) THEN <<>> ELSE <<",">>) \o (IF format THEN <<"LF">> ELSE <<>>)
        from[i \in 0 .. Len(items)] ==
            IF i = 0 THEN Put(p, Len(open) + 1, open, FALSE)
            ELSE LET x      == h.item[items[i]]
                     before == IF format THEN Put(from[i - 1], depth, Tabs(depth), FALSE) ELSE from[i - 1]
                     name   == print_string(h, x.string, before)
                     value  == print_value(h, items[i], Put(name, Len(colon), colon, FALSE), format, depth)
                 IN  Put(value, Len(after(i)) + 1, after(i), TRUE)
    IN  Put(from[Len(items)], IF format THEN depth + 1 ELSE 2,
            (IF format THEN Tabs(depth - 1) ELSE <<>>) \o <<"}">>, TRUE)

\* depth is how many containers stand around the item.
print_value(h, n, p, format, depth) ==
    LET x == h.item[n]
        Word(word) == Put(p, Width(word) + 1, <<word>>, TRUE)
    IN  CASE x.type = "NULL"   -> Word("null")
          [] x.type = "False"  -> Word("false")
          [] x.type = "True"   -> Word("true")
          [] x.type = "Number" -> print_number(x.value, p)
          [] x.type = "Raw"    -> IF x.valuestring = NULL THEN [p EXCEPT !.ok = FALSE]
                                  ELSE Put(p, Bytes(h.str[x.valuestring]) + 1, h.str[x.valuestring], TRUE)
          [] x.type = "String" -> print_string(h, x.valuestring, p)
          [] x.type = "Array"  -> print_array(h, n, p, format, depth + 1)
          [] x.type = "Object" -> print_object(h, n, p, format, depth + 1)
          [] OTHER             -> [p EXCEPT !.ok = FALSE]

\* cJSON_Print and the like: the buffer afterwards.  PrintBuffered begins with the
\* caller's size, PrintPreallocated has the caller's buffer.
print(h, n, format)                               == print_value(h, n, Buffer(default_buffer_size, FALSE), format, 0)
cJSON_PrintBuffered(h, n, prebuffer, format)      == print_value(h, n, Buffer(prebuffer, FALSE), format, 0)
cJSON_PrintPreallocated(h, n, length, format)     == print_value(h, n, Buffer(length, TRUE), format, 0)
===============================================================================
