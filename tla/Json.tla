--------------------------------- MODULE Json ---------------------------------
(***************************************************************************)
(* A program that uses net_app/cJSON.c: any sequence of calls its header   *)
(* allows, each with malloc failing at any point; and the one use the      *)
(* repository makes of it, load_config of tiny_net/tiny_net.c, which reads *)
(* the addresses of the host before the network starts.                    *)
(*                                                                         *)
(* The calls a program may make: an item is added once and to one          *)
(* container, that is not a reference and not inside of it; what is taken  *)
(* out or deleted is not shared with a reference that stays; nothing       *)
(* contains itself.                                                        *)
(***************************************************************************)
EXTENDS JsonWriter

CONSTANTS
    Text, Edited,   \* the texts parsed; of those, the ones whose trees are edited after
    ConfigFile,     \* the contents of config.json
    Name, Value,    \* the literals given as names, and as values
    Bare,           \* the types of items created without a value
    Budget,         \* how many calls of malloc succeed in a call
    ConfigBudget,   \* the same for load_config
    IpParts, MacParts, IpSize,  \* numbers of an address; the size of real_host_ip
    Default,        \* the addresses compiled in
    MaxCalls        \* bound of the model

VARIABLES
    heap,       \* items and strings
    owned,      \* the roots the program holds
    lost,       \* items no one holds any more
    parsed,     \* the last text that was parsed, its root and where the parser stopped
    config,     \* host_ip_addr, host_mac, real_host_ip and real_host_mac
    calls       \* calls so far

vars == <<heap, owned, lost, parsed, config, calls>>

Nothing == [text |-> <<>>, n |-> NULL, pos |-> 0]

Init ==
    /\ heap = EmptyHeap
    /\ owned = {}
    /\ lost = {}
    /\ parsed = Nothing
    /\ config = Default
    /\ calls = 0

-------------------------------------------------------------------------------
\* What a program may do.

Container   == {n \in heap.live : heap.item[n].type \in {"Array", "Object"} /\ ~heap.item[n].isReference}
ArrayItem   == {n \in Container : heap.item[n].type = "Array"}
ObjectItem  == {n \in Container : heap.item[n].type = "Object"}
References(h) == {n \in h.live : h.item[n].isReference}

\* The items an item owns, itself included.
RECURSIVE Below(_, _)
Below(h, n) ==
    {n} \cup IF h.item[n].isReference THEN {}
             ELSE UNION {Below(h, m) : m \in ToSet(Children(h, n))}

\* The items a reference shares something with.
Shared(h, r) ==
    LET x == h.item[r]
    IN  UNION {Below(h, m) : m \in ToSet(Children(h, r))}
        \cup {n \in h.live \ References(h) : x.valuestring # NULL /\ h.item[n].valuestring = x.valuestring}
Free(n) == \A r \in References(heap) \ Below(heap, n) : Shared(heap, r) \cap Below(heap, n) = {}

\* A path of more than k items goes down from n, by references too.
RECURSIVE Deeper(_, _, _)
Deeper(h, n, k) == k = 0 \/ \E m \in ToSet(Children(h, n)) : Deeper(h, m, k - 1)
Finite(h) == \A n \in h.live : ~Deeper(h, n, MaxItem)

\* A call leaves this heap, and these roots.
Call(h, roots) ==
    /\ heap' = [h EXCEPT !.left = 0]
    /\ owned' = roots \ {NULL}
    /\ calls' = calls + 1
    /\ parsed' = Nothing
    /\ UNCHANGED config
\* One that links items may not make a circle.
Link(h, roots) == Finite(h) /\ Call(h, roots)

\* At most k calls of malloc matter.
Upto(k) == {left \in Budget : left <= k}
Lends(left) == [heap EXCEPT !.left = left]

-------------------------------------------------------------------------------
\* The calls.

\* The first one; the others work on what it finds.
Parse(text, left) ==
    LET result == cJSON_Parse(Lends(left), text)
    IN  /\ heap' = [result.h EXCEPT !.left = 0]
        /\ owned' = {result.n} \ {NULL}
        /\ parsed' = [text |-> text, n |-> result.n, pos |-> result.pos]
        /\ calls' = IF text \in Edited THEN 1 ELSE MaxCalls
        /\ UNCHANGED <<lost, config>>

\* The items a program can create, with these strings and from these items.
Plain(h)     == {cJSON_Create(h, type) : type \in Bare}
                    \cup {cJSON_CreateNumber(h, 1)}
                    \cup {CreateCopy(h, type, s) : type \in {"String", "Raw"}, s \in Value}
Arrays(h)    == {CreateArray(h, "Number", numbers) : numbers \in {<<>>, <<1, 2>>}}
                    \cup {CreateArray(h, "String", <<s, s>>) : s \in Value}
Referring(h) == {cJSON_CreateStringReference(h, s) : s \in Value}
                    \cup {cJSON_CreateContainerReference(h, h.item[n].type, h.item[n].child) : n \in Container}

Create(left) ==
    /\ \E made \in Plain(Lends(left)) \cup Arrays(Lends(left)) \cup Referring(Lends(left)) :
            Call(made.h, owned \cup {made.n})
    /\ UNCHANGED lost

AddItemToArray(array, item) ==
    /\ LET result == add_item_to_array(heap, array, item)
       IN  Link(result.h, IF result.ok THEN owned \ {item} ELSE owned)
    /\ UNCHANGED lost

AddItemToObject(object, s, item, constant_key, left) ==
    /\ LET result == add_item_to_object(Lends(left), object, s, item, constant_key)
       IN  Link(result.h, IF result.ok THEN owned \ {item} ELSE owned)
    /\ UNCHANGED lost

AddReferenceToArray(array, item, left) ==
    /\ Link(cJSON_AddItemReferenceToArray(Lends(left), array, item).h, owned)
    /\ UNCHANGED lost

\* Without memory for the name the reference is left to no one.
AddReferenceToObject(object, s, item, left) ==
    LET result == cJSON_AddItemReferenceToObject(Lends(left), object, s, item)
    IN  /\ Link(result.h, owned)
        /\ lost' = lost \cup IF result.ok THEN {} ELSE result.h.live \ heap.live

AddNewToObject(object, s, left) ==
    /\ \E made \in Plain(Lends(left)) : Call(AddNew(made, object, s).h, owned)
    /\ UNCHANGED lost

Delete(n) ==
    /\ Call(cJSON_Delete(heap, n), owned \ {n})
    /\ UNCHANGED lost

Detach(parent, item) ==
    /\ Call(cJSON_DetachItemViaPointer(heap, parent, item), owned \cup {item})
    /\ UNCHANGED lost

\* cJSON_DeleteItemFromArray and cJSON_DeleteItemFromObject
DeleteItem(parent, item) ==
    /\ Call(cJSON_Delete(cJSON_DetachItemViaPointer(heap, parent, item), item), owned)
    /\ UNCHANGED lost

InsertItem(array, which, item) ==
    /\ LET result == cJSON_InsertItemInArray(heap, array, which, item)
       IN  Link(result.h, IF result.ok THEN owned \ {item} ELSE owned)
    /\ UNCHANGED lost

ReplaceItem(array, which, item) ==
    /\ LET result == cJSON_ReplaceItemViaPointer(heap, array, get_array_item(heap, array, which), item)
       IN  Link(result.h, IF result.ok THEN owned \ {item} ELSE owned)
    /\ UNCHANGED lost

ReplaceItemInObject(object, s, item, case_sensitive, left) ==
    /\ LET result == replace_item_in_object(Lends(left), object, s, item, case_sensitive)
       IN  Link(result.h, IF result.ok THEN owned \ {item} ELSE owned)
    /\ UNCHANGED lost

Duplicate(n, recurse, left) ==
    /\ LET made == cJSON_Duplicate(Lends(left), n, recurse) IN Call(made.h, owned \cup {made.n})
    /\ UNCHANGED lost

SetValuestring(n, s, left) ==
    /\ Call(cJSON_SetValuestring(Lends(left), n, s), owned)
    /\ UNCHANGED lost

SetNumber(n, value) ==
    /\ Call(cJSON_SetNumberHelper(heap, n, value), owned)
    /\ UNCHANGED lost

-------------------------------------------------------------------------------
\* load_config.

\* What sscanf stores of an address: numbers of one byte, the first ones that are there.
Scan(text, count, separator, base) ==
    LET c == Append(text, NUL)
        Start(i) == Least({j \in i .. Len(c) : c[j] = NUL \/ c[j] \notin Blank})
        from[i \in 1 .. Len(c), k \in 0 .. count] ==
            LET number == Numeral(c, Start(i), base)
            IN  IF k = 0 \/ number.end = Start(i) THEN <<>>
                ELSE <<number.value % 256>> \o
                     (IF c[number.end] = separator THEN from[number.end + 1, k - 1] ELSE <<>>)
    IN  from[1, count]
\* Mutant of Over: the address is cleared first.
OverCleared(old, new) == [i \in DOMAIN old |-> IF i \in DOMAIN new THEN new[i] ELSE 0]
Over(old, new) == [i \in DOMAIN old |-> IF i \in DOMAIN new THEN new[i] ELSE old[i]]

\* The addresses after a file whose tree is in h at n.
Configured(h, n) ==
    LET Field(name) == cJSON_GetObjectItem(h, n, <<name>>)
        Of(name)    == h.str[h.item[Field(name)].valuestring]
        cut         == CHOOSE k \in 0 .. IpSize - 1 : k = IpSize - 1 \/ k = Len(Of("real_host_ip"))
    IN  IF \E name \in {"host_ip", "host_mac", "real_host_ip", "real_host_mac"} :
               ~IsType(h, Field(name), "String")
        THEN config
        ELSE [host_ip       |-> Over(config.host_ip, Scan(Of("host_ip"), IpParts, ".", 10)),
              host_mac      |-> Over(config.host_mac, Scan(Of("host_mac"), MacParts, ":", 16)),
              real_host_ip  |-> SubSeq(Of("real_host_ip"), 1, IpSize - 1),
              real_host_mac |-> Over(config.real_host_mac, Scan(Of("real_host_mac"), MacParts, ":", 16))]

\* The file, or as much of it as fread returns, lies in a buffer until the end.
load_config(file, left) ==
    LET data   == NewStr(Lends(left), file)
        result == cJSON_Parse(data.h, file)
    IN  /\ IF data.s = NULL THEN UNCHANGED <<heap, config>>
           ELSE IF result.n = NULL
           THEN heap' = [FreeStr(result.h, data.s) EXCEPT !.left = 0] /\ UNCHANGED config
           ELSE /\ config' = Configured(result.h, result.n)
                /\ heap' = [FreeStr(cJSON_Delete(result.h, result.n), data.s) EXCEPT !.left = 0]
        /\ parsed' = [text |-> file, n |-> NULL, pos |-> IF data.s = NULL THEN 0 ELSE result.pos]
        /\ calls' = MaxCalls      \* bound: nothing more in this run
        /\ UNCHANGED <<owned, lost>>

Edit ==
    \/ \E left \in Budget : Create(left)
    \/ \E array \in ArrayItem, item \in owned : AddItemToArray(array, item)
    \/ \E object \in ObjectItem, s \in Name, item \in owned, constant_key \in BOOLEAN, left \in Upto(1) :
            AddItemToObject(object, s, item, constant_key, left)
    \/ \E array \in ArrayItem, item \in heap.live, left \in Upto(1) : AddReferenceToArray(array, item, left)
    \/ \E object \in ObjectItem, s \in Name, item \in heap.live, left \in Upto(2) :
            AddReferenceToObject(object, s, item, left)
    \/ \E object \in ObjectItem, s \in Name, left \in Upto(3) : AddNewToObject(object, s, left)
    \/ \E n \in owned : Free(n) /\ Delete(n)
    \/ \E parent \in Container : \E item \in ToSet(Children(heap, parent)) :
            Free(item) /\ (Detach(parent, item) \/ DeleteItem(parent, item))
    \/ \E array \in ArrayItem, which \in 0 .. 2, item \in owned : InsertItem(array, which, item)
    \/ \E array \in ArrayItem, item \in owned : \E which \in 0 .. cJSON_GetArraySize(heap, array) - 1 :
            Free(get_array_item(heap, array, which)) /\ ReplaceItem(array, which, item)
    \/ \E object \in ObjectItem, s \in Name, item \in owned, case_sensitive \in BOOLEAN, left \in Upto(1) :
            /\ \A old \in {get_object_item(heap, object, heap.str[s], case_sensitive)} \ {NULL} : Free(old)
            /\ ReplaceItemInObject(object, s, item, case_sensitive, left)
    \/ \E n \in heap.live, recurse \in BOOLEAN, left \in Budget : Duplicate(n, recurse, left)
    \/ \E n \in heap.live, s \in Value, left \in Upto(1) : Free(n) /\ SetValuestring(n, s, left)
    \/ \E n \in heap.live : heap.item[n].type = "Number" /\ SetNumber(n, 2)

Next ==
    \/ calls = 0 /\ \E text \in Text, left \in Budget : Parse(text, left)
    \/ calls = 0 /\ \E file \in ConfigFile, left \in ConfigBudget : load_config(file, left)
    \/ calls < MaxCalls /\ Edit

Spec == Init /\ [][Next]_vars

-------------------------------------------------------------------------------
\* Of every list prev and next agree, the first item knows the last, and a root is
\* linked to nothing: what adding at the end, inserting, replacing, taking out,
\* copying and parsing each keep up with links of their own.
ListsSound ==
    /\ \A c \in Container :
          LET items == Children(heap, c)
              last  == Len(items)
          IN  /\ ToSet(items) \subseteq heap.live
              /\ IsInjective(items)
              /\ \A i \in DOMAIN items :
                    heap.item[items[i]].prev = items[IF i = 1 THEN last ELSE i - 1]
              /\ last > 0 => heap.item[items[last]].next = NULL
    /\ \A n \in owned : heap.item[n].next = NULL /\ heap.item[n].prev = NULL

\* Nothing is freed twice, used after it was freed or written beyond its end, and
\* whatever call runs out of memory, all that is allocated belongs to one root the
\* program holds, or was lost with the reference cJSON_AddItemReferenceToObject
\* could not name.
OwnedOnce ==
    LET roots == owned \cup lost
        Owns(n, s) == \/ heap.item[n].valuestring = s /\ ~heap.item[n].isReference
                      \/ heap.item[n].string = s /\ ~heap.item[n].stringIsConst
        Pointers(n) == {heap.item[n].valuestring, heap.item[n].string} \ {NULL}
    IN  /\ ~heap.fault
        /\ roots \subseteq heap.live
        /\ heap.live = UNION {Below(heap, n) : n \in roots}
        /\ \A m, n \in roots : m # n => Below(heap, m) \cap Below(heap, n) = {}
        /\ \A s \in heap.strs \ Static : \E n \in heap.live : {m \in heap.live : Owns(m, s)} = {n}
        /\ \A n \in heap.live : Pointers(n) \subseteq heap.strs
        /\ \A r \in References(heap) : Shared(heap, r) \subseteq heap.live

-------------------------------------------------------------------------------
\* What a tree says: names count only in objects.
RECURSIVE Meaning(_, _)
Meaning(h, n) ==
    LET x     == h.item[n]
        Of(s) == IF s = NULL THEN <<>> ELSE h.str[s]
        items == IF x.type \in {"Array", "Object"} THEN Children(h, n) ELSE <<>>
    IN  [type  |-> x.type,
         value |-> IF x.type = "Number" THEN x.value ELSE 0,
         text  |-> IF x.type \in {"String", "Raw"} THEN Of(x.valuestring) ELSE <<>>,
         items |-> [i \in DOMAIN items |->
                       [name |-> IF x.type = "Object" THEN Of(h.item[items[i]].string) ELSE <<>>,
                        is   |-> Meaning(h, items[i])]]]

RECURSIVE Height(_), Size(_), HasRaw(_), UniqueNames(_)
Height(tree) ==
    IF tree.type \notin {"Array", "Object"} THEN 0
    ELSE 1 + Max({0} \cup {Height(x.is) : x \in ToSet(tree.items)})
Size(tree) == 1 + Sum(LAMBDA x : Size(x.is), tree.items)
HasRaw(tree) == tree.type = "Raw" \/ \E x \in ToSet(tree.items) : HasRaw(x.is)
UniqueNames(tree) ==
    /\ tree.type = "Object" =>
          \A i, j \in DOMAIN tree.items :
             i # j => ~case_insensitive_strcmp(tree.items[i].name, tree.items[j].name)
    /\ \A x \in ToSet(tree.items) : UniqueNames(x.is)

\* A tree is printed without a byte behind the end of the buffer, however large that
\* is: a buffer of the caller with the five bytes to spare that the header asks for
\* is always enough, and a smaller one gives the same text or none.
Fits(h, n, format) ==
    LET printed == print(h, n, format)
        size    == Bytes(printed.out)
    IN  /\ printed.ok /\ ~printed.fault
        /\ \A length \in {size, size + 5} :
              /\ LET p == cJSON_PrintPreallocated(h, n, length, format)
                 IN  ~p.fault /\ (p.ok => p.out = printed.out) /\ (length = size + 5 => p.ok)
              /\ LET p == cJSON_PrintBuffered(h, n, length, format)
                 IN  p.ok /\ ~p.fault /\ p.out = printed.out

\* Texts that are printed as they were read but for the blanks: without what is
\* escaped in another way, numbers that begin with a 0, characters that ought to be
\* escaped, and escaped backslashes, whose second half cJSON_Minify takes for the
\* escape of a quote.
Regular(text) ==
    /\ ToSet(text) \cap (Quad \cup {"/", "BOM"}) = {}
    /\ Quote \in ToSet(text) => ToSet(text) \cap Blank \subseteq {" "}
    /\ \A i \in 1 .. Len(text) - 1 :
          /\ text[i] = Backslash => text[i + 1] # Backslash
          /\ text[i] = "0" => text[i + 1] \notin NumberChar
          /\ text[i] = "-" => text[i + 1] # "0"

\* A printed text is parsed to a tree that says the same, formatted or not, and
\* cJSON_Minify takes the format away again; unless the tree is deeper than the
\* parser goes, which then refuses the text, or has raw parts.  cJSON_Compare takes
\* trees that say the same for the same, if their names are unique.
RoundTrip ==
    \A n \in owned, format \in BOOLEAN :
        LET tree   == Meaning(heap, n)
            again  == cJSON_Parse([EmptyHeap EXCEPT !.left = 4 * MaxItem], print(heap, n, format).out)
        IN  /\ Fits(heap, n, format)
            /\ ~HasRaw(tree) /\ Size(tree) <= MaxItem =>
                  IF Height(tree) > CJSON_NESTING_LIMIT THEN again.n = NULL
                  ELSE /\ again.n # NULL /\ Meaning(again.h, again.n) = tree
                       /\ Regular(print(heap, n, FALSE).out) =>
                             Minify(print(heap, n, format).out) = print(heap, n, FALSE).out
            /\ \A m \in owned :
                  UniqueNames(tree) /\ Meaning(heap, m) = tree => cJSON_Compare(heap, m, n, TRUE)

\* What the parser accepts, printed, is what it has read, to the character: the
\* parser, the printer and cJSON_Minify have their own idea each of where a string
\* and a token ends.  It stops inside the text.
ParsedIsPrinted ==
    LET read == SubSeq(parsed.text, 1, parsed.pos - 1)
    IN  /\ parsed # Nothing => parsed.pos \in 0 .. Len(parsed.text) + 1
        /\ parsed.n # NULL /\ Regular(read) =>
              /\ print(heap, parsed.n, FALSE).out = Minify(read)
              /\ Minify(<<"/", "/", "a", "LF">> \o read \o <<"/", "*", "a", "*", "/">>) = Minify(read)

\* Numbers with what stands between them; none has more than two digits.
Joined(numbers, separator, base) ==
    LET digits(n) == (IF n < base THEN <<>> ELSE <<Digits[(n \div base) + 1]>>) \o <<Digits[(n % base) + 1]>>
        upto[k \in 0 .. Len(numbers)] ==
            IF k = 0 THEN <<>>
            ELSE upto[k - 1] \o (IF k = 1 THEN <<>> ELSE <<separator>>) \o digits(numbers[k])
    IN  upto[Len(numbers)]

\* Whatever the file holds, and wherever memory runs out, load_config leaves the
\* addresses compiled in, all of them, or it has found four strings, and then every
\* address begins as its string does and ends as before.  Nothing stays allocated.
ConfigKept ==
    LET result      == cJSON_Parse([EmptyHeap EXCEPT !.left = 4 * MaxItem], parsed.text)
        Given(name) == {x.is.text : x \in {y \in ToSet(Meaning(result.h, result.n).items) :
                                              y.name = <<name>> /\ y.is.type = "String"}}
        Compact(text) == SelectSeq(text, LAMBDA c : c \notin Blank)
        From(name, address, default, separator, base) ==
            \E text \in Given(name), k \in 0 .. Len(default) :
                /\ IsPrefix(Joined(SubSeq(address, 1, k), separator, base), Compact(text))
                /\ SubSeq(address, k + 1, Len(address)) = SubSeq(default, k + 1, Len(default))
    IN  /\ calls > 0 /\ parsed # Nothing /\ parsed.n = NULL => heap.live = {} /\ heap.strs = Static
        /\ config # Default =>
              /\ result.n # NULL
              /\ From("host_ip", config.host_ip, Default.host_ip, ".", 10)
              /\ From("host_mac", config.host_mac, Default.host_mac, ":", 16)
              /\ From("real_host_mac", config.real_host_mac, Default.real_host_mac, ":", 16)
              /\ \E text \in Given("real_host_ip") :
                    IsPrefix(config.real_host_ip, text) /\ Len(config.real_host_ip) < IpSize
===============================================================================
