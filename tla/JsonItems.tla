------------------------------- MODULE JsonItems ------------------------------
(***************************************************************************)
(* The heap of net_app/cJSON.c: items, which are linked to trees, and the  *)
(* strings they point to, with the functions that build, take apart and    *)
(* compare trees.                                                          *)
(*                                                                         *)
(* A heap is a value: a function that changes it returns the heap, or a    *)
(* record of the heap and its result.  left says how many more calls of    *)
(* malloc succeed; fault is set by a double free, by an access to what was *)
(* freed and by a write behind a buffer.                                   *)
(***************************************************************************)
EXTENDS JsonText

CONSTANTS
    MaxItem, MaxStr,    \* bounds of the model: items and strings at one time
    CIRCULAR_LIMIT,     \* CJSON_CIRCULAR_LIMIT
    Literal             \* the strings of the caller, which no one allocates or frees

NULL    == 0
ItemId  == 1 .. MaxItem
Static  == 1 .. Len(Literal)
StrId   == 1 .. Len(Literal) + MaxStr

\* isReference and stringIsConst are the flags of type.
Blanked == [type |-> "Invalid", isReference |-> FALSE, stringIsConst |-> FALSE, value |-> 0,
            valuestring |-> NULL, string |-> NULL, child |-> NULL, next |-> NULL, prev |-> NULL]
EmptyHeap ==
    [item |-> [n \in ItemId |-> Blanked], live |-> {},
     str |-> [s \in StrId |-> IF s \in Static THEN Literal[s] ELSE <<>>], strs |-> Static,
     left |-> 0, fault |-> FALSE]

Least(S) == CHOOSE x \in S : \A y \in S : x <= y
Fault(h) == [h EXCEPT !.fault = TRUE]

\* malloc has memory, and the model a number, for another one.
HasItem(h) == h.left > 0 /\ h.live # ItemId
HasStr(h)  == h.left > 0 /\ h.strs # StrId

-------------------------------------------------------------------------------
\* Allocation.

\* The item, all zero, or NULL.
cJSON_New_Item(h) ==
    IF ~HasItem(h) THEN [h |-> h, n |-> NULL]
    ELSE LET n == Least(ItemId \ h.live)
         IN  [h |-> [h EXCEPT !.live = @ \cup {n}, !.item[n] = Blanked, !.left = @ - 1], n |-> n]

\* A new string of these characters, or NULL.
NewStr(h, text) ==
    IF ~HasStr(h) THEN [h |-> h, s |-> NULL]
    ELSE LET s == Least(StrId \ h.strs)
         IN  [h |-> [h EXCEPT !.strs = @ \cup {s}, !.str[s] = text, !.left = @ - 1], s |-> s]
cJSON_strdup(h, s) == IF s = NULL THEN [h |-> h, s |-> NULL] ELSE NewStr(h, h.str[s])

\* deallocate(string), if there is one.
FreeStr(h, s) ==
    CASE s = NULL                     -> h
      [] s # NULL /\ (s \in Static \/ s \notin h.strs) -> Fault(h)
      [] OTHER                        -> [h EXCEPT !.strs = @ \ {s}, !.str[s] = <<>>]

\* An item, the strings and the children it does not merely refer to, and what is
\* linked behind it.
RECURSIVE cJSON_Delete(_, _)
cJSON_Delete(h, n) ==
    IF n = NULL THEN h
    ELSE IF n \notin h.live THEN Fault(h)
    ELSE LET x    == h.item[n]
             kids == IF x.isReference THEN h ELSE cJSON_Delete(h, x.child)
             text == IF x.isReference THEN kids ELSE FreeStr(kids, x.valuestring)
             name == IF x.stringIsConst THEN text ELSE FreeStr(text, x.string)
         IN  cJSON_Delete(IF n \notin name.live THEN Fault(name)
                          ELSE [name EXCEPT !.live = @ \ {n}, !.item[n] = Blanked], x.next)

\* The tree that is not wanted after all.
Refused(h, n) == [h |-> cJSON_Delete(h, n), n |-> NULL]

-------------------------------------------------------------------------------
\* Reading.

\* The items of a container, as its next pointers have them.
Children(h, n) ==
    LET from[k \in 0 .. MaxItem, m \in 0 .. MaxItem] ==
            IF k = 0 \/ m = NULL THEN <<>> ELSE <<m>> \o from[k - 1, h.item[m].next]
    IN  IF n = NULL THEN <<>> ELSE from[MaxItem, h.item[n].child]

cJSON_GetArraySize(h, n) == Len(Children(h, n))
get_array_item(h, n, index) ==
    LET items == Children(h, n)
    IN  IF index + 1 \in DOMAIN items THEN items[index + 1] ELSE NULL

\* The first item of that name; without a name the search goes on, but a search
\* that minds the case ends there, and finds nothing.
SameName(s, t, case_sensitive) == IF case_sensitive THEN s = t ELSE case_insensitive_strcmp(s, t)
get_object_item(h, n, name, case_sensitive) ==
    LET items == Children(h, n)
        Stops(i) == LET s == h.item[items[i]].string
                    IN  IF s = NULL THEN case_sensitive
                        ELSE SameName(name, h.str[s], case_sensitive)
        stops == {i \in DOMAIN items : Stops(i)}
    IN  IF stops = {} THEN NULL
        ELSE IF h.item[items[Least(stops)]].string = NULL THEN NULL ELSE items[Least(stops)]
cJSON_GetObjectItem(h, n, name) == get_object_item(h, n, name, FALSE)

IsType(h, n, type) == n # NULL /\ h.item[n].type = type

-------------------------------------------------------------------------------
\* Lists.  Of its first item prev is the last one.

suffix_object(h, prev, item) == [h EXCEPT !.item[prev].next = item, !.item[item].prev = prev]

\* The result: the heap, and whether the call reports success.
Done(h)      == [h |-> h, ok |-> TRUE]
Rejected(h)  == [h |-> h, ok |-> FALSE]

add_item_to_array(h, array, item) ==
    IF item = NULL \/ array = NULL \/ array = item THEN Rejected(h)
    ELSE LET child == h.item[array].child
         IN  IF child = NULL
             THEN Done([h EXCEPT !.item[array].child = item, !.item[item].prev = item,
                                 !.item[item].next = NULL])
             ELSE IF h.item[child].prev = NULL THEN Done(h)
             ELSE Done([suffix_object(h, h.item[child].prev, item) EXCEPT !.item[child].prev = item])

\* The key is the caller's string itself, or a copy.
add_item_to_object(h, object, s, item, constant_key) ==
    IF object = NULL \/ item = NULL \/ object = item THEN Rejected(h)
    ELSE LET key == IF constant_key THEN [h |-> h, s |-> s] ELSE cJSON_strdup(h, s)
             old == IF h.item[item].stringIsConst THEN NULL ELSE h.item[item].string
             named == [FreeStr(key.h, old) EXCEPT !.item[item].string = key.s,
                                                  !.item[item].stringIsConst = constant_key]
         IN  IF key.s = NULL THEN Rejected(h) ELSE add_item_to_array(named, object, item)

\* An item that shares the value of another one.
create_reference(h, item) ==
    LET made == IF item = NULL THEN [h |-> h, n |-> NULL] ELSE cJSON_New_Item(h)
    IN  IF made.n = NULL THEN made
        ELSE [made EXCEPT !.h.item[made.n] = [h.item[item] EXCEPT !.string = NULL, !.isReference = TRUE,
                                                                  !.next = NULL, !.prev = NULL]]
cJSON_AddItemReferenceToArray(h, array, item) ==
    LET made == create_reference(h, item) IN add_item_to_array(made.h, array, made.n)
cJSON_AddItemReferenceToObject(h, object, s, item) ==
    LET made == create_reference(h, item) IN add_item_to_object(made.h, object, s, made.n, FALSE)

\* Mutant of cJSON_DetachItemViaPointer: the last item is forgotten.
DetachKeepLast(h, parent, item) ==
    LET x == h.item[item]
        before == IF item # h.item[parent].child THEN [h EXCEPT !.item[x.prev].next = x.next] ELSE h
        behind == IF x.next # NULL THEN [before EXCEPT !.item[x.next].prev = x.prev] ELSE before
        first  == IF item = h.item[parent].child THEN [behind EXCEPT !.item[parent].child = x.next]
                  ELSE behind
    IN  [first EXCEPT !.item[item].next = NULL, !.item[item].prev = NULL]

\* item is one of parent.
cJSON_DetachItemViaPointer(h, parent, item) ==
    LET x == h.item[item]
        before == IF item # h.item[parent].child THEN [h EXCEPT !.item[x.prev].next = x.next] ELSE h
        behind == IF x.next # NULL THEN [before EXCEPT !.item[x.next].prev = x.prev] ELSE before
        ends   == IF item = h.item[parent].child THEN [behind EXCEPT !.item[parent].child = x.next]
                  ELSE IF x.next = NULL THEN [behind EXCEPT !.item[h.item[parent].child].prev = x.prev]
                  ELSE behind
    IN  [ends EXCEPT !.item[item].next = NULL, !.item[item].prev = NULL]

cJSON_InsertItemInArray(h, array, which, newitem) ==
    LET after == get_array_item(h, array, which)
        x == h.item[after]
        linked == [h EXCEPT !.item[newitem].next = after, !.item[newitem].prev = x.prev,
                            !.item[after].prev = newitem]
    IN  IF newitem = NULL THEN Rejected(h)
        ELSE IF after = NULL THEN add_item_to_array(h, array, newitem)
        ELSE IF after # h.item[array].child /\ x.prev = NULL THEN Rejected(h)
        ELSE IF after = h.item[array].child THEN Done([linked EXCEPT !.item[array].child = newitem])
        ELSE Done([linked EXCEPT !.item[x.prev].next = newitem])

\* The replacement takes the place of item, which is deleted.
cJSON_ReplaceItemViaPointer(h, parent, item, replacement) ==
    IF parent = NULL \/ replacement = NULL \/ item = NULL THEN Rejected(h)
    ELSE IF h.item[parent].child = NULL THEN Rejected(h)
    ELSE IF replacement = item THEN Done(h)
    ELSE LET x == h.item[item]
             child == h.item[parent].child
             linked == [h EXCEPT !.item[replacement].next = x.next, !.item[replacement].prev = x.prev]
             behind == IF x.next = NULL THEN linked ELSE [linked EXCEPT !.item[x.next].prev = replacement]
             first  == IF behind.item[child].prev = child
                       THEN [behind EXCEPT !.item[replacement].prev = replacement] ELSE behind
             inside == IF x.prev = NULL THEN behind ELSE [behind EXCEPT !.item[x.prev].next = replacement]
             placed == IF child = item THEN [first EXCEPT !.item[parent].child = replacement]
                       ELSE IF x.next = NULL THEN [inside EXCEPT !.item[child].prev = replacement]
                       ELSE inside
         IN  Done(cJSON_Delete([placed EXCEPT !.item[item].next = NULL, !.item[item].prev = NULL], item))

\* The replacement gets its name first, whether there is an item to replace or not.
replace_item_in_object(h, object, s, replacement, case_sensitive) ==
    LET x == h.item[replacement]
        key == cJSON_strdup(FreeStr(h, IF x.stringIsConst THEN NULL ELSE x.string), s)
        named == [key.h EXCEPT !.item[replacement].string = key.s]
    IN  IF key.s = NULL THEN Rejected(named)
        ELSE LET ready == [named EXCEPT !.item[replacement].stringIsConst = FALSE]
             IN  cJSON_ReplaceItemViaPointer(ready, object,
                     get_object_item(ready, object, h.str[s], case_sensitive), replacement)

-------------------------------------------------------------------------------
\* Creation.  The result: the heap, and the item or NULL.

CreateItem(h, type, isReference, value, s, child) ==
    LET made == cJSON_New_Item(h)
    IN  IF made.n = NULL THEN made
        ELSE [made EXCEPT !.h.item[made.n] =
                 [Blanked EXCEPT !.type = type, !.isReference = isReference, !.value = value,
                                 !.valuestring = s, !.child = child]]

\* cJSON_CreateNull, True, False, Bool, Array and Object; Number.
cJSON_Create(h, type)        == CreateItem(h, type, FALSE, 0, NULL, NULL)
cJSON_CreateNumber(h, value) == CreateItem(h, "Number", FALSE, value, NULL, NULL)

\* cJSON_CreateString and cJSON_CreateRaw, with a copy of s, and the references.
CreateCopy(h, type, s) ==
    LET made == cJSON_Create(h, type)
        copy == cJSON_strdup(made.h, s)
    IN  IF made.n = NULL THEN made
        ELSE IF copy.s = NULL THEN Refused(made.h, made.n)
        ELSE [h |-> [copy.h EXCEPT !.item[made.n].valuestring = copy.s], n |-> made.n]
cJSON_CreateStringReference(h, s)            == CreateItem(h, "String", TRUE, 0, s, NULL)
cJSON_CreateContainerReference(h, type, child) == CreateItem(h, type, TRUE, 0, NULL, child)

\* cJSON_AddNullToObject and the like: what was made is deleted if it is not added.
AddNew(made, object, s) ==
    LET added == add_item_to_object(made.h, object, s, made.n, FALSE)
    IN  IF added.ok THEN [h |-> added.h, n |-> made.n] ELSE Refused(added.h, made.n)

\* cJSON_CreateIntArray, Float, Double and String: an array of numbers or strings,
\* item by item: list is the heap, the array or NULL, and the item made last.
Made(h, type, value) ==
    IF type = "Number" THEN cJSON_CreateNumber(h, value) ELSE CreateCopy(h, type, value)
Grown(list, made) ==
    IF made.n = NULL THEN Refused(made.h, list.n) @@ [last |-> NULL]
    ELSE [h |-> IF list.last = NULL THEN [made.h EXCEPT !.item[list.n].child = made.n]
                ELSE suffix_object(made.h, list.last, made.n),
          n |-> list.n, last |-> made.n]
Ended(list) ==
    [h |-> IF list.n = NULL \/ list.last = NULL THEN list.h
           ELSE [list.h EXCEPT !.item[list.h.item[list.n].child].prev = list.last],
     n |-> list.n]
CreateArray(h, type, values) ==
    LET filled[i \in 0 .. Len(values)] ==
            IF i = 0 THEN cJSON_Create(h, "Array") @@ [last |-> NULL]
            ELSE IF filled[i - 1].n = NULL THEN filled[i - 1]
            ELSE Grown(filled[i - 1], Made(filled[i - 1].h, type, values[i]))
    IN  Ended(filled[Len(values)])

\* A copy of an item, with its children if recurse is set; nothing of it refers.
RECURSIVE cJSON_Duplicate_rec(_, _, _, _), DuplicateList(_, _, _, _)
CopyNamed(name, x, n, depth, recurse) ==
    IF x.string # NULL /\ name.s = NULL THEN Refused(name.h, n)
    ELSE IF recurse THEN DuplicateList([name.h EXCEPT !.item[n].string = name.s], [n |-> n, last |-> NULL],
                                       x.child, depth)
    ELSE [h |-> [name.h EXCEPT !.item[n].string = name.s], n |-> n]
CopyValued(h, x, n, depth, recurse) ==
    CopyNamed(IF x.stringIsConst THEN [h |-> h, s |-> x.string] ELSE cJSON_strdup(h, x.string),
              x, n, depth, recurse)
CopyText(text, x, n, depth, recurse) ==
    IF x.valuestring # NULL /\ text.s = NULL THEN Refused(text.h, n)
    ELSE CopyValued([text.h EXCEPT !.item[n].valuestring = text.s], x, n, depth, recurse)
CopyItem(made, x, depth, recurse) ==
    IF made.n = NULL THEN made
    ELSE CopyText(cJSON_strdup([made.h EXCEPT !.item[made.n] =
                      [Blanked EXCEPT !.type = x.type, !.value = x.value, !.stringIsConst = x.stringIsConst]],
                      x.valuestring), x, made.n, depth, recurse)
cJSON_Duplicate_rec(h, item, depth, recurse) ==
    CopyItem(cJSON_New_Item(h), h.item[item], depth, recurse)

\* The children from child on, behind those that list has.
CopyChild(made, list, next, depth) ==
    IF made.n = NULL THEN Refused(made.h, list.n)
    ELSE DuplicateList(Grown(list, made).h, [list EXCEPT !.last = made.n], next, depth)
DuplicateList(h, list, child, depth) ==
    IF child = NULL THEN Ended(list @@ [h |-> h])
    ELSE IF depth >= CIRCULAR_LIMIT THEN Refused(h, list.n)
    ELSE CopyChild(cJSON_Duplicate_rec(h, child, depth + 1, TRUE), list, h.item[child].next, depth)
cJSON_Duplicate(h, item, recurse) == cJSON_Duplicate_rec(h, item, 0, recurse)

\* Another text for a string: in its place if it is not longer, else in a new one.
cJSON_SetValuestring(h, n, s) ==
    LET x == h.item[n]
        copy == cJSON_strdup(h, s)
    IN  IF x.type # "String" \/ x.isReference \/ x.valuestring = NULL \/ s = NULL THEN h
        ELSE IF Bytes(h.str[s]) <= Bytes(h.str[x.valuestring])
        THEN [h EXCEPT !.str[x.valuestring] = h.str[s], !.fault = @ \/ x.valuestring \in Static]
        ELSE IF copy.s = NULL THEN h
        ELSE [FreeStr(copy.h, x.valuestring) EXCEPT !.item[n].valuestring = copy.s]
cJSON_SetNumberHelper(h, n, value) == [h EXCEPT !.item[n].value = value]

-------------------------------------------------------------------------------
\* Whether two trees are equal: lists item by item, objects name by name.
RECURSIVE cJSON_Compare(_, _, _, _)
cJSON_Compare(h, a, b, case_sensitive) ==
    LET x == h.item[a]
        y == h.item[b]
        Equal(i, j) == cJSON_Compare(h, i, j, case_sensitive)
        Items(n) == Children(h, n)
        Found(i, n) == IF h.item[i].string = NULL THEN NULL
                       ELSE get_object_item(h, n, h.str[h.item[i].string], case_sensitive)
        Covers(m, n) == \A i \in ToSet(Items(m)) : Found(i, n) # NULL /\ Equal(i, Found(i, n))
    IN  CASE a = NULL \/ b = NULL     -> FALSE
          [] a # NULL /\ b # NULL /\ (x.type # y.type \/ x.type = "Invalid") -> FALSE
          [] OTHER ->
               \/ a = b
               \/ x.type \in {"NULL", "True", "False"}
               \/ x.type = "Number" /\ x.value = y.value
               \/ /\ x.type \in {"String", "Raw"}
                  /\ x.valuestring # NULL /\ y.valuestring # NULL
                  /\ h.str[x.valuestring] = h.str[y.valuestring]
               \/ /\ x.type = "Array"
                  /\ Len(Items(a)) = Len(Items(b))
                  /\ \A i \in DOMAIN Items(a) : Equal(Items(a)[i], Items(b)[i])
               \/ x.type = "Object" /\ Covers(a, b) /\ Covers(b, a)
===============================================================================
