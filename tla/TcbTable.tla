------------------------------- MODULE TcbTable -------------------------------
(***************************************************************************)
(* The memory behind the connections (net_app/tcp.c): tcb_table with its   *)
(* chains of nodes, and the retransmission buffer of each node, at the     *)
(* grain of their reads and writes.  Three threads work on them without a  *)
(* lock: the process thread inserts a node on a SYN, looks one up for      *)
(* every other segment, releases nodes, frees buffers and sends; the       *)
(* command thread inserts a node in tcp_connect and sends; the send thread *)
(* walks all chains in check_retransmit.                                   *)
(*                                                                         *)
(* `locked' is the assumption that the uses of retrans_buf never overlap,  *)
(* as if a lock were held; the code holds none.  It is made or not at the  *)
(* start and lets a property say what it needs.  Abstracted: states, windows and     *)
(* numbers, which decide whether a segment releases, acknowledges or sends *)
(* and whether a payload is due: here it may, at any time (module Tcp has  *)
(* them).                                                                  *)
(***************************************************************************)
EXTENDS Naturals, FiniteSets

CONSTANTS
    Listening,      \* 4-tuples the process thread inserts, on a SYN
    Client,         \* 4-tuples the command thread inserts, in tcp_connect
    Buckets,        \* TCB_TABLE_MAX_SIZE
    Hash,           \* calculate_hash, a function from 4-tuples to buckets
    Size,           \* the lengths of payloads
    MaxNode,        \* bound of the model: nodes allocated
    MaxBuf,         \* bound of the model: buffers allocated
    MaxAlloc        \* bound of the model: both together

\* The local port tells the two apart: the one that is listened on, and 8888.
ASSUME KeyAssumption   == Listening \cap Client = {} /\ Listening \cup Client # {}
ASSUME HashAssumption  == /\ Buckets \in Nat \ {0}
                          /\ Hash \in [Listening \cup Client -> 0 .. Buckets - 1]
ASSUME SizeAssumption  == Size \subseteq Nat \ {0}
ASSUME BoundAssumption == MaxNode \in Nat \ {0} /\ MaxBuf \in Nat \ {0} /\ MaxAlloc \in Nat

NULL   == 0
Key    == Listening \cup Client
Bucket == 0 .. Buckets - 1
NodeId == 1 .. MaxNode
BufId  == 1 .. MaxBuf
Writer == {"proc", "cmd"}
Thread == Writer \cup {"send"}

Node  == [key : Key, valid : BOOLEAN, next : NodeId \cup {NULL},
          buf : BufId \cup {NULL}, len : Size \cup {0}]
Blank == [key |-> CHOOSE k \in Key : TRUE, valid |-> FALSE, next |-> NULL,
          buf |-> NULL, len |-> 0]

\* Where a thread is: in get_tcb, in insert_tcb, at the node it has found, in
\* tcp_send_data, at an acknowledged buffer; the send thread at a node, at its buffer.
InsertPlace  == {"walk", "link", "publish"}
PayloadPlace == {"free_old", "malloc", "memcpy", "set_len",
                 "free_acked", "clear_buf", "clear_len", "read_len", "copy"}
Place == {"idle", "found", "sweep"} \cup InsertPlace \cup PayloadPlace

\* What it holds: the 4-tuple and whether it inserts it, or the bucket; the node;
\* the pointer and the length it has read, or the length it is to store; saw is
\* history: the node of the 4-tuple when get_tcb read the head.
Local == [at : Place, key : Key, inserting : BOOLEAN, bucket : Bucket,
          cur : NodeId \cup {NULL}, buf : BufId \cup {NULL}, len : Size \cup {0},
          saw : NodeId \cup {NULL}]
Rest  == [at |-> "idle", key |-> Blank.key, inserting |-> FALSE, bucket |-> Buckets - 1,
          cur |-> NULL, buf |-> NULL, len |-> 0, saw |-> NULL]

VARIABLES
    head,       \* tcb_table: the first node of each bucket
    node,       \* the nodes
    nodes,      \* how many of them were allocated
    size,       \* the buffers: how long each is, 0 before it is allocated
    freed,      \* those of them that were freed
    thread,     \* what each thread does
    locked,     \* whether the uses of a buffer are assumed not to overlap
    fault       \* the misuse of the heap, if there was one: [kind, key of the node]

heapVars == <<size, freed, fault>>
vars == <<head, node, nodes, heapVars, thread, locked>>

Fault == [kind : {"double_free", "bad_write", "bad_read"}, key : Key]

-------------------------------------------------------------------------------
Goto(t, place) == thread' = [thread EXCEPT ![t].at = place]
Cur(t) == node[thread[t].cur]
Put(n, changed) == node' = [node EXCEPT ![n] = changed]

\* Whether t is at a buffer, and may come to one.
AtBuffer(t) == thread[t].at \in PayloadPlace
MayEnter(t) == locked => \A u \in Thread \ {t} : ~AtBuffer(u)

MayAllocate == nodes + Cardinality({b \in BufId : size[b] # 0}) < MaxAlloc

\* The nodes from n on, the least set that has n and what its members point to; the
\* nodes of a bucket, and the one a 4-tuple is mapped to.
Closed(S) == \A n \in S : node[n].next \in S \cup {NULL}
From(n)   == {m \in NodeId : \A S \in SUBSET NodeId : n \in S \cup {NULL} /\ Closed(S) => m \in S}
Chain(b)  == From(head[b])
Mapped(k) == {n \in Chain(Hash[k]) : node[n].valid /\ node[n].key = k}
TheNode(k) == IF Mapped(k) = {} THEN NULL ELSE CHOOSE n \in Mapped(k) : TRUE

-------------------------------------------------------------------------------
\* get_tcb and insert_tcb.

\* The writer reads the head of the bucket.
StartAt(t, k, inserting, place) ==
    thread' = [thread EXCEPT ![t] = [Rest EXCEPT !.at = place, !.key = k, !.inserting = inserting,
                                                 !.bucket = Hash[k], !.cur = head[Hash[k]],
                                                 !.saw = TheNode(k)]]

\* Mutant of look_for: a node is inserted without a search.
InsertUnchecked(t, k, inserting) ==
    /\ thread[t].at = "idle"
    /\ StartAt(t, k, inserting, IF inserting THEN "link" ELSE "walk")
    /\ UNCHANGED <<head, node, nodes, heapVars, locked>>

look_for(t, k, inserting) ==
    /\ thread[t].at = "idle"
    /\ StartAt(t, k, inserting, "walk")
    /\ UNCHANGED <<head, node, nodes, heapVars, locked>>

\* What follows get_tcb: a segment without a node is ignored, a SYN with one only
\* answered, tcp_connect with one goes on with it.
Missed(t) ==
    thread' = [thread EXCEPT ![t] = IF @.inserting THEN [@ EXCEPT !.at = "link", !.saw = NULL]
                                    ELSE Rest]
Hit(t) ==
    thread' = [thread EXCEPT ![t] =
        CASE ~@.inserting                -> [Rest EXCEPT !.at = "found", !.cur = thread[t].cur]
          [] @.inserting /\ t = "cmd"    -> [Rest EXCEPT !.cur = thread[t].cur]
          [] @.inserting /\ t = "proc"   -> Rest]
Onward(t) == thread' = [thread EXCEPT ![t].cur = Cur(t).next]

\* Mutant of get_tcb: released nodes are taken, too.
TakeReleased(t) ==
    /\ thread[t].at = "walk"
    /\ IF thread[t].cur = NULL THEN Missed(t)
       ELSE IF Cur(t).key = thread[t].key THEN Hit(t) ELSE Onward(t)
    /\ UNCHANGED <<head, node, nodes, heapVars, locked>>

get_tcb(t) ==
    /\ thread[t].at = "walk"
    /\ IF thread[t].cur = NULL THEN Missed(t)
       ELSE IF Cur(t).valid /\ Cur(t).key = thread[t].key THEN Hit(t) ELSE Onward(t)
    /\ UNCHANGED <<head, node, nodes, heapVars, locked>>

\* The head is read again: node->next = tcb_table[index]; node->valid = 1.
link(t) ==
    /\ thread[t].at = "link"
    /\ nodes < MaxNode /\ MayAllocate
    /\ nodes' = nodes + 1
    /\ Put(nodes', [Blank EXCEPT !.key = thread[t].key, !.valid = TRUE,
                                 !.next = head[thread[t].bucket]])
    /\ thread' = [thread EXCEPT ![t] = [@ EXCEPT !.at = "publish", !.cur = nodes']]
    /\ UNCHANGED <<head, heapVars, locked>>

\* tcb_table[index] = node; tcp_conversation keeps the node.
publish(t) ==
    /\ thread[t].at = "publish"
    /\ head' = [head EXCEPT ![thread[t].bucket] = thread[t].cur]
    /\ Hit(t)
    /\ UNCHANGED <<node, nodes, heapVars, locked>>

\* The acknowledgement of LAST_ACK: the node stays in its chain, its buffer on it.
release(t) ==
    /\ thread[t].at = "found"
    /\ Put(thread[t].cur, [Cur(t) EXCEPT !.valid = FALSE])
    /\ thread' = [thread EXCEPT ![t] = Rest]
    /\ UNCHANGED <<head, nodes, heapVars, locked>>

\* The segment is handled.
done(t) ==
    /\ thread[t].at = "found"
    /\ thread' = [thread EXCEPT ![t] = Rest]
    /\ UNCHANGED <<head, node, nodes, heapVars, locked>>

-------------------------------------------------------------------------------
\* The retransmission buffer of the node a writer is at.

Misuse(t, kind) == fault' = {[kind |-> kind, key |-> Cur(t).key]}
Unused(b, len)  == b = NULL \/ b \in freed \/ size[b] < len

\* free(retrans_buf); of a NULL it does nothing.
Free(t) ==
    LET b == Cur(t).buf
    IN  IF b \in freed THEN Misuse(t, "double_free") /\ UNCHANGED freed
        ELSE freed' = freed \cup ({b} \ {NULL}) /\ UNCHANGED fault

\* Back to the segment, or to the prompt with the node of the conversation.
Back(t) ==
    thread' = [thread EXCEPT ![t] = IF t = "proc" THEN [@ EXCEPT !.at = "found", !.len = 0]
                                    ELSE [Rest EXCEPT !.cur = thread[t].cur]]

\* tcp_send_data in ESTABLISHED: for a segment, or for a line typed.
tcp_send_data(t, len) ==
    /\ IF t = "proc" THEN thread[t].at = "found" ELSE thread[t].at = "idle" /\ thread[t].cur # NULL
    /\ Cur(t).valid
    /\ MayEnter(t)
    /\ thread' = [thread EXCEPT ![t] = [@ EXCEPT !.at = "free_old", !.len = len]]
    /\ UNCHANGED <<head, node, nodes, heapVars, locked>>

\* Mutant of free_old: the payload before is forgotten.
ForgetOld(t) ==
    /\ thread[t].at = "free_old"
    /\ Goto(t, "malloc")
    /\ UNCHANGED <<head, node, nodes, heapVars, locked>>

free_old(t) ==
    /\ thread[t].at = "free_old"
    /\ Free(t)
    /\ Goto(t, "malloc")
    /\ UNCHANGED <<head, node, nodes, size, locked>>

\* It fails, and the payload is dropped with retrans_len left as it was; or not.
allocate(t) ==
    /\ thread[t].at = "malloc"
    /\ \/ /\ Put(thread[t].cur, [Cur(t) EXCEPT !.buf = NULL])
          /\ Back(t)
          /\ UNCHANGED size
       \/ \E b \in BufId :
             /\ MayAllocate /\ size[b] = 0
             /\ \A c \in BufId : c < b => size[c] # 0
             /\ size' = [size EXCEPT ![b] = thread[t].len]
             /\ Put(thread[t].cur, [Cur(t) EXCEPT !.buf = b])
             /\ Goto(t, "memcpy")
    /\ UNCHANGED <<head, nodes, freed, fault, locked>>

\* The pointer is read from the node again; cleared meanwhile, it may still have
\* looked like a failed malloc.
memcpy(t) ==
    /\ thread[t].at = "memcpy"
    /\ \/ Goto(t, "set_len") /\ IF Unused(Cur(t).buf, thread[t].len)
                                THEN Misuse(t, "bad_write") ELSE UNCHANGED fault
       \/ Cur(t).buf = NULL /\ Back(t) /\ UNCHANGED fault
    /\ UNCHANGED <<head, node, nodes, size, freed, locked>>

\* The length is stored behind the bytes, and tcp_send_data goes on to send them.
set_len(t) ==
    /\ thread[t].at = "set_len"
    /\ Put(thread[t].cur, [Cur(t) EXCEPT !.len = thread[t].len])
    /\ Back(t)
    /\ UNCHANGED <<head, nodes, heapVars, locked>>

\* handle_tcp_ack: the acknowledgement covers the payload.
acknowledge(t) ==
    /\ thread[t].at = "found"
    /\ Cur(t).buf # NULL
    /\ MayEnter(t)
    /\ Goto(t, "free_acked")
    /\ UNCHANGED <<head, node, nodes, heapVars, locked>>

free_acked(t) ==
    /\ thread[t].at = "free_acked"
    /\ Free(t)
    /\ Goto(t, "clear_buf")
    /\ UNCHANGED <<head, node, nodes, size, locked>>

\* Mutant of clear_buf: the pointer stays.
KeepPointer(t) ==
    /\ thread[t].at = "clear_buf"
    /\ Goto(t, "clear_len")
    /\ UNCHANGED <<head, node, nodes, heapVars, locked>>

clear_buf(t) ==
    /\ thread[t].at = "clear_buf"
    /\ Put(thread[t].cur, [Cur(t) EXCEPT !.buf = NULL])
    /\ Goto(t, "clear_len")
    /\ UNCHANGED <<head, nodes, heapVars, locked>>

clear_len(t) ==
    /\ thread[t].at = "clear_len"
    /\ Put(thread[t].cur, [Cur(t) EXCEPT !.len = 0])
    /\ Back(t)
    /\ UNCHANGED <<head, nodes, heapVars, locked>>

-------------------------------------------------------------------------------
\* check_retransmit, bucket after bucket, node after node.

next_bucket ==
    /\ thread["send"].at = "sweep"
    /\ thread["send"].cur = NULL
    /\ LET b == (thread["send"].bucket + 1) % Buckets
       IN  thread' = [thread EXCEPT !["send"] = [@ EXCEPT !.bucket = b, !.cur = head[b]]]
    /\ UNCHANGED <<head, node, nodes, heapVars, locked>>

\* Not valid, not ESTABLISHED, nothing stored, or not due yet.
next_node ==
    /\ thread["send"].at = "sweep"
    /\ thread["send"].cur # NULL
    /\ Onward("send")
    /\ UNCHANGED <<head, node, nodes, heapVars, locked>>

\* Due: the pointer is read, then the length, then the bytes.
retransmit ==
    /\ thread["send"].at = "sweep"
    /\ thread["send"].cur # NULL
    /\ LET n == Cur("send") IN n.valid /\ n.buf # NULL /\ n.len > 0
    /\ MayEnter("send")
    /\ thread' = [thread EXCEPT !["send"] = [@ EXCEPT !.at = "read_len", !.buf = Cur("send").buf]]
    /\ UNCHANGED <<head, node, nodes, heapVars, locked>>

read_len ==
    /\ thread["send"].at = "read_len"
    /\ thread' = [thread EXCEPT !["send"] = [@ EXCEPT !.at = "copy", !.len = Cur("send").len]]
    /\ UNCHANGED <<head, node, nodes, heapVars, locked>>

copy ==
    /\ thread["send"].at = "copy"
    /\ IF Unused(thread["send"].buf, thread["send"].len) THEN Misuse("send", "bad_read")
                                                        ELSE UNCHANGED fault
    /\ thread' = [thread EXCEPT !["send"] = [@ EXCEPT !.at = "sweep", !.cur = Cur("send").next,
                                                     !.buf = NULL, !.len = 0]]
    /\ UNCHANGED <<head, node, nodes, size, freed, locked>>

-------------------------------------------------------------------------------
Init == /\ head = [b \in Bucket |-> NULL]
        /\ node = [n \in NodeId |-> Blank] /\ nodes = 0
        /\ size = [b \in BufId |-> 0] /\ freed = {} /\ fault = {}
        /\ thread = [t \in Thread |-> IF t = "send" THEN [Rest EXCEPT !.at = "sweep"] ELSE Rest]
        /\ locked \in BOOLEAN

\* What a writer goes on with, and what it begins.
WriterStep(t) ==
    \/ get_tcb(t) \/ link(t) \/ publish(t)
    \/ free_old(t) \/ allocate(t) \/ memcpy(t) \/ set_len(t)
    \/ free_acked(t) \/ clear_buf(t) \/ clear_len(t)
Segment ==
    \/ \E k \in Listening : look_for("proc", k, TRUE)
    \/ \E k \in Key : look_for("proc", k, FALSE)
    \/ release("proc") \/ acknowledge("proc") \/ done("proc")
    \/ \E len \in Size : tcp_send_data("proc", len)
Command ==
    \/ \E k \in Client : look_for("cmd", k, TRUE)
    \/ \E len \in Size : tcp_send_data("cmd", len)
check_retransmit == next_bucket \/ next_node \/ retransmit \/ read_len \/ copy

\* What a program does whose heap was misused is not modelled.
Sane == fault = {}
Next == Sane /\ (Segment \/ Command \/ (\E t \in Writer : WriterStep(t)) \/ check_retransmit)

Spec == Init /\ [][Next]_vars

-------------------------------------------------------------------------------
TypeOK ==
    /\ head \in [Bucket -> NodeId \cup {NULL}]
    /\ node \in [NodeId -> Node]
    /\ nodes \in 0 .. MaxNode
    /\ size \in [BufId -> Size \cup {0}]
    /\ freed \subseteq BufId
    /\ thread \in [Thread -> Local]
    /\ locked \in BOOLEAN
    /\ fault \subseteq Fault

\* However the two insertions and the walks interleave: a chain has no cycle (it
\* leads to older nodes only), every node is in the bucket its 4-tuple hashes to,
\* and no 4-tuple has two valid nodes, as the two threads insert different ones.
ChainsSound ==
    \A b \in Bucket : \A n \in Chain(b) :
        /\ Hash[node[n].key] = b
        /\ node[n].next < n
        /\ node[n].valid => Mapped(node[n].key) = {n}

\* get_tcb returns the node its 4-tuple had when the walk began or has when it
\* ends, although nodes are linked and released under it: for each 4-tuple only
\* one thread inserts, and a node is linked in front of where a walk is.
LookupRight ==
    [][\A t \in Writer : thread[t].at = "walk" /\ thread'[t].at # "walk"
            => thread[t].cur \in {thread[t].saw, TheNode(thread[t].key)}]_vars

\* With the uses of retrans_buf kept apart there is no misuse, failed mallocs
\* included, and what is retransmitted is all of what was stored.
MemorySafe ==
    locked =>
        /\ fault = {}
        /\ thread["send"].at = "copy" => size[thread["send"].buf] = thread["send"].len

\* Even without any lock the buffer of an accepted connection is not freed twice
\* and not written after its free, as only the process thread does either: what
\* can go wrong with it is what the send thread reads.
AcceptedWritesSafe == \A f \in fault : f.key \in Listening => f.kind = "bad_read"

\* With those uses kept apart no payload leaks: a buffer is freed, or the one
\* buffer of one node, released nodes included, which keep theirs for ever.
PayloadOwned ==
    locked /\ (\A t \in Thread : ~AtBuffer(t)) =>
        \A b \in BufId : size[b] # 0 /\ b \notin freed =>
            Cardinality({n \in NodeId : node[n].buf = b}) = 1
===============================================================================
