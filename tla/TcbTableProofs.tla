---------------------------- MODULE TcbTableProofs ----------------------------
(***************************************************************************)
(* For every set of 4-tuples, every hash of them and every number of nodes *)
(* and buffers: what the chains of tcb_table and the retransmission        *)
(* buffers keep, however the three threads interleave without a lock.      *)
(***************************************************************************)
EXTENDS TcbTable, FiniteSetTheorems, TLAPS

-------------------------------------------------------------------------------
\* The chains.

\* The 4-tuples a writer inserts.
Owned(t) == IF t = "proc" THEN Listening ELSE Client

\* Nodes are allocated in order and lead to older ones of the same bucket.
NodesInv ==
    /\ \A n \in NodeId : n > nodes => node[n] = Blank
    /\ \A n \in NodeId : node[n].next # NULL =>
           node[n].next < n /\ Hash[node[node[n].next].key] = Hash[node[n].key]
    /\ \A b \in Bucket : head[b] # NULL => head[b] <= nodes /\ Hash[node[head[b]].key] = b

\* Which places a thread comes to, and with what.
WriterPlace(t) ==
    LET at == thread[t].at  k == thread[t].key  n == thread[t].cur
    IN  /\ at \notin {"sweep", "read_len", "copy"}
        /\ at \in InsertPlace => thread[t].bucket = Hash[k]
        /\ at \in InsertPlace /\ thread[t].inserting => k \in Owned(t)
        /\ at \in {"link", "publish"} => thread[t].inserting
        /\ at = "publish" => n # NULL /\ node[n].key = k
        /\ at \in {"found"} \cup PayloadPlace => n # NULL
        /\ at \in {"free_old", "malloc", "memcpy", "set_len"} => thread[t].len \in Size
CommandPlace ==
    LET c == thread["cmd"]
    IN  /\ c.at # "found"
        /\ c.at \in InsertPlace => c.inserting
        /\ c.at \notin InsertPlace /\ c.cur # NULL => node[c.cur].key \in Client
SendPlace ==
    LET s == thread["send"]
    IN  /\ s.at \in {"sweep", "read_len", "copy"}
        /\ s.at \in {"read_len", "copy"} => s.cur # NULL
PlaceInv ==
    /\ \A t \in Thread : thread[t].cur <= nodes
    /\ \A t \in Writer : WriterPlace(t)
    /\ CommandPlace /\ SendPlace

\* A thread that is about to overwrite the head of a bucket may take a node of the
\* other's out of the chain, but bring none back, and takes out none of its own.
RaceInv ==
    \A t, u \in Writer : t # u =>
        \A n \in NodeId : node[n].key \in Owned(t) =>
            /\ thread[u].at = "publish" /\ n \in From(thread[u].cur) => n \in Chain(thread[u].bucket)
            /\ thread[t].at = "publish" /\ n \in Chain(thread[t].bucket) => n \in From(thread[t].cur)

\* The valid nodes of a 4-tuple, and the nodes in its bucket or about to be.
Live(k)  == {n \in NodeId : node[n].valid /\ node[n].key = k}
Reach(k) == {n \in NodeId : \/ n \in Chain(Hash[k])
                            \/ \E t \in Writer : /\ thread[t].at = "publish"
                                                 /\ thread[t].bucket = Hash[k]
                                                 /\ n \in From(thread[t].cur)}
UniqueInv == \A k \in Key : \A m, n \in Live(k) \cap Reach(k) : m = n

\* What a walk has left to see, and what it has seen when it is over.
Walks(t) ==
    LET w == thread[t]
    IN  /\ w.at = "walk" => Live(w.key) \cap From(w.cur) \subseteq {w.saw}
        /\ w.at = "walk" /\ w.inserting => Live(w.key) \cap Chain(w.bucket) \subseteq From(w.cur)
        /\ w.at = "link" => Live(w.key) \cap Chain(w.bucket) = {}
        /\ t = "proc" /\ w.at = "walk" /\ w.saw # NULL => w.saw \in Live(w.key) \cap From(w.cur)
WalkInv == \A t \in Writer : Walks(t)

TableInv == TypeOK /\ NodesInv /\ PlaceInv /\ RaceInv /\ UniqueInv /\ WalkInv

-------------------------------------------------------------------------------
\* The buffers.

\* Nodes at whose buffer no two threads write.
Private(n) == locked \/ node[n].key \in Listening

\* No two nodes share a buffer, and nothing is freed or pointed to that was not allocated.
PointerInv ==
    /\ \A b \in freed : size[b] # 0
    /\ \A n \in NodeId : node[n].buf # NULL => size[node[n].buf] # 0
    /\ \A m, n \in NodeId : node[m].buf = node[n].buf /\ node[m].buf # NULL => m = n

\* What is left of a payload at each place: a pointer to a freed buffer is found only
\* where it is about to be overwritten.
AtItsBuffer(t) ==
    AtBuffer(t) /\ Private(thread[t].cur) =>
        LET at == thread[t].at  b == Cur(t).buf
        IN  /\ at \in {"malloc", "clear_buf"} => b = NULL \/ b \in freed
            /\ at \in {"memcpy", "set_len"} => b # NULL /\ size[b] = thread[t].len
            /\ at = "clear_len" => b = NULL
BufferInv ==
    /\ locked => \A t, u \in Thread : AtBuffer(t) /\ AtBuffer(u) => t = u
    /\ \A n \in NodeId : Private(n) /\ node[n].buf \in freed =>
           \E t \in Writer : thread[t].at \in {"malloc", "clear_buf"} /\ thread[t].cur = n
    /\ \A t \in Writer : AtItsBuffer(t)

FaultInv == \A f \in fault : ~locked /\ (f.key \in Listening => f.kind = "bad_read")

\* With a lock: the length of a payload is that of its buffer, nothing is lost, and the
\* send thread reads what is stored.
Lengths ==
    \A n \in NodeId : node[n].buf # NULL /\ (\A t \in Writer : ~(AtBuffer(t) /\ thread[t].cur = n))
        => node[n].len = size[node[n].buf]
NoneLost == \A b \in BufId : size[b] # 0 /\ b \notin freed => \E n \in NodeId : node[n].buf = b
Sending ==
    LET s == thread["send"]
    IN  /\ s.at \in {"read_len", "copy"} => s.buf # NULL /\ s.buf = node[s.cur].buf
        /\ s.at = "copy" => s.len = size[s.buf]
LockedInv == locked => Lengths /\ NoneLost /\ Sending

HeapInv == PointerInv /\ BufferInv /\ FaultInv /\ LockedInv

-------------------------------------------------------------------------------
\* Reachability.

LEMMA Constants ==
    /\ NULL \notin NodeId /\ NULL \notin BufId /\ NULL = 0
    /\ NodeId \subseteq Nat /\ BufId \subseteq Nat
    /\ \A k \in Key : Hash[k] \in Bucket
    /\ Blank \in Node /\ Rest \in Local
    /\ Blank.valid = FALSE /\ Blank.next = NULL /\ Blank.buf = NULL /\ Blank.len = 0
    /\ Rest.at = "idle" /\ Rest.cur = NULL /\ Rest.inserting = FALSE /\ Rest.saw = NULL
<1>1. /\ NULL \notin NodeId /\ NULL \notin BufId /\ NULL = 0
      /\ NodeId \subseteq Nat /\ BufId \subseteq Nat
    BY BoundAssumption DEF NULL, NodeId, BufId
<1>2. \A k \in Key : Hash[k] \in Bucket
    BY HashAssumption DEF Key, Bucket
<1>3. Blank \in Node
  <2>1. (CHOOSE k \in Key : TRUE) \in Key
      BY KeyAssumption DEF Key
  <2> QED
      BY <2>1 DEF Blank, Node
<1>4. Blank.key \in Key /\ Buckets - 1 \in Bucket
    BY <1>3, HashAssumption DEF Node, Bucket
<1>5. Rest \in Local
    BY <1>4 DEF Rest, Local, Place
<1> QED
    BY <1>1, <1>2, <1>3, <1>5 DEF Blank, Rest

LEMMA Sizes ==
    Size \cup {0} \subseteq Nat /\ 0 \notin Size
BY SizeAssumption

\* From is the least closed set: it has its first node, it is closed, and it lies in
\* every closed set with that node.
LEMMA FromIsClosed ==
    ASSUME node \in [NodeId -> Node], NEW x \in NodeId \cup {NULL}
    PROVE  From(x) \in SUBSET NodeId /\ x \in From(x) \cup {NULL} /\ Closed(From(x))
<1>1. From(x) \in SUBSET NodeId /\ x \in From(x) \cup {NULL}
    BY DEF From
<1>2. ASSUME NEW n \in From(x) PROVE node[n].next \in From(x) \cup {NULL}
  <2> SUFFICES ASSUME node[n].next # NULL PROVE node[n].next \in From(x)
      OBVIOUS
  <2>1. node[n].next \in NodeId
      BY DEF From, Node
  <2>2. ASSUME NEW S \in SUBSET NodeId, x \in S \cup {NULL}, Closed(S)
        PROVE  node[n].next \in S
    <3>1. n \in S
        BY <2>2 DEF From
    <3> QED
        BY <3>1, <2>2 DEF Closed
  <2> QED
      BY <2>1, <2>2 DEF From
<1> QED
    BY <1>1, <1>2 DEF Closed

LEMMA FromIsLeast ==
    ASSUME NEW x, NEW S \in SUBSET NodeId, x \in S \cup {NULL}, Closed(S)
    PROVE  From(x) \subseteq S
BY DEF From

LEMMA FromNull ==
    From(NULL) = {}
<1>1. {} \in SUBSET NodeId /\ Closed({})
    BY DEF Closed
<1> QED
    BY <1>1, FromIsLeast

\* What can be reached from a node: itself, and what its next node reaches.
LEMMA FromNode ==
    ASSUME node \in [NodeId -> Node], NEW x \in NodeId
    PROVE  From(x) = {x} \cup From(node[x].next)
<1> DEFINE y == node[x].next
<1>1. y \in NodeId \cup {NULL}
    BY DEF Node
<1>2. /\ From(x) \in SUBSET NodeId /\ x \in From(x) /\ Closed(From(x))
      /\ From(y) \in SUBSET NodeId /\ y \in From(y) \cup {NULL} /\ Closed(From(y))
  <2>1. x # NULL
      BY Constants
  <2> QED
      BY <1>1, <2>1, FromIsClosed
<1>3. From(y) \subseteq From(x)
  <2>1. y \in From(x) \cup {NULL}
      BY <1>2 DEF Closed
  <2> QED
      BY <1>2, <2>1, FromIsLeast
<1>4. From(x) \subseteq {x} \cup From(y)
  <2>1. Closed({x} \cup From(y))
      BY <1>2 DEF Closed
  <2> QED
      BY <1>2, <2>1, FromIsLeast
<1> QED
    BY <1>2, <1>3, <1>4

\* Where pointers lead to allocated nodes only, a step that keeps the pointers of
\* those keeps what can be reached from them.
LEMMA FromKept ==
    ASSUME node \in [NodeId -> Node], node' \in [NodeId -> Node],
           NEW E \in SUBSET NodeId, Closed(E), NEW x \in E \cup {NULL},
           \A n \in E : node'[n].next = node[n].next
    PROVE  From(x)' = From(x)
<1>1. x \in NodeId \cup {NULL} /\ Closed(E)'
    BY DEF Closed
<1>2. From(x) \in SUBSET NodeId /\ x \in From(x) \cup {NULL} /\ Closed(From(x)) /\ From(x) \subseteq E
    BY <1>1, FromIsClosed, FromIsLeast
<1>3. \A S \in SUBSET NodeId : x \in S \cup {NULL} /\ Closed(S)' => From(x)' \subseteq S
    BY DEF From
<1>4. From(x)' \in SUBSET NodeId /\ x \in From(x)' \cup {NULL} /\ Closed(From(x))'
  <2>1. From(x)' \in SUBSET NodeId /\ x \in From(x)' \cup {NULL}
      BY <1>1 DEF From
  <2>2. ASSUME NEW n \in From(x)' PROVE node'[n].next \in From(x)' \cup {NULL}
    <3> SUFFICES ASSUME node'[n].next # NULL PROVE node'[n].next \in From(x)'
        OBVIOUS
    <3>1. node'[n].next \in NodeId
        BY <2>1 DEF Node
    <3>2. ASSUME NEW S \in SUBSET NodeId, x \in S \cup {NULL}, Closed(S)'
          PROVE  node'[n].next \in S
      <4>1. n \in S
          BY <3>2, <1>3
      <4> QED
          BY <4>1, <3>2 DEF Closed
    <3> QED
        BY <3>1, <3>2 DEF From
  <2> QED
      BY <2>1, <2>2 DEF Closed
<1>5. From(x)' \subseteq E
    BY <1>1, <1>3
<1>6. Closed(From(x))'
    BY <1>4
<1>7. From(x)' \subseteq From(x)
  <2>1. \A n \in From(x) : node'[n].next \in From(x) \cup {NULL}
      BY <1>2 DEF Closed
  <2> QED
      BY <2>1, <1>2, <1>3 DEF Closed
<1>8. From(x) \subseteq From(x)'
  <2>1. \A n \in From(x)' : node[n].next \in From(x)' \cup {NULL}
      BY <1>4, <1>5 DEF Closed
  <2>2. Closed(From(x)')
      BY <2>1 DEF Closed
  <2> QED
      BY <2>2, <1>4, FromIsLeast
<1> QED
    BY <1>7, <1>8

-------------------------------------------------------------------------------
\* Records and their types.

LEMMA BufNode ==
    ASSUME NEW n \in Node, NEW b \in BufId \cup {NULL}
    PROVE  LET u == [n EXCEPT !.buf = b]
           IN  u \in Node /\ u.key = n.key /\ u.valid = n.valid /\ u.next = n.next /\ u.buf = b /\ u.len = n.len
BY DEF Node

LEMMA LenNode ==
    ASSUME NEW n \in Node, NEW l \in Size \cup {0}
    PROVE  LET u == [n EXCEPT !.len = l]
           IN  u \in Node /\ u.key = n.key /\ u.valid = n.valid /\ u.next = n.next /\ u.buf = n.buf /\ u.len = l
BY DEF Node

LEMMA LocalAt ==
    ASSUME NEW w \in Local, NEW at \in Place
    PROVE  LET u == [w EXCEPT !.at = at]
           IN  /\ u \in Local /\ u.at = at /\ u.key = w.key /\ u.inserting = w.inserting /\ u.bucket = w.bucket
               /\ u.cur = w.cur /\ u.buf = w.buf /\ u.len = w.len /\ u.saw = w.saw
BY DEF Local

LEMMA LocalCur ==
    ASSUME NEW w \in Local, NEW c \in NodeId \cup {NULL}
    PROVE  LET u == [w EXCEPT !.cur = c]
           IN  /\ u \in Local /\ u.at = w.at /\ u.key = w.key /\ u.inserting = w.inserting /\ u.bucket = w.bucket
               /\ u.cur = c /\ u.buf = w.buf /\ u.len = w.len /\ u.saw = w.saw
BY DEF Local

\* What the types say of a thread and of the node it is at.
LEMMA Fields ==
    ASSUME TypeOK
    PROVE  /\ \A t \in Thread : /\ thread[t] \in Local /\ thread[t].at \in Place /\ thread[t].key \in Key
                                /\ thread[t].inserting \in BOOLEAN /\ thread[t].bucket \in Bucket
                                /\ thread[t].cur \in NodeId \cup {NULL}
                                /\ thread[t].buf \in BufId \cup {NULL}
                                /\ thread[t].len \in Size \cup {0}
                                /\ thread[t].saw \in NodeId \cup {NULL}
           /\ \A n \in NodeId : /\ node[n] \in Node /\ node[n].key \in Key /\ node[n].valid \in BOOLEAN
                                /\ node[n].next \in NodeId \cup {NULL}
                                /\ node[n].buf \in BufId \cup {NULL}
                                /\ node[n].len \in Size \cup {0}
           /\ \A b \in Bucket : head[b] \in NodeId \cup {NULL}
           /\ \A b \in BufId : size[b] \in Size \cup {0}
           /\ nodes \in Nat /\ head \in [Bucket -> NodeId \cup {NULL}]
           /\ node \in [NodeId -> Node] /\ thread \in [Thread -> Local]
           /\ size \in [BufId -> Size \cup {0}]
<1>1. \A t \in Thread : /\ thread[t] \in Local /\ thread[t].at \in Place /\ thread[t].key \in Key
                        /\ thread[t].inserting \in BOOLEAN /\ thread[t].bucket \in Bucket
                        /\ thread[t].cur \in NodeId \cup {NULL}
                        /\ thread[t].buf \in BufId \cup {NULL}
                        /\ thread[t].len \in Size \cup {0}
                        /\ thread[t].saw \in NodeId \cup {NULL}
    BY DEF TypeOK, Local
<1>2. \A n \in NodeId : /\ node[n] \in Node /\ node[n].key \in Key /\ node[n].valid \in BOOLEAN
                        /\ node[n].next \in NodeId \cup {NULL}
                        /\ node[n].buf \in BufId \cup {NULL}
                        /\ node[n].len \in Size \cup {0}
    BY DEF TypeOK, Node
<1> QED
    BY <1>1, <1>2, BoundAssumption DEF TypeOK

LEMMA TheNodeType ==
    ASSUME NEW k
    PROVE  TheNode(k) \in NodeId \cup {NULL} /\ Mapped(k) \subseteq NodeId
BY DEF TheNode, Mapped, Chain, From

-------------------------------------------------------------------------------
\* Steps that leave the chains alone.

ChainsKept ==
    /\ head' = head /\ nodes' = nodes /\ locked' = locked
    /\ \A n \in NodeId : /\ node'[n].key = node[n].key /\ node'[n].valid = node[n].valid
                         /\ node'[n].next = node[n].next

\* The same, but that a valid node may be released.
ChainsLinked ==
    /\ head' = head /\ nodes' = nodes
    /\ \A n \in NodeId : /\ node'[n].key = node[n].key /\ node'[n].next = node[n].next
                         /\ node'[n].valid => node[n].valid

\* What a writer does at the node it has found.
AtNode(t) ==
    \/ t = "proc" /\ (acknowledge(t) \/ done(t))
    \/ \E len \in Size : tcp_send_data(t, len)
    \/ free_old(t) \/ allocate(t) \/ memcpy(t) \/ set_len(t)
    \/ free_acked(t) \/ clear_buf(t) \/ clear_len(t)

LEMMA HeapTypes ==
    ASSUME TypeOK, NEW n \in NodeId, NEW kind \in {"double_free", "bad_write", "bad_read"}
    PROVE  /\ {[kind |-> kind, key |-> node[n].key]} \subseteq Fault
           /\ freed \cup ({node[n].buf} \ {NULL}) \subseteq BufId
BY Fields DEF Fault, TypeOK

\* Where a step at its node takes a writer, and that it changes no other node.
AtNodeOnly(t) ==
    /\ thread[t].cur \in NodeId /\ thread[t].at \notin InsertPlace
    /\ \A u \in Thread \ {t} : thread'[u] = thread[u]
    /\ thread'[t] \in Local
    /\ thread'[t].cur = thread[t].cur \/ thread'[t] = Rest
    /\ thread'[t].at \in {"idle", "found"} \cup (PayloadPlace \ {"read_len", "copy"})
    /\ thread'[t].at = "found" => t = "proc"
    /\ thread'[t].at \in {"free_old", "malloc", "memcpy", "set_len"} => thread'[t].len \in Size
    /\ \A n \in NodeId \ {thread[t].cur} : node'[n] = node[n]

LEMMA Defaults ==
    /\ NULL \in NodeId \cup {NULL} /\ NULL \in BufId \cup {NULL}
    /\ 0 \in Size \cup {0} /\ Size \subseteq Size \cup {0} /\ 0 \in Bucket
    /\ Writer \subseteq Thread /\ Writer = {"proc", "cmd"} /\ "send" \in Thread \ Writer
    /\ \A at \in {"idle", "found", "sweep"} \cup InsertPlace \cup PayloadPlace : at \in Place
BY HashAssumption DEF Bucket, Writer, Thread, Place

LEMMA ThreadTypes ==
    ASSUME TypeOK, NEW t \in Thread, NEW r \in Local, thread' = [thread EXCEPT ![t] = r]
    PROVE  /\ thread' \in [Thread -> Local]
           /\ thread'[t] = r /\ \A u \in Thread \ {t} : thread'[u] = thread[u]
BY Fields

LEMMA PutTypes ==
    ASSUME TypeOK, NEW n \in NodeId, NEW u \in Node, Put(n, u)
    PROVE  /\ node' \in [NodeId -> Node]
           /\ node'[n] = u /\ \A m \in NodeId \ {n} : node'[m] = node[m]
BY Fields DEF Put

LEMMA BackStep ==
    ASSUME TypeOK, NEW t \in Writer, Back(t)
    PROVE  /\ thread' \in [Thread -> Local]
           /\ \A u \in Thread \ {t} : thread'[u] = thread[u]
           /\ thread'[t].cur = thread[t].cur
           /\ thread'[t].at = IF t = "proc" THEN "found" ELSE "idle"
<1> DEFINE r == IF t = "proc" THEN [thread[t] EXCEPT !.at = "found", !.len = 0]
                ELSE [Rest EXCEPT !.cur = thread[t].cur]
<1>0. t \in Thread /\ thread[t] \in Local /\ thread[t].cur \in NodeId \cup {NULL}
    BY Fields DEF Thread
<1>1. CASE t = "proc"
  <2>0. "found" \in Place /\ 0 \in Size \cup {0}
      BY Defaults
  <2>1. LET u == [thread[t] EXCEPT !.at = "found", !.len = 0]
        IN  u \in Local /\ u.at = "found" /\ u.cur = thread[t].cur
      BY <1>0, <2>0 DEF Local
  <2>2. thread' = [thread EXCEPT ![t] = [thread[t] EXCEPT !.at = "found", !.len = 0]]
      BY <1>1, <1>0, Fields DEF Back
  <2> QED
      BY <2>1, <2>2, <1>0, <1>1, ThreadTypes
<1>2. CASE t # "proc"
  <2>1. LET u == [Rest EXCEPT !.cur = thread[t].cur]
        IN  u \in Local /\ u.at = "idle" /\ u.cur = thread[t].cur
      BY <1>0, Constants, LocalCur
  <2>2. thread' = [thread EXCEPT ![t] = [Rest EXCEPT !.cur = thread[t].cur]]
      BY <1>2, <1>0, Fields DEF Back
  <2> QED
      BY <2>1, <2>2, <1>0, <1>2, ThreadTypes
<1> QED
    BY <1>1, <1>2

LEMMA GotoStep ==
    ASSUME TypeOK, NEW t \in Writer, NEW at \in Place, Goto(t, at)
    PROVE  /\ thread' \in [Thread -> Local]
           /\ \A u \in Thread \ {t} : thread'[u] = thread[u]
           /\ thread'[t].cur = thread[t].cur /\ thread'[t].len = thread[t].len
           /\ thread'[t].at = at
<1>0. t \in Thread /\ thread[t] \in Local /\ Thread # {}
    BY Fields DEF Thread
<1>1. LET u == [thread[t] EXCEPT !.at = at]
      IN  u \in Local /\ u.at = at /\ u.cur = thread[t].cur /\ u.len = thread[t].len
    BY <1>0, LocalAt
<1>2. thread' = [thread EXCEPT ![t] = [thread[t] EXCEPT !.at = at]]
    BY <1>0, Fields DEF Goto
<1> QED
    BY <1>0, <1>1, <1>2, ThreadTypes

LEMMA AtNodeStep ==
    ASSUME TypeOK, PlaceInv, NEW t \in Writer, AtNode(t)
    PROVE  TypeOK' /\ ChainsKept /\ AtNodeOnly(t)
<1> DEFINE n == thread[t].cur
<1>0. /\ t \in Thread /\ thread[t] \in Local /\ n \in NodeId \cup {NULL}
      /\ thread[t].len \in Size \cup {0} /\ Size \subseteq Size \cup {0}
      /\ \A m \in NodeId : node[m] \in Node /\ node[m].len \in Size \cup {0}
      /\ node \in [NodeId -> Node]
    BY Fields, Defaults
<1>1. /\ thread[t].at \in {"found"} \cup PayloadPlace => n # NULL
      /\ thread[t].at \in {"free_old", "malloc", "memcpy", "set_len"} => thread[t].len \in Size
    BY DEF PlaceInv, WriterPlace
<1>2. ASSUME NEW at, Goto(t, at), n \in NodeId, at \in PayloadPlace \ {"read_len", "copy"}
      PROVE  /\ thread' \in [Thread -> Local]
             /\ \A u \in Thread \ {t} : thread'[u] = thread[u]
             /\ thread'[t].cur = n /\ thread'[t].len = thread[t].len /\ thread'[t].at = at
    BY <1>2, Defaults, GotoStep
<1>3. /\ Back(t) => /\ thread' \in [Thread -> Local]
                    /\ \A u \in Thread \ {t} : thread'[u] = thread[u]
                    /\ thread'[t].cur = n /\ thread'[t].at \in {"idle", "found"}
                    /\ thread'[t].at = "found" => t = "proc"
    BY BackStep
<1>4. ASSUME n \in NodeId, NEW b \in BufId \cup {NULL}, Put(n, [Cur(t) EXCEPT !.buf = b])
      PROVE  /\ node' \in [NodeId -> Node] /\ \A m \in NodeId \ {n} : node'[m] = node[m]
             /\ \A m \in NodeId : /\ node'[m].key = node[m].key /\ node'[m].valid = node[m].valid
                                   /\ node'[m].next = node[m].next
  <2>1. LET u == [Cur(t) EXCEPT !.buf = b]
        IN  u \in Node /\ u.key = Cur(t).key /\ u.valid = Cur(t).valid /\ u.next = Cur(t).next
    BY <1>0, <1>4, BufNode DEF Cur
  <2> QED
    BY <2>1, <1>4, PutTypes DEF Cur
<1>5. ASSUME n \in NodeId, NEW l \in Size \cup {0}, Put(n, [Cur(t) EXCEPT !.len = l])
      PROVE  /\ node' \in [NodeId -> Node] /\ \A m \in NodeId \ {n} : node'[m] = node[m]
             /\ \A m \in NodeId : /\ node'[m].key = node[m].key /\ node'[m].valid = node[m].valid
                                   /\ node'[m].next = node[m].next
  <2>1. LET u == [Cur(t) EXCEPT !.len = l]
        IN  u \in Node /\ u.key = Cur(t).key /\ u.valid = Cur(t).valid /\ u.next = Cur(t).next
    BY <1>0, <1>5, LenNode DEF Cur
  <2> QED
    BY <2>1, <1>5, PutTypes DEF Cur
<1>6. /\ n \in NodeId /\ Free(t) => freed' \subseteq BufId /\ fault' \subseteq Fault
      /\ \A kind \in {"double_free", "bad_write", "bad_read"} :
             n \in NodeId /\ Misuse(t, kind) => fault' \subseteq Fault
  <2>1. \A kind \in {"double_free", "bad_write", "bad_read"} :
             n \in NodeId /\ Misuse(t, kind) => fault' \subseteq Fault
      BY HeapTypes DEF Misuse, Cur
  <2> QED
      BY <2>1, HeapTypes DEF Free, Cur, TypeOK
<1>10. CASE acknowledge(t) /\ t = "proc"
  <2>1. n \in NodeId /\ Goto(t, "free_acked") /\ thread[t].at = "found"
      BY <1>10, <1>0, <1>1 DEF acknowledge
  <2> QED
      BY <1>10, <1>0, <2>1, <1>2
      DEF TypeOK, ChainsKept, AtNodeOnly, acknowledge, heapVars, PayloadPlace, InsertPlace
<1>11. CASE done(t) /\ t = "proc"
  <2>1. n \in NodeId /\ thread[t].at = "found"
      BY <1>11, <1>0, <1>1 DEF done
  <2>2. thread' = [thread EXCEPT ![t] = Rest]
      BY <1>11 DEF done
  <2>3. /\ thread' \in [Thread -> Local] /\ \A u \in Thread \ {t} : thread'[u] = thread[u]
        /\ thread'[t] = Rest /\ thread'[t].at = "idle"
      BY <2>2, <1>0, Constants, ThreadTypes
  <2> QED
      BY <1>11, <1>0, <2>1, <2>3
      DEF TypeOK, ChainsKept, AtNodeOnly, done, heapVars, PayloadPlace, InsertPlace
<1>12. CASE \E len \in Size : tcp_send_data(t, len)
  <2> PICK len \in Size : tcp_send_data(t, len)
      BY <1>12
  <2>1. n \in NodeId /\ thread[t].at \in {"idle", "found"}
      BY <1>0, <1>1 DEF tcp_send_data
  <2>0. "free_old" \in Place /\ len \in Size \cup {0}
      BY Defaults DEF PayloadPlace
  <2>2. LET u == [thread[t] EXCEPT !.at = "free_old", !.len = len]
        IN  u \in Local /\ u.at = "free_old" /\ u.cur = n /\ u.len = len
      BY <1>0, <2>0 DEF Local
  <2>3. thread' = [thread EXCEPT ![t] = [thread[t] EXCEPT !.at = "free_old", !.len = len]]
      BY <1>0, Fields DEF tcp_send_data
  <2>4. /\ thread' \in [Thread -> Local] /\ \A u \in Thread \ {t} : thread'[u] = thread[u]
        /\ thread'[t].cur = n /\ thread'[t].len = len /\ thread'[t].at = "free_old"
      BY <2>2, <2>3, <1>0, ThreadTypes
  <2> QED
      BY <1>0, <2>1, <2>4
      DEF TypeOK, ChainsKept, AtNodeOnly, tcp_send_data, heapVars, PayloadPlace, InsertPlace
<1>13. CASE free_old(t)
  <2>1. n \in NodeId /\ Goto(t, "malloc") /\ thread[t].at = "free_old" /\ thread[t].len \in Size
      BY <1>13, <1>0, <1>1 DEF free_old, PayloadPlace
  <2>2. freed' \subseteq BufId /\ fault' \subseteq Fault
      BY <1>13, <2>1, <1>6 DEF free_old
  <2> QED
      BY <1>13, <1>0, <2>1, <2>2, <1>2
      DEF TypeOK, ChainsKept, AtNodeOnly, free_old, PayloadPlace, InsertPlace
<1>14. CASE allocate(t)
  <2>1. n \in NodeId /\ thread[t].at = "malloc" /\ thread[t].len \in Size
      BY <1>14, <1>0, <1>1 DEF allocate, PayloadPlace
  <2>2. CASE Put(n, [Cur(t) EXCEPT !.buf = NULL]) /\ Back(t) /\ UNCHANGED size
    <3> QED
        BY <1>14, <1>0, <2>1, <2>2, <1>3, <1>4
        DEF TypeOK, ChainsKept, AtNodeOnly, allocate, PayloadPlace, InsertPlace
  <2>3. CASE \E b \in BufId : /\ size' = [size EXCEPT ![b] = thread[t].len]
                             /\ Put(n, [Cur(t) EXCEPT !.buf = b]) /\ Goto(t, "memcpy")
    <3> PICK b \in BufId : /\ size' = [size EXCEPT ![b] = thread[t].len]
                           /\ Put(n, [Cur(t) EXCEPT !.buf = b]) /\ Goto(t, "memcpy")
        BY <2>3
    <3>1. size' \in [BufId -> Size \cup {0}]
        BY <1>0, Fields
    <3> QED
        BY <1>14, <1>0, <2>1, <3>1, <1>2, <1>4
        DEF TypeOK, ChainsKept, AtNodeOnly, allocate, PayloadPlace, InsertPlace
  <2> QED
      BY <1>14, <2>2, <2>3 DEF allocate
<1>15. CASE memcpy(t)
  <2>1. n \in NodeId /\ thread[t].at = "memcpy" /\ thread[t].len \in Size
      BY <1>15, <1>0, <1>1 DEF memcpy, PayloadPlace
  <2>2. fault' \subseteq Fault
      BY <1>15, <2>1, <1>6 DEF memcpy, TypeOK
  <2>3. CASE Goto(t, "set_len")
      BY <1>15, <1>0, <2>1, <2>2, <2>3, <1>2
      DEF TypeOK, ChainsKept, AtNodeOnly, memcpy, PayloadPlace, InsertPlace
  <2>4. CASE Back(t)
      BY <1>15, <1>0, <2>1, <2>2, <2>4, <1>3
      DEF TypeOK, ChainsKept, AtNodeOnly, memcpy, PayloadPlace, InsertPlace
  <2> QED
      BY <1>15, <2>3, <2>4 DEF memcpy
<1>16. CASE set_len(t)
  <2>1. n \in NodeId /\ thread[t].at = "set_len" /\ Put(n, [Cur(t) EXCEPT !.len = thread[t].len])
      BY <1>16, <1>0, <1>1 DEF set_len, PayloadPlace
  <2> QED
      BY <1>16, <1>0, <2>1, <1>3, <1>5
      DEF TypeOK, ChainsKept, AtNodeOnly, set_len, heapVars, PayloadPlace, InsertPlace
<1>17. CASE free_acked(t)
  <2>1. n \in NodeId /\ Goto(t, "clear_buf") /\ thread[t].at = "free_acked"
      BY <1>17, <1>0, <1>1 DEF free_acked, PayloadPlace
  <2>2. freed' \subseteq BufId /\ fault' \subseteq Fault
      BY <1>17, <2>1, <1>6 DEF free_acked
  <2> QED
      BY <1>17, <1>0, <2>1, <2>2, <1>2
      DEF TypeOK, ChainsKept, AtNodeOnly, free_acked, PayloadPlace, InsertPlace
<1>18. CASE clear_buf(t)
  <2>1. /\ n \in NodeId /\ Goto(t, "clear_len") /\ thread[t].at = "clear_buf"
        /\ Put(n, [Cur(t) EXCEPT !.buf = NULL])
      BY <1>18, <1>0, <1>1 DEF clear_buf, PayloadPlace
  <2> QED
      BY <1>18, <1>0, <2>1, <1>2, <1>4, SMTT(30)
      DEF TypeOK, ChainsKept, AtNodeOnly, clear_buf, heapVars, PayloadPlace, InsertPlace
<1>19. CASE clear_len(t)
  <2>1. n \in NodeId /\ thread[t].at = "clear_len" /\ Put(n, [Cur(t) EXCEPT !.len = 0])
      BY <1>19, <1>0, <1>1 DEF clear_len, PayloadPlace
  <2> QED
      BY <1>19, <1>0, <2>1, <1>3, <1>5, Defaults
      DEF TypeOK, ChainsKept, AtNodeOnly, clear_len, heapVars, PayloadPlace, InsertPlace
<1> QED
    BY <1>10, <1>11, <1>12, <1>13, <1>14, <1>15, <1>16, <1>17, <1>18, <1>19 DEF AtNode

-------------------------------------------------------------------------------
\* What the chains keep in a step that leaves them alone.

LEMMA Allocated ==
    ASSUME TypeOK, NodesInv
    PROVE  LET E == {n \in NodeId : n <= nodes}
           IN  /\ Closed(E)
               /\ \A n \in NodeId : node[n].next # NULL => node[n].next \in E
               /\ \A b \in Bucket : head[b] \in E \cup {NULL}
<1> DEFINE E == {n \in NodeId : n <= nodes}
<1>1. ASSUME NEW n \in NodeId, node[n].next # NULL PROVE node[n].next \in E
  <2>1. node[n].next \in NodeId /\ node[n].next < n
      BY <1>1, Fields DEF NodesInv
  <2>2. n <= nodes
    <3> SUFFICES ASSUME n > nodes PROVE FALSE
        BY Fields, Constants
    <3> QED
        BY <1>1, Constants DEF NodesInv
  <2>3. n \in Nat /\ node[n].next \in Nat /\ nodes \in Nat
      BY <2>1, Fields, Constants
  <2> QED
      BY <2>1, <2>2, <2>3
<1>2. \A b \in Bucket : head[b] \in E \cup {NULL}
    BY Fields DEF NodesInv
<1> QED
    BY <1>1, <1>2 DEF Closed

LEMMA PointersStay ==
    ASSUME TypeOK, TypeOK', ChainsLinked
    PROVE  /\ \A x \in NodeId \cup {NULL} : From(x)' = From(x)
           /\ \A b \in Bucket : Chain(b)' = Chain(b)
           /\ \A k : Live(k)' \subseteq Live(k)
<1>1. ASSUME NEW x \in NodeId \cup {NULL} PROVE From(x)' = From(x)
  <2>1. Closed(NodeId)
      BY Fields DEF Closed
  <2>2. node \in [NodeId -> Node] /\ node' \in [NodeId -> Node]
      BY DEF TypeOK
  <2>3. \A n \in NodeId : node'[n].next = node[n].next
      BY DEF ChainsLinked
  <2> QED
      BY <2>1, <2>2, <2>3, FromKept
<1>2. ASSUME NEW b \in Bucket PROVE Chain(b)' = Chain(b)
  <2>1. head'[b] = head[b] /\ head[b] \in NodeId \cup {NULL}
      BY Fields DEF ChainsLinked
  <2>2. PICK x \in NodeId \cup {NULL} : x = head[b]
      BY <2>1
  <2> QED
      BY <1>1, <2>1, <2>2 DEF Chain
<1>3. ASSUME NEW k PROVE Live(k)' \subseteq Live(k)
    BY DEF Live, ChainsLinked
<1> QED
    BY <1>1, <1>2, <1>3

LEMMA ChainsStay ==
    ASSUME TypeOK, NodesInv, TypeOK', ChainsKept
    PROVE  /\ \A x \in NodeId \cup {NULL} : From(x)' = From(x)
           /\ \A b \in Bucket : Chain(b)' = Chain(b)
           /\ \A k : Live(k)' = Live(k)
           /\ \A k \in Key : TheNode(k)' = TheNode(k)
<1>1. /\ \A x \in NodeId \cup {NULL} : From(x)' = From(x)
      /\ \A b \in Bucket : Chain(b)' = Chain(b)
  <2>1. ChainsLinked
      BY DEF ChainsKept, ChainsLinked
  <2> QED
      BY <2>1, PointersStay
<1>3. ASSUME NEW k PROVE Live(k)' = Live(k)
    BY DEF Live, ChainsKept
<1>4. ASSUME NEW k \in Key PROVE TheNode(k)' = TheNode(k)
  <2>1. Hash[k] \in Bucket
      BY Constants
  <2>2. Chain(Hash[k])' = Chain(Hash[k])
      BY <1>1, <2>1
  <2>3. Mapped(k)' = Mapped(k)
    <3>1. Chain(Hash[k]) \subseteq NodeId
        BY DEF Chain, From
    <3> QED
        BY <3>1, <2>2 DEF Mapped, ChainsKept
  <2> QED
      BY <2>3 DEF TheNode
<1> QED
    BY <1>1, <1>3, <1>4

LEMMA WalkStays ==
    ASSUME TypeOK, NodesInv, TypeOK', ChainsKept, NEW t \in Writer,
           thread'[t] = thread[t], Walks(t)
    PROVE  Walks(t)'
BY ChainsStay, Fields, Defaults DEF Walks

\* What depends on the nodes about to be published stays if those stay.
LEMMA PublishersStay ==
    ASSUME TypeOK, NodesInv, RaceInv, UniqueInv, TypeOK', ChainsLinked,
           \A n \in NodeId : n > nodes => node'[n] = node[n],
           \A t \in Writer : \/ thread'[t] = thread[t]
                             \/ thread'[t].at # "publish" /\ thread[t].at # "publish"
    PROVE  NodesInv' /\ RaceInv' /\ UniqueInv'
<1>0. \A t \in Writer : /\ thread[t].cur \in NodeId \cup {NULL} /\ thread[t].bucket \in Bucket
                        /\ thread'[t].at = "publish" =>
                              thread[t].at = "publish" /\ thread'[t] = thread[t]
    BY Fields, Defaults
<1>1. NodesInv'
  <2>1. \A n \in NodeId : node[n].next # NULL => node[n].next \in NodeId
      BY Fields
  <2>2. \A b \in Bucket : head[b] # NULL => head[b] \in NodeId
      BY Fields
  <2> QED
      BY <2>1, <2>2 DEF NodesInv, ChainsLinked
<1>2. RaceInv'
  <2> SUFFICES ASSUME NEW t \in Writer, NEW u \in Writer, t # u,
                      NEW n \in NodeId, node'[n].key \in Owned(t)
               PROVE  /\ thread'[u].at = "publish" /\ n \in From(thread[u].cur)'
                           => n \in Chain(thread[u].bucket)'
                      /\ thread'[t].at = "publish" /\ n \in Chain(thread[t].bucket)'
                           => n \in From(thread[t].cur)'
      BY DEF RaceInv
  <2>1. node[n].key \in Owned(t)
      BY DEF ChainsLinked
  <2>2. CASE thread'[u].at = "publish"
      BY <1>0, <2>1, <2>2, PointersStay DEF RaceInv
  <2>3. CASE thread'[t].at = "publish"
      BY <1>0, <2>1, <2>3, PointersStay DEF RaceInv
  <2> QED
      BY <1>0, <2>1, <2>2, <2>3, PointersStay DEF RaceInv
<1>3. UniqueInv'
  <2>1. ASSUME NEW k \in Key, NEW n \in Reach(k)' PROVE n \in Reach(k)
    <3>1. Hash[k] \in Bucket
        BY Constants
    <3>2. n \in NodeId
        BY DEF Reach
    <3>3. CASE n \in Chain(Hash[k])'
        BY <3>1, <3>2, <3>3, PointersStay DEF Reach
    <3>4. CASE \E t \in Writer : /\ thread'[t].at = "publish" /\ thread'[t].bucket = Hash[k]
                                 /\ n \in From(thread[t].cur)'
      <4> PICK t \in Writer : /\ thread'[t].at = "publish" /\ thread'[t].bucket = Hash[k]
                              /\ n \in From(thread[t].cur)'
          BY <3>4
      <4>1. thread'[t] = thread[t] /\ thread[t].at = "publish" /\ n \in From(thread[t].cur)
          BY <1>0, PointersStay
      <4> QED
          BY <3>2, <4>1 DEF Reach
    <3> QED
        BY <2>1, <3>3, <3>4 DEF Reach
  <2> QED
      BY <2>1, PointersStay DEF UniqueInv
<1> QED
    BY <1>1, <1>2, <1>3

LEMMA Quiet ==
    ASSUME TableInv, TypeOK', PlaceInv', ChainsKept,
           \A n \in NodeId : n > nodes => node'[n] = node[n],
           \A t \in Writer : \/ thread'[t] = thread[t]
                             \/ thread'[t].at \notin InsertPlace /\ thread[t].at \notin InsertPlace
    PROVE  TableInv'
<1>1. NodesInv' /\ RaceInv' /\ UniqueInv'
  <2>1. ChainsLinked
      BY DEF ChainsKept, ChainsLinked
  <2> QED
      BY <2>1, PublishersStay DEF TableInv, InsertPlace
<1>2. ASSUME NEW t \in Writer PROVE Walks(t)'
  <2>1. CASE thread'[t] = thread[t]
      BY <2>1, WalkStays DEF TableInv, WalkInv
  <2>2. CASE thread'[t].at \notin InsertPlace
      BY <2>2 DEF Walks, InsertPlace
  <2> QED
      BY <2>1, <2>2
<1> QED
    BY <1>1, <1>2 DEF TableInv, WalkInv

LEMMA AtNodeTable ==
    ASSUME TableInv, NEW t \in Writer, AtNode(t)
    PROVE  TableInv'
<1>1. TypeOK' /\ ChainsKept /\ AtNodeOnly(t) /\ TypeOK /\ PlaceInv
    BY AtNodeStep DEF TableInv
<1>2. thread[t].cur <= nodes /\ thread[t].cur \in NodeId /\ t \in Thread
    BY <1>1, Defaults DEF PlaceInv, AtNodeOnly
<1>3. \A n \in NodeId : n > nodes => node'[n] = node[n]
  <2> SUFFICES ASSUME NEW n \in NodeId, n > nodes PROVE n # thread[t].cur
      BY <1>1 DEF AtNodeOnly
  <2> QED
      BY <1>1, <1>2, Fields, Constants
<1>4. thread[t].at \notin InsertPlace /\ thread'[t].at \notin InsertPlace
    BY <1>1 DEF AtNodeOnly, InsertPlace, PayloadPlace
<1>5. PlaceInv'
  <2>1. ASSUME NEW u \in Thread PROVE thread'[u].cur <= nodes'
    <3>1. CASE u = t /\ thread'[u] = Rest
        BY <3>1, <1>1, Constants, Fields DEF ChainsKept
    <3>2. CASE thread'[u].cur = thread[u].cur
        BY <3>2, <1>1 DEF ChainsKept, PlaceInv
    <3> QED
        BY <3>1, <3>2, <1>1 DEF AtNodeOnly
  <2>2. ASSUME NEW u \in Writer PROVE WriterPlace(u)'
    <3>1. CASE u = t
      <4>1. thread'[u].at \in {"found"} \cup PayloadPlace => thread'[u].cur = thread[u].cur
          BY <3>1, <1>1, Constants DEF AtNodeOnly, PayloadPlace
      <4> QED
          BY <3>1, <4>1, <1>1, <1>2, Constants
          DEF AtNodeOnly, WriterPlace, InsertPlace, PayloadPlace
    <3>2. CASE u # t
      <4>1. thread'[u] = thread[u] /\ u \in Thread
          BY <3>2, <1>1, Defaults DEF AtNodeOnly
      <4>2. thread[u].cur \in NodeId \cup {NULL}
          BY <4>1, <1>1, Fields
      <4> QED
          BY <4>1, <4>2, <1>1 DEF PlaceInv, WriterPlace, ChainsKept
    <3> QED
        BY <3>1, <3>2
  <2>3. CommandPlace'
    <3>0. /\ "cmd" \in Writer /\ "cmd" \in Thread /\ thread["cmd"].cur \in NodeId \cup {NULL}
          /\ CommandPlace
        BY Fields, Defaults, <1>1 DEF PlaceInv
    <3>1. CASE t = "cmd"
      <4>1. thread'["cmd"].cur # NULL => node'[thread'["cmd"].cur].key \in Client
          BY <3>0, <3>1, <1>1, <1>4, Constants DEF AtNodeOnly, ChainsKept, CommandPlace
      <4> QED
          BY <3>1, <4>1, <1>1, <1>4 DEF AtNodeOnly, CommandPlace
    <3>2. CASE t # "cmd"
      <4>1. thread'["cmd"] = thread["cmd"]
          BY <3>0, <3>2, <1>1 DEF AtNodeOnly
      <4> QED
          BY <3>0, <4>1, <1>1 DEF CommandPlace, ChainsKept
    <3> QED
        BY <3>1, <3>2
  <2>4. SendPlace'
    <3>1. thread'["send"] = thread["send"]
        BY <1>1, Defaults DEF AtNodeOnly
    <3> QED
        BY <3>1, <1>1 DEF PlaceInv, SendPlace
  <2> QED
      BY <2>1, <2>2, <2>3, <2>4 DEF PlaceInv
<1> QED
    BY <1>1, <1>3, <1>4, <1>5, Quiet DEF AtNodeOnly, TableInv, Thread

\* The send thread changes no node.
LEMMA SweepStep ==
    ASSUME TypeOK, NodesInv, PlaceInv, check_retransmit
    PROVE  /\ TypeOK' /\ ChainsKept /\ node' = node /\ size' = size /\ freed' = freed
           /\ \A u \in Writer : thread'[u] = thread[u]
           /\ SendPlace' /\ thread'["send"].cur <= nodes'
<1> DEFINE s == thread["send"]
<1>0. /\ "send" \in Thread /\ s \in Local /\ s.cur \in NodeId \cup {NULL} /\ s.bucket \in Bucket
      /\ s.buf \in BufId \cup {NULL} /\ s.len \in Size \cup {0}
      /\ \A t \in Writer : t \in Thread \ {"send"}
      /\ s.cur <= nodes /\ SendPlace /\ nodes \in Nat
      /\ \A at \in {"sweep", "read_len", "copy"} : at \in Place
    BY Fields, Defaults DEF PlaceInv, PayloadPlace
<1>1. s.cur # NULL => /\ node[s.cur].next \in NodeId \cup {NULL}
                      /\ node[s.cur].buf \in BufId \cup {NULL} /\ node[s.cur].len \in Size \cup {0}
                      /\ node[s.cur].next <= nodes /\ node[s.cur].key \in Key
  <2>1. ASSUME s.cur # NULL PROVE node[s.cur].next <= nodes
    <3>1. CASE node[s.cur].next = NULL
        BY <3>1, <1>0, Constants
    <3>2. CASE node[s.cur].next # NULL
        BY <3>2, <2>1, <1>0, Allocated
    <3> QED
        BY <3>1, <3>2
  <2> QED
      BY <1>0, <2>1, Fields
<1>2. CASE next_bucket
  <2> DEFINE b == (s.bucket + 1) % Buckets
             r == [s EXCEPT !.bucket = b, !.cur = head[b]]
  <2>1. b \in Bucket
    <3>1. s.bucket + 1 \in Nat /\ Buckets \in Nat /\ Buckets > 0
        BY <1>0, HashAssumption DEF Bucket
    <3> QED
        BY <3>1, SMTT(30) DEF Bucket
  <2>2. head[b] \in NodeId \cup {NULL} /\ head[b] <= nodes
      BY <2>1, Fields, Allocated, Constants
  <2> HIDE DEF b
  <2>3. r \in Local /\ r.at = s.at /\ r.cur = head[b]
      BY <1>0, <2>1, <2>2 DEF Local
  <2>4. thread' = [thread EXCEPT !["send"] = r]
      BY <1>2 DEF next_bucket, b
  <2> HIDE DEF r
  <2>5. /\ thread' \in [Thread -> Local] /\ thread'["send"] = r
        /\ \A u \in Thread \ {"send"} : thread'[u] = thread[u]
      BY <1>0, <2>3, <2>4, ThreadTypes
  <2> QED
      BY <1>0, <1>2, <2>2, <2>3, <2>5 DEF next_bucket, TypeOK, ChainsKept, heapVars, SendPlace
<1>3. CASE next_node
  <2> DEFINE r == [s EXCEPT !.cur = node[s.cur].next]
  <2>1. s.cur # NULL /\ s.at = "sweep"
      BY <1>3 DEF next_node
  <2>2. r \in Local /\ r.at = s.at /\ r.cur = node[s.cur].next
      BY <1>0, <1>1, <2>1 DEF Local
  <2>3. thread' = [thread EXCEPT !["send"] = r]
      BY <1>3 DEF next_node, Onward, Cur
  <2> HIDE DEF r
  <2>4. /\ thread' \in [Thread -> Local] /\ thread'["send"] = r
        /\ \A u \in Thread \ {"send"} : thread'[u] = thread[u]
      BY <1>0, <2>2, <2>3, ThreadTypes
  <2> QED
      BY <1>0, <1>1, <1>3, <2>1, <2>2, <2>4 DEF next_node, TypeOK, ChainsKept, heapVars, SendPlace
<1>4. CASE retransmit
  <2> DEFINE r == [s EXCEPT !.at = "read_len", !.buf = node[s.cur].buf]
  <2>1. s.cur # NULL
      BY <1>4 DEF retransmit
  <2>2. r \in Local /\ r.at = "read_len" /\ r.cur = s.cur
      BY <1>0, <1>1, <2>1 DEF Local
  <2>3. thread' = [thread EXCEPT !["send"] = r]
      BY <1>4 DEF retransmit, Cur
  <2> HIDE DEF r
  <2>4. /\ thread' \in [Thread -> Local] /\ thread'["send"] = r
        /\ \A u \in Thread \ {"send"} : thread'[u] = thread[u]
      BY <1>0, <2>2, <2>3, ThreadTypes
  <2> QED
      BY <1>0, <1>4, <2>1, <2>2, <2>4 DEF retransmit, TypeOK, ChainsKept, heapVars, SendPlace
<1>5. CASE read_len
  <2> DEFINE r == [s EXCEPT !.at = "copy", !.len = node[s.cur].len]
  <2>1. s.cur # NULL
      BY <1>0, <1>5 DEF read_len, SendPlace
  <2>2. r \in Local /\ r.at = "copy" /\ r.cur = s.cur
      BY <1>0, <1>1, <2>1 DEF Local
  <2>3. thread' = [thread EXCEPT !["send"] = r]
      BY <1>5 DEF read_len, Cur
  <2> HIDE DEF r
  <2>4. /\ thread' \in [Thread -> Local] /\ thread'["send"] = r
        /\ \A u \in Thread \ {"send"} : thread'[u] = thread[u]
      BY <1>0, <2>2, <2>3, ThreadTypes
  <2> QED
      BY <1>0, <1>5, <2>1, <2>2, <2>4 DEF read_len, TypeOK, ChainsKept, heapVars, SendPlace
<1>6. CASE copy
  <2> DEFINE r == [s EXCEPT !.at = "sweep", !.cur = node[s.cur].next, !.buf = NULL, !.len = 0]
  <2>1. s.cur # NULL
      BY <1>0, <1>6 DEF copy, SendPlace
  <2>2. r \in Local /\ r.at = "sweep" /\ r.cur = node[s.cur].next
      BY <1>0, <1>1, <2>1 DEF Local
  <2>3. thread' = [thread EXCEPT !["send"] = r]
      BY <1>6 DEF copy, Cur
  <2> HIDE DEF r
  <2>4. /\ thread' \in [Thread -> Local] /\ thread'["send"] = r
        /\ \A u \in Thread \ {"send"} : thread'[u] = thread[u]
      BY <1>0, <2>2, <2>3, ThreadTypes
  <2>5. fault' \subseteq Fault
      BY <1>0, <1>6, <2>1, HeapTypes DEF copy, Misuse, Cur, TypeOK
  <2> QED
      BY <1>0, <1>1, <1>6, <2>1, <2>2, <2>4, <2>5 DEF copy, TypeOK, ChainsKept, SendPlace
<1> QED
    BY <1>2, <1>3, <1>4, <1>5, <1>6 DEF check_retransmit

LEMMA SweepTable ==
    ASSUME TableInv, check_retransmit
    PROVE  TableInv'
<1>1. /\ TypeOK' /\ ChainsKept /\ node' = node /\ \A u \in Writer : thread'[u] = thread[u]
      /\ SendPlace' /\ thread'["send"].cur <= nodes' /\ TypeOK /\ NodesInv /\ PlaceInv
    BY SweepStep DEF TableInv
<1>2. PlaceInv'
  <2>1. \A u \in Thread : thread'[u].cur <= nodes'
      BY <1>1 DEF PlaceInv, ChainsKept, Thread
  <2>2. \A u \in Writer : WriterPlace(u)'
      BY <1>1 DEF PlaceInv, WriterPlace
  <2>3. CommandPlace'
      BY <1>1, Defaults DEF PlaceInv, CommandPlace
  <2> QED
      BY <1>1, <2>1, <2>2, <2>3 DEF PlaceInv
<1> QED
    BY <1>1, <1>2, Quiet

-------------------------------------------------------------------------------
\* Walks.

\* A step of one writer keeps the places of the other threads.
LEMMA PlaceStays ==
    ASSUME TypeOK, PlaceInv, NEW t \in Writer, nodes' \in Nat, nodes <= nodes',
           \A u \in Thread \ {t} : thread'[u] = thread[u],
           \A n \in NodeId : n <= nodes => node'[n].key = node[n].key,
           WriterPlace(t)', thread'[t].cur <= nodes', t = "cmd" => CommandPlace'
    PROVE  PlaceInv'
<1>0. /\ \A u \in Thread : thread[u].cur \in NodeId \cup {NULL} /\ thread[u].cur <= nodes
      /\ \A u \in Thread : thread[u].cur \in Nat
      /\ nodes \in Nat /\ t \in Thread /\ Writer \subseteq Thread
  <2>1. \A u \in Thread : thread[u].cur \in NodeId \cup {NULL} /\ thread[u].cur <= nodes
      BY Fields DEF PlaceInv
  <2>2. NodeId \cup {NULL} \subseteq Nat
      BY Constants
  <2>3. nodes \in Nat /\ t \in Thread /\ Writer \subseteq Thread
      BY Fields, Defaults
  <2> QED
      BY <2>1, <2>2, <2>3
<1>1. \A u \in Thread : thread'[u].cur <= nodes'
  <2> SUFFICES ASSUME NEW u \in Thread PROVE thread'[u].cur <= nodes'
      OBVIOUS
  <2>1. CASE u = t
      BY <2>1
  <2>2. CASE u # t
      BY <2>2, <1>0
  <2> QED
      BY <2>1, <2>2
<1>2. ASSUME NEW u \in Writer PROVE WriterPlace(u)'
  <2>1. CASE u # t
    <3>1. thread'[u] = thread[u] /\ WriterPlace(u)
        BY <2>1, <1>0 DEF PlaceInv
    <3>2. thread[u].cur \in NodeId \cup {NULL} /\ thread[u].cur <= nodes
        BY <1>0
    <3> QED
        BY <3>1, <3>2 DEF WriterPlace
  <2> QED
      BY <2>1
<1>3. CommandPlace'
  <2>1. CASE t # "cmd"
    <3>1. thread'["cmd"] = thread["cmd"] /\ CommandPlace
        BY <2>1, Defaults DEF PlaceInv
    <3>2. thread["cmd"].cur \in NodeId \cup {NULL} /\ thread["cmd"].cur <= nodes
        BY <1>0, Defaults
    <3> QED
        BY <3>1, <3>2 DEF CommandPlace
  <2> QED
      BY <2>1
<1>4. SendPlace'
  <2>1. thread'["send"] = thread["send"] /\ SendPlace
      BY Defaults DEF PlaceInv
  <2> QED
      BY <2>1 DEF SendPlace
<1> QED
    BY <1>1, <1>2, <1>3, <1>4 DEF PlaceInv

\* A step of one writer that neither publishes nor is about to, on chains that stay.
LEMMA OneWriter ==
    ASSUME TableInv, TypeOK', PlaceInv', ChainsKept, NEW t \in Writer, node' = node,
           \A u \in Thread \ {t} : thread'[u] = thread[u],
           thread[t].at # "publish", thread'[t].at # "publish", Walks(t)'
    PROVE  TableInv'
<1>1. NodesInv' /\ RaceInv' /\ UniqueInv'
  <2>1. ChainsLinked
      BY DEF ChainsKept, ChainsLinked
  <2> QED
      BY <2>1, PublishersStay, Defaults DEF TableInv
<1>2. ASSUME NEW u \in Writer PROVE Walks(u)'
  <2>1. CASE u # t
    <3>1. thread'[u] = thread[u] /\ Walks(u)
        BY <2>1, Defaults DEF TableInv, WalkInv
    <3> QED
        BY <3>1, WalkStays DEF TableInv
  <2> QED
      BY <2>1
<1> QED
    BY <1>1, <1>2 DEF TableInv, WalkInv

\* The valid nodes of a 4-tuple in its chain are one or none.
LEMMA MappedNode ==
    ASSUME TableInv, NEW k \in Key
    PROVE  /\ Mapped(k) = Live(k) \cap Chain(Hash[k])
           /\ Mapped(k) \subseteq {TheNode(k)}
           /\ TheNode(k) # NULL => TheNode(k) \in Mapped(k)
           /\ Mapped(k) = {} => TheNode(k) = NULL
<1>1. Mapped(k) = Live(k) \cap Chain(Hash[k])
    BY DEF Mapped, Live, Chain, From
<1>2. Live(k) \cap Chain(Hash[k]) \subseteq Reach(k)
    BY DEF Reach, Live
<1>3. \A m, n \in Mapped(k) : m = n
    BY <1>1, <1>2 DEF TableInv, UniqueInv
<1>4. Mapped(k) # {} => TheNode(k) \in Mapped(k)
    BY DEF TheNode
<1> QED
    BY <1>1, <1>3, <1>4 DEF TheNode

LEMMA LookForTable ==
    ASSUME TableInv, NEW t \in Writer, NEW k \in Key, NEW inserting \in BOOLEAN,
           inserting => k \in Owned(t), t = "cmd" => inserting, look_for(t, k, inserting)
    PROVE  TableInv'
<1> DEFINE b == Hash[k]
           r == [Rest EXCEPT !.at = "walk", !.key = k, !.inserting = inserting,
                             !.bucket = b, !.cur = head[b], !.saw = TheNode(k)]
<1>0. /\ TypeOK /\ NodesInv /\ PlaceInv /\ b \in Bucket /\ t \in Thread
      /\ head[b] \in NodeId \cup {NULL} /\ head[b] <= nodes /\ nodes \in Nat
      /\ "walk" \in Place
  <2>1. TypeOK /\ NodesInv /\ PlaceInv /\ b \in Bucket /\ t \in Thread /\ "walk" \in Place
      BY Constants, Defaults DEF TableInv, InsertPlace
  <2> HIDE DEF b
  <2>2. head[b] \in NodeId \cup {NULL} /\ nodes \in Nat /\ head[b] \in {n \in NodeId : n <= nodes} \cup {NULL}
      BY <2>1, Fields, Allocated
  <2> QED
      BY <2>1, <2>2, Constants
<1>1. /\ r \in Local /\ r.at = "walk" /\ r.key = k /\ r.inserting = inserting
      /\ r.bucket = b /\ r.cur = head[b] /\ r.saw = TheNode(k)
  <2> HIDE DEF b
  <2>1. TheNode(k) \in NodeId \cup {NULL} /\ Rest \in Local
      BY TheNodeType, Constants
  <2> QED
      BY <1>0, <2>1 DEF Local
<1>2. thread' = [thread EXCEPT ![t] = r]
    BY DEF look_for, StartAt
<1> HIDE DEF r
<1>3. /\ thread' \in [Thread -> Local] /\ thread'[t] = r
      /\ \A u \in Thread \ {t} : thread'[u] = thread[u]
    BY <1>0, <1>1, <1>2, ThreadTypes
<1>4. TypeOK' /\ ChainsKept /\ node' = node /\ thread[t].at = "idle"
    BY <1>0, <1>3 DEF TypeOK, ChainsKept, look_for, heapVars
<1>5. PlaceInv'
  <2>1. WriterPlace(t)'
      BY <1>1, <1>3 DEF WriterPlace, InsertPlace, PayloadPlace
  <2>2. t = "cmd" => CommandPlace'
      BY <1>1, <1>3 DEF CommandPlace, InsertPlace
  <2> QED
      BY <1>0, <1>1, <1>3, <1>4, <2>1, <2>2, PlaceStays DEF ChainsKept
<1>6. Walks(t)'
  <2>1. Live(k)' = Live(k) /\ Chain(b)' = Chain(b) /\ From(head[b])' = From(head[b])
      BY <1>0, <1>4, ChainsStay DEF Chain
  <2>2. thread'[t].cur = head[b] /\ Chain(b) = From(head[b]) /\ head'[b] = head[b]
      BY <1>1, <1>3, <1>4 DEF Chain, ChainsKept
  <2>3. From(thread[t].cur)' = Chain(b)
      BY <2>1, <2>2
  <2>4. Live(thread[t].key)' = Live(k) /\ Chain(thread[t].bucket)' = Chain(b)
      BY <1>1, <1>3, <2>1
  <2> QED
      BY <2>3, <2>4, <1>1, <1>3, MappedNode DEF Walks
<1> QED
    BY <1>1, <1>3, <1>4, <1>5, <1>6, OneWriter

\* What a walk of get_tcb comes to.
LEMMA Lookup ==
    ASSUME TableInv, NEW t \in Writer, thread[t].at = "walk"
    PROVE  LET w == thread[t]
           IN  /\ w.cur \in Live(w.key) => w.cur = w.saw
               /\ w.cur = NULL /\ w.inserting => Live(w.key) \cap Chain(w.bucket) = {}
               /\ w.cur = NULL => w.saw = NULL \/ TheNode(w.key) = NULL
<1> DEFINE w == thread[t]
<1>0. /\ TypeOK /\ w.cur \in NodeId \cup {NULL} /\ w.saw \in NodeId \cup {NULL} /\ w.key \in Key
      /\ node \in [NodeId -> Node] /\ Walks(t) /\ t \in {"proc", "cmd"}
      /\ "walk" \in InsertPlace /\ WriterPlace(t) /\ CommandPlace
    BY Fields, Defaults DEF TableInv, WalkInv, InsertPlace, PlaceInv
<1>1. w.cur \in Live(w.key) => w.cur = w.saw
  <2>1. w.cur # NULL => w.cur \in From(w.cur)
      BY <1>0, FromIsClosed
  <2>2. NULL \notin Live(w.key)
      BY Constants DEF Live
  <2> QED
      BY <1>0, <2>1, <2>2 DEF Walks
<1>2. w.cur = NULL /\ w.inserting => Live(w.key) \cap Chain(w.bucket) = {}
    BY <1>0, FromNull DEF Walks
<1>3. w.cur = NULL => w.saw = NULL \/ TheNode(w.key) = NULL
  <2>1. CASE w.inserting
    <3>1. w.bucket = Hash[w.key]
        BY <1>0 DEF WriterPlace
    <3> QED
        BY <1>0, <1>2, <2>1, <3>1, MappedNode
  <2>2. CASE ~w.inserting
    <3>1. t = "proc"
        BY <1>0, <2>2 DEF CommandPlace
    <3> QED
        BY <1>0, <3>1, FromNull DEF Walks
  <2> QED
      BY <2>1, <2>2
<1> QED
    BY <1>1, <1>2, <1>3

LEMMA WalkTable ==
    ASSUME TableInv, NEW t \in Writer, get_tcb(t)
    PROVE  TableInv'
<1> DEFINE w == thread[t]
           n == w.cur
<1>0. /\ TypeOK /\ NodesInv /\ PlaceInv /\ WriterPlace(t) /\ Walks(t) /\ t \in Thread
      /\ w \in Local /\ n \in NodeId \cup {NULL} /\ w.key \in Key /\ w.bucket \in Bucket
      /\ w.bucket = Hash[w.key] /\ w.inserting \in BOOLEAN /\ t \in {"proc", "cmd"}
      /\ w.at = "walk" /\ nodes \in Nat /\ n <= nodes /\ node \in [NodeId -> Node]
      /\ "link" \in Place /\ "found" \in Place /\ NULL \in NodeId \cup {NULL}
      /\ Rest \in Local /\ Rest.at # "publish" /\ Rest.cur <= nodes
  <2>1. TypeOK /\ NodesInv /\ PlaceInv /\ WriterPlace(t) /\ Walks(t) /\ t \in Thread /\ n <= nodes
      BY Defaults DEF TableInv, WalkInv, PlaceInv
  <2>2. /\ w \in Local /\ n \in NodeId \cup {NULL} /\ w.key \in Key /\ w.bucket \in Bucket
        /\ w.inserting \in BOOLEAN /\ nodes \in Nat /\ node \in [NodeId -> Node]
      BY <2>1, Fields
  <2>3. w.at = "walk" /\ w.bucket = Hash[w.key]
      BY <2>1 DEF get_tcb, WriterPlace, InsertPlace
  <2> QED
      BY <2>1, <2>2, <2>3, Defaults, Constants DEF InsertPlace
<1>1. node' = node /\ head' = head /\ nodes' = nodes /\ locked' = locked
      /\ size' = size /\ freed' = freed /\ fault' = fault
    BY DEF get_tcb, heapVars
<1>2. ASSUME NEW r \in Local, thread' = [thread EXCEPT ![t] = r], r.at # "publish",
             r.cur <= nodes, WriterPlace(t)', t = "cmd" => CommandPlace',
             TypeOK' => Walks(t)'
      PROVE  TableInv'
  <2>1. /\ thread' \in [Thread -> Local] /\ thread'[t] = r
        /\ \A u \in Thread \ {t} : thread'[u] = thread[u]
      BY <1>0, <1>2, ThreadTypes
  <2>2. TypeOK' /\ ChainsKept
      BY <1>0, <1>1, <2>1 DEF TypeOK, ChainsKept
  <2>3. PlaceInv'
      BY <1>0, <1>1, <1>2, <2>1, PlaceStays
  <2> QED
      BY <1>0, <1>1, <1>2, <2>1, <2>2, <2>3, OneWriter
<1>3. CASE n = NULL /\ w.inserting
  <2> DEFINE r == [w EXCEPT !.at = "link", !.saw = NULL]
  <2>1. /\ r \in Local /\ r.at = "link" /\ r.key = w.key /\ r.inserting = w.inserting
        /\ r.bucket = w.bucket /\ r.cur = NULL
      BY <1>0, <1>3 DEF Local
  <2>2. thread' = [thread EXCEPT ![t] = r]
      BY <1>0, <1>3, Fields DEF get_tcb, Missed
  <2> HIDE DEF r
  <2>3. thread'[t] = r
      BY <1>0, <2>1, <2>2, ThreadTypes
  <2>4. WriterPlace(t)' /\ (t = "cmd" => CommandPlace')
      BY <1>0, <1>3, <2>1, <2>3 DEF WriterPlace, CommandPlace, InsertPlace, PayloadPlace
  <2>5. TypeOK' => Walks(t)'
    <3> SUFFICES ASSUME TypeOK' PROVE Walks(t)'
        OBVIOUS
    <3>1. ChainsKept
        BY <1>1 DEF ChainsKept
    <3>2. Live(thread[t].key)' = Live(w.key) /\ Chain(thread[t].bucket)' = Chain(w.bucket)
      <4>1. \A k : Live(k)' = Live(k)
          BY <1>0, <3>1, ChainsStay
      <4>2. \A b \in Bucket : Chain(b)' = Chain(b)
          BY <1>0, <3>1, ChainsStay
      <4> QED
          BY <1>0, <4>1, <4>2, <2>1, <2>3
    <3>3. Live(w.key) \cap Chain(w.bucket) = {}
        BY <1>0, <1>3, Lookup
    <3>4. thread'[t].at = "link" /\ "link" # "walk"
        BY <2>1, <2>3
    <3> QED
        BY <3>2, <3>3, <3>4 DEF Walks
  <2> QED
      BY <1>0, <1>2, <1>3, <2>1, <2>2, <2>4, <2>5
<1>4. CASE n = NULL /\ ~w.inserting
  <2>2. thread' = [thread EXCEPT ![t] = Rest]
      BY <1>0, <1>4, Fields DEF get_tcb, Missed
  <2>3. thread'[t] = Rest
      BY <1>0, <2>2, Constants, ThreadTypes
  <2>4. WriterPlace(t)' /\ (t = "cmd" => CommandPlace') /\ Walks(t)'
      BY <2>3, Constants DEF WriterPlace, CommandPlace, InsertPlace, PayloadPlace, Walks
  <2> QED
      BY <1>0, <1>2, <2>2, <2>4
<1>5. CASE n # NULL /\ Cur(t).valid /\ Cur(t).key = w.key
  <2>1. CASE ~w.inserting
    <3> DEFINE r == [Rest EXCEPT !.at = "found", !.cur = n]
    <3>1. r \in Local /\ r.at = "found" /\ r.cur = n
        BY <1>0, Constants DEF Local
    <3>2. thread' = [thread EXCEPT ![t] = r]
        BY <1>0, <1>5, <2>1, Fields DEF get_tcb, Hit
    <3> HIDE DEF r
    <3>3. thread'[t] = r
        BY <1>0, <3>1, <3>2, ThreadTypes
    <3>4. t # "cmd"
        BY <1>0, <2>1 DEF PlaceInv, CommandPlace, InsertPlace
    <3>5. WriterPlace(t)' /\ (t = "cmd" => CommandPlace') /\ Walks(t)'
        BY <1>5, <3>1, <3>3, <3>4 DEF WriterPlace, InsertPlace, PayloadPlace, Walks
    <3> QED
        BY <1>0, <1>2, <3>1, <3>2, <3>5
  <2>2. CASE w.inserting /\ t = "cmd"
    <3> DEFINE r == [Rest EXCEPT !.cur = n]
    <3>1. r \in Local /\ r.at = "idle" /\ r.cur = n
        BY <1>0, Constants DEF Local
    <3>2. thread' = [thread EXCEPT ![t] = r]
        BY <1>0, <1>5, <2>2, Fields DEF get_tcb, Hit
    <3> HIDE DEF r
    <3>3. thread'[t] = r
        BY <1>0, <3>1, <3>2, ThreadTypes
    <3>4. node'[n].key \in Client
        BY <1>0, <1>1, <1>5, <2>2 DEF WriterPlace, InsertPlace, Owned, Cur
    <3>5. WriterPlace(t)' /\ (t = "cmd" => CommandPlace') /\ Walks(t)'
        BY <2>2, <3>1, <3>3, <3>4 DEF WriterPlace, CommandPlace, InsertPlace, PayloadPlace, Walks
    <3> QED
        BY <1>0, <1>2, <3>1, <3>2, <3>5
  <2>3. CASE w.inserting /\ t = "proc"
    <3>2. thread' = [thread EXCEPT ![t] = Rest]
        BY <1>0, <1>5, <2>3, Fields DEF get_tcb, Hit
    <3>3. thread'[t] = Rest
        BY <1>0, <3>2, Constants, ThreadTypes
    <3>4. WriterPlace(t)' /\ (t = "cmd" => CommandPlace') /\ Walks(t)'
        BY <2>3, <3>3, Constants DEF WriterPlace, InsertPlace, PayloadPlace, Walks
    <3> QED
        BY <1>0, <1>2, <3>2, <3>4
  <2> QED
      BY <1>0, <2>1, <2>2, <2>3
<1>6. CASE n # NULL /\ ~(Cur(t).valid /\ Cur(t).key = w.key)
  <2> DEFINE next == node[n].next
             r == [w EXCEPT !.cur = next]
  <2>0. n \in NodeId /\ next \in NodeId \cup {NULL} /\ next <= nodes /\ n \notin Live(w.key)
    <3>1. n \in NodeId /\ next \in NodeId \cup {NULL} /\ n \notin Live(w.key)
        BY <1>0, <1>6, Fields DEF Live, Cur
    <3>2. next <= nodes
        BY <1>0, <3>1, Allocated, Constants
    <3> QED
        BY <3>1, <3>2
  <2>1. /\ r \in Local /\ r.at = w.at /\ r.key = w.key /\ r.inserting = w.inserting
        /\ r.bucket = w.bucket /\ r.cur = next /\ r.saw = w.saw
      BY <1>0, <2>0 DEF Local
  <2>2. thread' = [thread EXCEPT ![t] = r]
      BY <1>0, <1>6, Fields DEF get_tcb, Onward, Cur
  <2> HIDE DEF r
  <2>3. thread'[t] = r
      BY <1>0, <2>1, <2>2, ThreadTypes
  <2>4. WriterPlace(t)' /\ (t = "cmd" => CommandPlace')
      BY <1>0, <2>1, <2>3 DEF WriterPlace, CommandPlace, InsertPlace, PayloadPlace, PlaceInv
  <2>5. TypeOK' => Walks(t)'
    <3> SUFFICES ASSUME TypeOK' PROVE Walks(t)'
        OBVIOUS
    <3>1. ChainsKept
        BY <1>1 DEF ChainsKept
    <3>2. /\ Live(thread[t].key)' = Live(w.key) /\ Chain(thread[t].bucket)' = Chain(w.bucket)
          /\ From(thread[t].cur)' = From(next)
      <4>1. \A k : Live(k)' = Live(k)
          BY <1>0, <3>1, ChainsStay
      <4>2. \A b \in Bucket : Chain(b)' = Chain(b)
          BY <1>0, <3>1, ChainsStay
      <4>3. \A x \in NodeId \cup {NULL} : From(x)' = From(x)
          BY <1>0, <3>1, ChainsStay
      <4> QED
          BY <1>0, <2>0, <4>1, <4>2, <4>3, <2>1, <2>3
    <3>3. From(n) = {n} \cup From(next)
        BY <1>0, <2>0, FromNode
    <3> QED
        BY <1>0, <2>0, <2>1, <2>3, <3>2, <3>3 DEF Walks
  <2> QED
      BY <1>0, <1>2, <2>0, <2>1, <2>2, <2>4, <2>5
<1> QED
    BY <1>3, <1>4, <1>5, <1>6

LEMMA ReleaseTable ==
    ASSUME TableInv, release("proc")
    PROVE  TableInv'
<1> DEFINE n == thread["proc"].cur
           r == [node[n] EXCEPT !.valid = FALSE]
<1>0. /\ TypeOK /\ NodesInv /\ PlaceInv /\ "proc" \in Thread /\ "proc" \in Writer
      /\ n \in NodeId /\ n <= nodes /\ nodes \in Nat /\ thread["proc"].at = "found"
  <2>1. /\ TypeOK /\ NodesInv /\ PlaceInv /\ "proc" \in Thread /\ "proc" \in Writer
        /\ thread["proc"].at = "found"
      BY Defaults DEF TableInv, release
  <2>2. WriterPlace("proc") /\ n <= nodes
      BY <2>1 DEF PlaceInv
  <2> QED
      BY <2>1, <2>2, Fields DEF WriterPlace
<1>1. /\ r \in Node /\ r.key = node[n].key /\ r.valid = FALSE /\ r.next = node[n].next
      BY <1>0, Fields DEF Node
<1>2. /\ node' \in [NodeId -> Node] /\ node'[n] = r
      /\ \A m \in NodeId \ {n} : node'[m] = node[m]
  <2>1. Put(n, r)
      BY DEF release, Cur
  <2> HIDE DEF r, n
  <2> QED
      BY <1>0, <1>1, <2>1, PutTypes
<1>3. /\ thread' \in [Thread -> Local] /\ thread'["proc"] = Rest
      /\ \A u \in Thread \ {"proc"} : thread'[u] = thread[u]
  <2>1. thread' = [thread EXCEPT !["proc"] = Rest]
      BY DEF release
  <2> QED
      BY <1>0, <2>1, Constants, ThreadTypes
<1>4. TypeOK' /\ ChainsLinked
    BY <1>0, <1>1, <1>2, <1>3 DEF TypeOK, ChainsLinked, release, heapVars
<1>5. PlaceInv'
  <2>1. WriterPlace("proc")'
      BY <1>3, Constants DEF WriterPlace, InsertPlace, PayloadPlace
  <2>2. thread'["proc"].cur <= nodes' /\ nodes' = nodes
      BY <1>0, <1>3, <1>4, Constants DEF ChainsLinked
  <2> QED
      BY <1>0, <1>3, <1>4, <2>1, <2>2, PlaceStays DEF ChainsLinked
<1>6. NodesInv' /\ RaceInv' /\ UniqueInv'
  <2>1. \A m \in NodeId : m > nodes => node'[m] = node[m]
    <3> SUFFICES ASSUME NEW m \in NodeId, m > nodes PROVE m # n
        BY <1>2
    <3> QED
        BY <1>0, Constants
  <2> QED
      BY <1>0, <1>3, <1>4, <2>1, Constants, Defaults, PublishersStay DEF TableInv
<1>7. ASSUME NEW t \in Writer PROVE Walks(t)'
  <2>1. CASE t = "proc"
      BY <2>1, <1>3, Constants DEF Walks
  <2>2. CASE t # "proc"
    <3>1. /\ thread'[t] = thread[t] /\ Walks(t) /\ thread[t].cur \in NodeId \cup {NULL}
          /\ thread[t].bucket \in Bucket
        BY <2>2, <1>0, <1>3, Defaults, Fields DEF TableInv, WalkInv
    <3>2. /\ Live(thread[t].key)' \subseteq Live(thread[t].key)
          /\ Chain(thread[t].bucket)' = Chain(thread[t].bucket)
          /\ From(thread[t].cur)' = From(thread[t].cur)
        BY <1>0, <1>4, <3>1, PointersStay
    <3> QED
        BY <2>2, <3>1, <3>2 DEF Walks
  <2> QED
      BY <2>1, <2>2
<1> QED
    BY <1>4, <1>5, <1>6, <1>7 DEF TableInv, WalkInv

-------------------------------------------------------------------------------
\* Insertions.

\* The other writer.
LEMMA Owners ==
    ASSUME NEW t \in Writer, NEW u \in Writer, t # u
    PROVE  Owned(t) \cap Owned(u) = {} /\ \A v \in Writer : v = t \/ v = u
BY KeyAssumption DEF Owned, Writer

LEMMA PublishTable ==
    ASSUME TableInv, NEW t \in Writer, publish(t)
    PROVE  TableInv'
<1> DEFINE w == thread[t]
<1>a. /\ TypeOK /\ NodesInv /\ PlaceInv /\ t \in Thread /\ WriterPlace(t)
      /\ w.cur <= nodes /\ w.at = "publish"
    BY Defaults DEF TableInv, PlaceInv, publish
<1>b. w.cur \in NodeId /\ w.bucket \in Bucket
    BY <1>a, Fields DEF WriterPlace
<1> PICK n \in NodeId, b \in Bucket : n = w.cur /\ b = w.bucket
    BY <1>b
<1>0. /\ TypeOK /\ NodesInv /\ PlaceInv /\ t \in Thread /\ WriterPlace(t)
      /\ n <= nodes /\ w.at = "publish" /\ w.inserting /\ b = Hash[w.key] /\ n # NULL
      /\ node[n].key = w.key /\ w.key \in Owned(t)
    BY <1>a DEF WriterPlace, InsertPlace
<1>1. /\ n \in NodeId /\ b \in Bucket /\ w.key \in Key /\ nodes \in Nat /\ w \in Local
      /\ node \in [NodeId -> Node] /\ head \in [Bucket -> NodeId \cup {NULL}]
    BY <1>0, Fields
<1>2. /\ head' = [head EXCEPT ![b] = n] /\ node' = node /\ nodes' = nodes /\ locked' = locked
      /\ size' = size /\ freed' = freed /\ fault' = fault /\ Hit(t)
    BY DEF publish, heapVars
<1>3. /\ head' \in [Bucket -> NodeId \cup {NULL}]
      /\ head'[b] = n /\ \A c \in Bucket \ {b} : head'[c] = head[c]
    BY <1>1, <1>2
<1>4. /\ thread' \in [Thread -> Local] /\ \A u \in Thread \ {t} : thread'[u] = thread[u]
      /\ thread'[t].at = "idle" /\ thread'[t].cur = IF t = "cmd" THEN n ELSE NULL
  <2>1. CASE t = "cmd"
    <3> DEFINE r == [Rest EXCEPT !.cur = n]
    <3>1. r \in Local /\ r.at = "idle" /\ r.cur = n
        BY <1>1, Constants DEF Local
    <3>2. thread' = [thread EXCEPT ![t] = r]
        BY <1>0, <1>2, <2>1, Fields DEF Hit
    <3> HIDE DEF r
    <3> QED
        BY <1>0, <2>1, <3>1, <3>2, ThreadTypes
  <2>2. CASE t = "proc"
    <3>1. thread' = [thread EXCEPT ![t] = Rest]
        BY <1>0, <1>2, <2>2, Fields DEF Hit
    <3> QED
        BY <1>0, <2>2, <3>1, Constants, ThreadTypes
  <2> QED
      BY <2>1, <2>2, Defaults
<1>5. TypeOK'
    BY <1>0, <1>2, <1>3, <1>4 DEF TypeOK
<1>6. /\ \A x : From(x)' = From(x)
      /\ Chain(b)' = From(n) /\ \A c \in Bucket \ {b} : Chain(c)' = Chain(c)
      /\ \A k : Live(k)' = Live(k)
  <2>1. \A x : From(x)' = From(x)
      BY <1>2 DEF From, Closed
  <2>2. \A k : Live(k)' = Live(k)
      BY <1>2 DEF Live
  <2>3. Chain(b)' = From(n)
      BY <1>3, <2>1 DEF Chain
  <2>4. ASSUME NEW c \in Bucket \ {b} PROVE Chain(c)' = Chain(c)
    <3>1. head'[c] = head[c]
        BY <1>3, <2>4
    <3> QED
        BY <3>1, <2>1 DEF Chain
  <2> QED
      BY <2>1, <2>2, <2>3, <2>4
<1>7. NodesInv'
  <2>1. \A m \in NodeId : m > nodes' => node'[m] = Blank
      BY <1>0, <1>2 DEF NodesInv
  <2>2. \A c \in Bucket : head'[c] # NULL => head'[c] <= nodes' /\ Hash[node'[head'[c]].key] = c
    <3> SUFFICES ASSUME NEW c \in Bucket, head'[c] # NULL
                 PROVE  head'[c] <= nodes' /\ Hash[node'[head'[c]].key] = c
        OBVIOUS
    <3>1. CASE c = b
        BY <3>1, <1>0, <1>2, <1>3
    <3>2. CASE c # b
        BY <3>2, <1>0, <1>2, <1>3 DEF NodesInv
    <3> QED
        BY <3>1, <3>2
  <2> QED
      BY <1>0, <1>2, <2>1, <2>2 DEF NodesInv
<1>8. PlaceInv'
  <2>1. WriterPlace(t)'
      BY <1>4 DEF WriterPlace, InsertPlace, PayloadPlace
  <2>2. t = "cmd" => CommandPlace'
      BY <1>0, <1>2, <1>4 DEF CommandPlace, InsertPlace, Owned
  <2>3. thread'[t].cur <= nodes'
      BY <1>0, <1>1, <1>2, <1>4, Constants
  <2> QED
      BY <1>0, <1>1, <1>2, <1>4, <2>1, <2>2, <2>3, PlaceStays
<1>9. RaceInv'
  <2> SUFFICES ASSUME NEW v \in Writer, NEW u \in Writer, v # u,
                      NEW m \in NodeId, node'[m].key \in Owned(v)
               PROVE  /\ thread'[u].at = "publish" /\ m \in From(thread[u].cur)'
                           => m \in Chain(thread[u].bucket)'
                      /\ thread'[v].at = "publish" /\ m \in Chain(thread[v].bucket)'
                           => m \in From(thread[v].cur)'
      BY DEF RaceInv
  <2>0. /\ u \in Thread /\ v \in Thread /\ node[m].key \in Owned(v)
        /\ thread[u].bucket \in Bucket /\ thread[v].bucket \in Bucket
      BY <1>0, <1>2, Defaults, Fields
  <2>a. /\ thread[u].at = "publish" /\ m \in From(thread[u].cur) => m \in Chain(thread[u].bucket)
        /\ thread[v].at = "publish" /\ m \in Chain(thread[v].bucket) => m \in From(thread[v].cur)
      BY <2>0 DEF TableInv, RaceInv
  <2>1. ASSUME thread'[u].at = "publish", m \in From(thread[u].cur)'
        PROVE  m \in Chain(thread[u].bucket)'
    <3>1. u # t /\ v = t
        BY <2>1, <1>4, Owners
    <3>2. thread'[u] = thread[u] /\ m \in From(thread[u].cur)
        BY <2>0, <2>1, <3>1, <1>4, <1>6
    <3>3. m \in Chain(thread[u].bucket)
        BY <2>a, <2>1, <3>2
    <3>4. CASE thread[u].bucket = b
      <4>1. m \in From(n)
          BY <2>a, <3>1, <3>3, <3>4, <1>0
      <4> QED
          BY <4>1, <3>2, <3>4, <1>6
    <3>5. CASE thread[u].bucket # b
        BY <2>0, <3>2, <3>3, <3>5, <1>6
    <3> QED
        BY <3>4, <3>5
  <2>2. ASSUME thread'[v].at = "publish", m \in Chain(thread[v].bucket)'
        PROVE  m \in From(thread[v].cur)'
    <3>1. v # t /\ u = t
        BY <2>2, <1>4, Owners
    <3>2. thread'[v] = thread[v]
        BY <2>0, <3>1, <1>4
    <3>3. m \in Chain(thread[v].bucket)
      <4>1. CASE thread[v].bucket = b
        <5>1. m \in From(n)
            BY <2>2, <3>2, <4>1, <1>6
        <5> QED
            BY <2>a, <3>1, <4>1, <5>1, <1>0
      <4>2. CASE thread[v].bucket # b
          BY <2>0, <2>2, <3>2, <4>2, <1>6
      <4> QED
          BY <4>1, <4>2
    <3>4. m \in From(thread[v].cur)
        BY <2>a, <2>2, <3>2, <3>3
    <3> QED
        BY <3>2, <3>4, <1>6
  <2> QED
      BY <2>1, <2>2
<1>10. UniqueInv'
  <2>1. ASSUME NEW k \in Key, NEW m \in Reach(k)' PROVE m \in Reach(k)
    <3>0. m \in NodeId /\ Hash[k] \in Bucket
        BY Constants DEF Reach
    <3>1. CASE m \in Chain(Hash[k])'
      <4>1. CASE Hash[k] = b
        <5>1. m \in From(n)
            BY <3>1, <4>1, <1>6
        <5> QED
            BY <3>0, <4>1, <5>1, <1>0 DEF Reach
      <4>2. CASE Hash[k] # b
          BY <3>0, <3>1, <4>2, <1>6 DEF Reach
      <4> QED
          BY <4>1, <4>2
    <3>2. CASE \E u \in Writer : /\ thread'[u].at = "publish" /\ thread'[u].bucket = Hash[k]
                                 /\ m \in From(thread[u].cur)'
      <4> PICK u \in Writer : /\ thread'[u].at = "publish" /\ thread'[u].bucket = Hash[k]
                              /\ m \in From(thread[u].cur)'
          BY <3>2
      <4>1. u # t
          BY <1>4
      <4>2. thread'[u] = thread[u]
          BY <4>1, <1>4, Defaults
      <4>3. m \in From(thread[u].cur)
          BY <4>2, <1>6
      <4> QED
          BY <3>0, <4>2, <4>3 DEF Reach
    <3> QED
        BY <2>1, <3>1, <3>2 DEF Reach
  <2> QED
      BY <2>1, <1>6 DEF TableInv, UniqueInv
<1>11. ASSUME NEW u \in Writer PROVE Walks(u)'
  <2>1. CASE u = t
      BY <2>1, <1>4 DEF Walks
  <2>2. CASE u # t
    <3>1. /\ thread'[u] = thread[u] /\ Walks(u) /\ thread[u].bucket \in Bucket
          /\ WriterPlace(u)
        BY <2>2, <1>0, <1>4, Defaults, Fields DEF TableInv, WalkInv, PlaceInv
    <3>2. Live(thread[u].key)' = Live(thread[u].key) /\ From(thread[u].cur)' = From(thread[u].cur)
        BY <1>6, <3>1
    <3>3. ASSUME thread[u].at \in {"walk", "link"}, thread[u].inserting
          PROVE  Live(thread[u].key) \cap Chain(thread[u].bucket)'
                     \subseteq Live(thread[u].key) \cap Chain(thread[u].bucket)
      <4>1. thread[u].key \in Owned(u)
          BY <3>1, <3>3 DEF WriterPlace, InsertPlace
      <4>2. CASE thread[u].bucket = b
        <5> SUFFICES ASSUME NEW m \in Live(thread[u].key), m \in From(n)
                     PROVE  m \in Chain(b)
            BY <3>1, <4>2, <1>6
        <5>1. m \in NodeId /\ node[m].key \in Owned(u)
            BY <4>1 DEF Live
        <5> QED
            BY <2>2, <5>1, <1>0 DEF TableInv, RaceInv
      <4>3. CASE thread[u].bucket # b
          BY <3>1, <4>3, <1>6
      <4> QED
          BY <4>2, <4>3
    <3>4. thread[u].at = "link" => thread[u].inserting
        BY <3>1 DEF WriterPlace
    <3> QED
        BY <2>2, <3>1, <3>2, <3>3, <3>4 DEF Walks
  <2> QED
      BY <2>1, <2>2
<1> QED
    BY <1>5, <1>7, <1>8, <1>9, <1>10, <1>11 DEF TableInv, WalkInv

\* A new node is in front of the chain its writer has read, and of nothing else.
LEMMA LinkTable ==
    ASSUME TableInv, NEW t \in Writer, link(t)
    PROVE  TableInv'
<1> DEFINE w == thread[t]
           E == {n \in NodeId : n <= nodes}
<1>0. /\ TypeOK /\ NodesInv /\ PlaceInv /\ t \in Thread /\ WriterPlace(t) /\ Walks(t)
      /\ w.at = "link" /\ w.inserting /\ w.bucket = Hash[w.key] /\ w.key \in Owned(t)
      /\ w.bucket \in Bucket /\ w.key \in Key
  <2>1. TypeOK /\ NodesInv /\ PlaceInv /\ t \in Thread /\ WriterPlace(t) /\ Walks(t) /\ w.at = "link"
      BY Defaults DEF TableInv, PlaceInv, WalkInv, link
  <2> QED
      BY <2>1, Fields DEF WriterPlace, InsertPlace
<1> PICK b \in Bucket, k \in Key : b = w.bucket /\ k = w.key
    BY <1>0
<1> PICK h \in NodeId \cup {NULL} : h = head[b]
    BY <1>0, Fields
<1>a. nodes + 1 \in NodeId
    BY <1>0, Fields, BoundAssumption DEF link, NodeId
<1> PICK new \in NodeId : new = nodes + 1
    BY <1>a
<1>1. /\ nodes \in Nat /\ new \in NodeId /\ new \in Nat /\ new > nodes /\ w \in Local
      /\ node \in [NodeId -> Node] /\ head \in [Bucket -> NodeId \cup {NULL}]
      /\ nodes' = new /\ head' = head /\ locked' = locked
      /\ size' = size /\ freed' = freed /\ fault' = fault
      /\ E \subseteq NodeId /\ new \notin E
  <2>1. nodes \in Nat /\ w \in Local /\ node \in [NodeId -> Node] /\ head \in [Bucket -> NodeId \cup {NULL}]
      BY <1>0, Fields
  <2>2. nodes < MaxNode /\ nodes' = new
      BY DEF link
  <2>3. new \in NodeId /\ new \in Nat /\ new > nodes /\ new \notin E
      BY <2>1
  <2> QED
      BY <2>1, <2>2, <2>3 DEF link, heapVars
<1> DEFINE r == [Blank EXCEPT !.key = k, !.valid = TRUE, !.next = h]
<1>2. /\ node' \in [NodeId -> Node] /\ \A m \in NodeId \ {new} : node'[m] = node[m]
      /\ node'[new].key = k /\ node'[new].valid = TRUE /\ node'[new].next = h
  <2>1. r \in Node /\ r.key = k /\ r.valid = TRUE /\ r.next = h
      BY Constants DEF Node
  <2>2. Put(new, r)
      BY <1>0, <1>1 DEF link
  <2> HIDE DEF r
  <2> QED
      BY <1>0, <1>1, <2>1, <2>2, PutTypes
<1> HIDE DEF r
<1>3. /\ thread' \in [Thread -> Local] /\ \A u \in Thread \ {t} : thread'[u] = thread[u]
      /\ thread'[t].at = "publish" /\ thread'[t].cur = new /\ thread'[t].key = k
      /\ thread'[t].bucket = b /\ thread'[t].inserting = TRUE
  <2> DEFINE p == [w EXCEPT !.at = "publish", !.cur = new]
  <2>1. "publish" \in Place
      BY Defaults DEF InsertPlace
  <2>2. /\ p \in Local /\ p.at = "publish" /\ p.cur = new /\ p.key = k
        /\ p.bucket = b /\ p.inserting = w.inserting
      BY <1>1, <2>1 DEF Local
  <2>3. thread' = [thread EXCEPT ![t] = p]
      BY <1>0, <1>1, Fields DEF link
  <2> HIDE DEF p
  <2>4. w.inserting = TRUE
      BY <1>0, Fields
  <2> QED
      BY <1>0, <2>2, <2>3, <2>4, ThreadTypes
<1>4. TypeOK'
  <2>1. nodes' \in 0 .. MaxNode
      BY <1>1 DEF NodeId
  <2> QED
      BY <1>0, <1>1, <1>2, <1>3, <2>1 DEF TypeOK
<1>5. /\ Closed(E) /\ \A n \in NodeId : node[n].next # NULL => node[n].next \in E
      /\ \A c \in Bucket : head[c] \in E \cup {NULL}
      /\ \A u \in Thread : thread[u].cur \in E \cup {NULL}
  <2>1. \A u \in Thread : thread[u].cur \in E \cup {NULL}
      BY <1>0, Fields DEF PlaceInv
  <2> QED
      BY <1>0, <2>1, Allocated
<1>6. \A x \in E \cup {NULL} : From(x)' = From(x) /\ From(x) \subseteq E
  <2> SUFFICES ASSUME NEW x \in E \cup {NULL} PROVE From(x)' = From(x) /\ From(x) \subseteq E
      OBVIOUS
  <2>1. \A n \in E : node'[n].next = node[n].next
      BY <1>1, <1>2
  <2> HIDE DEF E
  <2> QED
      BY <1>1, <1>2, <1>5, <2>1, FromKept, FromIsLeast
<1>7. \A c \in Bucket : Chain(c)' = Chain(c) /\ Chain(c) \subseteq E
  <2> SUFFICES ASSUME NEW c \in Bucket PROVE Chain(c)' = Chain(c) /\ Chain(c) \subseteq E
      OBVIOUS
  <2> PICK x \in E \cup {NULL} : x = head[c]
      BY <1>5
  <2> QED
      BY <1>1, <1>6 DEF Chain
<1>8. From(new)' = {new} \cup Chain(b)
  <2>1. Chain(b) = From(h) /\ From(h)' = From(h) /\ From(h) \subseteq E /\ h \in E \cup {NULL}
      BY <1>5, <1>6 DEF Chain
  <2>2. From(new)' \subseteq {new} \cup From(h)
    <3> DEFINE S == {new} \cup From(h)
    <3>1. S \in SUBSET NodeId
        BY <1>1, <2>1
    <3>2. \A m \in S : node'[m].next \in S \cup {NULL}
      <4> SUFFICES ASSUME NEW m \in S PROVE node'[m].next \in S \cup {NULL}
          OBVIOUS
      <4>1. h \in From(h) \cup {NULL} /\ Closed(From(h))
          BY <1>1, FromIsClosed
      <4>2. CASE m = new
          BY <4>1, <4>2, <1>2
      <4>3. CASE m # new
        <5>1. node'[m] = node[m] /\ m \in From(h)
            BY <1>2, <3>1, <4>3
        <5> QED
            BY <4>1, <5>1 DEF Closed
      <4> QED
          BY <4>2, <4>3
    <3> HIDE DEF S
    <3>3. new \in S
        BY DEF S
    <3>4. From(new)' \subseteq S
        BY <3>1, <3>2, <3>3, <1>1 DEF From, Closed
    <3> QED
        BY <3>4 DEF S
  <2>3. new \in From(new)'
      BY <1>1, Constants DEF From
  <2>4. ASSUME NEW m \in From(h) PROVE m \in From(new)'
    <3>1. m \in NodeId
        BY <1>1, <2>1
    <3>2. ASSUME NEW S \in SUBSET NodeId, new \in S \cup {NULL}, Closed(S)'
          PROVE  m \in S
      <4>1. new \in S
          BY <1>1, <3>2, Constants
      <4>2. h \in S \cup {NULL}
          BY <1>2, <3>2, <4>1 DEF Closed
      <4>3. m \in From(h)'
          BY <2>1
      <4> QED
          BY <3>2, <4>2, <4>3 DEF From
    <3> QED
        BY <3>1, <3>2 DEF From
  <2> QED
      BY <2>1, <2>2, <2>3, <2>4
<1>9. /\ \A m \in E : node'[m] = node[m] /\ m # new /\ m <= nodes
      /\ \A j : Live(j) \subseteq E /\ Live(j)' \cap E = Live(j)
      /\ \A j : Live(j)' \subseteq Live(j) \cup {new}
      /\ \A j : j # k => Live(j)' = Live(j)
      /\ node'[new].next < new
  <2>1. \A m \in E : node'[m] = node[m] /\ m # new /\ m <= nodes
      BY <1>1, <1>2
  <2>2. ASSUME NEW j, NEW m \in Live(j) PROVE m \in E
    <3>1. m \in NodeId /\ node[m].valid /\ m \in Nat
        BY Constants DEF Live
    <3>2. m > nodes => node[m] = Blank
        BY <1>0, <3>1 DEF NodesInv
    <3> QED
        BY <1>1, <3>1, <3>2, Constants
  <2>3. \A j : Live(j)' \cap E = Live(j)
    <3> SUFFICES ASSUME NEW j, NEW m \in E PROVE m \in Live(j)' <=> m \in Live(j)
        BY <2>2
    <3> QED
        BY <1>1, <2>1 DEF Live
  <2>4. ASSUME NEW j, NEW m \in Live(j)' PROVE m \in Live(j) \/ (m = new /\ j = k)
    <3>1. CASE m = new
        BY <1>2, <2>4, <3>1 DEF Live
    <3>2. CASE m # new
        BY <1>2, <2>4, <3>2 DEF Live
    <3> QED
        BY <3>1, <3>2
  <2>5. node'[new].next < new
    <3>1. h \in Nat /\ h <= nodes
        BY <1>1, <1>5, Constants
    <3> QED
        BY <1>1, <1>2, <3>1
  <2> HIDE DEF E
  <2> QED
      BY <2>1, <2>2, <2>3, <2>4, <2>5
<1>10. NodesInv'
  <2>1. \A m \in NodeId : m > nodes' => node'[m] = Blank
    <3> SUFFICES ASSUME NEW m \in NodeId, m > nodes' PROVE node'[m] = Blank
        OBVIOUS
    <3>1. m \in Nat /\ m > nodes /\ m # new
      <4>1. m \in Nat
          BY Constants
      <4>2. nodes' = new /\ new = nodes + 1 /\ nodes \in Nat
          BY <1>1
      <4> QED
          BY <4>1, <4>2
    <3> QED
        BY <1>0, <1>2, <3>1 DEF NodesInv
  <2>2. ASSUME NEW m \in NodeId, node'[m].next # NULL
        PROVE  node'[m].next < m /\ Hash[node'[node'[m].next].key] = Hash[node'[m].key]
    <3>1. CASE m = new
      <4>1. h \in E /\ node'[m].next = h /\ node'[m].key = k
          BY <1>2, <1>5, <2>2, <3>1
      <4>2. Hash[node[h].key] = b /\ node'[h] = node[h]
          BY <1>0, <1>9, <2>2, <3>1, <4>1 DEF NodesInv
      <4> QED
          BY <1>0, <1>9, <3>1, <4>1, <4>2
    <3>2. CASE m # new
      <4>1. node'[m] = node[m] /\ node[m].next \in E
          BY <1>2, <1>5, <2>2, <3>2
      <4>2. node'[node[m].next] = node[node[m].next]
          BY <1>9, <4>1
      <4> QED
          BY <1>0, <2>2, <4>1, <4>2 DEF NodesInv
    <3> QED
        BY <3>1, <3>2
  <2>3. ASSUME NEW c \in Bucket, head'[c] # NULL
        PROVE  head'[c] <= nodes' /\ Hash[node'[head'[c]].key] = c
    <3>1. head[c] \in E /\ head'[c] = head[c]
        BY <1>1, <1>5, <2>3
    <3>2. head[c] \in Nat /\ head[c] <= nodes /\ node'[head[c]] = node[head[c]]
        BY <1>1, <1>9, <3>1, Constants
    <3>3. head'[c] <= nodes'
        BY <1>1, <3>1, <3>2
    <3> QED
        BY <1>0, <2>3, <3>1, <3>2, <3>3 DEF NodesInv
  <2> QED
      BY <2>1, <2>2, <2>3 DEF NodesInv
<1>11. PlaceInv'
  <2>1. WriterPlace(t)'
      BY <1>0, <1>1, <1>2, <1>3, Constants DEF WriterPlace, InsertPlace, PayloadPlace
  <2>2. t = "cmd" => CommandPlace'
      BY <1>3 DEF CommandPlace, InsertPlace
  <2>3. thread'[t].cur <= nodes' /\ nodes <= nodes' /\ nodes' \in Nat
      BY <1>1, <1>3
  <2>4. \A m \in NodeId : m <= nodes => node'[m].key = node[m].key
      BY <1>9
  <2> HIDE DEF E
  <2> QED
      BY <1>0, <1>3, <2>1, <2>2, <2>3, <2>4, PlaceStays
<1>12. \A u \in Writer \ {t} : /\ thread'[u] = thread[u] /\ From(thread[u].cur)' = From(thread[u].cur)
                             /\ Chain(thread[u].bucket)' = Chain(thread[u].bucket)
                             /\ From(thread[u].cur) \subseteq E /\ Chain(thread[u].bucket) \subseteq E
  <2> SUFFICES ASSUME NEW u \in Writer \ {t}
               PROVE  /\ thread'[u] = thread[u] /\ From(thread[u].cur)' = From(thread[u].cur)
                      /\ Chain(thread[u].bucket)' = Chain(thread[u].bucket)
                      /\ From(thread[u].cur) \subseteq E /\ Chain(thread[u].bucket) \subseteq E
      OBVIOUS
  <2> HIDE DEF E
  <2>1. thread'[u] = thread[u] /\ thread[u].cur \in E \cup {NULL} /\ thread[u].bucket \in Bucket
      BY <1>0, <1>3, <1>5, Fields, Defaults
  <2> QED
      BY <2>1, <1>6, <1>7
<1>13. From(thread[t].cur)' = {new} \cup Chain(b) /\ Chain(thread[t].bucket)' = Chain(b)
    BY <1>3, <1>7, <1>8
<1>14. RaceInv'
  <2> SUFFICES ASSUME NEW v \in Writer, NEW u \in Writer, v # u,
                      NEW m \in NodeId, node'[m].key \in Owned(v)
               PROVE  /\ thread'[u].at = "publish" /\ m \in From(thread[u].cur)'
                           => m \in Chain(thread[u].bucket)'
                      /\ thread'[v].at = "publish" /\ m \in Chain(thread[v].bucket)'
                           => m \in From(thread[v].cur)'
      BY DEF RaceInv
  <2>1. ASSUME thread'[u].at = "publish", m \in From(thread[u].cur)'
        PROVE  m \in Chain(thread[u].bucket)'
    <3>1. CASE u = t
      <4>1. m # new
          BY <1>0, <1>2, <3>1, Owners
      <4> QED
          BY <1>13, <2>1, <3>1, <4>1
    <3>2. CASE u # t
      <4>1. thread[u].at = "publish" /\ m \in From(thread[u].cur) /\ m \in E
          BY <1>12, <2>1, <3>2
      <4>2. node[m].key \in Owned(v)
          BY <1>9, <4>1
      <4> QED
          BY <1>12, <3>2, <4>1, <4>2 DEF TableInv, RaceInv
    <3> QED
        BY <3>1, <3>2
  <2>2. ASSUME thread'[v].at = "publish", m \in Chain(thread[v].bucket)'
        PROVE  m \in From(thread[v].cur)'
    <3>1. CASE v = t
        BY <1>13, <2>2, <3>1
    <3>2. CASE v # t
      <4>1. thread[v].at = "publish" /\ m \in Chain(thread[v].bucket) /\ m \in E
          BY <1>12, <2>2, <3>2
      <4>2. node[m].key \in Owned(v)
          BY <1>9, <4>1
      <4> QED
          BY <1>12, <3>2, <4>1, <4>2 DEF TableInv, RaceInv
    <3> QED
        BY <3>1, <3>2
  <2> QED
      BY <2>1, <2>2
<1>15. UniqueInv'
  <2>1. ASSUME NEW j \in Key, NEW m \in Reach(j)', m # new PROVE m \in Reach(j)
    <3>0. m \in NodeId /\ Hash[j] \in Bucket
        BY Constants DEF Reach
    <3>1. CASE m \in Chain(Hash[j])'
        BY <1>7, <3>0, <3>1 DEF Reach
    <3>2. CASE \E u \in Writer : /\ thread'[u].at = "publish" /\ thread'[u].bucket = Hash[j]
                                 /\ m \in From(thread[u].cur)'
      <4> PICK u \in Writer : /\ thread'[u].at = "publish" /\ thread'[u].bucket = Hash[j]
                              /\ m \in From(thread[u].cur)'
          BY <3>2
      <4>1. CASE u = t
        <5>1. Hash[j] = b /\ m \in Chain(b)
            BY <1>3, <1>13, <2>1, <4>1
        <5> QED
            BY <3>0, <5>1 DEF Reach
      <4>2. CASE u # t
          BY <1>12, <3>0, <4>2 DEF Reach
      <4> QED
          BY <4>1, <4>2
    <3> QED
        BY <2>1, <3>1, <3>2 DEF Reach
  <2>2. Live(k) \cap Reach(k) = {}
    <3> SUFFICES ASSUME NEW m \in Live(k), m \in Reach(k) PROVE FALSE
        OBVIOUS
    <3>1. m \notin Chain(b) /\ m \in NodeId /\ node[m].key \in Owned(t)
        BY <1>0 DEF Walks, Live
    <3>2. PICK u \in Writer : /\ thread[u].at = "publish" /\ thread[u].bucket = Hash[k]
                             /\ m \in From(thread[u].cur)
        BY <1>0, <3>1 DEF Reach
    <3>3. u # t
        BY <1>0, <3>2
    <3> QED
        BY <1>0, <3>1, <3>2, <3>3 DEF TableInv, RaceInv
  <2>3. ASSUME NEW j \in Key, NEW m \in Live(j)' \cap Reach(j)', NEW n \in Live(j)' \cap Reach(j)'
        PROVE  m = n
    <3>1. CASE j = k
      <4>1. ASSUME NEW q \in Live(k)', q \in Reach(k)', q # new PROVE FALSE
        <5>1. q \in Live(k)
            BY <1>9, <4>1
        <5>2. q \in Reach(k)
            BY <2>1, <4>1
        <5> QED
            BY <2>2, <5>1, <5>2
      <4> QED
          BY <2>3, <3>1, <4>1
    <3>2. CASE j # k
      <4>1. m \in Live(j) /\ n \in Live(j) /\ m # new /\ n # new
          BY <1>9, <2>3, <3>2
      <4>2. m \in Reach(j) /\ n \in Reach(j)
          BY <2>1, <2>3, <4>1
      <4> QED
          BY <4>1, <4>2 DEF TableInv, UniqueInv
    <3> QED
        BY <3>1, <3>2
  <2> QED
      BY <2>3 DEF UniqueInv
<1>16. ASSUME NEW u \in Writer PROVE Walks(u)'
  <2>1. CASE u = t
      BY <2>1, <1>3 DEF Walks
  <2>2. CASE u # t
    <3>1. thread'[u] = thread[u] /\ Walks(u)
        BY <2>2, <1>12 DEF TableInv, WalkInv
    <3>2. \A S \in SUBSET E : Live(thread[u].key)' \cap S = Live(thread[u].key) \cap S
      <4> HIDE DEF E
      <4>1. Live(thread[u].key)' \cap E = Live(thread[u].key)
          BY <1>9, <3>1
      <4> QED
          BY <4>1
    <3>3. /\ Live(thread[u].key)' \cap From(thread[u].cur)' = Live(thread[u].key) \cap From(thread[u].cur)
          /\ Live(thread[u].key)' \cap Chain(thread[u].bucket)'
                 = Live(thread[u].key) \cap Chain(thread[u].bucket)
          /\ From(thread[u].cur)' = From(thread[u].cur)
      <4> HIDE DEF E
      <4> QED
          BY <1>12, <2>2, <3>2
    <3> QED
        BY <2>2, <3>1, <3>3 DEF Walks
  <2> QED
      BY <2>1, <2>2
<1> QED
    BY <1>4, <1>10, <1>11, <1>14, <1>15, <1>16 DEF TableInv, WalkInv

-------------------------------------------------------------------------------
\* The table.

LEMMA TableInit ==
    Init => TableInv
<1> SUFFICES ASSUME Init PROVE TableInv
    OBVIOUS
<1>0. /\ \A n \in NodeId : node[n] = Blank
      /\ \A b \in Bucket : head[b] = NULL
      /\ nodes = 0 /\ \A t \in Writer : thread[t] = Rest
      /\ thread["send"] = [Rest EXCEPT !.at = "sweep"]
    BY Defaults DEF Init
<1>1. /\ thread["send"] \in Local /\ thread["send"].at = "sweep" /\ thread["send"].cur = NULL
    BY <1>0, Constants, Defaults DEF Local
<1>2. TypeOK
  <2>1. \A t \in Thread : thread[t] \in Local
      BY <1>0, <1>1, Constants DEF Thread
  <2>2. thread \in [Thread -> Local]
    <3>1. thread = [t \in Thread |-> thread[t]]
        BY DEF Init
    <3> QED
        BY <2>1, <3>1
  <2> QED
      BY <2>2, Constants, BoundAssumption DEF Init, TypeOK
<1>3. NodesInv
    BY <1>0, Constants DEF NodesInv
<1>4. PlaceInv
  <2>1. \A t \in Thread : thread[t].cur <= nodes
    <3>1. \A t \in Thread : thread[t].cur = NULL
        BY <1>0, <1>1, Constants DEF Thread
    <3> QED
        BY <1>0, <3>1, Constants
  <2>2. \A t \in Writer : WriterPlace(t)
      BY <1>0, Constants DEF WriterPlace, InsertPlace, PayloadPlace
  <2>3. CommandPlace /\ SendPlace
      BY <1>0, <1>1, Constants, Defaults DEF CommandPlace, SendPlace, InsertPlace
  <2> QED
      BY <2>1, <2>2, <2>3 DEF PlaceInv
<1>5. RaceInv
    BY <1>0, Constants DEF RaceInv
<1>6. UniqueInv
    BY <1>0, Constants DEF UniqueInv, Live
<1>7. WalkInv
    BY <1>0, Constants DEF WalkInv, Walks
<1> QED
    BY <1>2, <1>3, <1>4, <1>5, <1>6, <1>7 DEF TableInv

\* What a step is: one of the chains, one at a node, or one of the send thread.
LEMMA Steps ==
    ASSUME Next
    PROVE  \/ \E k \in Key, inserting \in BOOLEAN :
                  /\ inserting => k \in Owned("proc")
                  /\ look_for("proc", k, inserting)
           \/ \E k \in Key : k \in Owned("cmd") /\ look_for("cmd", k, TRUE)
           \/ \E t \in Writer : get_tcb(t) \/ link(t) \/ publish(t) \/ AtNode(t)
           \/ release("proc")
           \/ check_retransmit
<1>1. ASSUME NEW k \in Listening, look_for("proc", k, TRUE)
      PROVE  k \in Key /\ k \in Owned("proc")
    BY DEF Key, Owned
<1>2. ASSUME NEW k \in Client, look_for("cmd", k, TRUE)
      PROVE  k \in Key /\ k \in Owned("cmd")
    BY DEF Key, Owned
<1>3. CASE Segment
    BY <1>1, <1>3, Defaults DEF Segment, AtNode
<1>4. CASE Command
    BY <1>2, <1>4, Defaults DEF Command, AtNode
<1>5. CASE \E t \in Writer : WriterStep(t)
    BY <1>5 DEF WriterStep, AtNode
<1> QED
    BY <1>3, <1>4, <1>5 DEF Next

LEMMA TableKept ==
    TableInv /\ [Next]_vars => TableInv'
<1> SUFFICES ASSUME TableInv, [Next]_vars PROVE TableInv'
    OBVIOUS
<1>1. CASE Next
    BY <1>1, Steps, Defaults, LookForTable, WalkTable, LinkTable, PublishTable, AtNodeTable,
       ReleaseTable, SweepTable
<1>2. CASE UNCHANGED vars
    BY <1>2 DEF vars, heapVars, TableInv, TypeOK, NodesInv, PlaceInv, WriterPlace, CommandPlace,
                SendPlace, RaceInv, UniqueInv, WalkInv, Walks, Live, Reach, Chain, From, Closed
<1> QED
    BY <1>1, <1>2

LEMMA TableAlways ==
    Spec => []TableInv
BY TableInit, TableKept, PTL DEF Spec

\* Every variable has its type: no thread holds a node or a buffer there is not.
THEOREM TypeCorrect ==
    Spec => []TypeOK
<1>1. TableInv => TypeOK
    BY DEF TableInv
<1> QED
    BY <1>1, TableAlways, PTL

\* A chain has no cycle, every node is in its bucket, and no 4-tuple has two valid
\* nodes in its chain: insert_tcb on two threads may lose a node but never makes two.
THEOREM ChainsAreSound ==
    Spec => []ChainsSound
<1>1. TableInv => ChainsSound
  <2> SUFFICES ASSUME TableInv, NEW b \in Bucket, NEW n \in Chain(b)
               PROVE  /\ Hash[node[n].key] = b
                      /\ node[n].next < n
                      /\ node[n].valid => Mapped(node[n].key) = {n}
      BY DEF ChainsSound
  <2>0. TypeOK /\ NodesInv
      BY DEF TableInv
  <2> DEFINE S == {m \in NodeId : Hash[node[m].key] = b}
  <2>1. Closed(S)
      BY <2>0, Fields DEF Closed, NodesInv
  <2>2. head[b] \in S \cup {NULL}
      BY <2>0, Fields DEF NodesInv
  <2>3. n \in S
      BY <2>1, <2>2, FromIsLeast DEF Chain
  <2>4. node[n].next < n
    <3>1. CASE node[n].next = NULL
        BY <2>3, <3>1, BoundAssumption DEF NULL, NodeId
    <3>2. CASE node[n].next # NULL
        BY <2>0, <2>3, <3>2 DEF NodesInv
    <3> QED
        BY <3>1, <3>2
  <2>5. node[n].valid => Mapped(node[n].key) = {n}
    <3> SUFFICES ASSUME node[n].valid PROVE Mapped(node[n].key) = {n}
        OBVIOUS
    <3> PICK k \in Key : k = node[n].key
        BY <2>0, <2>3, Fields
    <3>1. n \in Mapped(k)
        BY <2>3 DEF Mapped
    <3> QED
        BY <3>1, MappedNode
  <2> QED
      BY <2>3, <2>4, <2>5
<1> QED
    BY <1>1, TableAlways, PTL

\* What get_tcb returns, or that it returns nothing, is right for the moment it began
\* or for the one it ends at, whatever was linked, published and released meanwhile.
THEOREM LookupsAreRight ==
    Spec => LookupRight
<1> DEFINE Right == \A t \in Writer : thread[t].at = "walk" /\ thread'[t].at # "walk"
                        => thread[t].cur \in {thread[t].saw, TheNode(thread[t].key)}
<1>1. TableInv /\ Next => Right
  <2> SUFFICES ASSUME TableInv, Next, NEW t \in Writer,
                      thread[t].at = "walk", thread'[t].at # "walk"
               PROVE  thread[t].cur \in {thread[t].saw, TheNode(thread[t].key)}
      OBVIOUS
  <2>0. TypeOK /\ NodesInv /\ PlaceInv /\ t \in Thread /\ thread \in [Thread -> Local]
      BY Defaults, Fields DEF TableInv
  <2>1. CASE get_tcb(t)
    <3>1. CASE thread[t].cur = NULL
        BY <2>0, <3>1, Lookup
    <3>2. CASE thread[t].cur # NULL /\ Cur(t).valid /\ Cur(t).key = thread[t].key
      <4>1. thread[t].cur \in Live(thread[t].key)
          BY <2>0, <3>2, Fields DEF Live, Cur
      <4> QED
          BY <4>1, Lookup
    <3>3. CASE thread[t].cur # NULL /\ ~(Cur(t).valid /\ Cur(t).key = thread[t].key)
      <4>1. Onward(t)
          BY <2>1, <3>3 DEF get_tcb
      <4>2. thread'[t] = [thread[t] EXCEPT !.cur = Cur(t).next] /\ thread[t] \in Local
          BY <2>0, <4>1 DEF Onward
      <4> QED
          BY <4>2 DEF Local
    <3> QED
        BY <3>1, <3>2, <3>3
  <2>3. ASSUME NEW u \in Writer, NEW k \in Key, NEW inserting \in BOOLEAN, look_for(u, k, inserting)
        PROVE  thread'[t] = thread[t]
      BY <2>0, <2>3 DEF look_for, StartAt
  <2>4. ASSUME NEW u \in Writer, get_tcb(u), u # t
        PROVE  thread'[t] = thread[t]
      BY <2>0, <2>4 DEF get_tcb, Missed, Hit, Onward
  <2>5. ASSUME NEW u \in Writer, link(u) \/ publish(u)
        PROVE  thread'[t] = thread[t]
      BY <2>0, <2>5 DEF link, publish, Hit
  <2>6. ASSUME NEW u \in Writer, AtNode(u)
        PROVE  thread'[t] = thread[t]
      BY <2>0, <2>6, AtNodeStep DEF AtNodeOnly, InsertPlace
  <2>7. ASSUME release("proc") PROVE thread'[t] = thread[t]
      BY <2>0, <2>7 DEF release
  <2>8. ASSUME check_retransmit PROVE thread'[t] = thread[t]
      BY <2>0, <2>8, SweepStep
  <2> QED
      BY Steps, Defaults, <2>1, <2>3, <2>4, <2>5, <2>6, <2>7, <2>8
<1>2. TableInv /\ [Next]_vars => [Right]_vars
    BY <1>1
<1> QED
    BY <1>2, TableAlways, PTL DEF Spec, LookupRight

-------------------------------------------------------------------------------
\* The heap.

\* Steps that touch no buffer and come to none.
LEMMA HeapQuiet ==
    ASSUME TableInv, HeapInv, TypeOK', locked' = locked,
           size' = size, freed' = freed, fault' = fault,
           \A n \in NodeId : node'[n].buf = node[n].buf /\ node'[n].len = node[n].len,
           \A n \in NodeId : n <= nodes => node'[n].key = node[n].key,
           \A t \in Thread : thread'[t] = thread[t] \/ ~(AtBuffer(t) \/ AtBuffer(t)')
    PROVE  HeapInv'
<1>0. TypeOK /\ PlaceInv /\ NodesInv /\ PointerInv /\ BufferInv /\ FaultInv /\ LockedInv
    BY DEF TableInv, HeapInv
<1>1. /\ \A t \in Thread : /\ AtBuffer(t)' => AtBuffer(t)
                           /\ AtBuffer(t) => thread'[t] = thread[t] /\ AtBuffer(t)'
      /\ \A t \in Writer : AtBuffer(t) => thread[t].cur \in NodeId /\ thread[t].cur <= nodes
  <2>1. \A t \in Thread : /\ AtBuffer(t)' => AtBuffer(t)
                          /\ AtBuffer(t) => thread'[t] = thread[t] /\ AtBuffer(t)'
      BY DEF AtBuffer
  <2>2. ASSUME NEW t \in Writer, AtBuffer(t)
        PROVE  thread[t].cur \in NodeId /\ thread[t].cur <= nodes
    <3>1. WriterPlace(t) /\ t \in Thread /\ thread[t].cur <= nodes
        BY <1>0, Defaults DEF PlaceInv
    <3> QED
        BY <1>0, <2>2, <3>1, Fields DEF WriterPlace, AtBuffer
  <2> QED
      BY <2>1, <2>2
<1>2. \A n \in NodeId : node[n].buf # NULL \/ n <= nodes => (Private(n)' <=> Private(n))
  <2> SUFFICES ASSUME NEW n \in NodeId, node[n].buf # NULL \/ n <= nodes PROVE Private(n)' <=> Private(n)
      OBVIOUS
  <2>1. n <= nodes
    <3>1. n > nodes => node[n] = Blank
        BY <1>0 DEF NodesInv
    <3>2. n \in Nat /\ nodes \in Nat
        BY <1>0, Fields, Constants
    <3> QED
        BY <3>1, <3>2, Constants
  <2> QED
      BY <2>1 DEF Private
<1>3. PointerInv'
    BY <1>0 DEF PointerInv
<1>4. BufferInv'
  <2>1. locked' => \A t, u \in Thread : AtBuffer(t)' /\ AtBuffer(u)' => t = u
      BY <1>0, <1>1 DEF BufferInv
  <2>2. ASSUME NEW n \in NodeId, Private(n)', node'[n].buf \in freed'
        PROVE  \E t \in Writer : thread'[t].at \in {"malloc", "clear_buf"} /\ thread'[t].cur = n
    <3>1. node[n].buf \in freed /\ node[n].buf # NULL
        BY <1>0, <2>2, Constants DEF TypeOK
    <3>2. PICK t \in Writer : thread[t].at \in {"malloc", "clear_buf"} /\ thread[t].cur = n
        BY <1>0, <1>2, <2>2, <3>1 DEF BufferInv
    <3>3. AtBuffer(t) /\ t \in Thread
        BY <3>2, Defaults DEF AtBuffer, PayloadPlace
    <3> QED
        BY <1>1, <3>2, <3>3
  <2>3. ASSUME NEW t \in Writer PROVE AtItsBuffer(t)'
    <3>1. CASE AtBuffer(t)
      <4>1. thread'[t] = thread[t] /\ thread[t].cur \in NodeId /\ thread[t].cur <= nodes
            /\ AtItsBuffer(t)
          BY <1>0, <1>1, <3>1, Defaults DEF BufferInv
      <4>2. Private(thread[t].cur)' <=> Private(thread[t].cur)
          BY <4>1 DEF Private
      <4> QED
          BY <3>1, <4>1, <4>2 DEF AtItsBuffer, Cur
    <3>2. CASE ~AtBuffer(t)
        BY <1>1, <3>2, Defaults DEF AtItsBuffer
    <3> QED
        BY <3>1, <3>2
  <2> QED
      BY <2>1, <2>2, <2>3 DEF BufferInv
<1>5. FaultInv'
    BY <1>0 DEF FaultInv
<1>6. LockedInv'
  <2> SUFFICES ASSUME locked PROVE Lengths' /\ NoneLost' /\ Sending'
      BY DEF LockedInv
  <2>0. Lengths /\ NoneLost /\ Sending
      BY <1>0 DEF LockedInv
  <2>1. Lengths'
      BY <2>0, <1>1, Defaults DEF Lengths
  <2>2. NoneLost'
      BY <2>0 DEF NoneLost
  <2>3. Sending'
    <3>0. "send" \in Thread /\ SendPlace /\ thread["send"].cur \in NodeId \cup {NULL}
        BY <1>0, Defaults, Fields DEF PlaceInv
    <3>1. CASE AtBuffer("send")
      <4>1. thread'["send"] = thread["send"]
          BY <1>1, <3>0, <3>1
      <4>2. thread["send"].cur \in NodeId
          BY <3>0, <3>1 DEF SendPlace, AtBuffer, PayloadPlace
      <4> QED
          BY <2>0, <4>1, <4>2 DEF Sending
    <3>2. CASE ~AtBuffer("send")
      <4>1. ~AtBuffer("send")'
          BY <1>1, <3>0, <3>2
      <4> QED
          BY <4>1 DEF Sending, AtBuffer, PayloadPlace
    <3> QED
        BY <3>1, <3>2
  <2> QED
      BY <2>1, <2>2, <2>3
<1> QED
    BY <1>3, <1>4, <1>5, <1>6 DEF HeapInv

\* The steps in get_tcb, in insert_tcb and at the end of a segment are such steps.
LEMMA TableHeap ==
    ASSUME TableInv, HeapInv, TypeOK', NEW t \in Writer,
           \/ \E k \in Key, inserting \in BOOLEAN : look_for(t, k, inserting)
           \/ get_tcb(t) \/ link(t) \/ publish(t) \/ done(t)
           \/ (t = "proc" /\ release(t))
    PROVE  HeapInv'
<1>0. /\ TypeOK /\ NodesInv /\ PlaceInv /\ t \in Thread /\ thread[t] \in Local
      /\ thread[t].cur \in NodeId \cup {NULL}
      /\ Rest \in Local /\ Rest.at = "idle" /\ thread \in [Thread -> Local]
  <2>1. TypeOK /\ NodesInv /\ PlaceInv /\ t \in Thread
      BY Defaults DEF TableInv
  <2> QED
      BY <2>1, Fields, Constants
<1>1. /\ size' = size /\ freed' = freed /\ fault' = fault /\ locked' = locked
      /\ ~AtBuffer(t)
    BY DEF look_for, get_tcb, link, publish, done, release, heapVars, AtBuffer, PayloadPlace
<1>2. ASSUME NEW r \in Local, thread' = [thread EXCEPT ![t] = r], r.at \notin PayloadPlace
      PROVE  \A u \in Thread : thread'[u] = thread[u] \/ ~(AtBuffer(u) \/ AtBuffer(u)')
  <2>1. thread'[t] = r /\ \A u \in Thread \ {t} : thread'[u] = thread[u]
      BY <1>0, <1>2, ThreadTypes
  <2> QED
      BY <1>1, <1>2, <2>1 DEF AtBuffer
<1>3. \A u \in Thread : thread'[u] = thread[u] \/ ~(AtBuffer(u) \/ AtBuffer(u)')
  <2>1. ASSUME NEW k \in Key, NEW inserting \in BOOLEAN, look_for(t, k, inserting)
        PROVE  \A u \in Thread : thread'[u] = thread[u] \/ ~(AtBuffer(u) \/ AtBuffer(u)')
    <3> DEFINE r == [Rest EXCEPT !.at = "walk", !.key = k, !.inserting = inserting,
                                 !.bucket = Hash[k], !.cur = head[Hash[k]], !.saw = TheNode(k)]
    <3>1. thread' = [thread EXCEPT ![t] = r]
        BY <2>1 DEF look_for, StartAt
    <3>2. /\ "walk" \in Place /\ Hash[k] \in Bucket /\ head[Hash[k]] \in NodeId \cup {NULL}
          /\ TheNode(k) \in NodeId \cup {NULL}
        BY <1>0, Defaults, Constants, Fields, TheNodeType DEF InsertPlace
    <3>3. r \in Local /\ r.at = "walk"
        BY <1>0, <3>2 DEF Local
    <3> HIDE DEF r
    <3> QED
        BY <1>2, <3>1, <3>3 DEF PayloadPlace
  <2>2. CASE get_tcb(t)
    <3> DEFINE q == [thread[t] EXCEPT !.at = "link", !.saw = NULL]
               f == [Rest EXCEPT !.at = "found", !.cur = thread[t].cur]
               i == [Rest EXCEPT !.cur = thread[t].cur]
               o == [thread[t] EXCEPT !.cur = Cur(t).next]
    <3>1. /\ q \in Local /\ q.at = "link" /\ f \in Local /\ f.at = "found"
          /\ i \in Local /\ i.at = "idle"
      <4>1. "link" \in Place /\ "found" \in Place
          BY Defaults DEF InsertPlace
      <4> QED
          BY <1>0, <4>1 DEF Local
    <3>2. thread[t].cur # NULL => o \in Local /\ o.at = thread[t].at
      <4> SUFFICES ASSUME thread[t].cur # NULL PROVE o \in Local /\ o.at = thread[t].at
          OBVIOUS
      <4>1. node[thread[t].cur].next \in NodeId \cup {NULL}
          BY <1>0, Fields
      <4> QED
          BY <1>0, <4>1 DEF Local, Cur
    <3>3. \/ thread' = [thread EXCEPT ![t] = q]
          \/ thread' = [thread EXCEPT ![t] = f]
          \/ thread' = [thread EXCEPT ![t] = i]
          \/ thread' = [thread EXCEPT ![t] = Rest]
          \/ thread[t].cur # NULL /\ thread' = [thread EXCEPT ![t] = o]
      <4> HIDE DEF q, f, i, o
      <4>1. Missed(t) => \/ thread' = [thread EXCEPT ![t] = q]
                         \/ thread' = [thread EXCEPT ![t] = Rest]
          BY <1>0 DEF Missed, q
      <4>2. Hit(t) => \/ thread' = [thread EXCEPT ![t] = f]
                      \/ thread' = [thread EXCEPT ![t] = i]
                      \/ thread' = [thread EXCEPT ![t] = Rest]
          BY <1>0, Defaults DEF Hit, f, i
      <4>3. Onward(t) => thread' = [thread EXCEPT ![t] = o]
          BY <1>0 DEF Onward, o
      <4> QED
          BY <2>2, <4>1, <4>2, <4>3 DEF get_tcb
    <3>4. thread[t].at \notin PayloadPlace
        BY <1>1 DEF AtBuffer
    <3> HIDE DEF q, f, i, o
    <3> QED
        BY <1>0, <1>2, <3>1, <3>2, <3>3, <3>4 DEF PayloadPlace
  <2>3. CASE link(t)
    <3> DEFINE r == [thread[t] EXCEPT !.at = "publish", !.cur = nodes + 1]
    <3>1. thread' = [thread EXCEPT ![t] = r]
        BY <1>0, <2>3 DEF link
    <3>2. "publish" \in Place /\ nodes + 1 \in NodeId
        BY <1>0, <2>3, Fields, Defaults, BoundAssumption DEF link, NodeId, InsertPlace
    <3>3. r \in Local /\ r.at = "publish"
        BY <1>0, <3>2 DEF Local
    <3> HIDE DEF r
    <3> QED
        BY <1>2, <3>1, <3>3 DEF PayloadPlace
  <2>4. CASE publish(t)
    <3> DEFINE f == [Rest EXCEPT !.at = "found", !.cur = thread[t].cur]
               i == [Rest EXCEPT !.cur = thread[t].cur]
    <3>1. f \in Local /\ f.at = "found" /\ i \in Local /\ i.at = "idle"
      <4>1. "found" \in Place
          BY Defaults
      <4> QED
          BY <1>0, <4>1 DEF Local
    <3>2. \/ thread' = [thread EXCEPT ![t] = f]
          \/ thread' = [thread EXCEPT ![t] = i]
          \/ thread' = [thread EXCEPT ![t] = Rest]
      <4> HIDE DEF f, i
      <4> QED
          BY <1>0, <2>4, Defaults DEF publish, Hit, f, i
    <3> HIDE DEF f, i
    <3> QED
        BY <1>0, <1>2, <3>1, <3>2 DEF PayloadPlace
  <2>5. CASE done(t) \/ (t = "proc" /\ release(t))
    <3>1. thread' = [thread EXCEPT ![t] = Rest]
        BY <2>5 DEF done, release
    <3> QED
        BY <1>0, <1>2, <3>1 DEF PayloadPlace
  <2> QED
      BY <2>1, <2>2, <2>3, <2>4, <2>5
<1>4. /\ \A n \in NodeId : node'[n].buf = node[n].buf /\ node'[n].len = node[n].len
      /\ \A n \in NodeId : n <= nodes => node'[n].key = node[n].key
  <2>1. CASE link(t)
    <3> PICK new \in NodeId, k \in Key, h \in NodeId \cup {NULL} :
            new = nodes + 1 /\ k = thread[t].key /\ h = head[thread[t].bucket]
        BY <1>0, <2>1, Fields, BoundAssumption DEF link, NodeId
    <3> DEFINE r == [Blank EXCEPT !.key = k, !.valid = TRUE, !.next = h]
    <3>1. r \in Node /\ r.buf = NULL /\ r.len = 0
        BY Constants DEF Node
    <3>2. Put(new, r)
        BY <2>1 DEF link
    <3> HIDE DEF r
    <3>3. node'[new] = r /\ \A m \in NodeId \ {new} : node'[m] = node[m]
        BY <1>0, <3>1, <3>2, PutTypes
    <3>4. node[new] = Blank /\ \A m \in NodeId : m <= nodes => m # new
      <4>1. nodes \in Nat
          BY <1>0, Fields
      <4> QED
          BY <1>0, <4>1, Constants DEF NodesInv
    <3> QED
        BY <3>1, <3>3, <3>4, Constants
  <2>2. CASE t = "proc" /\ release(t)
    <3> PICK n \in NodeId : n = thread[t].cur
      <4>1. WriterPlace(t)
          BY <1>0 DEF PlaceInv
      <4> QED
          BY <1>0, <2>2, <4>1 DEF release, WriterPlace
    <3> DEFINE r == [node[n] EXCEPT !.valid = FALSE]
    <3>1. r \in Node /\ r.buf = node[n].buf /\ r.len = node[n].len /\ r.key = node[n].key
        BY <1>0, Fields DEF Node
    <3>2. Put(n, r)
        BY <2>2 DEF release, Cur
    <3> HIDE DEF r
    <3>3. node'[n] = r /\ \A m \in NodeId \ {n} : node'[m] = node[m]
        BY <1>0, <3>1, <3>2, PutTypes
    <3> QED
        BY <3>1, <3>3
  <2>3. CASE ~(link(t) \/ (t = "proc" /\ release(t)))
      BY <2>3 DEF look_for, get_tcb, publish, done
  <2> QED
      BY <2>1, <2>2, <2>3
<1> QED
    BY <1>1, <1>3, <1>4, HeapQuiet

\* At the buffer of a private node there is one writer.
LEMMA SoleWriter ==
    ASSUME TableInv, HeapInv, NEW t \in Writer, NEW u \in Writer, AtBuffer(t), AtBuffer(u),
           thread[t].cur = thread[u].cur, Private(thread[t].cur)
    PROVE  t = u /\ thread[t].cur \in NodeId
<1>0. /\ TypeOK /\ BufferInv /\ CommandPlace /\ WriterPlace(t) /\ t \in Thread /\ u \in Thread
      /\ t \in {"proc", "cmd"} /\ u \in {"proc", "cmd"}
    BY Defaults DEF TableInv, HeapInv, PlaceInv
<1>1. thread[t].cur \in NodeId /\ thread[t].cur # NULL
    BY <1>0, Fields, Constants DEF WriterPlace, AtBuffer
<1>2. CASE locked
    BY <1>0, <1>1, <1>2 DEF BufferInv
<1>3. CASE node[thread[t].cur].key \in Listening
  <2> SUFFICES ASSUME t # u PROVE FALSE
      BY <1>1
  <2>1. AtBuffer("cmd") /\ thread["cmd"].cur = thread[t].cur
      BY <1>0
  <2>2. node[thread[t].cur].key \in Client
      BY <1>0, <1>1, <2>1 DEF CommandPlace, AtBuffer, PayloadPlace, InsertPlace
  <2> QED
      BY <1>3, <2>2, KeyAssumption
<1> QED
    BY <1>2, <1>3 DEF Private

\* Coming to a buffer.
LEMMA EnterHeap ==
    ASSUME TableInv, HeapInv, NEW t \in Thread, ~AtBuffer(t), MayEnter(t),
           node' = node, size' = size, freed' = freed, fault' = fault, locked' = locked,
           \A u \in Thread \ {t} : thread'[u] = thread[u],
           \/ t \in Writer /\ thread'[t].at \in {"free_old", "free_acked"}
           \/ /\ t = "send" /\ thread'[t].at = "read_len" /\ thread'[t].buf # NULL
              /\ thread'[t].buf = node[thread'[t].cur].buf
    PROVE  HeapInv'
<1>0. TypeOK /\ PlaceInv /\ PointerInv /\ BufferInv /\ FaultInv /\ LockedInv
    BY DEF TableInv, HeapInv
<1>1. PointerInv' /\ FaultInv'
    BY <1>0 DEF PointerInv, FaultInv
<1>2. BufferInv'
  <2>1. locked' => \A v, u \in Thread : AtBuffer(v)' /\ AtBuffer(u)' => v = u
    <3> SUFFICES ASSUME locked, NEW v \in Thread, NEW u \in Thread, AtBuffer(v)', AtBuffer(u)', v # u
                 PROVE  FALSE
        OBVIOUS
    <3>1. \A q \in Thread \ {t} : ~AtBuffer(q)'
        BY DEF MayEnter, AtBuffer
    <3> QED
        BY <3>1
  <2>2. ASSUME NEW n \in NodeId, Private(n)', node'[n].buf \in freed'
        PROVE  \E v \in Writer : thread'[v].at \in {"malloc", "clear_buf"} /\ thread'[v].cur = n
    <3>1. Private(n) /\ node[n].buf \in freed
        BY <2>2 DEF Private
    <3>2. PICK v \in Writer : thread[v].at \in {"malloc", "clear_buf"} /\ thread[v].cur = n
        BY <1>0, <3>1 DEF BufferInv
    <3>3. v # t /\ v \in Thread
        BY <3>2, Defaults DEF AtBuffer, PayloadPlace
    <3> QED
        BY <3>2, <3>3
  <2>3. ASSUME NEW v \in Writer PROVE AtItsBuffer(v)'
    <3>1. CASE v = t
        BY <3>1, Defaults DEF AtItsBuffer
    <3>2. CASE v # t
      <4>1. thread'[v] = thread[v] /\ AtItsBuffer(v)
          BY <1>0, <3>2, Defaults DEF BufferInv
      <4> QED
          BY <4>1 DEF AtItsBuffer, AtBuffer, Private, Cur
    <3> QED
        BY <3>1, <3>2
  <2> QED
      BY <2>1, <2>2, <2>3 DEF BufferInv
<1>3. LockedInv'
  <2> SUFFICES ASSUME locked PROVE Lengths' /\ NoneLost' /\ Sending'
      BY DEF LockedInv
  <2>0. Lengths /\ NoneLost /\ Sending
      BY <1>0 DEF LockedInv
  <2>1. Lengths'
    <3> SUFFICES ASSUME NEW n \in NodeId, node[n].buf # NULL,
                        \A v \in Writer : ~(AtBuffer(v)' /\ thread'[v].cur = n)
                 PROVE  node[n].len = size[node[n].buf]
        BY DEF Lengths
    <3>1. ASSUME NEW v \in Writer PROVE ~(AtBuffer(v) /\ thread[v].cur = n)
      <4>1. CASE v = t
          BY <4>1
      <4>2. CASE v # t
        <5>1. thread'[v] = thread[v]
            BY <4>2, Defaults
        <5> QED
            BY <5>1 DEF AtBuffer
      <4> QED
          BY <4>1, <4>2
    <3> QED
        BY <2>0, <3>1 DEF Lengths
  <2>2. NoneLost'
      BY <2>0 DEF NoneLost
  <2>3. Sending'
    <3>1. CASE t = "send"
        BY <3>1, Defaults DEF Sending
    <3>2. CASE t # "send"
      <4>1. thread'["send"] = thread["send"]
          BY <3>2, Defaults
      <4> QED
          BY <2>0, <4>1 DEF Sending
    <3> QED
        BY <3>1, <3>2
  <2> QED
      BY <2>1, <2>2, <2>3
<1> QED
    BY <1>1, <1>2, <1>3 DEF HeapInv

\* The send thread changes no buffer, and with a lock reads what a writer has left.
LEMMA SweepHeap ==
    ASSUME TableInv, HeapInv, check_retransmit, fault = {}
    PROVE  HeapInv'
<1> DEFINE s == thread["send"]
<1>0. /\ TypeOK /\ NodesInv /\ PlaceInv /\ PointerInv /\ BufferInv /\ FaultInv /\ LockedInv
      /\ "send" \in Thread /\ SendPlace
    BY Defaults DEF TableInv, HeapInv, PlaceInv
<1>1. /\ TypeOK' /\ node' = node /\ size' = size /\ freed' = freed /\ locked' = locked
      /\ \A u \in Thread \ {"send"} : thread'[u] = thread[u]
      /\ s \in Local /\ thread' \in [Thread -> Local] /\ thread \in [Thread -> Local]
      /\ s.cur \in NodeId \cup {NULL}
      /\ s.at \in {"read_len", "copy"} => s.cur \in NodeId
  <2>1. /\ TypeOK' /\ node' = node /\ size' = size /\ freed' = freed /\ locked' = locked
        /\ \A u \in Writer : thread'[u] = thread[u]
      BY <1>0, SweepStep DEF ChainsKept
  <2>2. \A u \in Thread \ {"send"} : thread'[u] = thread[u]
      BY <2>1 DEF Thread
  <2> QED
      BY <1>0, <2>1, <2>2, Fields DEF TypeOK, SendPlace
<1>2. CASE next_bucket \/ next_node
  <2>1. s.at = "sweep" /\ fault' = fault
      BY <1>2 DEF next_bucket, next_node, heapVars
  <2>2. thread'["send"].at = "sweep"
    <3>1. CASE next_bucket
        BY <1>0, <1>1, <2>1, <3>1 DEF next_bucket, Local
    <3>2. CASE next_node
        BY <1>0, <1>1, <2>1, <3>2 DEF next_node, Onward, Local
    <3> QED
        BY <1>2, <3>1, <3>2
  <2>3. ~(AtBuffer("send") \/ AtBuffer("send")')
      BY <2>1, <2>2 DEF AtBuffer, PayloadPlace
  <2> QED
      BY <1>1, <2>1, <2>3, HeapQuiet
<1>3. CASE retransmit
  <2>0. s.at = "sweep" /\ s.cur \in NodeId /\ node[s.cur].buf # NULL /\ MayEnter("send")
    <3>1. s.at = "sweep" /\ s.cur # NULL /\ MayEnter("send")
        BY <1>3 DEF retransmit
    <3>2. node[s.cur].buf # NULL
        BY <1>3 DEF retransmit, Cur
    <3> QED
        BY <1>1, <3>1, <3>2
  <2>1. thread'["send"] = [s EXCEPT !.at = "read_len", !.buf = node[s.cur].buf]
      BY <1>0, <1>1, <1>3 DEF retransmit, Cur
  <2>2. /\ thread'["send"].at = "read_len" /\ thread'["send"].buf = node[s.cur].buf
        /\ thread'["send"].cur = s.cur
      BY <1>1, <2>1 DEF Local
  <2>3. ~AtBuffer("send") /\ fault' = fault
      BY <1>3, <2>0 DEF AtBuffer, PayloadPlace, retransmit, heapVars
  <2> QED
      BY <1>0, <1>1, <2>0, <2>2, <2>3, EnterHeap
<1>4. ASSUME AtBuffer("send")' => AtBuffer("send"), FaultInv', locked => Sending'
      PROVE  HeapInv'
  <2>1. /\ \A u \in Writer : thread'[u] = thread[u]
        /\ \A u \in Thread : AtBuffer(u)' => AtBuffer(u)
        /\ \A u \in Writer : AtBuffer(u)' <=> AtBuffer(u)
      BY <1>1, <1>4, Defaults DEF AtBuffer
  <2>2. PointerInv'
      BY <1>0, <1>1 DEF PointerInv
  <2>3. BufferInv'
    <3>1. locked' => \A t, u \in Thread : AtBuffer(t)' /\ AtBuffer(u)' => t = u
        BY <1>0, <1>1, <2>1 DEF BufferInv
    <3>2. ASSUME NEW n \in NodeId, Private(n)', node'[n].buf \in freed'
          PROVE  \E t \in Writer : thread'[t].at \in {"malloc", "clear_buf"} /\ thread'[t].cur = n
      <4>1. Private(n) /\ node[n].buf \in freed
          BY <1>1, <3>2 DEF Private
      <4> QED
          BY <1>0, <2>1, <4>1 DEF BufferInv
    <3>3. ASSUME NEW t \in Writer PROVE AtItsBuffer(t)'
      <4>1. AtItsBuffer(t)
          BY <1>0 DEF BufferInv
      <4> QED
          BY <1>1, <2>1, <4>1 DEF AtItsBuffer, Private, Cur
    <3> QED
        BY <3>1, <3>2, <3>3 DEF BufferInv
  <2>4. LockedInv'
    <3> SUFFICES ASSUME locked PROVE Lengths' /\ NoneLost' /\ Sending'
        BY <1>1 DEF LockedInv
    <3>1. Lengths /\ NoneLost
        BY <1>0 DEF LockedInv
    <3> QED
        BY <1>1, <1>4, <2>1, <3>1 DEF Lengths, NoneLost
  <2> QED
      BY <1>4, <2>2, <2>3, <2>4 DEF HeapInv
<1>5. locked /\ AtBuffer("send") =>
          /\ Lengths /\ Sending
          /\ \A u \in Writer : ~AtBuffer(u)
          /\ node[s.cur].buf \notin freed
          /\ node[s.cur].buf # NULL => node[s.cur].len = size[node[s.cur].buf]
  <2> SUFFICES ASSUME locked, AtBuffer("send")
               PROVE  /\ Lengths /\ Sending
                      /\ \A u \in Writer : ~AtBuffer(u)
                      /\ node[s.cur].buf \notin freed
                      /\ node[s.cur].buf # NULL => node[s.cur].len = size[node[s.cur].buf]
      OBVIOUS
  <2>1. Lengths /\ Sending
      BY <1>0 DEF LockedInv
  <2>2. \A u \in Writer : ~AtBuffer(u)
      BY <1>0, Defaults DEF BufferInv
  <2>3. s.cur \in NodeId
      BY <1>0, <1>1 DEF AtBuffer, PayloadPlace, SendPlace
  <2>4. node[s.cur].buf \notin freed
    <3> SUFFICES ASSUME node[s.cur].buf \in freed PROVE FALSE
        OBVIOUS
    <3>1. PICK u \in Writer : thread[u].at \in {"malloc", "clear_buf"} /\ thread[u].cur = s.cur
        BY <1>0, <2>3 DEF BufferInv, Private
    <3> QED
        BY <2>2, <3>1 DEF AtBuffer, PayloadPlace
  <2>5. node[s.cur].buf # NULL => node[s.cur].len = size[node[s.cur].buf]
      BY <2>1, <2>2, <2>3 DEF Lengths
  <2> QED
      BY <2>1, <2>2, <2>4, <2>5
<1>6. CASE read_len
  <2>0. s.at = "read_len" /\ s.cur \in NodeId /\ AtBuffer("send")
      BY <1>1, <1>6 DEF read_len, AtBuffer, PayloadPlace
  <2>1. thread'["send"] = [s EXCEPT !.at = "copy", !.len = node[s.cur].len]
      BY <1>0, <1>1, <1>6 DEF read_len, Cur
  <2>2. /\ thread'["send"].at = "copy" /\ thread'["send"].len = node[s.cur].len
        /\ thread'["send"].cur = s.cur /\ thread'["send"].buf = s.buf
      BY <1>1, <2>1 DEF Local
  <2>3. FaultInv'
      BY <1>0, <1>1, <1>6 DEF read_len, heapVars, FaultInv
  <2>4. locked => Sending'
      BY <1>1, <1>5, <2>0, <2>2 DEF Sending
  <2> QED
      BY <1>4, <2>0, <2>3, <2>4
<1>7. CASE copy
  <2>0. s.at = "copy" /\ s.cur \in NodeId /\ AtBuffer("send")
      BY <1>1, <1>7 DEF copy, AtBuffer, PayloadPlace
  <2>1. thread'["send"] = [s EXCEPT !.at = "sweep", !.cur = node[s.cur].next,
                                    !.buf = NULL, !.len = 0]
      BY <1>0, <1>1, <1>7 DEF copy, Cur
  <2>2. thread'["send"].at = "sweep"
      BY <1>1, <2>1 DEF Local
  <2>3. locked => ~Unused(s.buf, s.len)
    <3> SUFFICES ASSUME locked PROVE ~Unused(s.buf, s.len)
        OBVIOUS
    <3>1. s.buf # NULL /\ s.buf \notin freed /\ s.len = size[s.buf]
        BY <1>5, <2>0 DEF Sending
    <3>2. size[s.buf] \in Nat
      <4>1. s.buf \in BufId
          BY <1>0, <3>1, Fields
      <4>2. size[s.buf] \in Size \cup {0}
          BY <1>0, <4>1, Fields
      <4> QED
          BY <4>2, Sizes
    <3> QED
        BY <3>1, <3>2 DEF Unused
  <2>4. FaultInv'
    <3>1. CASE fault' = fault
        BY <1>0, <1>1, <3>1 DEF FaultInv
    <3>2. CASE Misuse("send", "bad_read") /\ ~locked
        BY <1>1, <3>2 DEF FaultInv, Misuse
    <3> QED
        BY <1>7, <2>3, <3>1, <3>2 DEF copy
  <2>5. Sending'
      BY <2>2 DEF Sending
  <2> QED
      BY <1>4, <2>0, <2>4, <2>5
<1> QED
    BY <1>2, <1>3, <1>6, <1>7 DEF check_retransmit

-------------------------------------------------------------------------------
\* Writers at a buffer.

\* What a step of a writer at a buffer leaves to the other threads.
LEMMA Others ==
    ASSUME TableInv, HeapInv, NEW t \in Writer, AtNode(t), AtBuffer(t)
    PROVE  /\ \A u \in Thread \ {t} : thread'[u] = thread[u] /\ (AtBuffer(u)' <=> AtBuffer(u))
           /\ \A m \in NodeId : Private(m)' <=> Private(m)
           /\ \A m \in NodeId \ {thread[t].cur} : node'[m] = node[m]
           /\ thread[t].cur \in NodeId
           /\ locked' = locked
           /\ locked => \A u \in Thread \ {t} : ~AtBuffer(u)
           /\ \A u \in Writer \ {t} : AtBuffer(u) /\ Private(thread[u].cur) =>
                  thread[u].cur \in NodeId \ {thread[t].cur}
           /\ TypeOK'
<1>0. /\ TypeOK /\ PlaceInv /\ BufferInv /\ TypeOK' /\ ChainsKept /\ AtNodeOnly(t) /\ t \in Thread
    BY AtNodeStep, Defaults DEF TableInv, HeapInv
<1>1. \A u \in Thread \ {t} : thread'[u] = thread[u] /\ (AtBuffer(u)' <=> AtBuffer(u))
    BY <1>0 DEF AtNodeOnly, AtBuffer
<1>2. \A m \in NodeId : Private(m)' <=> Private(m)
    BY <1>0 DEF ChainsKept, Private
<1>3. locked => \A u \in Thread \ {t} : ~AtBuffer(u)
    BY <1>0 DEF BufferInv
<1>4. ASSUME NEW u \in Writer \ {t}, AtBuffer(u), Private(thread[u].cur)
      PROVE  thread[u].cur \in NodeId \ {thread[t].cur}
  <2>1. thread[u].cur \in NodeId
    <3>1. WriterPlace(u) /\ u \in Thread
        BY <1>0, Defaults DEF PlaceInv
    <3> QED
        BY <1>0, <1>4, <3>1, Fields DEF WriterPlace, AtBuffer
  <2>2. thread[u].cur # thread[t].cur
      BY <1>4, SoleWriter
  <2> QED
      BY <2>1, <2>2
<1> QED
    BY <1>0, <1>1, <1>2, <1>3, <1>4 DEF AtNodeOnly, ChainsKept

\* What such a step must keep at its own node, for the heap to be kept.
LEMMA HeapStep ==
    ASSUME TableInv, HeapInv, NEW t \in Writer, AtNode(t), AtBuffer(t),
           NEW n \in NodeId, n = thread[t].cur, n = thread'[t].cur,
           PointerInv', FaultInv', AtItsBuffer(t)',
           freed \subseteq freed', freed' \subseteq freed \cup {node[n].buf},
           Private(n) /\ node'[n].buf \in freed' => thread'[t].at \in {"malloc", "clear_buf"},
           \A b \in BufId : size[b] # 0 => size'[b] = size[b],
           locked => AtBuffer(t)' \/ node'[n].buf = NULL \/ node'[n].len = size'[node'[n].buf],
           locked => NoneLost'
    PROVE  HeapInv'
<1>0. TypeOK /\ PlaceInv /\ PointerInv /\ BufferInv /\ LockedInv /\ TypeOK' /\ locked' = locked
    BY Others DEF TableInv, HeapInv
<1>1. /\ \A u \in Thread \ {t} : thread'[u] = thread[u] /\ (AtBuffer(u)' <=> AtBuffer(u))
      /\ \A m \in NodeId : Private(m)' <=> Private(m)
      /\ \A m \in NodeId \ {n} : node'[m] = node[m]
      /\ locked => \A u \in Thread \ {t} : ~AtBuffer(u)
      /\ \A u \in Writer \ {t} : AtBuffer(u) /\ Private(thread[u].cur) => thread[u].cur \in NodeId \ {n}
    BY Others
<1>2. BufferInv'
  <2>1. locked' => \A v, u \in Thread : AtBuffer(v)' /\ AtBuffer(u)' => v = u
      BY <1>0, <1>1
  <2>2. ASSUME NEW m \in NodeId, Private(m)', node'[m].buf \in freed'
        PROVE  \E v \in Writer : thread'[v].at \in {"malloc", "clear_buf"} /\ thread'[v].cur = m
    <3>1. CASE m = n
        BY <1>1, <2>2, <3>1
    <3>2. CASE m # n
      <4>1. node'[m] = node[m] /\ Private(m) /\ node[m].buf # NULL
          BY <1>0, <1>1, <2>2, <3>2, Constants DEF TypeOK
      <4>2. node[m].buf \in freed
          BY <1>0, <2>2, <3>2, <4>1 DEF PointerInv
      <4>3. PICK v \in Writer : thread[v].at \in {"malloc", "clear_buf"} /\ thread[v].cur = m
          BY <1>0, <4>1, <4>2 DEF BufferInv
      <4>4. v # t /\ v \in Thread
          BY <3>2, <4>3, Defaults
      <4> QED
          BY <1>1, <4>3, <4>4
    <3> QED
        BY <3>1, <3>2
  <2>3. ASSUME NEW u \in Writer PROVE AtItsBuffer(u)'
    <3>1. CASE u # t /\ AtBuffer(u)' /\ Private(thread[u].cur)'
      <4>1. thread'[u] = thread[u] /\ AtBuffer(u) /\ u \in Thread /\ thread[u].cur \in NodeId \cup {NULL}
          BY <1>0, <1>1, <3>1, Defaults, Fields
      <4>2. thread[u].cur \in NodeId
        <5>1. WriterPlace(u)
            BY <1>0 DEF PlaceInv
        <5> QED
            BY <4>1, <5>1 DEF WriterPlace, AtBuffer
      <4>3. PICK m \in NodeId : m = thread[u].cur
          BY <4>2
      <4>4. Private(m) /\ m # n
          BY <1>1, <3>1, <4>1, <4>3
      <4>5. node'[m] = node[m] /\ AtItsBuffer(u)
          BY <1>0, <1>1, <4>4 DEF BufferInv
      <4>6. node[m].buf # NULL => size'[node[m].buf] = size[node[m].buf]
        <5>1. node[m].buf \in BufId \cup {NULL}
            BY <1>0, Fields
        <5> QED
            BY <1>0, <5>1 DEF PointerInv
      <4> QED
          BY <4>1, <4>3, <4>4, <4>5, <4>6 DEF AtItsBuffer, Cur
    <3>2. CASE u # t /\ ~(AtBuffer(u)' /\ Private(thread[u].cur)')
        BY <3>2 DEF AtItsBuffer
    <3> QED
        BY <3>1, <3>2
  <2> QED
      BY <2>1, <2>2, <2>3 DEF BufferInv
<1>3. LockedInv'
  <2> SUFFICES ASSUME locked PROVE Lengths' /\ NoneLost' /\ Sending'
      BY <1>0 DEF LockedInv
  <2>1. ASSUME NEW m \in NodeId, node'[m].buf # NULL,
               \A v \in Writer : ~(AtBuffer(v)' /\ thread'[v].cur = m)
        PROVE  node'[m].len = size'[node'[m].buf]
    <3>1. CASE m = n
        BY <2>1, <3>1
    <3>2. CASE m # n
      <4>1. \A v \in Writer : ~(AtBuffer(v) /\ thread[v].cur = m)
          BY <1>1, <3>2, Defaults
      <4>2. node[m].len = size[node[m].buf] /\ node'[m] = node[m] /\ node[m].buf \in BufId
          BY <1>0, <1>1, <2>1, <3>2, <4>1, Fields DEF LockedInv, Lengths
      <4> QED
          BY <1>0, <4>2, <2>1 DEF PointerInv
    <3> QED
        BY <3>1, <3>2
  <2>2. Sending'
    <3>1. ~AtBuffer("send")'
        BY <1>1, Defaults
    <3> QED
        BY <3>1 DEF Sending, AtBuffer, PayloadPlace
  <2> QED
      BY <2>1, <2>2 DEF Lengths
<1> QED
    BY <1>2, <1>3 DEF HeapInv

\* What a writer at the buffer of a private node knows of it.
LEMMA OwnBuffer ==
    ASSUME TableInv, HeapInv, NEW t \in Writer, AtBuffer(t), NEW n \in NodeId, n = thread[t].cur,
           Private(n)
    PROVE  LET at == thread[t].at  b == node[n].buf
           IN  /\ b \in freed => at \in {"malloc", "clear_buf"}
               /\ at \in {"malloc", "clear_buf"} => b = NULL \/ b \in freed
               /\ at \in {"memcpy", "set_len"} => b # NULL /\ size[b] = thread[t].len
               /\ at = "clear_len" => b = NULL
<1>1. BufferInv
    BY DEF HeapInv
<1>2. ASSUME node[n].buf \in freed PROVE thread[t].at \in {"malloc", "clear_buf"}
  <2>1. PICK u \in Writer : thread[u].at \in {"malloc", "clear_buf"} /\ thread[u].cur = n
      BY <1>1, <1>2 DEF BufferInv
  <2>2. u = t
      BY <2>1, SoleWriter DEF AtBuffer, PayloadPlace
  <2> QED
      BY <2>1, <2>2
<1>3. AtItsBuffer(t)
    BY <1>1 DEF BufferInv
<1> QED
    BY <1>2, <1>3 DEF AtItsBuffer, Cur

\* free_old and free_acked.
LEMMA FreeHeap ==
    ASSUME TableInv, HeapInv, fault = {}, NEW t \in Writer, AtNode(t),
           thread[t].at \in {"free_old", "free_acked"}, Free(t),
           NEW at \in {"malloc", "clear_buf"}, Goto(t, at),
           node' = node, size' = size
    PROVE  HeapInv'
<1>0. /\ TypeOK /\ PointerInv /\ LockedInv /\ AtBuffer(t) /\ t \in Thread
      /\ locked' = locked /\ thread[t].cur \in NodeId /\ TypeOK'
  <2>1. AtBuffer(t)
      BY DEF AtBuffer, PayloadPlace
  <2> QED
      BY <2>1, Others, Defaults DEF TableInv, HeapInv
<1> PICK n \in NodeId : n = thread[t].cur
    BY <1>0
<1> DEFINE b == node[n].buf
<1>1. thread'[t].at = at /\ thread'[t].cur = n
    BY <1>0, GotoStep, Defaults DEF PayloadPlace
<1>2. AtBuffer(t)'
    BY <1>1 DEF AtBuffer, PayloadPlace
<1>3. Private(n) => b \notin freed
    BY <1>0, OwnBuffer
<1>4. CASE b \in freed
  <2>1. freed' = freed /\ fault' = {[kind |-> "double_free", key |-> node[n].key]}
      BY <1>4 DEF Free, Misuse, Cur
  <2>2. ~Private(n) /\ ~Private(n)'
      BY <1>0, <1>3, <1>4 DEF Private
  <2>3. PointerInv'
      BY <1>0, <2>1 DEF PointerInv
  <2>4. FaultInv'
      BY <1>0, <2>1, <2>2 DEF FaultInv, Private
  <2>5. AtItsBuffer(t)'
      BY <1>1, <2>2 DEF AtItsBuffer
  <2>6. ~locked
      BY <2>2 DEF Private
  <2> QED
      BY <1>0, <1>1, <1>2, <2>1, <2>2, <2>3, <2>4, <2>5, <2>6, HeapStep
<1>5. CASE b \notin freed
  <2>1. freed' = freed \cup ({b} \ {NULL}) /\ fault' = fault
      BY <1>5 DEF Free, Cur
  <2>2. PointerInv'
      BY <1>0, <2>1 DEF PointerInv
  <2>3. FaultInv'
      BY <2>1 DEF FaultInv
  <2>4. AtItsBuffer(t)'
    <3>1. node'[n].buf = NULL \/ node'[n].buf \in freed'
        BY <2>1
    <3> QED
        BY <1>1, <3>1 DEF AtItsBuffer, Cur
  <2>5. locked => NoneLost'
      BY <1>0, <2>1 DEF LockedInv, NoneLost
  <2>6. freed \subseteq freed' /\ freed' \subseteq freed \cup {node[n].buf}
      BY <2>1
  <2> QED
      BY <1>0, <1>1, <1>2, <2>2, <2>3, <2>4, <2>5, <2>6, HeapStep
<1> QED
    BY <1>4, <1>5

\* allocate that fails, and clear_buf.
LEMMA ClearHeap ==
    ASSUME TableInv, HeapInv, NEW t \in Writer, AtNode(t),
           thread[t].at \in {"malloc", "clear_buf"},
           NEW n \in NodeId, n = thread[t].cur, n = thread'[t].cur,
           node'[n].buf = NULL, thread'[t].at \in {"idle", "found", "clear_len"},
           size' = size, freed' = freed, fault' = fault
    PROVE  HeapInv'
<1>0. /\ TypeOK /\ PointerInv /\ FaultInv /\ LockedInv /\ AtBuffer(t) /\ locked' = locked /\ TypeOK'
      /\ \A m \in NodeId \ {n} : node'[m] = node[m]
  <2>1. AtBuffer(t)
      BY DEF AtBuffer, PayloadPlace
  <2> QED
      BY <2>1, Others DEF TableInv, HeapInv
<1>1. PointerInv'
  <2>1. \A m \in NodeId : node'[m].buf # NULL => m # n /\ node'[m] = node[m]
      BY <1>0
  <2> QED
      BY <1>0, <2>1 DEF PointerInv
<1>2. FaultInv'
    BY <1>0 DEF FaultInv
<1>3. AtItsBuffer(t)'
    BY DEF AtItsBuffer, Cur, AtBuffer, PayloadPlace
<1>4. locked => NoneLost'
  <2> SUFFICES ASSUME locked, NEW b \in BufId, size[b] # 0, b \notin freed
               PROVE  \E m \in NodeId : node'[m].buf = b
      BY DEF NoneLost
  <2>1. PICK m \in NodeId : node[m].buf = b
      BY <1>0 DEF LockedInv, NoneLost
  <2>2. m # n
      BY <1>0, <2>1, OwnBuffer, Constants DEF Private
  <2> QED
      BY <1>0, <2>1, <2>2
<1>5. node'[n].buf \notin freed'
    BY <1>0, Constants DEF TypeOK
<1> QED
    BY <1>0, <1>1, <1>2, <1>3, <1>4, <1>5, HeapStep

\* allocate that does not fail.
LEMMA AllocateHeap ==
    ASSUME TableInv, HeapInv, NEW t \in Writer, AtNode(t), thread[t].at = "malloc",
           NEW n \in NodeId, n = thread[t].cur, NEW b \in BufId, size[b] = 0,
           size' = [size EXCEPT ![b] = thread[t].len],
           Put(n, [Cur(t) EXCEPT !.buf = b]), Goto(t, "memcpy"),
           freed' = freed, fault' = fault
    PROVE  HeapInv'
<1>0. /\ TypeOK /\ PlaceInv /\ PointerInv /\ FaultInv /\ LockedInv /\ AtBuffer(t) /\ locked' = locked
      /\ TypeOK' /\ \A m \in NodeId \ {n} : node'[m] = node[m]
  <2>1. AtBuffer(t)
      BY DEF AtBuffer, PayloadPlace
  <2> QED
      BY <2>1, Others DEF TableInv, HeapInv
<1>1. thread'[t].at = "memcpy" /\ thread'[t].cur = n /\ thread'[t].len = thread[t].len
    BY <1>0, GotoStep, Defaults DEF PayloadPlace
<1>2. thread[t].len \in Size /\ thread[t].len # 0
    BY <1>0, Sizes DEF PlaceInv, WriterPlace
<1>3. node'[n].buf = b
  <2> DEFINE r == [node[n] EXCEPT !.buf = b]
  <2>1. r \in Node /\ r.buf = b
      BY <1>0, Fields DEF Node
  <2>2. Put(n, r)
      BY DEF Cur
  <2> HIDE DEF r
  <2> QED
      BY <1>0, <2>1, <2>2, PutTypes
<1>4. /\ size'[b] = thread[t].len /\ \A c \in BufId \ {b} : size'[c] = size[c]
      /\ \A c \in BufId : size[c] # 0 => size'[c] = size[c] /\ c # b
    BY <1>0, Fields
<1>5. /\ b \notin freed /\ freed \subseteq BufId
      /\ \A m \in NodeId : node[m].buf \in BufId \cup {NULL} /\ node[m].buf # b
    BY <1>0, Fields, Constants DEF PointerInv, TypeOK
<1>6. PointerInv'
  <2>1. \A c \in freed' : size'[c] # 0
      BY <1>0, <1>4, <1>5 DEF PointerInv
  <2>2. \A m \in NodeId : node'[m].buf # NULL => size'[node'[m].buf] # 0
    <3> SUFFICES ASSUME NEW m \in NodeId, node'[m].buf # NULL PROVE size'[node'[m].buf] # 0
        OBVIOUS
    <3>1. CASE m = n
        BY <3>1, <1>2, <1>3, <1>4
    <3>2. CASE m # n
        BY <3>2, <1>0, <1>4, <1>5 DEF PointerInv
    <3> QED
        BY <3>1, <3>2
  <2>3. \A l, m \in NodeId : node'[l].buf = node'[m].buf /\ node'[l].buf # NULL => l = m
    <3> SUFFICES ASSUME NEW l \in NodeId, NEW m \in NodeId, node'[l].buf = node'[m].buf,
                        node'[l].buf # NULL, l # m
                 PROVE  FALSE
        OBVIOUS
    <3>1. CASE l # n /\ m # n
        BY <3>1, <1>0 DEF PointerInv
    <3>2. CASE l = n \/ m = n
        BY <3>2, <1>0, <1>3, <1>5
    <3> QED
        BY <3>1, <3>2
  <2> QED
      BY <2>1, <2>2, <2>3 DEF PointerInv
<1>7. FaultInv'
    BY <1>0 DEF FaultInv
<1>8. AtItsBuffer(t)'
    BY <1>1, <1>3, <1>4, Constants DEF AtItsBuffer, Cur
<1>9. locked => NoneLost'
  <2> SUFFICES ASSUME locked, NEW c \in BufId, size'[c] # 0, c \notin freed
               PROVE  \E m \in NodeId : node'[m].buf = c
      BY DEF NoneLost
  <2>1. CASE c = b
      BY <2>1, <1>3
  <2>2. CASE c # b
    <3>1. PICK m \in NodeId : node[m].buf = c
        BY <1>0, <1>4, <2>2 DEF LockedInv, NoneLost
    <3>2. m # n
        BY <1>0, <3>1, OwnBuffer, Constants DEF Private
    <3> QED
        BY <1>0, <3>1, <3>2
  <2> QED
      BY <2>1, <2>2
<1>10. AtBuffer(t)' /\ node'[n].buf \notin freed'
    BY <1>1, <1>3, <1>5 DEF AtBuffer, PayloadPlace
<1>11. \A c \in BufId : size[c] # 0 => size'[c] = size[c]
    BY <1>4
<1> QED
    BY <1>0, <1>1, <1>6, <1>7, <1>8, <1>9, <1>10, <1>11, HeapStep

\* A writer that is about to write, or to store the length.
LEMMA WriteHeap ==
    ASSUME TableInv, HeapInv, fault = {}, NEW t \in Writer, AtNode(t),
           memcpy(t) \/ set_len(t) \/ clear_len(t)
    PROVE  HeapInv'
<1>0. /\ TypeOK /\ PlaceInv /\ PointerInv /\ FaultInv /\ LockedInv /\ AtBuffer(t) /\ locked' = locked
      /\ TypeOK' /\ \A m \in NodeId \ {thread[t].cur} : node'[m] = node[m]
      /\ thread[t].cur \in NodeId /\ t \in Thread
  <2>1. AtBuffer(t)
      BY DEF AtBuffer, PayloadPlace, memcpy, set_len, clear_len
  <2> QED
      BY <2>1, Others, Defaults DEF TableInv, HeapInv
<1> PICK n \in NodeId : n = thread[t].cur
    BY <1>0
<1>1. size' = size /\ freed' = freed /\ thread[t].len \in Size \cup {0}
      /\ \A m \in NodeId \ {n} : node'[m] = node[m]
    BY <1>0, Fields DEF memcpy, set_len, clear_len, heapVars
<1>2. ASSUME NEW l \in Size \cup {0}, Put(n, [Cur(t) EXCEPT !.len = l])
      PROVE  node'[n].buf = node[n].buf /\ node'[n].len = l
  <2> DEFINE r == [node[n] EXCEPT !.len = l]
  <2>1. r \in Node /\ r.buf = node[n].buf /\ r.len = l
      BY <1>0, Fields DEF Node
  <2>2. Put(n, r)
      BY <1>2 DEF Cur
  <2> HIDE DEF r
  <2> QED
      BY <1>0, <2>1, <2>2, PutTypes
<1>3. node'[n].buf = node[n].buf
  <2>1. CASE memcpy(t)
      BY <2>1 DEF memcpy
  <2>2. CASE set_len(t)
      BY <1>1, <1>2, <2>2 DEF set_len
  <2>3. CASE clear_len(t)
      BY <1>2, <2>3, Defaults DEF clear_len
  <2> QED
      BY <2>1, <2>2, <2>3
<1>4. \A m \in NodeId : node'[m].buf = node[m].buf
    BY <1>1, <1>3
<1>5. PointerInv'
    BY <1>0, <1>1, <1>4 DEF PointerInv
<1>6. locked => NoneLost'
    BY <1>0, <1>1, <1>4 DEF LockedInv, NoneLost
<1>7. Private(n) => node'[n].buf \notin freed'
    BY <1>0, <1>1, <1>3, OwnBuffer DEF memcpy, set_len, clear_len
<1>8. ASSUME FaultInv', AtItsBuffer(t)', n = thread'[t].cur,
             locked => AtBuffer(t)' \/ node'[n].buf = NULL \/ node'[n].len = size'[node'[n].buf]
      PROVE  HeapInv'
    BY <1>0, <1>1, <1>5, <1>6, <1>7, <1>8, HeapStep
<1>9. Back(t) => thread'[t].cur = n /\ ~AtBuffer(t)' /\ AtItsBuffer(t)'
  <2> SUFFICES ASSUME Back(t) PROVE thread'[t].cur = n /\ ~AtBuffer(t)'
      BY DEF AtItsBuffer
  <2> QED
      BY <1>0, BackStep DEF AtBuffer, PayloadPlace
<1>10. fault' = fault => FaultInv'
    BY <1>0 DEF FaultInv
<1>11. CASE memcpy(t)
  <2>0. thread[t].at = "memcpy"
      BY <1>11 DEF memcpy
  <2>1. Private(n) => node[n].buf # NULL /\ size[node[n].buf] = thread[t].len /\ node[n].buf \notin freed
      BY <1>0, <2>0, OwnBuffer
  <2>2. CASE Goto(t, "set_len") /\ IF Unused(Cur(t).buf, thread[t].len)
                                   THEN Misuse(t, "bad_write") ELSE UNCHANGED fault
    <3>1. thread'[t].at = "set_len" /\ thread'[t].cur = n /\ thread'[t].len = thread[t].len
        BY <1>0, <2>2, GotoStep, Defaults DEF PayloadPlace
    <3>2. FaultInv'
      <4>1. CASE fault' = fault
          BY <4>1, <1>10
      <4>2. CASE Misuse(t, "bad_write") /\ Unused(node[n].buf, thread[t].len)
        <5>1. ~Private(n)
          <6> SUFFICES ASSUME Private(n) PROVE FALSE
              OBVIOUS
          <6>1. thread[t].len \in Nat
              BY <1>1, Sizes
          <6> QED
              BY <2>1, <4>2, <6>1 DEF Unused
        <5>2. fault' = {[kind |-> "bad_write", key |-> node[n].key]}
            BY <4>2 DEF Misuse, Cur
        <5> QED
            BY <1>0, <5>1, <5>2 DEF FaultInv, Private
      <4> QED
          BY <2>2, <4>1, <4>2 DEF Cur
    <3>3. AtItsBuffer(t)'
      <4>1. Private(n)' => Private(n)
          BY <1>0, <1>11 DEF memcpy, Private
      <4> QED
          BY <1>1, <1>3, <2>1, <3>1, <4>1 DEF AtItsBuffer, Cur
    <3>4. AtBuffer(t)'
        BY <3>1 DEF AtBuffer, PayloadPlace
    <3> QED
        BY <1>8, <3>1, <3>2, <3>3, <3>4
  <2>3. CASE Cur(t).buf = NULL /\ Back(t) /\ UNCHANGED fault
    <3>1. ~locked
        BY <2>1, <2>3 DEF Private, Cur
    <3> QED
        BY <1>8, <1>9, <1>10, <2>3, <3>1
  <2> QED
      BY <1>11, <2>2, <2>3 DEF memcpy
<1>12. CASE set_len(t)
  <2>0. thread[t].at = "set_len" /\ Back(t) /\ fault' = fault /\ node'[n].len = thread[t].len
      BY <1>1, <1>2, <1>12 DEF set_len, heapVars
  <2>1. locked => size[node[n].buf] = thread[t].len
      BY <1>0, <2>0, OwnBuffer DEF Private
  <2> QED
      BY <1>1, <1>3, <1>8, <1>9, <1>10, <2>0, <2>1
<1>13. CASE clear_len(t)
  <2>0. thread[t].at = "clear_len" /\ Back(t) /\ fault' = fault
      BY <1>13 DEF clear_len, heapVars
  <2>1. locked => node[n].buf = NULL
      BY <1>0, <2>0, OwnBuffer DEF Private
  <2> QED
      BY <1>1, <1>3, <1>8, <1>9, <1>10, <2>0, <2>1
<1> QED
    BY <1>11, <1>12, <1>13

LEMMA AtNodeHeap ==
    ASSUME TableInv, HeapInv, fault = {}, NEW t \in Writer, AtNode(t)
    PROVE  HeapInv'
<1>0. /\ TypeOK /\ PlaceInv /\ TypeOK' /\ t \in Thread /\ thread[t].cur \in NodeId /\ locked' = locked
      /\ \A u \in Thread \ {t} : thread'[u] = thread[u]
      /\ node \in [NodeId -> Node] /\ thread \in [Thread -> Local] /\ thread[t] \in Local
  <2>1. TypeOK /\ PlaceInv
      BY DEF TableInv
  <2> QED
      BY <2>1, AtNodeStep, Defaults, Fields DEF AtNodeOnly, ChainsKept
<1> PICK n \in NodeId : n = thread[t].cur
    BY <1>0
<1>1. CASE t = "proc" /\ acknowledge(t)
  <2>1. /\ thread[t].at = "found" /\ MayEnter(t) /\ Goto(t, "free_acked")
        /\ node' = node /\ size' = size /\ freed' = freed /\ fault' = fault
      BY <1>1 DEF acknowledge, heapVars
  <2>2. thread'[t].at = "free_acked"
      BY <1>0, <2>1, GotoStep, Defaults DEF PayloadPlace
  <2>3. ~AtBuffer(t)
      BY <2>1 DEF AtBuffer, PayloadPlace
  <2> QED
      BY <1>0, <2>1, <2>2, <2>3, EnterHeap
<1>2. CASE t = "proc" /\ done(t)
  <2>1. t \in Writer /\ done(t)
      BY <1>2
  <2> QED
      BY <1>0, <2>1, TableHeap
<1>3. CASE \E len \in Size : tcp_send_data(t, len)
  <2> PICK len \in Size : tcp_send_data(t, len)
      BY <1>3
  <2>1. /\ thread[t].at \in {"idle", "found"} /\ MayEnter(t)
        /\ thread' = [thread EXCEPT ![t] = [thread[t] EXCEPT !.at = "free_old", !.len = len]]
        /\ node' = node /\ size' = size /\ freed' = freed /\ fault' = fault
      BY <1>0 DEF tcp_send_data, heapVars
  <2>2. thread'[t].at = "free_old"
    <3>1. thread'[t] = [thread[t] EXCEPT !.at = "free_old", !.len = len]
        BY <1>0, <2>1
    <3> QED
        BY <1>0, <3>1 DEF Local
  <2>3. ~AtBuffer(t)
      BY <2>1 DEF AtBuffer, PayloadPlace
  <2> QED
      BY <1>0, <2>1, <2>2, <2>3, EnterHeap
<1>4. CASE free_old(t)
    BY <1>4, FreeHeap DEF free_old
<1>5. CASE free_acked(t)
    BY <1>5, FreeHeap DEF free_acked
<1>6. ASSUME Put(n, [Cur(t) EXCEPT !.buf = NULL]) PROVE node'[n].buf = NULL
  <2> DEFINE r == [node[n] EXCEPT !.buf = NULL]
  <2>1. r \in Node /\ r.buf = NULL
      BY <1>0, Fields DEF Node
  <2>2. Put(n, r)
      BY <1>6 DEF Cur
  <2> HIDE DEF r
  <2> QED
      BY <1>0, <2>1, <2>2, PutTypes
<1>7. CASE allocate(t)
  <2>1. thread[t].at = "malloc" /\ freed' = freed /\ fault' = fault
      BY <1>7 DEF allocate
  <2>2. CASE Put(n, [Cur(t) EXCEPT !.buf = NULL]) /\ Back(t) /\ UNCHANGED size
    <3>1. thread'[t].cur = n /\ thread'[t].at \in {"idle", "found"}
        BY <1>0, <2>2, BackStep
    <3> QED
        BY <1>6, <2>1, <2>2, <3>1, ClearHeap
  <2>3. CASE \E b \in BufId : /\ size[b] = 0 /\ size' = [size EXCEPT ![b] = thread[t].len]
                             /\ Put(n, [Cur(t) EXCEPT !.buf = b]) /\ Goto(t, "memcpy")
      BY <2>1, <2>3, AllocateHeap
  <2> QED
      BY <1>7, <2>2, <2>3 DEF allocate
<1>8. CASE clear_buf(t)
  <2>1. /\ thread[t].at = "clear_buf" /\ Put(n, [Cur(t) EXCEPT !.buf = NULL]) /\ Goto(t, "clear_len")
        /\ size' = size /\ freed' = freed /\ fault' = fault
      BY <1>8 DEF clear_buf, heapVars
  <2>2. thread'[t].cur = n /\ thread'[t].at = "clear_len"
      BY <1>0, <2>1, GotoStep, Defaults DEF PayloadPlace
  <2> QED
      BY <1>6, <2>1, <2>2, ClearHeap
<1>9. CASE memcpy(t) \/ set_len(t) \/ clear_len(t)
    BY <1>9, WriteHeap
<1> QED
    BY <1>1, <1>2, <1>3, <1>4, <1>5, <1>7, <1>8, <1>9 DEF AtNode

LEMMA HeapInit ==
    Init => HeapInv
<1> SUFFICES ASSUME Init PROVE HeapInv
    OBVIOUS
<1>1. /\ freed = {} /\ fault = {} /\ \A n \in NodeId : node[n].buf = NULL
      /\ \A b \in BufId : size[b] = 0
      /\ \A t \in Writer : thread[t] = Rest
      /\ thread["send"] = [Rest EXCEPT !.at = "sweep"]
    BY Constants, Defaults DEF Init
<1>2. \A t \in Thread : ~AtBuffer(t)
  <2>1. thread["send"].at = "sweep"
      BY <1>1, Constants DEF Local
  <2> QED
      BY <1>1, <2>1, Constants DEF Thread, AtBuffer, PayloadPlace
<1>3. PointerInv /\ FaultInv
    BY <1>1 DEF PointerInv, FaultInv
<1>4. BufferInv
    BY <1>1, <1>2, Defaults DEF BufferInv, AtItsBuffer
<1>5. Lengths /\ NoneLost /\ Sending
    BY <1>1, <1>2, Defaults DEF Lengths, NoneLost, Sending, AtBuffer, PayloadPlace
<1> QED
    BY <1>3, <1>4, <1>5 DEF HeapInv, LockedInv

LEMMA HeapKept ==
    TableInv /\ HeapInv /\ [Next]_vars => HeapInv'
<1> SUFFICES ASSUME TableInv, HeapInv, [Next]_vars PROVE HeapInv'
    OBVIOUS
<1>0. TypeOK'
    BY TableKept DEF TableInv
<1>1. CASE Next
  <2>1. fault = {}
      BY <1>1 DEF Next, Sane
  <2>2. ASSUME NEW t \in Writer, NEW k \in Key, NEW inserting \in BOOLEAN, look_for(t, k, inserting)
        PROVE  HeapInv'
    <3>1. \E l \in Key, ins \in BOOLEAN : look_for(t, l, ins)
        BY <2>2
    <3> QED
        BY <1>0, <3>1, TableHeap
  <2>3. CASE \E k \in Key, inserting \in BOOLEAN : look_for("proc", k, inserting)
      BY <2>2, <2>3, Defaults
  <2>4. CASE \E k \in Key : look_for("cmd", k, TRUE)
      BY <2>2, <2>4, Defaults
  <2>5. CASE \E t \in Writer : get_tcb(t) \/ link(t) \/ publish(t)
    <3> PICK t \in Writer : get_tcb(t) \/ link(t) \/ publish(t)
        BY <2>5
    <3> QED
        BY <1>0, TableHeap
  <2>6. CASE \E t \in Writer : AtNode(t)
      BY <2>1, <2>6, AtNodeHeap
  <2>7. CASE release("proc")
      BY <1>0, <2>7, Defaults, TableHeap
  <2>8. CASE check_retransmit
      BY <2>1, <2>8, SweepHeap
  <2> QED
      BY <1>1, <2>3, <2>4, <2>5, <2>6, <2>7, <2>8, Steps
<1>2. CASE UNCHANGED vars
    BY <1>2 DEF vars, heapVars, HeapInv, PointerInv, BufferInv, AtItsBuffer, FaultInv, LockedInv,
                Lengths, NoneLost, Sending, AtBuffer, Private, Cur
<1> QED
    BY <1>1, <1>2

LEMMA HeapAlways ==
    Spec => [](TableInv /\ HeapInv)
<1>1. Init => TableInv /\ HeapInv
    BY TableInit, HeapInit
<1>2. TableInv /\ HeapInv /\ [Next]_vars => (TableInv /\ HeapInv)'
    BY TableKept, HeapKept
<1> QED
    BY <1>1, <1>2, PTL DEF Spec

\* With the uses of retrans_buf kept apart, a buffer is not freed twice, not used after its
\* free, and the send thread sends exactly what tcp_send_data stored, failed mallocs included.
THEOREM LockedIsSafe ==
    Spec => []MemorySafe
<1>1. HeapInv => MemorySafe
  <2> SUFFICES ASSUME HeapInv, locked
               PROVE  /\ fault = {}
                      /\ thread["send"].at = "copy" => size[thread["send"].buf] = thread["send"].len
      BY DEF MemorySafe
  <2> QED
      BY DEF HeapInv, FaultInv, LockedInv, Sending
<1> QED
    BY <1>1, HeapAlways, PTL

\* Without any lock, the buffer of an accepted connection is still freed and written right:
\* what can go wrong with it is what the send thread reads.
THEOREM AcceptedWritesAreSafe ==
    Spec => []AcceptedWritesSafe
<1>1. HeapInv => AcceptedWritesSafe
    BY DEF HeapInv, FaultInv, AcceptedWritesSafe
<1> QED
    BY <1>1, HeapAlways, PTL

\* With those uses kept apart no payload is lost: every buffer that was not freed is
\* the one buffer of one node.
THEOREM PayloadsAreOwned ==
    Spec => []PayloadOwned
<1>1. HeapInv => PayloadOwned
  <2> SUFFICES ASSUME HeapInv, locked, NEW b \in BufId, size[b] # 0, b \notin freed
               PROVE  Cardinality({n \in NodeId : node[n].buf = b}) = 1
      BY DEF PayloadOwned
  <2>1. PICK n \in NodeId : node[n].buf = b
      BY DEF HeapInv, LockedInv, NoneLost
  <2>2. {m \in NodeId : node[m].buf = b} = {n}
      BY <2>1, Constants DEF HeapInv, PointerInv
  <2> QED
      BY <2>2, FS_Singleton
<1> QED
    BY <1>1, HeapAlways, PTL
===============================================================================
