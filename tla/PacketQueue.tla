----------------------------- MODULE PacketQueue ------------------------------
(***************************************************************************)
(* One packet ring of the stack, at the grain of its memory accesses.      *)
(* packet_queue_receive has one producer, the receive thread in net_recv,  *)
(* and the process thread as consumer; packet_queue_send has three         *)
(* producers in net_data_send -- the process thread, the command thread    *)
(* and, between two scans, the send thread itself through check_retransmit *)
(* -- and the send thread as consumer.  There is no lock: producers and    *)
(* consumer share the slots and the index, and meet only through them.     *)
(*                                                                         *)
(* A packet (its base_packet and its buffer, which live and die together)  *)
(* is a number; `live' is the set of packets allocated and not yet freed.  *)
(* Touching a freed packet, freeing it again or following a NULL slot is   *)
(* undefined behaviour in the code: the model records a fault and stops.   *)
(***************************************************************************)
EXTENDS Integers, Sequences, SequencesExt

CONSTANTS
    Size,       \* PACKET_QUEUE_SIZE
    Producer,   \* the producing threads
    Self,       \* the consuming thread, a producer too on the send ring
    Null,       \* NULL
    Arrival,    \* what is assumed of the timing of producers, see Arrive
    MaxPackets  \* bound of the model: packets allocated in a behaviour

ASSUME SizeAssumption == Size \in Nat \ {0}
ASSUME MaxPacketsAssumption == MaxPackets \in Nat
ASSUME ArrivalAssumption == Arrival \in {"slow", "apart", "any"}
ASSUME NullAssumption == Null \notin 1 .. MaxPackets

VARIABLES
    slot,       \* packet_queue_*[i]
    index,      \* packet_queue_*_index
    live,       \* packets allocated and not freed
    made,       \* how many packets were allocated (packets are 1 .. made)
    producer,   \* where each producer is, its local copy of the index, its packet
    consumer,   \* where the consumer is, its loop variable, the packet in use
    faults,     \* the undefined behaviour met so far
    stored,     \* history: packets in the order they reached a slot
    handled     \* history: packets in the order they were processed

shared  == <<slot, index, live, made>>
history == <<stored, handled>>
vars    == <<shared, producer, consumer, faults, history>>

Slot   == 0 .. Size - 1
Packet == 1 .. MaxPackets

-------------------------------------------------------------------------------
Init == /\ slot = [i \in Slot |-> Null]
        /\ index = -1
        /\ live = {}
        /\ made = 0
        /\ producer = [t \in Producer |-> [at |-> "idle", next |-> 0, packet |-> Null]]
        /\ consumer = [at |-> "test", i |-> 0, packet |-> Null]
        /\ faults = {}
        /\ stored = <<>>
        /\ handled = <<>>

\* free() of what a slot points to, by whoever finds it there.
Free(p) == IF p \in live
           THEN live' = live \ {p} /\ UNCHANGED faults
           ELSE /\ faults' = faults \cup {IF p = Null THEN "null" ELSE "double free"}
                /\ UNCHANGED live

Touch(p) == faults' = faults \cup IF p \in live THEN {} ELSE {"use after free"}

Goto(t, place) == producer' = [producer EXCEPT ![t].at = place]

\* The index is a plain global: after its own store a producer may use the value
\* it computed or read the global again, as the build has it.
Cursor(t) == {producer[t].next, index}

-------------------------------------------------------------------------------
\* The producer: net_recv from the allocation on, net_data_send.

\* The code assumes nothing of the timing ("any").  What the ring does provide is
\* stated under two assumptions the code does not enforce: packets arrive slowly
\* enough for the next slot to be free ("slow"), or no two threads are ever at
\* the same slot, as if a lock were held ("apart").
Arrive(t) ==
    LET next == (index + 1) % Size IN
    \/ Arrival = "any"
    \/ Arrival = "slow" /\ slot[next] = Null
    \/ /\ Arrival = "apart"
       /\ \A u \in Producer \ {t} : producer[u].at = "idle"
       /\ consumer.i = next => consumer.at \in {"test", "rest"}

\* A packet is allocated; the index is read and advanced locally.
Allocate(t) ==
    /\ producer[t].at = "idle"
    /\ t = Self => consumer.at = "rest"
    /\ made < MaxPackets
    /\ Arrive(t)
    /\ made' = made + 1
    /\ live' = live \cup {made + 1}
    /\ producer' = [producer EXCEPT ![t] = [at     |-> "advance",
                                            next   |-> (index + 1) % Size,
                                            packet |-> made + 1]]
    /\ UNCHANGED <<slot, index, consumer, faults, history>>

\* Mutant of Advance: the index is not wrapped.
AdvanceUnwrapped(t) ==
    /\ producer[t].at = "advance"
    /\ index' = index + 1
    /\ Goto(t, "examine")
    /\ UNCHANGED <<slot, live, made, consumer, faults, history>>

Advance(t) ==
    /\ producer[t].at = "advance"
    /\ index' = producer[t].next
    /\ Goto(t, "examine")
    /\ UNCHANGED <<slot, live, made, consumer, faults, history>>

Examine(t) ==
    /\ producer[t].at = "examine"
    /\ \E i \in Cursor(t) : Goto(t, IF slot[i] # Null THEN "drop" ELSE "store")
    /\ UNCHANGED <<shared, consumer, faults, history>>

\* Mutant of Drop: the slot before is freed.
DropPrevious(t) ==
    /\ producer[t].at = "drop"
    /\ \E i \in Cursor(t) : Free(slot[(i + Size - 1) % Size])
    /\ Goto(t, "store")
    /\ UNCHANGED <<slot, index, made, consumer, history>>

\* The slot is occupied: what it points to is freed, but the pointer stays.
Drop(t) ==
    /\ producer[t].at = "drop"
    /\ \E i \in Cursor(t) : Free(slot[i])
    /\ Goto(t, "store")
    /\ UNCHANGED <<slot, index, made, consumer, history>>

Store(t) ==
    /\ producer[t].at = "store"
    /\ \E i \in Cursor(t) : slot' = [slot EXCEPT ![i] = producer[t].packet]
    /\ stored' = Append(stored, producer[t].packet)
    /\ Goto(t, "idle")
    /\ UNCHANGED <<index, live, made, consumer, faults, handled>>

Produce(t) == Allocate(t) \/ Advance(t) \/ Examine(t) \/ Drop(t) \/ Store(t)

-------------------------------------------------------------------------------
\* The consumer: one scan of the slots, then a rest (check_retransmit, Sleep).

\* Mutant of NextSlot: the last slot is never scanned.
NextSlotShort(i) == IF i + 2 < Size THEN [at |-> "test", i |-> i + 1, packet |-> Null]
                                    ELSE [at |-> "rest", i |-> 0, packet |-> Null]

NextSlot(i) == IF i + 1 < Size THEN [at |-> "test", i |-> i + 1, packet |-> Null]
                               ELSE [at |-> "rest", i |-> 0, packet |-> Null]

Test ==
    /\ consumer.at = "test"
    /\ Arrival = "apart" =>
           \A t \in Producer : producer[t].at = "idle" \/ producer[t].next # consumer.i
    /\ consumer' = IF slot[consumer.i] # Null
                   THEN [consumer EXCEPT !.at = "process"]
                   ELSE NextSlot(consumer.i)
    /\ UNCHANGED <<shared, producer, faults, history>>

\* packet_process or send_packet is called with what the slot holds now, and
\* works on it until it returns.
ProcessBegin ==
    /\ consumer.at = "process"
    /\ Touch(slot[consumer.i])
    /\ consumer' = [consumer EXCEPT !.at = "busy", !.packet = slot[consumer.i]]
    /\ UNCHANGED <<shared, producer, history>>

\* Mutant of ProcessEnd: the scan goes on without freeing and clearing.
LeaveInSlot ==
    /\ consumer.at = "busy"
    /\ Touch(consumer.packet)
    /\ handled' = Append(handled, consumer.packet)
    /\ consumer' = NextSlot(consumer.i)
    /\ UNCHANGED <<shared, producer, stored>>

ProcessEnd ==
    /\ consumer.at = "busy"
    /\ Touch(consumer.packet)
    /\ handled' = Append(handled, consumer.packet)
    /\ consumer' = [consumer EXCEPT !.at = "free"]
    /\ UNCHANGED <<shared, producer, stored>>

\* Mutant of FreeSlot: the buffer is not freed.
KeepBuffer ==
    /\ consumer.at = "free"
    /\ consumer' = [consumer EXCEPT !.at = "clear"]
    /\ UNCHANGED <<shared, producer, faults, history>>

\* The slot is read again to find what to free.
FreeSlot ==
    /\ consumer.at = "free"
    /\ Free(slot[consumer.i])
    /\ consumer' = [consumer EXCEPT !.at = "clear"]
    /\ UNCHANGED <<slot, index, made, producer, history>>

\* Mutant of ClearSlot: the slot still points to the freed packet.
KeepPointer ==
    /\ consumer.at = "clear"
    /\ consumer' = NextSlot(consumer.i)
    /\ UNCHANGED <<shared, producer, faults, history>>

ClearSlot ==
    /\ consumer.at = "clear"
    /\ slot' = [slot EXCEPT ![consumer.i] = Null]
    /\ consumer' = NextSlot(consumer.i)
    /\ UNCHANGED <<index, live, made, producer, faults, history>>

\* The send thread does not start a scan in the middle of its own net_data_send.
Rescan ==
    /\ consumer.at = "rest"
    /\ Self \in Producer => producer[Self].at = "idle"
    /\ consumer' = [consumer EXCEPT !.at = "test"]
    /\ UNCHANGED <<shared, producer, faults, history>>

Consume == Test \/ ProcessBegin \/ ProcessEnd \/ FreeSlot \/ ClearSlot \/ Rescan

-------------------------------------------------------------------------------
Next == /\ faults = {}
        /\ Consume \/ \E t \in Producer : Produce(t)

\* The consumer's loop never blocks, and a producer that has begun goes on: each
\* thread keeps being scheduled.  Nothing says that a packet ever arrives.
Fairness == /\ WF_vars(faults = {} /\ Consume)
            /\ \A t \in Producer : WF_vars(faults = {} /\ (Advance(t) \/ Examine(t)
                                                           \/ Drop(t) \/ Store(t)))

Spec == Init /\ [][Next]_vars

FairSpec == Spec /\ Fairness

-------------------------------------------------------------------------------
TypeOK ==
    /\ slot \in [Slot -> Packet \cup {Null}]
    /\ index \in Slot \cup {-1}
    /\ live \subseteq Packet
    /\ made \in 0 .. MaxPackets
    /\ producer \in [Producer -> [at : {"idle", "advance", "examine", "drop", "store"},
                                  next : Slot, packet : Packet \cup {Null}]]
    /\ consumer \in [at : {"test", "process", "busy", "free", "clear", "rest"},
                     i : Slot, packet : Packet \cup {Null}]
    /\ faults \subseteq {"null", "double free", "use after free"}
    /\ stored \in Seq(Packet)
    /\ handled \in Seq(Packet \cup {Null})

\* Neither end touches or frees a packet that was already freed: the producer's
\* drop and the consumer's process/free/clear never meet on one packet.
MemorySafe == faults = {}

\* No packet is lost from sight: a packet that was allocated and not freed is in
\* a slot or in the hands of the producer that is storing it ("avoid a memory
\* leak", tiny_net.c:202 and 245).
Held == {slot[i] : i \in Slot}
            \cup {producer[t].packet : t \in {u \in Producer : producer[u].at # "idle"}}
NoLeak == live \subseteq Held

\* Every packet that reaches a slot is processed, exactly once, and nothing else
\* is: without overrun the ring is a pool.
Pool == INSTANCE PacketPool WITH put <- ToSet(stored), taken <- handled
ImplementsPool == Pool!Spec

\* Every packet that reaches a slot is eventually processed.
EventuallyHandled == \A p \in Packet : p \in ToSet(stored) ~> p \in ToSet(handled)

\* tiny_net.c:202, "when the queue is full simply drop the oldest packet": a
\* packet is freed unprocessed only if it is the oldest of those still waiting.
Waiting == (ToSet(stored) \ ToSet(handled)) \cap live
OlderThan(p, q) == \E i, j \in DOMAIN stored : i < j /\ stored[i] = p /\ stored[j] = q
LosesOldestFirst ==
    [][\A p \in Waiting \ live' : ~\E q \in Waiting : OlderThan(q, p)]_vars
===============================================================================
