-------------------------- MODULE PacketQueueProofs ---------------------------
(***************************************************************************)
(* For every number of slots and every bound: the ring of net_recv, with   *)
(* its one producer and its one consumer, neither touches freed memory nor *)
(* leaks, and processes every packet at most once, as long as packets      *)
(* arrive slowly enough for the next slot to be free; and so does the ring *)
(* of net_data_send, with any producers, as long as no two threads are at  *)
(* one slot, where it also drops the oldest packet when it is full.        *)
(***************************************************************************)
EXTENDS PacketQueue, SequenceTheorems, TLAPS

-------------------------------------------------------------------------------
\* The next index is a slot, the first one included, which follows index -1.
LEMMA NextIndex ==
    ASSUME NEW i \in Slot \cup {-1}
    PROVE  (i + 1) % Size \in Slot
BY SizeAssumption DEF Slot

\* The scan starts again inside the ring.
LEMMA NextSlotType ==
    ASSUME NEW i \in Slot
    PROVE  /\ NextSlot(i).at \in {"test", "rest"}
           /\ NextSlot(i).i \in Slot
           /\ NextSlot(i).packet = Null
           /\ NextSlot(i) \in [at : {"test", "process", "busy", "free", "clear", "rest"},
                               i : Slot, packet : Packet \cup {Null}]
BY SizeAssumption DEF NextSlot, Slot

\* What a history holds after one more entry.
LEMMA ToSetAppend ==
    ASSUME NEW T, NEW s \in Seq(T), NEW x \in T
    PROVE  /\ Append(s, x) \in Seq(T)
           /\ ToSet(Append(s, x)) = ToSet(s) \cup {x}
<1>1. /\ Append(s, x) \in Seq(T)
      /\ Len(Append(s, x)) = Len(s) + 1
      /\ \A i \in 1 .. Len(s) : Append(s, x)[i] = s[i]
      /\ Append(s, x)[Len(s) + 1] = x
    BY AppendProperties
<1>2. /\ DOMAIN s = 1 .. Len(s) /\ Len(s) \in Nat
      /\ DOMAIN Append(s, x) = 1 .. Len(s) + 1
    BY <1>1
<1>3. ASSUME NEW y \in ToSet(Append(s, x)) PROVE y \in ToSet(s) \cup {x}
  <2>1. PICK i \in 1 .. Len(s) + 1 : y = Append(s, x)[i]
      BY <1>2 DEF ToSet
  <2>2. CASE i = Len(s) + 1
      BY <1>1, <2>1, <2>2
  <2>3. CASE i # Len(s) + 1
    <3>1. i \in 1 .. Len(s)
        BY <1>2, <2>1, <2>3
    <3> QED
        BY <1>1, <1>2, <2>1, <3>1 DEF ToSet
  <2> QED
      BY <2>2, <2>3
<1>4. ASSUME NEW y \in ToSet(s) PROVE y \in ToSet(Append(s, x))
  <2>1. PICK i \in 1 .. Len(s) : y = s[i]
      BY <1>2 DEF ToSet
  <2>2. i \in 1 .. Len(s) + 1
      BY <1>2
  <2> QED
      BY <1>1, <1>2, <2>1, <2>2 DEF ToSet
<1>5. x \in ToSet(Append(s, x))
  <2>1. Len(s) + 1 \in 1 .. Len(s) + 1
      BY <1>2
  <2> QED
      BY <1>1, <1>2, <2>1 DEF ToSet
<1> QED
    BY <1>1, <1>3, <1>4, <1>5

-------------------------------------------------------------------------------
\* Type correctness, for every number of producers and every timing: with the
\* fact that a producer that has begun holds a packet it is inductive.
HoldsPacket == \A t \in Producer : producer[t].at # "idle" => producer[t].packet \in Packet
TypeInv == TypeOK /\ HoldsPacket

LEMMA AllocateType == ASSUME TypeInv, NEW t \in Producer, Allocate(t) PROVE TypeInv'
<1> USE DEF TypeInv
<1>1. made + 1 \in Packet /\ made + 1 \in 0 .. MaxPackets
  <2>1. made \in 0 .. MaxPackets /\ made < MaxPackets
      BY DEF TypeOK, Allocate
  <2> QED
      BY <2>1, MaxPacketsAssumption DEF Packet
<1>2. (index + 1) % Size \in Slot
    BY NextIndex DEF TypeOK
<1>3. /\ live' \subseteq Packet
      /\ made' \in 0 .. MaxPackets
    BY <1>1 DEF TypeOK, Allocate
<1>4. /\ producer' \in [Producer -> [at : {"idle", "advance", "examine", "drop", "store"},
                                     next : Slot, packet : Packet \cup {Null}]]
      /\ HoldsPacket'
    BY <1>1, <1>2 DEF TypeOK, Allocate, HoldsPacket
<1> QED
    BY <1>3, <1>4 DEF TypeOK, Allocate, history

LEMMA GotoType ==
    ASSUME TypeInv, NEW t \in Producer, producer[t].at # "idle",
           NEW place \in {"idle", "examine", "drop", "store"}, Goto(t, place)
    PROVE  /\ producer' \in [Producer -> [at : {"idle", "advance", "examine", "drop", "store"},
                                          next : Slot, packet : Packet \cup {Null}]]
           /\ HoldsPacket'
BY ZenonT(40) DEF TypeInv, TypeOK, HoldsPacket, Goto

LEMMA FreeType ==
    ASSUME TypeOK, NEW p, Free(p)
    PROVE  /\ live' \subseteq Packet
           /\ faults' \subseteq {"null", "double free", "use after free"}
BY DEF TypeOK, Free

LEMMA ProduceType == ASSUME TypeInv, NEW t \in Producer, Produce(t) PROVE TypeInv'
<1> USE DEF TypeInv
<1>1. CASE Allocate(t)
    BY <1>1, AllocateType
<1>2. CASE Advance(t)
  <2>1. index' \in Slot
      BY <1>2 DEF Advance, TypeOK
  <2> QED
      BY <1>2, <2>1, GotoType DEF Advance, TypeOK, history
<1>3. CASE Examine(t)
    BY <1>3, GotoType DEF Examine, TypeOK, history, shared
<1>4. CASE Drop(t)
    BY <1>4, GotoType, FreeType DEF Drop, TypeOK, history
<1>5. CASE Store(t)
  <2>1. producer[t].packet \in Packet
      BY <1>5 DEF Store, HoldsPacket
  <2>2. stored' \in Seq(Packet)
      BY <1>5, <2>1, ToSetAppend DEF Store, TypeOK
  <2>3. slot' \in [Slot -> Packet \cup {Null}]
      BY <1>5, <2>1 DEF Store, TypeOK
  <2> QED
      BY <1>5, <2>2, <2>3, GotoType DEF Store, TypeOK
<1> QED
    BY <1>1, <1>2, <1>3, <1>4, <1>5 DEF Produce

LEMMA ConsumeType == ASSUME TypeInv, Consume PROVE TypeInv'
<1> USE DEF TypeInv
<1>0. consumer.i \in Slot
    BY DEF TypeOK
<1>1. CASE Test
    BY <1>0, <1>1, NextSlotType DEF Test, TypeOK, HoldsPacket, shared, history
<1>2. CASE ProcessBegin
    BY <1>0, <1>2 DEF ProcessBegin, Touch, TypeOK, HoldsPacket, shared, history
<1>3. CASE ProcessEnd
  <2>1. handled' \in Seq(Packet \cup {Null})
      BY <1>3, ToSetAppend DEF ProcessEnd, TypeOK
  <2> QED
      BY <1>3, <2>1 DEF ProcessEnd, Touch, TypeOK, HoldsPacket, shared
<1>4. CASE FreeSlot
    BY <1>4, FreeType DEF FreeSlot, TypeOK, HoldsPacket, history
<1>5. CASE ClearSlot
    BY <1>0, <1>5, NextSlotType DEF ClearSlot, TypeOK, HoldsPacket, history
<1>6. CASE Rescan
    BY <1>6 DEF Rescan, TypeOK, HoldsPacket, shared, history
<1> QED
    BY <1>1, <1>2, <1>3, <1>4, <1>5, <1>6 DEF Consume

LEMMA TypeStep == TypeInv /\ [Next]_vars => TypeInv'
<1>1. CASE UNCHANGED vars
    BY <1>1 DEF TypeInv, TypeOK, HoldsPacket, vars, shared, history
<1> QED
    BY <1>1, ProduceType, ConsumeType DEF Next

LEMMA TypeInit == Init => TypeInv
<1>1. 0 \in Slot
    BY SizeAssumption DEF Slot
<1> QED
    BY <1>1, MaxPacketsAssumption DEF Init, TypeInv, TypeOK, HoldsPacket

\* Whatever the timing and however many producers, indices stay in the ring and
\* the histories are of packets.
THEOREM TypeCorrect == Spec => []TypeOK
BY TypeInit, TypeStep, PTL DEF Spec, TypeInv

-------------------------------------------------------------------------------
\* The receive ring of net_recv while its producer is not ahead of the scan.
ReceiveRing(r) == Arrival = "slow" /\ Producer = {r} /\ r # Self

\* Packets are numbered as they are allocated.
Numbered == /\ live \subseteq 1 .. made
            /\ ToSet(stored) \subseteq 1 .. made
            /\ ToSet(handled) \subseteq ToSet(stored)

\* A slot holds a stored packet that is live and waits, except the slot the scan is
\* at, whose packet is handled before it is freed and freed before it is cleared;
\* no packet is in two slots.
Freed(i)  == consumer.at = "clear" /\ consumer.i = i
Worked(i) == consumer.at \in {"free", "clear"} /\ consumer.i = i
Slotted == /\ \A i \in Slot : slot[i] # Null =>
                 /\ slot[i] \in ToSet(stored)
                 /\ ~Freed(i) => slot[i] \in live
                 /\ ~Worked(i) => slot[i] \notin ToSet(handled)
           /\ \A i, j \in Slot : slot[i] # Null /\ slot[i] = slot[j] => i = j

\* The producer never finds a slot taken, and its packet is nobody else's yet.
Producing(r) ==
    /\ producer[r].at # "drop"
    /\ producer[r].at # "idle" => /\ producer[r].packet \in live \ ToSet(stored)
                                  /\ slot[producer[r].next] = Null
    /\ producer[r].at \in {"examine", "store"} => index = producer[r].next

\* The slot the consumer works on is taken, by the packet it works on.
Consuming ==
    /\ consumer.at \in {"process", "busy", "free", "clear"} => slot[consumer.i] # Null
    /\ consumer.at = "busy" => consumer.packet = slot[consumer.i]
    /\ consumer.at = "clear" => slot[consumer.i] \notin live

RingInv(r) == /\ TypeInv
              /\ MemorySafe /\ NoLeak
              /\ Numbered /\ Slotted /\ Producing(r) /\ Consuming

LEMMA RingInit == ASSUME NEW r, ReceiveRing(r), Init PROVE RingInv(r)
<1>1. ToSet(<<>>) = {}
    BY DEF ToSet
<1>2. TypeInv
    BY TypeInit
<1>3. /\ \A i \in Slot : slot[i] = Null
      /\ live = {} /\ faults = {} /\ made = 0 /\ stored = <<>> /\ handled = <<>>
      /\ producer[r].at = "idle" /\ consumer.at = "test"
    BY DEF Init, ReceiveRing
<1> QED
    BY <1>1, <1>2, <1>3 DEF RingInv, MemorySafe, NoLeak, Numbered, Slotted,
                            Producing, Consuming

\* What NoLeak says with one producer.
LEMMA HeldIs ==
    ASSUME NEW r, ReceiveRing(r)
    PROVE  /\ Held = {slot[i] : i \in Slot}
                      \cup (IF producer[r].at # "idle" THEN {producer[r].packet} ELSE {})
           /\ Held' = {slot'[i] : i \in Slot}
                      \cup (IF producer'[r].at # "idle" THEN {producer'[r].packet} ELSE {})
BY DEF ReceiveRing, Held

LEMMA RingAllocate ==
    ASSUME NEW r, ReceiveRing(r), RingInv(r), Allocate(r)
    PROVE  RingInv(r)'
<1> USE DEF RingInv, history
<1>1. TypeInv'
    BY ProduceType DEF Produce, ReceiveRing
<1>2. /\ producer'[r] = [at |-> "advance", next |-> (index + 1) % Size, packet |-> made + 1]
      /\ slot[(index + 1) % Size] = Null
      /\ live' = live \cup {made + 1} /\ made' = made + 1
      /\ UNCHANGED <<slot, index, consumer, faults, stored, handled>>
    BY DEF Allocate, Arrive, ReceiveRing, TypeInv, TypeOK
<1>3. made \in Nat /\ made + 1 \notin 1 .. made /\ 1 .. made \subseteq 1 .. made + 1
      /\ made + 1 \in 1 .. made + 1
  <2>1. made \in 0 .. MaxPackets
      BY DEF TypeInv, TypeOK
  <2> QED
      BY <2>1, MaxPacketsAssumption
<1>4. Numbered'
    BY <1>2, <1>3 DEF Numbered
<1>5. \A i \in Slot : slot[i] # Null => slot[i] # made + 1
    BY <1>3 DEF Slotted, Numbered
<1>6. Slotted'
    BY <1>2 DEF Slotted, Freed, Worked
<1>7. Producing(r)'
    BY <1>2, <1>3 DEF Producing, Numbered
<1>8. Consuming'
    BY <1>2, <1>5, consumer.i \in Slot DEF Consuming, TypeInv, TypeOK
<1>9. MemorySafe' /\ NoLeak'
  <2>1. producer[r].at = "idle" /\ producer'[r].at # "idle" /\ producer'[r].packet = made + 1
      BY <1>2 DEF Allocate
  <2>2. Held = {slot[i] : i \in Slot} /\ Held' = {slot[i] : i \in Slot} \cup {made + 1}
      BY <1>2, <2>1, HeldIs
  <2> QED
      BY <1>2, <2>2 DEF MemorySafe, NoLeak
<1> QED
    BY <1>1, <1>4, <1>6, <1>7, <1>8, <1>9

\* The three other steps of the producer.
LEMMA RingAdvance ==
    ASSUME NEW r, ReceiveRing(r), RingInv(r), Advance(r)
    PROVE  RingInv(r)'
<1> USE DEF RingInv, history
<1>1. TypeInv'
    BY ProduceType DEF Produce, ReceiveRing
<1>2. /\ producer[r].at = "advance" /\ producer'[r] = [producer[r] EXCEPT !.at = "examine"]
      /\ index' = producer[r].next
      /\ UNCHANGED <<slot, live, made, consumer, faults, stored, handled>>
    BY DEF Advance, Goto, ReceiveRing, TypeInv, TypeOK
<1>3. /\ producer'[r].at = "examine" /\ producer'[r].next = producer[r].next
      /\ producer'[r].packet = producer[r].packet
    BY <1>2 DEF ReceiveRing, TypeInv, TypeOK
<1>4. Numbered' /\ Slotted' /\ Consuming'
    BY <1>2 DEF Numbered, Slotted, Freed, Worked, Consuming
<1>5. Producing(r)'
    BY <1>2, <1>3 DEF Producing
<1>6. MemorySafe' /\ NoLeak'
    BY <1>2, <1>3, HeldIs DEF MemorySafe, NoLeak
<1> QED
    BY <1>1, <1>4, <1>5, <1>6

LEMMA RingExamine ==
    ASSUME NEW r, ReceiveRing(r), RingInv(r), Examine(r)
    PROVE  RingInv(r)'
<1> USE DEF RingInv, history
<1>1. TypeInv'
    BY ProduceType DEF Produce, ReceiveRing
<1>2. Cursor(r) = {producer[r].next} /\ slot[producer[r].next] = Null
    BY DEF Examine, Cursor, Producing
<1>3. /\ producer[r].at = "examine" /\ Goto(r, "store")
      /\ UNCHANGED <<slot, index, live, made, consumer, faults, stored, handled>>
    BY <1>2 DEF Examine, shared
<1>4. /\ producer'[r].at = "store" /\ producer'[r].next = producer[r].next
      /\ producer'[r].packet = producer[r].packet
    BY <1>3 DEF Goto, ReceiveRing, TypeInv, TypeOK
<1>5. Numbered' /\ Slotted' /\ Consuming'
    BY <1>3 DEF Numbered, Slotted, Freed, Worked, Consuming
<1>6. Producing(r)'
    BY <1>3, <1>4 DEF Producing
<1>7. MemorySafe' /\ NoLeak'
    BY <1>3, <1>4, HeldIs DEF MemorySafe, NoLeak
<1> QED
    BY <1>1, <1>5, <1>6, <1>7

\* What Store does, in the terms of the invariant.
LEMMA StoreIs ==
    ASSUME NEW r, ReceiveRing(r), RingInv(r), Store(r)
    PROVE  /\ producer[r].at = "store" /\ producer'[r].at = "idle"
           /\ producer[r].next \in Slot /\ slot[producer[r].next] = Null
           /\ producer[r].packet \in live \ ToSet(stored) /\ producer[r].packet # Null
           /\ slot' = [slot EXCEPT ![producer[r].next] = producer[r].packet]
           /\ ToSet(stored') = ToSet(stored) \cup {producer[r].packet}
           /\ UNCHANGED <<index, live, made, consumer, faults, handled>>
<1> USE DEF RingInv
<1>1. producer[r].at = "store" /\ r \in Producer
    BY DEF Store, ReceiveRing
<1>2. /\ producer'[r].at = "idle"
      /\ producer[r].next \in Slot /\ producer[r].packet \in Packet
  <2>1. /\ producer \in [Producer -> [at : {"idle", "advance", "examine", "drop", "store"},
                                     next : Slot, packet : Packet \cup {Null}]]
        /\ producer[r].packet \in Packet
      BY <1>1 DEF TypeInv, TypeOK, HoldsPacket
  <2>2. producer' = [producer EXCEPT ![r].at = "idle"]
      BY DEF Store, Goto
  <2> QED
      BY <1>1, <2>1, <2>2
<1>3. Cursor(r) = {producer[r].next}
    BY <1>1 DEF Cursor, Producing
<1>4. slot' = [slot EXCEPT ![producer[r].next] = producer[r].packet]
    BY <1>3 DEF Store
<1>5. ToSet(stored') = ToSet(stored) \cup {producer[r].packet}
  <2>1. stored \in Seq(Packet) /\ stored' = Append(stored, producer[r].packet)
      BY DEF Store, TypeInv, TypeOK
  <2> QED
      BY <1>2, <2>1, ToSetAppend
<1>6. producer[r].packet # Null
    BY <1>2, NullAssumption DEF Packet
<1> QED
    BY <1>1, <1>2, <1>4, <1>5, <1>6 DEF Store, Producing

LEMMA RingStore ==
    ASSUME NEW r, ReceiveRing(r), RingInv(r), Store(r)
    PROVE  RingInv(r)'
<1> USE DEF RingInv
<1> DEFINE p == producer[r].packet
           n == producer[r].next
<1>1. TypeInv'
    BY ProduceType DEF Produce, ReceiveRing
<1>2. /\ producer[r].at = "store" /\ producer'[r].at = "idle"
      /\ n \in Slot /\ slot[n] = Null
      /\ p \in live \ ToSet(stored) /\ p # Null
      /\ slot' = [slot EXCEPT ![n] = p]
      /\ ToSet(stored') = ToSet(stored) \cup {p}
      /\ UNCHANGED <<index, live, made, consumer, faults, handled>>
    BY StoreIs
<1> HIDE DEF p, n
<1>3. \A i \in Slot : slot'[i] = IF i = n THEN p ELSE slot[i]
    BY <1>2 DEF TypeInv, TypeOK
<1>4. \A i \in Slot : slot[i] # p
    BY <1>2 DEF Slotted
<1>5. p \notin ToSet(handled)
    BY <1>2 DEF Numbered
<1>6. Numbered'
    BY <1>2 DEF Numbered
<1>7. Slotted'
    BY <1>2, <1>3, <1>4, <1>5 DEF Slotted, Freed, Worked
<1>8. Producing(r)'
    BY <1>2 DEF Producing
<1>9. Consuming'
  <2>1. consumer.i \in Slot
      BY DEF TypeInv, TypeOK
  <2> QED
      BY <1>2, <1>3, <2>1 DEF Consuming
<1>10. NoLeak'
  <2>1. ASSUME NEW q \in live PROVE q \in Held'
    <3>1. q = p \/ \E i \in Slot : q = slot[i]
        BY HeldIs DEF NoLeak, p
    <3>2. CASE q = p
        BY <1>2, <1>3, <3>2, HeldIs
    <3>3. CASE q # p
      <4>1. PICK i \in Slot : q = slot[i]
          BY <3>1, <3>3
      <4>2. q \in 1 .. made
          BY DEF Numbered
      <4>3. q # Null
        <5>1. made \in 0 .. MaxPackets
            BY DEF TypeInv, TypeOK
        <5> QED
            BY <4>2, <5>1, MaxPacketsAssumption, NullAssumption
      <4> QED
          BY <1>2, <1>3, <4>1, <4>3, HeldIs
    <3> QED
        BY <3>2, <3>3
  <2> QED
      BY <1>2, <2>1 DEF NoLeak
<1> QED
    BY <1>1, <1>2, <1>6, <1>7, <1>8, <1>9, <1>10 DEF MemorySafe

-------------------------------------------------------------------------------
\* The steps of the consumer leave the producer alone.
LEMMA ScanGoesOn ==
    ASSUME NEW r, RingInv(r), NEW i \in Slot, consumer' = NextSlot(i),
           UNCHANGED <<slot, live, stored, handled>>,
           consumer.at \notin {"free", "clear"}
    PROVE  Slotted' /\ Consuming'
<1>1. consumer'.at \in {"test", "rest"}
    BY NextSlotType
<1> QED
    BY <1>1 DEF RingInv, Slotted, Consuming, Freed, Worked

LEMMA Undisturbed ==
    ASSUME NEW r, ReceiveRing(r), RingInv(r), UNCHANGED <<slot, index, live, stored, producer>>
    PROVE  Producing(r)' /\ NoLeak'
BY DEF RingInv, Producing, NoLeak, Held

LEMMA RingTest ==
    ASSUME NEW r, ReceiveRing(r), RingInv(r), Test
    PROVE  RingInv(r)'
<1> USE DEF RingInv, history, shared
<1>1. TypeInv' /\ Producing(r)' /\ NoLeak' /\ consumer.i \in Slot
    BY ConsumeType, Undisturbed DEF Consume, Test, TypeInv, TypeOK
<1>2. Numbered' /\ MemorySafe'
    BY DEF Test, Numbered, MemorySafe
<1>3. CASE slot[consumer.i] # Null
  <2>1. /\ consumer'.at = "process" /\ consumer'.i = consumer.i /\ consumer.at = "test"
        /\ slot' = slot /\ live' = live /\ stored' = stored /\ handled' = handled
    <3>1. consumer' = [consumer EXCEPT !.at = "process"]
        BY <1>3 DEF Test
    <3>2. consumer \in [at : {"test", "process", "busy", "free", "clear", "rest"},
                        i : Slot, packet : Packet \cup {Null}]
        BY DEF TypeInv, TypeOK
    <3> QED
        BY <3>1, <3>2 DEF Test
  <2>2. Slotted' /\ Consuming'
      BY <1>3, <2>1 DEF Slotted, Consuming, Freed, Worked
  <2> QED
      BY <1>1, <1>2, <2>2
<1>4. CASE slot[consumer.i] = Null
  <2>1. Slotted' /\ Consuming'
      BY <1>1, <1>4, ScanGoesOn DEF Test
  <2> QED
      BY <1>1, <1>2, <2>1
<1> QED
    BY <1>3, <1>4

\* The consumer's record after a step that only moves it on.
LEMMA ConsumerAt ==
    ASSUME TypeInv, NEW place, consumer' = [consumer EXCEPT !.at = place]
    PROVE  consumer'.at = place /\ consumer'.i = consumer.i /\ consumer'.packet = consumer.packet
<1>1. consumer \in [at : {"test", "process", "busy", "free", "clear", "rest"},
                    i : Slot, packet : Packet \cup {Null}]
    BY DEF TypeInv, TypeOK
<1> QED
    BY <1>1

LEMMA RingProcessBegin ==
    ASSUME NEW r, ReceiveRing(r), RingInv(r), ProcessBegin
    PROVE  RingInv(r)'
<1> USE DEF RingInv, history, shared
<1>1. TypeInv' /\ Producing(r)' /\ NoLeak' /\ consumer.i \in Slot
    BY ConsumeType, Undisturbed DEF Consume, ProcessBegin, TypeInv, TypeOK
<1>2. /\ consumer.at = "process" /\ consumer'.at = "busy" /\ consumer'.i = consumer.i
      /\ consumer'.packet = slot[consumer.i]
      /\ slot' = slot /\ live' = live /\ stored' = stored /\ handled' = handled /\ made' = made
  <2>1. consumer' = [consumer EXCEPT !.at = "busy", !.packet = slot[consumer.i]]
      BY DEF ProcessBegin
  <2>2. consumer \in [at : {"test", "process", "busy", "free", "clear", "rest"},
                      i : Slot, packet : Packet \cup {Null}]
      BY DEF TypeInv, TypeOK
  <2> QED
      BY <2>1, <2>2 DEF ProcessBegin
<1>3. slot[consumer.i] \in live
    BY <1>1, <1>2 DEF Slotted, Consuming, Freed
<1>4. MemorySafe'
    BY <1>3 DEF ProcessBegin, Touch, MemorySafe
<1>5. Numbered' /\ Slotted' /\ Consuming'
    BY <1>2 DEF Numbered, Slotted, Consuming, Freed, Worked
<1> QED
    BY <1>1, <1>4, <1>5

LEMMA RingProcessEnd ==
    ASSUME NEW r, ReceiveRing(r), RingInv(r), ProcessEnd
    PROVE  RingInv(r)'
<1> USE DEF RingInv, shared
<1> DEFINE p == slot[consumer.i]
<1>1. TypeInv' /\ Producing(r)' /\ NoLeak' /\ consumer.i \in Slot
    BY ConsumeType, Undisturbed DEF Consume, ProcessEnd, TypeInv, TypeOK
<1>2. /\ consumer.at = "busy" /\ consumer'.at = "free" /\ consumer'.i = consumer.i
      /\ slot' = slot /\ live' = live /\ stored' = stored /\ made' = made
    BY ConsumerAt DEF ProcessEnd
<1>3. consumer.packet = p /\ p # Null /\ p \in live /\ p \in ToSet(stored)
    BY <1>1, <1>2 DEF Slotted, Consuming, Freed
<1>4. ToSet(handled') = ToSet(handled) \cup {p}
  <2>1. handled \in Seq(Packet \cup {Null}) /\ p \in Packet \cup {Null}
      BY <1>1 DEF TypeInv, TypeOK
  <2>2. handled' = Append(handled, p)
      BY <1>3 DEF ProcessEnd
  <2> QED
      BY <2>1, <2>2, ToSetAppend
<1> HIDE DEF p
<1>5. MemorySafe'
    BY <1>3 DEF ProcessEnd, Touch, MemorySafe
<1>6. Numbered' /\ Consuming'
    BY <1>2, <1>3, <1>4 DEF Numbered, Consuming, p
<1>7. \A i \in Slot : slot[i] = p => i = consumer.i
    BY <1>1, <1>3 DEF Slotted, p
<1>8. Slotted'
    BY <1>2, <1>4, <1>7 DEF Slotted, Freed, Worked
<1> QED
    BY <1>1, <1>5, <1>6, <1>8

LEMMA RingFreeSlot ==
    ASSUME NEW r, ReceiveRing(r), RingInv(r), FreeSlot
    PROVE  RingInv(r)'
<1> USE DEF RingInv, history
<1> DEFINE p == slot[consumer.i]
<1>1. TypeInv' /\ consumer.i \in Slot
    BY ConsumeType DEF Consume, TypeInv, TypeOK
<1>2. /\ consumer.at = "free" /\ consumer'.at = "clear" /\ consumer'.i = consumer.i
      /\ UNCHANGED <<slot, index, made, producer, stored, handled>>
    BY ConsumerAt DEF FreeSlot
<1>3. p # Null /\ p \in live /\ p \in ToSet(stored)
    BY <1>1, <1>2 DEF Slotted, Consuming, Freed
<1>4. live' = live \ {p} /\ UNCHANGED faults
    BY <1>3 DEF FreeSlot, Free
<1> HIDE DEF p
<1>5. MemorySafe' /\ NoLeak'
    BY <1>2, <1>4 DEF MemorySafe, NoLeak, Held
<1>6. Numbered' /\ Consuming'
    BY <1>2, <1>3, <1>4 DEF Numbered, Consuming, p
<1>7. \A i \in Slot : slot[i] = p => i = consumer.i
    BY <1>1, <1>3 DEF Slotted, p
<1>8. Slotted'
    BY <1>2, <1>4, <1>7 DEF Slotted, Freed, Worked
<1>9. Producing(r)'
    BY <1>2, <1>3, <1>4 DEF Producing
<1> QED
    BY <1>1, <1>5, <1>6, <1>8, <1>9

LEMMA RingClearSlot ==
    ASSUME NEW r, ReceiveRing(r), RingInv(r), ClearSlot
    PROVE  RingInv(r)'
<1> USE DEF RingInv, history
<1>1. TypeInv' /\ consumer.i \in Slot
    BY ConsumeType DEF Consume, TypeInv, TypeOK
<1>2. /\ consumer.at = "clear" /\ consumer'.at \in {"test", "rest"}
      /\ slot' = [slot EXCEPT ![consumer.i] = Null]
      /\ UNCHANGED <<index, live, made, producer, faults, stored, handled>>
    BY <1>1, NextSlotType DEF ClearSlot
<1>3. \A i \in Slot : slot'[i] = IF i = consumer.i THEN Null ELSE slot[i]
    BY <1>1, <1>2 DEF TypeInv, TypeOK
<1>4. slot[consumer.i] \notin live
    BY <1>2 DEF Consuming
<1>5. Numbered' /\ Consuming' /\ MemorySafe'
    BY <1>2 DEF Numbered, Consuming, MemorySafe
<1>6. Slotted'
    BY <1>2, <1>3 DEF Slotted, Freed, Worked
<1>7. Producing(r)'
  <2>1. producer[r].next \in Slot
      BY DEF ReceiveRing, TypeInv, TypeOK
  <2> QED
      BY <1>2, <1>3, <2>1 DEF Producing
<1>8. NoLeak'
  <2>1. ASSUME NEW q \in live PROVE q \in Held'
    <3>1. CASE \E i \in Slot : q = slot[i]
        BY <1>2, <1>3, <1>4, <3>1, HeldIs
    <3>2. CASE ~\E i \in Slot : q = slot[i]
        BY <1>2, <3>2, HeldIs DEF NoLeak
    <3> QED
        BY <3>1, <3>2
  <2> QED
      BY <1>2, <2>1 DEF NoLeak
<1> QED
    BY <1>1, <1>5, <1>6, <1>7, <1>8

LEMMA RingRescan ==
    ASSUME NEW r, ReceiveRing(r), RingInv(r), Rescan
    PROVE  RingInv(r)'
<1> USE DEF RingInv, history, shared
<1>1. TypeInv' /\ Producing(r)' /\ NoLeak'
    BY ConsumeType, Undisturbed DEF Consume, Rescan
<1>2. consumer.at = "rest" /\ consumer'.at = "test"
    BY ConsumerAt DEF Rescan
<1> QED
    BY <1>1, <1>2 DEF Rescan, Numbered, Slotted, Consuming, Freed, Worked, MemorySafe

-------------------------------------------------------------------------------
LEMMA RingStep ==
    ASSUME NEW r, ReceiveRing(r), RingInv(r), [Next]_vars
    PROVE  RingInv(r)'
<1>1. CASE UNCHANGED vars
  <2>1. TypeInv'
      BY <1>1, TypeStep DEF RingInv
  <2> QED
      BY <1>1, <2>1 DEF RingInv, vars, shared, history, MemorySafe, NoLeak, Held, Numbered,
                        Slotted, Freed, Worked, Producing, Consuming
<1>2. CASE Consume
    BY <1>2, RingTest, RingProcessBegin, RingProcessEnd, RingFreeSlot, RingClearSlot,
       RingRescan DEF Consume
<1>3. CASE Produce(r)
  <2>1. ~Drop(r)
      BY DEF Drop, RingInv, Producing
  <2> QED
      BY <1>3, <2>1, RingAllocate, RingAdvance, RingExamine, RingStore DEF Produce
<1> QED
    BY <1>1, <1>2, <1>3 DEF Next, ReceiveRing

\* While packets arrive slowly, the receive ring has no use after free, no double
\* free and no NULL access, for every size and any interleaving of the two threads.
THEOREM ReceiveRingSafe ==
    ASSUME NEW CONSTANT r, ReceiveRing(r)
    PROVE  Spec => []MemorySafe
<1>1. Init => RingInv(r)
    BY RingInit
<1>2. RingInv(r) /\ [Next]_vars => RingInv(r)'
    BY RingStep
<1>3. RingInv(r) => MemorySafe
    BY DEF RingInv
<1> QED
    BY <1>1, <1>2, <1>3, PTL DEF Spec

\* ... and every packet allocated is in a slot, in the producer's hands, or freed.
THEOREM ReceiveRingKeeps ==
    ASSUME NEW CONSTANT r, ReceiveRing(r)
    PROVE  Spec => []NoLeak
<1>1. Init => RingInv(r)
    BY RingInit
<1>2. RingInv(r) /\ [Next]_vars => RingInv(r)'
    BY RingStep
<1>3. RingInv(r) => NoLeak
    BY DEF RingInv
<1> QED
    BY <1>1, <1>2, <1>3, PTL DEF Spec

\* ... and it is a pool: every packet that is processed was stored before and was
\* not processed already, for every size and every interleaving.
THEOREM ReceiveRingIsPool ==
    ASSUME NEW CONSTANT r, ReceiveRing(r)
    PROVE  Spec => ImplementsPool
<1>1. Init => RingInv(r) /\ Pool!Init
  <2>1. ToSet(<<>>) = {}
      BY DEF ToSet
  <2> QED
      BY <2>1, RingInit DEF Init, Pool!Init
<1>2. RingInv(r) /\ [Next]_vars => RingInv(r)'
    BY RingStep
<1>3. RingInv(r) /\ [Next]_vars => [Pool!Next]_(Pool!vars)
  <2> SUFFICES ASSUME RingInv(r), [Next]_vars PROVE [Pool!Next]_(Pool!vars)
      OBVIOUS
  <2>1. CASE Store(r)
    <3>1. /\ producer[r].packet \in live \ ToSet(stored)
          /\ ToSet(stored') = ToSet(stored) \cup {producer[r].packet}
          /\ handled' = handled
        BY <2>1, StoreIs
    <3>2. producer[r].packet \in Packet
        BY <3>1 DEF RingInv, TypeInv, TypeOK
    <3>3. Pool!Put
        BY <3>1, <3>2 DEF Pool!Put
    <3> QED
        BY <3>3 DEF Pool!Next
  <2>2. CASE ProcessEnd
    <3> DEFINE p == slot[consumer.i]
    <3>1. consumer.at = "busy" /\ consumer.i \in Slot /\ consumer.packet = p /\ p # Null
        BY <2>2 DEF ProcessEnd, RingInv, TypeInv, TypeOK, Consuming
    <3>2. p \in ToSet(stored) \ ToSet(handled)
        BY <3>1 DEF RingInv, Slotted, Worked
    <3>3. handled' = Append(handled, p) /\ UNCHANGED ToSet(stored)
        BY <2>2, <3>1 DEF ProcessEnd
    <3>4. Pool!Taken = ToSet(handled)
        BY DEF Pool!Taken, ToSet
    <3> HIDE DEF p
    <3>5. Pool!Take
        BY <3>2, <3>3, <3>4 DEF Pool!Take
    <3> QED
        BY <3>5 DEF Pool!Next
  <2>3. CASE ~Store(r) /\ ~ProcessEnd
    <3>1. ~Drop(r)
        BY DEF Drop, RingInv, Producing
    <3>2. UNCHANGED <<stored, handled>>
        BY <2>3, <3>1 DEF Next, ReceiveRing, Produce, Consume, Allocate, Advance, Examine, Test,
                          ProcessBegin, FreeSlot, ClearSlot, Rescan, history, vars
    <3> QED
        BY <3>2 DEF Pool!vars
  <2> QED
      BY <2>1, <2>2, <2>3
<1> QED
    BY <1>1, <1>2, <1>3, PTL DEF Spec, ImplementsPool, Pool!Spec

-------------------------------------------------------------------------------
\* The send ring of net_data_send, overrun or not, when no two threads are ever at
\* one slot: any number of producers, one of which may be the consumer itself.
SendRing == Arrival = "apart"

Active(t) == producer[t].at # "idle"

\* One producer is in the ring at a time, and not at the slot the consumer works on.
\* Its packet is newer than all that were stored; what it finds in its slot is freed
\* before it is replaced.
Alone == \A t, u \in Producer : Active(t) /\ Active(u) => t = u
Filling == \A t \in Producer : Active(t) =>
    /\ consumer.at \in {"process", "busy", "free", "clear"} => producer[t].next # consumer.i
    /\ producer[t].packet \in live \ ToSet(stored)
    /\ \A p \in ToSet(stored) : p < producer[t].packet
    /\ producer[t].at = "advance" => producer[t].next = (index + 1) % Size
    /\ producer[t].at # "advance" => producer[t].next = index
    /\ producer[t].at = "drop" => slot[index] # Null
    /\ producer[t].at = "store" => slot[index] = Null \/ slot[index] \notin live

\* As in the receive ring, except that the packet in the producer's slot may have been
\* dropped.
Dropped(i) == \E t \in Producer : producer[t].at = "store" /\ producer[t].next = i
Occupied == /\ \A i \in Slot : slot[i] # Null =>
                  /\ slot[i] \in ToSet(stored)
                  /\ ~Freed(i) /\ ~Dropped(i) => slot[i] \in live
                  /\ Worked(i) <=> slot[i] \in ToSet(handled)
            /\ \A i, j \in Slot : slot[i] # Null /\ slot[i] = slot[j] => i = j

\* From the slot that is filled next, once round the ring, packets are in the order in
\* which they were stored, and that is the order of their allocation.
Filled(n) == \/ \E t \in Producer : Active(t) /\ n = producer[t].next
             \/ (\A t \in Producer : ~Active(t)) /\ n = (index + 1) % Size
Ahead(n, i) == IF n <= i THEN i - n ELSE i + Size - n
Sorted(n) == \A i, j \in Slot : slot[i] # Null /\ slot[j] # Null /\ Ahead(n, i) < Ahead(n, j)
                                    => slot[i] < slot[j]
InTurn == /\ \A n \in Slot : Filled(n) => Sorted(n)
          /\ \A i, j \in DOMAIN stored : i < j => stored[i] < stored[j]

SendInv == /\ TypeInv
           /\ MemorySafe /\ NoLeak
           /\ Numbered /\ Alone /\ Filling /\ Occupied /\ Consuming /\ InTurn

LEMMA SendInit == ASSUME Init PROVE SendInv
<1>1. ToSet(<<>>) = {} /\ DOMAIN <<>> = {}
    BY DEF ToSet
<1>2. TypeInv
    BY TypeInit
<1>3. /\ \A i \in Slot : slot[i] = Null
      /\ live = {} /\ faults = {} /\ made = 0 /\ stored = <<>> /\ handled = <<>>
      /\ \A t \in Producer : ~Active(t)
      /\ consumer.at = "test"
    BY DEF Init, Active
<1>4. MemorySafe /\ NoLeak /\ Numbered /\ Alone /\ Filling /\ Consuming
    BY <1>1, <1>3 DEF MemorySafe, NoLeak, Numbered, Alone, Filling, Consuming
<1>5. Occupied /\ InTurn
    BY <1>1, <1>3 DEF Occupied, InTurn, Sorted
<1> QED
    BY <1>2, <1>4, <1>5 DEF SendInv

\* What the types say of the threads.
LEMMA ThreadTypes ==
    ASSUME TypeInv
    PROVE  /\ \A t \in Producer : producer[t].next \in Slot
           /\ \A t \in Producer : Active(t) => producer[t].packet \in Packet
           /\ consumer.i \in Slot
           /\ index \in Slot \cup {-1}
           /\ \A i \in Slot : slot[i] \in Packet \cup {Null}
           /\ Null \notin Packet /\ \A p \in Packet : p \in Nat
           /\ stored \in Seq(Packet)
<1>1. \A t \in Producer : producer[t] \in [at : {"idle", "advance", "examine", "drop", "store"},
                                           next : Slot, packet : Packet \cup {Null}]
    BY DEF TypeInv, TypeOK
<1>2. /\ consumer \in [at : {"test", "process", "busy", "free", "clear", "rest"},
                       i : Slot, packet : Packet \cup {Null}]
      /\ \A i \in Slot : slot[i] \in Packet \cup {Null}
      /\ stored \in Seq(Packet) /\ index \in Slot \cup {-1}
      /\ \A t \in Producer : Active(t) => producer[t].packet \in Packet
    BY DEF TypeInv, TypeOK, HoldsPacket, Active
<1>3. Null \notin Packet /\ \A p \in Packet : p \in Nat
    BY NullAssumption DEF Packet
<1> QED
    BY <1>1, <1>2, <1>3

\* The producer in the ring moves on, and it is the only one.
LEMMA TheProducer ==
    ASSUME TypeInv, Alone, NEW t \in Producer, Active(t),
           NEW place \in {"idle", "examine", "drop", "store"}, Goto(t, place)
    PROVE  /\ \A u \in Producer : u # t => ~Active(u) /\ ~Active(u)'
           /\ producer'[t].at = place
           /\ producer'[t].next = producer[t].next /\ producer'[t].packet = producer[t].packet
           /\ Active(t)' <=> place # "idle"
           /\ Alone'
           /\ \A n : Filled(n) <=> n = producer[t].next
           /\ place # "idle" => \A n : Filled(n)' <=> n = producer[t].next
           /\ place = "idle" => \A n : Filled(n)' <=> n = (index' + 1) % Size
           /\ \A i : Dropped(i) <=> producer[t].at = "store" /\ i = producer[t].next
           /\ \A i : Dropped(i)' <=> place = "store" /\ i = producer[t].next
<1>1. producer \in [Producer -> [at : {"idle", "advance", "examine", "drop", "store"},
                                 next : Slot, packet : Packet \cup {Null}]]
    BY DEF TypeInv, TypeOK
<1>2. /\ producer'[t].at = place
      /\ producer'[t].next = producer[t].next /\ producer'[t].packet = producer[t].packet
      /\ \A u \in Producer : u # t => producer'[u] = producer[u]
    BY <1>1 DEF Goto
<1>3. \A u \in Producer : u # t => ~Active(u) /\ ~Active(u)'
    BY <1>2 DEF Alone, Active
<1>4. Active(t)' <=> place # "idle"
    BY <1>2 DEF Active
<1>5. Alone'
    BY <1>3 DEF Alone
<1>6. \A n : Filled(n) <=> n = producer[t].next
    BY <1>3 DEF Filled
<1>7. place # "idle" => \A n : Filled(n)' <=> n = producer[t].next
    BY <1>2, <1>3, <1>4 DEF Filled
<1>8. place = "idle" => \A n : Filled(n)' <=> n = (index' + 1) % Size
    BY <1>3, <1>4 DEF Filled
<1>9. \A i : Dropped(i) <=> producer[t].at = "store" /\ i = producer[t].next
  <2>1. \A u \in Producer : producer[u].at = "store" => u = t
      BY <1>3 DEF Active
  <2> QED
      BY <2>1 DEF Dropped
<1>10. \A i : Dropped(i)' <=> place = "store" /\ i = producer[t].next
  <2>1. \A u \in Producer : producer'[u].at = "store" => u = t
      BY <1>3 DEF Active
  <2> QED
      BY <1>2, <2>1 DEF Dropped
<1> QED
    BY <1>2, <1>3, <1>4, <1>5, <1>6, <1>7, <1>8, <1>9, <1>10

\* What is held, when there is one producer in the ring and when there is none.
LEMMA HeldByOne ==
    ASSUME NEW t \in Producer, \A u \in Producer : u # t => ~Active(u)
    PROVE  Held = {slot[i] : i \in Slot} \cup (IF Active(t) THEN {producer[t].packet} ELSE {})
<1>1. \A u \in Producer : producer[u].at # "idle" => u = t
    BY DEF Active
<1>2. {producer[u].packet : u \in {v \in Producer : producer[v].at # "idle"}}
          = IF Active(t) THEN {producer[t].packet} ELSE {}
    BY <1>1 DEF Active
<1> QED
    BY <1>2 DEF Held

LEMMA SendAllocate ==
    ASSUME SendRing, SendInv, NEW t \in Producer, Allocate(t)
    PROVE  SendInv'
<1> USE DEF SendInv, history
<1>1. TypeInv'
    BY ProduceType DEF Produce
<1>2. /\ \A u \in Producer : ~Active(u)
      /\ consumer.i = (index + 1) % Size => consumer.at \in {"test", "rest"}
      /\ live' = live \cup {made + 1} /\ made' = made + 1
      /\ UNCHANGED <<slot, index, consumer, faults, stored, handled>>
    BY DEF SendRing, Allocate, Arrive, Active
<1>3. /\ producer'[t] = [at |-> "advance", next |-> (index + 1) % Size, packet |-> made + 1]
      /\ \A u \in Producer : u # t => producer'[u] = producer[u]
    BY DEF Allocate, TypeInv, TypeOK
<1>4. /\ \A u \in Producer : u # t => ~Active(u)'
      /\ Active(t)'
    BY <1>2, <1>3 DEF Active
<1>5. made \in Nat /\ made + 1 \notin 1 .. made /\ 1 .. made \subseteq 1 .. made + 1
      /\ made + 1 \in 1 .. made + 1 /\ \A p \in 1 .. made : p < made + 1
  <2>1. made \in 0 .. MaxPackets
      BY DEF TypeInv, TypeOK
  <2> QED
      BY <2>1, MaxPacketsAssumption
<1>6. Numbered' /\ Alone' /\ MemorySafe'
    BY <1>2, <1>4, <1>5 DEF Numbered, Alone, MemorySafe
<1>7. Filling'
  <2>1. /\ producer'[t].at = "advance" /\ producer'[t].next = (index + 1) % Size
        /\ producer'[t].packet = made + 1
      BY <1>3
  <2>2. made + 1 \notin ToSet(stored) /\ \A p \in ToSet(stored) : p < made + 1
      BY <1>5 DEF Numbered
  <2>3. \A u \in Producer : Active(u)' => u = t
      BY <1>4
  <2> QED
      BY <1>2, <2>1, <2>2, <2>3 DEF Filling
<1>8. \A i : ~Dropped(i) /\ ~Dropped(i)'
    BY <1>2, <1>3, <1>4 DEF Dropped, Active
<1>9. Occupied'
    BY <1>2, <1>8 DEF Occupied, Freed, Worked
<1>10. Consuming'
  <2>1. \A i \in Slot : slot[i] # Null => slot[i] # made + 1
      BY <1>5 DEF Occupied, Numbered
  <2> QED
      BY <1>2, <2>1, ThreadTypes DEF Consuming
<1>11. NoLeak'
  <2>1. Held = {slot[i] : i \in Slot}
      BY <1>2, HeldByOne
  <2>2. Held' = {slot[i] : i \in Slot} \cup {made + 1}
    <3>1. {producer'[u].packet : u \in {v \in Producer : producer'[v].at # "idle"}} = {made + 1}
        BY <1>3, <1>4 DEF Active
    <3> QED
        BY <1>2, <3>1 DEF Held
  <2> QED
      BY <1>2, <2>1, <2>2 DEF NoLeak
<1>12. InTurn'
  <2>1. \A n : Filled(n)' => Filled(n)
      BY <1>2, <1>3, <1>4 DEF Filled
  <2> QED
      BY <1>2, <2>1 DEF InTurn, Sorted
<1> QED
    BY <1>1, <1>6, <1>7, <1>9, <1>10, <1>11, <1>12

LEMMA SendAdvance ==
    ASSUME SendInv, NEW t \in Producer, Advance(t)
    PROVE  SendInv'
<1> USE DEF SendInv, history
<1>1. TypeInv'
    BY ProduceType DEF Produce
<1>2. /\ producer[t].at = "advance" /\ Active(t) /\ Goto(t, "examine")
      /\ index' = producer[t].next
      /\ UNCHANGED <<slot, live, made, consumer, faults, stored, handled>>
    BY DEF Advance, Active
<1>3. /\ \A u \in Producer : u # t => ~Active(u) /\ ~Active(u)'
      /\ producer'[t].at = "examine" /\ Active(t)'
      /\ producer'[t].next = producer[t].next /\ producer'[t].packet = producer[t].packet
      /\ Alone'
      /\ \A n : Filled(n)' <=> Filled(n)
      /\ \A i : ~Dropped(i) /\ ~Dropped(i)'
    BY <1>2, TheProducer
<1>4. Numbered' /\ Consuming' /\ MemorySafe' /\ Occupied'
    BY <1>2, <1>3 DEF Numbered, Consuming, MemorySafe, Occupied, Freed, Worked
<1>5. Filling'
    BY <1>2, <1>3 DEF Filling
<1>6. NoLeak'
  <2>1. Held' = Held
      BY <1>2, <1>3 DEF Held, Active
  <2> QED
      BY <1>2, <2>1 DEF NoLeak
<1>7. InTurn'
    BY <1>2, <1>3 DEF InTurn, Sorted
<1> QED
    BY <1>1, <1>3, <1>4, <1>5, <1>6, <1>7

\* A producer that is past the advance of the index has that slot, and no other.
LEMMA SlotOfProducer ==
    ASSUME SendInv, NEW t \in Producer, Active(t), producer[t].at # "advance"
    PROVE  Cursor(t) = {index} /\ index = producer[t].next /\ index \in Slot
<1>1. index = producer[t].next
    BY DEF SendInv, Filling
<1> QED
    BY <1>1, ThreadTypes DEF Cursor, SendInv

LEMMA SendExamine ==
    ASSUME SendInv, NEW t \in Producer, Examine(t)
    PROVE  SendInv'
<1> USE DEF SendInv, history, shared
<1>1. TypeInv'
    BY ProduceType DEF Produce
<1>2. producer[t].at = "examine" /\ Active(t)
    BY DEF Examine, Active
<1>3. Cursor(t) = {index} /\ index = producer[t].next /\ index \in Slot
    BY <1>2, SlotOfProducer
<1>4. PICK place \in {"drop", "store"} :
          /\ place = IF slot[index] # Null THEN "drop" ELSE "store"
          /\ Goto(t, place)
    BY <1>3 DEF Examine
<1>5. UNCHANGED <<slot, index, live, made, consumer, faults, stored, handled>>
    BY DEF Examine
<1>6. /\ \A u \in Producer : u # t => ~Active(u) /\ ~Active(u)'
      /\ producer'[t].at = place /\ Active(t)'
      /\ producer'[t].next = producer[t].next /\ producer'[t].packet = producer[t].packet
      /\ Alone'
      /\ \A n : Filled(n)' <=> Filled(n)
      /\ \A i : ~Dropped(i)
    BY <1>2, <1>4, TheProducer
<1>7. Numbered' /\ Consuming' /\ MemorySafe'
    BY <1>5 DEF Numbered, Consuming, MemorySafe
<1>8. Occupied'
    BY <1>5, <1>6 DEF Occupied, Freed, Worked
<1>9. Filling'
    BY <1>2, <1>3, <1>4, <1>5, <1>6 DEF Filling
<1>10. NoLeak'
  <2>1. Held' = Held
      BY <1>2, <1>5, <1>6 DEF Held, Active
  <2> QED
      BY <1>5, <2>1 DEF NoLeak
<1>11. InTurn'
    BY <1>5, <1>6 DEF InTurn, Sorted
<1> QED
    BY <1>1, <1>6, <1>7, <1>8, <1>9, <1>10, <1>11

\* What Drop frees is the packet of its slot, which nobody works on.
LEMMA DropIs ==
    ASSUME SendInv, NEW t \in Producer, Drop(t)
    PROVE  /\ producer[t].at = "drop" /\ Active(t) /\ index = producer[t].next /\ index \in Slot
           /\ slot[index] # Null /\ slot[index] \in live /\ slot[index] \in ToSet(stored)
           /\ live' = live \ {slot[index]} /\ Goto(t, "store")
           /\ UNCHANGED <<slot, index, made, consumer, faults, stored, handled>>
<1> USE DEF SendInv, history
<1>1. producer[t].at = "drop" /\ Active(t) /\ Goto(t, "store")
    BY DEF Drop, Active
<1>2. Cursor(t) = {index} /\ index = producer[t].next /\ index \in Slot
    BY <1>1, SlotOfProducer
<1>3. slot[index] # Null /\ ~Freed(index)
    BY <1>1, <1>2 DEF Filling, Freed
<1>4. ~Dropped(index)
    BY <1>1, TheProducer
<1>5. slot[index] \in live /\ slot[index] \in ToSet(stored)
    BY <1>2, <1>3, <1>4 DEF Occupied
<1>6. Free(slot[index])
    BY <1>2 DEF Drop
<1> QED
    BY <1>1, <1>2, <1>3, <1>5, <1>6 DEF Free, Drop

LEMMA SendDrop ==
    ASSUME SendInv, NEW t \in Producer, Drop(t)
    PROVE  SendInv'
<1> USE DEF SendInv
<1>1. TypeInv'
    BY ProduceType DEF Produce
<1>2. /\ producer[t].at = "drop" /\ Active(t) /\ index = producer[t].next /\ index \in Slot
      /\ slot[index] # Null /\ slot[index] \in live /\ slot[index] \in ToSet(stored)
      /\ live' = live \ {slot[index]} /\ Goto(t, "store")
      /\ UNCHANGED <<slot, index, made, consumer, faults, stored, handled>>
    BY DropIs
<1>3. /\ \A u \in Producer : u # t => ~Active(u) /\ ~Active(u)'
      /\ producer'[t].at = "store" /\ Active(t)'
      /\ producer'[t].next = producer[t].next /\ producer'[t].packet = producer[t].packet
      /\ Alone'
      /\ \A n : Filled(n)' <=> Filled(n)
      /\ \A i : ~Dropped(i) /\ (Dropped(i)' <=> i = index)
    BY <1>2, TheProducer
<1>4. Numbered' /\ Consuming' /\ MemorySafe'
    BY <1>2 DEF Numbered, Consuming, MemorySafe
<1>5. Occupied'
  <2>1. \A i \in Slot : slot[i] = slot[index] => i = index
      BY <1>2 DEF Occupied
  <2> QED
      BY <1>2, <1>3, <2>1 DEF Occupied, Freed, Worked
<1>6. Filling'
    BY <1>2, <1>3 DEF Filling
<1>7. NoLeak'
  <2>1. Held' = Held
      BY <1>2, <1>3 DEF Held, Active
  <2> QED
      BY <1>2, <2>1 DEF NoLeak
<1>8. InTurn'
    BY <1>2, <1>3 DEF InTurn, Sorted
<1> QED
    BY <1>1, <1>3, <1>4, <1>5, <1>6, <1>7, <1>8

\* One slot further round the ring.
LEMMA AheadNext ==
    ASSUME NEW n \in Slot, NEW i \in Slot
    PROVE  /\ (n + 1) % Size \in Slot
           /\ Ahead((n + 1) % Size, i) = IF i = n THEN Size - 1 ELSE Ahead(n, i) - 1
           /\ Ahead(n, i) \in Slot /\ Ahead(n, n) = 0 /\ (Ahead(n, i) = 0 => i = n)
<1>1. n \in Nat /\ i \in Nat /\ n < Size /\ i < Size /\ Size \in Nat
    BY SizeAssumption DEF Slot
<1>2. (n + 1) % Size = IF n + 1 = Size THEN 0 ELSE n + 1
    BY <1>1, SizeAssumption
<1> QED
    BY <1>1, <1>2 DEF Ahead, Slot

LEMMA SendStore ==
    ASSUME SendInv, NEW t \in Producer, Store(t)
    PROVE  SendInv'
<1> USE DEF SendInv
<1> DEFINE p == producer[t].packet
<1>1. TypeInv'
    BY ProduceType DEF Produce
<1>2. producer[t].at = "store" /\ Active(t) /\ Goto(t, "idle")
      /\ UNCHANGED <<index, live, made, consumer, faults, handled>>
    BY DEF Store, Active
<1>3. Cursor(t) = {index} /\ index = producer[t].next /\ index \in Slot
    BY <1>2, SlotOfProducer
<1>4. /\ p \in Packet /\ p \in live \ ToSet(stored) /\ p # Null /\ p \in Nat
      /\ \A q \in ToSet(stored) : q < p
      /\ slot[index] = Null \/ slot[index] \notin live
      /\ consumer.at \in {"process", "busy", "free", "clear"} => index # consumer.i
    BY <1>2, <1>3, ThreadTypes DEF Filling
<1>5. /\ \A u \in Producer : ~Active(u)'
      /\ \A u \in Producer : u # t => ~Active(u)
      /\ Alone'
      /\ Filled(index) /\ \A n : Filled(n)' => n = (index + 1) % Size
      /\ \A i : (Dropped(i) <=> i = index) /\ ~Dropped(i)'
    BY <1>2, <1>3, TheProducer
<1>6. /\ stored \in Seq(Packet) /\ stored' = Append(stored, p)
      /\ ToSet(stored') = ToSet(stored) \cup {p}
    BY <1>4, ToSetAppend, ThreadTypes DEF Store
<1>7. \A i \in Slot : slot'[i] = IF i = index THEN p ELSE slot[i]
    BY <1>3 DEF Store, TypeInv, TypeOK
<1> HIDE DEF p
<1>8. Numbered' /\ MemorySafe' /\ Filling'
    BY <1>2, <1>4, <1>5, <1>6 DEF Numbered, MemorySafe, Filling
<1>9. Consuming'
    BY <1>2, <1>4, <1>7, ThreadTypes DEF Consuming
<1>10. Occupied'
  <2>1. p \notin ToSet(handled) /\ \A i \in Slot : slot[i] # p
      BY <1>4 DEF Numbered, Occupied
  <2>2. ~Worked(index)
      BY <1>4 DEF Worked
  <2> QED
      BY <1>2, <1>4, <1>5, <1>6, <1>7, <2>1, <2>2 DEF Occupied, Freed, Worked
<1>11. NoLeak'
  <2>1. Held = {slot[i] : i \in Slot} \cup {p}
      BY <1>2, <1>5, HeldByOne DEF p
  <2>2. {slot'[i] : i \in Slot} \subseteq Held'
      BY DEF Held
  <2>3. ASSUME NEW q \in live PROVE \E i \in Slot : slot'[i] = q
    <3>1. CASE q = p
        BY <1>3, <1>7, <3>1
    <3>2. CASE q # p
      <4>1. PICK i \in Slot : q = slot[i]
          BY <2>1, <3>2 DEF NoLeak
      <4>2. q # Null
          BY ThreadTypes DEF TypeInv, TypeOK
      <4>3. i # index
          BY <1>4, <4>1, <4>2
      <4> QED
          BY <1>7, <4>1, <4>3
    <3> QED
        BY <3>1, <3>2
  <2> QED
      BY <1>2, <2>2, <2>3 DEF NoLeak
<1>12. InTurn'
  <2> DEFINE n == (index + 1) % Size
  <2>1. n \in Slot /\ Sorted(index)
      BY <1>3, <1>5, AheadNext DEF InTurn
  <2>2. ASSUME NEW i \in Slot, NEW j \in Slot, slot'[i] # Null, slot'[j] # Null,
               Ahead(n, i) < Ahead(n, j)
        PROVE  slot'[i] < slot'[j]
    <3>1. /\ Ahead(n, i) = IF i = index THEN Size - 1 ELSE Ahead(index, i) - 1
          /\ Ahead(n, j) = IF j = index THEN Size - 1 ELSE Ahead(index, j) - 1
          /\ Ahead(index, i) \in Slot /\ Ahead(index, j) \in Slot
        BY <1>3, AheadNext
    <3> HIDE DEF n
    <3>2. i # index
        BY <2>2, <3>1, SizeAssumption DEF Slot
    <3>3. CASE j = index
      <4>1. slot[i] # Null /\ slot'[i] = slot[i] /\ slot'[j] = p
          BY <1>7, <2>2, <3>2, <3>3
      <4> QED
          BY <1>4, <4>1 DEF Occupied
    <3>4. CASE j # index
      <4>1. Ahead(index, i) < Ahead(index, j)
          BY <2>2, <3>1, <3>2, <3>4, SizeAssumption DEF Slot
      <4> QED
          BY <1>7, <2>1, <2>2, <3>2, <3>4, <4>1 DEF Sorted
    <3> QED
        BY <3>3, <3>4
  <2>3. \A m \in Slot : Filled(m)' => Sorted(m)'
      BY <1>5, <2>2 DEF Sorted, Ahead
  <2>4. \A i, j \in DOMAIN stored' : i < j => stored'[i] < stored'[j]
    <3>1. /\ DOMAIN stored = 1 .. Len(stored) /\ Len(stored) \in Nat
          /\ DOMAIN stored' = 1 .. Len(stored) + 1
          /\ stored'[Len(stored) + 1] = p
          /\ \A i \in 1 .. Len(stored) : stored'[i] = stored[i] /\ stored[i] \in ToSet(stored)
      <4>1. /\ DOMAIN stored = 1 .. Len(stored) /\ Len(stored) \in Nat
            /\ stored' \in Seq(Packet) /\ Len(stored') = Len(stored) + 1
            /\ stored'[Len(stored) + 1] = p
            /\ \A i \in 1 .. Len(stored) : stored'[i] = stored[i]
          BY <1>4, <1>6, AppendProperties
      <4> QED
          BY <4>1 DEF ToSet
    <3>2. \A i, j \in DOMAIN stored : i < j => stored[i] < stored[j]
        BY DEF InTurn
    <3>3. ASSUME NEW i \in 1 .. Len(stored) + 1, NEW j \in 1 .. Len(stored) + 1, i < j
          PROVE  stored'[i] < stored'[j]
      <4>1. i \in 1 .. Len(stored) /\ (j \in 1 .. Len(stored) \/ j = Len(stored) + 1)
          BY <3>1, <3>3
      <4> QED
          BY <1>4, <3>1, <3>2, <3>3, <4>1
    <3> QED
        BY <3>1, <3>3
  <2> QED
      BY <2>3, <2>4 DEF InTurn
<1> QED
    BY <1>1, <1>5, <1>8, <1>9, <1>10, <1>11, <1>12

-------------------------------------------------------------------------------
\* The consumer's steps, while the producers stay where they are.
LEMMA ConsumerAlone ==
    ASSUME SendInv, UNCHANGED <<slot, index, live, made, producer, stored>>
    PROVE  /\ Alone' /\ InTurn' /\ NoLeak'
           /\ \A t : Active(t)' <=> Active(t)
           /\ \A i : Dropped(i)' <=> Dropped(i)
BY DEF SendInv, Alone, InTurn, Sorted, Filled, Active, NoLeak, Held, Dropped

\* The packet the consumer works on is live until it frees it.
LEMMA InWork ==
    ASSUME SendInv, consumer.at \in {"process", "busy", "free", "clear"}
    PROVE  /\ consumer.i \in Slot /\ slot[consumer.i] # Null
           /\ slot[consumer.i] \in ToSet(stored)
           /\ consumer.at # "clear" => slot[consumer.i] \in live
           /\ \A i \in Slot : slot[i] = slot[consumer.i] => i = consumer.i
<1> USE DEF SendInv
<1>1. consumer.i \in Slot /\ slot[consumer.i] # Null
    BY ThreadTypes DEF Consuming
<1>2. ~Dropped(consumer.i)
    BY DEF Dropped, Filling, Active
<1> QED
    BY <1>1, <1>2 DEF Occupied, Freed

LEMMA SendTest ==
    ASSUME SendRing, SendInv, Test
    PROVE  SendInv'
<1> USE DEF SendInv, history, shared
<1>1. TypeInv' /\ consumer.i \in Slot
    BY ConsumeType, ThreadTypes DEF Consume
<1>2. /\ UNCHANGED <<slot, index, live, made, producer, faults, stored, handled>>
      /\ consumer.at = "test"
      /\ \A t \in Producer : Active(t) => producer[t].next # consumer.i
    BY DEF Test, SendRing, Active
<1>3. /\ Alone' /\ InTurn' /\ NoLeak'
      /\ \A t : Active(t)' <=> Active(t)
      /\ \A i : Dropped(i)' <=> Dropped(i)
    BY <1>2, ConsumerAlone
<1>4. Numbered' /\ MemorySafe'
    BY <1>2 DEF Numbered, MemorySafe
<1>5. \/ consumer'.at = "process" /\ consumer'.i = consumer.i /\ slot[consumer.i] # Null
      \/ consumer'.at \in {"test", "rest"}
  <2>1. CASE slot[consumer.i] # Null
      BY <2>1, ConsumerAt DEF Test
  <2>2. CASE slot[consumer.i] = Null
      BY <1>1, <2>2, NextSlotType DEF Test
  <2> QED
      BY <2>1, <2>2
<1>6. Consuming' /\ Filling'
    BY <1>2, <1>3, <1>5 DEF Consuming, Filling
<1>7. Occupied'
    BY <1>2, <1>3, <1>5 DEF Occupied, Freed, Worked
<1> QED
    BY <1>1, <1>3, <1>4, <1>6, <1>7

LEMMA SendProcessBegin ==
    ASSUME SendInv, ProcessBegin
    PROVE  SendInv'
<1> USE DEF SendInv, history, shared
<1>1. TypeInv'
    BY ConsumeType DEF Consume
<1>2. /\ consumer.at = "process" /\ consumer'.at = "busy" /\ consumer'.i = consumer.i
      /\ consumer'.packet = slot[consumer.i]
      /\ UNCHANGED <<slot, index, live, made, producer, stored, handled>>
  <2>1. consumer' = [consumer EXCEPT !.at = "busy", !.packet = slot[consumer.i]]
      BY DEF ProcessBegin
  <2>2. consumer \in [at : {"test", "process", "busy", "free", "clear", "rest"},
                      i : Slot, packet : Packet \cup {Null}]
      BY DEF TypeInv, TypeOK
  <2> QED
      BY <2>1, <2>2 DEF ProcessBegin
<1>3. slot[consumer.i] \in live
    BY <1>2, InWork
<1>4. MemorySafe' /\ Numbered'
    BY <1>2, <1>3 DEF ProcessBegin, Touch, MemorySafe, Numbered
<1>5. /\ Alone' /\ InTurn' /\ NoLeak'
      /\ \A t : Active(t)' <=> Active(t)
      /\ \A i : Dropped(i)' <=> Dropped(i)
    BY <1>2, ConsumerAlone
<1>6. Consuming' /\ Filling' /\ Occupied'
    BY <1>2, <1>5 DEF Consuming, Filling, Occupied, Freed, Worked
<1> QED
    BY <1>1, <1>4, <1>5, <1>6

LEMMA SendProcessEnd ==
    ASSUME SendInv, ProcessEnd
    PROVE  SendInv'
<1> USE DEF SendInv, shared
<1> DEFINE p == slot[consumer.i]
<1>1. TypeInv'
    BY ConsumeType DEF Consume
<1>2. /\ consumer.at = "busy" /\ consumer'.at = "free" /\ consumer'.i = consumer.i
      /\ UNCHANGED <<slot, index, live, made, producer, stored>>
    BY ConsumerAt DEF ProcessEnd
<1>3. /\ consumer.i \in Slot /\ consumer.packet = p /\ p # Null /\ p \in live
      /\ p \in ToSet(stored)
      /\ \A i \in Slot : slot[i] = p => i = consumer.i
    BY <1>2, InWork DEF Consuming
<1>4. ToSet(handled') = ToSet(handled) \cup {p}
  <2>1. handled \in Seq(Packet \cup {Null}) /\ p \in Packet \cup {Null}
      BY <1>3 DEF TypeInv, TypeOK
  <2>2. handled' = Append(handled, p)
      BY <1>3 DEF ProcessEnd
  <2> QED
      BY <2>1, <2>2, ToSetAppend
<1> HIDE DEF p
<1>5. MemorySafe' /\ Numbered'
    BY <1>2, <1>3, <1>4 DEF ProcessEnd, Touch, MemorySafe, Numbered
<1>6. /\ Alone' /\ InTurn' /\ NoLeak'
      /\ \A t : Active(t)' <=> Active(t)
      /\ \A i : Dropped(i)' <=> Dropped(i)
    BY <1>2, ConsumerAlone
<1>7. Consuming' /\ Filling'
    BY <1>2, <1>3, <1>6 DEF Consuming, Filling, p
<1>8. Occupied'
  <2>1. \A i \in Slot : Worked(i)' <=> i = consumer.i
      BY <1>2 DEF Worked
  <2>2. \A i \in Slot : ~Worked(i) /\ ~Freed(i) /\ ~Freed(i)'
      BY <1>2 DEF Worked, Freed
  <2>3. \A i \in Slot : slot[i] \in ToSet(handled') <=> slot[i] \in ToSet(handled) \/ slot[i] = p
      BY <1>4
  <2>4. \A i \in Slot : slot[i] = p <=> i = consumer.i
      BY <1>3 DEF p
  <2> QED
      BY <1>2, <1>6, <2>1, <2>2, <2>3, <2>4 DEF Occupied
<1> QED
    BY <1>1, <1>5, <1>6, <1>7, <1>8

LEMMA SendFreeSlot ==
    ASSUME SendInv, FreeSlot
    PROVE  SendInv'
<1> USE DEF SendInv, history
<1> DEFINE p == slot[consumer.i]
<1>1. TypeInv'
    BY ConsumeType DEF Consume
<1>2. /\ consumer.at = "free" /\ consumer'.at = "clear" /\ consumer'.i = consumer.i
      /\ UNCHANGED <<slot, index, made, producer, stored, handled>>
    BY ConsumerAt DEF FreeSlot
<1>3. /\ p # Null /\ p \in live /\ p \in ToSet(stored)
      /\ \A i \in Slot : slot[i] = p => i = consumer.i
    BY <1>2, InWork
<1>4. live' = live \ {p} /\ UNCHANGED faults
    BY <1>3 DEF FreeSlot, Free
<1> HIDE DEF p
<1>5. MemorySafe' /\ NoLeak' /\ Numbered'
    BY <1>2, <1>4 DEF MemorySafe, NoLeak, Held, Numbered
<1>6. Alone' /\ InTurn' /\ (\A t : Active(t)' <=> Active(t)) /\ \A i : Dropped(i)' <=> Dropped(i)
    BY <1>2 DEF Alone, InTurn, Sorted, Filled, Active, Dropped
<1>7. Consuming'
    BY <1>2, <1>4 DEF Consuming, p
<1>8. Filling'
    BY <1>2, <1>3, <1>4, <1>6 DEF Filling
<1>9. Occupied'
    BY <1>2, <1>3, <1>4, <1>6 DEF Occupied, Freed, Worked
<1> QED
    BY <1>1, <1>5, <1>6, <1>7, <1>8, <1>9

LEMMA SendClearSlot ==
    ASSUME SendInv, ClearSlot
    PROVE  SendInv'
<1> USE DEF SendInv, history
<1>1. TypeInv' /\ consumer.i \in Slot
    BY ConsumeType, ThreadTypes DEF Consume
<1>2. /\ consumer.at = "clear" /\ consumer'.at \in {"test", "rest"}
      /\ slot' = [slot EXCEPT ![consumer.i] = Null]
      /\ UNCHANGED <<index, live, made, producer, faults, stored, handled>>
    BY <1>1, NextSlotType DEF ClearSlot
<1>3. \A i \in Slot : slot'[i] = IF i = consumer.i THEN Null ELSE slot[i]
    BY <1>1, <1>2 DEF TypeInv, TypeOK
<1>4. slot[consumer.i] \notin live
    BY <1>2 DEF Consuming
<1>5. Numbered' /\ Consuming' /\ MemorySafe'
    BY <1>2 DEF Numbered, Consuming, MemorySafe
<1>6. Alone' /\ (\A t : Active(t)' <=> Active(t)) /\ \A i : Dropped(i)' <=> Dropped(i)
    BY <1>2 DEF Alone, Active, Dropped
<1>7. InTurn'
  <2>1. \A n : Filled(n)' <=> Filled(n)
      BY <1>2 DEF Filled, Active
  <2>2. \A n \in Slot : Sorted(n) => Sorted(n)'
      BY <1>3 DEF Sorted
  <2> QED
      BY <1>2, <2>1, <2>2 DEF InTurn
<1>8. Filling'
  <2>1. \A t \in Producer : Active(t) /\ producer[t].at # "advance" =>
            index \in Slot /\ index # consumer.i
      BY <1>2, SlotOfProducer DEF Filling
  <2>2. \A t \in Producer : Active(t) /\ producer[t].at # "advance" => slot'[index] = slot[index]
      BY <1>3, <2>1
  <2> QED
      BY <1>2, <1>6, <2>2 DEF Filling
<1>9. Occupied'
    BY <1>2, <1>3, <1>6 DEF Occupied, Freed, Worked
<1>10. NoLeak'
  <2>1. ASSUME NEW q \in live PROVE q \in Held'
    <3>1. q \in Held
        BY DEF NoLeak
    <3>2. CASE \E i \in Slot : q = slot[i]
        BY <1>3, <1>4, <3>2 DEF Held
    <3>3. CASE ~\E i \in Slot : q = slot[i]
        BY <1>2, <3>1, <3>3 DEF Held
    <3> QED
        BY <3>2, <3>3
  <2> QED
      BY <1>2, <2>1 DEF NoLeak
<1> QED
    BY <1>1, <1>5, <1>6, <1>7, <1>8, <1>9, <1>10

LEMMA SendRescan ==
    ASSUME SendInv, Rescan
    PROVE  SendInv'
<1> USE DEF SendInv, history, shared
<1>1. TypeInv'
    BY ConsumeType DEF Consume
<1>2. /\ consumer.at = "rest" /\ consumer'.at = "test"
      /\ UNCHANGED <<slot, index, live, made, producer, faults, stored, handled>>
    BY ConsumerAt DEF Rescan
<1>3. /\ Alone' /\ InTurn' /\ NoLeak'
      /\ \A t : Active(t)' <=> Active(t)
      /\ \A i : Dropped(i)' <=> Dropped(i)
    BY <1>2, ConsumerAlone
<1> QED
    BY <1>1, <1>2, <1>3 DEF Numbered, MemorySafe, Consuming, Filling, Occupied, Freed, Worked

LEMMA SendStep ==
    ASSUME SendRing, SendInv, [Next]_vars
    PROVE  SendInv'
<1>1. CASE UNCHANGED vars
  <2>1. TypeInv'
      BY <1>1, TypeStep DEF SendInv
  <2>2. UNCHANGED <<slot, index, live, made, producer, consumer, faults, stored, handled>>
      BY <1>1 DEF vars, shared, history
  <2>3. /\ Alone' /\ InTurn' /\ NoLeak'
        /\ \A t : Active(t)' <=> Active(t)
        /\ \A i : Dropped(i)' <=> Dropped(i)
      BY <2>2, ConsumerAlone
  <2> QED
      BY <2>1, <2>2, <2>3 DEF SendInv, Numbered, MemorySafe, Consuming, Filling, Occupied,
                              Freed, Worked
<1>2. CASE Consume
    BY <1>2, SendTest, SendProcessBegin, SendProcessEnd, SendFreeSlot, SendClearSlot,
       SendRescan DEF Consume
<1>3. ASSUME NEW t \in Producer, Produce(t) PROVE SendInv'
    BY <1>3, SendAllocate, SendAdvance, SendExamine, SendDrop, SendStore DEF Produce
<1> QED
    BY <1>1, <1>2, <1>3 DEF Next

\* What leaves the memory without having been processed was the oldest that waited.
LEMMA OldestLost ==
    ASSUME SendInv, Next, NEW p \in Waiting \ live', NEW q \in Waiting
    PROVE  ~OlderThan(q, p)
<1> USE DEF SendInv
<1>1. /\ p \in ToSet(stored) /\ p \in live /\ p \notin ToSet(handled) /\ p \notin live'
      /\ q \in ToSet(stored) /\ q \in live /\ q \notin ToSet(handled)
    BY DEF Waiting
<1>2. ~FreeSlot
  <2>1. SUFFICES ASSUME FreeSlot PROVE FALSE
      OBVIOUS
  <2>2. slot[consumer.i] \in live /\ slot[consumer.i] \in ToSet(handled)
    <3>1. consumer.at = "free"
        BY <2>1 DEF FreeSlot
    <3> QED
        BY <3>1, InWork DEF Occupied, Worked
  <2>3. live' = live \ {slot[consumer.i]}
      BY <2>1, <2>2 DEF FreeSlot, Free
  <2> QED
      BY <1>1, <2>2, <2>3
<1>3. PICK t \in Producer : Drop(t)
    BY <1>1, <1>2 DEF Next, Consume, Produce, Allocate, Advance, Examine, Store, Test,
                      ProcessBegin, ProcessEnd, ClearSlot, Rescan, shared
<1>4. /\ producer[t].at = "drop" /\ Active(t) /\ index = producer[t].next /\ index \in Slot
      /\ p = slot[index] /\ p # Null
      /\ \A u \in Producer : u # t => ~Active(u)
  <2>1. \A u \in Producer : u # t => ~Active(u)
      BY <1>3, DropIs DEF Alone
  <2> QED
      BY <1>1, <1>3, <2>1, DropIs
<1>5. PICK i \in Slot : q = slot[i]
  <2>1. q # producer[t].packet
      BY <1>1, <1>4 DEF Filling
  <2>2. Held = {slot[i] : i \in Slot} \cup {producer[t].packet}
      BY <1>4, HeldByOne
  <2> QED
      BY <1>1, <2>1, <2>2 DEF NoLeak
<1>6. p \in Nat /\ q \in Nat /\ q # Null
  <2>1. p \in Packet /\ q \in Packet
      BY <1>1 DEF TypeInv, TypeOK
  <2> QED
      BY <2>1, ThreadTypes
<1>7. p <= q
  <2>1. CASE i = index
      BY <1>4, <1>5, <1>6, <2>1
  <2>2. CASE i # index
    <3>1. Sorted(index)
        BY <1>4 DEF InTurn, Filled
    <3>2. Ahead(index, index) < Ahead(index, i)
      <4>1. Ahead(index, index) = 0 /\ Ahead(index, i) \in Slot /\ Ahead(index, i) # 0
          BY <1>4, <2>2, AheadNext
      <4> QED
          BY <4>1, SizeAssumption DEF Slot
    <3> QED
        BY <1>4, <1>5, <1>6, <3>1, <3>2 DEF Sorted
  <2> QED
      BY <2>1, <2>2
<1>8. \A i1, j1 \in DOMAIN stored : i1 < j1 => stored[i1] < stored[j1]
    BY DEF InTurn
<1> QED
    BY <1>6, <1>7, <1>8 DEF OlderThan

\* With no two threads at one slot the send ring, overrun or not, loses a packet only if
\* it is the oldest that waits (tiny_net.c:202), for every size and any producers.
THEOREM SendRingLosesOldest ==
    ASSUME SendRing
    PROVE  Spec => LosesOldestFirst
<1>1. ASSUME SendInv, [Next]_vars
      PROVE  [\A p \in Waiting \ live' : ~\E q \in Waiting : OlderThan(q, p)]_vars
    BY <1>1, OldestLost
<1>2. /\ Init => SendInv
      /\ SendInv /\ [Next]_vars => SendInv'
      /\ SendInv /\ [Next]_vars =>
             [\A p \in Waiting \ live' : ~\E q \in Waiting : OlderThan(q, p)]_vars
    BY <1>1, SendInit, SendStep
<1> QED
    BY <1>2, PTL DEF Spec, LosesOldestFirst

\* ... and then the drop and the scan never meet on one packet, and every packet is in a
\* slot, in a producer's hands, or freed (tiny_net.c:245, "avoid a memory leak").
THEOREM SendRingSafe ==
    ASSUME SendRing
    PROVE  Spec => [](MemorySafe /\ NoLeak)
<1>1. SendInv => MemorySafe /\ NoLeak
    BY DEF SendInv
<1>2. SendInv /\ [Next]_vars => SendInv'
    BY SendStep
<1> QED
    BY <1>1, <1>2, SendInit, PTL DEF Spec

\* ... and nothing is sent twice or without having been stored, although packets are
\* dropped in between: the overrun ring is still a pool.
THEOREM SendRingIsPool ==
    ASSUME SendRing
    PROVE  Spec => ImplementsPool
<1>1. Init => SendInv /\ Pool!Init
  <2>1. ToSet(<<>>) = {}
      BY DEF ToSet
  <2> QED
      BY <2>1, SendInit DEF Init, Pool!Init
<1>2. SendInv /\ [Next]_vars => SendInv'
    BY SendStep
<1>3. SendInv /\ [Next]_vars => [Pool!Next]_(Pool!vars)
  <2> SUFFICES ASSUME SendInv, [Next]_vars PROVE [Pool!Next]_(Pool!vars)
      OBVIOUS
  <2>1. ASSUME NEW t \in Producer, Store(t)
        PROVE  Pool!Put
    <3> DEFINE p == producer[t].packet
    <3>1. Active(t)
        BY <2>1 DEF Store, Active
    <3>2. p \in Packet /\ p \notin ToSet(stored)
        BY <3>1, ThreadTypes DEF SendInv, Filling
    <3>3. stored \in Seq(Packet) /\ stored' = Append(stored, p) /\ handled' = handled
        BY <2>1, ThreadTypes DEF Store, SendInv
    <3> HIDE DEF p
    <3>4. ToSet(stored') = ToSet(stored) \cup {p}
        BY <3>2, <3>3, ToSetAppend
    <3> QED
        BY <3>2, <3>3, <3>4 DEF Pool!Put
  <2>2. ASSUME ProcessEnd
        PROVE  Pool!Take
    <3> DEFINE p == slot[consumer.i]
    <3>1. consumer.at = "busy" /\ consumer.packet = p
        BY <2>2 DEF ProcessEnd, SendInv, Consuming
    <3>2. p \in ToSet(stored) \ ToSet(handled)
      <4>1. ~Worked(consumer.i) /\ consumer.i \in Slot /\ p # Null /\ p \in ToSet(stored)
          BY <3>1, InWork DEF Worked
      <4> QED
          BY <4>1 DEF SendInv, Occupied
    <3>3. handled' = Append(handled, p) /\ UNCHANGED ToSet(stored)
        BY <2>2, <3>1 DEF ProcessEnd
    <3>4. Pool!Taken = ToSet(handled)
        BY DEF Pool!Taken, ToSet
    <3> HIDE DEF p
    <3> QED
        BY <3>2, <3>3, <3>4 DEF Pool!Take
  <2>3. ASSUME \A t \in Producer : ~Store(t), ~ProcessEnd
        PROVE  UNCHANGED <<stored, handled>>
      BY <2>3 DEF Next, Produce, Consume, Allocate, Advance, Examine, Drop, Test,
                  ProcessBegin, FreeSlot, ClearSlot, Rescan, history, vars
  <2> QED
      BY <2>1, <2>2, <2>3 DEF Pool!Next, Pool!vars
<1> QED
    BY <1>1, <1>2, <1>3, PTL DEF Spec, ImplementsPool, Pool!Spec
===============================================================================
