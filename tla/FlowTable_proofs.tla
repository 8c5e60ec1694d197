-------------------------- MODULE FlowTable_proofs --------------------------
(***************************************************************************)
(* Proofs about FlowTable, for every number of flows, ring size, window,   *)
(* table bound and channel capacity.  The inductive invariant is IInv; the *)
(* ring lemmas reduce (head + i) % Slots to a comparison.                  *)
(***************************************************************************)
EXTENDS FlowTable, TLAPS, FiniteSetTheorems, SequenceTheorems

\* Index arithmetic of a ring: below 2 * Slots the remainder is one subtraction at most.
LEMMA Remainder ==
  ASSUME NEW x \in Nat, x < 2 * Slots
  PROVE  x % Slots = IF x < Slots THEN x ELSE x - Slots
<1>1. CASE x < Slots
  BY <1>1, SizeAssumption
<1>2. CASE x >= Slots
  BY <1>2, SizeAssumption
<1> QED
  BY <1>1, <1>2, SizeAssumption

\* The next slot is a slot.
LEMMA NextSlotType ==
  ASSUME NEW i \in Slot
  PROVE  NextSlot(i) \in Slot /\ NextSlot(i) = IF i = Slots - 1 THEN 0 ELSE i + 1
<1>1. i + 1 \in Nat /\ i + 1 < 2 * Slots
  BY SizeAssumption DEF Slot
<1>2. (i + 1) % Slots = IF i + 1 < Slots THEN i + 1 ELSE i + 1 - Slots
  BY <1>1, Remainder, SizeAssumption DEF Slot
<1> QED
  BY <1>1, <1>2, SizeAssumption DEF NextSlot, Slot

\* The slots of a ring, oldest first, are slots.
LEMMA OrderedSlotType ==
  ASSUME NEW f \in FlowState, NEW i \in 1 .. f.count
  PROVE  /\ OrderedSlot(f, i) \in Slot
         /\ f.count = Slots => OrderedSlot(f, i) = IF f.head + i - 1 < Slots THEN f.head + i - 1
                                                   ELSE f.head + i - 1 - Slots
<1>1. f.head \in Slot /\ f.count \in 0 .. Slots
  BY DEF FlowState
<1>2. f.head + i - 1 \in Nat /\ f.head + i - 1 < 2 * Slots
  BY <1>1, SizeAssumption DEF Slot
<1>3. (f.head + i - 1) % Slots = IF f.head + i - 1 < Slots THEN f.head + i - 1
                                 ELSE f.head + i - 1 - Slots
  BY <1>1, <1>2, Remainder, SizeAssumption DEF Slot
<1> QED
  BY <1>1, <1>2, <1>3, SizeAssumption DEF OrderedSlot, Slot

\* A flow stays a flow when add_packet took a frame.
LEMMA AddPacketType ==
  ASSUME NEW f \in FlowState, NEW pkt \in Packet
  PROVE  AddPacket(f, pkt) \in FlowState
<1> DEFINE stamps == [f.timestamps EXCEPT ![f.head] = pkt.timestamp]
<1>1. /\ f.buffer \in [Slot -> Packet \cup {None}] /\ f.timestamps \in [Slot -> Nat]
      /\ f.head \in Slot /\ f.count \in 0 .. Slots /\ f.oldest_ts \in Nat
  BY DEF FlowState
<1>2. NextSlot(f.head) \in Slot
  BY <1>1, NextSlotType
<1>3. pkt.timestamp \in Nat /\ stamps \in [Slot -> Nat]
  BY <1>1 DEF Packet
<1>4. [f.buffer EXCEPT ![f.head] = pkt] \in [Slot -> Packet \cup {None}]
  BY <1>1
<1>5. (IF f.count < Slots THEN f.count + 1 ELSE f.count) \in 0 .. Slots
  BY <1>1, SizeAssumption
<1>6. (IF f.count = Slots THEN stamps[NextSlot(f.head)]
       ELSE IF f.count = 0 THEN pkt.timestamp ELSE f.oldest_ts) \in Nat
  BY <1>1, <1>2, <1>3
<1> QED
  BY <1>2, <1>3, <1>4, <1>5, <1>6 DEF AddPacket, FlowState

\* Reading the ring from its oldest entry, add_packet appends; when full it first drops the
\* oldest.  Only the slot at the old head is written.
LEMMA OrderAfterAdd ==
  ASSUME NEW f \in FlowState, NEW pkt \in Packet, f.count < Slots => f.head = f.count
  PROVE  LET g == AddPacket(f, pkt) IN
         /\ OrderedSlot(g, g.count) = f.head
         /\ f.count < Slots => \A i \in 1 .. f.count : /\ OrderedSlot(g, i) = OrderedSlot(f, i)
                                                      /\ OrderedSlot(f, i) # f.head
         /\ f.count = Slots => \A i \in 1 .. Slots - 1 : /\ OrderedSlot(g, i) = OrderedSlot(f, i + 1)
                                                        /\ OrderedSlot(f, i + 1) # f.head
<1> DEFINE g == AddPacket(f, pkt)
<1>1. f.head \in Slot /\ f.count \in 0 .. Slots /\ g \in FlowState
  BY AddPacketType DEF FlowState
<1>2. g.head = IF f.head = Slots - 1 THEN 0 ELSE f.head + 1
  BY <1>1, NextSlotType DEF AddPacket
<1>3. g.count = IF f.count < Slots THEN f.count + 1 ELSE f.count
  BY DEF AddPacket
<1>4. \A i \in 1 .. g.count :
        OrderedSlot(g, i) = IF g.count < Slots THEN i - 1
                            ELSE IF g.head + i - 1 < Slots THEN g.head + i - 1
                            ELSE g.head + i - 1 - Slots
  <2> TAKE i \in 1 .. g.count
  <2>1. CASE g.count < Slots
    BY <2>1 DEF OrderedSlot
  <2>2. CASE g.count = Slots
    BY <1>1, <2>2, OrderedSlotType, SizeAssumption
  <2> QED
    BY <1>1, <2>1, <2>2, SizeAssumption DEF FlowState
<1>5. \A i \in 1 .. f.count :
        OrderedSlot(f, i) = IF f.count < Slots THEN i - 1
                            ELSE IF f.head + i - 1 < Slots THEN f.head + i - 1
                            ELSE f.head + i - 1 - Slots
  <2> TAKE i \in 1 .. f.count
  <2>1. CASE f.count < Slots
    BY <2>1 DEF OrderedSlot
  <2>2. CASE f.count = Slots
    BY <1>1, <2>2, OrderedSlotType, SizeAssumption
  <2> QED
    BY <1>1, <2>1, <2>2, SizeAssumption
<1> HIDE DEF g
<1>6. CASE f.count < Slots
  BY <1>1, <1>2, <1>3, <1>4, <1>5, <1>6, SizeAssumption DEF g, Slot
<1>7. CASE f.count = Slots
  BY <1>1, <1>2, <1>3, <1>4, <1>5, <1>7, SizeAssumption DEF g, Slot
<1> QED
  BY <1>1, <1>6, <1>7, SizeAssumption DEF g

\* add_packet keeps a ring's books, whether the ring is new, filling or full.
LEMMA RingAfterAdd ==
  ASSUME NEW f \in FlowState, NEW pkt \in Packet,
         RingOK(f) \/ (f.count = 0 /\ f.head = 0),
         f.count > 0 => f.last_seen_ts <= pkt.timestamp
  PROVE  RingOK(AddPacket(f, pkt))
<1> DEFINE g == AddPacket(f, pkt)
<1>1. /\ f.head \in Slot /\ f.count \in 0 .. Slots /\ pkt.timestamp \in Nat
      /\ f.timestamps \in [Slot -> Nat] /\ f.buffer \in [Slot -> Packet \cup {None}]
      /\ g \in FlowState /\ g.count \in 0 .. Slots
  BY AddPacketType DEF FlowState, Packet
<1>2. f.count < Slots => f.head = f.count
  BY DEF RingOK
<1>3. /\ OrderedSlot(g, g.count) = f.head
      /\ f.count < Slots => \A i \in 1 .. f.count : /\ OrderedSlot(g, i) = OrderedSlot(f, i)
                                                   /\ OrderedSlot(f, i) # f.head
      /\ f.count = Slots => \A i \in 1 .. Slots - 1 : /\ OrderedSlot(g, i) = OrderedSlot(f, i + 1)
                                                     /\ OrderedSlot(f, i + 1) # f.head
  BY <1>2, OrderAfterAdd
<1>4. /\ g.count = IF f.count < Slots THEN f.count + 1 ELSE f.count
      /\ g.head = NextSlot(f.head) /\ g.last_seen_ts = pkt.timestamp
      /\ g.buffer = [f.buffer EXCEPT ![f.head] = pkt]
      /\ g.timestamps = [f.timestamps EXCEPT ![f.head] = pkt.timestamp]
      /\ g.oldest_ts = IF f.count = Slots THEN g.timestamps[NextSlot(f.head)]
                       ELSE IF f.count = 0 THEN pkt.timestamp ELSE f.oldest_ts
  BY DEF AddPacket
<1>5. \A i \in 1 .. f.count : OrderedSlot(f, i) \in Slot
  BY OrderedSlotType
<1>6. \A i \in 1 .. g.count : OrderedSlot(g, i) \in Slot
  BY <1>1, OrderedSlotType
<1> DEFINE Old(i) == IF f.count < Slots THEN OrderedSlot(f, i) ELSE OrderedSlot(f, i + 1)
<1>7. \A i \in 1 .. g.count - 1 :
        /\ (IF f.count < Slots THEN i ELSE i + 1) \in 1 .. f.count
        /\ OrderedSlot(g, i) = Old(i) /\ Old(i) # f.head /\ Old(i) \in Slot
  BY <1>1, <1>3, <1>4, <1>5, SizeAssumption
<1>8. g.count > 0 /\ (g.count < Slots => g.head = g.count)
  BY <1>1, <1>2, <1>4, NextSlotType, SizeAssumption
<1>9. /\ g.buffer[OrderedSlot(g, g.count)] = pkt
      /\ g.timestamps[OrderedSlot(g, g.count)] = pkt.timestamp
  BY <1>1, <1>3, <1>4
<1>10. \A i \in 1 .. g.count - 1 : /\ g.buffer[OrderedSlot(g, i)] = f.buffer[Old(i)]
                                  /\ g.timestamps[OrderedSlot(g, i)] = f.timestamps[Old(i)]
  BY <1>1, <1>4, <1>7
<1>11. f.count = 0 \/ RingOK(f)
  OBVIOUS
<1>12. \A i \in 1 .. g.count - 1 :
         /\ g.buffer[OrderedSlot(g, i)] \in Packet
         /\ g.buffer[OrderedSlot(g, i)].timestamp = g.timestamps[OrderedSlot(g, i)]
         /\ g.timestamps[OrderedSlot(g, i)] <= pkt.timestamp
  <2> TAKE i \in 1 .. g.count - 1
  <2> DEFINE n == IF f.count < Slots THEN i ELSE i + 1
  <2>1. n \in 1 .. f.count /\ Old(i) = OrderedSlot(f, n) /\ f.count > 0
    BY <1>1, <1>7
  <2> HIDE DEF Old, n, g
  <2>2. /\ f.buffer[OrderedSlot(f, n)] \in Packet
        /\ f.buffer[OrderedSlot(f, n)].timestamp = f.timestamps[OrderedSlot(f, n)]
        /\ f.timestamps[OrderedSlot(f, n)] <= f.timestamps[OrderedSlot(f, f.count)]
        /\ f.timestamps[OrderedSlot(f, f.count)] <= pkt.timestamp
        /\ f.timestamps[OrderedSlot(f, n)] \in Nat /\ f.timestamps[OrderedSlot(f, f.count)] \in Nat
    BY <1>1, <1>5, <1>11, <2>1, SizeAssumption DEF RingOK
  <2> QED
    BY <1>1, <1>10, <2>1, <2>2
<1>13. \A i, j \in 1 .. g.count - 1 :
         i <= j => g.timestamps[OrderedSlot(g, i)] <= g.timestamps[OrderedSlot(g, j)]
  <2> SUFFICES ASSUME NEW i \in 1 .. g.count - 1, NEW j \in 1 .. g.count - 1, i <= j
               PROVE  f.timestamps[Old(i)] <= f.timestamps[Old(j)]
    BY <1>10
  <2> DEFINE n(x) == IF f.count < Slots THEN x ELSE x + 1
  <2>1. n(i) \in 1 .. f.count /\ n(j) \in 1 .. f.count /\ n(i) <= n(j) /\ f.count > 0
    BY <1>1, <1>7
  <2>2. Old(i) = OrderedSlot(f, n(i)) /\ Old(j) = OrderedSlot(f, n(j))
    OBVIOUS
  <2> HIDE DEF Old, n, g
  <2> QED
    BY <1>11, <2>1, <2>2 DEF RingOK
<1>14. \A i \in 1 .. g.count : g.timestamps[OrderedSlot(g, i)] \in Nat
  BY <1>1, <1>6 DEF FlowState
<1>15. g.oldest_ts = g.timestamps[OrderedSlot(g, 1)]
  <2>1. CASE f.count = Slots
    <3>1. g.head \in 0 .. Slots - 1 /\ g.count = Slots /\ 1 \in 1 .. g.count
      BY <1>1, <1>4, <2>1, SizeAssumption DEF FlowState, Slot
    <3> HIDE DEF g
    <3>2. OrderedSlot(g, 1) = IF g.head + 1 - 1 < Slots THEN g.head + 1 - 1 ELSE g.head + 1 - 1 - Slots
      BY <1>1, <3>1, OrderedSlotType
    <3>3. OrderedSlot(g, 1) = NextSlot(f.head)
      BY <1>4, <3>1, <3>2, SizeAssumption
    <3> QED
      BY <1>4, <2>1, <3>3
  <2>2. CASE f.count < Slots /\ f.count = 0
    BY <1>1, <1>4, <1>9, <2>2, SizeAssumption
  <2>3. CASE f.count < Slots /\ f.count > 0
    <3>1. 1 \in 1 .. g.count - 1 /\ Old(1) = OrderedSlot(f, 1)
      BY <1>1, <1>4, <2>3
    <3>2. g.timestamps[OrderedSlot(g, 1)] = f.timestamps[OrderedSlot(f, 1)]
      BY <1>10, <3>1
    <3>3. f.oldest_ts = f.timestamps[OrderedSlot(f, 1)]
      BY <1>1, <1>11, <2>3 DEF RingOK
    <3> QED
      BY <1>1, <1>4, <2>3, <3>2, <3>3
  <2> QED
    BY <1>1, <2>1, <2>2, <2>3, SizeAssumption
<1> HIDE DEF g
<1>16. \A i \in 1 .. g.count : i \in 1 .. g.count - 1 \/ i = g.count
  BY <1>1
<1>17. \A i \in 1 .. g.count :
         /\ g.buffer[OrderedSlot(g, i)] \in Packet
         /\ g.buffer[OrderedSlot(g, i)].timestamp = g.timestamps[OrderedSlot(g, i)]
         /\ g.timestamps[OrderedSlot(g, i)] <= pkt.timestamp
  BY <1>1, <1>9, <1>12, <1>16
<1>18. \A i, j \in 1 .. g.count :
         i <= j => g.timestamps[OrderedSlot(g, i)] <= g.timestamps[OrderedSlot(g, j)]
  <2> SUFFICES ASSUME NEW i \in 1 .. g.count, NEW j \in 1 .. g.count, i <= j
               PROVE  g.timestamps[OrderedSlot(g, i)] <= g.timestamps[OrderedSlot(g, j)]
    OBVIOUS
  <2>1. CASE j = g.count
    BY <1>9, <1>17, <2>1
  <2>2. CASE j \in 1 .. g.count - 1
    <3>1. i \in 1 .. g.count - 1
      BY <1>1, <2>2
    <3> QED
      BY <1>13, <2>2, <3>1
  <2> QED
    BY <1>16, <2>1, <2>2
<1> QED
  BY <1>4, <1>8, <1>9, <1>15, <1>17, <1>18 DEF RingOK, g

\* What a ring holds after add_packet: entries it held before, and at the end pkt.
LEMMA EntriesAfterAdd ==
  ASSUME NEW f \in FlowState, NEW pkt \in Packet, f.count < Slots => f.head = f.count
  PROVE  LET g == AddPacket(f, pkt) IN
         /\ g.buffer[OrderedSlot(g, g.count)] = pkt
         /\ \A i \in 1 .. g.count - 1 :
              /\ (IF f.count < Slots THEN i ELSE i + 1) \in 1 .. f.count
              /\ g.buffer[OrderedSlot(g, i)]
                   = f.buffer[OrderedSlot(f, IF f.count < Slots THEN i ELSE i + 1)]
<1> DEFINE g == AddPacket(f, pkt)
<1>1. /\ f.head \in Slot /\ f.count \in 0 .. Slots /\ f.buffer \in [Slot -> Packet \cup {None}]
      /\ \A i \in 1 .. f.count : OrderedSlot(f, i) \in Slot
  BY OrderedSlotType DEF FlowState
<1>2. /\ OrderedSlot(g, g.count) = f.head
      /\ f.count < Slots => \A i \in 1 .. f.count : /\ OrderedSlot(g, i) = OrderedSlot(f, i)
                                                   /\ OrderedSlot(f, i) # f.head
      /\ f.count = Slots => \A i \in 1 .. Slots - 1 : /\ OrderedSlot(g, i) = OrderedSlot(f, i + 1)
                                                     /\ OrderedSlot(f, i + 1) # f.head
  BY OrderAfterAdd
<1>3. /\ g.count = IF f.count < Slots THEN f.count + 1 ELSE f.count
      /\ g.buffer = [f.buffer EXCEPT ![f.head] = pkt]
  BY DEF AddPacket
<1> HIDE DEF g
<1>4. g.buffer[OrderedSlot(g, g.count)] = pkt
  BY <1>1, <1>2, <1>3
<1>5. \A i \in 1 .. g.count - 1 :
        /\ (IF f.count < Slots THEN i ELSE i + 1) \in 1 .. f.count
        /\ g.buffer[OrderedSlot(g, i)]
             = f.buffer[OrderedSlot(f, IF f.count < Slots THEN i ELSE i + 1)]
  <2> TAKE i \in 1 .. g.count - 1
  <2>1. CASE f.count < Slots
    BY <1>1, <1>2, <1>3, <2>1, SizeAssumption
  <2>2. CASE f.count = Slots
    BY <1>1, <1>2, <1>3, <2>2, SizeAssumption
  <2> QED
    BY <1>1, <2>1, <2>2, SizeAssumption
<1> QED
  BY <1>4, <1>5 DEF g

\* The inductive invariant.
IInv == /\ TypeOK /\ IsFiniteSet(DOMAIN table) /\ RingsAgree
        /\ Segregated /\ TableBound /\ QueueInOrder

\* An empty table is sound.
LEMMA InitInv == Init => IInv
<1> SUFFICES ASSUME Init PROVE IInv
  OBVIOUS
<1>1. DOMAIN table = {} /\ Len(queue) = 0 /\ queue \in Seq(Packet) /\ now = 0
  BY DEF Init
<1>2. IsFiniteSet(DOMAIN table) /\ Cardinality(DOMAIN table) = 0
  BY <1>1, FS_EmptySet
<1>3. table = [k \in DOMAIN table |-> table[k]]
  BY DEF Init
<1> QED
  BY <1>1, <1>2, <1>3, SizeAssumption
     DEF IInv, TypeOK, RingsAgree, Segregated, TableBound, QueueInOrder

\* Types of the parts of the state, as the steps below use them.
LEMMA Typed ==
  ASSUME IInv
  PROVE  /\ now \in Nat /\ now <= MaxTime
         /\ queue \in Seq(Packet) /\ Len(queue) <= QueueCap /\ Len(queue) \in Nat
         /\ \A i \in 1 .. Len(queue) : queue[i] \in Packet /\ queue[i].timestamp \in Nat
         /\ \A k \in DOMAIN table : /\ table[k] \in FlowState /\ table[k].last_seen_ts \in Nat
                                   /\ table[k].count \in 0 .. Slots
<1>1. /\ now \in 0 .. MaxTime /\ queue \in Seq(Packet) /\ Len(queue) <= QueueCap
      /\ \A k \in DOMAIN table : table[k] \in FlowState
  BY DEF IInv, TypeOK
<1>2. Len(queue) \in Nat /\ \A i \in 1 .. Len(queue) : queue[i] \in Packet
  BY <1>1
<1>3. \A p \in Packet : p.timestamp \in Nat
  BY DEF Packet
<1>4. \A f \in FlowState : f.last_seen_ts \in Nat /\ f.count \in 0 .. Slots
  BY DEF FlowState
<1> QED
  BY <1>1, <1>2, <1>3, <1>4, SizeAssumption

\* The clock moves on its own.
LEMMA TickInv ==
  ASSUME IInv, Tick
  PROVE  IInv'
<1>1. now \in 0 .. MaxTime /\ now' = now + 1 /\ now' \in 0 .. MaxTime
  BY SizeAssumption DEF IInv, TypeOK, Tick
<1>2. queue' = queue /\ table' = table
  BY DEF Tick
<1>3. TypeOK' /\ IsFiniteSet(DOMAIN table)' /\ RingsAgree' /\ Segregated' /\ TableBound'
  BY <1>1, <1>2 DEF IInv, TypeOK, RingsAgree, Segregated, TableBound
<1>4. QueueInOrder'
  <2>1. /\ \A i \in 1 .. Len(queue) : queue[i].timestamp \in Nat
        /\ \A k \in DOMAIN table : table[k].last_seen_ts \in Nat
    BY Typed
  <2> QED
    BY <1>1, <1>2, <2>1 DEF IInv, QueueInOrder
<1> QED
  BY <1>3, <1>4 DEF IInv

\* The capture thread only adds to the channel, in the order of its timestamps.
LEMMA CaptureInv ==
  ASSUME IInv, NEW d \in Data, Capture(d)
  PROVE  IInv'
<1>1. /\ now \in Nat /\ queue \in Seq(Packet) /\ Len(queue) <= QueueCap /\ Len(queue) \in Nat
      /\ \A i \in 1 .. Len(queue) : queue[i] \in Packet /\ queue[i].timestamp \in Nat
      /\ \A k \in DOMAIN table : table[k].last_seen_ts \in Nat
  BY Typed
<1>2. now' = now /\ table' = table
  BY DEF Capture
<1>3. CASE queue' = queue
  BY <1>2, <1>3 DEF IInv, TypeOK, RingsAgree, Segregated, TableBound, QueueInOrder
<1>4. CASE Len(queue) < QueueCap
  <2> DEFINE m == [timestamp |-> now, data |-> d]
  <2>1. m \in Packet /\ m.timestamp = now
    BY <1>1 DEF Packet
  <2>2. queue' = Append(queue, m)
    BY <1>4 DEF Capture
  <2> HIDE DEF m
  <2>3. /\ queue' \in Seq(Packet) /\ Len(queue') = Len(queue) + 1
        /\ \A i \in 1 .. Len(queue') :
             queue'[i] = IF i <= Len(queue) THEN queue[i] ELSE m
    BY <1>1, <2>1, <2>2
  <2>4. Len(queue') <= QueueCap
    BY <1>1, <1>4, <2>3, SizeAssumption
  <2>5. TypeOK' /\ IsFiniteSet(DOMAIN table)' /\ RingsAgree' /\ Segregated' /\ TableBound'
    BY <1>2, <2>3, <2>4 DEF IInv, TypeOK, RingsAgree, Segregated, TableBound
  <2>6. /\ \A i \in 1 .. Len(queue') : queue'[i].timestamp <= now
        /\ \A i \in 1 .. Len(queue') : i > Len(queue) => queue'[i].timestamp = now
    BY <1>1, <2>1, <2>3 DEF IInv, QueueInOrder
  <2>7. \A i, j \in 1 .. Len(queue') : i <= j => queue'[i].timestamp <= queue'[j].timestamp
    BY <1>1, <2>1, <2>3, <2>6 DEF IInv, QueueInOrder
  <2>8. \A k \in DOMAIN table, i \in 1 .. Len(queue') : table[k].last_seen_ts <= queue'[i].timestamp
    BY <1>1, <2>1, <2>3 DEF IInv, QueueInOrder
  <2> QED
    BY <1>2, <2>5, <2>6, <2>7, <2>8 DEF IInv, QueueInOrder
<1> QED
  BY <1>3, <1>4 DEF Capture

\* Taking the head off a channel in order of time leaves it so.
LEMMA TailOfQueue ==
  ASSUME IInv, queue # <<>>
  PROVE  /\ Head(queue) \in Packet /\ Head(queue).timestamp \in 0 .. now
         /\ Tail(queue) \in Seq(Packet) /\ Len(Tail(queue)) <= QueueCap
         /\ \A i \in 1 .. Len(Tail(queue)) : /\ i + 1 \in 1 .. Len(queue)
                                            /\ Tail(queue)[i] = queue[i + 1]
                                            /\ Head(queue).timestamp <= Tail(queue)[i].timestamp
         /\ \A k \in DOMAIN table : table[k].last_seen_ts <= Head(queue).timestamp
<1>1. /\ queue \in Seq(Packet) /\ Len(queue) <= QueueCap /\ Len(queue) \in Nat \ {0} /\ now \in Nat
      /\ \A i \in 1 .. Len(queue) : queue[i] \in Packet /\ queue[i].timestamp \in Nat
  <2>1. Len(queue) # 0
    BY Typed
  <2> QED
    BY <2>1, Typed
<1>2. /\ Head(queue) = queue[1] /\ Len(Tail(queue)) = Len(queue) - 1
      /\ \A i \in 1 .. Len(queue) - 1 : Tail(queue)[i] = queue[i + 1]
      /\ Tail(queue) \in Seq(Packet)
  BY <1>1
<1> QED
  BY <1>1, <1>2, SizeAssumption DEF IInv, QueueInOrder

\* A frame without a flow key leaves the table alone.
LEMMA SkipUnparsedInv ==
  ASSUME IInv, SkipUnparsed
  PROVE  IInv'
<1>1. queue # <<>> /\ queue' = Tail(queue) /\ now' = now /\ table' = table
  BY DEF SkipUnparsed
<1>2. TypeOK' /\ IsFiniteSet(DOMAIN table)' /\ RingsAgree' /\ Segregated' /\ TableBound'
  BY <1>1, TailOfQueue DEF IInv, TypeOK, RingsAgree, Segregated, TableBound
<1>3. QueueInOrder'
  BY <1>1, TailOfQueue DEF IInv, QueueInOrder
<1> QED
  BY <1>2, <1>3 DEF IInv

\* What process_packet has made room for: the flow of key fits in, and of the others at
\* most one is gone, a least recent one of a full table.
LEMMA RoomForKey ==
  ASSUME IInv, NEW key \in FlowKey, NEW t \in MadeRoom(table, key)
  PROVE  /\ DOMAIN t \subseteq DOMAIN table /\ \A k \in DOMAIN t : t[k] = table[k]
         /\ key \in DOMAIN table => key \in DOMAIN t
         /\ IsFiniteSet(DOMAIN t \cup {key}) /\ Cardinality(DOMAIN t \cup {key}) <= MaxFlows
         /\ \A k \in DOMAIN table \ DOMAIN t : /\ k \in LeastRecent(table)
                                             /\ Cardinality(DOMAIN table) = MaxFlows
<1> DEFINE D == DOMAIN table
<1>1. IsFiniteSet(D) /\ Cardinality(D) \in Nat /\ Cardinality(D) <= MaxFlows
  BY FS_CardinalityType DEF IInv, TableBound
<1>2. CASE key \in D
  <2>1. t = table /\ DOMAIN t \cup {key} = D
    BY <1>2 DEF MadeRoom
  <2> QED
    BY <1>1, <1>2, <2>1
<1>3. CASE key \notin D /\ Cardinality(D) < MaxFlows
  <2>1. t = table
    BY <1>3 DEF MadeRoom
  <2>2. IsFiniteSet(D \cup {key}) /\ Cardinality(D \cup {key}) = Cardinality(D) + 1
    BY <1>1, <1>3, FS_AddElement
  <2> QED
    BY <1>1, <1>3, <2>1, <2>2, SizeAssumption
<1>4. CASE key \notin D /\ ~ (Cardinality(D) < MaxFlows)
  <2>1. PICK v \in LeastRecent(table) : t = Restrict(table, D \ {v})
    BY <1>4 DEF MadeRoom
  <2>2. v \in D /\ DOMAIN t = D \ {v} /\ \A k \in DOMAIN t : t[k] = table[k]
    BY <2>1 DEF LeastRecent, Restrict
  <2>3. IsFiniteSet(D \ {v}) /\ Cardinality(D \ {v}) = Cardinality(D) - 1
    BY <1>1, <2>2, FS_RemoveElement
  <2>4. /\ IsFiniteSet((D \ {v}) \cup {key})
        /\ Cardinality((D \ {v}) \cup {key}) = Cardinality(D \ {v}) + 1
    BY <1>4, <2>3, FS_AddElement
  <2>5. Cardinality(D) = MaxFlows
    BY <1>1, <1>4, SizeAssumption
  <2>6. Cardinality((D \ {v}) \cup {key}) = MaxFlows
    BY <2>3, <2>4, <2>5, SizeAssumption
  <2>7. \A k \in D \ DOMAIN t : k = v
    BY <2>2
  <2> QED
    BY <1>4, <2>2, <2>4, <2>5, <2>6, <2>7, SizeAssumption
<1> QED
  BY <1>2, <1>3, <1>4

\* The flow that takes a packet of key: new and empty, or a tracked one with its books in order.
LEMMA FlowTaken ==
  ASSUME IInv, NEW key \in FlowKey, NEW pkt \in Packet, NEW t \in MadeRoom(table, key),
         \A k \in DOMAIN table : table[k].last_seen_ts <= pkt.timestamp
  PROVE  LET f == FlowOf(t, key, pkt.timestamp) IN
         /\ f \in FlowState /\ (f.count < Slots => f.head = f.count)
         /\ RingOK(f) \/ (f.count = 0 /\ f.head = 0)
         /\ f.count > 0 => key \in DOMAIN table /\ f = table[key]
         /\ key \in DOMAIN table => f = table[key]
<1> DEFINE f == FlowOf(t, key, pkt.timestamp)
<1>1. pkt.timestamp \in Nat /\ 0 \in Slot
  BY SizeAssumption DEF Packet, Slot
<1>2. CASE key \in DOMAIN t
  <2>1. f = table[key] /\ key \in DOMAIN table
    BY <1>2, RoomForKey DEF FlowOf
  <2>2. f \in FlowState /\ RingOK(f)
    BY <2>1, Typed DEF IInv, RingsAgree
  <2> QED
    BY <2>1, <2>2 DEF RingOK
<1>3. CASE key \notin DOMAIN t
  <2>1. f = NewFlow(pkt.timestamp) /\ key \notin DOMAIN table
    BY <1>3, RoomForKey DEF FlowOf
  <2>2. f \in FlowState /\ f.count = 0 /\ f.head = 0
    BY <1>1, <2>1, SizeAssumption DEF NewFlow, FlowState
  <2> QED
    BY <2>1, <2>2
<1> QED
  BY <1>2, <1>3

\* process_packet preserves IInv, whether it knows the flow, makes room for it, or cleans up first.
LEMMA ProcessInv ==
  ASSUME IInv, Process
  PROVE  IInv'
<1> DEFINE pkt == Head(queue)
           key == FlowKeyOf[pkt.data]
<1>1. /\ queue # <<>> /\ key # NoKey /\ queue' = Tail(queue) /\ now' = now
      /\ ProcessPacket(key, pkt)
  BY DEF Process
<1>2. pkt \in Packet /\ pkt.timestamp \in 0 .. now /\ now \in Nat
  BY <1>1, TailOfQueue, Typed
<1>3. key \in FlowKey
  BY <1>1, <1>2, FlowKeyAssumption DEF Packet
<1>4. \A k \in DOMAIN table : table[k].last_seen_ts <= pkt.timestamp
  BY <1>1, TailOfQueue
<1> HIDE DEF pkt, key
<1>5. PICK t \in MadeRoom(table, key) :
        table' = Store(t, key, AddPacket(FlowOf(t, key, pkt.timestamp), pkt))
  BY <1>1 DEF ProcessPacket
<1> DEFINE f == FlowOf(t, key, pkt.timestamp)
           g == AddPacket(f, pkt)
<1>6. /\ f \in FlowState /\ (f.count < Slots => f.head = f.count)
      /\ RingOK(f) \/ (f.count = 0 /\ f.head = 0)
      /\ f.count > 0 => key \in DOMAIN table /\ f = table[key]
  BY <1>2, <1>3, <1>4, FlowTaken
<1>7. f.count > 0 => f.last_seen_ts <= pkt.timestamp
  BY <1>4, <1>6
<1>8. g \in FlowState /\ RingOK(g) /\ g.last_seen_ts = pkt.timestamp
  <2>1. g.last_seen_ts = pkt.timestamp
    BY DEF AddPacket
  <2> QED
    BY <1>2, <1>6, <1>7, <2>1, AddPacketType, RingAfterAdd
<1>9. \A i \in 1 .. g.count : FlowKeyOf[g.buffer[OrderedSlot(g, i)].data] = key
  <2>1. /\ g.buffer[OrderedSlot(g, g.count)] = pkt
        /\ \A i \in 1 .. g.count - 1 :
             /\ (IF f.count < Slots THEN i ELSE i + 1) \in 1 .. f.count
             /\ g.buffer[OrderedSlot(g, i)]
                  = f.buffer[OrderedSlot(f, IF f.count < Slots THEN i ELSE i + 1)]
    BY <1>2, <1>6, EntriesAfterAdd
  <2>2. FlowKeyOf[pkt.data] = key
    BY DEF key
  <2>3. f.count \in 0 .. Slots /\ g.count \in 0 .. Slots
    BY <1>6, <1>8 DEF FlowState
  <2>4. \A n \in 1 .. f.count : FlowKeyOf[f.buffer[OrderedSlot(f, n)].data] = key
    BY <1>6, <2>3, SizeAssumption DEF IInv, Segregated
  <2> HIDE DEF g, f
  <2> TAKE i \in 1 .. g.count
  <2>5. CASE i = g.count
    BY <2>1, <2>2, <2>5
  <2>6. CASE i \in 1 .. g.count - 1
    BY <2>1, <2>4, <2>6
  <2> QED
    BY <2>3, <2>5, <2>6
<1> HIDE DEF g, f
<1>10. /\ DOMAIN t \subseteq DOMAIN table /\ \A k \in DOMAIN t : t[k] = table[k]
       /\ IsFiniteSet(DOMAIN t \cup {key}) /\ Cardinality(DOMAIN t \cup {key}) <= MaxFlows
  BY <1>3, RoomForKey
<1>11. /\ DOMAIN table' = DOMAIN t \cup {key} /\ table' = [k \in DOMAIN table' |-> table'[k]]
       /\ \A k \in DOMAIN table' : table'[k] = IF k = key THEN g ELSE table[k]
       /\ \A k \in DOMAIN table' : k # key => k \in DOMAIN table
  BY <1>5, <1>10 DEF Store, f, g
<1>12. TypeOK'
  BY <1>1, <1>3, <1>8, <1>10, <1>11, TailOfQueue DEF IInv, TypeOK
<1>13. IsFiniteSet(DOMAIN table)' /\ TableBound'
  BY <1>10, <1>11 DEF TableBound
<1>14. RingsAgree' /\ Segregated'
  BY <1>8, <1>9, <1>11 DEF IInv, RingsAgree, Segregated
<1>15. QueueInOrder'
  <2>1. \A k \in DOMAIN table' : /\ table'[k].last_seen_ts <= pkt.timestamp
                               /\ table'[k].last_seen_ts \in Nat
    BY <1>2, <1>4, <1>8, <1>11, Typed
  <2>2. \A i \in 1 .. Len(queue') : /\ i + 1 \in 1 .. Len(queue) /\ queue'[i] = queue[i + 1]
                                  /\ pkt.timestamp <= queue'[i].timestamp
                                  /\ queue'[i].timestamp \in Nat
    BY <1>1, TailOfQueue, Typed DEF pkt
  <2>3. \A k \in DOMAIN table' : table'[k].last_seen_ts <= now
    BY <1>2, <2>1
  <2>4. \A k \in DOMAIN table', i \in 1 .. Len(queue') : table'[k].last_seen_ts <= queue'[i].timestamp
    BY <1>2, <2>1, <2>2
  <2>5. \A i, j \in 1 .. Len(queue') : i <= j => queue'[i].timestamp <= queue'[j].timestamp
    BY <2>2 DEF IInv, QueueInOrder
  <2>6. \A i \in 1 .. Len(queue') : queue'[i].timestamp <= now
    BY <2>2 DEF IInv, QueueInOrder
  <2> QED
    BY <1>1, <2>3, <2>4, <2>5, <2>6 DEF QueueInOrder
<1> QED
  BY <1>12, <1>13, <1>14, <1>15 DEF IInv

\* The cleanup task removes idle flows and nothing else.
LEMMA CleanupInv ==
  ASSUME IInv, Cleanup
  PROVE  IInv'
<1>1. /\ now' = now /\ queue' = queue /\ table' = Restrict(table, Retained)
  BY DEF Cleanup
<1>2. Retained \subseteq DOMAIN table
  BY DEF Retained
<1>3. /\ DOMAIN table' = Retained /\ table' = [k \in DOMAIN table' |-> table'[k]]
      /\ \A k \in DOMAIN table' : k \in DOMAIN table /\ table'[k] = table[k]
  BY <1>1, <1>2 DEF Restrict
<1>4. /\ IsFiniteSet(DOMAIN table) /\ Cardinality(DOMAIN table) <= MaxFlows
      /\ Cardinality(DOMAIN table) \in Nat
  BY FS_CardinalityType DEF IInv, TableBound
<1>5. IsFiniteSet(DOMAIN table') /\ Cardinality(DOMAIN table') <= Cardinality(DOMAIN table)
      /\ Cardinality(DOMAIN table') \in Nat
  BY <1>2, <1>3, <1>4, FS_Subset, FS_CardinalityType
<1>6. IsFiniteSet(DOMAIN table)' /\ TableBound'
  BY <1>4, <1>5, SizeAssumption DEF TableBound
<1>7. TypeOK' /\ RingsAgree' /\ Segregated' /\ QueueInOrder'
  BY <1>1, <1>3 DEF IInv, TypeOK, RingsAgree, Segregated, QueueInOrder
<1> QED
  BY <1>6, <1>7 DEF IInv

\* IInv is inductive.
LEMMA StepInv == IInv /\ [Next]_vars => IInv'
<1> SUFFICES ASSUME IInv, [Next]_vars PROVE IInv'
  OBVIOUS
<1>1. CASE Tick
  BY <1>1, TickInv
<1>2. CASE \E d \in Data : Capture(d)
  BY <1>2, CaptureInv
<1>3. CASE SkipUnparsed
  BY <1>3, SkipUnparsedInv
<1>4. CASE Process
  BY <1>4, ProcessInv
<1>5. CASE Cleanup
  BY <1>5, CleanupInv
<1>6. CASE UNCHANGED vars
  BY <1>6 DEF vars, IInv, TypeOK, RingsAgree, Segregated, TableBound, QueueInOrder
<1> QED
  BY <1>1, <1>2, <1>3, <1>4, <1>5, <1>6 DEF Next

\* IInv is an invariant.
LEMMA Invariance == Spec => []IInv
<1>1. Init => IInv
  BY InitInv
<1>2. IInv /\ [Next]_vars => IInv'
  BY StepInv
<1> QED
  BY <1>1, <1>2, PTL DEF Spec

\* A burst report says the truth when it is made: it comes from a full ring whose books agree.
LEMMA ReportSound ==
  ASSUME IInv, Process
  PROVE  BurstSound'
<1> DEFINE pkt == Head(queue)
           key == FlowKeyOf[pkt.data]
<1>1. queue # <<>> /\ key # NoKey /\ ProcessPacket(key, pkt)
  BY DEF Process
<1>2. /\ pkt \in Packet /\ pkt.timestamp \in Nat
      /\ \A k \in DOMAIN table : table[k].last_seen_ts <= pkt.timestamp
  BY <1>1, TailOfQueue, Typed
<1>3. key \in FlowKey
  BY <1>1, <1>2, FlowKeyAssumption DEF Packet
<1> HIDE DEF pkt, key
<1>4. PICK t \in MadeRoom(table, key) :
        burst' = IF BurstDetected(FlowOf(t, key, pkt.timestamp), pkt)
                 THEN [key |-> key, at |-> pkt.timestamp,
                       packets |-> GetOrderedPackets(FlowOf(t, key, pkt.timestamp))]
                 ELSE None
  BY <1>1 DEF ProcessPacket
<1> DEFINE f == FlowOf(t, key, pkt.timestamp)
<1>5. f \in FlowState /\ (f.count > 0 => key \in DOMAIN table /\ f = table[key])
  BY <1>2, <1>3, FlowTaken
<1> HIDE DEF f
<1> SUFFICES ASSUME burst' # None PROVE BurstSound'
  BY DEF BurstSound
<1>6. f.count = Slots /\ Elapsed(pkt.timestamp, f.oldest_ts) < Window
  BY <1>4 DEF BurstDetected, f
<1>7. burst' = [key |-> key, at |-> pkt.timestamp, packets |-> GetOrderedPackets(f)]
  BY <1>4 DEF f
<1>8. f = table[key] /\ key \in DOMAIN table /\ RingOK(f) /\ f.last_seen_ts <= pkt.timestamp
  BY <1>2, <1>5, <1>6, SizeAssumption DEF IInv, RingsAgree
<1>9. /\ Len(burst'.packets) = Slots
      /\ \A i \in 1 .. Slots : burst'.packets[i] = f.buffer[OrderedSlot(f, i)]
  BY <1>6, <1>7, SizeAssumption DEF GetOrderedPackets
<1>10. \A i \in 1 .. Slots : OrderedSlot(f, i) \in Slot /\ f.timestamps[OrderedSlot(f, i)] \in Nat
  BY <1>5, <1>6, OrderedSlotType DEF FlowState
<1>11. /\ f.oldest_ts \in Nat /\ f.last_seen_ts \in Nat /\ f.oldest_ts = f.timestamps[OrderedSlot(f, 1)]
       /\ f.last_seen_ts = f.timestamps[OrderedSlot(f, Slots)]
  BY <1>5, <1>6, <1>8 DEF RingOK, FlowState
<1>12. \A i, j \in 1 .. Slots : i <= j => burst'.packets[i].timestamp <= burst'.packets[j].timestamp
  BY <1>6, <1>8, <1>9 DEF RingOK
<1>13. \A i \in 1 .. Slots : /\ burst'.packets[i].timestamp \in Nat
                          /\ f.oldest_ts <= burst'.packets[i].timestamp
                          /\ burst'.packets[i].timestamp <= f.last_seen_ts
  BY <1>6, <1>8, <1>9, <1>10, <1>11, SizeAssumption DEF RingOK
<1>14. pkt.timestamp - f.oldest_ts < Window
  BY <1>2, <1>6, <1>8, <1>11, <1>13, SizeAssumption DEF Elapsed
<1>15. \A i \in 1 .. Slots : FlowKeyOf[burst'.packets[i].data] = key
  BY <1>6, <1>8, <1>9 DEF IInv, Segregated
<1>16. burst'.key = key /\ burst'.at = pkt.timestamp
  BY <1>7
<1>17. \A i \in 1 .. Slots : /\ burst'.packets[i].timestamp <= pkt.timestamp
                          /\ pkt.timestamp - burst'.packets[i].timestamp < Window
  BY <1>2, <1>8, <1>11, <1>13, <1>14, SizeAssumption
<1> QED
  BY <1>9, <1>12, <1>15, <1>16, <1>17 DEF BurstSound

----------------------------------------------------------------------------
(* Theorems of the specification.                                          *)

\* The state keeps its types, for every capacity: no index leaves the ring's array.
THEOREM TypeCorrect == Spec => []TypeOK
<1>1. IInv => TypeOK
  BY DEF IInv
<1> QED
  BY <1>1, Invariance, PTL

\* A flow's ring keeps its books, however often it wraps (add_packet).
THEOREM RingsCorrect == Spec => []RingsAgree
<1>1. IInv => RingsAgree
  BY DEF IInv
<1> QED
  BY <1>1, Invariance, PTL

\* A ring holds packets of its own flow only (process_packet).
THEOREM FlowsSegregated == Spec => []Segregated
<1>1. IInv => Segregated
  BY DEF IInv
<1> QED
  BY <1>1, Invariance, PTL

\* The table never holds more than max_flows flows (process_packet).
THEOREM TableBounded == Spec => []TableBound
<1>1. IInv => TableBound
  BY DEF IInv
<1> QED
  BY <1>1, Invariance, PTL

\* What waits in the channel is in order of time and not older than what is filed.
THEOREM QueueOrdered == Spec => []QueueInOrder
<1>1. IInv => QueueInOrder
  BY DEF IInv
<1> QED
  BY <1>1, Invariance, PTL

\* Every burst report is a full ring of one flow's packets within Window (add_packet).
THEOREM BurstsAreSound == Spec => []BurstSound
<1>1. Init => BurstSound
  BY DEF Init, BurstSound
<1>2. IInv /\ BurstSound /\ [Next]_vars => BurstSound'
  <2> SUFFICES ASSUME IInv, BurstSound, [Next]_vars PROVE BurstSound'
    OBVIOUS
  <2>1. CASE Process
    BY <2>1, ReportSound
  <2>2. CASE Tick \/ (\E d \in Data : Capture(d)) \/ SkipUnparsed \/ Cleanup
    BY <2>2 DEF Tick, Capture, SkipUnparsed, Cleanup, BurstSound
  <2>3. CASE UNCHANGED vars
    BY <2>3 DEF vars, BurstSound
  <2> QED
    BY <2>1, <2>2, <2>3 DEF Next
<1> QED
  BY <1>1, <1>2, Invariance, PTL DEF Spec

\* Neither eviction nor cleanup drops a flow that is neither idle nor least recent in a
\* full table.
THEOREM KeepsRecentFlows == Spec => LosesOnlyIdleOrLeastRecent
<1> DEFINE Excused(k) ==
      \/ now - table[k].last_seen_ts > Window
      \/ Cardinality({j \in DOMAIN table : table[j].last_seen_ts >= table[k].last_seen_ts}) = MaxFlows
<1>1. IInv /\ [Next]_vars => [\A k \in DOMAIN table \ DOMAIN table' : Excused(k)]_vars
  <2> SUFFICES ASSUME IInv, Next, NEW k \in DOMAIN table \ DOMAIN table' PROVE Excused(k)
    OBVIOUS
  <2>1. CASE Process
    <3> DEFINE key == FlowKeyOf[Head(queue).data]
    <3>1. queue # <<>> /\ key # NoKey /\ ProcessPacket(key, Head(queue))
      BY <2>1 DEF Process
    <3>2. key \in FlowKey
      BY <3>1, TailOfQueue, FlowKeyAssumption DEF Packet
    <3> HIDE DEF key
    <3>3. PICK t \in MadeRoom(table, key) : DOMAIN table' = DOMAIN t \cup {key}
      BY <3>1 DEF ProcessPacket, Store
    <3>4. k \in LeastRecent(table) /\ Cardinality(DOMAIN table) = MaxFlows
      BY <3>2, <3>3, RoomForKey
    <3>5. {j \in DOMAIN table : table[j].last_seen_ts >= table[k].last_seen_ts} = DOMAIN table
      BY <3>4, Typed DEF LeastRecent
    <3> QED
      BY <3>4, <3>5
  <2>2. CASE Cleanup
    <3>1. DOMAIN table' = Retained
      BY <2>2 DEF Cleanup, Restrict
    <3>2. ~ (Elapsed(now, table[k].last_seen_ts) <= Window)
      BY <3>1 DEF Retained
    <3> QED
      BY <3>2, Typed, SizeAssumption DEF Elapsed
  <2>3. CASE Tick \/ (\E d \in Data : Capture(d)) \/ SkipUnparsed
    BY <2>3 DEF Tick, Capture, SkipUnparsed
  <2> QED
    BY <2>1, <2>2, <2>3 DEF Next
<1> QED
  BY <1>1, Invariance, PTL DEF Spec, LosesOnlyIdleOrLeastRecent

----------------------------------------------------------------------------
(* FlowTable implements FlowWindow.                                        *)

\* Both modules count with the same function.
LEMMA SameCardinality == \A S : Abstract!Cardinality(S) = Cardinality(S)
  BY DEF Cardinality, Abstract!Cardinality

\* The ring read from its oldest entry is a sequence, and add_packet is a push on it.
LEMMA PushedAfterAdd ==
  ASSUME NEW f \in FlowState, NEW pkt \in Packet, RingOK(f) \/ (f.count = 0 /\ f.head = 0)
  PROVE  /\ GetOrderedPackets(f) \in Seq(Packet) /\ Len(GetOrderedPackets(f)) = f.count
         /\ GetOrderedPackets(AddPacket(f, pkt)) = Abstract!Pushed(GetOrderedPackets(f), pkt)
<1> DEFINE s == GetOrderedPackets(f)
           g == AddPacket(f, pkt)
           r == GetOrderedPackets(g)
<1>1. /\ f.count \in 0 .. Slots /\ (f.count < Slots => f.head = f.count)
      /\ g.count = IF f.count < Slots THEN f.count + 1 ELSE f.count
  BY DEF RingOK, FlowState, AddPacket
<1>2. \A i \in 1 .. f.count : f.buffer[OrderedSlot(f, i)] \in Packet
  BY <1>1 DEF RingOK
<1>3. /\ s \in Seq(Packet) /\ Len(s) = f.count
      /\ \A i \in 1 .. f.count : s[i] = f.buffer[OrderedSlot(f, i)]
  BY <1>1, <1>2, SizeAssumption DEF GetOrderedPackets
<1>4. /\ g.buffer[OrderedSlot(g, g.count)] = pkt
      /\ \A i \in 1 .. g.count - 1 :
           /\ (IF f.count < Slots THEN i ELSE i + 1) \in 1 .. f.count
           /\ g.buffer[OrderedSlot(g, i)]
                = f.buffer[OrderedSlot(f, IF f.count < Slots THEN i ELSE i + 1)]
  BY <1>1, EntriesAfterAdd
<1> HIDE DEF g, s
<1>5. /\ r \in Seq(Packet) /\ Len(r) = g.count
      /\ \A i \in 1 .. g.count :
           r[i] = IF i = g.count THEN pkt ELSE s[IF f.count < Slots THEN i ELSE i + 1]
  <2>1. \A i \in 1 .. g.count :
          /\ g.buffer[OrderedSlot(g, i)] = IF i = g.count THEN pkt
                                           ELSE s[IF f.count < Slots THEN i ELSE i + 1]
          /\ g.buffer[OrderedSlot(g, i)] \in Packet
    <3> TAKE i \in 1 .. g.count
    <3>1. CASE i = g.count
      BY <1>4, <3>1
    <3>2. CASE i \in 1 .. g.count - 1
      BY <1>1, <1>2, <1>3, <1>4, <3>2
    <3> QED
      BY <1>1, <3>1, <3>2
  <2> QED
    BY <1>1, <2>1 DEF GetOrderedPackets
<1> HIDE DEF r
<1>6. CASE f.count < Slots
  <2>1. /\ Append(s, pkt) \in Seq(Packet) /\ Len(Append(s, pkt)) = g.count
        /\ \A i \in 1 .. g.count : Append(s, pkt)[i] = IF i = g.count THEN pkt ELSE s[i]
    BY <1>1, <1>3, <1>6, AppendProperties
  <2>2. r = Append(s, pkt)
    <3>1. Len(r) = Len(Append(s, pkt)) /\ \A i \in 1 .. Len(r) : r[i] = Append(s, pkt)[i]
      BY <1>1, <1>5, <1>6, <2>1
    <3> QED
      BY <1>5, <2>1, <3>1, SeqEqual
  <2> QED
    BY <1>3, <1>6, <2>2 DEF Abstract!Pushed, g, r, s
<1>7. CASE f.count = Slots
  <2>1. /\ Tail(s) \in Seq(Packet) /\ Len(Tail(s)) = Slots - 1
        /\ \A i \in 1 .. Slots - 1 : Tail(s)[i] = s[i + 1]
    BY <1>3, <1>7, SizeAssumption
  <2> DEFINE u == Tail(s)
  <2> HIDE DEF u
  <2>2. /\ Append(u, pkt) \in Seq(Packet) /\ Len(Append(u, pkt)) = Slots
        /\ \A i \in 1 .. Slots : Append(u, pkt)[i] = IF i = Slots THEN pkt ELSE s[i + 1]
    BY <2>1, AppendProperties, SizeAssumption DEF u
  <2>3. r = Append(u, pkt)
    BY <1>1, <1>5, <1>7, <2>2, SeqEqual, SizeAssumption
  <2> QED
    BY <1>3, <1>7, <2>3, SizeAssumption DEF Abstract!Pushed, g, r, s, u
<1> QED
  BY <1>1, <1>3, <1>6, <1>7, SizeAssumption DEF g, r, s

\* last_seen_ts is the time of the last packet of the abstract window.
LEMMA LastSeenMapped ==
  ASSUME IInv
  PROVE  /\ DOMAIN recent = DOMAIN table
         /\ \A k \in DOMAIN table : /\ recent[k] = GetOrderedPackets(table[k])
                                   /\ Abstract!LastSeen(recent, k) = table[k].last_seen_ts
<1>1. DOMAIN recent = DOMAIN table /\ \A k \in DOMAIN table : recent[k] = GetOrderedPackets(table[k])
  BY DEF recent
<1>2. ASSUME NEW k \in DOMAIN table
      PROVE  Abstract!LastSeen(recent, k) = table[k].last_seen_ts
  <2> DEFINE f == table[k]
             s == GetOrderedPackets(f)
  <2>1. f \in FlowState /\ RingOK(f)
    BY <1>2, Typed DEF IInv, RingsAgree
  <2>2. f.count \in 0 .. Slots /\ f.count > 0
    BY <2>1 DEF RingOK, FlowState
  <2> HIDE DEF f
  <2>3. Len(s) = f.count /\ s[f.count] = f.buffer[OrderedSlot(f, f.count)]
    BY <2>2 DEF GetOrderedPackets
  <2>4. s[Len(s)].timestamp = f.last_seen_ts
    BY <2>1, <2>2, <2>3 DEF RingOK
  <2> QED
    BY <1>1, <1>2, <2>4 DEF Abstract!LastSeen, f
<1> QED
  BY <1>1, <1>2

\* Processing a frame is an observation of the abstract window.
LEMMA ProcessMapped ==
  ASSUME IInv, Process
  PROVE  Abstract!ObserveAny
<1> DEFINE pkt == Head(queue)
           key == FlowKeyOf[pkt.data]
<1>1. queue # <<>> /\ key # NoKey /\ now' = now /\ ProcessPacket(key, pkt)
  BY DEF Process
<1>2. /\ pkt \in Packet /\ pkt.timestamp \in 0 .. now /\ pkt.data \in Data
      /\ pkt = [timestamp |-> pkt.timestamp, data |-> pkt.data]
      /\ \A k \in DOMAIN table : table[k].last_seen_ts <= pkt.timestamp
  BY <1>1, TailOfQueue DEF Packet
<1>3. key \in FlowKey
  BY <1>1, <1>2, FlowKeyAssumption
<1> HIDE DEF pkt
<1> SUFFICES Abstract!Observe(key, pkt)
  BY <1>1, <1>2, Zenon DEF Abstract!ObserveAny
<1> HIDE DEF key
<1>4. PICK t \in MadeRoom(table, key) :
        /\ table' = Store(t, key, AddPacket(FlowOf(t, key, pkt.timestamp), pkt))
        /\ burst' = IF BurstDetected(FlowOf(t, key, pkt.timestamp), pkt)
                    THEN [key |-> key, at |-> pkt.timestamp,
                          packets |-> GetOrderedPackets(FlowOf(t, key, pkt.timestamp))]
                    ELSE None
  BY <1>1 DEF ProcessPacket
<1> DEFINE f == FlowOf(t, key, pkt.timestamp)
           kept == DOMAIN t
<1>5. /\ f \in FlowState /\ (RingOK(f) \/ (f.count = 0 /\ f.head = 0))
      /\ f.count > 0 => key \in DOMAIN table /\ f = table[key]
      /\ key \in DOMAIN table => f = table[key]
  BY <1>2, <1>3, <1>4, FlowTaken
<1>6. /\ kept \subseteq DOMAIN table /\ \A k \in kept : t[k] = table[k]
  BY <1>3, RoomForKey
<1> HIDE DEF f
<1>7. GetOrderedPackets(f) = Abstract!Known(key)
  <2>1. CASE key \in DOMAIN table
    BY <1>5, <2>1, LastSeenMapped DEF Abstract!Known
  <2>2. CASE key \notin DOMAIN table
    <3>1. f.count = 0
      BY <1>5, <2>2, SizeAssumption DEF FlowState
    <3>2. GetOrderedPackets(f) = <<>>
      BY <1>2, <1>5, <3>1, PushedAfterAdd
    <3> QED
      BY <2>2, <3>2, LastSeenMapped DEF Abstract!Known
  <2> QED
    BY <2>1, <2>2
<1>8. kept \in Abstract!Kept(key)
  <2>1. CASE key \in DOMAIN table \/ Cardinality(DOMAIN table) < MaxFlows
    BY <2>1, LastSeenMapped, SameCardinality DEF MadeRoom, Abstract!Kept
  <2>2. CASE ~ (key \in DOMAIN table \/ Cardinality(DOMAIN table) < MaxFlows)
    <3>1. PICK v \in LeastRecent(table) : t = Restrict(table, DOMAIN table \ {v})
      BY <2>2 DEF MadeRoom
    <3>2. kept = DOMAIN recent \ {v} /\ v \in DOMAIN recent
      BY <3>1, LastSeenMapped DEF Restrict, LeastRecent
    <3>3. \A j \in DOMAIN recent : Abstract!LastSeen(recent, v) <= Abstract!LastSeen(recent, j)
      BY <3>1, LastSeenMapped DEF LeastRecent
    <3>4. Abstract!Kept(key) = {DOMAIN recent \ {w} : w \in {x \in DOMAIN recent :
             \A j \in DOMAIN recent : Abstract!LastSeen(recent, x) <= Abstract!LastSeen(recent, j)}}
      BY <2>2, LastSeenMapped, SameCardinality DEF Abstract!Kept
    <3> QED
      BY <3>2, <3>3, <3>4
  <2> QED
    BY <2>1, <2>2
<1>9. GetOrderedPackets(AddPacket(f, pkt)) = Abstract!Pushed(Abstract!Known(key), pkt)
  BY <1>2, <1>5, <1>7, PushedAfterAdd
<1>10. recent' = [k \in kept \cup {key} |-> IF k = key THEN Abstract!Pushed(Abstract!Known(key), pkt)
                                             ELSE recent[k]]
  <2>1. DOMAIN table' = kept \cup {key}
    BY <1>4 DEF Store
  <2>2. \A k \in DOMAIN table' :
          GetOrderedPackets(table'[k]) = IF k = key THEN Abstract!Pushed(Abstract!Known(key), pkt)
                                         ELSE recent[k]
    BY <1>4, <1>6, <1>9, <2>1, LastSeenMapped DEF Store, f
  <2>3. recent' = [k \in DOMAIN table' |-> GetOrderedPackets(table'[k])]
    BY DEF recent
  <2> QED
    BY <2>1, <2>2, <2>3
<1>11. BurstDetected(f, pkt) <=> Abstract!IsBurst(Abstract!Known(key), pkt)
  <2> DEFINE s == GetOrderedPackets(f)
  <2>1. Len(s) = f.count
    BY <1>2, <1>5, PushedAfterAdd
  <2>2. CASE f.count = Slots
    <3>1. RingOK(f) /\ f = table[key] /\ key \in DOMAIN table
      BY <1>5, <2>2, SizeAssumption
    <3>2. s[1].timestamp = f.oldest_ts
      BY <2>2, <3>1, SizeAssumption DEF RingOK, GetOrderedPackets
    <3>3. /\ f.oldest_ts \in Nat /\ f.last_seen_ts \in Nat /\ pkt.timestamp \in Nat
          /\ f.last_seen_ts <= pkt.timestamp
      BY <1>2, <1>5, <3>1, Typed DEF FlowState
    <3>4. f.oldest_ts <= f.last_seen_ts
      <4>1. /\ OrderedSlot(f, 1) \in Slot /\ OrderedSlot(f, Slots) \in Slot
            /\ 1 \in 1 .. f.count /\ f.count \in 1 .. f.count
        BY <1>5, <2>2, OrderedSlotType, SizeAssumption
      <4> QED
        BY <2>2, <3>1, <4>1, SizeAssumption DEF RingOK
    <3>5. Elapsed(pkt.timestamp, f.oldest_ts) = pkt.timestamp - f.oldest_ts
      BY <3>3, <3>4 DEF Elapsed
    <3> QED
      BY <1>7, <2>1, <2>2, <3>2, <3>5 DEF BurstDetected, Abstract!IsBurst
  <2>3. CASE f.count # Slots
    BY <1>7, <2>1, <2>3 DEF BurstDetected, Abstract!IsBurst
  <2> QED
    BY <2>2, <2>3
<1>12. burst' = IF Abstract!IsBurst(Abstract!Known(key), pkt)
                THEN [key |-> key, at |-> pkt.timestamp, packets |-> Abstract!Known(key)]
                ELSE None
  BY <1>4, <1>7, <1>11 DEF f
<1> QED
  BY <1>1, <1>8, <1>10, <1>12 DEF Abstract!Observe

\* A cleanup forgets flows of the abstract window.
LEMMA CleanupMapped ==
  ASSUME IInv, Cleanup
  PROVE  Abstract!Forget
<1>1. burst' = None /\ now' = now /\ table' = Restrict(table, Retained)
  BY DEF Cleanup
<1>2. \A k \in DOMAIN table : table[k].last_seen_ts <= now /\ table[k].last_seen_ts \in Nat /\ now \in Nat
  BY Typed DEF IInv, QueueInOrder
<1> DEFINE W == {k \in DOMAIN recent : now - Abstract!LastSeen(recent, k) <= Window}
<1>3. Retained = W
  <2>1. \A k \in DOMAIN table : Elapsed(now, table[k].last_seen_ts) = now - Abstract!LastSeen(recent, k)
    BY <1>2, LastSeenMapped DEF Elapsed
  <2> QED
    BY <2>1, LastSeenMapped DEF Retained
<1>4. DOMAIN table' = Retained /\ \A k \in Retained : table'[k] = table[k] /\ k \in DOMAIN table
  BY <1>1 DEF Restrict, Retained
<1>5. recent' = [k \in DOMAIN table' |-> GetOrderedPackets(table'[k])]
  BY DEF recent
<1>6. recent' = [k \in W |-> recent[k]]
  BY <1>3, <1>4, <1>5, LastSeenMapped
<1> QED
  BY <1>1, <1>6 DEF Abstract!Forget, Abstract!Restrict

\* The ring table implements the window of each flow: every packet is filed as a push on
\* its flow's last Slots packets, bursts carry exactly those, and flows are forgotten only
\* as FlowWindow says.
THEOREM FlowWindowImplemented == Spec => ImplementsFlowWindow
<1>1. Init => Abstract!Init
  BY DEF Init, Abstract!Init, recent
<1>2. IInv /\ [Next]_vars => [Abstract!Next]_(Abstract!vars)
  <2> SUFFICES ASSUME IInv, [Next]_vars PROVE [Abstract!Next]_(Abstract!vars)
    OBVIOUS
  <2>1. CASE Tick
    BY <2>1 DEF Tick, Abstract!Next, Abstract!Tick, recent
  <2>2. CASE (\E d \in Data : Capture(d)) \/ SkipUnparsed
    BY <2>2 DEF Capture, SkipUnparsed, Abstract!Next, Abstract!Quiet, recent
  <2>3. CASE Process
    BY <2>3, ProcessMapped DEF Abstract!Next
  <2>4. CASE Cleanup
    BY <2>4, CleanupMapped DEF Abstract!Next
  <2>5. CASE UNCHANGED vars
    BY <2>5 DEF vars, Abstract!vars, recent
  <2> QED
    BY <2>1, <2>2, <2>3, <2>4, <2>5 DEF Next
<1> QED
  BY <1>1, <1>2, Invariance, PTL DEF Spec, ImplementsFlowWindow, Abstract!Spec
=============================================================================
