-------------------------- MODULE Pipeline_proofs --------------------------
(***************************************************************************)
(* Proofs about the way of a packet from the kernel to the two detectors.  *)
(* The ring and the flow table keep their own inductive invariants, IInv   *)
(* of CaptureRing_proofs and IInv of FlowTable_proofs, whose lemmas are    *)
(* used here through EXTENDS and INSTANCE.  What relates the two halves is *)
(* the number and the stamp of each packet.  From these also follows what  *)
(* Engine assumes of its caller, so that the theorems of Engine_proofs     *)
(* hold of the program.                                                    *)
(***************************************************************************)
EXTENDS Detector, CaptureRing_proofs

\* The lemmas about the flow table, for the flow table of the pipeline.
FP == INSTANCE FlowTable_proofs WITH
  FlowKey <- {Key(h) : h \in Headers} \ {NoKey},
  Data <- Frame, FlowKeyOf <- [d \in Frame |-> Key(d.header)]

\* The lemmas about the engine, for the engine of the program.
EP == INSTANCE Engine_proofs WITH
  Packets <- Headers, Skew <- RetireAfter, MaxTime <- CleanupPeriod + MaxTime,
  handled <- Len(taken), now <- packet_time

----------------------------------------------------------------------------
(* The inductive invariant.                                                *)

Stamp(id) == received[id].stamp

\* Packets are numbered and stamped as they come.
ArrivalInv ==
  /\ received \in Seq([header : Headers, stamp : Nat]) /\ Len(received) = arrived
  /\ \A a, b \in 1 .. arrived : a <= b => Stamp(a) <= Stamp(b)
  /\ \A a \in 1 .. arrived : Stamp(a) <= now

\* A packet that has arrived, under the port key of its header.
Known(p) == p.id \in 1 .. arrived /\ p.port = PortKey(received[p.id].header)

\* What is in a block came in order, no two packets further apart than the retire time, and
\* the block that the kernel fills is not older than that.
BlockInv ==
  /\ \A i \in Block : \A x \in 1 .. Len(memory[i]) :
       /\ Known(memory[i][x])
       /\ \A y \in 1 .. Len(memory[i]) :
            /\ x < y => memory[i][x].id < memory[i][y].id
            /\ Stamp(memory[i][y].id) - Stamp(memory[i][x].id) <= RetireAfter
  /\ ~ fresh => /\ 1 \in 1 .. Len(memory[kernel_block_idx])
                /\ now - Stamp(memory[kernel_block_idx][1].id) <= RetireAfter

\* The channel that the ring amounts to: what was taken came before what waits of its port, and
\* not much later than anything that waits.
ChannelInv ==
  /\ \A p \in waiting : Known(p) /\ \A q \in waiting : p.id = q.id => p = q
  /\ \A i \in DOMAIN taken :
       /\ Known(taken[i])
       /\ \A q \in waiting : /\ taken[i].port = q.port => taken[i].id < q.id
                             /\ Stamp(taken[i].id) - Stamp(q.id) <= RetireAfter
       /\ \A j \in DOMAIN taken : i < j =>
            /\ taken[i].port = taken[j].port => taken[i].id < taken[j].id
            /\ Stamp(taken[i].id) - Stamp(taken[j].id) <= RetireAfter

\* A packet of the flow half was handed on, with the header it came with.
HandedOn(d) == /\ \E i \in DOMAIN taken : taken[i].id = d.id
               /\ d.header = received[d.id].header

Entry(f, i) == f.buffer[FP!OrderedSlot(f, i)].data

\* The batch that a packet was grouped in.
PortGroup(d) == PortKey(d.header)

\* The flow half keeps the packets of a group in the order of their numbers.
FlowInv ==
  /\ \A i \in DOMAIN queue :
       /\ HandedOn(queue[i].data)
       /\ \A j \in DOMAIN queue :
            (i < j /\ PortGroup(queue[i].data) = PortGroup(queue[j].data))
              => queue[i].data.id < queue[j].data.id
  /\ \A k \in DOMAIN table : \A i \in 1 .. table[k].count :
       /\ HandedOn(Entry(table[k], i))
       /\ \A j \in 1 .. table[k].count :
            i < j /\ PortGroup(Entry(table[k], i)) = PortGroup(Entry(table[k], j)) =>
              Entry(table[k], i).id < Entry(table[k], j).id
       /\ \A j \in DOMAIN queue :
            PortGroup(queue[j].data) = PortGroup(Entry(table[k], i)) => Entry(table[k], i).id < queue[j].data.id

PInv == IInv /\ FP!IInv /\ ArrivalInv /\ BlockInv /\ ChannelInv /\ FlowInv

----------------------------------------------------------------------------
(* The steps, in terms of the two halves.                                  *)

\* The assumptions of the flow table hold for that of the pipeline.
LEMMA FlowTableAssumed == FP!FlowKeyAssumption /\ FP!SizeAssumption /\ FP!NoneAssumption
  <1> DEFINE keys == {Key(h) : h \in Headers}
  <1>1. [d \in Frame |-> Key(d.header)] \in [Frame -> (keys \ {NoKey}) \cup {NoKey}]
    BY DEF Frame
  <1>2. FP!FlowKeyAssumption BY <1>1 DEF FP!FlowKeyAssumption
  <1>3. FP!SizeAssumption BY FlowAssumption DEF FP!SizeAssumption
  <1>4. FP!NoneAssumption
    BY FlowAssumption DEF FP!NoneAssumption, FP!Packet, FP!Report, Flows!Packet, Flows!Report
  <1> QED BY <1>2, <1>3, <1>4

\* The two instances of the flow table are the same.
LEMMA SameFlows ==
  /\ Flows!Init <=> FP!Init
  /\ Flows!Tick <=> FP!Tick
  /\ \A d : Flows!Capture(d) <=> FP!Capture(d)
  /\ Flows!SkipUnparsed <=> FP!SkipUnparsed
  /\ Flows!Process <=> FP!Process
  /\ Flows!Cleanup <=> FP!Cleanup
  /\ \A f : Flows!GetOrderedPackets(f) = FP!GetOrderedPackets(f)
  <1>1. Flows!Init <=> FP!Init BY DEF Flows!Init, FP!Init
  <1>2. Flows!Tick <=> FP!Tick BY DEF Flows!Tick, FP!Tick
  <1>3. \A d : Flows!Capture(d) <=> FP!Capture(d) BY DEF Flows!Capture, FP!Capture
  <1>4. Flows!SkipUnparsed <=> FP!SkipUnparsed BY DEF Flows!SkipUnparsed, FP!SkipUnparsed
  <1>5. Flows!Process <=> FP!Process
    BY DEF Flows!Process, FP!Process, Flows!ProcessPacket, FP!ProcessPacket, Flows!MadeRoom, FP!MadeRoom,
           Flows!LeastRecent, FP!LeastRecent, Flows!FlowOf, FP!FlowOf, Flows!NewFlow, FP!NewFlow,
           Flows!Store, FP!Store, Flows!AddPacket, FP!AddPacket, Flows!BurstDetected, FP!BurstDetected,
           Flows!GetOrderedPackets, FP!GetOrderedPackets, Flows!OrderedSlot, FP!OrderedSlot,
           Flows!NextSlot, FP!NextSlot, Flows!Elapsed, FP!Elapsed, Flows!Slot, FP!Slot,
           Flows!Restrict, FP!Restrict, Flows!Cardinality, FP!Cardinality
  <1>6. Flows!Cleanup <=> FP!Cleanup
    BY DEF Flows!Cleanup, FP!Cleanup, Flows!Restrict, FP!Restrict, Flows!Retained, FP!Retained,
           Flows!Elapsed, FP!Elapsed
  <1>7. \A f : Flows!GetOrderedPackets(f) = FP!GetOrderedPackets(f)
    BY DEF Flows!GetOrderedPackets, FP!GetOrderedPackets, Flows!OrderedSlot, FP!OrderedSlot
  <1> QED BY <1>1, <1>2, <1>3, <1>4, <1>5, <1>6, <1>7

\* Appending keeps what is there, and the new element comes last.
LEMMA Appended ==
  ASSUME NEW S, NEW s \in Seq(S), NEW x
  PROVE  /\ Len(Append(s, x)) = Len(s) + 1 /\ DOMAIN Append(s, x) = 1 .. Len(s) + 1
         /\ Append(s, x)[Len(s) + 1] = x /\ Last(Append(s, x)) = x
         /\ \A i \in 1 .. Len(s) : Append(s, x)[i] = s[i]
         /\ DOMAIN s = 1 .. Len(s) /\ Len(s) \in Nat
  BY DEF Last

\* The steps of the ring that hand nothing on.
RingStep == Retire \/ SetUp \/ GiveUp \/ NextBlock \/ Fill \/ Group \/ Recycle

\* What a step of the pipeline is for the ring, for the flow table and for the rest.
LEMMA Kinds ==
  ASSUME [PNext]_allVars
  PROVE  \/ \E h \in Headers : /\ Receive(PortKey(h)) /\ received' = Append(received, [header |-> h, stamp |-> now])
                               /\ UNCHANGED <<now, queue, table, burst>>
         \/ /\ Drain /\ received' = received
            /\ FP!Capture([id |-> Last(taken').id, header |-> received[Last(taken').id].header])
         \/ RingStep /\ UNCHANGED <<received, now, queue, table, burst>>
         \/ (FP!SkipUnparsed \/ FP!Process \/ FP!Cleanup) /\ UNCHANGED <<vars, received>>
         \/ /\ ~ fresh => now - Stamp(memory[kernel_block_idx][1].id) < RetireAfter
            /\ FP!Tick /\ UNCHANGED <<vars, received>>
         \/ UNCHANGED <<vars, received, now, queue, table, burst>>
  <1>1. CASE \E h \in Headers : Arrive(h) BY <1>1 DEF Arrive, flowVars
  <1>2. CASE Retire /\ UNCHANGED <<received, flowVars>> BY <1>2 DEF RingStep, flowVars
  <1>3. CASE OtherThreadStep BY <1>3 DEF OtherThreadStep, RingStep, flowVars
  <1>4. CASE HandOn BY <1>4, SameFlows DEF HandOn
  <1>5. CASE FlowStep BY <1>5, SameFlows DEF FlowStep, ringVars
  <1>6. CASE PassTime BY <1>6, SameFlows DEF PassTime, ringVars, Stamp
  <1>7. CASE UNCHANGED allVars BY <1>7 DEF allVars, ringVars, flowVars
  <1> QED BY <1>1, <1>2, <1>3, <1>4, <1>5, <1>6, <1>7 DEF PNext, OtherStep

\* Every step of the pipeline is one of the ring or leaves the ring as it is.
LEMMA RingSteps2 == [PNext]_allVars => [Next]_vars
  <1> SUFFICES ASSUME [PNext]_allVars PROVE Next \/ UNCHANGED vars OBVIOUS
  <1>1. \A h \in Headers : Receive(PortKey(h)) => Next BY HeaderAssumption DEF Next
  <1>2. Drain \/ RingStep => Next BY DEF Next, Thread, RingStep
  <1> QED BY <1>1, <1>2, Kinds

\* The packet handed on is of the held block, and what waits of other blocks came later.
LEMMA DrainTakes ==
  ASSUME IInv, Drain
  PROVE  \E p \in waiting :
           /\ taken' = Append(taken, p) /\ Last(taken') = p
           /\ waiting' = waiting \ {p} /\ \A q \in waiting : q.port = p.port => p.id <= q.id
           /\ held \in Block /\ \E y \in 1 .. Len(memory[held]) : p = memory[held][y]
           /\ \A q \in waiting : p.id < q.id \/ \E x \in 1 .. Len(memory[held]) : q = memory[held][x]
  <1>1. PICK p \in waiting : /\ \A q \in waiting : q.port = p.port => p.id <= q.id
                             /\ waiting' = waiting \ {p} /\ taken' = Append(taken, p)
    BY DrainMapped
  <1>2. pc = "drain" /\ taken \in Seq(Packet) /\ cursor \in Nat /\ cursor < Len(Delivery(buf))
        /\ taken' = Append(taken, At(Delivery(buf)[cursor + 1]))
    BY BatchSize DEF Drain, IInv, Types
  <1>3. PICK pi : Reorders(Delivery(buf), buf.input, pi) BY <1>2 DEF IInv, DrainInv
  <1>4. /\ held \in Block /\ Len(Delivery(buf)) = Len(buf.input) /\ Len(buf.input) \in Nat
        /\ DOMAIN Delivery(buf) = 1 .. Len(buf.input)
        /\ \A x \in 1 .. Len(buf.input) :
             pi[x] \in 1 .. Len(memory[held]) /\ At(Delivery(buf)[x]) = memory[held][pi[x]]
    BY <1>2, <1>3, DeliveryLeads
  <1>5. cursor + 1 \in 1 .. Len(buf.input) BY <1>2, <1>4
  <1>6. Append(taken, p) = Append(taken, At(Delivery(buf)[cursor + 1])) BY <1>1, <1>2
  <1>7. p = At(Delivery(buf)[cursor + 1]) /\ Last(taken') = p
    <2>1. /\ Last(Append(taken, p)) = p
          /\ Last(Append(taken, At(Delivery(buf)[cursor + 1]))) = At(Delivery(buf)[cursor + 1])
      BY <1>2, Appended
    <2> QED BY <1>1, <1>6, <2>1
  <1>8. \E y \in 1 .. Len(memory[held]) : p = memory[held][y] BY <1>4, <1>5, <1>7
  <1>9. Busy /\ waiting = Elsewhere \cup InHand
    BY <1>2, WaitingIs DEF Busy
  <1>10. ASSUME NEW q \in InHand PROVE \E x \in 1 .. Len(memory[held]) : q = memory[held][x]
    <2>1. PICK x \in DOMAIN Delivery(buf) : q = At(Delivery(buf)[x]) BY <1>2, <1>10 DEF InHand
    <2> QED BY <1>4, <2>1
  <1>11. ASSUME NEW q \in Elsewhere PROVE p.id < q.id
    <2>1. PICK i \in Block : i # held /\ Live(i) /\ \E x \in 1 .. Len(memory[i]) : memory[i][x] = q
      BY InElsewhere
    <2>2. PICK x \in 1 .. Len(memory[i]) : memory[i][x] = q BY <2>1
    <2>3. PICK y \in 1 .. Len(memory[held]) : p = memory[held][y] BY <1>8
    <2>4. 0 \in 0 .. Blocks BY RingAssumption
    <2>5. Dist(held, held) < Dist(held, i) BY <1>4, <2>1, <2>4, RingSteps
    <2>6. Live(held) /\ Oldest = held BY <1>9, HeldRetired DEF Live, Oldest
    <2> QED BY <1>4, <2>1, <2>2, <2>3, <2>5, <2>6 DEF IInv, OrderInv
  <1> QED BY <1>1, <1>4, <1>7, <1>8, <1>9, <1>10, <1>11

----------------------------------------------------------------------------
(* Numbers and stamps.                                                     *)

\* Types of the parts of the state, as the steps below use them.
LEMMA PTyped ==
  ASSUME IInv, FP!IInv, ArrivalInv
  PROVE  /\ now \in Nat /\ arrived \in Nat /\ arrived <= MaxPackets
         /\ received \in Seq([header : Headers, stamp : Nat]) /\ DOMAIN received = 1 .. arrived
         /\ \A a \in 1 .. arrived : /\ Stamp(a) \in Nat /\ Stamp(a) <= now
                                    /\ received[a].header \in Headers
         /\ kernel_block_idx \in Block /\ fresh \in BOOLEAN
         /\ \A i \in Block : memory[i] \in Seq(Packet) /\ Len(memory[i]) \in Nat
         /\ DOMAIN memory = Block
         /\ taken \in Seq(Packet) /\ DOMAIN taken = 1 .. Len(taken)
         /\ RetireAfter \in Nat
  <1>1. now \in Nat BY FlowTableAssumed DEF FP!IInv, FP!TypeOK, FP!SizeAssumption
  <1>2. arrived \in Nat /\ arrived <= MaxPackets BY RingAssumption DEF IInv, Types
  <1>3. /\ received \in Seq([header : Headers, stamp : Nat]) /\ Len(received) = arrived
        /\ \A a \in 1 .. arrived : Stamp(a) <= now
    BY DEF ArrivalInv
  <1> DEFINE R == [header : Headers, stamp : Nat]
  <1> HIDE DEF R
  <1>4. DOMAIN received = 1 .. arrived /\ \A a \in 1 .. arrived : received[a] \in R
    <2>1. received \in Seq(R) /\ Len(received) = arrived BY <1>3 DEF R
    <2> QED BY <2>1
  <1>5. \A a \in 1 .. arrived : Stamp(a) \in Nat /\ received[a].header \in Headers BY <1>4 DEF Stamp, R
  <1>6. /\ kernel_block_idx \in Block /\ fresh \in BOOLEAN /\ memory \in [Block -> Seq(Packet)]
        /\ taken \in Seq(Packet)
    BY DEF IInv, Types
  <1>7. \A i \in Block : memory[i] \in Seq(Packet) /\ Len(memory[i]) \in Nat BY <1>6
  <1> QED BY <1>1, <1>2, <1>3, <1>4, <1>5, <1>6, <1>7, RetireAssumption

\* What an arrival does to the packets there are, and to the new one.
LEMMA Arrival ==
  ASSUME IInv, FP!IInv, ArrivalInv, NEW h \in Headers, Receive(PortKey(h)),
         received' = Append(received, [header |-> h, stamp |-> now])
  PROVE  /\ arrived' = arrived + 1 /\ arrived' \in Nat
         /\ received' \in Seq([header : Headers, stamp : Nat]) /\ Len(received') = arrived'
         /\ received'[arrived'].header = h /\ received'[arrived'].stamp = now
         /\ \A a \in 1 .. arrived : received'[a] = received[a] /\ a \in 1 .. arrived' /\ a < arrived'
         /\ \A a \in 1 .. arrived' : a = arrived' \/ a \in 1 .. arrived
  <1>1. arrived' = arrived + 1 /\ arrived \in Nat BY PTyped DEF Receive
  <1>2. /\ received \in Seq([header : Headers, stamp : Nat]) /\ Len(received) = arrived
        /\ [header |-> h, stamp |-> now] \in [header : Headers, stamp : Nat]
    BY PTyped DEF ArrivalInv
  <1> DEFINE r == [header |-> h, stamp |-> now]
  <1>3. r.header = h /\ r.stamp = now OBVIOUS
  <1>4. r \in [header : Headers, stamp : Nat] BY <1>2
  <1>5. received' = Append(received, r) OBVIOUS
  <1> HIDE DEF r
  <1>6. /\ Len(received') = arrived + 1 /\ received'[arrived + 1] = r
        /\ \A a \in 1 .. arrived : received'[a] = received[a]
    BY <1>2, <1>5, Appended
  <1>7. received' \in Seq([header : Headers, stamp : Nat]) BY <1>2, <1>4, <1>5
  <1> QED BY <1>1, <1>3, <1>6, <1>7

\* Numbers and stamps grow together, whatever happens to the packets.
LEMMA ArrivalStep == PInv /\ [PNext]_allVars => ArrivalInv'
  <1> SUFFICES ASSUME PInv, [PNext]_allVars PROVE ArrivalInv' OBVIOUS
  <1>1. IInv /\ FP!IInv /\ ArrivalInv BY DEF PInv
  <1>2. /\ now \in Nat /\ arrived \in Nat
        /\ \A a \in 1 .. arrived : Stamp(a) \in Nat /\ Stamp(a) <= now
    BY <1>1, PTyped
  <1>3. ASSUME NEW h \in Headers, Receive(PortKey(h)),
               received' = Append(received, [header |-> h, stamp |-> now]), now' = now
        PROVE  ArrivalInv'
    <2>1. /\ arrived' = arrived + 1 /\ arrived' \in Nat
          /\ received' \in Seq([header : Headers, stamp : Nat]) /\ Len(received') = arrived'
          /\ received'[arrived'].stamp = now
          /\ \A a \in 1 .. arrived : received'[a] = received[a]
          /\ \A a \in 1 .. arrived' : a = arrived' \/ a \in 1 .. arrived
      BY <1>1, <1>3, Arrival
    <2>2. \A a \in 1 .. arrived' : received'[a].stamp <= now
      BY <1>2, <2>1 DEF Stamp
    <2>3. \A a, b \in 1 .. arrived' : a <= b => received'[a].stamp <= received'[b].stamp
      <3> SUFFICES ASSUME NEW a \in 1 .. arrived', NEW b \in 1 .. arrived', a <= b
                   PROVE  received'[a].stamp <= received'[b].stamp
        OBVIOUS
      <3>1. CASE b = arrived' BY <2>1, <2>2, <3>1
      <3>2. CASE b \in 1 .. arrived
        <4>1. a \in 1 .. arrived BY <1>2, <3>2
        <4>2. Stamp(a) <= Stamp(b) BY <1>1, <3>2, <4>1 DEF ArrivalInv
        <4> QED BY <2>1, <3>2, <4>1, <4>2 DEF Stamp
      <3> QED BY <2>1, <3>1, <3>2
    <2> QED BY <1>3, <2>1, <2>2, <2>3 DEF ArrivalInv, Stamp
  <1>4. ASSUME UNCHANGED <<received, arrived>>, now' \in Nat, now <= now' PROVE ArrivalInv'
    BY <1>1, <1>2, <1>4 DEF ArrivalInv, Stamp
  <1>5. ASSUME received' = received, Drain \/ RingStep \/ UNCHANGED vars, now' \in {now, now + 1}
        PROVE  ArrivalInv'
    <2>1. arrived' = arrived
      BY <1>5 DEF Drain, RingStep, Retire, SetUp, GiveUp, NextBlock, Fill, Group, Recycle, vars, kernelVars
    <2>2. now <= now' /\ now' \in Nat BY <1>2, <1>5
    <2> QED BY <1>4, <1>5, <2>1, <2>2
  <1>6. /\ FP!Tick => now' = now + 1
        /\ FP!SkipUnparsed \/ FP!Process \/ FP!Cleanup => now' = now
        /\ \A d : FP!Capture(d) => now' = now
    BY DEF FP!Tick, FP!SkipUnparsed, FP!Process, FP!Cleanup, FP!Capture
  <1> QED BY <1>3, <1>5, <1>6, Kinds

\* A step that writes no packet and does not set the kernel to work on a block.
LEMMA BlockQuiet ==
  ASSUME PInv, UNCHANGED <<memory, arrived, received>>,
         ~ fresh' => /\ ~ fresh /\ kernel_block_idx' = kernel_block_idx
                     /\ now' - Stamp(memory[kernel_block_idx][1].id) <= RetireAfter
  PROVE  BlockInv'
  <1>1. BlockInv BY DEF PInv
  <1>2. \A id : Stamp(id)' = Stamp(id) BY DEF Stamp
  <1>3. \A i \in Block : \A x \in 1 .. Len(memory[i]) : Known(memory[i][x])' <=> Known(memory[i][x])
    BY DEF Known
  <1>4. (\A i \in Block : \A x \in 1 .. Len(memory[i]) :
           /\ Known(memory[i][x])
           /\ \A y \in 1 .. Len(memory[i]) :
                /\ x < y => memory[i][x].id < memory[i][y].id
                /\ Stamp(memory[i][y].id) - Stamp(memory[i][x].id) <= RetireAfter)'
    BY <1>1 DEF BlockInv, Stamp, Known, Block
  <1>5. (~ fresh => /\ 1 \in 1 .. Len(memory[kernel_block_idx])
                    /\ now - Stamp(memory[kernel_block_idx][1].id) <= RetireAfter)'
    BY <1>1 DEF BlockInv, Stamp
  <1> QED BY <1>4, <1>5 DEF BlockInv

\* The packets of a block after an arrival are those before, or the new one comes last.
LEMMA BlockArrival ==
  ASSUME PInv, NEW port, Receive(port)
  PROVE  LET k == kernel_block_idx
             p == [id |-> arrived + 1, port |-> port]
         IN  /\ \A i \in Block : i # k => memory'[i] = memory[i]
             /\ fresh => Len(memory'[k]) = 1 /\ memory'[k][1] = p
             /\ ~ fresh => /\ Len(memory'[k]) = Len(memory[k]) + 1 /\ memory'[k][Len(memory[k]) + 1] = p
                           /\ \A x \in 1 .. Len(memory[k]) : memory'[k][x] = memory[k][x]
             /\ ~ fresh' /\ kernel_block_idx' = k /\ k \in Block
  <1> DEFINE k == kernel_block_idx
             p == [id |-> arrived + 1, port |-> port]
  <1>1. k \in Block /\ memory[k] \in Seq(Packet) /\ DOMAIN memory = Block
    BY PTyped DEF PInv
  <1>2. /\ ~ fresh' /\ kernel_block_idx' = k
        /\ memory' = [memory EXCEPT ![k] = IF fresh THEN <<p>> ELSE Append(memory[k], p)]
    BY DEF Receive
  <1> HIDE DEF p, k
  <1>3. memory'[k] = (IF fresh THEN <<p>> ELSE Append(memory[k], p)) /\ \A i \in Block : i # k => memory'[i] = memory[i]
    BY <1>1, <1>2
  <1>4. Len(<<p>>) = 1 /\ <<p>>[1] = p OBVIOUS
  <1>5. /\ Len(Append(memory[k], p)) = Len(memory[k]) + 1 /\ Append(memory[k], p)[Len(memory[k]) + 1] = p
        /\ \A x \in 1 .. Len(memory[k]) : Append(memory[k], p)[x] = memory[k][x]
    BY <1>1, Appended
  <1>6. fresh => Len(memory'[k]) = 1 /\ memory'[k][1] = p BY <1>3, <1>4
  <1>7. ~ fresh => /\ Len(memory'[k]) = Len(memory[k]) + 1 /\ memory'[k][Len(memory[k]) + 1] = p
                   /\ \A x \in 1 .. Len(memory[k]) : memory'[k][x] = memory[k][x]
    BY <1>3, <1>5
  <1> QED BY <1>1, <1>2, <1>3, <1>6, <1>7 DEF p, k

\* A block keeps its packets in order and within the retire time of its first.
LEMMA BlockStep == PInv /\ [PNext]_allVars => BlockInv'
  <1> SUFFICES ASSUME PInv, [PNext]_allVars PROVE BlockInv' OBVIOUS
  <1>1. IInv /\ FP!IInv /\ ArrivalInv /\ BlockInv BY DEF PInv
  <1>2. /\ now \in Nat /\ arrived \in Nat /\ RetireAfter \in Nat /\ kernel_block_idx \in Block
        /\ \A a \in 1 .. arrived : Stamp(a) \in Nat /\ Stamp(a) <= now
        /\ \A i \in Block : Len(memory[i]) \in Nat
    BY <1>1, PTyped
  <1>3. ASSUME NEW h \in Headers, Receive(PortKey(h)),
               received' = Append(received, [header |-> h, stamp |-> now]), now' = now
        PROVE  BlockInv'
    <2> DEFINE k == kernel_block_idx
               p == [id |-> arrived + 1, port |-> PortKey(h)]
               old(i, x) == i \in Block /\ x \in 1 .. Len(memory[i]) /\ memory'[i][x] = memory[i][x] /\ (i = k => ~ fresh)
               new(i, x) == i = k /\ x = Len(memory'[i]) /\ memory'[i][x] = p
    <2>1. /\ arrived' = arrived + 1 /\ arrived' \in Nat
          /\ received'[arrived'].header = h /\ received'[arrived'].stamp = now
          /\ \A a \in 1 .. arrived : received'[a] = received[a] /\ a \in 1 .. arrived' /\ a < arrived'
      BY <1>1, <1>3, Arrival
    <2>2. /\ \A i \in Block : i # k => memory'[i] = memory[i]
          /\ fresh => Len(memory'[k]) = 1 /\ memory'[k][1] = p
          /\ ~ fresh => /\ Len(memory'[k]) = Len(memory[k]) + 1 /\ memory'[k][Len(memory[k]) + 1] = p
                        /\ \A x \in 1 .. Len(memory[k]) : memory'[k][x] = memory[k][x]
          /\ ~ fresh' /\ kernel_block_idx' = k /\ k \in Block
      BY <1>3, BlockArrival
    <2>3. p.id = arrived' /\ p.port = PortKey(h) BY <2>1
    <2> HIDE DEF p, k
    <2>4. ASSUME NEW i \in Block, NEW x \in 1 .. Len(memory'[i]) PROVE old(i, x) \/ new(i, x)
      <3>1. CASE i # k
        <4>1. memory'[i] = memory[i] BY <2>2, <3>1
        <4> QED BY <1>2, <3>1, <4>1
      <3>2. CASE i = k /\ fresh
        <4>1. Len(memory'[i]) = 1 /\ memory'[i][1] = p BY <2>2, <3>2
        <4>2. x = 1 BY <4>1
        <4> QED BY <3>2, <4>1, <4>2
      <3>3. CASE i = k /\ ~ fresh
        <4> DEFINE n == Len(memory[i])
        <4>1. /\ Len(memory'[i]) = n + 1 /\ memory'[i][n + 1] = p /\ n \in Nat
              /\ \A z \in 1 .. n : memory'[i][z] = memory[i][z]
          BY <1>2, <2>2, <3>3
        <4>2. CASE x \in 1 .. n BY <3>3, <4>1, <4>2
        <4> HIDE DEF n
        <4>3. CASE x \notin 1 .. n
          <5>1. x = n + 1 BY <4>1, <4>3
          <5> QED BY <3>3, <4>1, <5>1
        <4> QED BY <4>2, <4>3
      <3> QED BY <3>1, <3>2, <3>3
    \* What the invariant says of the packets there were.
    <2>5. ASSUME NEW i, NEW x, old(i, x)
          PROVE  /\ memory[i][x].id \in 1 .. arrived /\ memory[i][x].port = PortKey(received[memory[i][x].id].header)
                 /\ received'[memory[i][x].id] = received[memory[i][x].id] /\ memory[i][x].id \in 1 .. arrived'
                 /\ memory[i][x].id < arrived' /\ Stamp(memory[i][x].id) \in Nat /\ Stamp(memory[i][x].id) <= now
      BY <1>1, <1>2, <2>1, <2>5 DEF BlockInv, Known
    <2> HIDE DEF old, new
    <2>6. ASSUME NEW i \in Block, NEW x \in 1 .. Len(memory'[i])
          PROVE  memory'[i][x].id \in 1 .. arrived' /\ memory'[i][x].port = PortKey(received'[memory'[i][x].id].header)
      <3>1. CASE old(i, x) BY <2>5, <3>1 DEF old
      <3>2. CASE new(i, x)
        <4>1. memory'[i][x] = p BY <3>2 DEF new
        <4>2. arrived' \in 1 .. arrived' BY <1>2, <2>1
        <4>3. p.port = PortKey(received'[arrived'].header) BY <2>1, <2>3
        <4> QED BY <2>3, <4>1, <4>2, <4>3
      <3> QED BY <2>4, <3>1, <3>2
    <2>7. ASSUME NEW i \in Block, NEW x \in 1 .. Len(memory'[i]), NEW y \in 1 .. Len(memory'[i]), x < y
          PROVE  memory'[i][x].id < memory'[i][y].id
      <3>1. old(i, x) BY <2>4, <2>7 DEF new
      <3>2. CASE old(i, y) BY <1>1, <2>7, <3>1, <3>2 DEF old, BlockInv
      <3>3. CASE new(i, y) BY <2>3, <2>5, <3>1, <3>3 DEF old, new
      <3> QED BY <2>4, <3>2, <3>3
    <2>8. ASSUME NEW i \in Block, NEW x \in 1 .. Len(memory'[i]), NEW y \in 1 .. Len(memory'[i])
          PROVE  received'[memory'[i][y].id].stamp - received'[memory'[i][x].id].stamp <= RetireAfter
      <3>1. CASE old(i, x) /\ old(i, y)
        <4>1. Stamp(memory[i][y].id) - Stamp(memory[i][x].id) <= RetireAfter
          BY <1>1, <3>1 DEF old, BlockInv
        <4>2. /\ received'[memory'[i][y].id].stamp = Stamp(memory[i][y].id)
              /\ received'[memory'[i][x].id].stamp = Stamp(memory[i][x].id)
          BY <2>5, <3>1 DEF old, Stamp
        <4> QED BY <4>1, <4>2
      <3>2. CASE new(i, x)
        <4>1. received'[memory'[i][x].id].stamp = now BY <2>1, <2>3, <3>2 DEF new
        <4>2. received'[memory'[i][y].id].stamp \in Nat /\ received'[memory'[i][y].id].stamp <= now
          <5>1. CASE old(i, y) BY <2>5, <5>1 DEF old, Stamp
          <5>2. CASE new(i, y) BY <1>2, <2>1, <2>3, <5>2 DEF new
          <5> QED BY <2>4, <5>1, <5>2
        <4> QED BY <1>2, <4>1, <4>2
      <3>3. CASE old(i, x) /\ new(i, y)
        <4>1. i = k /\ ~ fresh /\ x \in 1 .. Len(memory[k]) BY <3>3 DEF old, new
        <4>2. /\ 1 \in 1 .. Len(memory[k]) /\ now - Stamp(memory[k][1].id) <= RetireAfter
              /\ memory[k][1].id \in 1 .. arrived /\ memory[k][x].id \in 1 .. arrived
              /\ 1 < x => memory[k][1].id < memory[k][x].id
          BY <1>1, <2>2, <4>1 DEF BlockInv, Known, k
        <4>3. memory[k][1].id <= memory[k][x].id BY <4>1, <4>2
        <4>4. Stamp(memory[k][1].id) <= Stamp(memory[k][x].id) BY <1>1, <4>2, <4>3 DEF ArrivalInv
        <4>5. Stamp(memory[k][1].id) \in Nat /\ Stamp(memory[k][x].id) \in Nat BY <1>2, <4>2
        <4>6. now - Stamp(memory[k][x].id) <= RetireAfter BY <1>2, <4>2, <4>4, <4>5
        <4>7. received'[memory'[i][y].id].stamp = now BY <2>1, <2>3, <3>3 DEF new
        <4>8. received'[memory'[i][x].id].stamp = Stamp(memory[k][x].id)
          BY <2>5, <3>3, <4>1 DEF old, Stamp
        <4> QED BY <4>6, <4>7, <4>8
      <3> QED BY <2>4, <3>1, <3>2, <3>3
    <2>9. 1 \in 1 .. Len(memory'[k]) /\ now - received'[memory'[k][1].id].stamp <= RetireAfter
      <3>1. CASE fresh
        <4>1. Len(memory'[k]) = 1 /\ memory'[k][1].id = arrived' BY <2>2, <2>3, <3>1
        <4>2. now - received'[memory'[k][1].id].stamp = 0 BY <1>2, <2>1, <4>1
        <4> QED BY <1>2, <4>1, <4>2
      <3>2. CASE ~ fresh
        <4>1. 1 \in 1 .. Len(memory[k]) /\ now - Stamp(memory[k][1].id) <= RetireAfter
          BY <1>1, <3>2 DEF BlockInv, k
        <4>2. memory'[k][1] = memory[k][1] /\ Len(memory'[k]) = Len(memory[k]) + 1 BY <2>2, <3>2, <4>1
        <4>3. memory[k][1].id \in 1 .. arrived BY <1>1, <2>2, <4>1 DEF BlockInv, Known
        <4>4. received'[memory'[k][1].id].stamp = Stamp(memory[k][1].id) BY <2>1, <4>2, <4>3 DEF Stamp
        <4> QED BY <1>2, <2>2, <4>1, <4>2, <4>4
      <3> QED BY <3>1, <3>2
    <2>10. \A i \in Block : \A x \in 1 .. Len(memory'[i]) :
             /\ Known(memory[i][x])'
             /\ \A y \in 1 .. Len(memory'[i]) :
                  /\ x < y => memory'[i][x].id < memory'[i][y].id
                  /\ Stamp(memory[i][y].id)' - Stamp(memory[i][x].id)' <= RetireAfter
      BY <2>6, <2>7, <2>8 DEF Known, Stamp
    <2>11. 1 \in 1 .. Len(memory'[kernel_block_idx']) /\ now' - Stamp(memory[kernel_block_idx][1].id)' <= RetireAfter
      BY <1>3, <2>2, <2>9 DEF Stamp
    <2> QED BY <2>10, <2>11 DEF BlockInv, Block
  <1>4. ASSUME received' = received, Drain \/ RingStep \/ UNCHANGED vars, now' = now PROVE BlockInv'
    <2>1. /\ UNCHANGED <<memory, arrived>>
          /\ ~ fresh' => ~ fresh /\ kernel_block_idx' = kernel_block_idx
      BY <1>4 DEF Drain, RingStep, Retire, SetUp, GiveUp, NextBlock, Fill, Group, Recycle, vars, kernelVars
    <2>2. ~ fresh => now - Stamp(memory[kernel_block_idx][1].id) <= RetireAfter BY <1>1 DEF BlockInv
    <2> QED BY <1>4, <2>1, <2>2, BlockQuiet
  <1>5. ASSUME UNCHANGED <<vars, received>>, now' = now + 1,
               ~ fresh => now - Stamp(memory[kernel_block_idx][1].id) < RetireAfter
        PROVE  BlockInv'
    <2>1. UNCHANGED <<memory, arrived, fresh, kernel_block_idx>> BY <1>5 DEF vars, kernelVars
    <2> DEFINE s == Stamp(memory[kernel_block_idx][1].id)
    <2>2. ASSUME ~ fresh PROVE now + 1 - s <= RetireAfter /\ s \in Nat
      <3>1. memory[kernel_block_idx][1].id \in 1 .. arrived BY <1>1, <1>2, <2>2 DEF BlockInv, Known
      <3> QED BY <1>2, <1>5, <2>2, <3>1
    <2>3. ~ fresh' => /\ ~ fresh /\ kernel_block_idx' = kernel_block_idx /\ now' - s <= RetireAfter
      <3> HIDE DEF s
      <3>1. now' = now + 1 BY <1>5
      <3>2. ASSUME ~ fresh PROVE now' - s <= RetireAfter BY <1>2, <2>2, <3>1, <3>2
      <3>3. (~ fresh' => ~ fresh) /\ kernel_block_idx' = kernel_block_idx BY <2>1, Zenon
      <3> QED BY <3>2, <3>3, Zenon
    <2>4. UNCHANGED <<memory, arrived, received>> BY <1>5, <2>1
    <2> QED BY <2>3, <2>4, BlockQuiet
  <1>6. /\ FP!Tick => now' = now + 1
        /\ FP!SkipUnparsed \/ FP!Process \/ FP!Cleanup => now' = now
        /\ \A d : FP!Capture(d) => now' = now
    BY DEF FP!Tick, FP!SkipUnparsed, FP!Process, FP!Cleanup, FP!Capture
  <1> QED BY <1>3, <1>4, <1>5, <1>6, Kinds

----------------------------------------------------------------------------
(* The two halves keep their own invariants.                               *)

\* The ring's own invariant.
LEMMA RingHalf == PInv /\ [PNext]_allVars => IInv'
  BY RingSteps2, StepInv DEF PInv

\* What is handed on has arrived, and is one of the flow table's frames.
LEMMA HandedFrame ==
  ASSUME PInv, NEW p \in waiting
  PROVE  /\ p.id \in 1 .. arrived /\ p.port = PortKey(received[p.id].header)
         /\ [id |-> p.id, header |-> received[p.id].header] \in Frame
  <1>1. p.id \in 1 .. arrived /\ p.port = PortKey(received[p.id].header) BY DEF PInv, ChannelInv, Known
  <1>2. arrived \in Nat /\ arrived <= MaxPackets /\ received[p.id].header \in Headers
    BY <1>1, PTyped DEF PInv
  <1>3. p.id \in 1 .. MaxPackets BY <1>1, <1>2, RingAssumption
  <1> QED BY <1>1, <1>2, <1>3 DEF Frame

\* Every step of the pipeline is one of the flow table or leaves the flow table as it is.
LEMMA FlowHalfSteps == PInv /\ [PNext]_allVars => [FP!Next]_FP!vars
  <1> SUFFICES ASSUME PInv, [PNext]_allVars PROVE FP!Next \/ UNCHANGED FP!vars OBVIOUS
  <1>1. ASSUME Drain, FP!Capture([id |-> Last(taken').id, header |-> received[Last(taken').id].header])
        PROVE  \E d \in Frame : FP!Capture(d)
    <2>1. PICK p \in waiting : Last(taken') = p BY <1>1, DrainTakes DEF PInv
    <2>2. [id |-> p.id, header |-> received[p.id].header] \in Frame BY HandedFrame
    <2> QED BY <1>1, <2>1, <2>2
  <1>2. UNCHANGED <<now, queue, table, burst>> => UNCHANGED FP!vars BY DEF FP!vars
  <1> QED BY <1>1, <1>2, Kinds DEF FP!Next

\* The flow table's own invariant.
LEMMA FlowHalf == PInv /\ [PNext]_allVars => FP!IInv'
  <1>1. FP!FlowKeyAssumption /\ FP!SizeAssumption /\ FP!NoneAssumption BY FlowTableAssumed
  <1> QED BY <1>1, FlowHalfSteps, FP!StepInv DEF PInv

----------------------------------------------------------------------------
(* The channel between the kernel and the two detectors.                   *)

\* What waits and what was taken, by number and stamp.
LEMMA ChannelTyped ==
  ASSUME PInv
  PROVE  /\ \A p \in waiting : p.id \in 1 .. arrived /\ p.id \in Nat /\ Stamp(p.id) \in Nat
         /\ \A i \in DOMAIN taken : /\ taken[i].id \in 1 .. arrived /\ taken[i].id \in Nat
                                    /\ Stamp(taken[i].id) \in Nat
  <1>1. \A a \in 1 .. arrived : a \in Nat /\ Stamp(a) \in Nat
    BY PTyped DEF PInv
  <1> QED BY <1>1 DEF PInv, ChannelInv, Known

\* A step that only takes away from what waits.
LEMMA ChannelQuiet ==
  ASSUME PInv, waiting' \subseteq waiting, UNCHANGED <<taken, received, arrived>>
  PROVE  ChannelInv'
  <1>1. ChannelInv BY DEF PInv
  <1>2. /\ taken' = taken /\ \A id : Stamp(id)' = Stamp(id)
        /\ \A p : Known(p)' <=> Known(p)
    BY DEF Stamp, Known
  <1>3. (\A p \in waiting : Known(p) /\ \A q \in waiting : p.id = q.id => p = q)'
    BY <1>1, <1>2 DEF ChannelInv
  <1>4. ASSUME NEW i \in DOMAIN taken'
        PROVE  /\ Known(taken'[i])
               /\ \A q \in waiting' : /\ taken'[i].port = q.port => taken'[i].id < q.id
                                      /\ Stamp(taken'[i].id) - Stamp(q.id) <= RetireAfter
               /\ \A j \in DOMAIN taken' : i < j =>
                    /\ taken'[i].port = taken'[j].port => taken'[i].id < taken'[j].id
                    /\ Stamp(taken'[i].id) - Stamp(taken'[j].id) <= RetireAfter
    BY <1>1, <1>2, <1>4 DEF ChannelInv
  <1> QED BY <1>3, <1>4 DEF ChannelInv, Known, Stamp

\* The packet that arrives is the last in number and in time.
LEMMA ChannelArrival ==
  ASSUME PInv, NEW h \in Headers, Receive(PortKey(h)),
         received' = Append(received, [header |-> h, stamp |-> now])
  PROVE  ChannelInv'
  <1> DEFINE p == [id |-> arrived + 1, port |-> PortKey(h)]
             st(id) == received'[id].stamp
             kn(q) == q.id \in 1 .. arrived' /\ q.port = PortKey(received'[q.id].header)
  <1>1. IInv /\ FP!IInv /\ ArrivalInv /\ ChannelInv BY DEF PInv
  <1>2. /\ arrived' = arrived + 1 /\ arrived' \in Nat /\ arrived \in Nat /\ now \in Nat
        /\ received'[arrived'].header = h /\ received'[arrived'].stamp = now
        /\ \A a \in 1 .. arrived : received'[a] = received[a] /\ a \in 1 .. arrived' /\ a < arrived'
        /\ \A a \in 1 .. arrived : Stamp(a) \in Nat /\ Stamp(a) <= now
    BY <1>1, Arrival, PTyped
  <1>3. waiting' = waiting \cup {p} BY <1>1, HeaderAssumption, ReceiveMapped
  <1>4. taken' = taken BY DEF Receive, threadVars
  <1>5. p.id = arrived' /\ p.port = PortKey(h) /\ arrived' \in 1 .. arrived' BY <1>2
  <1> HIDE DEF p
  \* Of what there was, the numbers and stamps are as before, and smaller than those of p.
  <1>6. \A q : q.id \in 1 .. arrived =>
          /\ st(q.id) = Stamp(q.id) /\ st(q.id) <= st(p.id) /\ st(q.id) \in Nat /\ q.id < p.id
          /\ Known(q) => kn(q)
    BY <1>2, <1>5 DEF Known, Stamp
  <1>7. st(p.id) = now /\ kn(p) BY <1>2, <1>5 DEF Known
  <1>8. /\ \A q \in waiting : q.id \in 1 .. arrived /\ Known(q)
        /\ \A i \in DOMAIN taken : taken[i].id \in 1 .. arrived /\ Known(taken[i])
    BY <1>1 DEF ChannelInv, Known
  <1> HIDE DEF st, kn
  <1>9. \A q \in waiting' : kn(q) /\ \A r \in waiting' : q.id = r.id => q = r
    <2>1. \A q \in waiting : kn(q) /\ q.id # p.id BY <1>2, <1>5, <1>6, <1>8
    <2>2. \A q, r \in waiting : q.id = r.id => q = r BY <1>1 DEF ChannelInv
    <2> QED BY <1>3, <1>7, <2>1, <2>2
  <1>10. ASSUME NEW i \in DOMAIN taken
         PROVE  /\ kn(taken[i])
                /\ \A q \in waiting' : /\ taken[i].port = q.port => taken[i].id < q.id
                                       /\ st(taken[i].id) - st(q.id) <= RetireAfter
                /\ \A j \in DOMAIN taken : i < j =>
                     /\ taken[i].port = taken[j].port => taken[i].id < taken[j].id
                     /\ st(taken[i].id) - st(taken[j].id) <= RetireAfter
    <2>1. kn(taken[i]) /\ st(taken[i].id) = Stamp(taken[i].id) BY <1>6, <1>8
    <2>2. \A q \in waiting : /\ taken[i].port = q.port => taken[i].id < q.id
                             /\ st(taken[i].id) - st(q.id) <= RetireAfter
      BY <1>1, <1>6, <1>8, <2>1 DEF ChannelInv
    <2>3. taken[i].id < p.id /\ st(taken[i].id) - st(p.id) <= RetireAfter
      BY <1>2, <1>6, <1>7, <1>8, RetireAssumption
    <2>4. \A j \in DOMAIN taken : i < j =>
            /\ taken[i].port = taken[j].port => taken[i].id < taken[j].id
            /\ st(taken[i].id) - st(taken[j].id) <= RetireAfter
      BY <1>1, <1>6, <1>8, <2>1 DEF ChannelInv
    <2> QED BY <1>3, <2>1, <2>2, <2>3, <2>4
  <1> QED BY <1>4, <1>9, <1>10 DEF ChannelInv, Known, Stamp, st, kn

\* The packet handed on is the oldest of its port, and what came before it is of its own block.
LEMMA ChannelDrain ==
  ASSUME PInv, Drain, received' = received
  PROVE  ChannelInv'
  <1>1. IInv /\ FP!IInv /\ ArrivalInv /\ BlockInv /\ ChannelInv BY DEF PInv
  <1>2. PICK p \in waiting :
          /\ taken' = Append(taken, p) /\ Last(taken') = p
          /\ waiting' = waiting \ {p} /\ \A q \in waiting : q.port = p.port => p.id <= q.id
          /\ held \in Block /\ \E y \in 1 .. Len(memory[held]) : p = memory[held][y]
          /\ \A q \in waiting : p.id < q.id \/ \E x \in 1 .. Len(memory[held]) : q = memory[held][x]
    BY <1>1, DrainTakes
  <1>3. /\ \A q \in waiting : q.id \in 1 .. arrived /\ q.id \in Nat /\ Stamp(q.id) \in Nat /\ Known(q)
        /\ \A i \in DOMAIN taken : /\ taken[i].id \in 1 .. arrived /\ taken[i].id \in Nat
                                   /\ Stamp(taken[i].id) \in Nat /\ Known(taken[i])
    BY <1>1, ChannelTyped DEF ChannelInv
  <1>4. arrived' = arrived BY DEF Drain, kernelVars
  \* What is still to come is not before p, but by the retire time within its block.
  <1>5. ASSUME NEW q \in waiting, q # p
        PROVE  /\ p.port = q.port => p.id < q.id
               /\ Stamp(p.id) - Stamp(q.id) <= RetireAfter
    <2>1. p.id # q.id BY <1>1, <1>5 DEF ChannelInv
    <2>2. p.port = q.port => p.id < q.id BY <1>2, <1>3, <2>1
    <2>3. CASE p.id < q.id
      <3>1. Stamp(p.id) <= Stamp(q.id) BY <1>1, <1>3, <2>3 DEF ArrivalInv
      <3> QED BY <1>3, <2>2, <3>1, RetireAssumption
    <2>4. CASE \E x \in 1 .. Len(memory[held]) : q = memory[held][x]
      <3>1. Stamp(p.id) - Stamp(q.id) <= RetireAfter BY <1>1, <1>2, <2>4 DEF BlockInv
      <3> QED BY <2>2, <3>1
    <2> QED BY <1>2, <2>3, <2>4
  <1>6. /\ DOMAIN taken' = 1 .. Len(taken) + 1 /\ taken'[Len(taken) + 1] = p
        /\ \A i \in DOMAIN taken : taken'[i] = taken[i]
        /\ DOMAIN taken = 1 .. Len(taken) /\ Len(taken) \in Nat
    <2>1. taken \in Seq(Packet) BY <1>1, PTyped
    <2> QED BY <1>2, <2>1, Appended
  <1> DEFINE n == Len(taken)
  <1> HIDE DEF n
  <1>7. /\ DOMAIN taken' = 1 .. n + 1 /\ taken'[n + 1] = p /\ n \in Nat
        /\ \A i \in 1 .. n : taken'[i] = taken[i] /\ i \in DOMAIN taken
        /\ \A i \in 1 .. n + 1 : i = n + 1 \/ i \in 1 .. n
    <2>1. DOMAIN taken' = 1 .. n + 1 /\ taken'[n + 1] = p /\ n \in Nat /\ DOMAIN taken = 1 .. n BY <1>6 DEF n
    <2> QED BY <1>6, <2>1
  <1>8. ASSUME NEW i \in 1 .. n
        PROVE  /\ Known(taken[i])
               /\ \A q \in waiting : /\ taken[i].port = q.port => taken[i].id < q.id
                                     /\ Stamp(taken[i].id) - Stamp(q.id) <= RetireAfter
               /\ \A j \in 1 .. n : i < j =>
                    /\ taken[i].port = taken[j].port => taken[i].id < taken[j].id
                    /\ Stamp(taken[i].id) - Stamp(taken[j].id) <= RetireAfter
    BY <1>1, <1>7 DEF ChannelInv
  <1>9. ASSUME NEW i \in 1 .. n + 1
        PROVE  /\ Known(taken'[i])
               /\ \A q \in waiting \ {p} : /\ taken'[i].port = q.port => taken'[i].id < q.id
                                           /\ Stamp(taken'[i].id) - Stamp(q.id) <= RetireAfter
               /\ \A j \in 1 .. n + 1 : i < j =>
                    /\ taken'[i].port = taken'[j].port => taken'[i].id < taken'[j].id
                    /\ Stamp(taken'[i].id) - Stamp(taken'[j].id) <= RetireAfter
    <2>1. CASE i \in 1 .. n
      <3>1. \A j \in 1 .. n + 1 : i < j =>
              /\ taken[i].port = taken'[j].port => taken[i].id < taken'[j].id
              /\ Stamp(taken[i].id) - Stamp(taken'[j].id) <= RetireAfter
        BY <1>7, <1>8, <2>1
      <3>2. taken'[i] = taken[i] BY <1>7, <2>1
      <3> QED BY <1>8, <2>1, <3>1, <3>2
    <2>2. CASE i = n + 1
      <3>1. taken'[i] = p BY <1>7, <2>2
      <3>2. \A j \in 1 .. n + 1 : ~ (i < j) BY <1>7, <2>2
      <3> QED BY <1>3, <1>5, <3>1, <3>2
    <2> QED BY <1>7, <2>1, <2>2
  <1>10. \A q \in waiting \ {p} : Known(q) /\ \A r \in waiting \ {p} : q.id = r.id => q = r
    BY <1>1, <1>3 DEF ChannelInv
  <1> QED BY <1>2, <1>4, <1>7, <1>9, <1>10 DEF ChannelInv, Known, Stamp

\* Every step of the ring leaves the channel in order, by port and by stamp.
LEMMA ChannelStep == PInv /\ [PNext]_allVars => ChannelInv'
  <1> SUFFICES ASSUME PInv, [PNext]_allVars PROVE ChannelInv' OBVIOUS
  <1>1. IInv BY DEF PInv
  <1>2. ASSUME RingStep, received' = received PROVE ChannelInv'
    <2>1. waiting' \subseteq waiting
      BY <1>1, <1>2, RetireMapped, SetUpMapped, GiveUpEmpties, NextBlockMapped, FillMapped, GroupMapped, RecycleMapped
         DEF RingStep
    <2>2. UNCHANGED <<taken, arrived>>
      BY <1>2 DEF RingStep, Retire, SetUp, GiveUp, NextBlock, Fill, Group, Recycle, kernelVars, threadVars
    <2> QED BY <1>2, <2>1, <2>2, ChannelQuiet
  <1>3. ASSUME UNCHANGED vars, received' = received PROVE ChannelInv'
    <2>1. waiting' = waiting
      BY <1>3 DEF vars, kernelVars, threadVars, waiting, InHand, InBlock, At, Busy, Block
    <2>2. UNCHANGED <<taken, arrived>> BY <1>3 DEF vars, kernelVars, threadVars
    <2> QED BY <1>3, <2>1, <2>2, ChannelQuiet
  <1> QED BY <1>2, <1>3, ChannelArrival, ChannelDrain, Kinds

----------------------------------------------------------------------------
(* The flow half keeps the order of the channel.                           *)

\* Types of the flow half, and the key of what is filed.
LEMMA FlowTyped ==
  ASSUME PInv
  PROVE  /\ queue \in Seq(FP!Packet) /\ DOMAIN queue = 1 .. Len(queue) /\ Len(queue) \in Nat
         /\ \A i \in DOMAIN queue : queue[i].data \in Frame /\ queue[i].data.id \in Nat
         /\ \A k \in DOMAIN table :
              /\ k # NoKey /\ table[k].count \in Nat
              /\ \A i \in 1 .. table[k].count : /\ Entry(table[k], i) \in Frame /\ Entry(table[k], i).id \in Nat
                                                /\ Key(Entry(table[k], i).header) = k
  <1>1. FP!IInv BY DEF PInv
  <1>2. FP!FlowKeyAssumption /\ FP!SizeAssumption /\ FP!NoneAssumption BY FlowTableAssumed
  <1>3. /\ queue \in Seq(FP!Packet) /\ Len(queue) \in Nat
        /\ \A i \in 1 .. Len(queue) : queue[i] \in FP!Packet
        /\ \A k \in DOMAIN table : table[k].count \in 0 .. Slots
    BY <1>1, <1>2, FP!Typed
  <1>4. DOMAIN queue = 1 .. Len(queue) BY <1>3
  <1>5. \A d \in Frame : d.id \in Nat BY RingAssumption DEF Frame
  <1>6. \A m \in FP!Packet : m.data \in Frame BY DEF FP!Packet
  <1>7. ASSUME NEW k \in DOMAIN table
        PROVE  /\ k # NoKey /\ table[k].count \in Nat
               /\ \A i \in 1 .. table[k].count : /\ Entry(table[k], i) \in Frame
                                                 /\ Key(Entry(table[k], i).header) = k
    <2>1. k # NoKey BY <1>1, <1>7 DEF FP!IInv, FP!TypeOK
    <2>2. table[k].count \in Nat BY <1>3, <1>7, FlowAssumption
    <2>3. ASSUME NEW i \in 1 .. table[k].count
          PROVE  Entry(table[k], i) \in Frame /\ Key(Entry(table[k], i).header) = k
      <3>1. table[k].buffer[FP!OrderedSlot(table[k], i)] \in FP!Packet
        BY <1>1, <1>7, <2>3 DEF FP!IInv, FP!RingsAgree, FP!RingOK
      <3>2. Entry(table[k], i) \in Frame BY <1>6, <3>1 DEF Entry
      <3>3. [d \in Frame |-> Key(d.header)][Entry(table[k], i)] = k
        BY <1>1, <1>7, <2>3 DEF FP!IInv, FP!Segregated, Entry
      <3> HIDE DEF Entry
      <3> QED BY <3>2, <3>3
    <2> QED BY <2>1, <2>2, <2>3
  <1> HIDE DEF Entry
  <1> QED BY <1>3, <1>4, <1>5, <1>6, <1>7

\* A packet that still waits is later than those of its group that were handed on.
LEMMA LaterThanHanded ==
  ASSUME PInv, NEW p \in waiting, NEW e, HandedOn(e), PortGroup(e) = PortKey(received[p.id].header)
  PROVE  e.id < p.id
  <1>1. PICK i \in DOMAIN taken : taken[i].id = e.id BY DEF HandedOn
  <1>2. e.header = received[e.id].header BY DEF HandedOn
  <1>3. /\ e.id \in 1 .. arrived /\ taken[i].port = PortKey(e.header)
        /\ p.id \in 1 .. arrived /\ p.port = PortKey(received[p.id].header)
    BY <1>1, <1>2 DEF PInv, ChannelInv, Known
  <1>4. taken[i].port = p.port BY <1>3 DEF PortGroup
  <1> QED BY <1>1, <1>4 DEF PInv, ChannelInv

\* What was handed on stays so.
LEMMA HandedOnKept ==
  ASSUME PInv, [PNext]_allVars, NEW d, HandedOn(d)
  PROVE  (\E i \in DOMAIN taken' : taken'[i].id = d.id) /\ d.header = received'[d.id].header
  <1>1. IInv /\ FP!IInv /\ ArrivalInv BY DEF PInv
  <1>2. PICK i \in DOMAIN taken : taken[i].id = d.id BY DEF HandedOn
  <1>3. d.header = received[d.id].header BY DEF HandedOn
  <1>4. d.id \in 1 .. arrived BY <1>2, ChannelTyped
  <1>5. received'[d.id] = received[d.id]
    BY <1>1, <1>4, Arrival, Kinds
  <1>6. i \in DOMAIN taken' /\ taken'[i] = taken[i]
    <2>1. CASE Drain
      <3>1. taken \in Seq(Packet) /\ \E p : taken' = Append(taken, p) BY <1>1, <2>1, PTyped DEF Drain
      <3> QED BY <1>2, <3>1, Appended
    <2>2. CASE \E h \in Headers : Receive(PortKey(h)) BY <1>2, <2>2 DEF Receive, threadVars
    <2>3. CASE RingStep
      BY <1>2, <2>3 DEF RingStep, Retire, SetUp, GiveUp, NextBlock, Fill, Group, Recycle, threadVars
    <2>4. CASE UNCHANGED vars BY <1>2, <2>4 DEF vars, threadVars
    <2> QED BY <2>1, <2>2, <2>3, <2>4, Kinds
  <1> QED BY <1>2, <1>3, <1>5, <1>6

\* A step that only takes packets off the front of the channel or flows out of the table.
LEMMA FlowQuiet ==
  ASSUME PInv, [PNext]_allVars, NEW s \in Nat,
         \A i \in DOMAIN queue' : i \in Nat /\ i + s \in DOMAIN queue /\ queue'[i] = queue[i + s],
         \A k \in DOMAIN table' : k \in DOMAIN table /\ table'[k] = table[k]
  PROVE  FlowInv'
  <1> DEFINE ho(d) == (\E i \in DOMAIN taken' : taken'[i].id = d.id) /\ d.header = received'[d.id].header
  <1>1. FlowInv BY DEF PInv
  <1>2. \A d : HandedOn(d) => ho(d) BY HandedOnKept
  <1> HIDE DEF ho
  <1>3. ASSUME NEW i \in DOMAIN queue'
        PROVE  /\ ho(queue'[i].data)
               /\ \A j \in DOMAIN queue' :
                    (i < j /\ PortGroup(queue'[i].data) = PortGroup(queue'[j].data))
                      => queue'[i].data.id < queue'[j].data.id
    <2>1. i + s \in DOMAIN queue /\ queue'[i] = queue[i + s] /\ i \in Nat OBVIOUS
    <2>2. ho(queue'[i].data) BY <1>1, <1>2, <2>1 DEF FlowInv
    <2>3. ASSUME NEW j \in DOMAIN queue', i < j,
                 PortGroup(queue'[i].data) = PortGroup(queue'[j].data)
          PROVE  queue'[i].data.id < queue'[j].data.id
      <3>1. j + s \in DOMAIN queue /\ queue'[j] = queue[j + s] /\ i + s < j + s BY <2>1, <2>3
      <3> QED BY <1>1, <2>1, <2>3, <3>1 DEF FlowInv
    <2> QED BY <2>2, <2>3
  <1>4. ASSUME NEW k \in DOMAIN table', NEW i \in 1 .. table'[k].count
        PROVE  /\ ho(Entry(table'[k], i))
               /\ \A j \in 1 .. table'[k].count :
                    i < j /\ PortGroup(Entry(table'[k], i)) = PortGroup(Entry(table'[k], j)) =>
                      Entry(table'[k], i).id < Entry(table'[k], j).id
               /\ \A j \in DOMAIN queue' :
                    PortGroup(queue'[j].data) = PortGroup(Entry(table'[k], i)) => Entry(table'[k], i).id < queue'[j].data.id
    <2>1. k \in DOMAIN table /\ table'[k] = table[k] OBVIOUS
    <2> HIDE DEF Entry
    <2>2. ho(Entry(table[k], i)) BY <1>1, <1>2, <2>1 DEF FlowInv
    <2>3. \A j \in 1 .. table[k].count :
            i < j /\ PortGroup(Entry(table[k], i)) = PortGroup(Entry(table[k], j)) =>
              Entry(table[k], i).id < Entry(table[k], j).id
      BY <1>1, <2>1 DEF FlowInv
    <2>4. \A j \in DOMAIN queue :
            PortGroup(queue[j].data) = PortGroup(Entry(table[k], i)) => Entry(table[k], i).id < queue[j].data.id
      BY <1>1, <2>1 DEF FlowInv
    <2> QED BY <2>1, <2>2, <2>3, <2>4
  <1> QED BY <1>3, <1>4 DEF FlowInv, HandedOn, Entry, ho

\* The packet that enters the channel is later than all of its group that are in or behind it.
LEMMA FlowCapture ==
  ASSUME PInv, [PNext]_allVars, Drain, received' = received,
         FP!Capture([id |-> Last(taken').id, header |-> received[Last(taken').id].header])
  PROVE  FlowInv'
  <1> DEFINE ho(d) == (\E i \in DOMAIN taken' : taken'[i].id = d.id) /\ d.header = received'[d.id].header
             e == [id |-> Last(taken').id, header |-> received[Last(taken').id].header]
             m == [timestamp |-> now, data |-> e]
             n == Len(queue)
  <1>1. FlowInv /\ IInv BY DEF PInv
  <1>2. \A d : HandedOn(d) => ho(d) BY HandedOnKept
  <1>3. PICK p \in waiting : taken' = Append(taken, p) /\ Last(taken') = p BY <1>1, DrainTakes
  <1>4. e.id = p.id /\ e.header = received[p.id].header BY <1>3
  <1>5. m.data = e OBVIOUS
  <1>6. table' = table /\ queue' = IF n < QueueCap THEN Append(queue, m) ELSE queue BY DEF FP!Capture
  <1>7. queue \in Seq(FP!Packet) /\ DOMAIN queue = 1 .. n /\ n \in Nat BY FlowTyped
  <1> HIDE DEF e, m, n
  <1>8. ho(e)
    <2>1. taken \in Seq(Packet) BY <1>1 DEF IInv, Types
    <2>2. Len(taken) + 1 \in DOMAIN taken' /\ taken'[Len(taken) + 1] = p BY <1>3, <2>1, Appended
    <2> QED BY <1>4, <2>2
  <1> HIDE DEF ho
  <1>9. \A d : (HandedOn(d) /\ PortGroup(d) = PortGroup(e)) => d.id < e.id
    BY <1>4, LaterThanHanded DEF PortGroup
  <1>10. CASE queue' = queue
    <2>1. \A i \in DOMAIN queue' : i \in Nat /\ i + 0 \in DOMAIN queue /\ queue'[i] = queue[i + 0]
      BY <1>7, <1>10
    <2>2. \A k \in DOMAIN table' : k \in DOMAIN table /\ table'[k] = table[k] BY <1>6
    <2>3. 0 \in Nat OBVIOUS
    <2> QED BY <2>1, <2>2, <2>3, FlowQuiet
  <1>11. CASE queue' = Append(queue, m)
    <2>1. /\ DOMAIN queue' = 1 .. n + 1 /\ queue'[n + 1] = m
          /\ \A i \in 1 .. n : queue'[i] = queue[i] /\ i \in DOMAIN queue
      BY <1>7, <1>11, Appended DEF n
    <2>2. \A i \in 1 .. n + 1 : i = n + 1 \/ i \in 1 .. n BY <1>7
    <2>3. ASSUME NEW i \in 1 .. n + 1
          PROVE  /\ ho(queue'[i].data)
                 /\ \A j \in 1 .. n + 1 :
                      (i < j /\ PortGroup(queue'[i].data) = PortGroup(queue'[j].data))
                        => queue'[i].data.id < queue'[j].data.id
      <3>1. CASE i \in 1 .. n
        <4>1. queue'[i] = queue[i] /\ HandedOn(queue[i].data) BY <1>1, <2>1, <3>1 DEF FlowInv
        <4>2. ASSUME NEW j \in 1 .. n + 1, i < j,
                     PortGroup(queue[i].data) = PortGroup(queue'[j].data)
              PROVE  queue[i].data.id < queue'[j].data.id
          <5>1. CASE j = n + 1
            <6>1. queue'[j].data = e BY <1>5, <2>1, <5>1
            <6> QED BY <1>9, <4>1, <4>2, <6>1
          <5>2. CASE j \in 1 .. n
            <6>1. queue'[j] = queue[j] /\ j \in DOMAIN queue /\ i \in DOMAIN queue BY <2>1, <3>1, <5>2
            <6> QED BY <1>1, <4>2, <6>1 DEF FlowInv
          <5> QED BY <2>2, <5>1, <5>2
        <4> QED BY <1>2, <4>1, <4>2
      <3>2. CASE i = n + 1
        <4>1. ho(queue'[i].data) BY <1>5, <1>8, <2>1, <3>2
        <4>2. \A j \in 1 .. n + 1 : ~ (i < j) BY <1>7, <3>2
        <4> QED BY <4>1, <4>2
      <3> QED BY <2>2, <3>1, <3>2
    <2>4. ASSUME NEW k \in DOMAIN table, NEW i \in 1 .. table[k].count
          PROVE  /\ ho(Entry(table[k], i))
                 /\ \A j \in 1 .. table[k].count :
                      i < j /\ PortGroup(Entry(table[k], i)) = PortGroup(Entry(table[k], j)) =>
                        Entry(table[k], i).id < Entry(table[k], j).id
                 /\ \A j \in 1 .. n + 1 :
                      PortGroup(queue'[j].data) = PortGroup(Entry(table[k], i)) => Entry(table[k], i).id < queue'[j].data.id
      <3>1. /\ HandedOn(Entry(table[k], i))
            /\ \A j \in 1 .. table[k].count :
                 i < j /\ PortGroup(Entry(table[k], i)) = PortGroup(Entry(table[k], j)) =>
                   Entry(table[k], i).id < Entry(table[k], j).id
            /\ \A j \in DOMAIN queue : PortGroup(queue[j].data) = PortGroup(Entry(table[k], i)) => Entry(table[k], i).id < queue[j].data.id
        BY <1>1, <2>4 DEF FlowInv
      <3> HIDE DEF Entry
      <3>2. ASSUME NEW j \in 1 .. n + 1, PortGroup(queue'[j].data) = PortGroup(Entry(table[k], i))
            PROVE  Entry(table[k], i).id < queue'[j].data.id
        <4>1. CASE j = n + 1
          <5>1. queue'[j].data = e BY <1>5, <2>1, <4>1
          <5> QED BY <1>9, <3>1, <3>2, <5>1
        <4>2. CASE j \in 1 .. n BY <2>1, <3>1, <3>2, <4>2
        <4> QED BY <2>2, <4>1, <4>2
      <3> QED BY <1>2, <3>1, <3>2
    <2>5. ASSUME NEW i \in DOMAIN queue'
          PROVE  /\ ho(queue'[i].data)
                 /\ \A j \in DOMAIN queue' :
                      (i < j /\ PortGroup(queue'[i].data) = PortGroup(queue'[j].data))
                        => queue'[i].data.id < queue'[j].data.id
      BY <2>1, <2>3, <2>5
    <2>6. ASSUME NEW k \in DOMAIN table', NEW i \in 1 .. table'[k].count
          PROVE  /\ ho(Entry(table'[k], i))
                 /\ \A j \in 1 .. table'[k].count :
                      i < j /\ PortGroup(Entry(table'[k], i)) = PortGroup(Entry(table'[k], j)) =>
                        Entry(table'[k], i).id < Entry(table'[k], j).id
                 /\ \A j \in DOMAIN queue' :
                      PortGroup(queue'[j].data) = PortGroup(Entry(table'[k], i)) => Entry(table'[k], i).id < queue'[j].data.id
      <3> HIDE DEF Entry
      <3>1. table'[k] = table[k] /\ k \in DOMAIN table /\ i \in 1 .. table[k].count BY <1>6, <2>6
      <3> QED BY <2>1, <2>4, <3>1
    <2> QED BY <2>5, <2>6 DEF FlowInv, HandedOn, Entry, ho
  <1> QED BY <1>6, <1>10, <1>11

\* The packet filed is later than the entries of its group and earlier than what waits of it.
LEMMA FlowProcess ==
  ASSUME PInv, [PNext]_allVars, FP!Process
  PROVE  FlowInv'
  <1> DEFINE ho(d) == (\E i \in DOMAIN taken' : taken'[i].id = d.id) /\ d.header = received'[d.id].header
             pkt == Head(queue)
             key == [d \in Frame |-> Key(d.header)][pkt.data]
  <1>1. FlowInv /\ FP!IInv BY DEF PInv
  <1>2. \A d : HandedOn(d) => ho(d) BY HandedOnKept
  <1>3. FP!FlowKeyAssumption /\ FP!SizeAssumption /\ FP!NoneAssumption BY FlowTableAssumed
  <1>4. queue # <<>> /\ key # NoKey /\ queue' = Tail(queue) /\ FP!ProcessPacket(key, pkt) BY DEF FP!Process
  <1>5. /\ pkt \in FP!Packet /\ \A k \in DOMAIN table : table[k].last_seen_ts <= pkt.timestamp
        /\ \A i \in 1 .. Len(Tail(queue)) : i + 1 \in 1 .. Len(queue) /\ Tail(queue)[i] = queue[i + 1]
        /\ Tail(queue) \in Seq(FP!Packet)
    BY <1>1, <1>3, <1>4, FP!TailOfQueue
  <1>6. pkt.data \in Frame /\ key = Key(pkt.data.header) BY <1>5 DEF FP!Packet
  <1>7. key \in {Key(h) : h \in Headers} \ {NoKey} BY <1>4, <1>6 DEF Frame
  <1>8. /\ 1 \in DOMAIN queue /\ pkt = queue[1]
        /\ DOMAIN queue' = 1 .. Len(Tail(queue)) /\ Len(Tail(queue)) \in Nat
        /\ \A j \in DOMAIN queue' : j \in Nat /\ j + 1 \in DOMAIN queue /\ queue'[j] = queue[j + 1]
    <2>1. queue \in Seq(FP!Packet) /\ DOMAIN queue = 1 .. Len(queue) /\ Len(queue) \in Nat BY FlowTyped
    <2>2. Len(queue) # 0 BY <1>4, <2>1
    <2>3. 1 \in DOMAIN queue /\ pkt = queue[1] BY <2>1, <2>2
    <2>4. DOMAIN queue' = 1 .. Len(Tail(queue)) /\ Len(Tail(queue)) \in Nat BY <1>4, <1>5
    <2>5. \A j \in DOMAIN queue' : j \in Nat /\ j + 1 \in DOMAIN queue /\ queue'[j] = queue[j + 1]
      BY <1>4, <1>5, <2>1, <2>4
    <2> QED BY <2>3, <2>4, <2>5
  <1> HIDE DEF ho, pkt, key
  <1>9. PICK t \in FP!MadeRoom(table, key) :
          table' = FP!Store(t, key, FP!AddPacket(FP!FlowOf(t, key, pkt.timestamp), pkt))
    BY <1>4 DEF FP!ProcessPacket
  <1> DEFINE f == FP!FlowOf(t, key, pkt.timestamp)
             g == FP!AddPacket(f, pkt)
             b(i) == IF f.count < Slots THEN i ELSE i + 1
  <1>10. /\ f \in FP!FlowState /\ (f.count < Slots => f.head = f.count)
         /\ f.count > 0 => key \in DOMAIN table /\ f = table[key]
    BY <1>1, <1>3, <1>5, <1>7, <1>9, FP!FlowTaken
  <1>11. /\ g.buffer[FP!OrderedSlot(g, g.count)] = pkt
         /\ \A i \in 1 .. g.count - 1 :
              /\ b(i) \in 1 .. f.count
              /\ g.buffer[FP!OrderedSlot(g, i)] = f.buffer[FP!OrderedSlot(f, b(i))]
    BY <1>3, <1>5, <1>10, FP!EntriesAfterAdd
  <1>12. f.count \in Nat /\ g.count \in Nat
    <2>1. f.count \in Nat /\ Slots \in Nat BY <1>10, FlowAssumption DEF FP!FlowState
    <2>2. g.count = IF f.count < Slots THEN f.count + 1 ELSE f.count BY DEF FP!AddPacket
    <2> HIDE DEF f, g
    <2> QED BY <2>1, <2>2
  <1>13. /\ DOMAIN t \subseteq DOMAIN table /\ \A k \in DOMAIN t : t[k] = table[k]
    BY <1>1, <1>3, <1>7, <1>9, FP!RoomForKey
  <1>14. \A k \in DOMAIN table' :
           (k = key /\ table'[k] = g) \/ (k \in DOMAIN table /\ table'[k] = table[k])
    BY <1>9, <1>13 DEF FP!Store
  <1> HIDE DEF f, g
  \* The entries of the flow that the packet is filed in.
  <1>15. /\ Entry(g, g.count) = pkt.data
         /\ \A i \in 1 .. g.count - 1 : /\ b(i) \in 1 .. f.count /\ Entry(g, i) = Entry(f, b(i))
                                        /\ \A j \in 1 .. g.count - 1 : i < j => b(i) < b(j)
    BY <1>11, <1>12 DEF Entry
  <1>16. \A i \in 1 .. g.count - 1 : f.count > 0 BY <1>12, <1>15
  <1> HIDE DEF b, Entry
  <1>17. ho(pkt.data) BY <1>1, <1>2, <1>8 DEF FlowInv
  <1>18. \A j \in DOMAIN queue' : PortGroup(queue'[j].data) = PortGroup(pkt.data) => pkt.data.id < queue'[j].data.id
    <2> TAKE j \in DOMAIN queue'
    <2>1. j + 1 \in DOMAIN queue /\ queue'[j] = queue[j + 1] /\ 1 < j + 1
      <3>1. j \in 1 .. Len(Tail(queue)) BY <1>8
      <3> QED BY <1>8, <3>1
    <2> QED BY <1>1, <1>4, <1>6, <1>8, <2>1 DEF FlowInv
  <1>19. ASSUME NEW x \in 1 .. f.count, f.count > 0
         PROVE  /\ HandedOn(Entry(f, x))
                /\ \A y \in 1 .. f.count :
                     x < y /\ PortGroup(Entry(f, x)) = PortGroup(Entry(f, y)) => Entry(f, x).id < Entry(f, y).id
                /\ \A j \in DOMAIN queue : PortGroup(queue[j].data) = PortGroup(Entry(f, x)) => Entry(f, x).id < queue[j].data.id
    BY <1>1, <1>10, <1>19 DEF FlowInv
  <1>20. ASSUME NEW i \in 1 .. g.count
         PROVE  /\ ho(Entry(g, i))
                /\ \A j \in 1 .. g.count :
                     i < j /\ PortGroup(Entry(g, i)) = PortGroup(Entry(g, j)) => Entry(g, i).id < Entry(g, j).id
                /\ \A j \in DOMAIN queue' : PortGroup(queue'[j].data) = PortGroup(Entry(g, i)) => Entry(g, i).id < queue'[j].data.id
    <2>1. CASE i = g.count
      <3>1. \A j \in 1 .. g.count : ~ (i < j) BY <1>12, <2>1
      <3> QED BY <1>15, <1>17, <1>18, <2>1, <3>1
    <2>2. CASE i \in 1 .. g.count - 1
      <3>1. /\ b(i) \in 1 .. f.count /\ f.count > 0 /\ Entry(g, i) = Entry(f, b(i))
            /\ \A j \in 1 .. g.count - 1 : i < j => b(i) < b(j)
        BY <1>15, <1>16, <2>2
      <3>2. ho(Entry(g, i)) BY <1>2, <1>19, <3>1
      <3>3. PortGroup(pkt.data) = PortGroup(Entry(g, i)) => Entry(g, i).id < pkt.data.id BY <1>8, <1>19, <3>1
      <3>4. ASSUME NEW j \in 1 .. g.count, i < j, PortGroup(Entry(g, i)) = PortGroup(Entry(g, j))
            PROVE  Entry(g, i).id < Entry(g, j).id
        <4>1. CASE j = g.count BY <1>15, <3>3, <3>4, <4>1
        <4>2. CASE j \in 1 .. g.count - 1
          <5>1. b(j) \in 1 .. f.count /\ Entry(g, j) = Entry(f, b(j)) /\ b(i) < b(j) BY <1>15, <3>1, <3>4, <4>2
          <5> QED BY <1>19, <3>1, <3>4, <5>1
        <4> QED BY <1>12, <4>1, <4>2
      <3>5. ASSUME NEW j \in DOMAIN queue', PortGroup(queue'[j].data) = PortGroup(Entry(g, i))
            PROVE  Entry(g, i).id < queue'[j].data.id
        <4>1. j + 1 \in DOMAIN queue /\ queue'[j] = queue[j + 1] BY <1>8
        <4> QED BY <1>19, <3>1, <3>5, <4>1
      <3> QED BY <3>2, <3>4, <3>5
    <2> QED BY <1>12, <2>1, <2>2
  <1>21. ASSUME NEW k \in DOMAIN table', NEW i \in 1 .. table'[k].count
         PROVE  /\ ho(Entry(table'[k], i))
                /\ \A j \in 1 .. table'[k].count :
                     i < j /\ PortGroup(Entry(table'[k], i)) = PortGroup(Entry(table'[k], j)) =>
                       Entry(table'[k], i).id < Entry(table'[k], j).id
                /\ \A j \in DOMAIN queue' :
                     PortGroup(queue'[j].data) = PortGroup(Entry(table'[k], i)) => Entry(table'[k], i).id < queue'[j].data.id
    <2>1. CASE k = key /\ table'[k] = g BY <1>20, <2>1
    <2>2. CASE k \in DOMAIN table /\ table'[k] = table[k]
      <3>1. /\ HandedOn(Entry(table[k], i))
            /\ \A j \in 1 .. table[k].count :
                 i < j /\ PortGroup(Entry(table[k], i)) = PortGroup(Entry(table[k], j)) =>
                   Entry(table[k], i).id < Entry(table[k], j).id
            /\ \A j \in DOMAIN queue : PortGroup(queue[j].data) = PortGroup(Entry(table[k], i)) => Entry(table[k], i).id < queue[j].data.id
        BY <1>1, <2>2 DEF FlowInv
      <3> QED BY <1>2, <1>8, <2>2, <3>1
    <2> QED BY <1>14, <2>1, <2>2
  <1>22. ASSUME NEW i \in DOMAIN queue'
         PROVE  /\ ho(queue'[i].data)
                /\ \A j \in DOMAIN queue' :
                     (i < j /\ PortGroup(queue'[i].data) = PortGroup(queue'[j].data))
                       => queue'[i].data.id < queue'[j].data.id
    <2>1. i + 1 \in DOMAIN queue /\ queue'[i] = queue[i + 1] /\ i \in Nat BY <1>8
    <2>2. ho(queue'[i].data) BY <1>1, <1>2, <2>1 DEF FlowInv
    <2>3. ASSUME NEW j \in DOMAIN queue', i < j,
                 PortGroup(queue'[i].data) = PortGroup(queue'[j].data)
          PROVE  queue'[i].data.id < queue'[j].data.id
      <3>1. j + 1 \in DOMAIN queue /\ queue'[j] = queue[j + 1] /\ i + 1 < j + 1 BY <1>8, <2>1, <2>3
      <3> QED BY <1>1, <2>1, <2>3, <3>1 DEF FlowInv
    <2> QED BY <2>2, <2>3
  <1> QED BY <1>21, <1>22 DEF FlowInv, HandedOn, Entry, ho

\* Every step of the flow half keeps the packets of a group in order.
LEMMA FlowStepInv == PInv /\ [PNext]_allVars => FlowInv'
  <1> SUFFICES ASSUME PInv, [PNext]_allVars PROVE FlowInv' OBVIOUS
  <1>1. queue \in Seq(FP!Packet) /\ DOMAIN queue = 1 .. Len(queue) /\ Len(queue) \in Nat BY FlowTyped
  <1>2. ASSUME queue' = queue,
               \A k \in DOMAIN table' : k \in DOMAIN table /\ table'[k] = table[k]
        PROVE  FlowInv'
    <2>1. 0 \in Nat /\ \A i \in DOMAIN queue' : i \in Nat /\ i + 0 \in DOMAIN queue /\ queue'[i] = queue[i + 0]
      BY <1>1, <1>2
    <2> QED BY <1>2, <2>1, FlowQuiet
  <1>3. CASE FP!SkipUnparsed
    <2>1. FP!IInv /\ FP!FlowKeyAssumption /\ FP!SizeAssumption /\ FP!NoneAssumption
      BY FlowTableAssumed DEF PInv
    <2>2. queue # <<>> /\ queue' = Tail(queue) /\ table' = table BY <1>3 DEF FP!SkipUnparsed
    <2>3. /\ Tail(queue) \in Seq(FP!Packet)
          /\ \A i \in 1 .. Len(Tail(queue)) : i + 1 \in 1 .. Len(queue) /\ Tail(queue)[i] = queue[i + 1]
      BY <2>1, <2>2, FP!TailOfQueue
    <2>4. DOMAIN queue' = 1 .. Len(Tail(queue)) /\ Len(Tail(queue)) \in Nat BY <2>2, <2>3
    <2>5. 1 \in Nat /\ \A i \in DOMAIN queue' : i \in Nat /\ i + 1 \in DOMAIN queue /\ queue'[i] = queue[i + 1]
      BY <1>1, <2>2, <2>3, <2>4
    <2>6. \A k \in DOMAIN table' : k \in DOMAIN table /\ table'[k] = table[k] BY <2>2
    <2> QED BY <2>5, <2>6, FlowQuiet
  <1>4. CASE FP!Cleanup
    <2>1. queue' = queue /\ table' = FP!Restrict(table, FP!Retained) BY <1>4 DEF FP!Cleanup
    <2>2. \A k \in DOMAIN table' : k \in DOMAIN table /\ table'[k] = table[k]
      BY <2>1 DEF FP!Restrict, FP!Retained
    <2> QED BY <1>2, <2>1, <2>2
  <1>5. ASSUME UNCHANGED <<queue, table>> PROVE FlowInv' BY <1>2, <1>5
  <1>6. FP!Tick => UNCHANGED <<queue, table>> BY DEF FP!Tick
  <1> QED BY <1>3, <1>4, <1>5, <1>6, FlowCapture, FlowProcess, Kinds

----------------------------------------------------------------------------
(* The properties.                                                         *)

\* At the start nothing has arrived.
LEMMA PInitInv == PInit => PInv
  <1> SUFFICES ASSUME PInit PROVE PInv OBVIOUS
  <1>1. Init /\ received = <<>> /\ FP!Init BY SameFlows DEF PInit
  <1>2. IInv BY <1>1, InitInv
  <1>3. FP!FlowKeyAssumption /\ FP!SizeAssumption /\ FP!NoneAssumption BY FlowTableAssumed
  <1>4. FP!IInv BY <1>1, <1>3, FP!InitInv
  <1>5. arrived = 0 /\ fresh = TRUE /\ taken = <<>> /\ memory = [i \in Block |-> <<>>] BY <1>1 DEF Init
  <1>6. waiting = {} BY <1>1, InitMapped DEF Abstract!Init
  <1>7. queue = <<>> /\ DOMAIN table = {} BY <1>1 DEF FP!Init
  <1>8. received \in Seq([header : Headers, stamp : Nat]) /\ Len(received) = 0 /\ DOMAIN taken = {} /\ DOMAIN queue = {}
    BY <1>1, <1>5, <1>7
  <1>9. \A i \in Block : Len(memory[i]) = 0 BY <1>5
  <1>10. 1 .. 0 = {} OBVIOUS
  <1>11. ArrivalInv BY <1>5, <1>8, <1>10 DEF ArrivalInv
  <1>12. BlockInv BY <1>5, <1>9, <1>10 DEF BlockInv
  <1>13. ChannelInv BY <1>6, <1>8 DEF ChannelInv
  <1>14. FlowInv BY <1>7, <1>8 DEF FlowInv
  <1> QED BY <1>2, <1>4, <1>11, <1>12, <1>13, <1>14 DEF PInv

\* PInv is an invariant of the pipeline.
LEMMA PInvariance == PSpec => []PInv
  <1>1. PInit => PInv BY PInitInv
  <1>2. PInv /\ [PNext]_allVars => PInv'
    BY RingHalf, FlowHalf, ArrivalStep, BlockStep, ChannelStep, FlowStepInv DEF PInv
  <1> QED BY <1>1, <1>2, PTL DEF PSpec

\* The two directions of a connection have one port key.
LEMMA EndsPortKey ==
  ASSUME NEW g, NEW h, HasPorts(g), HasPorts(h), Ends(g) = Ends(h)
  PROVE  PortKey(g) = PortKey(h)
  <1>1. \A a, b : <<a, b>>[2] = b OBVIOUS
  <1>2. ASSUME NEW x PROVE {x.src_port, x.dst_port} = {e[2] : e \in Ends(x)}
    <2> DEFINE s == <<x.src_ip, x.src_port>>
               d == <<x.dst_ip, x.dst_port>>
    <2>1. s[2] = x.src_port /\ d[2] = x.dst_port BY <1>1
    <2>2. Ends(x) = {s, d} BY DEF Ends
    <2> HIDE DEF s, d
    <2> QED BY <2>1, <2>2
  <1>3. {g.src_port, g.dst_port} = {h.src_port, h.dst_port} BY <1>2
  <1> QED BY <1>3 DEF PortKey

\* Packets of a flow that the parsers agree about have one port key.
LEMMA AgreedPortKey ==
  ASSUME NEW g, NEW h, Agreed(g), Agreed(h), Key(g) = Key(h)
  PROVE  PortKey(g) = PortKey(h)
  <1>1. \A a, b, c, d : <<a, b, c, d>>[2] = b /\ <<a, b, c, d>>[4] = d OBVIOUS
  <1>2. ASSUME NEW x, Agreed(x)
        PROVE  HasPorts(x) /\ Key(x)[2] = x.src_port /\ Key(x)[4] = x.dst_port
    <2>1. HasPorts(x) /\ Key(x) = <<x.src_ip, x.src_port, x.dst_ip, x.dst_port>> BY <1>2 DEF Agreed
    <2> HIDE DEF Key
    <2> QED BY <1>1, <2>1
  <1>3. HasPorts(g) /\ Key(g)[2] = g.src_port /\ Key(g)[4] = g.dst_port BY <1>2
  <1>4. HasPorts(h) /\ Key(h)[2] = h.src_port /\ Key(h)[4] = h.dst_port BY <1>2
  <1>5. g.src_port = h.src_port /\ g.dst_port = h.dst_port BY <1>3, <1>4
  <1> QED BY <1>3, <1>4, <1>5 DEF PortKey

\* For every ring, batch size, channel and table, and whatever the two parsers make of the packets:
\* from the kernel to the engine no packet overtakes another of its own conversation, nor, on the
\* way to the rings of the flow table, another of its flow if both are such that the parsers agree.
THEOREM KernelOrderHolds == PSpec => []KernelOrderKept
  <1>1. PInv => KernelOrderKept
    <2> SUFFICES ASSUME PInv PROVE KernelOrderKept OBVIOUS
    <2>1. ChannelInv /\ FlowInv BY DEF PInv
    <2>2. ASSUME NEW i \in DOMAIN taken, NEW j \in DOMAIN taken, i < j,
                 HasPorts(received[taken[i].id].header), HasPorts(received[taken[j].id].header),
                 Ends(received[taken[i].id].header) = Ends(received[taken[j].id].header)
          PROVE  taken[i].id < taken[j].id
      <3>1. PortKey(received[taken[i].id].header) = PortKey(received[taken[j].id].header)
        BY <2>2, EndsPortKey
      <3>2. taken[i].port = taken[j].port BY <2>1, <3>1 DEF ChannelInv, Known
      <3> QED BY <2>1, <2>2, <3>2 DEF ChannelInv
    <2>3. \A d, e : Agreed(d.header) /\ Agreed(e.header) /\ Key(d.header) = Key(e.header) =>
                      PortGroup(d) = PortGroup(e)
      BY AgreedPortKey DEF PortGroup
    <2>4. ASSUME NEW i \in DOMAIN queue, NEW j \in DOMAIN queue, i < j,
                 Agreed(queue[i].data.header), Agreed(queue[j].data.header),
                 Key(queue[i].data.header) = Key(queue[j].data.header)
          PROVE  queue[i].data.id < queue[j].data.id
      <3>1. PortGroup(queue[i].data) = PortGroup(queue[j].data) BY <2>3, <2>4
      <3> QED BY <2>1, <2>4, <3>1 DEF FlowInv
    <2>5. ASSUME NEW k \in DOMAIN table, NEW i \in 1 .. table[k].count, Agreed(Entry(table[k], i).header)
          PROVE  /\ \A j \in 1 .. table[k].count :
                      i < j /\ Agreed(Entry(table[k], j).header) =>
                        Entry(table[k], i).id < Entry(table[k], j).id
                 /\ \A j \in DOMAIN queue : Agreed(queue[j].data.header) /\ Key(queue[j].data.header) = k
                                              => Entry(table[k], i).id < queue[j].data.id
      <3>1. \A j \in 1 .. table[k].count : Key(Entry(table[k], j).header) = k BY FlowTyped
      <3> HIDE DEF Entry
      <3>2. ASSUME NEW j \in 1 .. table[k].count, i < j, Agreed(Entry(table[k], j).header)
            PROVE  Entry(table[k], i).id < Entry(table[k], j).id
        <4>1. PortGroup(Entry(table[k], i)) = PortGroup(Entry(table[k], j)) BY <2>3, <2>5, <3>1, <3>2
        <4> QED BY <2>1, <3>2, <4>1 DEF FlowInv
      <3>3. ASSUME NEW j \in DOMAIN queue, Agreed(queue[j].data.header), Key(queue[j].data.header) = k
            PROVE  Entry(table[k], i).id < queue[j].data.id
        <4>1. PortGroup(queue[j].data) = PortGroup(Entry(table[k], i)) BY <2>3, <2>5, <3>1, <3>3
        <4> QED BY <2>1, <3>3, <4>1 DEF FlowInv
      <3> QED BY <3>2, <3>3
    <2>6. ASSUME NEW k \in DOMAIN table
          PROVE  LET filed == Flows!GetOrderedPackets(table[k])
                     agreed(m) == Agreed(m.data.header)
                 IN  \A i \in DOMAIN filed : agreed(filed[i]) =>
                       /\ \A j \in DOMAIN filed :
                            i < j /\ agreed(filed[j]) => filed[i].data.id < filed[j].data.id
                       /\ \A j \in DOMAIN queue :
                            agreed(queue[j]) /\ Key(queue[j].data.header) = k => filed[i].data.id < queue[j].data.id
      <3> DEFINE filed == Flows!GetOrderedPackets(table[k])
      <3>1. filed = FP!GetOrderedPackets(table[k]) BY SameFlows
      <3>2. DOMAIN filed = 1 .. table[k].count /\ \A i \in DOMAIN filed : filed[i].data = Entry(table[k], i)
        BY <3>1 DEF FP!GetOrderedPackets, Entry
      <3> HIDE DEF filed, Entry
      <3>3. ASSUME NEW i \in DOMAIN filed, Agreed(filed[i].data.header)
            PROVE  /\ \A j \in DOMAIN filed :
                        i < j /\ Agreed(filed[j].data.header) => filed[i].data.id < filed[j].data.id
                   /\ \A j \in DOMAIN queue : Agreed(queue[j].data.header) /\ Key(queue[j].data.header) = k
                                                => filed[i].data.id < queue[j].data.id
        BY <2>5, <3>2, <3>3
      <3> QED BY <3>3 DEF filed
    <2> QED BY <2>2, <2>4, <2>6 DEF KernelOrderKept
  <1> QED BY <1>1, PInvariance, PTL

\* For every ring and every clock: a packet is handed on at most RetireAfter after one that came
\* later, which is the bound on the skew of timestamps that the engine's proofs assume.
THEOREM SkewHolds == PSpec => []SkewBounded
  <1>1. PInv => SkewBounded BY DEF PInv, ChannelInv, SkewBounded, Stamp
  <1> QED BY <1>1, PInvariance, PTL

\* In the pipeline the ring is that of CaptureRing and the flow table that of FlowTable, so what
\* is proved of either alone holds of the program that puts them together.
THEOREM HalvesImplemented == PSpec => Spec /\ Flows!Spec
  <1>1. PInit => Init /\ Flows!Init BY DEF PInit
  <1>2. [PNext]_allVars => [Next]_vars BY RingSteps2
  <1>3. PInv /\ [PNext]_allVars => [Flows!Next]_Flows!vars
    <2>1. (\E d \in Frame : FP!Capture(d)) <=> \E d \in Frame : Flows!Capture(d) BY SameFlows
    <2>2. FP!Next => Flows!Next BY <2>1, SameFlows DEF FP!Next, Flows!Next
    <2>3. FP!vars = Flows!vars BY DEF FP!vars, Flows!vars
    <2>4. FP!vars' = Flows!vars' BY DEF FP!vars, Flows!vars
    <2> QED BY <2>2, <2>3, <2>4, FlowHalfSteps
  <1> QED BY <1>1, <1>2, <1>3, PInvariance, PTL DEF PSpec, Spec, Flows!Spec
----------------------------------------------------------------------------
(* The engine in the pipeline.                                             *)

\* The assumptions of the engine hold for that of the program.
LEMMA EngineAssumed == EP!RuleAssumption /\ EP!LimitAssumption /\ EP!TimeAssumption /\ EP!SkewAssumption
  <1>1. EP!RuleAssumption BY EngineAssumption DEF EP!RuleAssumption, EP!IsFiniteSet, IsFiniteSet
  <1>2. EP!LimitAssumption BY EngineAssumption DEF EP!LimitAssumption
  <1>3. EP!TimeAssumption BY EngineAssumption, RetireAssumption, RingAssumption, FlowAssumption DEF EP!TimeAssumption
  <1>4. EP!SkewAssumption BY EngineAssumption DEF EP!SkewAssumption
  <1> QED BY <1>1, <1>2, <1>3, <1>4

\* Rule matching in the one instance of the engine and in the other.
LEMMA SameMatching ==
  /\ \A p : H!ConnKey(p) = EP!ConnKey(p) /\ H!RevKey(p) = EP!RevKey(p)
  /\ \A p : H!IsNewConn(p) <=> EP!IsNewConn(p)
  /\ \A r, p : H!Track(r, p) = EP!Track(r, p) /\ H!ResolveTrackingKey(r, p) = EP!ResolveTrackingKey(r, p)
  /\ \A r, p, c : H!MatchesRule(r, p, c) <=> EP!MatchesRule(r, p, c)
  <1>1. \A p : H!ConnKey(p) = EP!ConnKey(p) /\ H!RevKey(p) = EP!RevKey(p)
    BY DEF H!ConnKey, EP!ConnKey, H!RevKey, EP!RevKey, H!ResolveSrcIp, EP!ResolveSrcIp, H!ResolveDstIp, EP!ResolveDstIp
  <1>2. \A p : H!IsNewConn(p) <=> EP!IsNewConn(p)
    BY DEF H!IsNewConn, EP!IsNewConn, H!IsTcp, EP!IsTcp, H!IsSyn, EP!IsSyn
  <1>3. \A r, p : H!Track(r, p) = EP!Track(r, p) /\ H!ResolveTrackingKey(r, p) = EP!ResolveTrackingKey(r, p)
    BY DEF H!Track, EP!Track, H!ResolveTrackingKey, EP!ResolveTrackingKey, H!ResolveSrcIp, EP!ResolveSrcIp,
           H!ResolveDstIp, EP!ResolveDstIp
  <1>4. ASSUME NEW r, NEW p, NEW c PROVE H!MatchesRule(r, p, c) <=> EP!MatchesRule(r, p, c)
    <2>1. \A q : H!Carries(p, q) <=> EP!Carries(p, q)
      BY DEF H!Carries, EP!Carries, H!IsTcp, EP!IsTcp, H!ServicePorts, EP!ServicePorts
    <2>2. H!ProtocolMatches(r, p) <=> EP!ProtocolMatches(r, p)
      BY <2>1 DEF H!ProtocolMatches, EP!ProtocolMatches
    <2>3. H!StateMatches(r, p, c) <=> EP!StateMatches(r, p, c)
      BY <1>1 DEF H!StateMatches, EP!StateMatches, H!IsTcp, EP!IsTcp, H!IsSyn, EP!IsSyn
    <2>4. H!IpMatches(r, p) <=> EP!IpMatches(r, p)
      BY DEF H!IpMatches, EP!IpMatches, H!IpFieldMatches, EP!IpFieldMatches
    <2>5. H!DirectionMatches(r, p) <=> EP!DirectionMatches(r, p)
      BY DEF H!DirectionMatches, EP!DirectionMatches, H!ResolveSrcIp, EP!ResolveSrcIp,
             H!ResolveDstIp, EP!ResolveDstIp
    <2>6. (H!ScopeMatches(r) <=> EP!ScopeMatches(r)) /\ (H!PortsMatch(r, p) <=> EP!PortsMatch(r, p))
      BY DEF H!ScopeMatches, EP!ScopeMatches, H!PortsMatch, EP!PortsMatch, H!PortMatches, EP!PortMatches
    <2> QED BY <2>2, <2>3, <2>4, <2>5, <2>6 DEF H!MatchesRule, EP!MatchesRule
  <1> QED BY <1>1, <1>2, <1>3, <1>4

\* The tables after a packet, in either instance.
LEMMA SameTables ==
  ASSUME NEW p, NEW t
  PROVE  /\ H!CleanupDue(t) <=> EP!CleanupDue(t)
         /\ H!TrackAccessPoint(p, t) = EP!TrackAccessPoint(p, t)
         /\ H!TrackClient(p, t) = EP!TrackClient(p, t)
         /\ H!TrackConn(p, t) = EP!TrackConn(p, t)
  <1>1. /\ H!CleanupDue(t) <=> EP!CleanupDue(t)
        /\ H!AccessPoints(t) = EP!AccessPoints(t) /\ H!Clients(t) = EP!Clients(t) /\ H!Conns(t) = EP!Conns(t)
    BY DEF H!CleanupDue, EP!CleanupDue, H!AccessPoints, EP!AccessPoints, H!Clients, EP!Clients,
           H!Conns, EP!Conns, H!Fresh, EP!Fresh, H!Restrict, EP!Restrict
  <1>2. \A f, k, v : H!Insert(f, k, v) = EP!Insert(f, k, v) BY DEF H!Insert, EP!Insert
  <1>3. H!TrackAccessPoint(p, t) = EP!TrackAccessPoint(p, t)
    BY <1>1, <1>2 DEF H!TrackAccessPoint, EP!TrackAccessPoint
  <1>4. H!TrackClient(p, t) = EP!TrackClient(p, t)
    BY <1>1, <1>2 DEF H!TrackClient, EP!TrackClient
  <1>5. H!TrackConn(p, t) = EP!TrackConn(p, t)
    BY <1>1, <1>2, SameMatching DEF H!TrackConn, EP!TrackConn, H!IsTcp, EP!IsTcp,
       H!IsSyn, EP!IsSyn, H!IsSynAck, EP!IsSynAck, H!IsTeardown, EP!IsTeardown
  <1> QED BY <1>1, <1>3, <1>4, <1>5

\* The counters after a packet and the alerts, in either instance.
LEMMA SameCounters ==
  ASSUME NEW p, NEW t
  PROVE  /\ H!Triggered(p, t) = EP!Triggered(p, t)
         /\ H!Touched(p, t) = EP!Touched(p, t) /\ H!Dropped(p, t) = EP!Dropped(p, t)
         /\ H!RateTracked(p, t) = EP!RateTracked(p, t)
         /\ H!ConnTracked(p, t) = EP!ConnTracked(p, t)
         /\ \A i, r : H!Message(i, r, p, t) = EP!Message(i, r, p, t)
  <1>1. \A b : H!Pushed(b, t) = EP!Pushed(b, t)
    BY DEF H!Pushed, EP!Pushed, H!(+), EP!(+), H!SetToBag, EP!SetToBag
  <1>2. \A b, w : H!Recent(b, t, w) = EP!Recent(b, t, w)
    BY DEF H!Recent, EP!Recent, H!Restrict, EP!Restrict
  <1>3. \A b, w : H!CountRecent(b, t, w) = EP!CountRecent(b, t, w)
    <2>1. \A b : H!Count(b) = EP!Count(b)
      BY DEF H!Count, EP!Count, H!Cardinality, EP!Cardinality
    <2> QED BY <1>2, <2>1 DEF H!CountRecent, EP!CountRecent
  <1>4. \A f : H!Tracker(f, t) = EP!Tracker(f, t)
    BY <1>2, SameTables DEF H!Tracker, EP!Tracker, H!PrunedTracker, EP!PrunedTracker
  <1>5. \A f, k : H!Timestamps(f, k) = EP!Timestamps(f, k)
    BY DEF H!Timestamps, EP!Timestamps, H!EmptyBag, EP!EmptyBag, H!SetToBag, EP!SetToBag
  <1>6. \A k : H!RateOf(k, t) = EP!RateOf(k, t) /\ H!ConnsOf(k, p, t) = EP!ConnsOf(k, p, t)
    BY <1>1, <1>4, <1>5, SameMatching DEF H!RateOf, EP!RateOf, H!ConnsOf, EP!ConnsOf
  <1>7. H!Matched(p, t) = EP!Matched(p, t)
    BY SameTables, SameMatching DEF H!Matched, EP!Matched
  <1>8. \A r : H!TooManyRequests(r, p, t) <=> EP!TooManyRequests(r, p, t)
    BY <1>3, <1>6, SameMatching DEF H!TooManyRequests, EP!TooManyRequests
  <1>9. \A r : H!TooManyConns(r, p, t) <=> EP!TooManyConns(r, p, t)
    BY <1>3, <1>4, <1>6, SameMatching DEF H!TooManyConns, EP!TooManyConns
  <1>10. H!Triggered(p, t) = EP!Triggered(p, t)
    BY <1>7, <1>8, <1>9 DEF H!Triggered, EP!Triggered
  <1>11. H!Touched(p, t) = EP!Touched(p, t) /\ H!Dropped(p, t) = EP!Dropped(p, t)
    BY <1>7, <1>10, SameMatching DEF H!Touched, EP!Touched, H!Dropped, EP!Dropped
  <1>12. H!RateTracked(p, t) = EP!RateTracked(p, t)
    BY <1>2, <1>4, <1>6, <1>11 DEF H!RateTracked, EP!RateTracked
  <1>13. H!ConnTracked(p, t) = EP!ConnTracked(p, t)
    BY <1>2, <1>4, <1>6, <1>11, SameMatching DEF H!ConnTracked, EP!ConnTracked
  <1>14. \A r : H!CountToReport(r, p, t) = EP!CountToReport(r, p, t)
    BY <1>3, <1>6, <1>8, SameMatching DEF H!CountToReport, EP!CountToReport
  <1>15. \A i, r : H!Message(i, r, p, t) = EP!Message(i, r, p, t)
    BY <1>14, SameMatching DEF H!Message, EP!Message
  <1> QED BY <1>10, <1>11, <1>12, <1>13, <1>15

\* The two instances of the engine beside its observer are the same.
LEMMA SameEngine ==
  /\ H!HInit <=> EP!HInit
  /\ H!HNext <=> EP!HNext
  /\ H!hvars = EP!hvars
  <1>1. H!Tracks = EP!Tracks
    BY DEF H!Tracks, EP!Tracks, H!Addresses, EP!Addresses
  <1>2. H!HInit <=> EP!HInit
    <2>1. H!Init <=> EP!Init BY DEF H!Init, EP!Init
    <2>2. H!EmptyBag = EP!EmptyBag BY DEF H!EmptyBag, EP!EmptyBag, H!SetToBag, EP!SetToBag
    <2>3. [k \in H!Tracks |-> H!EmptyBag] = [k \in EP!Tracks |-> EP!EmptyBag] BY <1>1, <2>2
    <2>4. {H!ConnKey(p) : p \in Headers} \cup {H!RevKey(p) : p \in Headers}
            = {EP!ConnKey(p) : p \in Headers} \cup {EP!RevKey(p) : p \in Headers}
      BY SameMatching
    <2>5. [k \in {H!ConnKey(p) : p \in Headers} \cup {H!RevKey(p) : p \in Headers} |-> "none"]
            = [k \in {EP!ConnKey(p) : p \in Headers} \cup {EP!RevKey(p) : p \in Headers} |-> "none"]
      BY <2>4
    <2> QED BY <2>1, <2>3, <2>5 DEF H!HInit, EP!HInit
  <1>3. ASSUME NEW p, NEW t PROVE H!ProcessPacket(p, t) <=> EP!ProcessPacket(p, t)
    <2>1. \A S : H!SetToSeqs(S) = EP!SetToSeqs(S)
      BY DEF H!SetToSeqs, EP!SetToSeqs, H!Cardinality, EP!Cardinality
    <2>3. H!Cardinality(H!Triggered(p, t)) = EP!Cardinality(EP!Triggered(p, t))
      BY SameCounters DEF H!Cardinality, EP!Cardinality
    <2>4. (\E order \in H!SetToSeqs(H!Triggered(p, t)) :
             alerts' = [i \in 1 .. Len(order) |-> H!Message(i, order[i], p, t)])
          <=> \E order \in EP!SetToSeqs(EP!Triggered(p, t)) :
                alerts' = [i \in 1 .. Len(order) |-> EP!Message(i, order[i], p, t)]
      BY <2>1, SameCounters
    <2>5. H!Later(t) = EP!Later(t) BY DEF H!Later, EP!Later
    <2> QED BY <2>3, <2>4, <2>5, SameTables, SameCounters DEF H!ProcessPacket, EP!ProcessPacket
  <1>4. ASSUME NEW p, NEW t PROVE H!HProcessPacket(p, t) <=> EP!HProcessPacket(p, t)
    <2>1. \A b : H!Pushed(b, t) = EP!Pushed(b, t)
      BY DEF H!Pushed, EP!Pushed, H!(+), EP!(+), H!SetToBag, EP!SetToBag
    <2>2. H!EmptyBag = EP!EmptyBag BY DEF H!EmptyBag, EP!EmptyBag, H!SetToBag, EP!SetToBag
    <2>4. \A s : H!Seen(s, p, t, TRUE) = EP!Seen(s, p, t, TRUE)
      BY <1>1, <2>1, <2>2, SameCounters DEF H!Seen, EP!Seen
    <2>5. \A s : H!Seen(s, p, t, H!IsNewConn(p)) = EP!Seen(s, p, t, EP!IsNewConn(p))
      BY <1>1, <2>1, <2>2, SameCounters, SameMatching DEF H!Seen, EP!Seen
    <2>3. H!Control(p) = EP!Control(p)
      BY SameMatching DEF H!Control, EP!Control, H!IsTcp, EP!IsTcp, H!IsSyn, EP!IsSyn,
             H!IsSynAck, EP!IsSynAck, H!IsTeardown, EP!IsTeardown
    <2> QED BY <1>3, <2>3, <2>4, <2>5 DEF H!HProcessPacket, EP!HProcessPacket
  <1>5. H!Stamps = EP!Stamps BY DEF H!Stamps, EP!Stamps
  <1>6. H!HNext <=> EP!HNext BY <1>4, <1>5 DEF H!HNext, EP!HNext
  <1>7. H!hvars = EP!hvars BY DEF H!hvars, EP!hvars, H!vars, EP!vars, H!tables, EP!tables
  <1> QED BY <1>2, <1>6, <1>7

----------------------------------------------------------------------------
(* What the engine is given.                                              *)

\* Steps other than handing on leave what was taken as it is.
LEMMA OtherTakesNothing == OtherStep => taken' = taken /\ [PNext]_allVars
  <1> SUFFICES ASSUME OtherStep PROVE taken' = taken BY DEF PNext
  <1>1. \A h \in Headers : Arrive(h) => taken' = taken
    BY DEF Arrive, Receive, threadVars
  <1>2. Retire => taken' = taken BY DEF Retire, threadVars
  <1>3. OtherThreadStep => taken' = taken
    BY DEF OtherThreadStep, SetUp, GiveUp, NextBlock, Fill, Group, Recycle
  <1>4. FlowStep \/ PassTime => taken' = taken
    BY DEF FlowStep, PassTime, ringVars, vars, threadVars
  <1> QED BY <1>1, <1>2, <1>3, <1>4 DEF OtherStep

\* A packet keeps its header and stamp.
LEMMA ReceivedKept ==
  ASSUME PInv, [PNext]_allVars
  PROVE  /\ \A a \in 1 .. arrived : received'[a] = received[a]
         /\ \A i \in DOMAIN taken : received'[taken[i].id] = received[taken[i].id]
  <1>1. \A a \in 1 .. arrived : received'[a] = received[a]
    BY Kinds, Arrival DEF PInv
  <1> QED BY <1>1, ChannelTyped

\* The engine beside, the rest is the pipeline.
LEMMA DetectorSteps == [DNext]_<<allVars, engineVars>> => [PNext]_allVars
  BY DEF DNext, DHandOn, PNext

\* What holds of the pipeline holds of the program.
THEOREM PipelineImplemented == DSpec => PSpec
  <1>1. DInit => PInit BY DEF DInit
  <1> QED BY <1>1, DetectorSteps, PTL DEF DSpec, PSpec

\* The numbers from 1 to n.
LEMMA UpTo == ASSUME NEW n \in Nat PROVE IsFiniteSet(1 .. n) /\ Cardinality(1 .. n) = n
  <1>1. 1 \in Int /\ n \in Int OBVIOUS
  <1>2. IsFiniteSet(1 .. n) /\ Cardinality(1 .. n) = IF 1 > n THEN 0 ELSE n - 1 + 1 BY <1>1, FS_Interval
  <1> QED BY <1>2

\* A packet is handed on once, so no more are handed on than came.
LEMMA TakenOnce == PInv => Len(taken) \in Nat /\ Len(taken) <= arrived
  <1> SUFFICES ASSUME PInv PROVE Len(taken) \in Nat /\ Len(taken) <= arrived OBVIOUS
  <1>1. /\ arrived \in Nat /\ taken \in Seq(Packet) /\ DOMAIN taken = 1 .. Len(taken)
        /\ \A i \in DOMAIN taken : Known(taken[i])
        /\ \A i, j \in DOMAIN taken : (i < j /\ taken[i].port = taken[j].port) => taken[i].id < taken[j].id
    BY PTyped DEF PInv, ChannelInv
  <1>2. Len(taken) \in Nat BY <1>1
  <1> DEFINE id == [i \in 1 .. Len(taken) |-> taken[i].id]
  <1>3. ASSUME NEW i \in DOMAIN taken, NEW j \in DOMAIN taken, i < j PROVE taken[i].id # taken[j].id
    <2> SUFFICES ASSUME taken[i].id = taken[j].id PROVE FALSE OBVIOUS
    <2>1. taken[i].port = taken[j].port BY <1>1 DEF Known
    <2>2. taken[i].id < taken[j].id /\ taken[i].id \in Int BY <1>1, <1>3, <2>1 DEF Known
    <2> QED BY <2>2
  <1>4. id \in Injection(1 .. Len(taken), 1 .. arrived)
    <2>1. id \in [1 .. Len(taken) -> 1 .. arrived] BY <1>1 DEF Known
    <2>2. \A i, j \in 1 .. Len(taken) : id[i] = id[j] => i = j BY <1>1, <1>2, <1>3
    <2> QED BY <2>1, <2>2 DEF Injection, IsInjective
  <1>5. /\ IsFiniteSet(1 .. arrived) /\ Cardinality(1 .. arrived) = arrived
        /\ Cardinality(1 .. Len(taken)) = Len(taken)
    BY <1>1, <1>2, UpTo
  <1> HIDE DEF id
  <1>6. Cardinality(1 .. Len(taken)) <= Cardinality(1 .. arrived) BY <1>4, <1>5, FS_Injection
  <1> QED BY <1>2, <1>5, <1>6

\* The latest timestamp is that of a packet that was taken, or none was.
ClockInv == /\ latest \in Int
            /\ latest = CleanupPeriod \/ \E i \in DOMAIN taken : latest = Timestamp(taken[i].id)

\* The packet handed on in a step, and what the engine is given.
LEMMA HandedOnNow ==
  ASSUME PInv, DHandOn
  PROVE  \E p \in waiting :
           /\ p.id \in 1 .. arrived /\ received[p.id].header \in Headers
           /\ taken' = Append(taken, p) /\ received' = received
           /\ DOMAIN taken = 1 .. Len(taken) /\ Len(taken) \in Nat
           /\ DOMAIN taken' = 1 .. Len(taken) + 1 /\ taken'[Len(taken) + 1] = p
           /\ \A i \in 1 .. Len(taken) : taken'[i] = taken[i]
           /\ H!HProcessPacket(received[p.id].header, Timestamp(p.id))
           /\ Timestamp(p.id) \in Int
  <1>1. Drain /\ received' = received BY DEF DHandOn, HandOn
  <1>2. PICK p \in waiting : taken' = Append(taken, p) /\ Last(taken') = p
    BY <1>1, DrainTakes DEF PInv
  <1>3. p.id \in 1 .. arrived /\ Stamp(p.id) \in Nat /\ received[p.id].header \in Headers
    BY ChannelTyped, PTyped DEF PInv
  <1>4. Timestamp(p.id) \in Int BY <1>3, EngineAssumption DEF Timestamp, Stamp
  <1>5. H!HProcessPacket(received[p.id].header, Timestamp(p.id)) BY <1>2 DEF DHandOn
  <1>6. taken \in Seq(Packet) BY PTyped DEF PInv
  <1> QED BY <1>1, <1>2, <1>3, <1>4, <1>5, <1>6, Appended

\* Timestamps stay with their packets.
LEMMA ClockInductive == PInv /\ ClockInv /\ [DNext]_<<allVars, engineVars>> => ClockInv'
  <1> SUFFICES ASSUME PInv, ClockInv, [DNext]_<<allVars, engineVars>> PROVE ClockInv' OBVIOUS
  <1>1. CASE DHandOn
    <2>1. PICK p \in waiting :
            /\ taken' = Append(taken, p) /\ received' = received
            /\ DOMAIN taken = 1 .. Len(taken) /\ Len(taken) \in Nat
            /\ DOMAIN taken' = 1 .. Len(taken) + 1 /\ taken'[Len(taken) + 1] = p
            /\ \A i \in 1 .. Len(taken) : taken'[i] = taken[i]
            /\ H!HProcessPacket(received[p.id].header, Timestamp(p.id))
            /\ Timestamp(p.id) \in Int
      BY <1>1, HandedOnNow
    <2>2. latest' = IF latest < Timestamp(p.id) THEN Timestamp(p.id) ELSE latest
      BY <2>1 DEF H!HProcessPacket, H!ProcessPacket, H!Later
    <2>3. \A id : Timestamp(id)' = Timestamp(id) BY <2>1 DEF Timestamp
    <2>4. CASE latest' = Timestamp(p.id)
      <3>1. Len(taken) + 1 \in DOMAIN taken' BY <2>1
      <3> QED BY <2>1, <2>3, <2>4, <3>1 DEF ClockInv
    <2>5. CASE latest' = latest
      <3>1. \A i \in DOMAIN taken : i \in DOMAIN taken' /\ taken'[i] = taken[i] BY <2>1
      <3> QED BY <2>1, <2>3, <2>5, <3>1 DEF ClockInv
    <2> QED BY <2>2, <2>4, <2>5
  <1>2. ASSUME OtherStep, UNCHANGED engineVars PROVE ClockInv'
    <2>1. taken' = taken /\ latest' = latest /\ [PNext]_allVars
      BY <1>2, OtherTakesNothing DEF engineVars
    <2>2. \A i \in DOMAIN taken : received'[taken[i].id] = received[taken[i].id]
      BY <1>2, <2>1, ReceivedKept
    <2> QED BY <2>1, <2>2 DEF ClockInv, Timestamp
  <1>3. CASE UNCHANGED <<allVars, engineVars>>
    BY <1>3 DEF ClockInv, Timestamp, allVars, ringVars, vars, threadVars, engineVars
  <1> QED BY <1>1, <1>2, <1>3 DEF DNext

\* What the engine is given is a packet and timestamp that Engine allows.
LEMMA HandOnAllowed == PInv /\ PInv' /\ ClockInv /\ DHandOn => H!HNext
  <1> SUFFICES ASSUME PInv, PInv', ClockInv, DHandOn PROVE H!HNext OBVIOUS
  <1>1. PICK p \in waiting :
          /\ p.id \in 1 .. arrived /\ received[p.id].header \in Headers
          /\ taken' = Append(taken, p) /\ received' = received
          /\ DOMAIN taken = 1 .. Len(taken) /\ Len(taken) \in Nat
          /\ DOMAIN taken' = 1 .. Len(taken) + 1
          /\ H!HProcessPacket(received[p.id].header, Timestamp(p.id))
          /\ Timestamp(p.id) \in Int
    BY HandedOnNow
  <1>2. Len(taken) < MaxPackets
    <2>1. Len(taken') = Len(taken) + 1
      BY <1>1, PTyped, Appended DEF PInv
    <2>2. Len(taken') \in Nat /\ Len(taken') <= arrived' /\ arrived' <= MaxPackets /\ arrived' \in Nat
      <3>1. (PInv => Len(taken) \in Nat /\ Len(taken) <= arrived)' BY TakenOnce, PTL
      <3>2. Len(taken') \in Nat /\ Len(taken') <= arrived' BY <3>1
      <3>3. arrived' = arrived BY DEF DHandOn, HandOn, Drain, kernelVars
      <3> QED BY <3>2, <3>3, PTyped DEF PInv
    <2> QED BY <1>1, <2>1, <2>2, RingAssumption
  <1>3. Timestamp(p.id) \in H!Stamps
    <2>1. /\ Stamp(p.id) \in Nat /\ Stamp(p.id) <= now /\ now \in 0 .. MaxTime
      <3>1. now \in 0 .. MaxTime BY DEF PInv, FP!IInv, FP!TypeOK
      <3> QED BY <1>1, <3>1, PTyped DEF PInv
    <2>2. latest - Timestamp(p.id) <= RetireAfter
      <3>1. CASE latest = CleanupPeriod
        BY <2>1, <3>1, EngineAssumption, RetireAssumption DEF Timestamp, Stamp
      <3>2. ASSUME NEW i \in DOMAIN taken, latest = Timestamp(taken[i].id)
            PROVE  latest - Timestamp(p.id) <= RetireAfter
        <4>1. Stamp(taken[i].id) - Stamp(p.id) <= RetireAfter /\ Stamp(taken[i].id) \in Nat
          BY ChannelTyped DEF PInv, ChannelInv
        <4> QED BY <2>1, <3>2, <4>1, EngineAssumption DEF Timestamp, Stamp
      <3> QED BY <3>1, <3>2 DEF ClockInv
    <2>3. CleanupPeriod \in Nat /\ MaxTime \in Nat BY EngineAssumption, FlowAssumption
    <2>4. Timestamp(p.id) \in CleanupPeriod .. CleanupPeriod + MaxTime
      BY <2>1, <2>3 DEF Timestamp, Stamp
    <2> QED BY <2>2, <2>4 DEF H!Stamps
  <1> QED BY <1>1, <1>2, <1>3 DEF H!HNext

\* For every ring, block size, retire time and pace of the thread, the engine in the program is
\* called as Engine takes it to be: what is proved of Engine holds of the program.
THEOREM EngineImplemented == DSpec => ImplementsEngine
  <1>1. DInit => H!HInit BY DEF DInit
  <1>2. DInit => ClockInv BY EngineAssumption DEF DInit, H!HInit, H!Init, ClockInv
  <1>3. PInv /\ PInv' /\ ClockInv /\ [DNext]_<<allVars, engineVars>> => [H!HNext]_(H!hvars)
    <2>1. UNCHANGED <<taken, engineVars>> => UNCHANGED H!hvars
      BY DEF engineVars, H!hvars, H!vars, H!tables
    <2>2. UNCHANGED <<allVars, engineVars>> => UNCHANGED <<taken, engineVars>>
      BY DEF allVars, ringVars, vars, threadVars
    <2> QED BY <2>1, <2>2, HandOnAllowed, OtherTakesNothing DEF DNext
  <1> QED BY <1>1, <1>2, <1>3, PipelineImplemented, PInvariance, ClockInductive, PTL DEF DSpec, ImplementsEngine, H!HSpec

\* The same, for the instance that the lemmas about the engine are of.
LEMMA ProgramEngine == DSpec => EP!HSpec
  <1>1. H!HNext <=> EP!HNext BY SameEngine
  <1>2. H!hvars = EP!hvars /\ H!hvars' = EP!hvars'
    BY DEF H!hvars, EP!hvars, H!vars, EP!vars, H!tables, EP!tables
  <1>3. [H!HNext]_(H!hvars) <=> [EP!HNext]_(EP!hvars) BY <1>1, <1>2
  <1>4. H!HInit <=> EP!HInit BY SameEngine
  <1> QED BY <1>3, <1>4, EngineImplemented, PTL DEF ImplementsEngine, H!HSpec, EP!HSpec

----------------------------------------------------------------------------
(* The engine sees the segments of a connection in the order they came.    *)

\* The header of the i-th packet taken.
Taken(i) == received[taken[i].id].header

\* What the observer remembers of a direction, the last of its segments by number told it.
ToldInv ==
  \A k \in DOMAIN control : control[k] # "none" =>
    \E i \in DOMAIN taken :
      /\ Tells(Taken(i), k) = control[k]
      /\ \A j \in DOMAIN taken : Tells(Taken(j), k) # "none" => taken[j].id <= taken[i].id

\* Tells is what the observer takes from a segment.
LEMMA ControlTells ==
  ASSUME NEW h
  PROVE  /\ DOMAIN H!Control(h) = DOMAIN control
         /\ \A k \in DOMAIN control :
              H!Control(h)[k] = IF Tells(h, k) = "none" THEN control[k] ELSE Tells(h, k)
  <1>1. CASE H!IsTcp(h) /\ H!IsSyn(h)
    <2>1. ~ H!IsSynAck(h) /\ ~ H!IsTeardown(h) BY <1>1 DEF H!IsSyn, H!IsSynAck, H!IsTeardown
    <2> QED BY <1>1, <2>1 DEF H!Control, Tells
  <1>2. CASE H!IsTcp(h) /\ H!IsSynAck(h)
    <2>1. ~ H!IsSyn(h) /\ ~ H!IsTeardown(h) BY <1>2 DEF H!IsSyn, H!IsSynAck, H!IsTeardown
    <2> QED BY <1>2, <2>1 DEF H!Control, Tells
  <1>3. CASE H!IsTcp(h) /\ H!IsTeardown(h)
    <2>1. ~ H!IsSyn(h) /\ ~ H!IsSynAck(h) BY <1>3 DEF H!IsSyn, H!IsSynAck, H!IsTeardown
    <2> QED BY <1>3, <2>1 DEF H!Control, Tells
  <1>4. CASE ~ H!IsTcp(h) \/ ~ (H!IsSyn(h) \/ H!IsSynAck(h) \/ H!IsTeardown(h))
    BY <1>4 DEF H!Control, Tells
  <1> QED BY <1>1, <1>2, <1>3, <1>4

\* Segments that tell of one direction are of one conversation, and so have one port key.
LEMMA TellersShareEnds ==
  ASSUME NEW g \in Headers, NEW h \in Headers, NEW k, Tells(g, k) # "none", Tells(h, k) # "none"
  PROVE  PortKey(g) = PortKey(h)
  <1>1. ASSUME NEW x \in Headers, Tells(x, k) # "none"
        PROVE  HasPorts(x) /\ Ends(x) = {<<k[1], k[2]>>, <<k[3], k[4]>>}
    <2>1. H!IsTcp(x) /\ k \in {H!ConnKey(x), H!RevKey(x)} BY <1>1 DEF Tells
    <2>2. HasPorts(x) BY <2>1 DEF H!IsTcp, HasPorts
    <2>3. x.network # "none" BY <2>2, IpAssumption
    <2>4. H!ConnKey(x) = <<x.src_ip, x.src_port, x.dst_ip, x.dst_port>>
          /\ H!RevKey(x) = <<x.dst_ip, x.dst_port, x.src_ip, x.src_port>>
      BY <2>3 DEF H!ConnKey, H!RevKey, H!ResolveSrcIp, H!ResolveDstIp
    <2> QED BY <2>1, <2>2, <2>4 DEF Ends
  <1>2. HasPorts(g) /\ HasPorts(h) /\ Ends(g) = Ends(h) BY <1>1
  <1> QED BY <1>2, EndsPortKey

\* A packet that tells of a direction came after all that told of it before.
LEMMA ToldInductive == PInv /\ ToldInv /\ [DNext]_<<allVars, engineVars>> => ToldInv'
  <1> SUFFICES ASSUME PInv, ToldInv, [DNext]_<<allVars, engineVars>> PROVE ToldInv' OBVIOUS
  <1>1. CASE DHandOn
    <2>1. PICK p \in waiting :
            /\ p.id \in 1 .. arrived /\ received[p.id].header \in Headers
            /\ received' = received
            /\ DOMAIN taken = 1 .. Len(taken) /\ Len(taken) \in Nat
            /\ DOMAIN taken' = 1 .. Len(taken) + 1 /\ taken'[Len(taken) + 1] = p
            /\ \A i \in 1 .. Len(taken) : taken'[i] = taken[i]
            /\ H!HProcessPacket(received[p.id].header, Timestamp(p.id))
      BY <1>1, HandedOnNow
    <2> DEFINE h == received[p.id].header
               n == Len(taken) + 1
               after(i) == received'[taken'[i].id].header
    <2>2. control' = H!Control(h) BY <2>1 DEF H!HProcessPacket
    <2>3. /\ n \in DOMAIN taken' /\ after(n) = h /\ taken'[n].id = p.id
          /\ \A i \in DOMAIN taken : i \in DOMAIN taken' /\ taken'[i] = taken[i] /\ after(i) = Taken(i)
          /\ \A i \in DOMAIN taken' : i = n \/ i \in DOMAIN taken
      BY <2>1 DEF Taken, after
    <2>4. /\ \A i \in DOMAIN taken : /\ taken[i].id \in Nat /\ Taken(i) \in Headers
                                     /\ taken[i].port = PortKey(Taken(i))
                                     /\ taken[i].port = p.port => taken[i].id < p.id
          /\ p.id \in Nat /\ p.port = PortKey(h)
      BY ChannelTyped, PTyped DEF PInv, ChannelInv, Known, Taken
    <2> HIDE DEF h, n, after
    <2> SUFFICES ASSUME NEW k \in DOMAIN control, control'[k] # "none"
                 PROVE  \E i \in DOMAIN taken' :
                          /\ Tells(after(i), k) = control'[k]
                          /\ \A j \in DOMAIN taken' : Tells(after(j), k) # "none" => taken'[j].id <= taken'[i].id
      BY <2>2, ControlTells DEF ToldInv, Taken, Tells, after
    <2>5. CASE Tells(h, k) = "none"
      <3>1. control'[k] = control[k] BY <2>2, <2>5, ControlTells
      <3>2. PICK i \in DOMAIN taken :
              /\ Tells(Taken(i), k) = control[k]
              /\ \A j \in DOMAIN taken : Tells(Taken(j), k) # "none" => taken[j].id <= taken[i].id
        BY <3>1 DEF ToldInv
      <3>3. \A j \in DOMAIN taken' : Tells(after(j), k) # "none" => taken'[j].id <= taken'[i].id
        BY <2>3, <2>5, <3>2
      <3> QED BY <2>3, <3>1, <3>2, <3>3
    <2>6. CASE Tells(h, k) # "none"
      <3>1. control'[k] = Tells(h, k) BY <2>2, <2>6, ControlTells
      <3>2. ASSUME NEW j \in DOMAIN taken, Tells(Taken(j), k) # "none" PROVE taken[j].id <= p.id
        <4>1. h \in Headers BY <2>1 DEF h
        <4>2. PortKey(Taken(j)) = PortKey(h) BY <2>4, <2>6, <3>2, <4>1, TellersShareEnds
        <4> QED BY <2>4, <4>2
      <3>3. \A j \in DOMAIN taken' : Tells(after(j), k) # "none" => taken'[j].id <= taken'[n].id
        BY <2>3, <2>4, <3>2
      <3> QED BY <2>3, <3>1, <3>3
    <2> QED BY <2>5, <2>6
  <1>2. ASSUME OtherStep, UNCHANGED engineVars PROVE ToldInv'
    <2>1. taken' = taken /\ control' = control /\ [PNext]_allVars
      BY <1>2, OtherTakesNothing DEF engineVars
    <2>2. \A i \in DOMAIN taken : Taken(i)' = Taken(i)
      BY <2>1, ReceivedKept DEF Taken
    <2> QED BY <2>1, <2>2 DEF ToldInv, Tells
  <1>3. CASE UNCHANGED <<allVars, engineVars>>
    BY <1>3 DEF ToldInv, Tells, Taken, allVars, ringVars, vars, threadVars, engineVars
  <1> QED BY <1>1, <1>2, <1>3 DEF DNext

\* For every ring, batch size, timeout and pace of the thread: the connection table tells what
\* happened on the wire last, of all segments that got through the ring.
THEOREM ConnsFollowWire == DSpec => []ConnsInKernelOrder
  <1>1. DInit => ToldInv BY DEF DInit, H!HInit, ToldInv
  <1>2. EP!TypeOK /\ EP!ControlInv /\ ToldInv => ConnsInKernelOrder
    <2> SUFFICES ASSUME EP!TypeOK, EP!ControlInv, ToldInv, NEW k \in DOMAIN tcp_conn_table
                 PROVE  \E i \in DOMAIN taken :
                          /\ Tells(Taken(i), k) = tcp_conn_table[k].state
                          /\ \A j \in DOMAIN taken : Tells(Taken(j), k) # "none" => taken[j].id <= taken[i].id
      BY DEF ConnsInKernelOrder, Taken
    <2>1. k \in DOMAIN control /\ tcp_conn_table[k].state = control[k]
      BY DEF EP!ControlInv, EP!StateOfLastControl
    <2>2. control[k] # "none"
      <3>1. tcp_conn_table[k].state \in {"New", "Established", "Closing"} BY DEF EP!TypeOK
      <3> QED BY <2>1, <3>1
    <2> QED BY <2>1, <2>2 DEF ToldInv
  <1>3. DSpec => EP!HSpec BY ProgramEngine
  <1>4. EP!HSpec => []EP!ControlInv BY EngineAssumed, EP!ControlKept
  <1>5. EP!HSpec => []EP!TypeOK BY EngineAssumed, EP!HistoryTypes
  <1> QED BY <1>1, <1>2, <1>3, <1>4, <1>5, ToldInductive, PipelineImplemented, PInvariance, PTL DEF DSpec

----------------------------------------------------------------------------
(* What is proved of Engine, said of the program.                          *)

\* The windows of events in the one instance of the engine and in the other.
LEMMA SameWindows ==
  /\ \A b, t, w : H!Count(H!WindowUpTo(b, t, w)) = EP!Count(EP!WindowUpTo(b, t, w))
  /\ \A b, t : H!Pushed(b, t) = EP!Pushed(b, t)
  <1>1. \A b : H!Count(b) = EP!Count(b) BY DEF H!Count, EP!Count, H!Cardinality, EP!Cardinality
  <1>2. \A b, t, w : H!WindowUpTo(b, t, w) = EP!WindowUpTo(b, t, w)
    BY DEF H!WindowUpTo, EP!WindowUpTo, H!Restrict, EP!Restrict
  <1>3. \A b, t : H!Pushed(b, t) = EP!Pushed(b, t)
    BY DEF H!Pushed, EP!Pushed, H!(+), EP!(+), H!SetToBag, EP!SetToBag
  <1> QED BY <1>1, <1>2, <1>3

\* What is shown of Engine, said of the engine of the program: for every ring, batch size, timeout
\* and pace of the thread, no threshold is passed unnoticed, every alert is deserved, and the
\* engine's memory is bounded by time.
THEOREM ProgramDetects == DSpec => []H!NoUnreportedWindow /\ H!AlertsJustified /\ []H!NothingStale
  <1>1. H!Tracks = EP!Tracks /\ H!Time = EP!Time
    BY DEF H!Tracks, EP!Tracks, H!Addresses, EP!Addresses, H!Time, EP!Time
  <1>2. \A s, w, l : H!NoFullWindow(s, w, l) <=> EP!NoFullWindow(s, w, l)
    BY SameWindows DEF H!NoFullWindow, EP!NoFullWindow
  <1>3. H!NoUnreportedWindow <=> EP!NoUnreportedWindow
    BY <1>1, <1>2 DEF H!NoUnreportedWindow, EP!NoUnreportedWindow
  <1>4. H!NothingStale <=> EP!NothingStale BY DEF H!NothingStale, EP!NothingStale
  <1>5. EP!AlertsJustified => H!AlertsJustified
    <2>1. H!hvars = EP!hvars /\ H!hvars' = EP!hvars'
      BY DEF H!hvars, EP!hvars, H!vars, EP!vars, H!tables, EP!tables
    <2> DEFINE D == \A i \in DOMAIN alerts', r \in Rules :
                 (Len(taken)' # Len(taken) /\ r.id = alerts'[i].rule) =>
                   LET k == <<r.id, alerts'[i].sender>>
                       enough(seen, w, limit) ==
                         \E t \in H!Time : H!Count(H!WindowUpTo(H!Pushed(seen, packet_time'), t, w + RetireAfter)) >= limit
                   IN  \/ r.max_rps # None /\ enough(seenPackets[k], Second, r.max_rps)
                       \/ r.connections # None /\ enough(seenConns[k], r.interval, r.connections)
           E == \A i \in DOMAIN alerts', r \in Rules :
                 (Len(taken)' # Len(taken) /\ r.id = alerts'[i].rule) =>
                   LET k == <<r.id, alerts'[i].sender>>
                       enough(seen, w, limit) ==
                         \E t \in EP!Time : EP!Count(EP!WindowUpTo(EP!Pushed(seen, packet_time'), t, w + RetireAfter)) >= limit
                   IN  \/ r.max_rps # None /\ enough(seenPackets[k], Second, r.max_rps)
                       \/ r.connections # None /\ enough(seenConns[k], r.interval, r.connections)
    <2>2. E => D
      <3>1. \A s, t, w : H!Count(H!WindowUpTo(H!Pushed(s, packet_time'), t, w + RetireAfter))
                         = EP!Count(EP!WindowUpTo(EP!Pushed(s, packet_time'), t, w + RetireAfter))
        BY SameWindows
      <3> QED BY <1>1, <3>1
    <2>3. [E]_(EP!hvars) => [D]_(H!hvars) BY <2>1, <2>2
    <2> QED BY <2>3, PTL DEF H!AlertsJustified, EP!AlertsJustified
  <1>6. EP!HSpec => []EP!NoUnreportedWindow BY EngineAssumed, EP!ThresholdsReported
  <1>7. EP!HSpec => EP!AlertsJustified BY EngineAssumed, EP!AlertsDeserved
  <1>8. EP!HSpec => []EP!NothingStale
    <2>1. EP!Spec => []EP!NothingStale BY EngineAssumed, EP!MemoryBoundedByTime
    <2>2. EP!HSpec => EP!Spec BY EngineAssumed, EP!ObserverHarmless
    <2> QED BY <2>1, <2>2, PTL
  <1> QED BY <1>3, <1>4, <1>5, <1>6, <1>7, <1>8, ProgramEngine, PTL
=============================================================================
