----------------------------- MODULE FlowTable -----------------------------
(***************************************************************************)
(* The flow half of the detector (src/src/flow_table.rs) with the three    *)
(* activities of main.rs that use it:                                      *)
(*                                                                         *)
(*  - the capture thread stamps a frame and offers it to a bounded channel *)
(*    without waiting (Capture);                                           *)
(*  - the processor task takes one message at a time, derives the flow key *)
(*    and files the packet in the table (SkipUnparsed, ProcessPacket);     *)
(*  - the cleanup task drops the idle flows (Cleanup).                     *)
(*                                                                         *)
(* Both users of the table hold its mutex for the whole call, so each call *)
(* is one step.  The steps of the three interleave freely with the clock.  *)
(* The cleanup task runs every 10 s; the model lets it run at any time,    *)
(* which covers every such schedule.                                       *)
(*                                                                         *)
(* A flow keeps its last Slots packets (100 in the code) in a ring and     *)
(* reports a burst when a packet finds the ring full and its oldest entry  *)
(* younger than Window (60 s).                                             *)
(***************************************************************************)
EXTENDS Integers, Sequences, FiniteSets, Functions

CONSTANTS
  FlowKey,   \* 4-tuples (src_ip, src_port, dst_ip, dst_port)
  NoKey,     \* what FlowKeyOf gives for bytes that parse_flow_key rejects
  Data,      \* the contents a frame may have
  FlowKeyOf, \* parse_flow_key, as a function of the frame's contents
  None,      \* an empty slot of a ring; no burst
  Slots,     \* capacity of a ring, 100 in the code
  Window,    \* burst and idle threshold in time units, 60 s in the code
  MaxFlows,  \* capacity of the table, 10_000 in the code
  QueueCap,  \* capacity of the packet channel, 10_000 in the code
  MaxTime    \* bound of the model's clock

ASSUME FlowKeyAssumption == FlowKeyOf \in [Data -> FlowKey \cup {NoKey}] /\ NoKey \notin FlowKey
ASSUME SizeAssumption == /\ Slots \in Nat \ {0} /\ MaxFlows \in Nat \ {0}
                         /\ Window \in Nat /\ QueueCap \in Nat /\ MaxTime \in Nat

VARIABLES
  now,    \* Instant::now()
  queue,  \* the tokio channel: packets, oldest first
  table,  \* SharedState.flow_table, a function from the tracked keys
  burst   \* what the last step handed to pcap_logger::log_burst

vars == <<now, queue, table, burst>>

Slot == 0 .. Slots - 1
Packet == [timestamp : Nat, data : Data]
Report == [key : FlowKey, at : Nat, packets : Seq(Packet)]
ASSUME NoneAssumption == None \notin Packet /\ None \notin Report

FlowState == [buffer : [Slot -> Packet \cup {None}], timestamps : [Slot -> Nat],
              head : Slot, count : 0 .. Slots, oldest_ts : Nat, last_seen_ts : Nat]

----------------------------------------------------------------------------
(* FlowState: one flow's ring.                                             *)

NewFlow(ts) == [buffer |-> [i \in Slot |-> None], timestamps |-> [i \in Slot |-> ts],
                head |-> 0, count |-> 0, oldest_ts |-> ts, last_seen_ts |-> ts]

\* Variant: the head does not wrap.
NextSlotUnwrapped(i) == i + 1

\* (head + 1) % 100
NextSlot(i) == (i + 1) % Slots

\* Variant: a full ring is read from the slot after its oldest.
OrderedSlotSkipsOldest(f, i) == IF f.count < Slots THEN i - 1 ELSE (f.head + i) % Slots

\* Index of the i-th oldest entry, i from 1.
OrderedSlot(f, i) == IF f.count < Slots THEN i - 1 ELSE (f.head + i - 1) % Slots

\* The entries, oldest first.  The code skips empty slots; RingsAgree shows there are none.
GetOrderedPackets(f) == [i \in 1 .. f.count |-> f.buffer[OrderedSlot(f, i)]]

\* duration_since, with the code's 0 for a clock that went back.
Elapsed(later, earlier) == IF later >= earlier THEN later - earlier ELSE 0

\* Variant: the comparison includes the end of the window.
BurstDetectedInclusive(f, pkt) == f.count = Slots /\ Elapsed(pkt.timestamp, f.oldest_ts) <= Window

\* The verdict of add_packet, on the flow as it is before pkt is stored.
BurstDetected(f, pkt) == f.count = Slots /\ Elapsed(pkt.timestamp, f.oldest_ts) < Window

\* Variant: oldest_ts is read from the slot that was overwritten, not the next.
AddPacketStaleOldest(f, pkt) ==
  [f EXCEPT !.buffer[f.head] = pkt, !.timestamps[f.head] = pkt.timestamp, !.head = NextSlot(@),
            !.count = IF @ < Slots THEN @ + 1 ELSE @, !.last_seen_ts = pkt.timestamp,
            !.oldest_ts = IF f.count = 0 THEN pkt.timestamp ELSE f.timestamps[f.head]]

\* The flow as add_packet leaves it.
AddPacket(f, pkt) ==
  LET stamps == [f.timestamps EXCEPT ![f.head] = pkt.timestamp]
  IN  [buffer |-> [f.buffer EXCEPT ![f.head] = pkt],
       timestamps |-> stamps,
       head |-> NextSlot(f.head),
       count |-> IF f.count < Slots THEN f.count + 1 ELSE f.count,
       oldest_ts |-> IF f.count = Slots THEN stamps[NextSlot(f.head)]
                     ELSE IF f.count = 0 THEN pkt.timestamp ELSE f.oldest_ts,
       last_seen_ts |-> pkt.timestamp]

----------------------------------------------------------------------------
(* SharedState: the table.                                                 *)

\* Variant: the comparison of the scan is the wrong way round.
MostRecent(t) == {k \in DOMAIN t : \A j \in DOMAIN t : t[k].last_seen_ts >= t[j].last_seen_ts}

\* The candidates of the eviction scan: the code keeps the first strict minimum that the
\* unordered HashMap iteration meets, so any of the minima.
LeastRecent(t) == {k \in DOMAIN t : \A j \in DOMAIN t : t[k].last_seen_ts <= t[j].last_seen_ts}

\* Variant: eviction starts one flow too late.
MadeRoomLate(t, key) ==
  IF key \in DOMAIN t \/ Cardinality(DOMAIN t) <= MaxFlows
  THEN {t}
  ELSE {Restrict(t, DOMAIN t \ {k}) : k \in LeastRecent(t)}

\* The tables process_packet may go on with for key: one flow is evicted only for a new
\* key and only when the table is full.
MadeRoom(t, key) ==
  IF key \in DOMAIN t \/ Cardinality(DOMAIN t) < MaxFlows
  THEN {t}
  ELSE {Restrict(t, DOMAIN t \ {k}) : k \in LeastRecent(t)}

\* Variant: a new flow inherits the ring of another.
FlowOfAnother(t, key, ts) == IF DOMAIN t # {} THEN t[CHOOSE k \in DOMAIN t : TRUE] ELSE NewFlow(ts)

\* The flow that will take the packet, inserted empty if it is new.
FlowOf(t, key, ts) == IF key \in DOMAIN t THEN t[key] ELSE NewFlow(ts)

Store(t, key, flow) == [k \in DOMAIN t \cup {key} |-> IF k = key THEN flow ELSE t[k]]

\* Variant: the operands of duration_since are swapped.
RetainedSwapped == {k \in DOMAIN table : Elapsed(table[k].last_seen_ts, now) <= Window}

\* Variant: flows idle for exactly the threshold go too.
RetainedStrict == {k \in DOMAIN table : Elapsed(now, table[k].last_seen_ts) < Window}

\* The flows cleanup_inactive_flows keeps.
Retained == {k \in DOMAIN table : Elapsed(now, table[k].last_seen_ts) <= Window}

----------------------------------------------------------------------------
Init == now = 0 /\ queue = <<>> /\ table = [k \in {} |-> None] /\ burst = None

\* Time passes, up to the bound of the model.
Tick == now < MaxTime /\ now' = now + 1 /\ burst' = None /\ UNCHANGED <<queue, table>>

\* try_send: stamped on the way in, thrown away when the channel is full.
Capture(d) ==
  /\ queue' = IF Len(queue) < QueueCap THEN Append(queue, [timestamp |-> now, data |-> d]) ELSE queue
  /\ burst' = None
  /\ UNCHANGED <<now, table>>

\* Variant: a rejected packet stays at the head.
SkipUnparsedStays ==
  /\ queue # <<>> /\ FlowKeyOf[Head(queue).data] = NoKey
  /\ burst' = None /\ UNCHANGED <<now, queue, table>>

\* The processor task drops what parse_flow_key rejects.
SkipUnparsed ==
  /\ queue # <<>> /\ FlowKeyOf[Head(queue).data] = NoKey
  /\ queue' = Tail(queue) /\ burst' = None
  /\ UNCHANGED <<now, table>>

\* process_packet under the mutex, and the processor task's use of its answer.
ProcessPacket(key, pkt) ==
  \E t \in MadeRoom(table, key) :
    LET flow == FlowOf(t, key, pkt.timestamp)
    IN  /\ table' = Store(t, key, AddPacket(flow, pkt))
        /\ burst' = IF BurstDetected(flow, pkt)
                    THEN [key |-> key, at |-> pkt.timestamp, packets |-> GetOrderedPackets(flow)]
                    ELSE None

Process ==
  /\ queue # <<>> /\ FlowKeyOf[Head(queue).data] # NoKey
  /\ ProcessPacket(FlowKeyOf[Head(queue).data], Head(queue))
  /\ queue' = Tail(queue)
  /\ UNCHANGED now

\* cleanup_inactive_flows under the mutex.
Cleanup == table' = Restrict(table, Retained) /\ burst' = None /\ UNCHANGED <<now, queue>>

Next == Tick \/ (\E d \in Data : Capture(d)) \/ SkipUnparsed \/ Process \/ Cleanup

Spec == Init /\ [][Next]_vars

\* The processor task loops on recv and the cleanup task on its interval for as long as the
\* program runs and standard output takes their lines: a println! that fails ends the task
\* (PrintLine of Reporting).  Neither frames nor the clock are promised.
FairSpec == Spec /\ WF_vars(SkipUnparsed \/ Process) /\ WF_vars(Cleanup)
----------------------------------------------------------------------------
(* Properties.                                                             *)

\* Types of the state: the table is a partial function from keys to flows.
TypeOK ==
  /\ now \in 0 .. MaxTime
  /\ queue \in Seq(Packet) /\ Len(queue) <= QueueCap
  /\ DOMAIN table \subseteq FlowKey
  /\ table = [k \in DOMAIN table |-> table[k]]
  /\ \A k \in DOMAIN table : table[k] \in FlowState

\* The books of one ring agree, and no tracked flow is empty: its entries, read from the
\* oldest on, are stored packets in order of time under their own timestamps; oldest_ts and
\* last_seen_ts are those of the two ends; until the ring is full the head is the count.
RingOK(f) ==
  /\ f.count > 0 /\ (f.count < Slots => f.head = f.count)
  /\ \A i \in 1 .. f.count : /\ f.buffer[OrderedSlot(f, i)] \in Packet
                            /\ f.buffer[OrderedSlot(f, i)].timestamp = f.timestamps[OrderedSlot(f, i)]
  /\ \A i, j \in 1 .. f.count :
       i <= j => f.timestamps[OrderedSlot(f, i)] <= f.timestamps[OrderedSlot(f, j)]
  /\ f.oldest_ts = f.timestamps[OrderedSlot(f, 1)]
  /\ f.last_seen_ts = f.timestamps[OrderedSlot(f, f.count)]

\* add_packet keeps the four redundant views of a ring (slots, timestamps, head and count,
\* oldest_ts and last_seen_ts) in agreement, also when it wraps.
RingsAgree == \A k \in DOMAIN table : RingOK(table[k])

\* Flow segregation: a ring holds packets of its own 4-tuple only.
Segregated == \A k \in DOMAIN table : \A i \in 1 .. table[k].count :
                FlowKeyOf[table[k].buffer[OrderedSlot(table[k], i)].data] = k

\* process_packet never lets the table grow past max_flows.
TableBound == Cardinality(DOMAIN table) <= MaxFlows

\* The capture thread is the only sender and stamps in order, so what waits in the channel
\* is in order of time and later than all that is filed.
QueueInOrder ==
  /\ \A i \in 1 .. Len(queue) : queue[i].timestamp <= now
  /\ \A i, j \in 1 .. Len(queue) : i <= j => queue[i].timestamp <= queue[j].timestamp
  /\ \A k \in DOMAIN table : /\ table[k].last_seen_ts <= now
                            /\ \A i \in 1 .. Len(queue) : table[k].last_seen_ts <= queue[i].timestamp

\* What a burst report means: a full ring of packets of that flow, oldest first, all of
\* them captured less than Window before the packet that set it off.
BurstSound ==
  burst # None =>
    /\ Len(burst.packets) = Slots
    /\ \A i \in 1 .. Slots : /\ FlowKeyOf[burst.packets[i].data] = burst.key
                            /\ burst.packets[i].timestamp <= burst.at
                            /\ burst.at - burst.packets[i].timestamp < Window
    /\ \A i, j \in 1 .. Slots : i <= j => burst.packets[i].timestamp <= burst.packets[j].timestamp

\* A flow is lost only when it is idle for more than Window or when MaxFlows flows at
\* least as recent fill the table: neither process_packet nor the cleanup drops another.
LosesOnlyIdleOrLeastRecent ==
  [][\A k \in DOMAIN table \ DOMAIN table' :
       \/ now - table[k].last_seen_ts > Window
       \/ Cardinality({j \in DOMAIN table : table[j].last_seen_ts >= table[k].last_seen_ts}) = MaxFlows]_vars

\* A flow that falls silent leaves the table, or is heard of again.
IdleFlowsLeave ==
  \A k \in FlowKey :
    (k \in DOMAIN table /\ now - table[k].last_seen_ts > Window)
      ~> (k \notin DOMAIN table \/ now - table[k].last_seen_ts <= Window)

\* What the channel accepts is taken, whatever else arrives: once the clock has left an
\* instant behind, the processor gets to the end of the packets stamped until then.
OldPacketsTaken ==
  \A t \in 0 .. MaxTime :
    (now > t /\ queue # <<>> /\ Head(queue).timestamp <= t)
      ~> (queue = <<>> \/ Head(queue).timestamp > t)

----------------------------------------------------------------------------
(* Refinement: a ring is a sequence of the last Slots packets.             *)

recent == [k \in DOMAIN table |-> GetOrderedPackets(table[k])]

Abstract == INSTANCE FlowWindow WITH recent <- recent, now <- now, burst <- burst

\* The ring with its bookkeeping implements a window of the last Slots packets per flow.
ImplementsFlowWindow == Abstract!Spec
=============================================================================
