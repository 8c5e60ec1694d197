------------------------------ MODULE Pipeline ------------------------------
(***************************************************************************)
(* The way of a packet from the kernel to the two detectors                *)
(* (src/src/main.rs): the capture thread of CaptureRing hands each packet  *)
(* to the flow channel, of FlowTable, and to the detection engine.  Two    *)
(* clock readings go with it: the kernel's, from when the packet came, to  *)
(* the engine, and Instant::now() of the moment it is handed on to the     *)
(* flow table.  The engine sees the packets in the order of taken; module  *)
(* Detector adds it.                                                       *)
(*                                                                         *)
(* The kernel is assumed to retire a block RetireAfter (10 ms) after its   *)
(* first packet at the latest.  Nothing is assumed of the pace of the      *)
(* thread, the processor or the cleanup.                                   *)
(***************************************************************************)
EXTENDS CaptureRing

CONSTANTS
  Headers,     \* what the two parsers may make of a packet: the transport, addresses and ports
               \* that parse_packet finds, and the flow that parse_flow_key finds
  NoKey, None, \* of FlowTable
  Slots, Window, MaxFlows, QueueCap, MaxTime,
  RetireAfter  \* tp_retire_blk_tov in time units

ASSUME RetireAssumption == RetireAfter \in Nat

VARIABLES
  received,                 \* header and time of each packet, by its number
  now, queue, table, burst  \* of FlowTable

ringVars == vars
flowVars == <<now, queue, table, burst>>
allVars == <<ringVars, received, flowVars>>

HasPorts(h) == h.transport \in {"tcp", "udp"}

\* Variant: packets are grouped by their source port.
PortKeyOfSource(h) == IF HasPorts(h) THEN h.src_port ELSE 0

\* The port_key of a packet, the same for both directions of a connection.
PortKey(h) == IF HasPorts(h) THEN Min({h.src_port, h.dst_port}) ELSE 0

\* What the flow channel carries, and the flow that parse_flow_key files it under, or NoKey.
\* It looks for less than parse_packet does: four bytes behind an IPv4 header are ports to it,
\* also when the datagram is a first fragment, which parse_udp takes for malformed; and it knows
\* no tags and no IPv6.
Frame == [id : 1 .. MaxPackets, header : Headers]
Key(h) == h.flow

Flows == INSTANCE FlowTable WITH
  FlowKey <- {Key(h) : h \in Headers} \ {NoKey},
  Data <- Frame, FlowKeyOf <- [d \in Frame |-> Key(d.header)]

ASSUME HeaderAssumption == \A h \in Headers : PortKey(h) \in Ports
ASSUME FlowAssumption ==
  /\ Slots \in Nat \ {0} /\ MaxFlows \in Nat \ {0} /\ Window \in Nat /\ QueueCap \in Nat /\ MaxTime \in Nat
  /\ None \notin Flows!Packet /\ None \notin Flows!Report

----------------------------------------------------------------------------
PInit == Init /\ received = <<>> /\ Flows!Init

\* The kernel receives a packet and stamps it.  What comes before the ring is polled is
\* left to CaptureRing.
Arrive(h) ==
  /\ ~ SettingUp /\ Receive(PortKey(h))
  /\ received' = Append(received, [header |-> h, stamp |-> now])
  /\ UNCHANGED flowVars

\* One turn of the loop over the grouped references: try_send, then process_packet, which
\* share nothing.
HandOn ==
  /\ Drain
  /\ LET id == Last(taken').id
     IN  Flows!Capture([id |-> id, header |-> received[id].header])
  /\ UNCHANGED received

OtherThreadStep ==
  /\ SetUp \/ GiveUp \/ NextBlock \/ Fill \/ Group \/ Recycle
  /\ UNCHANGED <<received, flowVars>>

\* The processor task and the cleanup task.
FlowStep == (Flows!SkipUnparsed \/ Flows!Process \/ Flows!Cleanup) /\ UNCHANGED <<ringVars, received>>

\* Time passes, but not so that a block with packets stays with the kernel for too long.
PassTime ==
  /\ ~ fresh => now - received[memory[kernel_block_idx][1].id].stamp < RetireAfter
  /\ Flows!Tick /\ UNCHANGED <<ringVars, received>>

\* Every step that hands nothing on.
OtherStep ==
  \/ \E h \in Headers : Arrive(h)
  \/ (Retire /\ UNCHANGED <<received, flowVars>>)
  \/ OtherThreadStep \/ FlowStep \/ PassTime

PNext == HandOn \/ OtherStep

PSpec == PInit /\ [][PNext]_allVars
----------------------------------------------------------------------------
(* Properties.                                                             *)

\* The two ends of a conversation, whichever of them sends.
Ends(h) == {<<h.src_ip, h.src_port>>, <<h.dst_ip, h.dst_port>>}

\* Both parsers find the same ports in a packet, as in any whole TCP or UDP packet over untagged
\* IPv4 (SameFlow of ParsePacket).
Agreed(h) == HasPorts(h) /\ Key(h) = <<h.src_ip, h.src_port, h.dst_ip, h.dst_port>>

\* From the kernel to the detectors no packet overtakes another of its own conversation:
\* the engine gets the segments of both directions in the order they came in, and each flow
\* files its packets in that order, whatever the ring, the batches and the channel lose.  Left
\* out are packets that the parsers disagree about: a fragment without ports for parse_packet
\* is grouped with port 0, and does overtake others of the flow that parse_flow_key files it under.
KernelOrderKept ==
  /\ \A i, j \in DOMAIN taken :
       LET h(k) == received[taken[k].id].header
       IN  (i < j /\ HasPorts(h(i)) /\ HasPorts(h(j)) /\ Ends(h(i)) = Ends(h(j)))
             => taken[i].id < taken[j].id
  /\ \A i, j \in DOMAIN queue :
       LET h(l) == queue[l].data.header
       IN  (i < j /\ Agreed(h(i)) /\ Agreed(h(j)) /\ Key(h(i)) = Key(h(j)))
             => queue[i].data.id < queue[j].data.id
  /\ \A k \in DOMAIN table :
       LET filed == Flows!GetOrderedPackets(table[k])
           agreed(m) == Agreed(m.data.header)
       IN  \A i \in DOMAIN filed : agreed(filed[i]) =>
             /\ \A j \in DOMAIN filed :
                  i < j /\ agreed(filed[j]) => filed[i].data.id < filed[j].data.id
             /\ \A j \in DOMAIN queue :
                  agreed(queue[j]) /\ Key(queue[j].data.header) = k => filed[i].data.id < queue[j].data.id

\* Packets of different conversations overtake one another within a block only, so the
\* timestamps the engine gets go back by no more than the retire time of a block.  This is
\* the bound Skew that Engine assumes.
SkewBounded ==
  \A i, j \in DOMAIN taken :
    i < j => received[taken[i].id].stamp - received[taken[j].id].stamp <= RetireAfter
=============================================================================
