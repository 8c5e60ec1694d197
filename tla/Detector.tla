------------------------------ MODULE Detector ------------------------------
(***************************************************************************)
(* The whole way of a packet through the program (src/src/main.rs): the    *)
(* kernel's ring, the capture thread, the flow channel with its two tasks  *)
(* (Pipeline), and the detection engine (Engine, beside the observer of    *)
(* EngineHistory), which the capture thread calls for each packet it       *)
(* hands on, with the packet's kernel timestamp.                           *)
(*                                                                         *)
(* What Engine assumes of its caller, that timestamps go back by no more   *)
(* than Skew, is here a consequence of the ring and the grouping.          *)
(***************************************************************************)
EXTENDS Pipeline

CONSTANTS
  Rules, SelfIps, Iface, AnyPort,                 \* of Engine
  Second, CleanupPeriod, TrackWindow, StaleAfter  \* of Engine

VARIABLES
  latest, packet_time, last_cleanup_time, access_points, clients, tcp_conn_table,  \* of Engine
  rule_rate_tracker, conn_rate_tracker, alert_counter, alerts,                     \* of Engine
  seenPackets, seenConns, control                                                  \* of EngineHistory

engineVars == <<latest, packet_time, last_cleanup_time, access_points, clients, tcp_conn_table,
                rule_rate_tracker, conn_rate_tracker, alert_counter, alerts,
                seenPackets, seenConns, control>>

\* The engine of the program, to which every packet that is taken goes.
H == INSTANCE EngineHistory WITH
  Packets <- Headers, Skew <- RetireAfter, MaxTime <- CleanupPeriod + MaxTime,
  handled <- Len(taken), now <- packet_time

\* Ports are those of an IP packet.
ASSUME IpAssumption == \A h \in Headers : HasPorts(h) => h.network \in {"ipv4", "ipv6"}

\* What Engine assumes of its rules and times; the skew is now the retire time of a block.
ASSUME EngineAssumption ==
  /\ IsFiniteSet(Rules) /\ \A r, s \in Rules : r.id = s.id => r = s
  /\ \A r \in Rules : /\ r.max_rps \in Nat \cup {None} /\ r.connections \in Nat \cup {None}
                      /\ r.interval \in Int
  /\ Second \in Nat \ {0} /\ CleanupPeriod \in Nat \ {0}
  /\ TrackWindow \in Nat \ {0} /\ StaleAfter \in Nat \ {0}
  /\ Second + RetireAfter <= TrackWindow /\ RetireAfter <= StaleAfter

\* The kernel's clock counts from an epoch long before the program starts.
Timestamp(id) == CleanupPeriod + received[id].stamp

DInit == PInit /\ H!HInit

\* One turn of the loop over the grouped references: try_send, parse_packet, process_packet.
DHandOn ==
  /\ HandOn
  /\ LET id == Last(taken').id
     IN  H!HProcessPacket(received[id].header, Timestamp(id))

DNext == DHandOn \/ (OtherStep /\ UNCHANGED engineVars)

DSpec == DInit /\ [][DNext]_<<allVars, engineVars>>
----------------------------------------------------------------------------
(* Properties.                                                             *)

\* The engine is called as Engine takes it to be: whatever the ring and the grouping do to the
\* order of the packets, the timestamps it is given go back by no more than Skew, so all that is
\* shown of Engine holds of the program.
ImplementsEngine == H!HSpec

\* What segment h makes of the state of direction k.
Tells(h, k) ==
  CASE H!IsTcp(h) /\ H!IsSyn(h) /\ k = H!ConnKey(h) -> "New"
    [] H!IsTcp(h) /\ H!IsSynAck(h) /\ k \in {H!ConnKey(h), H!RevKey(h)} -> "Established"
    [] H!IsTcp(h) /\ H!IsTeardown(h) /\ k = H!ConnKey(h) -> "Closing"
    [] OTHER -> "none"

\* The connection table tells what happened on the wire: of the control segments of a direction
\* that got through the ring, the one that the kernel received last gave it its state, although
\* the two sides of a connection reach the engine by way of batches grouped by port.
ConnsInKernelOrder ==
  \A k \in DOMAIN tcp_conn_table :
    \E i \in DOMAIN taken :
      /\ Tells(received[taken[i].id].header, k) = tcp_conn_table[k].state
      /\ \A j \in DOMAIN taken :
           Tells(received[taken[j].id].header, k) # "none" => taken[j].id <= taken[i].id
=============================================================================
