---------------------------- MODULE EngineHistory ----------------------------
(***************************************************************************)
(* Engine beside a perfect observer, whose history variables forget        *)
(* nothing: seenPackets and seenConns keep, for each rule and sender, the  *)
(* times of all packets and new connections the rule matched since its     *)
(* last alert for that sender; control keeps, for each direction of a TCP  *)
(* connection, which control segment it saw last.                          *)
(***************************************************************************)
EXTENDS Engine

VARIABLES seenPackets, seenConns, control

hvars == <<vars, seenPackets, seenConns, control>>

HInit == /\ Init
         /\ seenPackets = [k \in Tracks |-> EmptyBag] /\ seenConns = [k \in Tracks |-> EmptyBag]
         /\ control = [k \in {ConnKey(p) : p \in Packets} \cup {RevKey(p) : p \in Packets} |-> "none"]

\* The times seen by each rule and sender, from an alert on anew.
Seen(seen, pkt, ts, counted) ==
  [k \in Tracks |-> IF k \in Dropped(pkt, ts) THEN EmptyBag
                    ELSE IF counted /\ k \in Touched(pkt, ts) THEN Pushed(seen[k], ts)
                    ELSE seen[k]]

Control(pkt) ==
  IF ~ IsTcp(pkt) THEN control
  ELSE IF IsSyn(pkt) THEN [control EXCEPT ![ConnKey(pkt)] = "New"]
  ELSE IF IsSynAck(pkt)
       THEN [control EXCEPT ![ConnKey(pkt)] = "Established", ![RevKey(pkt)] = "Established"]
  ELSE IF IsTeardown(pkt) THEN [control EXCEPT ![ConnKey(pkt)] = "Closing"]
  ELSE control

HProcessPacket(pkt, ts) ==
  /\ ProcessPacket(pkt, ts)
  /\ seenPackets' = Seen(seenPackets, pkt, ts, TRUE)
  /\ seenConns' = Seen(seenConns, pkt, ts, IsNewConn(pkt))
  /\ control' = Control(pkt)

HNext == handled < MaxPackets /\ \E pkt \in Packets, ts \in Stamps : HProcessPacket(pkt, ts)

HSpec == HInit /\ [][HNext]_hvars

\* The times of the window of length w that ends at t.
WindowUpTo(bag, t, w) == Restrict(bag, {u \in DOMAIN bag : u <= t /\ t - u < w})

\* No window of length w has `limit' events; one with an event in it may as well end at one.
NoFullWindow(seen, w, limit) == \A t \in DOMAIN seen : Count(WindowUpTo(seen, t, w)) < limit

\* No threshold is passed unnoticed: of all a sender did since the last alert, no window of a
\* rule's interval holds as many events as the rule allows, although the engine prunes its
\* counters at every match and every cleanup and sees packets out of order.  The rule's
\* interval must lie within the time the engine keeps timestamps.
NoUnreportedWindow ==
  \A k \in Tracks, r \in Rules : r.id = k[1] =>
    /\ r.max_rps # None => NoFullWindow(seenPackets[k], Second, r.max_rps)
    /\ (r.connections # None /\ r.interval + Skew <= TrackWindow)
         => NoFullWindow(seenConns[k], r.interval, r.connections)

\* Every alert is deserved: with the packet that set it off, the sender had made as many
\* requests or new connections since the last alert, spread over less than the rule's window
\* and the disorder of the timestamps; so no event is counted for two alerts.
AlertsJustified ==
  [][\A i \in DOMAIN alerts', r \in Rules :
       (handled' # handled /\ r.id = alerts'[i].rule) =>
         LET k == <<r.id, alerts'[i].sender>>
             enough(seen, w, limit) ==
               \E t \in Time : Count(WindowUpTo(Pushed(seen, now'), t, w + Skew)) >= limit
         IN  \/ r.max_rps # None /\ enough(seenPackets[k], Second, r.max_rps)
             \/ r.connections # None /\ enough(seenConns[k], r.interval, r.connections)]_hvars

\* The connection table never tells an old story: the state of a direction it knows is the
\* one its last SYN, SYN-ACK or FIN/RST gave it, whatever expired or came back in between.
StateOfLastControl ==
  \A k \in DOMAIN tcp_conn_table : tcp_conn_table[k].state = control[k]
=============================================================================
