------------------------------- MODULE Engine -------------------------------
(***************************************************************************)
(* The stateful detection engine (src/src/engine.rs).  Its one operation,  *)
(* process_packet, is called by the capture thread for every packet, with  *)
(* the packet's kernel timestamp, and runs to the end: it expires old      *)
(* state, tracks access points, clients and TCP connections, counts the    *)
(* packet for every rule it matches and returns the alerts.                *)
(*                                                                         *)
(* Timestamps need not be in order: the packets of one capture block are   *)
(* grouped by port before they get here, so a packet may be older by at    *)
(* most Skew than one handled before.  An f64 number of seconds is an      *)
(* integer number of time units; a Vec of timestamps, which the engine     *)
(* only counts and filters, is a bag.  The maps from rule to sender to     *)
(* timestamps are one map from the pair.  Rules have distinct ids, so they *)
(* touch distinct counters, and the order of the loop over them, which is  *)
(* that of a HashMap, shows in the numbering of alerts only.  Signal       *)
(* strengths, channels and the client vectors that are never written are   *)
(* left out, and so are the sessions, which are never created.             *)
(***************************************************************************)
EXTENDS RuleMatch, Sequences, Bags, Functions, SequencesExt

CONSTANTS
  Packets,       \* the packets that may arrive
  Rules,         \* the enabled rules of rules.json
  Second,        \* 1.0 s, the window of max_requests_per_second
  CleanupPeriod, \* 5.0 s
  TrackWindow,   \* 60.0 s, how long timestamps are kept
  StaleAfter,    \* 300.0 s, how long idle entries are kept
  Skew,          \* how far a packet's timestamp may lie behind an earlier one
  MaxTime,       \* bound of the timestamps
  MaxPackets     \* bound on the packets of a behaviour

ASSUME RuleAssumption == IsFiniteSet(Rules) /\ \A r, s \in Rules : r.id = s.id => r = s
\* The limits of a rule are u32 or left out; an interval is a number of time units.
ASSUME LimitAssumption == \A r \in Rules : /\ r.max_rps \in Nat \cup {None}
                                          /\ r.connections \in Nat \cup {None}
                                          /\ r.interval \in Int
ASSUME TimeAssumption == /\ Second \in Nat \ {0} /\ CleanupPeriod \in Nat \ {0}
                         /\ TrackWindow \in Nat \ {0} /\ StaleAfter \in Nat \ {0}
                         /\ Skew \in Nat /\ MaxTime \in Nat /\ MaxPackets \in Nat
                         /\ CleanupPeriod <= MaxTime
\* The disorder is that of one capture block, the 10 ms of tp_retire_blk_tov; the engine
\* keeps timestamps for 60 s and entries for 300 s.
ASSUME SkewAssumption == Second + Skew <= TrackWindow /\ Skew <= StaleAfter

VARIABLES
  latest,            \* the latest timestamp so far
  handled,           \* packets so far
  now,               \* timestamp of the last packet
  last_cleanup_time,
  access_points,     \* bssid -> ssid, security, last_seen
  clients,           \* mac -> last_seen, ip_address
  tcp_conn_table,    \* direction of a connection -> state, last_seen
  rule_rate_tracker, \* <<rule, sender>> -> times of matching packets
  conn_rate_tracker, \* <<rule, sender>> -> times of new connections
  alert_counter,
  alerts             \* what the last call returned

tables == <<access_points, clients, tcp_conn_table, rule_rate_tracker, conn_rate_tracker>>
vars == <<latest, handled, now, last_cleanup_time, tables, alert_counter, alerts>>

\* Variant: an entry that is there is left as it is.
InsertIfAbsent(f, k, v) == [j \in DOMAIN f \cup {k} |-> IF j \in DOMAIN f THEN f[j] ELSE v]

\* f with k mapped to v, whether or not k was there: HashMap::insert.
Insert(f, k, v) == [j \in DOMAIN f \cup {k} |-> IF j = k THEN v ELSE f[j]]

----------------------------------------------------------------------------
(* expire_states.                                                          *)

CleanupDue(ts) == ts - last_cleanup_time >= CleanupPeriod

\* Variant: nothing is too old.
RecentAll(bag, ts, w) == bag

\* The timestamps of a bag that are less than w old.
Recent(bag, ts, w) == Restrict(bag, {t \in DOMAIN bag : ts - t < w})

\* A tracker without its old timestamps and without the senders that then have none.
PrunedTracker(tracker, ts) ==
  LET kept == {k \in DOMAIN tracker : \E t \in DOMAIN tracker[k] : ts - t < TrackWindow}
  IN  [k \in kept |-> Recent(tracker[k], ts, TrackWindow)]

Fresh(f, ts) == {k \in DOMAIN f : ts - f[k].last_seen < StaleAfter}

\* Each table as process_packet finds it after expire_states(ts).
Tracker(tracker, ts) == IF CleanupDue(ts) THEN PrunedTracker(tracker, ts) ELSE tracker
AccessPoints(ts) == IF CleanupDue(ts) THEN Restrict(access_points, Fresh(access_points, ts)) ELSE access_points
\* Variant: clients are never expired.
ClientsKept(ts) == clients

Clients(ts) == IF CleanupDue(ts) THEN Restrict(clients, Fresh(clients, ts)) ELSE clients
\* Variant: closed connections wait for their timeout.
ConnsKept(ts) == IF CleanupDue(ts) THEN Restrict(tcp_conn_table, Fresh(tcp_conn_table, ts)) ELSE tcp_conn_table

Conns(ts) ==
  IF CleanupDue(ts)
  THEN Restrict(tcp_conn_table, {k \in Fresh(tcp_conn_table, ts) : tcp_conn_table[k].state # "Closing"})
  ELSE tcp_conn_table

----------------------------------------------------------------------------
(* Tracking of access points, clients and connections.                     *)

\* A beacon refreshes its access point; the ssid is the one first seen.
TrackAccessPoint(pkt, ts) ==
  LET aps == AccessPoints(ts)
      b == pkt.beacon
  IN  IF b = None THEN aps
      ELSE Insert(aps, b.bssid,
             [ssid |-> IF b.bssid \in DOMAIN aps THEN aps[b.bssid].ssid ELSE b.ssid,
              security |-> IF b.rsn THEN "WPA2/WPA3" ELSE "Open",
              last_seen |-> ts])

\* Any packet refreshes its sender, unless the MAC is all zeros or all ones; the address is
\* the last one seen in an IP header.
TrackClient(pkt, ts) ==
  LET cs == Clients(ts)
  IN  IF pkt.src_mac \in {"zero", "broadcast"} THEN cs
      ELSE Insert(cs, pkt.src_mac,
             [last_seen |-> ts,
              ip_address |-> IF pkt.network \in {"ipv4", "ipv6"} THEN pkt.src_ip
                             ELSE IF pkt.src_mac \in DOMAIN cs THEN cs[pkt.src_mac].ip_address
                             ELSE None])

\* Variant: a SYN leaves a direction that is known as it is.
TrackConnSynKept(pkt, ts) ==
  LET conns == Conns(ts)
      k == ConnKey(pkt)
  IN  IF ~ IsTcp(pkt) THEN conns
      ELSE IF IsSyn(pkt) /\ k \notin DOMAIN conns
           THEN Insert(conns, k, [state |-> "New", last_seen |-> ts])
      ELSE IF IsSynAck(pkt)
           THEN Insert(Insert(conns, RevKey(pkt), [state |-> "Established", last_seen |-> ts]),
                       k, [state |-> "Established", last_seen |-> ts])
      ELSE IF k \notin DOMAIN conns THEN conns
      ELSE IF IsTeardown(pkt) THEN Insert(conns, k, [state |-> "Closing", last_seen |-> ts])
      ELSE Insert(conns, k, [conns[k] EXCEPT !.last_seen = ts])

\* A SYN opens its direction, a SYN-ACK establishes both, FIN and RST close the sender's
\* direction, other segments keep a known direction alive.
TrackConn(pkt, ts) ==
  LET conns == Conns(ts)
      k == ConnKey(pkt)
  IN  IF ~ IsTcp(pkt) THEN conns
      ELSE IF IsSyn(pkt) THEN Insert(conns, k, [state |-> "New", last_seen |-> ts])
      ELSE IF IsSynAck(pkt)
           THEN Insert(Insert(conns, RevKey(pkt), [state |-> "Established", last_seen |-> ts]),
                       k, [state |-> "Established", last_seen |-> ts])
      ELSE IF k \notin DOMAIN conns THEN conns
      ELSE IF IsTeardown(pkt) THEN Insert(conns, k, [state |-> "Closing", last_seen |-> ts])
      ELSE Insert(conns, k, [conns[k] EXCEPT !.last_seen = ts])

----------------------------------------------------------------------------
(* Rule evaluation.                                                        *)

\* The rules a packet matches, on the table it has itself updated, and their counters.
Matched(pkt, ts) == {r \in Rules : MatchesRule(r, pkt, TrackConn(pkt, ts))}
Track(r, pkt) == <<r.id, ResolveTrackingKey(r, pkt)>>

\* For TCP a new connection is a bare SYN; any other matching packet counts as one.
IsNewConn(pkt) == IsTcp(pkt) => IsSyn(pkt)

Timestamps(tracker, k) == IF k \in DOMAIN tracker THEN tracker[k] ELSE EmptyBag
Pushed(bag, ts) == bag (+) SetToBag({ts})

\* The two counters k of a matching rule with the packet counted.
RateOf(k, ts) == Pushed(Timestamps(Tracker(rule_rate_tracker, ts), k), ts)
ConnsOf(k, pkt, ts) ==
  LET old == Timestamps(Tracker(conn_rate_tracker, ts), k)
  IN  IF IsNewConn(pkt) THEN Pushed(old, ts) ELSE old

\* The length of a bag's Vec: each copy of a timestamp is an element of its own.
Count(bag) == Cardinality(UNION {{t} \X (1 .. bag[t]) : t \in DOMAIN bag})

CountRecent(bag, ts, w) == Count(Recent(bag, ts, w))

\* Variant: one more request than the limit is let through.
TooManyRequestsLate(r, pkt, ts) ==
  r.max_rps # None /\ CountRecent(RateOf(Track(r, pkt), ts), ts, Second) > r.max_rps

TooManyRequests(r, pkt, ts) ==
  r.max_rps # None /\ CountRecent(RateOf(Track(r, pkt), ts), ts, Second) >= r.max_rps

\* The check is skipped when nothing was ever counted for the sender.
TooManyConns(r, pkt, ts) ==
  /\ r.connections # None
  /\ IsNewConn(pkt) \/ Track(r, pkt) \in DOMAIN Tracker(conn_rate_tracker, ts)
  /\ CountRecent(ConnsOf(Track(r, pkt), pkt, ts), ts, r.interval) >= r.connections

Triggered(pkt, ts) == {r \in Matched(pkt, ts) : TooManyRequests(r, pkt, ts) \/ TooManyConns(r, pkt, ts)}

\* The count an alert reports: the packet rate if that was exceeded, else the connections.
CountToReport(r, pkt, ts) ==
  IF TooManyRequests(r, pkt, ts) THEN CountRecent(RateOf(Track(r, pkt), ts), ts, Second)
  ELSE CountRecent(ConnsOf(Track(r, pkt), pkt, ts), ts, r.interval)

\* The counters of matching rules, and of those the ones to drop, so that after an alert
\* the sender has to start again.
Touched(pkt, ts) == {Track(r, pkt) : r \in Matched(pkt, ts)}
Dropped(pkt, ts) == {Track(r, pkt) : r \in Triggered(pkt, ts)}

\* The trackers after the rule loop, which prunes the counters it touches.
RateTracked(pkt, ts) ==
  LET old == Tracker(rule_rate_tracker, ts)
  IN  [k \in (DOMAIN old \cup Touched(pkt, ts)) \ Dropped(pkt, ts) |->
         IF k \in Touched(pkt, ts) THEN Recent(RateOf(k, ts), ts, TrackWindow) ELSE old[k]]

\* Variant: an alert resets the packet counter only.
ConnTrackedKept(pkt, ts) ==
  LET old == Tracker(conn_rate_tracker, ts)
      made == IF IsNewConn(pkt) THEN Touched(pkt, ts) ELSE {}
  IN  [k \in DOMAIN old \cup made |->
         IF k \in Touched(pkt, ts) THEN Recent(ConnsOf(k, pkt, ts), ts, TrackWindow) ELSE old[k]]

ConnTracked(pkt, ts) ==
  LET old == Tracker(conn_rate_tracker, ts)
      made == IF IsNewConn(pkt) THEN Touched(pkt, ts) ELSE {}
  IN  [k \in (DOMAIN old \cup made) \ Dropped(pkt, ts) |->
         IF k \in Touched(pkt, ts) THEN Recent(ConnsOf(k, pkt, ts), ts, TrackWindow) ELSE old[k]]

\* The message of the i-th triggered rule.
Message(i, r, pkt, ts) == [seq_no |-> alert_counter + i, rule |-> r.id,
                           sender |-> ResolveTrackingKey(r, pkt),
                           count |-> CountToReport(r, pkt, ts)]

----------------------------------------------------------------------------
Init ==
  /\ latest = CleanupPeriod /\ handled = 0 /\ now = 0 /\ last_cleanup_time = 0
  /\ access_points = [k \in {} |-> None] /\ clients = [k \in {} |-> None]
  /\ tcp_conn_table = [k \in {} |-> None]
  /\ rule_rate_tracker = [k \in {} |-> None] /\ conn_rate_tracker = [k \in {} |-> None]
  /\ alert_counter = 0 /\ alerts = <<>>

\* The latest timestamp with this one.
Later(ts) == IF latest < ts THEN ts ELSE latest

\* process_packet(pkt, ts).
ProcessPacket(pkt, ts) ==
  /\ handled' = handled + 1 /\ latest' = Later(ts)
  /\ now' = ts
  /\ last_cleanup_time' = IF CleanupDue(ts) THEN ts ELSE last_cleanup_time
  /\ access_points' = TrackAccessPoint(pkt, ts)
  /\ clients' = TrackClient(pkt, ts)
  /\ tcp_conn_table' = TrackConn(pkt, ts)
  /\ rule_rate_tracker' = RateTracked(pkt, ts)
  /\ conn_rate_tracker' = ConnTracked(pkt, ts)
  /\ \E order \in SetToSeqs(Triggered(pkt, ts)) :
       alerts' = [i \in 1 .. Len(order) |-> Message(i, order[i], pkt, ts)]
  /\ alert_counter' = alert_counter + Cardinality(Triggered(pkt, ts))

\* The timestamps that the next packet may carry: up to Skew behind an earlier one's, from an
\* epoch later than CleanupPeriod up to the bound of the model.
Stamps == {ts \in CleanupPeriod .. MaxTime : latest - ts <= Skew}

\* The capture thread calls process_packet, in the model MaxPackets times at most.
Next == handled < MaxPackets /\ \E pkt \in Packets, ts \in Stamps : ProcessPacket(pkt, ts)

Spec == Init /\ [][Next]_vars
----------------------------------------------------------------------------
(* Properties.                                                             *)

Time == CleanupPeriod .. MaxTime
Addresses == {p.src_ip : p \in Packets} \cup {p.dst_ip : p \in Packets}
             \cup {p.src_mac : p \in Packets} \cup {p.dst_mac : p \in Packets}
PortNumbers == {p.src_port : p \in Packets} \cup {p.dst_port : p \in Packets}
Tracks == {r.id : r \in Rules} \X Addresses

IsTracker(tracker) ==
  /\ DOMAIN tracker \subseteq Tracks
  /\ \A k \in DOMAIN tracker : DOMAIN tracker[k] \subseteq Time /\ IsABag(tracker[k])

\* Types of the state.
TypeOK ==
  /\ latest \in Time /\ now \in Time \cup {0} /\ last_cleanup_time \in Time \cup {0}
  /\ handled \in 0 .. MaxPackets /\ alert_counter \in Nat
  /\ DOMAIN access_points \subseteq {p.beacon.bssid : p \in {q \in Packets : q.beacon # None}}
  /\ \A k \in DOMAIN access_points : access_points[k].last_seen \in Time
  /\ DOMAIN clients \subseteq {p.src_mac : p \in Packets}
  /\ \A k \in DOMAIN clients : clients[k].last_seen \in Time
  /\ DOMAIN tcp_conn_table \subseteq Addresses \X PortNumbers \X Addresses \X PortNumbers
  /\ \A k \in DOMAIN tcp_conn_table :
       tcp_conn_table[k] \in [state : {"New", "Established", "Closing"}, last_seen : Time]
  /\ IsTracker(rule_rate_tracker) /\ IsTracker(conn_rate_tracker)
  /\ \A i \in DOMAIN alerts : /\ alerts[i].seq_no \in 1 .. alert_counter
                              /\ <<alerts[i].rule, alerts[i].sender>> \in Tracks

\* What was counted as a new connection was counted as a packet: whatever the pruning, the
\* expiry and the reset after an alert do, they do to both trackers alike.
ConnsAmongPackets ==
  \A k \in DOMAIN conn_rate_tracker :
    \/ conn_rate_tracker[k] = EmptyBag
    \/ k \in DOMAIN rule_rate_tracker /\ conn_rate_tracker[k] \sqsubseteq rule_rate_tracker[k]

\* A rule on established connections counts none: the SYN that would count has made its
\* direction New before the rule looks at the table.  So the connection limit of such a rule
\* (rule 2 of rules.json has one) is never reached; only its packet limit can be.
EstablishedRulesCountNone ==
  \A k \in DOMAIN conn_rate_tracker, r \in Rules : r.id = k[1] => r.state # "established"

\* Memory is bounded by time: right after a packet is handled, nothing in any table is older
\* than its retention time and one cleanup period; closed connections are gone after one.
NothingStale ==
  /\ \A k \in DOMAIN access_points : now - access_points[k].last_seen < StaleAfter + CleanupPeriod
  /\ \A k \in DOMAIN clients : now - clients[k].last_seen < StaleAfter + CleanupPeriod
  /\ \A k \in DOMAIN tcp_conn_table :
       LET c == tcp_conn_table[k]
       IN  /\ now - c.last_seen < StaleAfter + CleanupPeriod
           /\ c.state = "Closing" => now - c.last_seen < CleanupPeriod + Skew
  /\ \A tracker \in {rule_rate_tracker, conn_rate_tracker} : \A k \in DOMAIN tracker :
       \A t \in DOMAIN tracker[k] : now - t < TrackWindow + CleanupPeriod
=============================================================================
