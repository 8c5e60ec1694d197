---------------------------- MODULE Engine_proofs ----------------------------
(***************************************************************************)
(* Proofs about the engine: its types and the invariants that do not need  *)
(* a history (Engine), then those of the engine beside its observer        *)
(* (EngineHistory).  The trackers are bags, so the lemmas follow the       *)
(* number of copies of one timestamp through expiry, counting, pruning and *)
(* reset; what is counted grows with the copies.  NothingStale needs the   *)
(* ages at the last cleanup (AgesBounded), for expiry is not tried at      *)
(* every packet; the disorder must be smaller than what is kept            *)
(* (SkewAssumption).  The invariant that carries the thresholds is         *)
(* MemoryInv: a tracker holds nothing the observer did not see since the   *)
(* last alert, and all of it that is less than TrackWindow old.  It is     *)
(* stronger than any limit: the counts a rule compares are counts of       *)
(* these bags.                                                             *)
(***************************************************************************)
EXTENDS EngineHistory, TLAPS, FiniteSetTheorems

USE DEF Restrict

----------------------------------------------------------------------------
(* Bags of timestamps.                                                     *)

Copies(bag, t) == IF t \in DOMAIN bag THEN bag[t] ELSE 0

Times(bag) == DOMAIN bag \subseteq Time /\ IsABag(bag)

\* The times of the model are integers.
LEMMA TimesAreIntegers == Time \subseteq Int
  BY TimeAssumption DEF Time

\* A bag has a natural number of copies of everything, and none of what is not in its domain.
LEMMA CopiesNat == ASSUME NEW bag, IsABag(bag), NEW t
                   PROVE  Copies(bag, t) \in Nat /\ (Copies(bag, t) > 0 <=> t \in DOMAIN bag)
  BY DEF Copies, IsABag

\* The empty bag has no copies of anything; it is what a sender without a counter is taken to have.
LEMMA CopiesNone == \A t : Copies(EmptyBag, t) = 0 /\ Times(EmptyBag)
  BY DEF Copies, EmptyBag, SetToBag, Times, IsABag

\* retain() keeps all copies of a timestamp that is less than w old and none of an older one.
LEMMA RecentCopies ==
  ASSUME NEW bag, NEW ts, NEW w, NEW t
  PROVE  Copies(Recent(bag, ts, w), t) = IF ts - t < w THEN Copies(bag, t) ELSE 0
  BY DEF Copies, Recent

\* A bag of times stays one when old ones are dropped.
LEMMA RecentTimes == ASSUME NEW bag, Times(bag), NEW ts, NEW w PROVE Times(Recent(bag, ts, w))
  BY DEF Times, IsABag, Recent

\* push() adds one copy of the packet's timestamp.
LEMMA PushedCopies ==
  ASSUME NEW bag, IsABag(bag), NEW ts, NEW t
  PROVE  Copies(Pushed(bag, ts), t) = Copies(bag, t) + (IF t = ts THEN 1 ELSE 0)
  BY DEF Copies, Pushed, IsABag, (+), SetToBag

\* A bag of times stays one when the packet's timestamp is pushed.
LEMMA PushedTimes == ASSUME NEW bag, Times(bag), NEW ts \in Time PROVE Times(Pushed(bag, ts))
  BY DEF Times, Pushed, IsABag, (+), SetToBag

\* What a tracker has for a rule and sender is a bag of times, be it there or not.
LEMMA TimestampsTimes ==
  ASSUME NEW tracker, IsTracker(tracker), NEW k PROVE Times(Timestamps(tracker, k))
  BY CopiesNone DEF Times, Timestamps, IsTracker

\* The length of a Vec grows with its copies: a bag with at least as many copies of every timestamp
\* counts at least as many elements.  Counts are natural numbers, for the times are finitely many.
LEMMA CountMonotone ==
  ASSUME NEW small, NEW large, Times(small), Times(large),
         \A t : Copies(small, t) <= Copies(large, t)
  PROVE  Count(small) \in Nat /\ Count(small) <= Count(large)
  <1> DEFINE Elements(bag) == UNION {{t} \X (1 .. bag[t]) : t \in DOMAIN bag}
  <1>1. ASSUME NEW bag, Times(bag) PROVE IsFiniteSet(Elements(bag))
    <2>1. IsFiniteSet(Time) BY TimeAssumption, FS_Interval DEF Time
    <2>2. IsFiniteSet(DOMAIN bag) BY <1>1, <2>1, FS_Subset DEF Times
    <2> DEFINE parts == {{t} \X (1 .. bag[t]) : t \in DOMAIN bag}
    <2> DEFINE part == [t \in DOMAIN bag |-> {t} \X (1 .. bag[t])]
    <2>3. IsFiniteSet(parts)
      <3>1. part \in Surjection(DOMAIN bag, parts) BY DEF Surjection
      <3> HIDE DEF part, parts
      <3> QED BY <2>2, <3>1, FS_Surjection
    <2>4. ASSUME NEW t \in DOMAIN bag PROVE IsFiniteSet({t} \X (1 .. bag[t]))
      <3>1. bag[t] \in Nat BY <1>1, <2>4 DEF Times, IsABag
      <3>2. IsFiniteSet(1 .. bag[t]) BY <3>1, FS_Interval
      <3>3. IsFiniteSet({t}) BY FS_Singleton
      <3> QED BY <3>2, <3>3, FS_Product
    <2>5. \A p \in parts : IsFiniteSet(p) BY <2>4
    <2> QED BY <2>3, <2>5, FS_UNION
  <1>2. Elements(small) \subseteq Elements(large)
    <2> SUFFICES ASSUME NEW t \in DOMAIN small, NEW i \in 1 .. small[t]
                 PROVE  t \in DOMAIN large /\ i \in 1 .. large[t]
      OBVIOUS
    <2>1. small[t] \in Nat /\ small[t] > 0 /\ small[t] = Copies(small, t)
      BY DEF Times, IsABag, Copies
    <2>2. Copies(small, t) <= Copies(large, t) OBVIOUS
    <2>3. t \in DOMAIN large
      <3> SUFFICES ASSUME t \notin DOMAIN large PROVE FALSE OBVIOUS
      <3>1. Copies(large, t) = 0 BY DEF Copies
      <3> QED BY <3>1, <2>1, <2>2
    <2>4. Copies(large, t) = large[t] /\ large[t] \in Nat
      BY <2>3 DEF Copies, Times, IsABag
    <2> QED BY <2>1, <2>2, <2>3, <2>4
  <1>3. IsFiniteSet(Elements(small)) /\ IsFiniteSet(Elements(large)) BY <1>1
  <1>4. Count(small) = Cardinality(Elements(small)) /\ Count(large) = Cardinality(Elements(large))
    BY DEF Count
  <1> HIDE DEF Elements
  <1> QED BY <1>2, <1>3, <1>4, FS_Subset, FS_CardinalityType

----------------------------------------------------------------------------
(* The trackers.                                                           *)

\* expire_states takes from a tracker the timestamps older than TrackWindow, if a cleanup is due,
\* and nothing else; a sender that is dropped had no others.
LEMMA TrackerCopies ==
  ASSUME NEW tracker, IsTracker(tracker), NEW ts \in Time, NEW k, NEW t
  PROVE  Copies(Timestamps(Tracker(tracker, ts), k), t) =
           IF CleanupDue(ts) /\ ~ (ts - t < TrackWindow) THEN 0
           ELSE Copies(Timestamps(tracker, k), t)
  <1>1. CASE CleanupDue(ts)
    <2> DEFINE pruned == PrunedTracker(tracker, ts)
    <2>1. Tracker(tracker, ts) = pruned BY <1>1 DEF Tracker
    <2>2. CASE k \in DOMAIN pruned
      <3>1. k \in DOMAIN tracker /\ pruned[k] = Recent(tracker[k], ts, TrackWindow)
        BY <2>2 DEF PrunedTracker
      <3>2. Timestamps(pruned, k) = Recent(Timestamps(tracker, k), ts, TrackWindow)
        BY <2>2, <3>1 DEF Timestamps
      <3> QED BY <1>1, <2>1, <3>2, RecentCopies
    <2>3. CASE k \notin DOMAIN pruned
      <3>1. Copies(Timestamps(pruned, k), t) = 0 BY <2>3, CopiesNone DEF Timestamps
      <3>2. ASSUME ts - t < TrackWindow PROVE Copies(Timestamps(tracker, k), t) = 0
        <4>1. CASE k \notin DOMAIN tracker BY <4>1, CopiesNone DEF Timestamps
        <4>2. CASE k \in DOMAIN tracker
          <5>1. t \notin DOMAIN tracker[k] BY <2>3, <4>2, <3>2 DEF PrunedTracker
          <5> QED BY <4>2, <5>1 DEF Timestamps, Copies
        <4> QED BY <4>1, <4>2
      <3> QED BY <1>1, <2>1, <3>1, <3>2
    <2> QED BY <2>2, <2>3
  <1>2. CASE ~ CleanupDue(ts) BY <1>2 DEF Tracker
  <1> QED BY <1>1, <1>2

\* expire_states leaves a tracker, of senders that were there.
LEMMA TrackerTimes ==
  ASSUME NEW tracker, IsTracker(tracker), NEW ts
  PROVE  IsTracker(Tracker(tracker, ts)) /\ DOMAIN Tracker(tracker, ts) \subseteq DOMAIN tracker
  <1> DEFINE pruned == PrunedTracker(tracker, ts)
  <1>1. DOMAIN pruned \subseteq DOMAIN tracker BY DEF PrunedTracker
  <1>2. ASSUME NEW k \in DOMAIN pruned PROVE Times(pruned[k])
    <2>1. Times(tracker[k]) BY <1>1, <1>2 DEF IsTracker, Times
    <2>2. pruned[k] = Recent(tracker[k], ts, TrackWindow) BY <1>2 DEF PrunedTracker
    <2> QED BY <2>1, <2>2, RecentTimes
  <1>3. IsTracker(pruned)
    <2> HIDE DEF pruned
    <2> QED BY <1>1, <1>2 DEF IsTracker, Times
  <1> QED BY <1>1, <1>3 DEF Tracker

\* The counters a packet touches are those of a rule and one of the addresses.
LEMMA TracksOfMatches ==
  ASSUME NEW pkt \in Packets, NEW ts
  PROVE  Dropped(pkt, ts) \subseteq Touched(pkt, ts) /\ Touched(pkt, ts) \subseteq Tracks
  <1>1. ASSUME NEW r \in Rules PROVE Track(r, pkt) \in Tracks
    BY DEF Track, Tracks, ResolveTrackingKey, ResolveSrcIp, ResolveDstIp, Addresses
  <1>2. Triggered(pkt, ts) \subseteq Matched(pkt, ts) /\ Matched(pkt, ts) \subseteq Rules
    BY DEF Triggered, Matched
  <1> QED BY <1>1, <1>2 DEF Dropped, Touched

\* Rules have distinct ids, so a counter belongs to one rule: if it was touched, that rule
\* matched, and if it was dropped, that rule was triggered.
LEMMA OwnerOfTrack ==
  ASSUME NEW pkt \in Packets, NEW ts, NEW r \in Rules
  PROVE  /\ \A k \in Touched(pkt, ts) :
              r.id = k[1] => r \in Matched(pkt, ts) /\ k = Track(r, pkt)
         /\ \A k \in Dropped(pkt, ts) :
              r.id = k[1] => r \in Triggered(pkt, ts) /\ k = Track(r, pkt)
  <1>1. \A s \in Rules : Track(s, pkt)[1] = s.id BY DEF Track
  <1>2. Triggered(pkt, ts) \subseteq Rules /\ Matched(pkt, ts) \subseteq Rules
    BY DEF Triggered, Matched
  <1> QED BY <1>1, <1>2, RuleAssumption DEF Dropped, Touched

\* The packet counter of a matching rule: the timestamps that are left, and the packet's.
LEMMA RateOfCopies ==
  ASSUME NEW k, NEW ts \in Time, IsTracker(rule_rate_tracker), NEW t
  PROVE  /\ Times(RateOf(k, ts))
         /\ Copies(RateOf(k, ts), t) =
              (IF CleanupDue(ts) /\ ~ (ts - t < TrackWindow) THEN 0
               ELSE Copies(Timestamps(rule_rate_tracker, k), t)) + (IF t = ts THEN 1 ELSE 0)
  <1> DEFINE old == Timestamps(Tracker(rule_rate_tracker, ts), k)
  <1>1. Times(old) BY TrackerTimes, TimestampsTimes
  <1>2. RateOf(k, ts) = Pushed(old, ts) BY DEF RateOf
  <1>3. Times(Pushed(old, ts)) BY <1>1, PushedTimes
  <1>4. Copies(Pushed(old, ts), t) = Copies(old, t) + (IF t = ts THEN 1 ELSE 0)
    BY <1>1, PushedCopies DEF Times
  <1> QED BY <1>2, <1>3, <1>4, TrackerCopies

\* The connection counter of a matching rule: the timestamps that are left, and the packet's if
\* it opens a connection.
LEMMA ConnsOfCopies ==
  ASSUME NEW k, NEW pkt, NEW ts \in Time, IsTracker(conn_rate_tracker), NEW t
  PROVE  /\ Times(ConnsOf(k, pkt, ts))
         /\ Copies(ConnsOf(k, pkt, ts), t) =
              (IF CleanupDue(ts) /\ ~ (ts - t < TrackWindow) THEN 0
               ELSE Copies(Timestamps(conn_rate_tracker, k), t))
              + (IF IsNewConn(pkt) /\ t = ts THEN 1 ELSE 0)
  <1> DEFINE old == Timestamps(Tracker(conn_rate_tracker, ts), k)
  <1>1. Times(old) BY TrackerTimes, TimestampsTimes
  <1>2. ConnsOf(k, pkt, ts) = IF IsNewConn(pkt) THEN Pushed(old, ts) ELSE old BY DEF ConnsOf
  <1>3. Times(Pushed(old, ts)) BY <1>1, PushedTimes
  <1>4. Copies(Pushed(old, ts), t) = Copies(old, t) + (IF t = ts THEN 1 ELSE 0)
    BY <1>1, PushedCopies DEF Times
  <1>5. Copies(old, t) \in Nat BY <1>1, CopiesNat DEF Times
  <1>6. Copies(old, t) = IF CleanupDue(ts) /\ ~ (ts - t < TrackWindow) THEN 0
                         ELSE Copies(Timestamps(conn_rate_tracker, k), t)
    BY TrackerCopies
  <1> HIDE DEF old
  <1>7. CASE IsNewConn(pkt) BY <1>7, <1>2, <1>3, <1>4, <1>6
  <1>8. CASE ~ IsNewConn(pkt) BY <1>8, <1>1, <1>2, <1>5, <1>6
  <1> QED BY <1>7, <1>8

\* What the rule loop leaves of the packet counters, copy by copy.
LEMMA RateTrackedCopies ==
  ASSUME NEW pkt \in Packets, NEW ts \in Time, IsTracker(rule_rate_tracker)
  PROVE  /\ IsTracker(RateTracked(pkt, ts))
         /\ \A k, t : Copies(Timestamps(RateTracked(pkt, ts), k), t) =
              IF k \in Dropped(pkt, ts) THEN 0
              ELSE IF k \in Touched(pkt, ts)
                   THEN IF ts - t < TrackWindow THEN Copies(RateOf(k, ts), t) ELSE 0
                   ELSE Copies(Timestamps(Tracker(rule_rate_tracker, ts), k), t)
         /\ DOMAIN RateTracked(pkt, ts) =
              (DOMAIN Tracker(rule_rate_tracker, ts) \cup Touched(pkt, ts)) \ Dropped(pkt, ts)
  <1> DEFINE old == Tracker(rule_rate_tracker, ts)
             new == RateTracked(pkt, ts)
  <1>1. IsTracker(old) BY TrackerTimes
  <1>2. /\ DOMAIN new = (DOMAIN old \cup Touched(pkt, ts)) \ Dropped(pkt, ts)
        /\ \A k \in DOMAIN new :
             new[k] = IF k \in Touched(pkt, ts) THEN Recent(RateOf(k, ts), ts, TrackWindow) ELSE old[k]
    BY DEF RateTracked
  <1> HIDE DEF old, new
  <1>3. ASSUME NEW k \in DOMAIN new PROVE Times(new[k])
    <2>1. CASE k \in Touched(pkt, ts)
      <3>1. Times(RateOf(k, ts)) BY RateOfCopies
      <3> QED BY <3>1, <2>1, <1>2, <1>3, RecentTimes
    <2>2. CASE k \notin Touched(pkt, ts)
      <3>1. k \in DOMAIN old /\ new[k] = old[k] BY <2>2, <1>2, <1>3
      <3> QED BY <3>1, <1>1 DEF IsTracker, Times
    <2> QED BY <2>1, <2>2
  <1>4. DOMAIN new \subseteq Tracks BY <1>1, <1>2, TracksOfMatches DEF IsTracker
  <1>5. IsTracker(new) BY <1>3, <1>4 DEF IsTracker, Times
  <1>6. ASSUME NEW k, NEW t
        PROVE  Copies(Timestamps(new, k), t) =
                 IF k \in Dropped(pkt, ts) THEN 0
                 ELSE IF k \in Touched(pkt, ts)
                      THEN IF ts - t < TrackWindow THEN Copies(RateOf(k, ts), t) ELSE 0
                      ELSE Copies(Timestamps(old, k), t)
    <2>1. CASE k \in Dropped(pkt, ts) BY <2>1, <1>2, CopiesNone DEF Timestamps
    <2>2. CASE k \notin Dropped(pkt, ts) /\ k \in Touched(pkt, ts)
      <3>1. Timestamps(new, k) = Recent(RateOf(k, ts), ts, TrackWindow)
        BY <2>2, <1>2 DEF Timestamps
      <3> QED BY <3>1, <2>2, RecentCopies
    <2>3. CASE k \notin Dropped(pkt, ts) /\ k \notin Touched(pkt, ts)
      <3>1. Timestamps(new, k) = Timestamps(old, k) BY <2>3, <1>2 DEF Timestamps
      <3> QED BY <3>1, <2>3
    <2> QED BY <2>1, <2>2, <2>3
  <1> QED BY <1>2, <1>5, <1>6 DEF old, new

\* What the rule loop leaves of the connection counters, copy by copy.
LEMMA ConnTrackedCopies ==
  ASSUME NEW pkt \in Packets, NEW ts \in Time, IsTracker(conn_rate_tracker)
  PROVE  /\ IsTracker(ConnTracked(pkt, ts))
         /\ \A k, t : Copies(Timestamps(ConnTracked(pkt, ts), k), t) =
              IF k \in Dropped(pkt, ts) THEN 0
              ELSE IF k \in Touched(pkt, ts)
                   THEN IF ts - t < TrackWindow THEN Copies(ConnsOf(k, pkt, ts), t) ELSE 0
                   ELSE Copies(Timestamps(Tracker(conn_rate_tracker, ts), k), t)
         /\ DOMAIN ConnTracked(pkt, ts) =
              (DOMAIN Tracker(conn_rate_tracker, ts)
                 \cup (IF IsNewConn(pkt) THEN Touched(pkt, ts) ELSE {})) \ Dropped(pkt, ts)
  <1> DEFINE old == Tracker(conn_rate_tracker, ts)
             new == ConnTracked(pkt, ts)
             made == IF IsNewConn(pkt) THEN Touched(pkt, ts) ELSE {}
  <1>1. IsTracker(old) BY TrackerTimes
  <1>2. /\ DOMAIN new = (DOMAIN old \cup made) \ Dropped(pkt, ts)
        /\ \A k \in DOMAIN new :
             new[k] = IF k \in Touched(pkt, ts)
                      THEN Recent(ConnsOf(k, pkt, ts), ts, TrackWindow) ELSE old[k]
    BY DEF ConnTracked
  <1>3. made \subseteq Touched(pkt, ts) OBVIOUS
  <1>4. ~ IsNewConn(pkt) => /\ made = {}
                            /\ \A k : ConnsOf(k, pkt, ts) = Timestamps(old, k)
    BY DEF ConnsOf
  <1>5. IsNewConn(pkt) => made = Touched(pkt, ts) OBVIOUS
  <1>6. (DOMAIN old \cup made) \ Dropped(pkt, ts) = DOMAIN new BY <1>2
  <1> HIDE DEF old, new, made
  <1>7. ASSUME NEW k \in DOMAIN new PROVE Times(new[k])
    <2>1. CASE k \in Touched(pkt, ts)
      <3>1. Times(ConnsOf(k, pkt, ts)) BY ConnsOfCopies
      <3> QED BY <3>1, <2>1, <1>2, <1>7, RecentTimes
    <2>2. CASE k \notin Touched(pkt, ts)
      <3>1. k \in DOMAIN old /\ new[k] = old[k] BY <2>2, <1>2, <1>3, <1>7
      <3> QED BY <3>1, <1>1 DEF IsTracker, Times
    <2> QED BY <2>1, <2>2
  <1>8. DOMAIN new \subseteq Tracks BY <1>1, <1>2, <1>3, TracksOfMatches DEF IsTracker
  <1>9. IsTracker(new) BY <1>7, <1>8 DEF IsTracker, Times
  <1>10. ASSUME NEW k, NEW t
         PROVE  Copies(Timestamps(new, k), t) =
                  IF k \in Dropped(pkt, ts) THEN 0
                  ELSE IF k \in Touched(pkt, ts)
                       THEN IF ts - t < TrackWindow THEN Copies(ConnsOf(k, pkt, ts), t) ELSE 0
                       ELSE Copies(Timestamps(old, k), t)
    <2>1. CASE k \in Dropped(pkt, ts) BY <2>1, <1>2, CopiesNone DEF Timestamps
    <2>2. CASE k \notin Dropped(pkt, ts) /\ k \in Touched(pkt, ts) /\ k \in DOMAIN new
      <3>1. Timestamps(new, k) = Recent(ConnsOf(k, pkt, ts), ts, TrackWindow)
        BY <2>2, <1>2 DEF Timestamps
      <3> QED BY <3>1, <2>2, RecentCopies
    <2>3. CASE k \notin Dropped(pkt, ts) /\ k \in Touched(pkt, ts) /\ k \notin DOMAIN new
      <3>1. k \notin DOMAIN old /\ ~ IsNewConn(pkt) BY <2>3, <1>2, <1>5
      <3>2. ConnsOf(k, pkt, ts) = EmptyBag BY <3>1, <1>4 DEF Timestamps
      <3>3. Timestamps(new, k) = EmptyBag BY <2>3 DEF Timestamps
      <3> QED BY <2>3, <3>2, <3>3, CopiesNone
    <2>4. CASE k \notin Dropped(pkt, ts) /\ k \notin Touched(pkt, ts)
      <3>1. Timestamps(new, k) = Timestamps(old, k) BY <2>4, <1>2, <1>3 DEF Timestamps
      <3> QED BY <3>1, <2>4
    <2> QED BY <2>1, <2>2, <2>3, <2>4
  <1> QED BY <1>6, <1>9, <1>10 DEF old, new, made

----------------------------------------------------------------------------
(* Types.                                                                  *)

\* A packet's timestamp lies at most Skew behind the latest one, itself included, which never goes
\* back.
LEMMA StampsInTime ==
  ASSUME TypeOK, NEW ts \in Stamps
  PROVE  /\ ts \in Time /\ ts <= Later(ts) /\ Later(ts) - ts <= Skew
         /\ latest \in Time /\ Later(ts) \in Time /\ latest <= Later(ts)
         /\ ts \in Int /\ latest \in Int /\ Later(ts) \in Int
  BY TimeAssumption DEF TypeOK, Stamps, Time, Later

\* As packets come, the past stays past, and what is recent was recent before.
LEMMA TimeMovesOn ==
  ASSUME TypeOK, NEW ts \in Stamps, NEW t \in Time
  PROVE  /\ t <= latest => t <= Later(ts)
         /\ Later(ts) - t < TrackWindow => latest - t < TrackWindow
  <1>1. /\ t \in Int /\ latest \in Int /\ Later(ts) \in Int /\ latest <= Later(ts)
        /\ TrackWindow \in Int
    BY StampsInTime, TimesAreIntegers, TimeAssumption
  <1> QED BY <1>1

\* The alerts of one packet are those of the rules it triggered, numbered one after the other.
LEMMA AlertsOfRules ==
  ASSUME NEW pkt \in Packets, NEW ts, ProcessPacket(pkt, ts)
  PROVE  /\ Cardinality(Triggered(pkt, ts)) \in Nat
         /\ DOMAIN alerts' = 1 .. Cardinality(Triggered(pkt, ts))
         /\ \A i \in DOMAIN alerts' : \E r \in Triggered(pkt, ts) :
              alerts'[i] = Message(i, r, pkt, ts)
  <1>1. Triggered(pkt, ts) \subseteq Rules BY DEF Triggered, Matched
  <1>2. Cardinality(Triggered(pkt, ts)) \in Nat
    BY <1>1, RuleAssumption, FS_Subset, FS_CardinalityType
  <1>3. PICK order \in SetToSeqs(Triggered(pkt, ts)) :
          alerts' = [i \in 1 .. Len(order) |-> Message(i, order[i], pkt, ts)]
    BY DEF ProcessPacket
  <1>4. order \in [1 .. Cardinality(Triggered(pkt, ts)) -> Triggered(pkt, ts)]
    BY DEF SetToSeqs
  <1> HIDE DEF Triggered
  <1>5. Len(order) = Cardinality(Triggered(pkt, ts)) BY <1>2, <1>4
  <1> QED BY <1>2, <1>3, <1>4, <1>5

\* The connection table after a packet has entries of the right shape.
LEMMA ConnsTyped ==
  ASSUME TypeOK, NEW pkt \in Packets, NEW ts \in Time
  PROVE  /\ DOMAIN TrackConn(pkt, ts) \subseteq Addresses \X PortNumbers \X Addresses \X PortNumbers
         /\ \A k \in DOMAIN TrackConn(pkt, ts) :
              TrackConn(pkt, ts)[k] \in [state : {"New", "Established", "Closing"}, last_seen : Time]
  <1> DEFINE Conn == [state : {"New", "Established", "Closing"}, last_seen : Time]
             Dir == Addresses \X PortNumbers \X Addresses \X PortNumbers
             Typed(f) == DOMAIN f \subseteq Dir /\ \A k \in DOMAIN f : f[k] \in Conn
  <1>1. Typed(Conns(ts)) BY DEF TypeOK, Conns, Fresh
  <1>2. ConnKey(pkt) \in Dir /\ RevKey(pkt) \in Dir
    BY DEF ConnKey, RevKey, ResolveSrcIp, ResolveDstIp, Addresses, PortNumbers
  <1>3. ASSUME NEW f, Typed(f), NEW k \in Dir, NEW v \in Conn PROVE Typed(Insert(f, k, v))
    BY <1>3 DEF Insert
  <1>4. \A s \in {"New", "Established", "Closing"} : [state |-> s, last_seen |-> ts] \in Conn OBVIOUS
  <1>5. \A k \in DOMAIN Conns(ts) : [Conns(ts)[k] EXCEPT !.last_seen = ts] \in Conn BY <1>1
  <1> HIDE DEF Typed, Conn, Dir
  <1>6. Typed(TrackConn(pkt, ts)) BY <1>1, <1>2, <1>3, <1>4, <1>5 DEF TrackConn
  <1> QED BY <1>6 DEF Typed, Conn, Dir

\* A packet preserves the types.
LEMMA TypesInductive == TypeOK /\ [Next]_vars => TypeOK'
  <1> SUFFICES ASSUME TypeOK, [Next]_vars PROVE TypeOK' OBVIOUS
  <1>1. CASE UNCHANGED vars BY <1>1 DEF vars, tables, TypeOK, IsTracker
  <1>2. ASSUME NEW pkt \in Packets, NEW ts \in Stamps, ProcessPacket(pkt, ts), handled < MaxPackets
        PROVE  TypeOK'
    <2>1. ts \in Time /\ Later(ts) \in Time BY StampsInTime
    <2>2. latest' \in Time /\ now' \in Time \cup {0} /\ last_cleanup_time' \in Time \cup {0}
      BY <1>2, <2>1 DEF ProcessPacket, TypeOK
    <2>3. handled' \in 0 .. MaxPackets BY <1>2, TimeAssumption DEF ProcessPacket, TypeOK
    <2>4. alert_counter' \in Nat /\ alert_counter' = alert_counter + Cardinality(Triggered(pkt, ts))
      BY <1>2, AlertsOfRules DEF ProcessPacket, TypeOK
    <2>5. /\ DOMAIN access_points' \subseteq {p.beacon.bssid : p \in {q \in Packets : q.beacon # None}}
          /\ \A k \in DOMAIN access_points' : access_points'[k].last_seen \in Time
      <3>1. access_points' = TrackAccessPoint(pkt, ts) BY <1>2 DEF ProcessPacket
      <3>2. /\ DOMAIN AccessPoints(ts) \subseteq DOMAIN access_points
            /\ \A k \in DOMAIN AccessPoints(ts) : AccessPoints(ts)[k] = access_points[k]
        BY DEF AccessPoints, Fresh
      <3>3. CASE pkt.beacon = None BY <3>1, <3>2, <3>3 DEF TrackAccessPoint, TypeOK
      <3>4. CASE pkt.beacon # None BY <2>1, <3>1, <3>2, <3>4 DEF TrackAccessPoint, TypeOK, Insert
      <3> QED BY <3>3, <3>4
    <2>6. /\ DOMAIN clients' \subseteq {p.src_mac : p \in Packets}
          /\ \A k \in DOMAIN clients' : clients'[k].last_seen \in Time
      <3>1. clients' = TrackClient(pkt, ts) BY <1>2 DEF ProcessPacket
      <3>2. /\ DOMAIN Clients(ts) \subseteq DOMAIN clients
            /\ \A k \in DOMAIN Clients(ts) : Clients(ts)[k] = clients[k]
        BY DEF Clients, Fresh
      <3>3. CASE pkt.src_mac \in {"zero", "broadcast"} BY <3>1, <3>2, <3>3 DEF TrackClient, TypeOK
      <3>4. CASE pkt.src_mac \notin {"zero", "broadcast"}
        BY <2>1, <3>1, <3>2, <3>4 DEF TrackClient, TypeOK, Insert
      <3> QED BY <3>3, <3>4
    <2>7. /\ DOMAIN tcp_conn_table' \subseteq Addresses \X PortNumbers \X Addresses \X PortNumbers
          /\ \A k \in DOMAIN tcp_conn_table' :
               tcp_conn_table'[k] \in [state : {"New", "Established", "Closing"}, last_seen : Time]
      <3>1. tcp_conn_table' = TrackConn(pkt, ts) BY <1>2 DEF ProcessPacket
      <3> QED BY <2>1, <3>1, ConnsTyped
    <2>8. IsTracker(rule_rate_tracker') /\ IsTracker(conn_rate_tracker')
      <3>1. IsTracker(rule_rate_tracker) /\ IsTracker(conn_rate_tracker) BY DEF TypeOK
      <3>2. rule_rate_tracker' = RateTracked(pkt, ts) /\ conn_rate_tracker' = ConnTracked(pkt, ts)
        BY <1>2 DEF ProcessPacket
      <3> QED BY <2>1, <3>1, <3>2, RateTrackedCopies, ConnTrackedCopies
    <2>9. \A i \in DOMAIN alerts' : /\ alerts'[i].seq_no \in 1 .. alert_counter'
                                    /\ <<alerts'[i].rule, alerts'[i].sender>> \in Tracks
      <3> SUFFICES ASSUME NEW i \in DOMAIN alerts'
                   PROVE  /\ alerts'[i].seq_no \in 1 .. alert_counter'
                          /\ <<alerts'[i].rule, alerts'[i].sender>> \in Tracks
        OBVIOUS
      <3>1. /\ Cardinality(Triggered(pkt, ts)) \in Nat
            /\ i \in 1 .. Cardinality(Triggered(pkt, ts))
        BY <1>2, AlertsOfRules
      <3>2. PICK r \in Triggered(pkt, ts) : alerts'[i] = Message(i, r, pkt, ts)
        BY <1>2, AlertsOfRules
      <3>3. alerts'[i].seq_no = alert_counter + i BY <3>2 DEF Message
      <3>4. <<alerts'[i].rule, alerts'[i].sender>> = Track(r, pkt) BY <3>2 DEF Message, Track
      <3>5. Track(r, pkt) \in Dropped(pkt, ts) BY DEF Dropped
      <3>6. alert_counter \in Nat BY DEF TypeOK
      <3>7. alerts'[i].seq_no \in 1 .. alert_counter' BY <2>4, <3>1, <3>3, <3>6
      <3>8. Track(r, pkt) \in Tracks BY <3>5, TracksOfMatches
      <3> QED BY <3>4, <3>7, <3>8
    <2> QED BY <2>2, <2>3, <2>4, <2>5, <2>6, <2>7, <2>8, <2>9 DEF TypeOK, IsTracker
  <1> QED BY <1>1, <1>2 DEF Next

\* The tables, trackers and alerts of the engine are well-formed whatever packets come: process_packet
\* numbers every alert within its counter and names a rule and an address in it.
THEOREM EngineTypes == Spec => []TypeOK
  <1>1. Init => TypeOK
    BY TimeAssumption DEF Init, TypeOK, Time, IsTracker
  <1> QED BY <1>1, TypesInductive, PTL DEF Spec

----------------------------------------------------------------------------
(* Both trackers forget alike.                                             *)

\* ConnsAmongPackets, copy by copy.
ConnsCounted == \A k, t : Copies(Timestamps(conn_rate_tracker, k), t)
                          <= Copies(Timestamps(rule_rate_tracker, k), t)

\* A packet preserves ConnsCounted: expiry, pruning and reset do the same to both trackers.
LEMMA ConnsCountedInductive == TypeOK /\ ConnsCounted /\ [Next]_vars => ConnsCounted'
  <1> SUFFICES ASSUME TypeOK, ConnsCounted, [Next]_vars PROVE ConnsCounted' OBVIOUS
  <1>1. CASE UNCHANGED vars BY <1>1 DEF vars, tables, ConnsCounted
  <1>2. ASSUME NEW pkt \in Packets, NEW ts \in Stamps, ProcessPacket(pkt, ts) PROVE ConnsCounted'
    <2> DEFINE old(tracker, k, t) == Copies(Timestamps(tracker, k), t)
    <2>1. ts \in Time BY StampsInTime
    <2>2. IsTracker(rule_rate_tracker) /\ IsTracker(conn_rate_tracker) BY DEF TypeOK
    <2>3. rule_rate_tracker' = RateTracked(pkt, ts) /\ conn_rate_tracker' = ConnTracked(pkt, ts)
      BY <1>2 DEF ProcessPacket
    <2>4. \A k, t : Copies(Timestamps(ConnTracked(pkt, ts), k), t) =
              IF k \in Dropped(pkt, ts) THEN 0
              ELSE IF k \in Touched(pkt, ts)
                   THEN IF ts - t < TrackWindow THEN Copies(ConnsOf(k, pkt, ts), t) ELSE 0
                   ELSE Copies(Timestamps(Tracker(conn_rate_tracker, ts), k), t)
      BY <2>1, <2>2, ConnTrackedCopies
    <2>5. \A k, t : Copies(Timestamps(RateTracked(pkt, ts), k), t) =
              IF k \in Dropped(pkt, ts) THEN 0
              ELSE IF k \in Touched(pkt, ts)
                   THEN IF ts - t < TrackWindow THEN Copies(RateOf(k, ts), t) ELSE 0
                   ELSE Copies(Timestamps(Tracker(rule_rate_tracker, ts), k), t)
      BY <2>1, <2>2, RateTrackedCopies
    <2>6. ASSUME NEW k, NEW t
          PROVE  Copies(Timestamps(ConnTracked(pkt, ts), k), t)
                 <= Copies(Timestamps(RateTracked(pkt, ts), k), t)
      <3>1. old(conn_rate_tracker, k, t) \in Nat /\ old(rule_rate_tracker, k, t) \in Nat
        BY <2>2, TimestampsTimes, CopiesNat DEF Times
      <3>2. old(conn_rate_tracker, k, t) <= old(rule_rate_tracker, k, t) BY DEF ConnsCounted
      <3> HIDE DEF old
      <3>3. CASE k \in Dropped(pkt, ts) BY <3>3, <2>4, <2>5
      <3>4. CASE k \notin Dropped(pkt, ts) /\ k \in Touched(pkt, ts)
        <4>1. Copies(ConnsOf(k, pkt, ts), t) <= Copies(RateOf(k, ts), t)
          BY <2>1, <2>2, <3>1, <3>2, RateOfCopies, ConnsOfCopies DEF old
        <4> QED BY <4>1, <3>4, <2>4, <2>5
      <3>5. CASE k \notin Dropped(pkt, ts) /\ k \notin Touched(pkt, ts)
        <4>1. Copies(Timestamps(Tracker(conn_rate_tracker, ts), k), t)
              <= Copies(Timestamps(Tracker(rule_rate_tracker, ts), k), t)
          BY <3>1, <3>2, <2>1, <2>2, TrackerCopies DEF old
        <4> QED BY <4>1, <3>5, <2>4, <2>5
      <3> QED BY <3>3, <3>4, <3>5
    <2> QED BY <2>3, <2>6 DEF ConnsCounted
  <1> QED BY <1>1, <1>2 DEF Next

\* Copy by copy or as bags, the connection counters are among the packet counters.
LEMMA CountedIsAmong == TypeOK /\ ConnsCounted => ConnsAmongPackets
  <1> SUFFICES ASSUME TypeOK, ConnsCounted, NEW k \in DOMAIN conn_rate_tracker,
                      conn_rate_tracker[k] # EmptyBag
               PROVE  /\ k \in DOMAIN rule_rate_tracker
                      /\ conn_rate_tracker[k] \sqsubseteq rule_rate_tracker[k]
    BY DEF ConnsAmongPackets
  <1> DEFINE conns == conn_rate_tracker[k]
             packets == Timestamps(rule_rate_tracker, k)
  <1>1. IsABag(conns) /\ IsABag(packets)
    BY TimestampsTimes DEF TypeOK, IsTracker, Times
  <1>2. \A t \in DOMAIN conns : t \in DOMAIN packets /\ conns[t] <= packets[t]
    <2> SUFFICES ASSUME NEW t \in DOMAIN conns PROVE t \in DOMAIN packets /\ conns[t] <= packets[t]
      OBVIOUS
    <2>1. Copies(conns, t) <= Copies(packets, t) BY DEF ConnsCounted, Timestamps
    <2>2. Copies(conns, t) \in Nat /\ Copies(conns, t) > 0 /\ Copies(packets, t) \in Nat
      BY <1>1, CopiesNat
    <2>3. t \in DOMAIN packets BY <1>1, <2>1, <2>2, CopiesNat
    <2> QED BY <2>1, <2>3 DEF Copies
  <1>3. PICK t : t \in DOMAIN conns
    BY <1>1 DEF IsABag, EmptyBag, SetToBag
  <1>4. t \in DOMAIN packets BY <1>2, <1>3
  <1>5. k \in DOMAIN rule_rate_tracker BY <1>4 DEF Timestamps, EmptyBag, SetToBag
  <1> QED BY <1>2, <1>5 DEF Timestamps, \sqsubseteq

\* process_packet never counts a connection it did not count as a packet (ConnsAmongPackets),
\* through any sequence of cleanups, prunings and resets.
THEOREM ConnectionsWerePackets == Spec => []ConnsAmongPackets
  <1>1. Init => ConnsCounted BY CopiesNone DEF Init, ConnsCounted, Timestamps
  <1>2. TypeOK /\ ConnsCounted => ConnsAmongPackets BY CountedIsAmong
  <1> QED BY <1>1, <1>2, ConnsCountedInductive, EngineTypes, PTL DEF Spec

----------------------------------------------------------------------------
(* Rules on established connections.                                       *)

\* After the SYN of a direction the table knows it as new, whatever it knew before.
LEMMA SynIsNew ==
  ASSUME NEW pkt, NEW ts, IsTcp(pkt), IsSyn(pkt)
  PROVE  TrackConn(pkt, ts)[ConnKey(pkt)].state = "New"
  BY DEF TrackConn, Insert

\* No rule with flow.state "established" ever has a connection counter (EstablishedRulesCountNone):
\* process_packet updates the table before matches_rule reads it, so a SYN that would count is new.
THEOREM EstablishedRulesCount == Spec => []EstablishedRulesCountNone
  <1>1. Init => EstablishedRulesCountNone BY DEF Init, EstablishedRulesCountNone
  <1>2. ASSUME TypeOK, EstablishedRulesCountNone, [Next]_vars PROVE EstablishedRulesCountNone'
    <2>1. CASE UNCHANGED vars BY <1>2, <2>1 DEF vars, tables, EstablishedRulesCountNone
    <2>2. ASSUME NEW pkt \in Packets, NEW ts \in Stamps, ProcessPacket(pkt, ts)
          PROVE  EstablishedRulesCountNone'
      <3>1. conn_rate_tracker' = ConnTracked(pkt, ts) BY <2>2 DEF ProcessPacket
      <3>2. ts \in Time /\ IsTracker(conn_rate_tracker) BY <1>2, StampsInTime DEF TypeOK
      <3> SUFFICES ASSUME NEW k \in DOMAIN ConnTracked(pkt, ts), NEW r \in Rules, r.id = k[1],
                          r.state = "established"
                   PROVE  FALSE
        BY <3>1 DEF EstablishedRulesCountNone
      <3>3. k \notin DOMAIN conn_rate_tracker BY <1>2 DEF EstablishedRulesCountNone
      <3>4. k \notin DOMAIN Tracker(conn_rate_tracker, ts) BY <3>2, <3>3, TrackerTimes
      <3>5. IsNewConn(pkt) /\ k \in Touched(pkt, ts) BY <3>2, <3>4, ConnTrackedCopies
      <3>6. r \in Matched(pkt, ts) BY <3>5, OwnerOfTrack
      <3>7. /\ IsTcp(pkt)
            /\ TrackConn(pkt, ts)[ConnKey(pkt)].state = "Established"
        BY <3>6 DEF Matched, MatchesRule, StateMatches
      <3>8. IsSyn(pkt) BY <3>5, <3>7 DEF IsNewConn
      <3> QED BY <3>7, <3>8, SynIsNew
    <2> QED BY <1>2, <2>1, <2>2 DEF Next
  <1> QED BY <1>1, <1>2, EngineTypes, PTL DEF Spec

----------------------------------------------------------------------------
(* How long entries stay.                                                  *)

\* The entries of f were used at most `age' before the last cleanup.
Within(f, cleanup, age) == \A k \in DOMAIN f : cleanup - f[k].last_seen <= age
TimesWithin(tracker, cleanup) ==
  \A k, t : Copies(Timestamps(tracker, k), t) > 0 => cleanup - t <= TrackWindow
ClosingWithin(conns, cleanup) ==
  \A k \in DOMAIN conns : conns[k].state = "Closing" => cleanup - conns[k].last_seen <= Skew

\* Ages are measured from the last cleanup, which is never further back than one period.
AgesBounded ==
  /\ last_cleanup_time <= latest
  /\ now - last_cleanup_time < CleanupPeriod
  /\ Within(access_points, last_cleanup_time, StaleAfter)
  /\ Within(clients, last_cleanup_time, StaleAfter)
  /\ Within(tcp_conn_table, last_cleanup_time, StaleAfter)
  /\ ClosingWithin(tcp_conn_table, last_cleanup_time)
  /\ TimesWithin(rule_rate_tracker, last_cleanup_time)
  /\ TimesWithin(conn_rate_tracker, last_cleanup_time)

\* The time of the last cleanup after a packet of time ts.
CleanupAt(ts) == IF CleanupDue(ts) THEN ts ELSE last_cleanup_time

\* After a packet the last cleanup is at most Skew later than its timestamp, and less than one
\* period earlier.
LEMMA CleanupNear ==
  ASSUME TypeOK, AgesBounded, NEW ts \in Stamps
  PROVE  /\ ts \in Int /\ CleanupAt(ts) \in Int
         /\ CleanupAt(ts) - ts <= Skew /\ ts - CleanupAt(ts) < CleanupPeriod
         /\ CleanupAt(ts) <= Later(ts)
  <1>1. ts \in Int /\ latest \in Int /\ Later(ts) \in Int /\ last_cleanup_time \in Int
    <2>1. ts \in Time /\ latest \in Time /\ Later(ts) \in Time /\ last_cleanup_time \in Time \cup {0}
      BY StampsInTime DEF TypeOK
    <2> QED BY <2>1, StampsInTime, TimesAreIntegers
  <1>2. Later(ts) - ts <= Skew /\ ts <= Later(ts) /\ latest <= Later(ts) BY StampsInTime
  <1>3. last_cleanup_time <= latest BY DEF AgesBounded
  <1> QED BY <1>1, <1>2, <1>3, TimeAssumption DEF CleanupAt, CleanupDue

\* A refreshed entry is young, even by a packet that is late.
LEMMA InsertWithin ==
  ASSUME TypeOK, AgesBounded, NEW ts \in Stamps, NEW f, Within(f, CleanupAt(ts), StaleAfter),
         NEW k, NEW v, v.last_seen = ts
  PROVE  Within(Insert(f, k, v), CleanupAt(ts), StaleAfter)
  BY CleanupNear, SkewAssumption, TimeAssumption DEF Within, Insert

\* The entries a cleanup leaves are young.
LEMMA FreshWithin ==
  ASSUME TypeOK, AgesBounded, NEW ts \in Stamps, NEW f, CleanupDue(ts),
         \A k \in DOMAIN f : f[k].last_seen \in Time
  PROVE  \A k \in Fresh(f, ts) : CleanupAt(ts) - f[k].last_seen <= StaleAfter
  <1>1. CleanupAt(ts) = ts /\ ts \in Int BY CleanupNear DEF CleanupAt
  <1> SUFFICES ASSUME NEW k \in Fresh(f, ts) PROVE ts - f[k].last_seen <= StaleAfter BY <1>1
  <1>2. f[k].last_seen \in Int /\ ts - f[k].last_seen < StaleAfter BY TimesAreIntegers DEF Fresh
  <1> QED BY <1>1, <1>2, TimeAssumption

\* The connections that a packet leaves are young, and closing ones were closed since the last cleanup.
LEMMA ConnsWithin ==
  ASSUME TypeOK, AgesBounded, NEW pkt \in Packets, NEW ts \in Stamps
  PROVE  /\ Within(TrackConn(pkt, ts), CleanupAt(ts), StaleAfter)
         /\ ClosingWithin(TrackConn(pkt, ts), CleanupAt(ts))
  <1> DEFINE Aged(f) == Within(f, CleanupAt(ts), StaleAfter) /\ ClosingWithin(f, CleanupAt(ts))
  <1>1. Aged(Conns(ts))
    <2>1. CASE CleanupDue(ts)
      <3>1. \A k \in DOMAIN tcp_conn_table : tcp_conn_table[k].last_seen \in Time BY DEF TypeOK
      <3>2. \A k \in Fresh(tcp_conn_table, ts) :
              CleanupAt(ts) - tcp_conn_table[k].last_seen <= StaleAfter
        BY <2>1, <3>1, FreshWithin
      <3> QED BY <2>1, <3>2 DEF Conns, Within, ClosingWithin
    <2>2. CASE ~ CleanupDue(ts) BY <2>2 DEF AgesBounded, Conns, CleanupAt
    <2> QED BY <2>1, <2>2
  <1>2. CleanupAt(ts) - ts <= Skew BY CleanupNear
  <1>3. ASSUME NEW f, Aged(f), NEW k, NEW v, v.last_seen = ts PROVE Aged(Insert(f, k, v))
    <2>1. Within(Insert(f, k, v), CleanupAt(ts), StaleAfter) BY <1>3, InsertWithin
    <2>2. ClosingWithin(Insert(f, k, v), CleanupAt(ts)) BY <1>2, <1>3 DEF Insert, ClosingWithin
    <2> QED BY <2>1, <2>2
  <1>4. \A s : [state |-> s, last_seen |-> ts].last_seen = ts OBVIOUS
  <1>5. ASSUME NEW k \in DOMAIN Conns(ts) PROVE [Conns(ts)[k] EXCEPT !.last_seen = ts].last_seen = ts
    <2>1. Conns(ts)[k] \in [state : {"New", "Established", "Closing"}, last_seen : Time]
      BY <1>5 DEF TypeOK, Conns, Fresh
    <2> QED BY <2>1
  <1> HIDE DEF Aged
  <1>6. Aged(TrackConn(pkt, ts)) BY <1>1, <1>3, <1>4, <1>5 DEF TrackConn
  <1> QED BY <1>6 DEF Aged

\* The timestamps that a packet leaves in the trackers are young: each was there before or is the
\* packet's own.
LEMMA TimesStayWithin ==
  ASSUME TypeOK, AgesBounded, NEW pkt \in Packets, NEW ts \in Stamps
  PROVE  /\ TimesWithin(RateTracked(pkt, ts), CleanupAt(ts))
         /\ TimesWithin(ConnTracked(pkt, ts), CleanupAt(ts))
  <1> DEFINE old(tracker, k, t) == Copies(Timestamps(tracker, k), t)
             pruned(tracker, k, t) ==
               IF CleanupDue(ts) /\ ~ (ts - t < TrackWindow) THEN 0 ELSE old(tracker, k, t)
  <1>1. ts \in Time /\ IsTracker(rule_rate_tracker) /\ IsTracker(conn_rate_tracker)
    BY StampsInTime DEF TypeOK
  <1>2. \A k, t : /\ old(rule_rate_tracker, k, t) \in Nat /\ old(conn_rate_tracker, k, t) \in Nat
                  /\ old(rule_rate_tracker, k, t) > 0 => t \in Int
                  /\ old(conn_rate_tracker, k, t) > 0 => t \in Int
    BY <1>1, TimestampsTimes, CopiesNat, TimesAreIntegers DEF Times
  <1>3. ASSUME NEW t, t = ts PROVE CleanupAt(ts) - t <= TrackWindow
    BY <1>3, CleanupNear, SkewAssumption, TimeAssumption
  <1>4. ASSUME NEW tracker, NEW k, NEW t, TimesWithin(tracker, last_cleanup_time),
               old(tracker, k, t) > 0 => t \in Int, pruned(tracker, k, t) > 0
        PROVE  CleanupAt(ts) - t <= TrackWindow
    <2>1. CASE CleanupDue(ts)
      <3>1. ts - t < TrackWindow /\ t \in Int BY <1>4, <2>1
      <3> QED BY <2>1, <3>1, CleanupNear, TimeAssumption DEF CleanupAt
    <2>2. CASE ~ CleanupDue(ts)
      <3>1. old(tracker, k, t) > 0 BY <1>4, <2>2
      <3> QED BY <1>4, <2>2, <3>1 DEF CleanupAt, TimesWithin
    <2> QED BY <2>1, <2>2
  <1>5. ASSUME NEW k, NEW t, Copies(Timestamps(RateTracked(pkt, ts), k), t) > 0
        PROVE  t = ts \/ pruned(rule_rate_tracker, k, t) > 0
    <2>1. Copies(Timestamps(Tracker(rule_rate_tracker, ts), k), t) = pruned(rule_rate_tracker, k, t)
      BY <1>1, TrackerCopies
    <2>2. Copies(RateOf(k, ts), t) = pruned(rule_rate_tracker, k, t) + (IF t = ts THEN 1 ELSE 0)
      BY <1>1, RateOfCopies
    <2>3. pruned(rule_rate_tracker, k, t) \in Nat BY <1>2
    <2>4. \A l, u : Copies(Timestamps(RateTracked(pkt, ts), l), u) =
              IF l \in Dropped(pkt, ts) THEN 0
              ELSE IF l \in Touched(pkt, ts)
                   THEN IF ts - u < TrackWindow THEN Copies(RateOf(l, ts), u) ELSE 0
                   ELSE Copies(Timestamps(Tracker(rule_rate_tracker, ts), l), u)
      BY <1>1, RateTrackedCopies
    <2> HIDE DEF pruned
    <2> QED BY <1>5, <2>1, <2>2, <2>3, <2>4
  <1>6. ASSUME NEW k, NEW t, Copies(Timestamps(ConnTracked(pkt, ts), k), t) > 0
        PROVE  t = ts \/ pruned(conn_rate_tracker, k, t) > 0
    <2>1. Copies(Timestamps(Tracker(conn_rate_tracker, ts), k), t) = pruned(conn_rate_tracker, k, t)
      BY <1>1, TrackerCopies
    <2>2. Copies(ConnsOf(k, pkt, ts), t) = pruned(conn_rate_tracker, k, t)
                                           + (IF IsNewConn(pkt) /\ t = ts THEN 1 ELSE 0)
      BY <1>1, ConnsOfCopies
    <2>3. pruned(conn_rate_tracker, k, t) \in Nat BY <1>2
    <2>4. \A l, u : Copies(Timestamps(ConnTracked(pkt, ts), l), u) =
              IF l \in Dropped(pkt, ts) THEN 0
              ELSE IF l \in Touched(pkt, ts)
                   THEN IF ts - u < TrackWindow THEN Copies(ConnsOf(l, pkt, ts), u) ELSE 0
                   ELSE Copies(Timestamps(Tracker(conn_rate_tracker, ts), l), u)
      BY <1>1, ConnTrackedCopies
    <2> HIDE DEF pruned
    <2> QED BY <1>6, <2>1, <2>2, <2>3, <2>4
  <1>7. /\ TimesWithin(rule_rate_tracker, last_cleanup_time)
        /\ TimesWithin(conn_rate_tracker, last_cleanup_time)
    BY DEF AgesBounded
  <1> HIDE DEF pruned
  <1>8. TimesWithin(RateTracked(pkt, ts), CleanupAt(ts))
    BY <1>2, <1>3, <1>4, <1>5, <1>7 DEF TimesWithin
  <1>9. TimesWithin(ConnTracked(pkt, ts), CleanupAt(ts))
    BY <1>2, <1>3, <1>4, <1>6, <1>7 DEF TimesWithin
  <1> QED BY <1>8, <1>9

\* A packet preserves the bounds on ages.
LEMMA AgesInductive == TypeOK /\ AgesBounded /\ [Next]_vars => AgesBounded'
  <1> SUFFICES ASSUME TypeOK, AgesBounded, [Next]_vars PROVE AgesBounded' OBVIOUS
  <1>1. CASE UNCHANGED vars
    BY <1>1 DEF vars, tables, AgesBounded, Within, ClosingWithin, TimesWithin
  <1>2. ASSUME NEW pkt \in Packets, NEW ts \in Stamps, ProcessPacket(pkt, ts) PROVE AgesBounded'
    <2>1. last_cleanup_time' = CleanupAt(ts) /\ now' = ts /\ latest' = Later(ts)
      BY <1>2 DEF ProcessPacket, CleanupAt
    <2>2. last_cleanup_time' <= latest' /\ now' - last_cleanup_time' < CleanupPeriod
      BY <2>1, CleanupNear
    <2>3. Within(access_points', last_cleanup_time', StaleAfter)
      <3>1. access_points' = TrackAccessPoint(pkt, ts) BY <1>2 DEF ProcessPacket
      <3>2. Within(AccessPoints(ts), CleanupAt(ts), StaleAfter)
        <4>1. CASE CleanupDue(ts)
          <5>1. \A k \in Fresh(access_points, ts) : CleanupAt(ts) - access_points[k].last_seen <= StaleAfter
            BY <4>1, FreshWithin DEF TypeOK
          <5> QED BY <4>1, <5>1 DEF AccessPoints, Within
        <4>2. CASE ~ CleanupDue(ts) BY <4>2 DEF AgesBounded, AccessPoints, CleanupAt
        <4> QED BY <4>1, <4>2
      <3>3. Within(TrackAccessPoint(pkt, ts), CleanupAt(ts), StaleAfter)
        BY <3>2, InsertWithin DEF TrackAccessPoint
      <3> QED BY <2>1, <3>1, <3>3
    <2>4. Within(clients', last_cleanup_time', StaleAfter)
      <3>1. clients' = TrackClient(pkt, ts) BY <1>2 DEF ProcessPacket
      <3>2. Within(Clients(ts), CleanupAt(ts), StaleAfter)
        <4>1. CASE CleanupDue(ts)
          <5>1. \A k \in Fresh(clients, ts) : CleanupAt(ts) - clients[k].last_seen <= StaleAfter
            BY <4>1, FreshWithin DEF TypeOK
          <5> QED BY <4>1, <5>1 DEF Clients, Within
        <4>2. CASE ~ CleanupDue(ts) BY <4>2 DEF AgesBounded, Clients, CleanupAt
        <4> QED BY <4>1, <4>2
      <3>3. Within(TrackClient(pkt, ts), CleanupAt(ts), StaleAfter)
        BY <3>2, InsertWithin DEF TrackClient
      <3> QED BY <2>1, <3>1, <3>3
    <2>5. /\ Within(tcp_conn_table', last_cleanup_time', StaleAfter)
          /\ ClosingWithin(tcp_conn_table', last_cleanup_time')
      <3>1. tcp_conn_table' = TrackConn(pkt, ts) BY <1>2 DEF ProcessPacket
      <3> QED BY <2>1, <3>1, ConnsWithin
    <2>6. /\ TimesWithin(rule_rate_tracker', last_cleanup_time')
          /\ TimesWithin(conn_rate_tracker', last_cleanup_time')
      <3>1. rule_rate_tracker' = RateTracked(pkt, ts) /\ conn_rate_tracker' = ConnTracked(pkt, ts)
        BY <1>2 DEF ProcessPacket
      <3> QED BY <2>1, <3>1, TimesStayWithin
    <2> QED BY <2>2, <2>3, <2>4, <2>5, <2>6
          DEF AgesBounded, Within, ClosingWithin, TimesWithin
  <1> QED BY <1>1, <1>2 DEF Next

\* Young at the last cleanup, nothing is older than its limit and one period now.
LEMMA BoundedIsNotStale == TypeOK /\ AgesBounded => NothingStale
  <1> SUFFICES ASSUME TypeOK, AgesBounded PROVE NothingStale OBVIOUS
  <1>1. /\ now \in Int /\ last_cleanup_time \in Int /\ now - last_cleanup_time < CleanupPeriod
        /\ StaleAfter \in Int /\ CleanupPeriod \in Int /\ TrackWindow \in Int /\ Skew \in Int
    BY TimesAreIntegers, TimeAssumption DEF TypeOK, AgesBounded
  <1>2. ASSUME NEW t \in Int, NEW age \in Int, last_cleanup_time - t <= age
        PROVE  now - t < age + CleanupPeriod
    BY <1>1, <1>2
  <1>3. \A k \in DOMAIN access_points : now - access_points[k].last_seen < StaleAfter + CleanupPeriod
    BY <1>1, <1>2, TimesAreIntegers DEF TypeOK, AgesBounded, Within
  <1>4. \A k \in DOMAIN clients : now - clients[k].last_seen < StaleAfter + CleanupPeriod
    BY <1>1, <1>2, TimesAreIntegers DEF TypeOK, AgesBounded, Within
  <1>5. ASSUME NEW k \in DOMAIN tcp_conn_table
        PROVE  /\ now - tcp_conn_table[k].last_seen < StaleAfter + CleanupPeriod
               /\ tcp_conn_table[k].state = "Closing"
                    => now - tcp_conn_table[k].last_seen < CleanupPeriod + Skew
    <2>1. tcp_conn_table[k].last_seen \in Int BY <1>5, TimesAreIntegers DEF TypeOK
    <2>2. last_cleanup_time - tcp_conn_table[k].last_seen <= StaleAfter
      BY <1>5 DEF AgesBounded, Within
    <2>3. tcp_conn_table[k].state = "Closing" => last_cleanup_time - tcp_conn_table[k].last_seen <= Skew
      BY <1>5 DEF AgesBounded, ClosingWithin
    <2>4. Skew + CleanupPeriod = CleanupPeriod + Skew BY <1>1
    <2> QED BY <1>1, <1>2, <2>1, <2>2, <2>3, <2>4
  <1>6. ASSUME NEW tracker, IsTracker(tracker), TimesWithin(tracker, last_cleanup_time),
               NEW k \in DOMAIN tracker, NEW t \in DOMAIN tracker[k]
        PROVE  now - t < TrackWindow + CleanupPeriod
    <2>1. t \in Int /\ IsABag(tracker[k]) BY <1>6, TimesAreIntegers DEF IsTracker
    <2>2. Copies(Timestamps(tracker, k), t) > 0 BY <1>6, <2>1, CopiesNat DEF Timestamps
    <2>3. last_cleanup_time - t <= TrackWindow BY <1>6, <2>2 DEF TimesWithin
    <2> QED BY <1>1, <1>2, <2>1, <2>3
  <1>7. \A tracker \in {rule_rate_tracker, conn_rate_tracker} : \A k \in DOMAIN tracker :
          \A t \in DOMAIN tracker[k] : now - t < TrackWindow + CleanupPeriod
    BY <1>6 DEF TypeOK, AgesBounded
  <1> QED BY <1>3, <1>4, <1>5, <1>7 DEF NothingStale

\* Right after any packet no table and no tracker holds anything older than its retention time and
\* one cleanup period (NothingStale), although expire_states runs only when packets come and these
\* are out of order.
THEOREM MemoryBoundedByTime == Spec => []NothingStale
  <1>1. Init => AgesBounded
    BY TimeAssumption, CopiesNone
       DEF Init, AgesBounded, Within, ClosingWithin, TimesWithin, Timestamps
  <1> QED BY <1>1, BoundedIsNotStale, AgesInductive, EngineTypes, PTL DEF Spec
----------------------------------------------------------------------------
(* The engine under its observer is the engine.                            *)

\* The observer only looks: without its variables a behaviour is one of the engine.
LEMMA ObserverHarmless == HSpec => Spec
  <1>1. HInit => Init BY DEF HInit
  <1>2. [HNext]_hvars => [Next]_vars BY DEF HNext, HProcessPacket, Next, hvars
  <1> QED BY <1>1, <1>2, PTL DEF HSpec, Spec

\* So the types of the engine hold beside the observer.
LEMMA HistoryTypes == HSpec => []TypeOK
  BY ObserverHarmless, EngineTypes, PTL

----------------------------------------------------------------------------
(* The state of a connection is that of its last control segment.          *)

Directions == {ConnKey(p) : p \in Packets} \cup {RevKey(p) : p \in Packets}

\* The connections the table knows, and what the observer remembers of them.
ControlInv == /\ DOMAIN control = Directions
              /\ DOMAIN tcp_conn_table \subseteq Directions
              /\ StateOfLastControl

\* Every packet preserves ControlInv: one step for each branch of the TCP tracking.
LEMMA ControlInductive == ControlInv /\ TypeOK /\ [HNext]_hvars => ControlInv'
  <1> SUFFICES ASSUME ControlInv, TypeOK, [HNext]_hvars PROVE ControlInv' OBVIOUS
  <1>1. CASE UNCHANGED hvars BY <1>1 DEF hvars, vars, tables, ControlInv, StateOfLastControl
  <1>2. ASSUME NEW pkt \in Packets, NEW ts \in Stamps, HProcessPacket(pkt, ts) PROVE ControlInv'
    <2> DEFINE Tells(conns, con) ==
                 /\ DOMAIN con = Directions /\ DOMAIN conns \subseteq Directions
                 /\ \A k \in DOMAIN conns : conns[k].state = con[k]
               old == Conns(ts)
               key == ConnKey(pkt)
               rev == RevKey(pkt)
    <2>1. tcp_conn_table' = TrackConn(pkt, ts) /\ control' = Control(pkt)
      BY <1>2 DEF HProcessPacket, ProcessPacket
    <2>2. /\ DOMAIN old \subseteq DOMAIN tcp_conn_table
          /\ \A k \in DOMAIN old : old[k] = tcp_conn_table[k]
      BY DEF Conns, Fresh, Restrict
    <2>3. Tells(old, control) BY <2>2 DEF ControlInv, StateOfLastControl
    <2>4. key \in Directions /\ rev \in Directions BY DEF Directions
    <2>5. ASSUME NEW conns, NEW con, Tells(conns, con), NEW k \in Directions, NEW v
          PROVE  Tells(Insert(conns, k, v), [con EXCEPT ![k] = v.state])
      BY <2>5 DEF Insert
    <2>6. ASSUME NEW conns, NEW con, Tells(conns, con), NEW k \in DOMAIN conns, NEW v,
                 v.state = conns[k].state
          PROVE  Tells(Insert(conns, k, v), con)
      BY <2>6 DEF Insert
    <2>7. ASSUME NEW k \in DOMAIN old PROVE [old[k] EXCEPT !.last_seen = ts].state = old[k].state
      <3>1. old[k] \in [state : {"New", "Established", "Closing"}, last_seen : Time]
        BY <2>2, <2>7 DEF TypeOK
      <3> QED BY <3>1
    <2>8. Tells(TrackConn(pkt, ts), Control(pkt))
      <3>1. CASE ~ IsTcp(pkt) BY <2>3, <3>1 DEF TrackConn, Control
      <3>2. CASE IsTcp(pkt) /\ IsSyn(pkt)
        <4> DEFINE new == [state |-> "New", last_seen |-> ts]
        <4>1. /\ TrackConn(pkt, ts) = Insert(old, key, new)
              /\ Control(pkt) = [control EXCEPT ![key] = "New"]
          BY <3>2 DEF TrackConn, Control
        <4>2. new.state = "New" OBVIOUS
        <4> HIDE DEF Tells, old, key, new
        <4>3. Tells(Insert(old, key, new), [control EXCEPT ![key] = new.state])
          BY <2>3, <2>4, <2>5
        <4> QED BY <4>1, <4>2, <4>3
      <3>3. CASE IsTcp(pkt) /\ ~ IsSyn(pkt) /\ IsSynAck(pkt)
        <4> DEFINE est == [state |-> "Established", last_seen |-> ts]
        <4>1. /\ TrackConn(pkt, ts) = Insert(Insert(old, rev, est), key, est)
              /\ Control(pkt) = [control EXCEPT ![key] = "Established", ![rev] = "Established"]
          BY <3>3 DEF TrackConn, Control
        <4>2. Control(pkt) = [[control EXCEPT ![rev] = est.state] EXCEPT ![key] = est.state]
          BY <4>1, <2>3
        <4> HIDE DEF Tells, old, key, rev, est
        <4>3. Tells(Insert(old, rev, est), [control EXCEPT ![rev] = est.state])
          BY <2>3, <2>4, <2>5
        <4>4. Tells(Insert(Insert(old, rev, est), key, est),
                    [[control EXCEPT ![rev] = est.state] EXCEPT ![key] = est.state])
          BY <4>3, <2>4, <2>5
        <4> QED BY <4>1, <4>2, <4>4
      <3>4. CASE IsTcp(pkt) /\ ~ IsSyn(pkt) /\ ~ IsSynAck(pkt) /\ key \in DOMAIN old
        <4>1. CASE IsTeardown(pkt)
          <5> DEFINE closing == [state |-> "Closing", last_seen |-> ts]
          <5>1. /\ TrackConn(pkt, ts) = Insert(old, key, closing)
                /\ Control(pkt) = [control EXCEPT ![key] = "Closing"]
            BY <3>4, <4>1 DEF TrackConn, Control
          <5>2. closing.state = "Closing" OBVIOUS
          <5> HIDE DEF Tells, old, key, closing
          <5>3. Tells(Insert(old, key, closing), [control EXCEPT ![key] = closing.state])
            BY <2>3, <2>4, <2>5
          <5> QED BY <5>1, <5>2, <5>3
        <4>2. CASE ~ IsTeardown(pkt)
          <5> DEFINE later == [old[key] EXCEPT !.last_seen = ts]
          <5>1. /\ TrackConn(pkt, ts) = Insert(old, key, later)
                /\ Control(pkt) = control
            BY <3>4, <4>2 DEF TrackConn, Control
          <5>2. later.state = old[key].state BY <3>4, <2>7
          <5> HIDE DEF Tells, old, key, later
          <5>3. Tells(Insert(old, key, later), control) BY <5>2, <3>4, <2>3, <2>6
          <5> QED BY <5>1, <5>3
        <4> QED BY <4>1, <4>2
      <3>5. CASE IsTcp(pkt) /\ ~ IsSyn(pkt) /\ ~ IsSynAck(pkt) /\ key \notin DOMAIN old
        <4>1. TrackConn(pkt, ts) = old BY <3>5 DEF TrackConn
        <4>2. Control(pkt) = control \/ Control(pkt) = [control EXCEPT ![key] = "Closing"]
          BY <3>5 DEF Control
        <4> HIDE DEF old, key
        <4> QED BY <4>1, <4>2, <3>5, <2>3
      <3> QED BY <3>1, <3>2, <3>3, <3>4, <3>5
    <2> QED BY <2>1, <2>8 DEF ControlInv, StateOfLastControl
  <1> QED BY <1>1, <1>2 DEF HNext

\* What the table and the observer tell of each direction agrees in every state.
LEMMA ControlKept == HSpec => []ControlInv
  <1>1. HInit => ControlInv
    BY DEF HInit, Init, ControlInv, StateOfLastControl, Directions
  <1> QED BY <1>1, ControlInductive, HistoryTypes, PTL DEF HSpec

\* The state of a connection in tcp_conn_table is the one its last SYN, SYN-ACK, FIN or RST gave it
\* (StateOfLastControl), through any expiry and reappearance.
THEOREM TableTellsLastControl == HSpec => []StateOfLastControl
  <1>1. ControlInv => StateOfLastControl BY DEF ControlInv
  <1> QED BY <1>1, ControlKept, PTL

----------------------------------------------------------------------------
(* What the trackers remember of the past.                                 *)

\* A history of times up to `end'.
Past(seen, end) == /\ DOMAIN seen = Tracks
                   /\ \A k \in Tracks : Times(seen[k]) /\ \A t \in DOMAIN seen[k] : t <= end

\* A tracker holds nothing that was not seen, and all of the TrackWindow before `end'.
Remembers(tracker, seen, end) ==
  \A k \in Tracks, t \in Time :
    /\ Copies(Timestamps(tracker, k), t) <= Copies(seen[k], t)
    /\ end - t < TrackWindow => Copies(Timestamps(tracker, k), t) = Copies(seen[k], t)

MemoryInv == /\ Past(seenPackets, latest) /\ Remembers(rule_rate_tracker, seenPackets, latest)
             /\ Past(seenConns, latest) /\ Remembers(conn_rate_tracker, seenConns, latest)

\* What the observer remembers of the packets a rule counts, copy by copy.
LEMMA SeenPacketCopies ==
  ASSUME NEW seen, Past(seen, latest), NEW pkt \in Packets, NEW ts \in Time
  PROVE  \A k \in Tracks, t \in Time :
           Copies(Seen(seen, pkt, ts, TRUE)[k], t) =
             IF k \in Dropped(pkt, ts) THEN 0
             ELSE Copies(seen[k], t)
                  + (IF k \in Touched(pkt, ts) /\ t = ts THEN 1 ELSE 0)
  <1> SUFFICES ASSUME NEW k \in Tracks, NEW t \in Time
               PROVE  Copies(Seen(seen, pkt, ts, TRUE)[k], t) =
                        IF k \in Dropped(pkt, ts) THEN 0
                        ELSE Copies(seen[k], t)
                             + (IF k \in Touched(pkt, ts) /\ t = ts THEN 1 ELSE 0)
    OBVIOUS
  <1> DEFINE new == Seen(seen, pkt, ts, TRUE)[k]
  <1>1. new = IF k \in Dropped(pkt, ts) THEN EmptyBag
              ELSE IF k \in Touched(pkt, ts) THEN Pushed(seen[k], ts) ELSE seen[k]
    BY DEF Seen
  <1>2. IsABag(seen[k]) BY DEF Past, Times
  <1>3. Copies(seen[k], t) \in Nat BY <1>2, CopiesNat
  <1>4. Copies(Pushed(seen[k], ts), t) = Copies(seen[k], t) + (IF t = ts THEN 1 ELSE 0)
    BY <1>2, PushedCopies
  <1>5. Copies(EmptyBag, t) = 0 BY CopiesNone
  <1> HIDE DEF new
  <1>6. CASE k \in Dropped(pkt, ts) BY <1>1, <1>5, <1>6 DEF new
  <1>7. CASE k \notin Dropped(pkt, ts) /\ k \in Touched(pkt, ts) BY <1>1, <1>4, <1>7 DEF new
  <1>8. CASE k \notin Dropped(pkt, ts) /\ k \notin Touched(pkt, ts)
    <2>1. new = seen[k] BY <1>1, <1>8
    <2>2. (IF k \in Touched(pkt, ts) /\ t = ts THEN 1 ELSE 0) = 0 BY <1>8
    <2>3. Copies(new, t) = Copies(seen[k], t) + 0 BY <1>3, <2>1
    <2> QED BY <1>8, <2>2, <2>3 DEF new
  <1> QED BY <1>6, <1>7, <1>8

\* What the observer remembers of the connections a rule counts, copy by copy.
LEMMA SeenConnCopies ==
  ASSUME NEW seen, Past(seen, latest), NEW pkt \in Packets, NEW ts \in Time
  PROVE  \A k \in Tracks, t \in Time :
           Copies(Seen(seen, pkt, ts, IsNewConn(pkt))[k], t) =
             IF k \in Dropped(pkt, ts) THEN 0
             ELSE Copies(seen[k], t)
                  + (IF IsNewConn(pkt) /\ k \in Touched(pkt, ts) /\ t = ts THEN 1 ELSE 0)
  <1> SUFFICES ASSUME NEW k \in Tracks, NEW t \in Time
               PROVE  Copies(Seen(seen, pkt, ts, IsNewConn(pkt))[k], t) =
                        IF k \in Dropped(pkt, ts) THEN 0
                        ELSE Copies(seen[k], t)
                             + (IF IsNewConn(pkt) /\ k \in Touched(pkt, ts) /\ t = ts THEN 1 ELSE 0)
    OBVIOUS
  <1> DEFINE new == Seen(seen, pkt, ts, IsNewConn(pkt))[k]
  <1>1. new = IF k \in Dropped(pkt, ts) THEN EmptyBag
              ELSE IF IsNewConn(pkt) /\ k \in Touched(pkt, ts) THEN Pushed(seen[k], ts) ELSE seen[k]
    BY DEF Seen
  <1>2. IsABag(seen[k]) BY DEF Past, Times
  <1>3. Copies(seen[k], t) \in Nat BY <1>2, CopiesNat
  <1>4. Copies(Pushed(seen[k], ts), t) = Copies(seen[k], t) + (IF t = ts THEN 1 ELSE 0)
    BY <1>2, PushedCopies
  <1>5. Copies(EmptyBag, t) = 0 BY CopiesNone
  <1> HIDE DEF new
  <1>6. CASE k \in Dropped(pkt, ts) BY <1>1, <1>5, <1>6 DEF new
  <1>7. CASE k \notin Dropped(pkt, ts) /\ IsNewConn(pkt) /\ k \in Touched(pkt, ts) BY <1>1, <1>4, <1>7 DEF new
  <1>8. CASE k \notin Dropped(pkt, ts) /\ ~ (IsNewConn(pkt) /\ k \in Touched(pkt, ts))
    <2>1. new = seen[k] BY <1>1, <1>8
    <2>2. (IF IsNewConn(pkt) /\ k \in Touched(pkt, ts) /\ t = ts THEN 1 ELSE 0) = 0 BY <1>8
    <2>3. Copies(new, t) = Copies(seen[k], t) + 0 BY <1>3, <2>1
    <2> QED BY <1>8, <2>2, <2>3 DEF new
  <1> QED BY <1>6, <1>7, <1>8

\* The observer remembers times up to the latest.
LEMMA SeenPast ==
  ASSUME TypeOK, NEW seen, Past(seen, latest), NEW pkt \in Packets, NEW ts \in Stamps, NEW counted
  PROVE  Past(Seen(seen, pkt, ts, counted), Later(ts))
  <1> DEFINE new == Seen(seen, pkt, ts, counted)
  <1>1. DOMAIN new = Tracks BY DEF Seen
  <1>2. ASSUME NEW k \in Tracks PROVE Times(new[k]) /\ \A t \in DOMAIN new[k] : t <= Later(ts)
    <2>1. new[k] \in {EmptyBag, Pushed(seen[k], ts), seen[k]} BY <1>2 DEF Seen
    <2>2. Times(seen[k]) /\ \A t \in DOMAIN seen[k] : t <= Later(ts)
      BY <1>2, TimeMovesOn DEF Past, Times
    <2>3. Times(EmptyBag) /\ DOMAIN EmptyBag = {} BY CopiesNone DEF EmptyBag, SetToBag
    <2>4. Times(Pushed(seen[k], ts)) /\ ts <= Later(ts) BY <2>2, StampsInTime, PushedTimes
    <2>5. DOMAIN Pushed(seen[k], ts) = DOMAIN seen[k] \cup {ts} BY DEF Pushed, (+), SetToBag
    <2> HIDE DEF new
    <2> QED BY <2>1, <2>2, <2>3, <2>4, <2>5
  <1> QED BY <1>1, <1>2 DEF Past

\* The packet counters after a packet still hold all that the observer saw within TrackWindow.
LEMMA PacketsRemembered ==
  ASSUME TypeOK, MemoryInv, NEW pkt \in Packets, NEW ts \in Stamps
  PROVE  Remembers(RateTracked(pkt, ts), Seen(seenPackets, pkt, ts, TRUE), Later(ts))
  <1> DEFINE old(k, t) == Copies(Timestamps(rule_rate_tracker, k), t)
             pruned(k, t) == Copies(Timestamps(Tracker(rule_rate_tracker, ts), k), t)
             held(k, t) == Copies(Timestamps(RateTracked(pkt, ts), k), t)
             seen(k, t) == Copies(Seen(seenPackets, pkt, ts, TRUE)[k], t)
  <1>1. /\ ts \in Time /\ ts <= Later(ts) /\ Later(ts) \in Int
        /\ IsTracker(rule_rate_tracker) /\ Past(seenPackets, latest)
    BY StampsInTime, TimesAreIntegers DEF TypeOK, MemoryInv
  <1>2. \A k, t : held(k, t) =
            IF k \in Dropped(pkt, ts) THEN 0
            ELSE IF k \in Touched(pkt, ts)
                 THEN IF ts - t < TrackWindow THEN Copies(RateOf(k, ts), t) ELSE 0
                 ELSE pruned(k, t)
    BY <1>1, RateTrackedCopies
  <1>3. \A k \in Tracks, t \in Time : seen(k, t) =
          IF k \in Dropped(pkt, ts) THEN 0
          ELSE Copies(seenPackets[k], t)
               + (IF k \in Touched(pkt, ts) /\ t = ts THEN 1 ELSE 0)
    BY <1>1, SeenPacketCopies
  <1>4. ASSUME NEW k \in Tracks, NEW t \in Time
        PROVE  held(k, t) <= seen(k, t) /\ (Later(ts) - t < TrackWindow => held(k, t) = seen(k, t))
    <2>1. pruned(k, t) = IF CleanupDue(ts) /\ ~ (ts - t < TrackWindow) THEN 0 ELSE old(k, t)
      BY <1>1, TrackerCopies
    <2>2. Copies(RateOf(k, ts), t) = pruned(k, t) + (IF t = ts THEN 1 ELSE 0)
      BY <1>1, <2>1, RateOfCopies
    <2>3. /\ old(k, t) <= Copies(seenPackets[k], t)
          /\ Later(ts) - t < TrackWindow => old(k, t) = Copies(seenPackets[k], t)
      BY TimeMovesOn DEF MemoryInv, Remembers
    <2>4. old(k, t) \in Nat /\ Copies(seenPackets[k], t) \in Nat
      BY <1>1, TimestampsTimes, CopiesNat DEF Times, Past
    <2>5. t \in Int /\ ts \in Int /\ TrackWindow \in Nat \ {0}
      BY <1>1, TimesAreIntegers, TimeAssumption
    <2>6. Later(ts) - t < TrackWindow => ts - t < TrackWindow BY <1>1, <2>5
    <2>7. t = ts => ts - t < TrackWindow BY <2>5
    <2> HIDE DEF old, pruned, held, seen
    <2>8. CASE k \in Dropped(pkt, ts)
      <3>1. held(k, t) = 0 /\ seen(k, t) = 0 BY <1>2, <1>3, <2>8
      <3> QED BY <3>1
    <2>9. CASE k \notin Dropped(pkt, ts) /\ k \in Touched(pkt, ts)
      <3>1. held(k, t) = IF ts - t < TrackWindow THEN old(k, t) + (IF t = ts THEN 1 ELSE 0) ELSE 0
        BY <1>2, <2>1, <2>2, <2>9
      <3>2. seen(k, t) = Copies(seenPackets[k], t) + (IF t = ts THEN 1 ELSE 0)
        BY <1>3, <2>9
      <3> QED BY <2>3, <2>4, <2>6, <3>1, <3>2
    <2>10. CASE k \notin Dropped(pkt, ts) /\ k \notin Touched(pkt, ts)
      <3>1. held(k, t) = pruned(k, t) BY <1>2, <2>10
      <3>2. seen(k, t) = Copies(seenPackets[k], t) BY <1>3, <2>4, <2>10
      <3> QED BY <2>1, <2>3, <2>4, <2>6, <3>1, <3>2
    <2> QED BY <2>8, <2>9, <2>10
  <1> QED BY <1>4 DEF Remembers

\* The connection counters after a packet still hold all that the observer saw within TrackWindow.
LEMMA ConnsRemembered ==
  ASSUME TypeOK, MemoryInv, NEW pkt \in Packets, NEW ts \in Stamps
  PROVE  Remembers(ConnTracked(pkt, ts), Seen(seenConns, pkt, ts, IsNewConn(pkt)), Later(ts))
  <1> DEFINE old(k, t) == Copies(Timestamps(conn_rate_tracker, k), t)
             pruned(k, t) == Copies(Timestamps(Tracker(conn_rate_tracker, ts), k), t)
             held(k, t) == Copies(Timestamps(ConnTracked(pkt, ts), k), t)
             seen(k, t) == Copies(Seen(seenConns, pkt, ts, IsNewConn(pkt))[k], t)
  <1>1. /\ ts \in Time /\ ts <= Later(ts) /\ Later(ts) \in Int
        /\ IsTracker(conn_rate_tracker) /\ Past(seenConns, latest)
    BY StampsInTime, TimesAreIntegers DEF TypeOK, MemoryInv
  <1>2. \A k, t : held(k, t) =
            IF k \in Dropped(pkt, ts) THEN 0
            ELSE IF k \in Touched(pkt, ts)
                 THEN IF ts - t < TrackWindow THEN Copies(ConnsOf(k, pkt, ts), t) ELSE 0
                 ELSE pruned(k, t)
    BY <1>1, ConnTrackedCopies
  <1>3. \A k \in Tracks, t \in Time : seen(k, t) =
          IF k \in Dropped(pkt, ts) THEN 0
          ELSE Copies(seenConns[k], t)
               + (IF IsNewConn(pkt) /\ k \in Touched(pkt, ts) /\ t = ts THEN 1 ELSE 0)
    BY <1>1, SeenConnCopies
  <1>4. ASSUME NEW k \in Tracks, NEW t \in Time
        PROVE  held(k, t) <= seen(k, t) /\ (Later(ts) - t < TrackWindow => held(k, t) = seen(k, t))
    <2>1. pruned(k, t) = IF CleanupDue(ts) /\ ~ (ts - t < TrackWindow) THEN 0 ELSE old(k, t)
      BY <1>1, TrackerCopies
    <2>2. Copies(ConnsOf(k, pkt, ts), t) = pruned(k, t) + (IF IsNewConn(pkt) /\ t = ts THEN 1 ELSE 0)
      BY <1>1, <2>1, ConnsOfCopies
    <2>3. /\ old(k, t) <= Copies(seenConns[k], t)
          /\ Later(ts) - t < TrackWindow => old(k, t) = Copies(seenConns[k], t)
      BY TimeMovesOn DEF MemoryInv, Remembers
    <2>4. old(k, t) \in Nat /\ Copies(seenConns[k], t) \in Nat
      BY <1>1, TimestampsTimes, CopiesNat DEF Times, Past
    <2>5. t \in Int /\ ts \in Int /\ TrackWindow \in Nat \ {0}
      BY <1>1, TimesAreIntegers, TimeAssumption
    <2>6. Later(ts) - t < TrackWindow => ts - t < TrackWindow BY <1>1, <2>5
    <2>7. t = ts => ts - t < TrackWindow BY <2>5
    <2> HIDE DEF old, pruned, held, seen
    <2>8. CASE k \in Dropped(pkt, ts)
      <3>1. held(k, t) = 0 /\ seen(k, t) = 0 BY <1>2, <1>3, <2>8
      <3> QED BY <3>1
    <2>9. CASE k \notin Dropped(pkt, ts) /\ k \in Touched(pkt, ts)
      <3>1. held(k, t) = IF ts - t < TrackWindow THEN old(k, t) + (IF IsNewConn(pkt) /\ t = ts THEN 1 ELSE 0) ELSE 0
        BY <1>2, <2>1, <2>2, <2>9
      <3>2. seen(k, t) = Copies(seenConns[k], t) + (IF IsNewConn(pkt) /\ t = ts THEN 1 ELSE 0)
        BY <1>3, <2>9
      <3> QED BY <2>3, <2>4, <2>6, <3>1, <3>2
    <2>10. CASE k \notin Dropped(pkt, ts) /\ k \notin Touched(pkt, ts)
      <3>1. held(k, t) = pruned(k, t) BY <1>2, <2>10
      <3>2. seen(k, t) = Copies(seenConns[k], t) BY <1>3, <2>4, <2>10
      <3> QED BY <2>1, <2>3, <2>4, <2>6, <3>1, <3>2
    <2> QED BY <2>8, <2>9, <2>10
  <1> QED BY <1>4 DEF Remembers

\* A packet preserves MemoryInv.
LEMMA MemoryInductive == TypeOK /\ MemoryInv /\ [HNext]_hvars => MemoryInv'
  <1> SUFFICES ASSUME TypeOK, MemoryInv, [HNext]_hvars PROVE MemoryInv' OBVIOUS
  <1>1. CASE UNCHANGED hvars BY <1>1 DEF hvars, vars, tables, MemoryInv, Past, Remembers
  <1>2. ASSUME NEW pkt \in Packets, NEW ts \in Stamps, HProcessPacket(pkt, ts) PROVE MemoryInv'
    <2>1. /\ rule_rate_tracker' = RateTracked(pkt, ts) /\ conn_rate_tracker' = ConnTracked(pkt, ts)
          /\ seenPackets' = Seen(seenPackets, pkt, ts, TRUE)
          /\ seenConns' = Seen(seenConns, pkt, ts, IsNewConn(pkt))
          /\ latest' = Later(ts)
      BY <1>2 DEF HProcessPacket, ProcessPacket
    <2>2. Past(seenPackets', Later(ts)) /\ Past(seenConns', Later(ts))
      BY <2>1, SeenPast DEF MemoryInv
    <2>3. /\ Remembers(rule_rate_tracker', seenPackets', Later(ts))
          /\ Remembers(conn_rate_tracker', seenConns', Later(ts))
      BY <2>1, PacketsRemembered, ConnsRemembered
    <2> QED BY <2>1, <2>2, <2>3 DEF MemoryInv, Past, Remembers
  <1> QED BY <1>1, <1>2 DEF HNext

\* The trackers of the engine always hold what was seen within TrackWindow, and nothing else.
LEMMA MemoryKept == HSpec => []MemoryInv
  <1>1. HInit => MemoryInv
    <2> SUFFICES ASSUME HInit PROVE MemoryInv OBVIOUS
    <2>1. /\ seenPackets = [k \in Tracks |-> EmptyBag] /\ seenConns = [k \in Tracks |-> EmptyBag]
          /\ \A k : Timestamps(rule_rate_tracker, k) = EmptyBag
          /\ \A k : Timestamps(conn_rate_tracker, k) = EmptyBag
      BY DEF HInit, Init, Timestamps
    <2>2. \A t : t \notin DOMAIN EmptyBag BY DEF EmptyBag, SetToBag
    <2>3. Past(seenPackets, latest) /\ Past(seenConns, latest) BY <2>1, <2>2, CopiesNone DEF Past
    <2>4. /\ Remembers(rule_rate_tracker, seenPackets, latest)
          /\ Remembers(conn_rate_tracker, seenConns, latest)
      BY <2>1, CopiesNone DEF Remembers
    <2> QED BY <2>3, <2>4 DEF MemoryInv
  <1> QED BY <1>1, MemoryInductive, HistoryTypes, PTL DEF HSpec

----------------------------------------------------------------------------
(* Thresholds.                                                             *)

\* A window has the copies of the times in it.
LEMMA WindowCopies ==
  ASSUME NEW bag, NEW t, NEW w
  PROVE  \A u : Copies(WindowUpTo(bag, t, w), u)
                  = IF u <= t /\ t - u < w THEN Copies(bag, u) ELSE 0
  BY DEF Copies, WindowUpTo, Restrict

\* A window is a bag of times.
LEMMA WindowTimes == ASSUME NEW bag, Times(bag), NEW t, NEW w PROVE Times(WindowUpTo(bag, t, w))
  BY DEF Times, IsABag, WindowUpTo, Restrict

\* A packet that leaves the counter below the limit fills no window of the history: the windows that
\* end at its timestamp or later lie within what the engine counts, the others are as they were.
LEMMA WindowStaysOpen ==
  ASSUME TypeOK, NEW ts \in Stamps, NEW old, Times(old), NEW counter, Times(counter),
         NEW w \in Int, w + Skew <= TrackWindow, NEW limit \in Nat,
         \A u \in Time : Later(ts) - u < TrackWindow => Copies(counter, u) = Copies(Pushed(old, ts), u),
         CountRecent(counter, ts, w) < limit, NoFullWindow(old, w, limit)
  PROVE  NoFullWindow(Pushed(old, ts), w, limit)
  <1> DEFINE new == Pushed(old, ts)
  <1>1. /\ ts \in Time /\ ts \in Int /\ Later(ts) \in Int /\ Later(ts) - ts <= Skew
        /\ Skew \in Int /\ TrackWindow \in Int
    <2>1. ts \in Time /\ Later(ts) \in Time /\ Later(ts) - ts <= Skew BY StampsInTime DEF TypeOK
    <2> QED BY <2>1, StampsInTime, TimesAreIntegers, TimeAssumption
  <1>2. Times(new) BY <1>1, PushedTimes
  <1>3. DOMAIN new = DOMAIN old \cup {ts} BY DEF Pushed, (+), SetToBag
  <1>4. \A u : Copies(new, u) = Copies(old, u) + (IF u = ts THEN 1 ELSE 0)
    BY PushedCopies DEF Times
  <1>5. \A u : Copies(old, u) \in Nat /\ Copies(counter, u) \in Nat /\ Copies(new, u) \in Nat
    BY <1>2, CopiesNat DEF Times
  <1>6. \A u : u \notin Time => Copies(new, u) = 0 /\ Copies(counter, u) = 0
    BY <1>2 DEF Copies, Times
  <1> SUFFICES ASSUME NEW t \in DOMAIN new PROVE Count(WindowUpTo(new, t, w)) < limit
    BY DEF NoFullWindow
  <1>7. t \in Int BY <1>2, TimesAreIntegers DEF Times
  <1> HIDE DEF new
  <1>8. CASE ts <= t
    <2>1. ASSUME NEW u
          PROVE  Copies(WindowUpTo(new, t, w), u) <= Copies(Recent(counter, ts, w), u)
      <3>1. Copies(WindowUpTo(new, t, w), u) = IF u <= t /\ t - u < w THEN Copies(new, u) ELSE 0
        BY WindowCopies
      <3>2. Copies(Recent(counter, ts, w), u) = IF ts - u < w THEN Copies(counter, u) ELSE 0
        BY RecentCopies
      <3>3. CASE u \notin Time
        <4>1. Copies(new, u) = 0 /\ Copies(counter, u) = 0 BY <1>6, <3>3
        <4> QED BY <3>1, <3>2, <4>1
      <3>4. CASE u \in Time /\ u <= t /\ t - u < w
        <4>1. ts - u < w /\ Later(ts) - u < TrackWindow
          BY <1>1, <1>7, <1>8, <3>4, TimesAreIntegers
        <4>2. Copies(counter, u) = Copies(new, u) BY <3>4, <4>1 DEF new
        <4> QED BY <3>1, <3>2, <3>4, <4>1, <4>2, <1>5
      <3>5. CASE u \in Time /\ ~ (u <= t /\ t - u < w)
        <4>1. Copies(WindowUpTo(new, t, w), u) = 0 BY <3>1, <3>5
        <4> QED BY <3>2, <4>1, <1>5
      <3> QED BY <3>3, <3>4, <3>5
    <2>2. Times(WindowUpTo(new, t, w)) /\ Times(Recent(counter, ts, w))
      BY <1>2, WindowTimes, RecentTimes
    <2>3. /\ Count(WindowUpTo(new, t, w)) \in Nat
          /\ Count(WindowUpTo(new, t, w)) <= Count(Recent(counter, ts, w))
      BY <2>1, <2>2, CountMonotone
    <2>4. Count(Recent(counter, ts, w)) \in Nat BY <2>2, CountMonotone, CopiesNat DEF Times
    <2> QED BY <2>3, <2>4 DEF CountRecent
  <1>9. CASE ~ (ts <= t)
    <2>1. t \in DOMAIN old BY <1>1, <1>3, <1>9
    <2>2. ASSUME NEW u
          PROVE  Copies(WindowUpTo(new, t, w), u) <= Copies(WindowUpTo(old, t, w), u)
      <3>1. /\ Copies(WindowUpTo(new, t, w), u) = IF u <= t /\ t - u < w THEN Copies(new, u) ELSE 0
            /\ Copies(WindowUpTo(old, t, w), u) = IF u <= t /\ t - u < w THEN Copies(old, u) ELSE 0
        BY WindowCopies
      <3>2. u <= t => u # ts BY <1>9
      <3>3. u <= t => Copies(new, u) = Copies(old, u) BY <1>4, <1>5, <3>2
      <3> QED BY <1>5, <3>1, <3>3
    <2>3. Times(WindowUpTo(new, t, w)) /\ Times(WindowUpTo(old, t, w)) BY <1>2, WindowTimes
    <2>4. /\ Count(WindowUpTo(new, t, w)) \in Nat
          /\ Count(WindowUpTo(new, t, w)) <= Count(WindowUpTo(old, t, w))
      BY <2>2, <2>3, CountMonotone
    <2>5. Count(WindowUpTo(old, t, w)) < limit BY <2>1 DEF NoFullWindow
    <2>6. Count(WindowUpTo(old, t, w)) \in Nat BY <2>3, CountMonotone, CopiesNat DEF Times
    <2> QED BY <2>4, <2>5, <2>6
  <1> QED BY <1>8, <1>9

\* A counter that reaches the limit is a window of the history, wider by Skew, that does.
LEMMA WindowIsFull ==
  ASSUME TypeOK, NEW ts \in Stamps, NEW old, Times(old), \A u \in DOMAIN old : u <= latest,
         NEW counter, Times(counter), NEW w \in Int, NEW limit \in Nat,
         \A u \in Time : Copies(counter, u) <= Copies(Pushed(old, ts), u),
         CountRecent(counter, ts, w) >= limit
  PROVE  \E t \in Time : Count(WindowUpTo(Pushed(old, ts), t, w + Skew)) >= limit
  <1> DEFINE new == Pushed(old, ts)
  <1>1. /\ ts \in Time /\ ts \in Int /\ Later(ts) \in Time /\ Later(ts) \in Int /\ ts <= Later(ts)
        /\ Later(ts) - ts <= Skew /\ Skew \in Int
    <2>1. ts \in Time /\ Later(ts) \in Time /\ ts <= Later(ts) /\ Later(ts) - ts <= Skew
      BY StampsInTime DEF TypeOK
    <2> QED BY <2>1, StampsInTime, TimesAreIntegers, TimeAssumption
  <1>2. Times(new) BY <1>1, PushedTimes
  <1>3. \A u \in DOMAIN new : u <= Later(ts)
    <2>1. \A u \in DOMAIN old : u <= Later(ts) BY TimeMovesOn DEF Times
    <2> QED BY <1>1, <2>1 DEF Pushed, (+), SetToBag
  <1>4. \A u : Copies(counter, u) \in Nat /\ Copies(new, u) \in Nat
    BY <1>2, CopiesNat DEF Times
  <1>5. \A u : u \notin Time => Copies(counter, u) = 0 BY DEF Copies, Times
  <1>6. \A u : Copies(new, u) > 0 => u <= Later(ts) BY <1>2, <1>3, CopiesNat DEF Times
  <1>7. \A u \in Time : Copies(counter, u) <= Copies(new, u) OBVIOUS
  <1> HIDE DEF new
  <1>8. ASSUME NEW u
        PROVE  Copies(Recent(counter, ts, w), u) <= Copies(WindowUpTo(new, Later(ts), w + Skew), u)
    <2>1. Copies(WindowUpTo(new, Later(ts), w + Skew), u)
            = IF u <= Later(ts) /\ Later(ts) - u < w + Skew THEN Copies(new, u) ELSE 0
      BY WindowCopies
    <2>2. Copies(Recent(counter, ts, w), u) = IF ts - u < w THEN Copies(counter, u) ELSE 0
      BY RecentCopies
    <2>3. CASE u \in Time /\ ts - u < w /\ Copies(counter, u) > 0
      <3>1. Copies(counter, u) <= Copies(new, u) BY <1>7, <2>3
      <3>2. u <= Later(ts) BY <1>4, <1>6, <2>3, <3>1
      <3>3. Later(ts) - u < w + Skew BY <1>1, <2>3, TimesAreIntegers
      <3> QED BY <2>1, <2>2, <2>3, <3>1, <3>2, <3>3
    <2>4. CASE ~ (u \in Time /\ ts - u < w /\ Copies(counter, u) > 0)
      <3>1. Copies(Recent(counter, ts, w), u) = 0 BY <1>4, <1>5, <2>2, <2>4
      <3> QED BY <1>4, <2>1, <3>1
    <2> QED BY <2>3, <2>4
  <1>9. Times(WindowUpTo(new, Later(ts), w + Skew)) /\ Times(Recent(counter, ts, w))
    BY <1>2, WindowTimes, RecentTimes
  <1>10. /\ Count(Recent(counter, ts, w)) \in Nat
         /\ Count(Recent(counter, ts, w)) <= Count(WindowUpTo(new, Later(ts), w + Skew))
    BY <1>8, <1>9, CountMonotone
  <1>11. Count(WindowUpTo(new, Later(ts), w + Skew)) \in Nat
    BY <1>9, CountMonotone, CopiesNat DEF Times
  <1>12. Count(WindowUpTo(new, Later(ts), w + Skew)) >= limit BY <1>10, <1>11 DEF CountRecent
  <1> QED BY <1>1, <1>12 DEF new

\* What the counters of a packet hold, compared with the history that includes it.
LEMMA CountersAgree ==
  ASSUME TypeOK, MemoryInv, NEW pkt \in Packets, NEW ts \in Stamps, NEW k \in Tracks
  PROVE  /\ Times(RateOf(k, ts)) /\ Times(ConnsOf(k, pkt, ts))
         /\ \A u \in Time :
              /\ Copies(RateOf(k, ts), u) <= Copies(Pushed(seenPackets[k], ts), u)
              /\ Copies(ConnsOf(k, pkt, ts), u) <= Copies(Pushed(seenConns[k], ts), u)
              /\ Later(ts) - u < TrackWindow =>
                   Copies(RateOf(k, ts), u) = Copies(Pushed(seenPackets[k], ts), u)
              /\ Later(ts) - u < TrackWindow /\ IsNewConn(pkt) =>
                   Copies(ConnsOf(k, pkt, ts), u) = Copies(Pushed(seenConns[k], ts), u)
  <1>1. /\ ts \in Time /\ ts \in Int /\ Later(ts) \in Int /\ ts <= Later(ts) /\ TrackWindow \in Int
        /\ IsTracker(rule_rate_tracker) /\ IsTracker(conn_rate_tracker)
    <2>1. ts \in Time /\ Later(ts) \in Time /\ ts <= Later(ts) BY StampsInTime DEF TypeOK
    <2>2. IsTracker(rule_rate_tracker) /\ IsTracker(conn_rate_tracker) BY DEF TypeOK
    <2> QED BY <2>1, <2>2, StampsInTime, TimesAreIntegers, TimeAssumption
  <1>2. Times(RateOf(k, ts)) /\ Times(ConnsOf(k, pkt, ts))
    BY <1>1, RateOfCopies, ConnsOfCopies
  <1>3. IsABag(seenPackets[k]) /\ IsABag(seenConns[k]) BY DEF MemoryInv, Past, Times
  <1>4. ASSUME NEW u \in Time
        PROVE  /\ Copies(RateOf(k, ts), u) <= Copies(Pushed(seenPackets[k], ts), u)
               /\ Copies(ConnsOf(k, pkt, ts), u) <= Copies(Pushed(seenConns[k], ts), u)
               /\ Later(ts) - u < TrackWindow =>
                    Copies(RateOf(k, ts), u) = Copies(Pushed(seenPackets[k], ts), u)
               /\ Later(ts) - u < TrackWindow /\ IsNewConn(pkt) =>
                    Copies(ConnsOf(k, pkt, ts), u) = Copies(Pushed(seenConns[k], ts), u)
    <2> DEFINE oldRate == Copies(Timestamps(rule_rate_tracker, k), u)
               oldConn == Copies(Timestamps(conn_rate_tracker, k), u)
               dropped == CleanupDue(ts) /\ ~ (ts - u < TrackWindow)
    <2>1. /\ Copies(RateOf(k, ts), u) =
               (IF dropped THEN 0 ELSE oldRate) + (IF u = ts THEN 1 ELSE 0)
          /\ Copies(ConnsOf(k, pkt, ts), u) =
               (IF dropped THEN 0 ELSE oldConn) + (IF IsNewConn(pkt) /\ u = ts THEN 1 ELSE 0)
      BY <1>1, RateOfCopies, ConnsOfCopies
    <2>2. /\ Copies(Pushed(seenPackets[k], ts), u) =
               Copies(seenPackets[k], u) + (IF u = ts THEN 1 ELSE 0)
          /\ Copies(Pushed(seenConns[k], ts), u) =
               Copies(seenConns[k], u) + (IF u = ts THEN 1 ELSE 0)
      BY <1>3, PushedCopies
    <2>3. /\ oldRate <= Copies(seenPackets[k], u) /\ oldConn <= Copies(seenConns[k], u)
          /\ Later(ts) - u < TrackWindow => /\ oldRate = Copies(seenPackets[k], u)
                                            /\ oldConn = Copies(seenConns[k], u)
      BY TimeMovesOn DEF MemoryInv, Remembers
    <2>4. /\ oldRate \in Nat /\ oldConn \in Nat
          /\ Copies(seenPackets[k], u) \in Nat /\ Copies(seenConns[k], u) \in Nat
      BY <1>1, <1>3, TimestampsTimes, CopiesNat DEF Times
    <2>5. Later(ts) - u < TrackWindow => ~ dropped BY <1>1, TimesAreIntegers
    <2> HIDE DEF oldRate, oldConn, dropped
    <2>6. Copies(RateOf(k, ts), u) <= Copies(Pushed(seenPackets[k], ts), u)
      BY <2>1, <2>2, <2>3, <2>4
    <2>7. Copies(ConnsOf(k, pkt, ts), u) <= Copies(Pushed(seenConns[k], ts), u)
      BY <2>1, <2>2, <2>3, <2>4
    <2>8. Later(ts) - u < TrackWindow => Copies(RateOf(k, ts), u) = Copies(Pushed(seenPackets[k], ts), u)
      BY <2>1, <2>2, <2>3, <2>5
    <2>9. Later(ts) - u < TrackWindow /\ IsNewConn(pkt) =>
            Copies(ConnsOf(k, pkt, ts), u) = Copies(Pushed(seenConns[k], ts), u)
      BY <2>1, <2>2, <2>3, <2>5
    <2> QED BY <2>6, <2>7, <2>8, <2>9
  <1> QED BY <1>2, <1>4

\* What process_packet compares with a limit is a natural number.
LEMMA CountRecentNat ==
  ASSUME NEW bag, Times(bag), NEW ts, NEW w PROVE CountRecent(bag, ts, w) \in Nat
  <1>1. Times(Recent(bag, ts, w)) BY RecentTimes
  <1>2. \A t : Copies(Recent(bag, ts, w), t) <= Copies(Recent(bag, ts, w), t)
    BY <1>1, CopiesNat DEF Times
  <1> QED BY <1>1, <1>2, CountMonotone DEF CountRecent

\* Every packet preserves NoUnreportedWindow, given MemoryInv.
LEMMA NothingUnreportedInductive ==
  TypeOK /\ MemoryInv /\ NoUnreportedWindow /\ [HNext]_hvars => NoUnreportedWindow'
  <1> SUFFICES ASSUME TypeOK, MemoryInv, NoUnreportedWindow, [HNext]_hvars PROVE NoUnreportedWindow'
    OBVIOUS
  <1>1. CASE UNCHANGED hvars BY <1>1 DEF hvars, NoUnreportedWindow
  <1>2. ASSUME NEW pkt \in Packets, NEW ts \in Stamps, HProcessPacket(pkt, ts)
        PROVE  NoUnreportedWindow'
    <2> SUFFICES ASSUME NEW k \in Tracks, NEW r \in Rules, r.id = k[1]
                 PROVE  /\ r.max_rps # None => NoFullWindow(seenPackets'[k], Second, r.max_rps)
                        /\ (r.connections # None /\ r.interval + Skew <= TrackWindow)
                             => NoFullWindow(seenConns'[k], r.interval, r.connections)
      BY DEF NoUnreportedWindow
    <2>1. /\ seenPackets' = Seen(seenPackets, pkt, ts, TRUE)
          /\ seenConns' = Seen(seenConns, pkt, ts, IsNewConn(pkt))
      BY <1>2 DEF HProcessPacket
    <2>2. /\ seenPackets'[k] = IF k \in Dropped(pkt, ts) THEN EmptyBag
                               ELSE IF k \in Touched(pkt, ts) THEN Pushed(seenPackets[k], ts)
                               ELSE seenPackets[k]
          /\ seenConns'[k] = IF k \in Dropped(pkt, ts) THEN EmptyBag
                             ELSE IF IsNewConn(pkt) /\ k \in Touched(pkt, ts)
                             THEN Pushed(seenConns[k], ts) ELSE seenConns[k]
      BY <2>1 DEF Seen
    <2>3. /\ r.max_rps # None => NoFullWindow(seenPackets[k], Second, r.max_rps)
          /\ (r.connections # None /\ r.interval + Skew <= TrackWindow)
               => NoFullWindow(seenConns[k], r.interval, r.connections)
      BY DEF NoUnreportedWindow
    <2>4. \A w, limit : NoFullWindow(EmptyBag, w, limit) BY DEF NoFullWindow, EmptyBag, SetToBag
    <2>5. ASSUME k \in Touched(pkt, ts), k \notin Dropped(pkt, ts)
          PROVE  k = Track(r, pkt) /\ ~ TooManyRequests(r, pkt, ts) /\ ~ TooManyConns(r, pkt, ts)
      <3>1. k = Track(r, pkt) /\ r \in Matched(pkt, ts) BY <2>5, OwnerOfTrack
      <3>2. r \notin Triggered(pkt, ts) BY <2>5, <3>1 DEF Dropped
      <3> QED BY <3>1, <3>2 DEF Triggered
    <2>6. Times(RateOf(k, ts)) /\ Times(ConnsOf(k, pkt, ts)) BY CountersAgree
    <2>7. Times(seenPackets[k]) /\ Times(seenConns[k]) BY DEF MemoryInv, Past
    <2>8. Second \in Int /\ Second + Skew <= TrackWindow BY TimeAssumption, SkewAssumption
    <2>9. ASSUME r.max_rps # None PROVE NoFullWindow(seenPackets'[k], Second, r.max_rps)
      <3>1. r.max_rps \in Nat BY <2>9, LimitAssumption
      <3>2. CASE k \in Touched(pkt, ts) /\ k \notin Dropped(pkt, ts)
        <4>1. CountRecent(RateOf(k, ts), ts, Second) < r.max_rps
          <5>1. ~ (CountRecent(RateOf(k, ts), ts, Second) >= r.max_rps)
            BY <2>5, <2>9, <3>2 DEF TooManyRequests
          <5>2. CountRecent(RateOf(k, ts), ts, Second) \in Nat BY <2>6, CountRecentNat
          <5> QED BY <3>1, <5>1, <5>2
        <4>2. NoFullWindow(seenPackets[k], Second, r.max_rps) BY <2>3, <2>9
        <4>3. \A u \in Time : Later(ts) - u < TrackWindow =>
                Copies(RateOf(k, ts), u) = Copies(Pushed(seenPackets[k], ts), u)
          BY CountersAgree
        <4>4. NoFullWindow(Pushed(seenPackets[k], ts), Second, r.max_rps)
          BY <2>6, <2>7, <2>8, <3>1, <4>1, <4>2, <4>3, WindowStaysOpen
        <4> QED BY <2>2, <3>2, <4>4
      <3>3. CASE k \in Dropped(pkt, ts) BY <2>2, <2>4, <3>3
      <3>4. CASE k \notin Touched(pkt, ts) /\ k \notin Dropped(pkt, ts)
        BY <2>2, <2>3, <2>9, <3>4
      <3> QED BY <3>2, <3>3, <3>4
    <2>10. ASSUME r.connections # None, r.interval + Skew <= TrackWindow
           PROVE  NoFullWindow(seenConns'[k], r.interval, r.connections)
      <3>1. r.connections \in Nat /\ r.interval \in Int BY <2>10, LimitAssumption
      <3>2. CASE IsNewConn(pkt) /\ k \in Touched(pkt, ts) /\ k \notin Dropped(pkt, ts)
        <4>1. CountRecent(ConnsOf(k, pkt, ts), ts, r.interval) < r.connections
          <5>1. ~ (CountRecent(ConnsOf(k, pkt, ts), ts, r.interval) >= r.connections)
            BY <2>5, <2>10, <3>2 DEF TooManyConns
          <5>2. CountRecent(ConnsOf(k, pkt, ts), ts, r.interval) \in Nat BY <2>6, CountRecentNat
          <5> QED BY <3>1, <5>1, <5>2
        <4>2. NoFullWindow(seenConns[k], r.interval, r.connections) BY <2>3, <2>10
        <4>3. \A u \in Time : Later(ts) - u < TrackWindow =>
                Copies(ConnsOf(k, pkt, ts), u) = Copies(Pushed(seenConns[k], ts), u)
          BY <3>2, CountersAgree
        <4>4. NoFullWindow(Pushed(seenConns[k], ts), r.interval, r.connections)
          BY <2>6, <2>7, <2>10, <3>1, <4>1, <4>2, <4>3, WindowStaysOpen
        <4> QED BY <2>2, <3>2, <4>4
      <3>3. CASE k \in Dropped(pkt, ts) BY <2>2, <2>4, <3>3
      <3>4. CASE ~ (IsNewConn(pkt) /\ k \in Touched(pkt, ts)) /\ k \notin Dropped(pkt, ts)
        BY <2>2, <2>3, <2>10, <3>4
      <3> QED BY <3>2, <3>3, <3>4
    <2> QED BY <2>9, <2>10
  <1> QED BY <1>1, <1>2 DEF HNext

\* No threshold is passed unnoticed (NoUnreportedWindow): whatever packets come, in whatever order
\* within Skew, after process_packet no sender has a full window that was not reported, if the
\* rule's interval lies within the time that timestamps are kept.
THEOREM ThresholdsReported == HSpec => []NoUnreportedWindow
  <1>1. HInit => NoUnreportedWindow
    BY DEF HInit, NoUnreportedWindow, NoFullWindow, EmptyBag, SetToBag
  <1> QED BY <1>1, NothingUnreportedInductive, MemoryKept, HistoryTypes, PTL DEF HSpec

\* Every alert is deserved (AlertsJustified): the rule's limit was reached by what the sender did
\* since its last alert, within the rule's window and the disorder of the timestamps.
THEOREM AlertsDeserved == HSpec => AlertsJustified
  <1> DEFINE Deserved ==
        \A i \in DOMAIN alerts', r \in Rules :
          (handled' # handled /\ r.id = alerts'[i].rule) =>
            LET k == <<r.id, alerts'[i].sender>>
                enough(seen, w, limit) ==
                  \E t \in Time : Count(WindowUpTo(Pushed(seen, now'), t, w + Skew)) >= limit
            IN  \/ r.max_rps # None /\ enough(seenPackets[k], Second, r.max_rps)
                \/ r.connections # None /\ enough(seenConns[k], r.interval, r.connections)
  <1>1. TypeOK /\ MemoryInv /\ [HNext]_hvars => [Deserved]_hvars
    <2> SUFFICES ASSUME TypeOK, MemoryInv, HNext, NEW i \in DOMAIN alerts', NEW r \in Rules,
                        handled' # handled, r.id = alerts'[i].rule
                 PROVE  LET k == <<r.id, alerts'[i].sender>>
                            enough(seen, w, limit) ==
                              \E t \in Time : Count(WindowUpTo(Pushed(seen, now'), t, w + Skew)) >= limit
                        IN  \/ r.max_rps # None /\ enough(seenPackets[k], Second, r.max_rps)
                            \/ r.connections # None /\ enough(seenConns[k], r.interval, r.connections)
      OBVIOUS
    <2>1. PICK pkt \in Packets, ts \in Stamps : HProcessPacket(pkt, ts)
      BY DEF HNext
    <2>2. ProcessPacket(pkt, ts) /\ now' = ts BY <2>1 DEF HProcessPacket, ProcessPacket
    <2>3. PICK s \in Triggered(pkt, ts) : alerts'[i] = Message(i, s, pkt, ts)
      BY <2>2, AlertsOfRules
    <2>4. s \in Rules BY DEF Triggered, Matched
    <2>5. s = r /\ <<r.id, alerts'[i].sender>> = Track(r, pkt)
      <3>1. s.id = alerts'[i].rule /\ alerts'[i].sender = ResolveTrackingKey(s, pkt)
        BY <2>3 DEF Message
      <3>2. s = r BY <2>4, <3>1, RuleAssumption
      <3> QED BY <3>1, <3>2 DEF Track
    <2> DEFINE k == Track(r, pkt)
    <2>6. k \in Tracks BY <2>3, <2>5, TracksOfMatches DEF Dropped
    <2>7. Times(RateOf(k, ts)) /\ Times(ConnsOf(k, pkt, ts)) BY <2>6, CountersAgree
    <2>8. \A u \in Time : /\ Copies(RateOf(k, ts), u) <= Copies(Pushed(seenPackets[k], ts), u)
                          /\ Copies(ConnsOf(k, pkt, ts), u) <= Copies(Pushed(seenConns[k], ts), u)
      BY <2>6, CountersAgree
    <2>9. /\ Times(seenPackets[k]) /\ \A u \in DOMAIN seenPackets[k] : u <= latest
          /\ Times(seenConns[k]) /\ \A u \in DOMAIN seenConns[k] : u <= latest
      BY <2>6 DEF MemoryInv, Past
    <2>10. TooManyRequests(r, pkt, ts) \/ TooManyConns(r, pkt, ts) BY <2>3, <2>5 DEF Triggered
    <2>11. ASSUME TooManyRequests(r, pkt, ts)
           PROVE  /\ r.max_rps # None
                  /\ \E t \in Time :
                       Count(WindowUpTo(Pushed(seenPackets[k], ts), t, Second + Skew)) >= r.max_rps
      <3>1. r.max_rps # None /\ CountRecent(RateOf(k, ts), ts, Second) >= r.max_rps
        BY <2>11 DEF TooManyRequests
      <3>2. r.max_rps \in Nat /\ Second \in Int BY <3>1, LimitAssumption, TimeAssumption
      <3> HIDE DEF k
      <3> QED BY <2>7, <2>8, <2>9, <3>1, <3>2, WindowIsFull
    <2>12. ASSUME TooManyConns(r, pkt, ts)
           PROVE  /\ r.connections # None
                  /\ \E t \in Time :
                       Count(WindowUpTo(Pushed(seenConns[k], ts), t, r.interval + Skew)) >= r.connections
      <3>1. r.connections # None /\ CountRecent(ConnsOf(k, pkt, ts), ts, r.interval) >= r.connections
        BY <2>12 DEF TooManyConns
      <3>2. r.connections \in Nat /\ r.interval \in Int BY <3>1, LimitAssumption
      <3> HIDE DEF k
      <3> QED BY <2>7, <2>8, <2>9, <3>1, <3>2, WindowIsFull
    <2> QED BY <2>2, <2>5, <2>10, <2>11, <2>12
  <1> QED BY <1>1, MemoryKept, HistoryTypes, PTL DEF HSpec, AlertsJustified
=============================================================================
