------------------------- MODULE FlowHistory_proofs -------------------------
(***************************************************************************)
(* Proofs about the table beside a perfect observer.  That a ring is the   *)
(* end of what was heard holds whatever the processor's pace.  That no     *)
(* burst is lost needs the prompt processor: then what a ring has          *)
(* forgotten, the cleanup having removed it, is out of every later window. *)
(***************************************************************************)
EXTENDS FlowHistory, FlowTable_proofs

----------------------------------------------------------------------------
(* The inductive invariants.                                               *)

HeardType == heard \in [FlowKey -> Seq(Nat)] /\ \A k \in FlowKey : Len(heard[k]) <= Slots

\* What the table has of a flow, as a sequence that is empty when the flow is not there.
KeptLen(k) == IF k \in DOMAIN table THEN table[k].count ELSE 0

\* What waits was captured at this instant: the clock stood still while anything waited.
Prompt == \A i \in 1 .. Len(queue) : queue[i].timestamp = now

\* Of a flow never evicted the table lacks only what has left every window.
Forgotten ==
  \A k \in FlowKey \ evicted : \A i \in 1 .. Len(heard[k]) - KeptLen(k) : now - heard[k][i] > Window

HInv == IInv /\ HeardType /\ RingIsRecentPast
PromptInv == HInv /\ Prompt /\ Forgotten

\* The observer's steps are the system's.
LEMMA ObservedStep ==
  /\ HInit => Init /\ (Init => IInv)
  /\ [PromptNext]_hvars => [LaggingNext]_hvars
  /\ [LaggingNext]_hvars => [Next]_vars
<1>1. HInit => Init /\ (Init => IInv)
  BY InitInv DEF HInit
<1>2. [PromptNext]_hvars => [LaggingNext]_hvars
  BY DEF PromptNext, LaggingNext, PromptTick, LaggingTick
<1>3. [LaggingNext]_hvars => [Next]_vars
  BY DEF LaggingNext, LaggingTick, HProcess, HOther, Next, hvars, vars
<1> QED
  BY <1>1, <1>2, <1>3

\* How many entries of a flow are kept, and under which times.
LEMMA KeptIs ==
  ASSUME IInv
  PROVE  \A k \in DOMAIN table :
           /\ k \in FlowKey /\ Len(recent[k]) = table[k].count /\ table[k].count \in 1 .. Slots
           /\ \A i \in 1 .. table[k].count :
                recent[k][i].timestamp = table[k].timestamps[OrderedSlot(table[k], i)]
<1> TAKE k \in DOMAIN table
<1> DEFINE f == table[k]
<1>1. k \in FlowKey /\ f \in FlowState /\ RingOK(f)
  BY DEF IInv, TypeOK, RingsAgree
<1>2. f.count \in 1 .. Slots
  BY <1>1, SizeAssumption DEF RingOK, FlowState
<1>3. recent[k] = GetOrderedPackets(f)
  BY DEF recent
<1> HIDE DEF f
<1>4. Len(recent[k]) = f.count /\ \A i \in 1 .. f.count : recent[k][i] = f.buffer[OrderedSlot(f, i)]
  BY <1>2, <1>3 DEF GetOrderedPackets
<1>5. \A i \in 1 .. f.count : recent[k][i].timestamp = f.timestamps[OrderedSlot(f, i)]
  BY <1>1, <1>4 DEF RingOK
<1> QED
  BY <1>1, <1>2, <1>4, <1>5 DEF f

\* What a packet adds to what was heard of its flow.
LEMMA HeardAfter ==
  ASSUME HeardType, NEW k \in FlowKey, NEW ts \in Nat
  PROVE  LET m == Len(heard[k])
             drop == IF m < Slots THEN 0 ELSE 1
         IN  /\ Heard(k, ts) \in Seq(Nat) /\ Len(Heard(k, ts)) = m + 1 - drop /\ m \in 0 .. Slots
             /\ Heard(k, ts)[m + 1 - drop] = ts
             /\ \A i \in 1 .. m - drop : Heard(k, ts)[i] = heard[k][i + drop]
<1> DEFINE s == heard[k]
<1>1. s \in Seq(Nat) /\ Len(s) \in Nat /\ Len(s) <= Slots
  BY DEF HeardType
<1>2. Heard(k, ts) = Append(IF Len(s) < Slots THEN s ELSE Tail(s), ts)
  BY DEF Heard
<1> HIDE DEF s
<1>3. CASE Len(s) < Slots
  <2>1. Heard(k, ts) = Append(s, ts)
    BY <1>2, <1>3
  <2>2. /\ Append(s, ts) \in Seq(Nat) /\ Len(Append(s, ts)) = Len(s) + 1 /\ Append(s, ts)[Len(s) + 1] = ts
        /\ \A i \in 1 .. Len(s) : Append(s, ts)[i] = s[i]
    BY <1>1
  <2> QED
    BY <1>1, <1>3, <2>1, <2>2 DEF s
<1>4. CASE ~ (Len(s) < Slots)
  <2> DEFINE u == Tail(s)
  <2>1. Heard(k, ts) = Append(u, ts)
    BY <1>2, <1>4
  <2>2. s # <<>> /\ Len(s) = Slots
    BY <1>1, <1>4, SizeAssumption
  <2>3. u \in Seq(Nat) /\ Len(u) = Len(s) - 1 /\ \A i \in 1 .. Len(s) - 1 : u[i] = s[i + 1]
    BY <1>1, <2>2
  <2> HIDE DEF u
  <2>4. Len(u) \in Nat
    BY <2>3
  <2>5. /\ Append(u, ts) \in Seq(Nat) /\ Len(Append(u, ts)) = Len(u) + 1 /\ Append(u, ts)[Len(u) + 1] = ts
        /\ \A i \in 1 .. Len(u) : Append(u, ts)[i] = u[i]
    BY <2>3
  <2> DEFINE h == Append(u, ts)
  <2> HIDE DEF h
  <2>6. h \in Seq(Nat) /\ Len(h) = Len(s) /\ h[Len(s)] = ts /\ \A i \in 1 .. Len(s) - 1 : h[i] = s[i + 1]
    BY <1>1, <2>3, <2>4, <2>5 DEF h
  <2>7. Len(s) + 1 - 1 = Len(s) /\ Len(s) \in 0 .. Slots
    BY <1>1, <2>2
  <2> QED
    BY <1>4, <2>1, <2>6, <2>7 DEF s, h
<1> QED
  BY <1>3, <1>4

\* A turn of the processor: which flow takes the packet, and what becomes of the others.
LEMMA ProcessIs ==
  ASSUME IInv, HeardType, HProcess
  PROVE  \E key \in FlowKey, f \in FlowState, pkt \in Packet :
           /\ queue # <<>> /\ pkt = Head(queue) /\ key = FlowKeyOf[pkt.data] /\ now' = now /\ queue' = Tail(queue)
           /\ RingOK(f) \/ (f.count = 0 /\ f.head = 0)
           /\ f.count > 0 => key \in DOMAIN table /\ f = table[key]
           /\ key \in DOMAIN table => f = table[key]
           /\ \A k \in DOMAIN table : table[k].last_seen_ts <= pkt.timestamp
           /\ key \in DOMAIN table' /\ table'[key] = AddPacket(f, pkt)
           /\ \A k \in DOMAIN table' : k # key => k \in DOMAIN table /\ table'[k] = table[k]
           /\ burst' # None <=> BurstDetected(f, pkt)
           /\ heard' = [heard EXCEPT ![key] = Heard(key, pkt.timestamp)]
           /\ evicted' = evicted \cup (DOMAIN table \ DOMAIN table')
<1> DEFINE pkt == Head(queue)
           key == FlowKeyOf[pkt.data]
<1>1. queue # <<>> /\ key # NoKey /\ now' = now /\ queue' = Tail(queue) /\ ProcessPacket(key, pkt)
  BY DEF HProcess, Process
<1>2. /\ heard' = [heard EXCEPT ![key] = Heard(key, pkt.timestamp)]
      /\ evicted' = evicted \cup (DOMAIN table \ DOMAIN table')
  BY DEF HProcess
<1>3. pkt \in Packet /\ \A k \in DOMAIN table : table[k].last_seen_ts <= pkt.timestamp
  BY <1>1, TailOfQueue
<1>4. key \in FlowKey
  BY <1>1, <1>3, FlowKeyAssumption DEF Packet
<1> HIDE DEF key, pkt
<1>5. PICK t \in MadeRoom(table, key) :
        /\ table' = Store(t, key, AddPacket(FlowOf(t, key, pkt.timestamp), pkt))
        /\ burst' = IF BurstDetected(FlowOf(t, key, pkt.timestamp), pkt)
                    THEN [key |-> key, at |-> pkt.timestamp,
                          packets |-> GetOrderedPackets(FlowOf(t, key, pkt.timestamp))]
                    ELSE None
  BY <1>1 DEF ProcessPacket
<1> DEFINE f == FlowOf(t, key, pkt.timestamp)
<1>6. /\ f \in FlowState /\ (RingOK(f) \/ (f.count = 0 /\ f.head = 0))
      /\ (f.count > 0 => key \in DOMAIN table /\ f = table[key]) /\ (key \in DOMAIN table => f = table[key])
  BY <1>3, <1>4, <1>5, FlowTaken
<1>7. DOMAIN t \subseteq DOMAIN table /\ \A k \in DOMAIN t : t[k] = table[k]
  BY <1>4, RoomForKey
<1>8. /\ key \in DOMAIN table' /\ table'[key] = AddPacket(f, pkt)
      /\ \A k \in DOMAIN table' : k # key => k \in DOMAIN table /\ table'[k] = table[k]
  BY <1>5, <1>7 DEF Store
<1>9. burst' # None <=> BurstDetected(f, pkt)
  <2>1. GetOrderedPackets(f) \in Seq(Packet) /\ pkt.timestamp \in Nat
    BY <1>3, <1>6, PushedAfterAdd DEF Packet
  <2> DEFINE r == [key |-> key, at |-> pkt.timestamp, packets |-> GetOrderedPackets(f)]
  <2>2. r # None
    BY <1>4, <2>1, NoneAssumption DEF Report
  <2>3. burst' = IF BurstDetected(f, pkt) THEN r ELSE None
    BY <1>5
  <2> HIDE DEF r, f
  <2> QED
    BY <2>2, <2>3
<1> HIDE DEF f
<1> QED
  BY <1>1, <1>2, <1>3, <1>4, <1>6, <1>8, <1>9 DEF key, pkt

\* What a push leaves of a sequence.
LEMMA PushedIs ==
  ASSUME NEW s \in Seq(Packet), NEW p \in Packet, Len(s) <= Slots
  PROVE  LET cut == IF Len(s) < Slots THEN 0 ELSE 1
             r == Abstract!Pushed(s, p)
         IN  /\ Len(r) = Len(s) + 1 - cut /\ r[Len(s) + 1 - cut] = p
             /\ \A i \in 1 .. Len(s) - cut : r[i] = s[i + cut]
<1>1. Len(s) \in Nat /\ Slots \in Nat \ {0}
  BY SizeAssumption
<1>2. CASE Len(s) < Slots
  <2>1. Abstract!Pushed(s, p) = Append(s, p)
    BY <1>2 DEF Abstract!Pushed
  <2> QED
    BY <1>1, <1>2, <2>1
<1>3. CASE Len(s) = Slots
  <2> DEFINE u == Tail(s)
  <2>1. Abstract!Pushed(s, p) = Append(u, p)
    BY <1>1, <1>3 DEF Abstract!Pushed
  <2>2. u \in Seq(Packet) /\ Len(u) = Len(s) - 1 /\ \A i \in 1 .. Len(s) - 1 : u[i] = s[i + 1]
    BY <1>1, <1>3
  <2> HIDE DEF u
  <2>3. Len(Append(u, p)) = Len(u) + 1 /\ Append(u, p)[Len(u) + 1] = p /\ \A i \in 1 .. Len(u) : Append(u, p)[i] = u[i]
    BY <2>2
  <2> QED
    BY <1>1, <1>3, <2>1, <2>2, <2>3
<1> QED
  BY <1>1, <1>2, <1>3

\* The ring after a packet is the end of what was heard, if it was before.
LEMMA RecentAfterProcess == HInv /\ HProcess => RingIsRecentPast'
<1> SUFFICES ASSUME HInv, HProcess PROVE RingIsRecentPast'
  OBVIOUS
<1>1. IInv /\ HeardType /\ RingIsRecentPast
  BY DEF HInv
<1>2. PICK key \in FlowKey, f \in FlowState, pkt \in Packet :
           /\ queue # <<>> /\ pkt = Head(queue) /\ key = FlowKeyOf[pkt.data] /\ now' = now /\ queue' = Tail(queue)
           /\ RingOK(f) \/ (f.count = 0 /\ f.head = 0)
           /\ f.count > 0 => key \in DOMAIN table /\ f = table[key]
           /\ key \in DOMAIN table => f = table[key]
           /\ \A k \in DOMAIN table : table[k].last_seen_ts <= pkt.timestamp
           /\ key \in DOMAIN table' /\ table'[key] = AddPacket(f, pkt)
           /\ \A k \in DOMAIN table' : k # key => k \in DOMAIN table /\ table'[k] = table[k]
           /\ burst' # None <=> BurstDetected(f, pkt)
           /\ heard' = [heard EXCEPT ![key] = Heard(key, pkt.timestamp)]
           /\ evicted' = evicted \cup (DOMAIN table \ DOMAIN table')
  BY <1>1, ProcessIs
<1>3. /\ \A k \in DOMAIN table' : recent'[k] = GetOrderedPackets(table'[k])
      /\ \A k \in DOMAIN table : recent[k] = GetOrderedPackets(table[k])
  <2>1. /\ recent' = [k \in DOMAIN table' |-> GetOrderedPackets(table'[k])]
        /\ recent = [k \in DOMAIN table |-> GetOrderedPackets(table[k])]
    BY DEF recent
  <2> QED
    BY <2>1
<1>4. \A k \in DOMAIN table : k \in FlowKey
  BY <1>1, KeptIs
<1>5. heard \in [FlowKey -> Seq(Nat)]
  BY <1>1 DEF HeardType
<1> DEFINE Past(r, h) == Len(r) <= Len(h) /\ \A i \in 1 .. Len(r) : r[i].timestamp = h[i + Len(h) - Len(r)]
<1>6. \A k \in DOMAIN table : Past(recent[k], heard[k])
  BY <1>1 DEF RingIsRecentPast
<1>7. SUFFICES \A k \in DOMAIN table' : Past(recent'[k], heard'[k])
  BY DEF RingIsRecentPast
<1> HIDE DEF Past
<1>8. ASSUME NEW k \in DOMAIN table', k # key PROVE Past(recent'[k], heard'[k])
  <2>1. k \in DOMAIN table /\ table'[k] = table[k] /\ k \in FlowKey
    BY <1>2, <1>4, <1>8
  <2>2. recent'[k] = recent[k] /\ heard'[k] = heard[k]
    BY <1>2, <1>3, <1>5, <1>8, <2>1
  <2> QED
    BY <1>6, <2>1, <2>2
<1>9. Past(recent'[key], heard'[key])
  <2> DEFINE s == GetOrderedPackets(f)
             r == recent'[key]
             a == heard[key]
             h == heard'[key]
             ts == pkt.timestamp
             n == f.count
             m == Len(a)
             cut == IF n < Slots THEN 0 ELSE 1
             drop == IF m < Slots THEN 0 ELSE 1
  <2>1. /\ s \in Seq(Packet) /\ Len(s) = n /\ r = Abstract!Pushed(s, pkt) /\ n \in 0 .. Slots
    BY <1>2, <1>3, PushedAfterAdd DEF FlowState
  <2>2. h = Heard(key, ts) /\ ts \in Nat
    BY <1>2, <1>5 DEF Packet
  <2>3. /\ h \in Seq(Nat) /\ Len(h) = m + 1 - drop /\ m \in 0 .. Slots /\ h[m + 1 - drop] = ts
        /\ \A i \in 1 .. m - drop : h[i] = a[i + drop]
    <3>1. /\ Heard(key, ts) \in Seq(Nat) /\ Len(Heard(key, ts)) = m + 1 - drop /\ m \in 0 .. Slots
          /\ Heard(key, ts)[m + 1 - drop] = ts
          /\ \A i \in 1 .. m - drop : Heard(key, ts)[i] = a[i + drop]
      <4> HIDE DEF ts
      <4> QED
        BY <1>1, <2>2, HeardAfter
    <3> HIDE DEF h, ts, m, drop, a
    <3> QED
      BY <2>2, <3>1
  <2>4. n <= m /\ \A i \in 1 .. n : s[i].timestamp = a[i + m - n]
    <3>1. CASE n > 0
      <4>1. key \in DOMAIN table /\ s = recent[key]
        BY <1>2, <1>3, <3>1
      <4>2. Past(s, a)
        BY <1>6, <4>1
      <4> QED
        BY <2>1, <4>2 DEF Past
    <3>2. CASE n = 0
      BY <2>3, <3>2
    <3> QED
      BY <2>1, <3>1, <3>2
  <2> HIDE DEF s, r, a, h, ts, n
  <2>5. Len(r) = n + 1 - cut /\ r[n + 1 - cut] = pkt /\ \A i \in 1 .. n - cut : r[i] = s[i + cut]
    BY <2>1, PushedIs
  <2> HIDE DEF m
  <2>6. Slots \in Nat \ {0}
    BY SizeAssumption
  <2>7. /\ n + 1 - cut \in Nat /\ m + 1 - drop \in Nat /\ n + 1 - cut <= m + 1 - drop
        /\ cut \in 0 .. 1 /\ drop \in 0 .. 1 /\ (cut = 1 => drop = 1)
    BY <2>1, <2>3, <2>4, <2>6
  <2> HIDE DEF cut, drop
  <2>8. ASSUME NEW i \in 1 .. Len(r) PROVE r[i].timestamp = h[i + Len(h) - Len(r)]
    <3>1. CASE i = Len(r)
      <4>1. i + Len(h) - Len(r) = m + 1 - drop
        BY <2>3, <2>5, <2>7, <3>1
      <4> QED
        BY <2>3, <2>5, <3>1, <4>1 DEF ts
    <3>2. CASE i # Len(r)
      <4> DEFINE j == i + Len(h) - Len(r)
      <4>1. /\ i \in 1 .. n - cut /\ i + cut \in 1 .. n /\ j \in 1 .. m - drop
            /\ j + drop = (i + cut) + m - n
        BY <2>1, <2>3, <2>4, <2>5, <2>7, <3>2
      <4>2. r[i].timestamp = a[(i + cut) + m - n]
        BY <2>4, <2>5, <4>1
      <4>3. h[j] = a[j + drop]
        BY <2>3, <4>1
      <4> QED
        BY <4>1, <4>2, <4>3
    <3> QED
      BY <3>1, <3>2
  <2>9. Len(r) <= Len(h)
    BY <2>3, <2>5, <2>7
  <2> QED
    BY <2>8, <2>9 DEF Past, r, h
<1> QED
  BY <1>8, <1>9

\* Nothing is forgotten that could still be in a window: not when a packet is filed, ...
LEMMA ForgottenAfterProcess == PromptInv /\ HProcess => Prompt' /\ Forgotten'
<1> SUFFICES ASSUME PromptInv, HProcess PROVE Prompt' /\ Forgotten'
  OBVIOUS
<1>1. IInv /\ HeardType /\ RingIsRecentPast /\ Prompt /\ Forgotten
  BY DEF PromptInv, HInv
<1>2. PICK key \in FlowKey, f \in FlowState, pkt \in Packet :
           /\ queue # <<>> /\ pkt = Head(queue) /\ key = FlowKeyOf[pkt.data] /\ now' = now /\ queue' = Tail(queue)
           /\ RingOK(f) \/ (f.count = 0 /\ f.head = 0)
           /\ f.count > 0 => key \in DOMAIN table /\ f = table[key]
           /\ key \in DOMAIN table => f = table[key]
           /\ \A k \in DOMAIN table : table[k].last_seen_ts <= pkt.timestamp
           /\ key \in DOMAIN table' /\ table'[key] = AddPacket(f, pkt)
           /\ \A k \in DOMAIN table' : k # key => k \in DOMAIN table /\ table'[k] = table[k]
           /\ burst' # None <=> BurstDetected(f, pkt)
           /\ heard' = [heard EXCEPT ![key] = Heard(key, pkt.timestamp)]
           /\ evicted' = evicted \cup (DOMAIN table \ DOMAIN table')
  BY <1>1, ProcessIs
<1>3. Prompt'
  <2>1. \A i \in 1 .. Len(Tail(queue)) : i + 1 \in 1 .. Len(queue) /\ Tail(queue)[i] = queue[i + 1]
    BY <1>1, <1>2, TailOfQueue
  <2> QED
    BY <1>1, <1>2, <2>1 DEF Prompt
<1>4. heard \in [FlowKey -> Seq(Nat)] /\ now \in Nat
  BY <1>1, Typed DEF HeardType
<1>5. ASSUME NEW k \in FlowKey \ evicted', NEW i \in 1 .. Len(heard'[k]) - KeptLen(k)'
      PROVE  now - heard'[k][i] > Window
  <2>1. k \in FlowKey \ evicted
    BY <1>2
  <2>2. \A j \in 1 .. Len(heard[k]) - KeptLen(k) : now - heard[k][j] > Window
    BY <1>1, <2>1 DEF Forgotten
  <2>3. CASE k # key
    <3>1. heard'[k] = heard[k]
      BY <1>2, <1>4, <2>3
    <3>2. KeptLen(k)' = KeptLen(k)
      <4>1. CASE k \in DOMAIN table'
        BY <1>2, <2>3, <4>1 DEF KeptLen
      <4>2. CASE k \notin DOMAIN table'
        <5>1. k \notin DOMAIN table
          BY <1>2, <4>2
        <5> QED
          BY <4>2, <5>1 DEF KeptLen
      <4> QED
        BY <4>1, <4>2
    <3> QED
      BY <1>5, <2>2, <3>1, <3>2
  <2>4. CASE k = key
    <3> DEFINE a == heard[key]
               h == heard'[key]
               m == Len(a)
               n == f.count
               drop == IF m < Slots THEN 0 ELSE 1
    <3>1. /\ h \in Seq(Nat) /\ Len(h) = m + 1 - drop /\ m \in 0 .. Slots
          /\ \A j \in 1 .. m - drop : h[j] = a[j + drop]
      <4> DEFINE ts == pkt.timestamp
      <4>1. ts \in Nat /\ h = Heard(key, ts)
        BY <1>2, <1>4 DEF Packet
      <4> HIDE DEF ts
      <4>2. /\ Heard(key, ts) \in Seq(Nat) /\ Len(Heard(key, ts)) = m + 1 - drop /\ m \in 0 .. Slots
            /\ \A j \in 1 .. m - drop : Heard(key, ts)[j] = a[j + drop]
        BY <1>1, <4>1, HeardAfter
      <4> HIDE DEF h, m, drop, a
      <4> QED
        BY <4>1, <4>2
    <3>2. n = KeptLen(key) /\ n \in 0 .. Slots
      BY <1>2 DEF KeptLen, FlowState
    <3>3. KeptLen(key)' = IF n < Slots THEN n + 1 ELSE n
      BY <1>2 DEF KeptLen, AddPacket
    <3> HIDE DEF a, h, n
    <3>4. \A j \in 1 .. m - n : now - a[j] > Window
      BY <2>2, <2>4, <3>2 DEF a
    <3> HIDE DEF m
    <3>5. i \in 1 .. Len(h) - KeptLen(key)' /\ drop \in 0 .. 1 /\ Slots \in Nat \ {0} /\ (drop = 0 => m < Slots)
      BY <1>5, <2>4, SizeAssumption DEF h
    <3>6. i + drop \in 1 .. m - n /\ i \in 1 .. m - drop
      <4>1. CASE n < Slots
        BY <3>1, <3>2, <3>3, <3>5, <4>1
      <4>2. CASE n = Slots
        BY <3>1, <3>2, <3>3, <3>5, <4>2
      <4> QED
        BY <3>2, <3>5, <4>1, <4>2
    <3>7. h[i] = a[i + drop]
      BY <3>1, <3>6
    <3> QED
      BY <2>4, <3>4, <3>6, <3>7 DEF h
  <2> QED
    BY <2>3, <2>4
<1>6. Forgotten'
  BY <1>2, <1>5 DEF Forgotten
<1> QED
  BY <1>3, <1>6

\* ... nor when the cleanup runs: what it removes has not been seen for longer than Window.
LEMMA ForgottenAfterCleanup == PromptInv /\ Cleanup /\ UNCHANGED <<heard, evicted>> => Prompt' /\ Forgotten'
<1> SUFFICES ASSUME PromptInv, Cleanup, UNCHANGED <<heard, evicted>> PROVE Prompt' /\ Forgotten'
  OBVIOUS
<1>1. IInv /\ HeardType /\ RingIsRecentPast /\ Prompt /\ Forgotten
  BY DEF PromptInv, HInv
<1>2. now' = now /\ queue' = queue /\ table' = Restrict(table, Retained)
  BY DEF Cleanup
<1>3. DOMAIN table' = Retained /\ Retained \subseteq DOMAIN table /\ \A k \in Retained : table'[k] = table[k]
  BY <1>2 DEF Restrict, Retained
<1>4. ASSUME NEW k \in FlowKey \ evicted, NEW i \in 1 .. Len(heard[k]) - KeptLen(k)'
      PROVE  now - heard[k][i] > Window
  <2>1. \A j \in 1 .. Len(heard[k]) - KeptLen(k) : now - heard[k][j] > Window
    BY <1>1 DEF Forgotten
  <2>2. CASE k \in Retained \/ k \notin DOMAIN table
    <3>1. KeptLen(k)' = KeptLen(k)
      BY <1>3, <2>2 DEF KeptLen
    <3> QED
      BY <1>4, <2>1, <3>1
  <2>3. CASE k \in DOMAIN table /\ k \notin Retained
    <3> DEFINE f == table[k]
               a == heard[k]
               m == Len(a)
               n == f.count
    <3>1. KeptLen(k)' = 0 /\ KeptLen(k) = n
      BY <1>3, <2>3 DEF KeptLen
    <3>2. a \in Seq(Nat) /\ m \in Nat
      BY <1>1 DEF HeardType
    <3>3. /\ Len(recent[k]) = n /\ n \in 1 .. Slots
          /\ \A j \in 1 .. n : recent[k][j].timestamp = f.timestamps[OrderedSlot(f, j)]
      BY <1>1, <2>3, KeptIs
    <3>4. n <= m /\ \A j \in 1 .. n : recent[k][j].timestamp = a[j + m - n]
      BY <1>1, <2>3, <3>3 DEF RingIsRecentPast
    <3>5. /\ f.last_seen_ts = f.timestamps[OrderedSlot(f, n)]
          /\ \A j \in 1 .. n : f.timestamps[OrderedSlot(f, j)] <= f.timestamps[OrderedSlot(f, n)]
      <4>1. RingOK(f) /\ n \in 1 .. n
        BY <1>1, <2>3, <3>3 DEF IInv, RingsAgree
      <4> HIDE DEF f
      <4> QED
        BY <3>3, <4>1, SizeAssumption DEF RingOK
    <3>6. now - f.last_seen_ts > Window /\ f.last_seen_ts \in Nat /\ now \in Nat
      BY <1>1, <2>3, Typed, SizeAssumption DEF Retained, Elapsed
    <3> HIDE DEF f, a, m, n
    <3>7. i \in 1 .. m
      BY <1>4, <3>1, <3>2 DEF a, m
    <3>8. CASE i <= m - n
      <4>1. i \in 1 .. m - n
        BY <3>2, <3>3, <3>7, <3>8
      <4> QED
        BY <2>1, <3>1, <4>1 DEF a, m
    <3>9. CASE i > m - n
      <4> DEFINE j == i - (m - n)
      <4>1. j \in 1 .. n /\ j + m - n = i
        BY <3>2, <3>3, <3>7, <3>9
      <4>2. a[i] = f.timestamps[OrderedSlot(f, j)]
        BY <3>3, <3>4, <4>1
      <4>3. a[i] <= f.last_seen_ts /\ a[i] \in Nat
        BY <3>2, <3>5, <3>7, <4>1, <4>2 DEF m
      <4> QED
        BY <3>6, <4>3, SizeAssumption DEF a
    <3> QED
      BY <3>2, <3>3, <3>7, <3>8, <3>9
  <2> QED
    BY <2>2, <2>3
<1>5. Forgotten'
  BY <1>2, <1>4 DEF Forgotten
<1>6. Prompt'
  BY <1>1, <1>2 DEF Prompt
<1> QED
  BY <1>5, <1>6

\* Every step of the lagging system, which has those of the prompt one, keeps the first invariant.
LEMMA HStepInv == HInv /\ [LaggingNext]_hvars => HInv'
<1> SUFFICES ASSUME HInv, [LaggingNext]_hvars PROVE HInv'
  OBVIOUS
<1>1. IInv /\ HeardType /\ RingIsRecentPast
  BY DEF HInv
<1>2. IInv'
  BY <1>1, ObservedStep, StepInv
<1>3. CASE HProcess
  <2>1. RingIsRecentPast'
    BY <1>3, RecentAfterProcess
  <2>2. PICK key \in FlowKey, pkt \in Packet : heard' = [heard EXCEPT ![key] = Heard(key, pkt.timestamp)]
    BY <1>1, <1>3, ProcessIs
  <2> DEFINE ts == pkt.timestamp
  <2>3. ts \in Nat
    BY DEF Packet
  <2> HIDE DEF ts
  <2>4. Heard(key, ts) \in Seq(Nat) /\ Len(Heard(key, ts)) <= Slots
    <3>1. LET drop == IF Len(heard[key]) < Slots THEN 0 ELSE 1
          IN  /\ Heard(key, ts) \in Seq(Nat) /\ Len(heard[key]) \in 0 .. Slots
              /\ Len(Heard(key, ts)) = Len(heard[key]) + 1 - drop
      BY <1>1, <2>3, HeardAfter
    <3> QED
      BY <3>1, SizeAssumption
  <2>5. heard' = [heard EXCEPT ![key] = Heard(key, ts)]
    BY <2>2 DEF ts
  <2>6. HeardType'
    BY <1>1, <2>4, <2>5 DEF HeardType
  <2> QED
    BY <1>2, <2>1, <2>6 DEF HInv
<1>4. CASE Cleanup /\ UNCHANGED <<heard, evicted>>
  <2>1. DOMAIN table' \subseteq DOMAIN table /\ \A k \in DOMAIN table' : table'[k] = table[k]
    BY <1>4 DEF Cleanup, Restrict, Retained
  <2>2. recent' = [k \in DOMAIN table' |-> GetOrderedPackets(table'[k])]
    BY DEF recent
  <2>3. recent = [k \in DOMAIN table |-> GetOrderedPackets(table[k])]
    BY DEF recent
  <2>4. \A k \in DOMAIN table' : recent'[k] = recent[k] /\ k \in DOMAIN table
    BY <2>1, <2>2, <2>3
  <2>5. RingIsRecentPast'
    BY <1>1, <1>4, <2>4 DEF RingIsRecentPast
  <2> QED
    BY <1>1, <1>2, <1>4, <2>5 DEF HInv, HeardType
<1>5. CASE UNCHANGED <<table, heard>>
  BY <1>1, <1>2, <1>5 DEF HInv, HeardType, RingIsRecentPast, recent
<1>6. \/ HProcess \/ (Cleanup /\ UNCHANGED <<heard, evicted>>) \/ UNCHANGED <<table, heard>>
  BY DEF LaggingNext, LaggingTick, HOther, SkipUnparsed, Capture, Tick, hvars
<1> QED
  BY <1>3, <1>4, <1>5, <1>6

\* The prompt processor's steps keep the second one too.
LEMMA PromptStepInv == PromptInv /\ [PromptNext]_hvars => PromptInv'
<1> SUFFICES ASSUME PromptInv, [PromptNext]_hvars PROVE PromptInv'
  OBVIOUS
<1>1. IInv /\ HeardType /\ Prompt /\ Forgotten /\ HInv
  BY DEF PromptInv, HInv
<1>2. HInv'
  BY <1>1, ObservedStep, HStepInv
<1>3. CASE HProcess
  BY <1>2, <1>3, ForgottenAfterProcess DEF PromptInv
<1>4. CASE Cleanup /\ UNCHANGED <<heard, evicted>>
  BY <1>2, <1>4, ForgottenAfterCleanup DEF PromptInv
<1>5. CASE PromptTick
  <2>1. queue' = <<>> /\ now' = now + 1 /\ table' = table /\ heard' = heard /\ evicted' = evicted
    BY <1>5 DEF PromptTick, Tick
  <2>2. Prompt'
    BY <2>1 DEF Prompt
  <2>3. \A k \in FlowKey : KeptLen(k)' = KeptLen(k) /\ KeptLen(k) \in Nat
    <3>1. \A k \in DOMAIN table : table[k].count \in Nat
      BY <1>1, KeptIs
    <3> QED
      BY <2>1, <3>1 DEF KeptLen
  <2>4. ASSUME NEW k \in FlowKey \ evicted, NEW i \in 1 .. Len(heard[k]) - KeptLen(k) PROVE now' - heard[k][i] > Window
    <3>1. now - heard[k][i] > Window /\ now \in Nat
      BY <1>1, Typed DEF Forgotten
    <3>2. heard[k] \in Seq(Nat) /\ i \in 1 .. Len(heard[k])
      BY <1>1, <2>3 DEF HeardType
    <3>3. heard[k][i] \in Nat
      BY <3>2
    <3> QED
      BY <2>1, <3>1, <3>3, SizeAssumption
  <2>5. Forgotten'
    BY <2>1, <2>3, <2>4 DEF Forgotten
  <2> QED
    BY <1>2, <2>2, <2>5 DEF PromptInv
<1>6. ASSUME UNCHANGED <<table, heard, evicted, now>> PROVE Forgotten'
  BY <1>1, <1>6 DEF Forgotten, KeptLen
<1>7. CASE SkipUnparsed /\ UNCHANGED <<heard, evicted>>
  <2>1. queue # <<>> /\ queue' = Tail(queue) /\ now' = now /\ table' = table
    BY <1>7 DEF SkipUnparsed
  <2>2. \A i \in 1 .. Len(Tail(queue)) : i + 1 \in 1 .. Len(queue) /\ Tail(queue)[i] = queue[i + 1]
    BY <1>1, <2>1, TailOfQueue
  <2>3. Prompt'
    BY <1>1, <2>1, <2>2 DEF Prompt
  <2> QED
    BY <1>2, <1>6, <1>7, <2>1, <2>3 DEF PromptInv
<1>8. CASE (\E d \in Data : Capture(d)) /\ UNCHANGED <<heard, evicted>>
  <2>1. PICK d \in Data : Capture(d)
    BY <1>8
  <2>2. /\ queue' = IF Len(queue) < QueueCap THEN Append(queue, [timestamp |-> now, data |-> d]) ELSE queue
        /\ now' = now /\ table' = table
    BY <2>1 DEF Capture
  <2>3. Prompt'
    <3> DEFINE p == [timestamp |-> now, data |-> d]
    <3>1. p.timestamp = now /\ queue \in Seq(Packet) /\ p \in Packet
      BY <1>1, Typed DEF Packet
    <3> HIDE DEF p
    <3>2. /\ Len(queue) \in Nat /\ Len(Append(queue, p)) = Len(queue) + 1 /\ Append(queue, p)[Len(queue) + 1] = p
          /\ \A i \in 1 .. Len(queue) : Append(queue, p)[i] = queue[i]
      BY <3>1
    <3>3. \A i \in 1 .. Len(Append(queue, p)) : i \in 1 .. Len(queue) \/ i = Len(queue) + 1
      BY <3>2
    <3>4. \A i \in 1 .. Len(Append(queue, p)) : Append(queue, p)[i].timestamp = now
      BY <1>1, <3>1, <3>2, <3>3 DEF Prompt
    <3>5. queue' = IF Len(queue) < QueueCap THEN Append(queue, p) ELSE queue
      BY <2>2 DEF p
    <3> QED
      BY <1>1, <2>2, <3>4, <3>5 DEF Prompt
  <2> QED
    BY <1>2, <1>6, <1>8, <2>2, <2>3 DEF PromptInv
<1>9. CASE UNCHANGED hvars
  BY <1>1, <1>2, <1>6, <1>9 DEF PromptInv, hvars, Prompt
<1> QED
  BY <1>3, <1>4, <1>5, <1>7, <1>8, <1>9 DEF PromptNext, HOther

\* At the start nothing was heard.
LEMMA HInitInv == HInit => PromptInv
<1> SUFFICES ASSUME HInit PROVE PromptInv
  OBVIOUS
<1>1. IInv /\ queue = <<>> /\ DOMAIN table = {} /\ heard = [k \in FlowKey |-> <<>>]
  BY ObservedStep DEF HInit, Init
<1>2. HeardType
  BY <1>1, SizeAssumption DEF HeardType
<1>3. \A k \in FlowKey : Len(heard[k]) = 0 /\ KeptLen(k) = 0
  BY <1>1 DEF KeptLen
<1> QED
  BY <1>1, <1>2, <1>3 DEF PromptInv, HInv, RingIsRecentPast, Prompt, Forgotten

\* Both invariants hold in every state.
LEMMA HInvariance == (LaggingSpec => []HInv) /\ (PromptSpec => []PromptInv)
<1>1. HInit => HInv /\ PromptInv
  BY HInitInv DEF PromptInv
<1> QED
  BY <1>1, HStepInv, PromptStepInv, PTL DEF LaggingSpec, PromptSpec

----------------------------------------------------------------------------
(* The properties.                                                         *)

\* A queue that loses its head neither stays as it is nor grows.
LEMMA TailIsNew ==
  ASSUME NEW S, NEW s \in Seq(S), s # <<>>
  PROVE  Tail(s) # s /\ \A p \in S : Tail(s) # Append(s, p)
<1>1. Len(s) \in Nat /\ Len(Tail(s)) = Len(s) - 1
  OBVIOUS
<1>2. \A p \in S : Len(Append(s, p)) = Len(s) + 1
  OBVIOUS
<1> DEFINE u == Tail(s)
<1> HIDE DEF u
<1>3. Len(u) # Len(s) /\ Len(u) # Len(s) + 1
  <2>1. \A n \in Nat : n - 1 # n /\ n - 1 # n + 1
    OBVIOUS
  <2> QED
    BY <1>1, <2>1, Zenon DEF u
<1>4. u # s /\ \A p \in S : u # Append(s, p)
  BY <1>2, <1>3
<1> QED
  BY <1>4 DEF u

\* However far the processor lags, a ring holds the last packets of its flow that were taken, none
\* skipped, none of another time (add_packet, process_packet).
THEOREM RingsAreRecentPast == (LaggingSpec => []RingIsRecentPast) /\ (PromptSpec => []RingIsRecentPast)
<1>1. (HInv => RingIsRecentPast) /\ (PromptInv => RingIsRecentPast)
  BY DEF PromptInv, HInv
<1> QED
  BY <1>1, HInvariance, PTL

\* With a prompt processor the detector is as good as one that forgets nothing, for every ring size
\* and window, except that an evicted flow may miss bursts (add_packet, cleanup_inactive_flows).
THEOREM EveryBurstReported == PromptSpec => ReportsEveryBurst
<1> DEFINE Right(k) ==
      queue # <<>> /\ queue' = Tail(queue) /\ FlowKeyOf[Head(queue).data] = k
       => LET crowded == Crowded(k, Head(queue).timestamp)
          IN  (burst' # None => crowded) /\ (crowded /\ k \notin evicted => burst' # None)
<1>1. PromptInv /\ [PromptNext]_hvars => [\A k \in FlowKey : Right(k)]_hvars
  <2> SUFFICES ASSUME PromptInv, PromptNext, NEW k \in FlowKey,
                      queue # <<>>, queue' = Tail(queue), FlowKeyOf[Head(queue).data] = k
               PROVE  /\ burst' # None => Crowded(k, Head(queue).timestamp)
                      /\ Crowded(k, Head(queue).timestamp) /\ k \notin evicted => burst' # None
    OBVIOUS
  <2>1. IInv /\ HeardType /\ RingIsRecentPast /\ Prompt /\ Forgotten
    BY DEF PromptInv, HInv
  <2>2. HProcess
    <3>1. queue \in Seq(Packet)
      BY <2>1, Typed
    <3>2. Tail(queue) # queue /\ \A p \in Packet : Tail(queue) # Append(queue, p)
      BY <3>1, TailIsNew
    <3>3. ~ \E d \in Data : Capture(d)
      <4> SUFFICES ASSUME NEW d \in Data, Capture(d) PROVE FALSE
        OBVIOUS
      <4> DEFINE p == [timestamp |-> now, data |-> d]
      <4>1. queue' = IF Len(queue) < QueueCap THEN Append(queue, p) ELSE queue
        BY DEF Capture
      <4>2. p \in Packet
        BY <2>1, Typed DEF Packet
      <4> HIDE DEF p
      <4> QED
        BY <3>2, <4>1, <4>2, Zenon
    <3>4. ~ Tick /\ ~ Cleanup
      BY <3>2 DEF Tick, Cleanup
    <3>5. ~ SkipUnparsed
      <4>1. k # NoKey
        BY FlowKeyAssumption
      <4> QED
        BY <4>1 DEF SkipUnparsed
    <3> QED
      BY <3>3, <3>4, <3>5 DEF PromptNext, PromptTick, HOther
  <2>3. PICK key \in FlowKey, f \in FlowState, pkt \in Packet :
           /\ pkt = Head(queue) /\ key = FlowKeyOf[pkt.data]
           /\ RingOK(f) \/ (f.count = 0 /\ f.head = 0)
           /\ f.count > 0 => key \in DOMAIN table /\ f = table[key]
           /\ key \in DOMAIN table => f = table[key]
           /\ burst' # None <=> BurstDetected(f, pkt)
    BY <2>1, <2>2, ProcessIs
  <2> DEFINE ts == pkt.timestamp
             a == heard[k]
             n == f.count
  <2>4. key = k /\ ts = now /\ now \in Nat /\ ts \in Nat /\ n \in 0 .. Slots /\ a \in Seq(Nat) /\ Len(a) <= Slots
    <3>1. 1 \in 1 .. Len(queue) /\ Head(queue) = queue[1]
      <4>1. queue \in Seq(Packet)
        BY <2>1, Typed
      <4> QED
        BY <4>1
    <3>2. ts = now /\ now \in Nat
      BY <2>1, <2>3, <3>1, Typed DEF Prompt
    <3> QED
      BY <2>1, <2>3, <3>2 DEF HeardType, FlowState
  <2>5. CASE n = Slots
    <3>1. k \in DOMAIN table /\ f = table[k] /\ n > 0
      BY <2>3, <2>4, <2>5, SizeAssumption
    <3>2. Len(recent[k]) = n /\ recent[k][1].timestamp = f.timestamps[OrderedSlot(f, 1)]
      BY <2>1, <2>4, <3>1, KeptIs
    <3>3. f.oldest_ts = f.timestamps[OrderedSlot(f, 1)]
      BY <2>3, <3>1 DEF RingOK
    <3>4. n <= Len(a) /\ \A i \in 1 .. n : recent[k][i].timestamp = a[i + Len(a) - n]
      BY <2>1, <3>1, <3>2 DEF RingIsRecentPast
    <3> HIDE DEF n, a, ts
    <3>5. Len(a) = Slots /\ a[1] = f.oldest_ts
      <4>1. Len(a) = n /\ 1 \in 1 .. n /\ 1 + Len(a) - n = 1
        BY <2>4, <2>5, <3>1, <3>4
      <4> QED
        BY <2>5, <3>2, <3>3, <3>4, <4>1
    <3>6. BurstDetected(f, pkt) <=> Crowded(k, pkt.timestamp)
      BY <2>5, <3>5 DEF BurstDetected, Crowded, n, a
    <3> QED
      BY <2>3, <3>6
  <2>6. CASE n # Slots
    <3>1. burst' = None
      BY <2>3, <2>6 DEF BurstDetected
    <3>2. k \notin evicted => ~ Crowded(k, ts)
      <4> SUFFICES ASSUME k \notin evicted, Len(a) = Slots PROVE ~ (Elapsed(ts, a[1]) < Window)
        BY DEF Crowded
      <4>1. KeptLen(k) = n
        BY <2>3, <2>4 DEF KeptLen, FlowState
      <4> HIDE DEF ts, n
      <4>2. 1 \in 1 .. Len(a) - KeptLen(k)
        BY <2>4, <2>6, <4>1, SizeAssumption
      <4>3. now - a[1] > Window
        BY <2>1, <4>2 DEF Forgotten
      <4>4. a[1] \in Nat
        BY <2>4, <4>2, SizeAssumption
      <4> QED
        BY <2>4, <4>3, <4>4, SizeAssumption DEF Elapsed
    <3> QED
      BY <2>3, <3>1, <3>2
  <2> QED
    BY <2>5, <2>6
<1> QED
  BY <1>1, HInvariance, PTL DEF PromptSpec, ReportsEveryBurst
=============================================================================
