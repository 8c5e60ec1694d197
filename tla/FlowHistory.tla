---------------------------- MODULE FlowHistory ----------------------------
(***************************************************************************)
(* FlowTable beside a perfect observer.  The history variable heard keeps, *)
(* for every key, the times of the last Slots packets the processor took,  *)
(* and forgets nothing; a burst that the table misses is one that heard    *)
(* shows and the table, having lost the flow, does not.  evicted has the   *)
(* flows that lost their ring to another: those may miss bursts.           *)
(*                                                                         *)
(* Packets are stamped when they enter the channel and the cleanup task    *)
(* reads the clock when it runs, so what the cleanup costs depends on how  *)
(* far the processor lags.  A prompt processor empties the channel before  *)
(* time passes; a lagging one may let packets wait.                        *)
(***************************************************************************)
EXTENDS FlowTable

VARIABLES heard, evicted

hvars == <<now, queue, table, burst, heard, evicted>>

HInit == Init /\ heard = [k \in FlowKey |-> <<>>] /\ evicted = {}

\* The times of the packets taken so far, the last Slots of them.
Heard(k, ts) == Append(IF Len(heard[k]) < Slots THEN heard[k] ELSE Tail(heard[k]), ts)

HProcess == /\ Process
            /\ evicted' = evicted \cup (DOMAIN table \ DOMAIN table')
            /\ LET m == Head(queue)
               IN  heard' = [heard EXCEPT ![FlowKeyOf[m.data]] = Heard(FlowKeyOf[m.data], m.timestamp)]

HOther == (SkipUnparsed \/ Cleanup \/ \E d \in Data : Capture(d)) /\ UNCHANGED <<heard, evicted>>

PromptTick == queue = <<>> /\ Tick /\ UNCHANGED <<heard, evicted>>
LaggingTick == Tick /\ UNCHANGED <<heard, evicted>>

PromptNext == PromptTick \/ HProcess \/ HOther
LaggingNext == LaggingTick \/ HProcess \/ HOther

PromptSpec == HInit /\ [][PromptNext]_hvars
LaggingSpec == HInit /\ [][LaggingNext]_hvars

\* A packet that has Slots predecessors in its flow, all less than Window old.
Crowded(k, ts) == Len(heard[k]) = Slots /\ Elapsed(ts, heard[k][1]) < Window

\* What the table keeps of a flow is the end of what was heard of it.
RingIsRecentPast ==
  \A k \in DOMAIN table :
    LET kept == recent[k]
        all == heard[k]
    IN  /\ Len(kept) <= Len(all)
        /\ \A i \in 1 .. Len(kept) : kept[i].timestamp = all[i + Len(all) - Len(kept)]

\* Processing reports a burst only when the perfect observer sees one and, of a flow that was
\* never evicted, whenever it does: forgetting idle flows, the restart of their rings from
\* empty, the wrap of a ring and the eviction of other flows lose no burst and invent none.
ReportsEveryBurst ==
  [][\A k \in FlowKey :
       queue # <<>> /\ queue' = Tail(queue) /\ FlowKeyOf[Head(queue).data] = k
       => LET crowded == Crowded(k, Head(queue).timestamp)
          IN  (burst' # None => crowded) /\ (crowded /\ k \notin evicted => burst' # None)]_hvars

\* The cleanup's log line, "Removed {} inactive flow(s) (inactive >60s)": a flow that the
\* cleanup removes has no packet captured within the last Window.
RemovesOnlyInactive ==
  [][\A k \in DOMAIN table \ DOMAIN table', i \in 1 .. Len(queue) :
       queue' = queue /\ FlowKeyOf[queue[i].data] = k => now - queue[i].timestamp > Window]_hvars
=============================================================================
