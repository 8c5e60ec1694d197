---------------------------- MODULE FlowWindow ----------------------------
(***************************************************************************)
(* What src/src/flow_table.rs promises, without its ring: for each flow it *)
(* follows, the sequence of its last Slots packets.  A packet that finds   *)
(* Slots predecessors, the oldest of them less than Window ago, sets off a *)
(* burst that carries those predecessors.  Flows are forgotten when they   *)
(* are idle, or one at a time, the least recent first, to take in a new    *)
(* one when MaxFlows are followed.  FlowTable implements this.             *)
(***************************************************************************)
EXTENDS Integers, Sequences, FiniteSets, Functions

CONSTANTS FlowKey, NoKey, Data, FlowKeyOf, None, Slots, Window, MaxFlows, MaxTime

VARIABLES
  now,    \* the clock
  recent, \* for each followed flow, its last packets, oldest first
  burst   \* the report of the last step

vars == <<now, recent, burst>>

Packet == [timestamp : Nat, data : Data]

LastSeen(r, k) == r[k][Len(r[k])].timestamp

Known(k) == IF k \in DOMAIN recent THEN recent[k] ELSE <<>>

\* The sequence extended by p, without its oldest packet when it is full.
Pushed(s, p) == Append(IF Len(s) < Slots THEN s ELSE Tail(s), p)

IsBurst(s, p) == Len(s) = Slots /\ p.timestamp - s[1].timestamp < Window

\* The flows that may be followed on when a packet of k comes in.
Kept(k) ==
  IF k \in DOMAIN recent \/ Cardinality(DOMAIN recent) < MaxFlows
  THEN {DOMAIN recent}
  ELSE {DOMAIN recent \ {v} : v \in {w \in DOMAIN recent :
          \A j \in DOMAIN recent : LastSeen(recent, w) <= LastSeen(recent, j)}}

Init == now = 0 /\ recent = [k \in {} |-> None] /\ burst = None

Tick == now' = now + 1 /\ burst' = None /\ UNCHANGED recent

\* Nothing but the end of the last report.
Quiet == burst' = None /\ UNCHANGED <<now, recent>>

Observe(k, p) ==
  /\ \E kept \in Kept(k) :
       recent' = [j \in kept \cup {k} |-> IF j = k THEN Pushed(Known(k), p) ELSE recent[j]]
  /\ burst' = IF IsBurst(Known(k), p)
              THEN [key |-> k, at |-> p.timestamp, packets |-> Known(k)] ELSE None
  /\ UNCHANGED now

\* Exactly the idle flows are forgotten.
Forget ==
  /\ recent' = Restrict(recent, {k \in DOMAIN recent : now - LastSeen(recent, k) <= Window})
  /\ burst' = None /\ UNCHANGED now

ObserveAny ==
  \E d \in Data, ts \in 0 .. now :
    FlowKeyOf[d] # NoKey /\ Observe(FlowKeyOf[d], [timestamp |-> ts, data |-> d])

Next == Tick \/ Quiet \/ ObserveAny \/ Forget

Spec == Init /\ [][Next]_vars
=============================================================================
