------------------------------ MODULE PortFifo ------------------------------
(***************************************************************************)
(* What the capture ring and the locality buffer amount to for the         *)
(* detectors: a lossy channel that may let packets of one port_key         *)
(* overtake those of another, but never those of its own, so the packets   *)
(* of a flow come in the order the kernel received them, each at most      *)
(* once.  CaptureRing implements this.                                     *)
(***************************************************************************)
EXTENDS Integers, Sequences

CONSTANTS Ports

VARIABLES
  arrived, \* number of packets so far; they are numbered as they come
  waiting, \* packets received and not yet handed on
  taken    \* packets handed to the detectors

vars == <<arrived, waiting, taken>>

Init == arrived = 0 /\ waiting = {} /\ taken = <<>>

Arrive(port) ==
  /\ arrived' = arrived + 1
  /\ waiting' = waiting \cup {[id |-> arrived', port |-> port]}
  /\ UNCHANGED taken

\* Only the oldest packet of a port may be handed on.
Take(p) ==
  /\ \A q \in waiting : q.port = p.port => p.id <= q.id
  /\ waiting' = waiting \ {p} /\ taken' = Append(taken, p)
  /\ UNCHANGED arrived

Lose == waiting' \subseteq waiting /\ UNCHANGED <<arrived, taken>>

Next == (\E port \in Ports : Arrive(port)) \/ (\E p \in waiting : Take(p)) \/ Lose

Spec == Init /\ [][Next]_vars
=============================================================================
