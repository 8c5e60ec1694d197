---------------------------- MODULE MCFlowTable ----------------------------
(* Small instances of FlowTable for TLC. *)
EXTENDS FlowTable, TLC

CONSTANTS a, b, c, arp  \* model values: one frame content per flow and one that has no key

\* The frames of three flows and one that parse_flow_key rejects.
MCFlowKeyOf == [d \in {a, b, c} |-> d] @@ (arp :> NoKey)
MCData == {a, b, c, arp}
MCFlowKey == {a, b, c}
=============================================================================
