--------------------------- MODULE MCFlowHistory ---------------------------
(* Small instances of FlowHistory for TLC. *)
EXTENDS FlowHistory, TLC

CONSTANTS a, b, c, arp  \* model values: one frame content per flow and one that has no key

MCTwoKeys == {a, b}
MCTwoData == {a, b, arp}
MCTwoKeyOf == (a :> a) @@ (b :> b) @@ (arp :> NoKey)

MCThreeKeys == {a, b, c}
MCThreeData == {a, b, c, arp}
MCThreeKeyOf == (a :> a) @@ (b :> b) @@ (c :> c) @@ (arp :> NoKey)
MCFlowSymmetry == Permutations({a, b, c})
=============================================================================
