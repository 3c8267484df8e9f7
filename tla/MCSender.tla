------------------------------ MODULE MCSender ------------------------------
(***************************************************************************)
(* Two senders, two keys, two prefixes, budgets of two and three, and a    *)
(* sequence space of four: the ranges of the senders can be equal, overlap *)
(* in part, touch, end at the very end of the space, or not fit it.        *)
(***************************************************************************)
EXTENDS Sender, TLC

CONSTANTS a, b, key1, key2, p1, p2

MCIds == {a, b}
MCKeys == {key1, key2}
MCPrefixes == {p1, p2}
MCStarts == {0, 2}
MCLimits == {2, 3}
MCOneLimit == {2}
MCBatchSizes == {2, 3}
Symmetry == Permutations(MCIds) \cup Permutations(MCPrefixes) \cup Permutations(MCKeys)
=============================================================================
