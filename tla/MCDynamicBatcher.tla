--------------------------- MODULE MCDynamicBatcher ---------------------------
(* Instances of DynamicBatcher for TLC. *)
EXTENDS DynamicBatcher, TLC

CONSTANTS r1, r2, r3, a1, a2, w1, w2

\* Token limit 3: r1 has a pair over the limit in its middle, r2 fills a call with
\* one pair, r3's two pairs fit in one call.
MCWeights == [r \in Requests |-> CASE r = r1 -> <<1, 4>>
                                   [] r = r2 -> <<3>>
                                   [] r = r3 -> <<1, 1>>]
MCPairLimits == {1, 3}
MCPairLimit == {2}
Symmetry == Permutations(Workers) \cup Permutations(Admins)
===============================================================================
