---------------------------- MODULE MCUsageStore ----------------------------
(* One generic token that may be used twice and expires at 3; two clients, *)
(* two concurrent calls, each goroutine calling again and again.           *)
EXTENDS UsageStore, TLC

CONSTANTS c1, c2, ip1, ip2, tok

MCCalls == {c1, c2}
MCIPs == {ip1, ip2}
MCIds == {tok}
MCLimit == [id \in MCIds |-> 2]
MCExpiry == [id \in MCIds |-> 3]

Symmetry == Permutations(MCCalls) \union Permutations(MCIPs)
=============================================================================
