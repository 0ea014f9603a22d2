-------------------------- MODULE MCPendingBlocker --------------------------
(* Small instances of PendingBlocker: one IPv4 address in two spellings    *)
(* (plain and IPv4-mapped), one other address, one malformed header value. *)
EXTENDS PendingBlocker, TLC

CONSTANTS ipA, ipB, r1, r2, r3

MCIPs == {ipA, ipB}
MCRequests == {r1, r2, r3}
MCAddrs == {"a", "a-mapped", "b", "junk"}
MCCanonicalIP == ("a" :> ipA) @@ ("a-mapped" :> ipA) @@ ("b" :> ipB)
=============================================================================
