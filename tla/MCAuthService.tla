---------------------------- MODULE MCAuthService ----------------------------
(* Small instances of AuthService: two request goroutines, one client with *)
(* two spellings of its address, another client, and requests without      *)
(* X-Real-IP.                                                              *)
EXTENDS AuthService, TLC

CONSTANTS r1, r2, ipA, ipB, gen, forged, fixed, open

MCRequests == {r1, r2}
MCIPs == {ipA, ipB}
MCAddrs == {"a", "a-mapped", "b", ""}
MCCanonicalIP == ("a" :> ipA) @@ ("a-mapped" :> ipA) @@ ("b" :> ipB)

Token(mode, ip, issued, defect) ==
  [mode |-> mode, ip |-> ip, issued |-> issued, defect |-> defect]

\* A generic token, a generic token with a wrong sign, an ip_bound token of
\* client A that expires early, and an ip_bound token without an address.
MCTokenOf ==
  (gen :> Token("generic", "", 1, "none")) @@ (forged :> Token("generic", "", 1, "sign"))
  @@ (fixed :> Token("ip_bound", "a", 0, "none")) @@ (open :> Token("ip_bound", "", 1, "none"))
MCTokens == DOMAIN MCTokenOf
MCExpiry == [t \in MCTokens |-> IF t = fixed THEN 1 ELSE 2]
MCLimit == [t \in MCTokens |-> 1]

Get(addr, token) ==
  [uri |-> TRUE, protected |-> TRUE, head |-> FALSE, addr |-> addr, token |-> token]

ServiceInputs ==
  {Get("a", gen), [Get("a", gen) EXCEPT !.protected = FALSE],
   [Get("b", gen) EXCEPT !.head = TRUE], [Get("a", gen) EXCEPT !.uri = FALSE],
   Get("a", forged), Get("a-mapped", fixed), Get("", fixed), Get("a", NoToken)}

BindingInputs ==
  {Get("a", open), Get("a-mapped", open), Get("b", open)}

\* Two clients with one empty-ip token: each request reads and then records
\* the binding, the longest way through the store.
LiveInputs == {Get("a", open), Get("b", open)}

\* Everything on: risk control with the pending limiter, both modes.
Full == [bypassAll |-> FALSE, dryRun |-> FALSE, powEnabled |-> TRUE, riskControl |-> TRUE,
         pending |-> TRUE, modes |-> Modes, countHead |-> FALSE]

NoPending == [Full EXCEPT !.pending = FALSE]

FullConfig == {Full}

NoPendingConfig == {NoPending}

\* Every switch of the configuration, off and on.
ServiceConfigs ==
  {Full, [Full EXCEPT !.bypassAll = TRUE], [NoPending EXCEPT !.powEnabled = FALSE],
   [Full EXCEPT !.riskControl = FALSE, !.dryRun = TRUE, !.countHead = TRUE],
   [Full EXCEPT !.powEnabled = FALSE, !.riskControl = FALSE],
   [Full EXCEPT !.riskControl = FALSE, !.modes = {"generic"}]}

Symmetry == Permutations(MCRequests)
=============================================================================
