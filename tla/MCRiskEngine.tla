---------------------------- MODULE MCRiskEngine ----------------------------
(* RiskEngine on two goroutines, one client, one counter with limit 1, and *)
(* rule sets that use every target, share chains, or must be refused.      *)
EXTENDS RiskEngine, TLC

CONSTANTS r1, r2, none

MCRequests == {r1, r2}
MCKinds == {"missing", "valid"}
MCNames == {"INPUT", "CHECK", "DENY", "NOWHERE"}
MCTexts == {"", "busy", "risk", "first", "second", "chain_depth_exceeded"}
MCWhen == "hits" :> MCKinds
MCThreshold == "hits" :> 1
MCWindowOf == "hits" :> 1
MCMaxIncrs == [d \in Drivers |-> MaxArrivals]
MCHorizon == [d \in Drivers |-> MaxTime]

On(kinds, target) ==
  [kinds |-> kinds, counter |-> NoCounter, target |-> target, chain |-> "",
   reason |-> "", mark |-> ""]
Busy(target) ==
  [On(MCKinds, target) EXCEPT !.counter = [name |-> "hits", op |-> ">=", value |-> 1]]
Calm(target) == [Busy(target) EXCEPT !.counter.op = "<"]
Jump(kinds, to, why) == [On(kinds, "JUMP") EXCEPT !.chain = to, !.reason = why]
Chain(rules, target) == [rules |-> rules, policy |-> [target |-> target, reason |-> ""]]

\* The shape of configs/config.example.yaml: a request without a token is
\* looked at in a chain of its own, where a busy client is turned away and
\* an idle one let through; both rules test the same counter.
Limits ==
  ("INPUT" :> Chain(<<[Busy("MARK") EXCEPT !.mark = "busy"],
                      Jump({"missing"}, "CHECK", "risk")>>, "ACCEPT")) @@
  ("CHECK" :> Chain(<<On(MCKinds, "LOG"), Busy("TOO_MANY"), Calm("ACCEPT")>>, "REQUIRE_POW"))

\* Two chains that jump to the same third one, and a RETURN.
Shared ==
  ("INPUT" :> Chain(<<Jump({"missing"}, "CHECK", "first"), Jump({"valid"}, "DENY", "second")>>,
                    "ACCEPT")) @@
  ("CHECK" :> Chain(<<Busy("RETURN"), Jump(MCKinds, "DENY", "")>>, "REQUIRE_POW")) @@
  ("DENY" :> Chain(<<>>, "REJECT"))

Circle ==
  ("INPUT" :> Chain(<<Jump({"missing"}, "CHECK", "")>>, "ACCEPT")) @@
  ("CHECK" :> Chain(<<Jump({"missing"}, "DENY", "")>>, "ACCEPT")) @@
  ("DENY" :> Chain(<<Jump({"missing"}, "CHECK", "")>>, "ACCEPT"))

NoInput == "CHECK" :> Chain(<<>>, "ACCEPT")
Chainless == "INPUT" :> Chain(<<On(MCKinds, "JUMP")>>, "ACCEPT")
LogPolicy == "INPUT" :> Chain(<<>>, "LOG")
Dangling == "INPUT" :> Chain(<<Jump({"valid"}, "NOWHERE", "")>>, "ACCEPT")

MCChainMaps == {Limits, Shared, Circle, NoInput, LogPolicy, Chainless, Dangling}

Symmetry == Permutations(MCRequests)
=============================================================================
