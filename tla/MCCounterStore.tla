--------------------------- MODULE MCCounterStore ---------------------------
(* CounterStore on two goroutines that share two counters, with windows of *)
(* one second and of one second and a half.                                *)
EXTENDS CounterStore, TLC

CONSTANTS c1, c2

MCCallers == {c1, c2}
MCWindow == ("whole" :> 2) @@ ("fraction" :> 3)
MCSeries == DOMAIN MCWindow
MCMaxIncrs == ("memory" :> 4) @@ ("redis" :> 2)
MCHorizon == ("memory" :> 8) @@ ("redis" :> 4)

\* Bound: a behaviour uses one of the two counters. They share nothing but the
\* sweep.
OneSeries ==
  \E s \in Series :
    /\ \A t \in Series \ {s} : issued[t] = 0
    /\ \A c \in Callers : op[c].pc # "idle" => op[c].series = s

Symmetry == Permutations(MCCallers)
=============================================================================
