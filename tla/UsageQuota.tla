----------------------------- MODULE UsageQuota -----------------------------
(***************************************************************************)
(* What a storage.UsageStore promises its caller (internal/storage/        *)
(* store.go): a sign id is granted at most Limit[id] charged uses, all of  *)
(* them while the token can still be in flight, and only a store that      *)
(* keeps its records in process memory may forget them with the process.   *)
(***************************************************************************)
EXTENDS Naturals

CONSTANTS
  Ids,      \* sign ids
  Limit,    \* max_uses per id
  Expiry,   \* expires_at per id
  MaxLag,   \* longest time between a token's validation and its charge
  MaxTime   \* bound: the clock stops here

VARIABLES
  granted,  \* charged uses answered with Allowed, per id
  clock,
  durable   \* do records survive the process?  Fixed by the driver

quotaVars == <<granted, clock, durable>>

Init ==
  /\ granted = [id \in Ids |-> 0]
  /\ clock = 1
  /\ durable \in BOOLEAN

Grant(id) ==
  /\ granted[id] < Limit[id]
  /\ clock < Expiry[id] + MaxLag
  /\ granted' = [granted EXCEPT ![id] = @ + 1]
  /\ UNCHANGED <<clock, durable>>

Forget ==
  /\ ~durable
  /\ granted' = [id \in Ids |-> 0]
  /\ UNCHANGED <<clock, durable>>

Tick ==
  /\ clock < MaxTime
  /\ clock' = clock + 1
  /\ UNCHANGED <<granted, durable>>

Next == (\E id \in Ids : Grant(id)) \/ Forget \/ Tick

Spec == Init /\ [][Next]_quotaVars
=============================================================================
