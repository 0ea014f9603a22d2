-------------------------- MODULE AuthService_proofs --------------------------
(***************************************************************************)
(* AuthService's safety for every set of requests, tokens, addresses and   *)
(* configurations, every driver, limit, expiry and rule set.  Each step of *)
(* Verify is a step of the limiter and of the store (ComponentSteps), so   *)
(* their invariants, proved in their own modules, hold here; what is added *)
(* ties a request to its slot, its token and its call (Sound), and what    *)
(* was honoured to what the store granted (Accounts).                      *)
(***************************************************************************)
EXTENDS AuthService, FiniteSetTheorems, TLAPS

Limiter == INSTANCE PendingBlocker_proofs WITH closed <- pendingClosed, Horizon <- MaxTime
Store == INSTANCE UsageStore_proofs
           WITH closed <- storeClosed, Calls <- Requests, Ids <- Tokens, IPs <- Addrs

\* The types of what Verify itself keeps.
ServiceOK ==
  /\ cfg \in Configs
  /\ phase \in {"serving", "draining", "pending_closed", "closed"}
  /\ req \in [Requests -> Request \union {Idle}]
  /\ honoured \in [Tokens -> Nat]
  /\ served \in [Tokens -> SUBSET [addr : Addrs, late : BOOLEAN]]

\* The reasons of answers that were given before Enter, or by it.
Unentered == {"ip_pending_blocked", "bypass_all", "missing_headers"}

\* A request holds a slot exactly while Verify works on it and it is limited.
SlotHeld(r) ==
  LET q == req[r]
  IN  /\ q.pc = "idle" => verdict[r] = "none"
      /\ q.pc \notin {"idle", "answered"} => q.res.reason \notin Unentered
      /\ q.pc # "idle" =>
           /\ verdict[r] = "admitted" <=> /\ UsesPending(q.in)
                                          /\ q.res.reason \notin Unentered
                                          /\ q.in.addr \in DOMAIN CanonicalIP
           /\ verdict[r] = "admitted" => from[r] = CanonicalIP[q.in.addr]

\* The token behind the status "valid" passed every test but the clock's.
TokenSound(r) ==
  LET q == req[r]
      p == TokenIn(q)
  IN  q.pc # "idle" /\ q.status = "valid" =>
        /\ cfg.powEnabled
        /\ q.in.token \in Tokens
        /\ p.defect = "none" /\ p.mode \in cfg.modes
        /\ p.mode = "ip_bound" => /\ q.in.addr # ""
                                  /\ p.ip # "" => sameIP(p.ip, q.in.addr)

Consuming == {"check", "body", "getCheck", "getBody"} \union (Usage!Outcomes \ {"found", "not_found"})

\* Where the request stands in the store.
CallFits(r) ==
  LET q == req[r]
      c == call[r]
  IN  /\ q.pc \in {"idle", "entered", "answered"} => c.pc = "idle"
      /\ q.pc \in {"risk", "fallback"} => c.pc = IF q.status = "valid" THEN "validated" ELSE "idle"
      /\ q.pc = "finalize" => c.pc = "validated"
      /\ q.pc = "charging" => /\ c.pc \in Consuming /\ c.op = "Consume"
                              /\ c.skip = skipConsume(q.in) /\ TokenIn(q).mode = "generic"
      /\ q.pc \in {"binding", "unbound", "bound", "mismatch", "recording"} => NeedsBinding(q)
      /\ q.pc = "binding" => c.pc \in {"getCheck", "getBody", "closed", "backend_error"} /\ c.op = "Get"
      /\ q.pc = "unbound" => c.pc = "not_found"
      /\ q.pc \in {"bound", "mismatch"} => c.pc = "found"
      /\ q.pc = "recording" => c.pc \in Consuming /\ c.op = "Consume" /\ c.skip
      /\ c.pc = "validated" => c.op = "Get"
      /\ c.pc # "idle" => q.status = "valid" /\ c.id = q.in.token /\ c.ip = q.in.addr

Sound(r) == SlotHeld(r) /\ TokenSound(r) /\ CallFits(r)

\* The calls that were granted a use of t and have not been answered yet.
Paid(t) == {r \in Requests : /\ call[r].pc = "allowed" /\ call[r].op = "Consume"
                             /\ ~call[r].skip /\ call[r].id = t}

Accounts == \A t \in Tokens : honoured[t] + Cardinality(Paid(t)) <= granted[t]

AuthInv ==
  /\ ServiceOK
  /\ Limiter!BlockerInv /\ Store!StoreInv
  /\ \A r \in Requests : Sound(r)
  /\ Accounts

(***************************************************************************)
(* The constants satisfy what the limiter and the store assume of theirs,  *)
(* and the proofs' instances of both modules are the service's.            *)
(***************************************************************************)
LEMMA LimiterAssumes ==
  /\ Limiter!CanonicalAssumption /\ Limiter!LimitAssumption /\ Limiter!TimeAssumption
  /\ Limiter!NoIPAssumption /\ Limiter!RequestsFinite
BY LimiterAssumption, StoreAssumption
   DEF Limiter!CanonicalAssumption, Limiter!LimitAssumption, Limiter!TimeAssumption,
       Limiter!NoIPAssumption, Limiter!RequestsFinite, Limiter!IsFiniteSet, IsFiniteSet

LEMMA StoreAssumes == Store!DriverAssumption /\ Store!QuotaAssumption /\ Store!LagAssumption
BY StoreAssumption DEF Store!DriverAssumption, Store!QuotaAssumption, Store!LagAssumption

LEMMA SameLimiter ==
  /\ Pending!Init <=> Limiter!Init
  /\ Pending!blockerVars = Limiter!blockerVars
  /\ Pending!Next <=> Limiter!Next
<1>1. ASSUME NEW r, NEW a PROVE Pending!Enter(r, a) <=> Limiter!Enter(r, a)
  BY Zenon DEF Pending!Arrive, Limiter!Arrive, Pending!Answer, Limiter!Answer, Pending!swept,
               Limiter!swept, Pending!sweepTime, Limiter!sweepTime, Pending!sweepDue,
               Limiter!sweepDue, Pending!sweepAll, Limiter!sweepAll, Pending!Dead,
               Limiter!Dead, Pending!expireEntry, Limiter!expireEntry, Pending!blockedAt,
               Limiter!blockedAt, Pending!current, Limiter!current, Pending!Lookup,
               Limiter!Lookup, Pending!zeroEntry, Limiter!zeroEntry, Pending!Put, Limiter!Put,
               Pending!maxPerIP, Limiter!maxPerIP, Pending!blockTTL, Limiter!blockTTL,
               Pending!EnterUnlimited, Limiter!EnterUnlimited, Pending!EnterClosed,
               Limiter!EnterClosed, Pending!EnterBlocked, Limiter!EnterBlocked,
               Pending!EnterOverflow, Limiter!EnterOverflow, Pending!EnterAdmitted,
               Limiter!EnterAdmitted, Pending!Enter, Limiter!Enter
<1>2. ASSUME NEW r PROVE (Pending!release(r) <=> Limiter!release(r)) /\ (Pending!Leave(r) <=> Limiter!Leave(r))
  BY Zenon DEF Pending!release, Limiter!release, Pending!Leave, Limiter!Leave,
               Pending!released, Limiter!released, Pending!Delete, Limiter!Delete,
               Pending!Answer, Limiter!Answer, Pending!expireEntry, Limiter!expireEntry,
               Pending!blockedAt, Limiter!blockedAt, Pending!Lookup, Limiter!Lookup,
               Pending!zeroEntry, Limiter!zeroEntry, Pending!Put, Limiter!Put, Pending!Dead,
               Limiter!Dead
<1>3. /\ Pending!Close <=> Limiter!Close
      /\ Pending!Tick <=> Limiter!Tick
      /\ Pending!Terminated <=> Limiter!Terminated
      /\ Pending!blockerVars = Limiter!blockerVars
      /\ Pending!Init <=> Limiter!Init
  BY Zenon DEF Pending!Close, Limiter!Close, Pending!Tick, Limiter!Tick, Pending!Terminated,
               Limiter!Terminated, Pending!blockerVars, Limiter!blockerVars, Pending!zeroEntry,
               Limiter!zeroEntry, Pending!Init, Limiter!Init
<1>. QED
  BY <1>1, <1>2, <1>3, Zenon DEF Pending!Next, Limiter!Next

LEMMA SameStore ==
  /\ Usage!Init <=> Store!Init
  /\ Usage!storeVars = Store!storeVars
  /\ Usage!Next <=> Store!Next
<1>1. ASSUME NEW c PROVE Usage!Caller(c) <=> Store!Caller(c)
  BY Zenon DEF Usage!Caller, Store!Caller, Usage!Validate, Store!Validate, Usage!CallConsume,
               Store!CallConsume, Usage!CallGet, Store!CallGet, Usage!Return, Store!Return,
               Usage!Goto, Store!Goto, Usage!Outcomes, Store!Outcomes, Usage!Idle, Store!Idle
<1>2. ASSUME NEW c PROVE Usage!Serve(c) <=> Store!Serve(c)
  BY Zenon DEF Usage!Serve, Store!Serve, Usage!ConsumeCheck, Store!ConsumeCheck,
               Usage!GetCheck, Store!GetCheck, Usage!MemoryPanic, Store!MemoryPanic,
               Usage!MemoryConsume, Store!MemoryConsume, Usage!BackendSpend,
               Store!BackendSpend, Usage!BackendLostReply, Store!BackendLostReply,
               Usage!BackendFull, Store!BackendFull, Usage!BackendSkip, Store!BackendSkip,
               Usage!BackendError, Store!BackendError, Usage!GetBody, Store!GetBody,
               Usage!Goto, Store!Goto, Usage!Put, Store!Put, Usage!Increment, Store!Increment,
               Usage!memoryRecord, Store!memoryRecord, Usage!usesOf, Store!usesOf,
               Usage!Spendable, Store!Spendable, Usage!spentRecord, Store!spentRecord,
               Usage!ttlOf, Store!ttlOf, Usage!AtBackend, Store!AtBackend, Usage!Durable,
               Store!Durable, Usage!getOutcome, Store!getOutcome
<1>3. ASSUME NEW id PROVE Usage!RedisEvict(id) <=> Store!RedisEvict(id)
  BY Zenon DEF Usage!RedisEvict, Store!RedisEvict
<1>4. /\ Usage!CleanupStart <=> Store!CleanupStart
      /\ Usage!CleanupExpired <=> Store!CleanupExpired
      /\ Usage!Close <=> Store!Close
      /\ Usage!Restart <=> Store!Restart
      /\ Usage!Tick <=> Store!Tick
      /\ Usage!storeVars = Store!storeVars
      /\ Usage!Init <=> Store!Init
  BY Zenon DEF Usage!CleanupStart, Store!CleanupStart, Usage!CleanupExpired,
               Store!CleanupExpired, Usage!Close, Store!Close, Usage!Restart, Store!Restart,
               Usage!Tick, Store!Tick, Usage!storeVars, Store!storeVars, Usage!Init,
               Store!Init, Usage!Durable, Store!Durable, Usage!NoRecords, Store!NoRecords,
               Usage!NoCleanup, Store!NoCleanup, Usage!Idle, Store!Idle
<1>. QED
  BY <1>1, <1>2, <1>3, <1>4, Zenon DEF Usage!Next, Store!Next

(***************************************************************************)
(* Every step of the service is one of the limiter's and one of the        *)
(* store's, or leaves them alone.                                          *)
(***************************************************************************)
\* A goroutine that is not idle serves a request that could arrive.
LEMMA Serving ==
  ASSUME ServiceOK, NEW r \in Requests, req[r].pc # "idle"
  PROVE  /\ req[r] \in Request
         /\ req[r].in \in Inputs /\ req[r].in \in Input
         /\ req[r].in.addr \in Addrs /\ req[r].in.token \in Tokens \union {NoToken}
<1>1. req[r] \in Request
  BY DEF ServiceOK, Idle
<1>2. req[r].in \in Inputs
  BY <1>1 DEF Request
<1>3. req[r].in \in Input
  BY <1>2, InputAssumption
<1>. QED
  BY <1>1, <1>2, <1>3 DEF Input

\* What a goroutine does to the store.
StoreWork(r) == Usage!Caller(r) \/ Usage!Serve(r) \/ UNCHANGED Usage!storeVars

\* The store's own actions leave the clock alone.
LEMMA StoreKeepsClock == ASSUME NEW r, StoreWork(r) PROVE clock' = clock /\ driver' = driver
BY DEF StoreWork, Usage!Caller, Usage!Serve, Usage!storeVars, Usage!Validate, Usage!CallConsume,
       Usage!CallGet, Usage!Return, Usage!ConsumeCheck, Usage!GetCheck, Usage!MemoryPanic,
       Usage!MemoryConsume, Usage!BackendSpend, Usage!BackendLostReply, Usage!BackendFull,
       Usage!BackendSkip, Usage!BackendError, Usage!GetBody

\* Every step of Verify between Enter and its return.
LEMMA ServeStep ==
  ASSUME ServiceOK, NEW r \in Requests, Serve(r), ~Finish(r)
  PROVE  StoreWork(r) /\ UNCHANGED pendingVars
<1> DEFINE q == req[r]
<1>1. ASSUME req[r].pc # "idle" PROVE q.in.addr \in Addrs /\ q.in.token \in Tokens \union {NoToken}
  BY <1>1, Serving
<1>2. ASSUME UNCHANGED <<clock, storeVars>> PROVE StoreWork(r)
  BY <1>2 DEF StoreWork, storeVars, Usage!storeVars
<1>3. ASSUME Usage!Return(r) PROVE StoreWork(r)
  BY <1>3 DEF StoreWork, Usage!Caller
<1>4. ASSUME Drop(r) PROVE StoreWork(r)
  BY <1>2, <1>3, <1>4 DEF Drop
<1>5. ASSUME NEW fresh \in BOOLEAN, NEW skip \in BOOLEAN, Usage!CallConsume(r, fresh, skip) PROVE StoreWork(r)
  BY <1>5 DEF StoreWork, Usage!Caller
<1>6. \A in : skipConsume(in) \in BOOLEAN
  BY DEF skipConsume
<1>7. ASSUME Usage!CallGet(r) PROVE StoreWork(r)
  BY <1>7 DEF StoreWork, Usage!Caller
<1>8. ASSUME NEW t \in Tokens, NEW a \in Addrs, Usage!Validate(r, t, a) PROVE StoreWork(r)
  BY <1>8 DEF StoreWork, Usage!Caller
<1>9. CASE Classify(r)
  <2>1. q.pc = "entered" /\ UNCHANGED pendingVars
    BY <1>9 DEF Classify
  <2>2. q.in.addr \in Addrs /\ q.in.token \in Tokens \union {NoToken}
    BY <1>1, <2>1
  <2>3. \/ UNCHANGED <<clock, storeVars>>
        \/ q.in.token # NoToken /\ Usage!Validate(r, q.in.token, q.in.addr)
    BY <1>9 DEF Classify, classifyPoW
  <2>. QED
    BY <1>2, <1>8, <2>1, <2>2, <2>3
<1>10. CASE AnswerRiskDeny(r) \/ AnswerWithoutPow(r) \/ AnswerPowOnlyDeny(r)
  BY <1>4, <1>10 DEF AnswerRiskDeny, AnswerWithoutPow, AnswerPowOnlyDeny
<1>11. CASE EvaluateFailed(r) \/ AnswerRequirePowDeny(r) \/ AnswerAcceptUncharged(r)
  BY <1>2, <1>11 DEF EvaluateFailed, AnswerRequirePowDeny, AnswerAcceptUncharged
<1>12. CASE AllowByRisk(r)
  <2>1. /\ UNCHANGED pendingVars
        /\ \/ \E skip \in BOOLEAN : Usage!CallConsume(r, TRUE, skip)
           \/ Usage!CallGet(r) \/ Usage!Return(r)
    BY <1>6, <1>12 DEF AllowByRisk
  <2>. QED
    BY <1>3, <1>5, <1>7, <2>1
<1>13. CASE Revalidate(r)
  <2>1. /\ q.pc = "fallback" /\ UNCHANGED pendingVars /\ q.in.token # NoToken
        /\ Usage!Validate(r, q.in.token, q.in.addr)
    BY <1>13 DEF Revalidate, PowOnly, powOnlyReason
  <2>. QED
    BY <1>1, <1>8, <2>1
<1>14. CASE finalizeByMode(r)
  <2>1. /\ UNCHANGED pendingVars
        /\ \/ \E skip \in BOOLEAN : Usage!CallConsume(r, FALSE, skip)
           \/ Usage!CallGet(r) \/ Usage!Return(r)
    BY <1>6, <1>14 DEF finalizeByMode
  <2>. QED
    BY <1>3, <1>5, <1>7, <2>1
<1>15. CASE StoreStep(r)
  BY <1>15 DEF StoreStep, StoreWork, Usage!Serve
<1>16. CASE AnswerCharged(r) \/ AnswerBinding(r)
  BY <1>3, <1>16 DEF AnswerCharged, AnswerBinding
<1>17. CASE ReadBinding(r)
  BY <1>17 DEF ReadBinding, StoreWork, Usage!Serve
<1>18. CASE RecordBinding(r)
  BY <1>5, <1>18 DEF RecordBinding
<1>. QED
  BY <1>9, <1>10, <1>11, <1>12, <1>13, <1>14, <1>15, <1>16, <1>17, <1>18 DEF Serve

\* A request that arrives changes nothing in the store, and the limiter by
\* Enter alone.
LEMMA ArriveStep ==
  ASSUME NEW r \in Requests, NEW in \in Inputs, Arrive(r, in)
  PROVE  /\ UNCHANGED <<clock, storeVars>>
         /\ Pending!Enter(r, in.addr) \/ UNCHANGED pendingVars
<1>1. Pending!Enter(r, in.addr) => clock' = clock
  BY DEF Pending!Enter, Pending!EnterUnlimited, Pending!EnterClosed, Pending!EnterBlocked,
         Pending!EnterOverflow, Pending!EnterAdmitted
<1>. QED
  BY <1>1 DEF Arrive, AnswerEarly, AnswerPendingBlocked, Enter

LEMMA ComponentSteps ==
  ASSUME ServiceOK, [Next]_vars
  PROVE  [Pending!Next]_(Pending!blockerVars) /\ [Usage!Next]_(Usage!storeVars)
<1> DEFINE PN == [Pending!Next]_(Pending!blockerVars)
           UN == [Usage!Next]_(Usage!storeVars)
<1>1. ASSUME UNCHANGED <<clock, pendingVars>> PROVE PN
  BY <1>1 DEF pendingVars, Pending!blockerVars
<1>2. ASSUME UNCHANGED <<clock, storeVars>> PROVE UN
  BY <1>2 DEF storeVars, Usage!storeVars
<1>3. ASSUME NEW r \in Requests, StoreWork(r) PROVE UN
  BY <1>3 DEF StoreWork, Usage!Next
<1>4. ASSUME NEW r \in Requests, NEW in \in Inputs, Arrive(r, in) PROVE PN /\ UN
  <2>1. in.addr \in Addrs
    BY InputAssumption DEF Input
  <2>. QED
    BY <1>1, <1>2, <1>4, <2>1, ArriveStep DEF Pending!Next
<1>5. ASSUME NEW r \in Requests, Serve(r) PROVE PN /\ UN
  <2>1. CASE ~Finish(r)
    BY <1>1, <1>3, <1>5, <2>1, ServeStep, StoreKeepsClock
  <2>2. CASE Finish(r)
    <3>1. Pending!release(r) \/ Pending!Leave(r) => clock' = clock
      BY DEF Pending!release, Pending!Leave
    <3>. QED
      BY <1>1, <1>2, <2>2, <3>1 DEF Finish, Pending!Next
  <2>. QED
    BY <2>1, <2>2
<1>6. CASE Maintenance
  <2>1. UNCHANGED pendingVars /\ (Usage!CleanupStart \/ Usage!CleanupExpired \/ \E t \in Tokens : Usage!RedisEvict(t))
    BY <1>6 DEF Maintenance
  <2>2. clock' = clock
    BY <2>1 DEF Usage!CleanupStart, Usage!CleanupExpired, Usage!RedisEvict
  <2>. QED
    BY <1>1, <2>1, <2>2 DEF Usage!Next
<1>7. CASE Shutdown
  <2>1. Pending!Close \/ Usage!Close => clock' = clock
    BY DEF Pending!Close, Usage!Close
  <2>. QED
    BY <1>1, <1>2, <1>7, <2>1 DEF Shutdown, Pending!Next, Usage!Next
<1>8. CASE Tick
  BY <1>8 DEF Tick, Pending!Next, Usage!Next
<1>9. CASE Terminated \/ UNCHANGED vars
  BY <1>1, <1>2, <1>9 DEF Terminated, vars
<1>. QED
  BY <1>4, <1>5, <1>6, <1>7, <1>8, <1>9 DEF Next

(***************************************************************************)
(* What the steps of one goroutine do to its request and its call.         *)
(***************************************************************************)
Results == [allowed : BOOLEAN, reason : Reasons]

LEMMA ResultTypes ==
  ASSUME NEW reason \in Reasons
  PROVE  /\ allow(reason) \in Results /\ deny(reason) \in Results
         /\ allow(reason).reason = reason /\ deny(reason).reason = reason
         /\ maybeDryRun(deny(reason)) \in Results
         /\ maybeDryRun(deny(reason)).reason \in {reason, "dry_run_allow"}
<1>1. \A x \in Reasons : /\ allow(x) \in Results /\ deny(x) \in Results
                         /\ allow(x).reason = x /\ deny(x).reason = x
  BY DEF allow, deny, Results
<1>2. maybeDryRun(deny(reason)) \in {deny(reason), allow("dry_run_allow")}
  BY DEF maybeDryRun
<1>3. "dry_run_allow" \in Reasons
  BY DEF Reasons
<1>. QED
  BY <1>1, <1>2, <1>3

\* The tests of a token, and what passing them means.
LEMMA TokenTests ==
  ASSUME NEW t \in Tokens, NEW now
  PROVE  /\ validateTokenForMode(t, now) \in {"", "mode_disabled", "invalid", "expired"}
         /\ validateTokenForMode(t, now) = "" /\ TokenOf[t].defect # "encoding" =>
              TokenOf[t].defect = "none" /\ TokenOf[t].mode \in cfg.modes
<1>1. TokenOf[t].defect \in Defects
  BY TokenAssumption DEF TokenRecord
<1>. QED
  BY <1>1 DEF validateTokenForMode, Defects

LEMMA Classified ==
  ASSUME NEW in \in Input, NEW now
  PROVE  /\ classifyPoW(in, now) \in Statuses
         /\ classifyPoW(in, now) = "valid" =>
              /\ in.token \in Tokens
              /\ TokenOf[in.token].defect = "none" /\ TokenOf[in.token].mode \in cfg.modes
              /\ TokenOf[in.token].mode = "ip_bound" =>
                   /\ in.addr # ""
                   /\ TokenOf[in.token].ip # "" => sameIP(TokenOf[in.token].ip, in.addr)
<1>1. CASE in.token = NoToken
  BY <1>1 DEF classifyPoW, Statuses
<1>2. CASE in.token \in Tokens
  <2>1. NoToken # in.token
    BY <1>2, TokenAssumption
  <2>2. /\ validateTokenForMode(in.token, now) \in {"", "mode_disabled", "invalid", "expired"}
        /\ validateTokenForMode(in.token, now) = "" /\ TokenOf[in.token].defect # "encoding" =>
              TokenOf[in.token].defect = "none" /\ TokenOf[in.token].mode \in cfg.modes
    BY <1>2, TokenTests
  <2>3. TokenOf[in.token].mode \in Modes
    BY <1>2, TokenAssumption DEF TokenRecord
  <2>. QED
    BY <1>2, <2>1, <2>2, <2>3 DEF classifyPoW, Statuses, Modes
<1>. QED
  BY <1>1, <1>2 DEF Input

LEMMA PowOnlyTests ==
  ASSUME NEW in \in Input, NEW now
  PROVE  /\ powOnlyReason(in, now) \in {"", "missing_token_or_sign", "mode_disabled", "invalid", "expired"}
         /\ powOnlyReason(in, now) = "" /\ ipBoundReason(in) = "" =>
              /\ in.token \in Tokens
              /\ TokenOf[in.token].defect = "none" /\ TokenOf[in.token].mode \in cfg.modes
              /\ TokenOf[in.token].mode = "ip_bound" =>
                   /\ in.addr # ""
                   /\ TokenOf[in.token].ip # "" => sameIP(TokenOf[in.token].ip, in.addr)
<1>1. CASE in.token = NoToken
  BY <1>1 DEF powOnlyReason
<1>2. CASE in.token \in Tokens
  <2>1. NoToken # in.token
    BY <1>2, TokenAssumption
  <2>2. /\ validateTokenForMode(in.token, now) \in {"", "mode_disabled", "invalid", "expired"}
        /\ validateTokenForMode(in.token, now) = "" /\ TokenOf[in.token].defect # "encoding" =>
              TokenOf[in.token].defect = "none" /\ TokenOf[in.token].mode \in cfg.modes
    BY <1>2, TokenTests
  <2>. QED
    BY <1>2, <2>1, <2>2 DEF powOnlyReason, ipBoundReason
<1>. QED
  BY <1>1, <1>2 DEF Input

\* Advance and Respond keep the types, and the other requests.
LEMMA Advanced ==
  ASSUME ServiceOK, NEW r \in Requests, NEW q \in Request, Advance(r, q)
  PROVE  /\ ServiceOK' /\ req'[r] = q /\ cfg' = cfg /\ phase' = phase
         /\ honoured' = honoured /\ served' = served
         /\ \A s \in Requests : s # r => req'[s] = req[s]
BY DEF ServiceOK, Advance

LEMMA Responded ==
  ASSUME ServiceOK, NEW r \in Requests, NEW q \in Request, NEW res \in Results,
         q.status = "valid" => q.in.token \in Tokens, Respond(r, q, res)
  PROVE  /\ ServiceOK' /\ cfg' = cfg /\ phase' = phase
         /\ req'[r].pc = "answered" /\ req'[r].in = q.in /\ req'[r].status = q.status
         /\ req'[r].res = res /\ req'[r].path = q.path
         /\ \A s \in Requests : s # r => req'[s] = req[s]
<1> DEFINE a == [q EXCEPT !.pc = "answered", !.res = res]
<1>1. a \in Request /\ a.pc = "answered" /\ a.in = q.in /\ a.status = q.status /\ a.res = res /\ a.path = q.path
  BY DEF Request, Results
<1>2. req' = [req EXCEPT ![r] = a] /\ UNCHANGED <<cfg, phase>>
  BY DEF Respond
<1>3. req' \in [Requests -> Request \union {Idle}] /\ req'[r] = a /\ \A s \in Requests : s # r => req'[s] = req[s]
  BY <1>1, <1>2 DEF ServiceOK
<1>4. honoured' \in [Tokens -> Nat]
  <2>1. honoured' = honoured \/ (q.in.token \in Tokens /\ honoured' = [honoured EXCEPT ![q.in.token] = @ + 1])
    BY DEF Respond, OnTheStrength
  <2>. QED
    BY <2>1 DEF ServiceOK
<1>5. served' \in [Tokens -> SUBSET [addr : Addrs, late : BOOLEAN]]
  <2> DEFINE e == [addr |-> q.in.addr, late |-> q.late]
  <2>1. q.in \in Inputs /\ q.late \in BOOLEAN
    BY DEF Request
  <2>2. e \in [addr : Addrs, late : BOOLEAN]
    BY <2>1, InputAssumption DEF Input
  <2>3. served' = served \/ (q.in.token \in Tokens /\ served' = [served EXCEPT ![q.in.token] = @ \union {e}])
    BY DEF Respond, OnTheStrength
  <2> HIDE DEF e
  <2>. QED
    BY <2>2, <2>3 DEF ServiceOK
<1> HIDE DEF a
<1>. QED
  BY <1>1, <1>2, <1>3, <1>4, <1>5 DEF ServiceOK

\* The fields of a call, and what a step of it leaves of them.
LEMMA CallFields ==
  ASSUME Store!StoreInv, NEW r \in Requests
  PROVE  /\ DOMAIN call = Requests
         /\ call[r].pc # "idle" => /\ DOMAIN call[r] = {"pc", "op", "id", "ip", "since", "now", "skip"}
                                   /\ call[r].id \in Tokens /\ call[r].skip \in BOOLEAN
BY DEF Store!StoreInv, Store!TypeOK, Store!Call, Store!Idle

LEMMA CallMoved ==
  ASSUME Store!StoreInv, NEW r \in Requests, call[r].pc # "idle", NEW x, Usage!Goto(r, x)
  PROVE  /\ call'[r].pc = x /\ call'[r].op = call[r].op /\ call'[r].id = call[r].id
         /\ call'[r].ip = call[r].ip /\ call'[r].skip = call[r].skip
         /\ \A s \in Requests : s # r => call'[s] = call[s]
<1>1. DOMAIN call = Requests /\ DOMAIN call[r] = {"pc", "op", "id", "ip", "since", "now", "skip"}
  BY CallFields
<1>2. call' = [call EXCEPT ![r].pc = x]
  BY DEF Usage!Goto
<1>. QED
  BY <1>1, <1>2

LEMMA CallReturned ==
  ASSUME Store!StoreInv, NEW r \in Requests, Usage!Return(r)
  PROVE  /\ call[r].pc # "idle" /\ call'[r].pc = "idle" /\ granted' = granted /\ clock' = clock
         /\ \A s \in Requests : s # r => call'[s] = call[s]
<1>1. DOMAIN call = Requests
  BY CallFields
<1>. QED
  BY <1>1 DEF Usage!Return, Usage!Idle, Usage!Outcomes

LEMMA CallDropped ==
  ASSUME Store!StoreInv, NEW r \in Requests, Drop(r)
  PROVE  /\ call'[r].pc = "idle" /\ granted' = granted /\ clock' = clock
         /\ \A s \in Requests : s # r => call'[s] = call[s]
BY CallReturned DEF Drop, storeVars

LEMMA CallValidated ==
  ASSUME Store!StoreInv, NEW r \in Requests, NEW t, NEW a, Usage!Validate(r, t, a)
  PROVE  /\ call'[r].pc = "validated" /\ call'[r].op = "Get" /\ call'[r].id = t /\ call'[r].ip = a
         /\ granted' = granted /\ clock' = clock
         /\ \A s \in Requests : s # r => call'[s] = call[s]
<1>1. DOMAIN call = Requests
  BY CallFields
<1>. QED
  BY <1>1 DEF Usage!Validate

LEMMA CallConsumes ==
  ASSUME Store!StoreInv, NEW r \in Requests, NEW fresh, NEW skip, Usage!CallConsume(r, fresh, skip)
  PROVE  /\ call[r].pc \in {"validated", "not_found"}
         /\ call'[r].pc = "check" /\ call'[r].op = "Consume" /\ call'[r].skip = skip
         /\ call'[r].id = call[r].id /\ call'[r].ip = call[r].ip
         /\ granted' = granted /\ clock' = clock
         /\ \A s \in Requests : s # r => call'[s] = call[s]
<1>1. call[r].pc \in {"validated", "not_found"} /\ granted' = granted /\ clock' = clock
  BY DEF Usage!CallConsume
<1>2. DOMAIN call = Requests /\ DOMAIN call[r] = {"pc", "op", "id", "ip", "since", "now", "skip"}
  BY <1>1, CallFields
<1>. QED
  BY <1>1, <1>2 DEF Usage!CallConsume

LEMMA CallGets ==
  ASSUME Store!StoreInv, NEW r \in Requests, Usage!CallGet(r)
  PROVE  /\ call[r].pc = "validated" /\ call'[r].pc = "getCheck"
         /\ call'[r].op = call[r].op /\ call'[r].id = call[r].id /\ call'[r].ip = call[r].ip
         /\ granted' = granted /\ clock' = clock
         /\ \A s \in Requests : s # r => call'[s] = call[s]
<1>1. call[r].pc = "validated" /\ Usage!Goto(r, "getCheck") /\ granted' = granted /\ clock' = clock
  BY DEF Usage!CallGet
<1>. QED
  BY <1>1, CallMoved

\* A step of Consume.  It grants a use exactly when it ends in "allowed"
\* without SkipConsume.
LEMMA CallServed ==
  ASSUME Store!StoreInv, NEW r \in Requests, Usage!Serve(r), call[r].op = "Consume"
  PROVE  /\ call[r].pc \in {"check", "body", "getCheck", "getBody"} /\ call'[r].pc \in Consuming
         /\ call'[r].op = call[r].op /\ call'[r].id = call[r].id
         /\ call'[r].ip = call[r].ip /\ call'[r].skip = call[r].skip
         /\ \A s \in Requests : s # r => call'[s] = call[s]
         /\ IF call'[r].pc = "allowed" /\ ~call[r].skip
              THEN granted' = [granted EXCEPT ![call[r].id] = @ + 1] ELSE granted' = granted
<1> DEFINE Spends == [granted EXCEPT ![call[r].id] = @ + 1]
           Result(x) == IF x = "allowed" /\ ~call[r].skip THEN granted' = Spends ELSE granted' = granted
<1>1. call[r].pc \in {"check", "body", "getCheck", "getBody"}
  BY DEF Usage!Serve, Usage!ConsumeCheck, Usage!GetCheck, Usage!MemoryPanic, Usage!MemoryConsume,
         Usage!BackendSpend, Usage!BackendLostReply, Usage!BackendFull, Usage!BackendSkip,
         Usage!BackendError, Usage!GetBody, Usage!AtBackend
<1>2. \E x \in Consuming : Usage!Goto(r, x) /\ Result(x)
  <2> USE DEF Consuming, Usage!Outcomes
  <2>1. CASE Usage!ConsumeCheck(r) \/ Usage!GetCheck(r) \/ Usage!MemoryPanic(r)
    BY <2>1 DEF Usage!ConsumeCheck, Usage!GetCheck, Usage!MemoryPanic
  <2>2. CASE Usage!MemoryConsume(r)
    <3> DEFINE ok == Usage!memoryRecord(r).uses < Limit[call[r].id]
    <3>1. /\ Usage!Goto(r, IF ok THEN "allowed" ELSE "used_up")
          /\ granted' = IF ok /\ ~call[r].skip THEN Spends ELSE granted
      BY <2>2 DEF Usage!MemoryConsume, Usage!Increment
    <3> HIDE DEF ok
    <3>2. CASE ok
      <4>1. Usage!Goto(r, "allowed") /\ Result("allowed")
        BY <3>1, <3>2
      <4>. QED
        BY <4>1
    <3>3. CASE ~ok
      <4>1. Usage!Goto(r, "used_up") /\ Result("used_up")
        BY <3>1, <3>3
      <4>. QED
        BY <4>1
    <3>. QED
      BY <3>2, <3>3
  <2>3. CASE Usage!BackendSpend(r)
    <3>1. Usage!Goto(r, "allowed") /\ Result("allowed")
      BY <2>3 DEF Usage!BackendSpend, Usage!Increment
    <3>. QED
      BY <3>1
  <2>4. CASE Usage!BackendLostReply(r)
    BY <2>4 DEF Usage!BackendLostReply
  <2>5. CASE Usage!BackendFull(r)
    BY <2>5 DEF Usage!BackendFull
  <2>6. CASE Usage!BackendSkip(r)
    <3>1. call[r].skip /\ granted' = granted
      BY <2>6 DEF Usage!BackendSkip
    <3>2. \E x \in Consuming : Usage!Goto(r, x)
      BY <2>6 DEF Usage!BackendSkip
    <3>. QED
      BY <3>1, <3>2
  <2>7. CASE Usage!BackendError(r)
    BY <2>7 DEF Usage!BackendError
  <2>8. CASE Usage!GetBody(r)
    <3>1. Usage!Goto(r, Usage!getOutcome(r)) /\ granted' = granted
      BY <2>8 DEF Usage!GetBody
    <3>2. \/ call[r].skip /\ Usage!getOutcome(r) \in {"allowed", "used_up"}
          \/ Usage!getOutcome(r) \in {"used_up", "record_vanished"}
      BY DEF Usage!getOutcome
    <3> DEFINE x == Usage!getOutcome(r)
    <3> HIDE DEF x
    <3>3. x \in Consuming /\ Usage!Goto(r, x) /\ Result(x)
      BY <3>1, <3>2 DEF x
    <3>. QED
      BY <3>3
  <2>. QED
    BY <2>1, <2>2, <2>3, <2>4, <2>5, <2>6, <2>7, <2>8 DEF Usage!Serve
<1>3. PICK x \in Consuming : Usage!Goto(r, x) /\ Result(x)
  BY <1>2
<1>4. /\ call'[r].pc = x /\ call'[r].op = call[r].op /\ call'[r].id = call[r].id
      /\ call'[r].ip = call[r].ip /\ call'[r].skip = call[r].skip
      /\ \A s \in Requests : s # r => call'[s] = call[s]
  BY <1>1, <1>3, CallMoved
<1>. QED
  BY <1>1, <1>3, <1>4

\* What ServeSound shows of a step of the goroutine r.
Kept(r) ==
  /\ ServiceOK' /\ Sound(r)' /\ cfg' = cfg
  /\ \A s \in Requests : s # r => req'[s] = req[s] /\ call'[s] = call[s]

Under(r) == req[r].pc \notin {"idle", "answered"}

\* An answer, when the call is over.
LEMMA AnswerSound ==
  ASSUME AuthInv, NEW r \in Requests, Under(r), NEW q \in Request,
         q.in = req[r].in, q.status = req[r].status,
         NEW res \in Results, res.reason \notin Unentered, Respond(r, q, res),
         UNCHANGED pendingVars, call'[r].pc = "idle",
         \A s \in Requests : s # r => call'[s] = call[s]
  PROVE  Kept(r)
<1>1. ServiceOK /\ Sound(r) /\ req[r].pc # "idle"
  BY DEF AuthInv, Under
<1>2. q.status = "valid" => q.in.token \in Tokens
  BY <1>1 DEF Sound, TokenSound
<1>3. /\ ServiceOK' /\ cfg' = cfg
      /\ req'[r].pc = "answered" /\ req'[r].in = req[r].in /\ req'[r].status = req[r].status
      /\ req'[r].res = res
      /\ \A s \in Requests : s # r => req'[s] = req[s]
  BY <1>1, <1>2, Responded
<1>4. SlotHeld(r)'
  BY <1>1, <1>3 DEF Sound, SlotHeld, Under, UsesPending, pendingVars
<1>5. TokenSound(r)'
  BY <1>1, <1>3 DEF Sound, TokenSound, TokenIn
<1>6. CallFits(r)'
  BY <1>3 DEF CallFits
<1>. QED
  BY <1>3, <1>4, <1>5, <1>6 DEF Kept, Sound

\* A step on the way, when the token and the call fit it.
LEMMA AdvanceSound ==
  ASSUME AuthInv, NEW r \in Requests, Under(r), NEW q \in Request,
         q.in = req[r].in, q.res = req[r].res, q.pc # "answered", Advance(r, q),
         UNCHANGED pendingVars, TokenSound(r)', CallFits(r)',
         \A s \in Requests : s # r => call'[s] = call[s]
  PROVE  Kept(r)
<1>1. ServiceOK /\ Sound(r) /\ req[r].pc # "idle" /\ q.pc # "idle"
  BY DEF AuthInv, Under, Request
<1>2. /\ ServiceOK' /\ cfg' = cfg /\ req'[r] = q
      /\ \A s \in Requests : s # r => req'[s] = req[s]
  BY <1>1, Advanced
<1>3. SlotHeld(r)'
  BY <1>1, <1>2 DEF Sound, SlotHeld, Under, UsesPending, pendingVars
<1>. QED
  BY <1>2, <1>3 DEF Kept, Sound

\* The same with the status unchanged.
LEMMA MoveSound ==
  ASSUME AuthInv, NEW r \in Requests, Under(r), NEW q \in Request,
         q.in = req[r].in, q.res = req[r].res, q.status = req[r].status, q.pc # "answered",
         Advance(r, q), UNCHANGED pendingVars, CallFits(r)',
         \A s \in Requests : s # r => call'[s] = call[s]
  PROVE  Kept(r)
<1>1. ServiceOK /\ Sound(r) /\ req[r].pc # "idle" /\ q.pc # "idle"
  BY DEF AuthInv, Under, Request
<1>2. cfg' = cfg /\ req'[r] = q
  BY <1>1, Advanced
<1>3. TokenSound(r)'
  BY <1>1, <1>2 DEF Sound, TokenSound, TokenIn
<1>. QED
  BY <1>3, AdvanceSound

\* Verify up to the verdict.
LEMMA VerdictSound ==
  ASSUME AuthInv, NEW r \in Requests,
         \/ Classify(r) \/ AnswerRiskDeny(r) \/ EvaluateFailed(r)
         \/ AnswerRequirePowDeny(r) \/ AnswerAcceptUncharged(r)
  PROVE  Kept(r)
<1>1. ServiceOK /\ Sound(r) /\ Store!StoreInv
  BY DEF AuthInv
<1>2. Under(r)
  BY DEF Under, Classify, AnswerRiskDeny, EvaluateFailed, AnswerRequirePowDeny, AnswerAcceptUncharged
<1>3. req[r] \in Request /\ req[r].in \in Input
  BY <1>1, <1>2, Serving DEF Under
<1>4. CASE Classify(r)
  <2> DEFINE status == IF cfg.powEnabled THEN classifyPoW(req[r].in, clock) ELSE "missing"
             q == [req[r] EXCEPT !.status = status, !.pc = IF cfg.riskControl THEN "risk" ELSE "fallback"]
  <2>1. /\ req[r].pc = "entered" /\ Advance(r, q) /\ UNCHANGED pendingVars
        /\ IF status = "valid" THEN Usage!Validate(r, req[r].in.token, req[r].in.addr)
                               ELSE UNCHANGED <<clock, storeVars>>
    BY <1>4 DEF Classify
  <2>2. /\ status \in Statuses
        /\ status = "valid" =>
              /\ cfg.powEnabled /\ req[r].in.token \in Tokens
              /\ TokenOf[req[r].in.token].defect = "none" /\ TokenOf[req[r].in.token].mode \in cfg.modes
              /\ TokenOf[req[r].in.token].mode = "ip_bound" =>
                   /\ req[r].in.addr # ""
                   /\ TokenOf[req[r].in.token].ip # "" => sameIP(TokenOf[req[r].in.token].ip, req[r].in.addr)
    BY <1>3, Classified DEF Statuses
  <2> HIDE DEF status
  <2>3. /\ q \in Request /\ q.in = req[r].in /\ q.res = req[r].res /\ q.status = status
        /\ q.pc \in {"risk", "fallback"}
    BY <1>3, <2>2 DEF Request
  <2> HIDE DEF q
  <2>4. cfg' = cfg /\ req'[r] = q
    BY <1>1, <2>1, <2>3, Advanced
  <2>5. TokenSound(r)'
    BY <2>2, <2>3, <2>4 DEF TokenSound, TokenIn
  <2>6. call[r].pc = "idle"
    BY <1>1, <2>1 DEF Sound, CallFits
  <2>7. /\ \A s \in Requests : s # r => call'[s] = call[s]
        /\ IF status = "valid" THEN /\ call'[r].pc = "validated" /\ call'[r].op = "Get"
                                    /\ call'[r].id = req[r].in.token /\ call'[r].ip = req[r].in.addr
                               ELSE call'[r].pc = "idle"
    BY <1>1, <2>1, <2>6, CallValidated DEF storeVars
  <2>8. CallFits(r)'
    BY <2>3, <2>4, <2>7 DEF CallFits
  <2>. QED
    BY <1>2, <2>1, <2>3, <2>5, <2>7, <2>8, AdvanceSound
<1>5. CASE AnswerRiskDeny(r)
  <2>1. PICK reason \in {"risk_reject", "rate_limited"} : Respond(r, req[r], deny(reason))
    BY <1>5 DEF AnswerRiskDeny
  <2>2. UNCHANGED pendingVars /\ Drop(r)
    BY <1>5 DEF AnswerRiskDeny
  <2>3. deny(reason) \in Results /\ deny(reason).reason \notin Unentered
    BY ResultTypes DEF Unentered, Reasons
  <2>. QED
    BY <1>1, <1>2, <1>3, <2>1, <2>2, <2>3, CallDropped, AnswerSound
<1>6. CASE EvaluateFailed(r)
  <2> DEFINE q == [req[r] EXCEPT !.pc = "fallback"]
  <2>1. req[r].pc = "risk" /\ Advance(r, q) /\ UNCHANGED <<clock, pendingVars, storeVars>>
    BY <1>6 DEF EvaluateFailed
  <2>2. /\ q \in Request /\ q.in = req[r].in /\ q.res = req[r].res /\ q.status = req[r].status
        /\ q.pc = "fallback"
    BY <1>3 DEF Request
  <2> HIDE DEF q
  <2>3. cfg' = cfg /\ req'[r] = q /\ call' = call
    BY <1>1, <2>1, <2>2, Advanced DEF storeVars
  <2>4. CallFits(r)'
    BY <1>1, <2>1, <2>2, <2>3 DEF Sound, CallFits
  <2>. QED
    BY <1>2, <2>1, <2>2, <2>3, <2>4, MoveSound
<1>7. CASE AnswerRequirePowDeny(r)
  <2> DEFINE reason == CASE req[r].status = "missing" -> "missing_token_or_sign"
                         [] req[r].status = "unverifiable" -> "missing_real_ip"
                         [] OTHER -> req[r].status
  <2>1. /\ req[r].pc = "risk" /\ req[r].status # "valid" /\ Respond(r, req[r], deny(reason))
        /\ UNCHANGED <<clock, pendingVars, storeVars>>
    BY <1>7 DEF AnswerRequirePowDeny
  <2>2. reason \in {"invalid", "expired", "mode_disabled", "missing_token_or_sign", "missing_real_ip"}
    BY <1>3, <2>1 DEF Request, Statuses
  <2> HIDE DEF reason
  <2>3. reason \in Reasons /\ reason \notin Unentered
    BY <2>2 DEF Reasons, Unentered
  <2>4. deny(reason) \in Results /\ deny(reason).reason \notin Unentered
    BY <2>3, ResultTypes
  <2>5. call' = call /\ call[r].pc = "idle"
    BY <1>1, <2>1 DEF Sound, CallFits, storeVars
  <2>. QED
    BY <1>2, <1>3, <2>1, <2>4, <2>5, AnswerSound
<1>8. CASE AnswerAcceptUncharged(r)
  <2> DEFINE q == [req[r] EXCEPT !.path = "accept"]
  <2>1. /\ req[r].pc = "risk" /\ req[r].status # "valid" /\ Respond(r, q, allow("risk_accept"))
        /\ UNCHANGED <<clock, pendingVars, storeVars>>
    BY <1>8 DEF AnswerAcceptUncharged
  <2>2. q \in Request /\ q.in = req[r].in /\ q.status = req[r].status
    BY <1>3 DEF Request
  <2> HIDE DEF q
  <2>3. allow("risk_accept") \in Results /\ allow("risk_accept").reason \notin Unentered
    BY ResultTypes DEF Unentered, Reasons
  <2>4. call' = call /\ call[r].pc = "idle"
    BY <1>1, <2>1 DEF Sound, CallFits, storeVars
  <2>. QED
    BY <1>2, <2>1, <2>2, <2>3, <2>4, AnswerSound
<1>. QED
  BY <1>4, <1>5, <1>6, <1>7, <1>8

\* Without a verdict.
LEMMA PowOnlySound ==
  ASSUME AuthInv, NEW r \in Requests,
         AnswerWithoutPow(r) \/ AnswerPowOnlyDeny(r) \/ Revalidate(r)
  PROVE  Kept(r)
<1>1. ServiceOK /\ Sound(r) /\ Store!StoreInv
  BY DEF AuthInv
<1>2. Under(r) /\ req[r].pc = "fallback"
  BY DEF Under, AnswerWithoutPow, AnswerPowOnlyDeny, Revalidate, PowOnly
<1>3. req[r] \in Request /\ req[r].in \in Input
  BY <1>1, <1>2, Serving DEF Under
<1>4. CASE AnswerWithoutPow(r)
  <2> DEFINE reason == IF cfg.powEnabled THEN "not_protected" ELSE "pow_disabled"
  <2>1. Respond(r, req[r], allow(reason)) /\ Drop(r) /\ UNCHANGED pendingVars
    BY <1>4 DEF AnswerWithoutPow
  <2>2. reason \in Reasons \ Unentered
    BY DEF Reasons, Unentered
  <2> HIDE DEF reason
  <2>3. allow(reason) \in Results /\ allow(reason).reason \notin Unentered
    BY <2>2, ResultTypes
  <2>. QED
    BY <1>1, <1>2, <1>3, <2>1, <2>3, CallDropped, AnswerSound
<1>5. CASE AnswerPowOnlyDeny(r)
  <2> DEFINE reason == powOnlyReason(req[r].in, clock)
  <2>1. Drop(r) /\ UNCHANGED pendingVars
    BY <1>5 DEF AnswerPowOnlyDeny
  <2>2. reason # "" => reason \in Reasons \ Unentered
    BY <1>3, PowOnlyTests DEF Reasons, Unentered
  <2>3. \E res \in Results : res.reason \notin Unentered /\ Respond(r, req[r], res)
    <3>1. \/ reason # "" /\ Respond(r, req[r], maybeDryRun(deny(reason)))
          \/ Respond(r, req[r], deny("missing_real_ip"))
          \/ Respond(r, req[r], maybeDryRun(deny("ip_mismatch")))
      BY <1>5 DEF AnswerPowOnlyDeny
    <3> HIDE DEF reason
    <3>2. CASE reason # "" /\ Respond(r, req[r], maybeDryRun(deny(reason)))
      <4>1. maybeDryRun(deny(reason)) \in Results /\ maybeDryRun(deny(reason)).reason \notin Unentered
        BY <2>2, <3>2, ResultTypes DEF Unentered
      <4>. QED
        BY <3>2, <4>1
    <3>3. CASE Respond(r, req[r], deny("missing_real_ip"))
      <4>1. deny("missing_real_ip") \in Results /\ deny("missing_real_ip").reason \notin Unentered
        BY ResultTypes DEF Unentered, Reasons
      <4>. QED
        BY <3>3, <4>1
    <3>4. CASE Respond(r, req[r], maybeDryRun(deny("ip_mismatch")))
      <4>1. "ip_mismatch" \in Reasons \ Unentered
        BY DEF Reasons, Unentered
      <4>2. maybeDryRun(deny("ip_mismatch")) \in Results /\ maybeDryRun(deny("ip_mismatch")).reason \notin Unentered
        BY <4>1, ResultTypes DEF Unentered
      <4>. QED
        BY <3>4, <4>2
    <3>. QED
      BY <3>1, <3>2, <3>3, <3>4
  <2>. QED
    BY <1>1, <1>2, <1>3, <2>1, <2>3, CallDropped, AnswerSound
<1>6. CASE Revalidate(r)
  <2> DEFINE q == [req[r] EXCEPT !.pc = "finalize", !.status = "valid"]
  <2>1. /\ cfg.powEnabled /\ Advance(r, q) /\ UNCHANGED pendingVars
        /\ powOnlyReason(req[r].in, clock) = "" /\ ipBoundReason(req[r].in) = ""
        /\ Usage!Validate(r, req[r].in.token, req[r].in.addr)
    BY <1>6 DEF Revalidate, PowOnly
  <2>2. /\ req[r].in.token \in Tokens
        /\ TokenOf[req[r].in.token].defect = "none" /\ TokenOf[req[r].in.token].mode \in cfg.modes
        /\ TokenOf[req[r].in.token].mode = "ip_bound" =>
             /\ req[r].in.addr # ""
             /\ TokenOf[req[r].in.token].ip # "" => sameIP(TokenOf[req[r].in.token].ip, req[r].in.addr)
    BY <1>3, <2>1, PowOnlyTests
  <2>3. /\ q \in Request /\ q.in = req[r].in /\ q.res = req[r].res /\ q.status = "valid"
        /\ q.pc = "finalize"
    BY <1>3 DEF Request, Statuses
  <2> HIDE DEF q
  <2>4. cfg' = cfg /\ req'[r] = q
    BY <1>1, <2>1, <2>3, Advanced
  <2>5. TokenSound(r)'
    BY <2>1, <2>2, <2>3, <2>4 DEF TokenSound, TokenIn
  <2>6. /\ \A s \in Requests : s # r => call'[s] = call[s]
        /\ call'[r].pc = "validated" /\ call'[r].op = "Get"
        /\ call'[r].id = req[r].in.token /\ call'[r].ip = req[r].in.addr
    BY <1>1, <2>1, CallValidated
  <2>7. CallFits(r)'
    BY <2>3, <2>4, <2>6 DEF CallFits
  <2>. QED
    BY <1>2, <2>1, <2>3, <2>5, <2>6, <2>7, AdvanceSound
<1>. QED
  BY <1>4, <1>5, <1>6

\* A good token is charged, bound, or good as it stands.
LEMMA ChargeSound ==
  ASSUME AuthInv, NEW r \in Requests, Under(r), call[r].pc = "validated",
         NEW q \in Request, q.in = req[r].in, q.res = req[r].res, q.status = req[r].status,
         q.pc # "answered", TokenIn(q).mode = "generic",
         NEW fresh, Usage!CallConsume(r, fresh, skipConsume(q.in)),
         Advance(r, [q EXCEPT !.pc = "charging"]), UNCHANGED pendingVars
  PROVE  Kept(r)
<1> DEFINE c == [q EXCEPT !.pc = "charging"]
<1>1. ServiceOK /\ Sound(r) /\ Store!StoreInv
  BY DEF AuthInv
<1>2. /\ c \in Request /\ c.in = req[r].in /\ c.res = req[r].res /\ c.status = req[r].status
      /\ c.pc = "charging"
  BY DEF Request
<1>3. Advance(r, c)
  OBVIOUS
<1> HIDE DEF c
<1>4. cfg' = cfg /\ req'[r] = c
  BY <1>1, <1>2, <1>3, Advanced
<1>5. /\ call'[r].pc = "check" /\ call'[r].op = "Consume" /\ call'[r].skip = skipConsume(q.in)
      /\ call'[r].id = call[r].id /\ call'[r].ip = call[r].ip
      /\ \A s \in Requests : s # r => call'[s] = call[s]
  BY <1>1, CallConsumes
<1>6. req[r].status = "valid" /\ call[r].id = req[r].in.token /\ call[r].ip = req[r].in.addr
  BY <1>1 DEF Sound, CallFits
<1>7. CallFits(r)'
  BY <1>2, <1>4, <1>5, <1>6 DEF CallFits, Consuming, TokenIn, skipConsume
<1>. QED
  BY <1>2, <1>3, <1>5, <1>7, MoveSound

LEMMA BindSound ==
  ASSUME AuthInv, NEW r \in Requests, Under(r),
         NEW q \in Request, q.in = req[r].in, q.res = req[r].res, q.status = req[r].status,
         NeedsBinding(q), Usage!CallGet(r),
         Advance(r, [q EXCEPT !.pc = "binding"]), UNCHANGED pendingVars
  PROVE  Kept(r)
<1> DEFINE c == [q EXCEPT !.pc = "binding"]
<1>1. ServiceOK /\ Sound(r) /\ Store!StoreInv
  BY DEF AuthInv
<1>2. /\ c \in Request /\ c.in = req[r].in /\ c.res = req[r].res /\ c.status = req[r].status
      /\ c.pc = "binding"
  BY DEF Request
<1>3. Advance(r, c)
  OBVIOUS
<1> HIDE DEF c
<1>4. cfg' = cfg /\ req'[r] = c
  BY <1>1, <1>2, <1>3, Advanced
<1>5. /\ call[r].pc = "validated" /\ call'[r].pc = "getCheck"
      /\ call'[r].op = call[r].op /\ call'[r].id = call[r].id /\ call'[r].ip = call[r].ip
      /\ \A s \in Requests : s # r => call'[s] = call[s]
  BY <1>1, CallGets
<1>6. /\ req[r].status = "valid" /\ call[r].id = req[r].in.token /\ call[r].ip = req[r].in.addr
      /\ call[r].op = "Get"
  BY <1>1, <1>5 DEF Sound, CallFits
<1>7. CallFits(r)'
  BY <1>2, <1>4, <1>5, <1>6 DEF CallFits, NeedsBinding, TokenIn
<1>. QED
  BY <1>2, <1>3, <1>5, <1>7, MoveSound

LEMMA FinalizeSound ==
  ASSUME AuthInv, NEW r \in Requests, AllowByRisk(r) \/ finalizeByMode(r)
  PROVE  Kept(r)
<1>1. ServiceOK /\ Sound(r) /\ Store!StoreInv
  BY DEF AuthInv
<1>2. Under(r)
  BY DEF Under, AllowByRisk, finalizeByMode
<1>3. req[r] \in Request /\ req[r].in \in Input
  BY <1>1, <1>2, Serving DEF Under
<1>4. CASE AllowByRisk(r)
  <2>1. PICK path \in {"accept", "require_pow"} :
          LET q == [req[r] EXCEPT !.path = path]
          IN  \/ /\ TokenIn(q).mode = "generic"
                 /\ Usage!CallConsume(r, TRUE, skipConsume(q.in))
                 /\ Advance(r, [q EXCEPT !.pc = "charging"])
              \/ /\ NeedsBinding(q) /\ Usage!CallGet(r)
                 /\ Advance(r, [q EXCEPT !.pc = "binding"])
              \/ /\ Usage!Return(r) /\ Respond(r, q, allow(allowReason(path)))
    BY <1>4 DEF AllowByRisk
  <2> DEFINE q == [req[r] EXCEPT !.path = path]
  <2>2. /\ q \in Request /\ q.in = req[r].in /\ q.res = req[r].res /\ q.status = req[r].status
        /\ q.pc = req[r].pc
    BY <1>3 DEF Request
  <2>3. \/ /\ TokenIn(q).mode = "generic"
           /\ Usage!CallConsume(r, TRUE, skipConsume(q.in))
           /\ Advance(r, [q EXCEPT !.pc = "charging"])
        \/ /\ NeedsBinding(q) /\ Usage!CallGet(r)
           /\ Advance(r, [q EXCEPT !.pc = "binding"])
        \/ /\ Usage!Return(r) /\ Respond(r, q, allow(allowReason(path)))
    BY <2>1, Zenon
  <2> HIDE DEF q
  <2>4. req[r].pc = "risk" /\ req[r].status = "valid" /\ UNCHANGED pendingVars
    BY <1>4 DEF AllowByRisk
  <2>8. call[r].pc = "validated"
    BY <1>1, <2>4 DEF Sound, CallFits
  <2>5. ASSUME TokenIn(q).mode = "generic", Usage!CallConsume(r, TRUE, skipConsume(q.in)),
               Advance(r, [q EXCEPT !.pc = "charging"])
        PROVE  Kept(r)
    BY <1>2, <2>2, <2>4, <2>5, <2>8, ChargeSound
  <2>6. ASSUME NeedsBinding(q), Usage!CallGet(r), Advance(r, [q EXCEPT !.pc = "binding"])
        PROVE  Kept(r)
    BY <1>2, <2>2, <2>4, <2>6, BindSound
  <2>7. ASSUME Usage!Return(r), Respond(r, q, allow(allowReason(path))) PROVE Kept(r)
    <3>1. allowReason(path) \in Reasons \ Unentered
      BY DEF allowReason, Reasons, Unentered
    <3>2. allow(allowReason(path)) \in Results /\ allow(allowReason(path)).reason \notin Unentered
      BY <3>1, ResultTypes
    <3>. QED
      BY <1>1, <1>2, <2>2, <2>4, <2>7, <3>2, CallReturned, AnswerSound
  <2>. QED
    BY <2>3, <2>5, <2>6, <2>7
<1>5. CASE finalizeByMode(r)
  <2> DEFINE q == req[r]
  <2>1. /\ q.pc = "finalize" /\ UNCHANGED pendingVars
        /\ \/ /\ TokenIn(q).mode = "generic"
              /\ Usage!CallConsume(r, FALSE, skipConsume(q.in))
              /\ Advance(r, [q EXCEPT !.pc = "charging"])
           \/ /\ NeedsBinding(q) /\ Usage!CallGet(r)
              /\ Advance(r, [q EXCEPT !.pc = "binding"])
           \/ /\ Usage!Return(r) /\ Respond(r, q, allow("pow_valid"))
    BY <1>5, Zenon DEF finalizeByMode
  <2>2. call[r].pc = "validated"
    BY <1>1, <2>1 DEF Sound, CallFits
  <2>3. ASSUME TokenIn(q).mode = "generic", Usage!CallConsume(r, FALSE, skipConsume(q.in)),
               Advance(r, [q EXCEPT !.pc = "charging"])
        PROVE  Kept(r)
    BY <1>2, <1>3, <2>1, <2>2, <2>3, ChargeSound
  <2>4. ASSUME NeedsBinding(q), Usage!CallGet(r), Advance(r, [q EXCEPT !.pc = "binding"])
        PROVE  Kept(r)
    BY <1>2, <1>3, <2>1, <2>4, BindSound
  <2>5. ASSUME Usage!Return(r), Respond(r, q, allow("pow_valid")) PROVE Kept(r)
    <3>1. allow("pow_valid") \in Results /\ allow("pow_valid").reason \notin Unentered
      BY ResultTypes DEF Reasons, Unentered
    <3>. QED
      BY <1>1, <1>2, <1>3, <2>1, <2>5, <3>1, CallReturned, AnswerSound
  <2>. QED
    BY <2>1, <2>3, <2>4, <2>5
<1>. QED
  BY <1>4, <1>5

\* The store works, and its answers.
LEMMA StoreSound ==
  ASSUME AuthInv, NEW r \in Requests, StoreStep(r)
  PROVE  Kept(r)
<1>1. ServiceOK /\ Sound(r) /\ Store!StoreInv
  BY DEF AuthInv
<1>2. UNCHANGED <<serviceVars, pendingVars>>
  BY DEF StoreStep
<1>3. ServiceOK' /\ cfg' = cfg /\ req' = req
  BY <1>1, <1>2 DEF serviceVars, ServiceOK
<1>4. SlotHeld(r)' /\ TokenSound(r)'
  BY <1>1, <1>2, <1>3 DEF Sound, SlotHeld, TokenSound, TokenIn, UsesPending, pendingVars
<1>5. CASE req[r].pc \in {"charging", "recording"} /\ Usage!Serve(r)
  <2>1. call[r].op = "Consume"
    BY <1>1, <1>5 DEF Sound, CallFits
  <2>2. /\ call[r].pc \in {"check", "body", "getCheck", "getBody"} /\ call'[r].pc \in Consuming
        /\ call'[r].op = call[r].op /\ call'[r].id = call[r].id
        /\ call'[r].ip = call[r].ip /\ call'[r].skip = call[r].skip
        /\ \A s \in Requests : s # r => call'[s] = call[s]
    BY <1>1, <1>5, <2>1, CallServed
  <2>3. call'[r].pc # "validated"
    BY <2>2 DEF Consuming, Usage!Outcomes
  <2>4. CallFits(r)'
    BY <1>1, <1>3, <1>5, <2>2, <2>3 DEF Sound, CallFits, NeedsBinding, TokenIn, skipConsume
  <2>. QED
    BY <1>3, <1>4, <2>2, <2>4 DEF Kept, Sound
<1>6. CASE req[r].pc = "binding" /\ (Usage!GetCheck(r) \/ Usage!BackendError(r))
  <2>1. PICK x \in {"getBody", "closed", "backend_error"} : Usage!Goto(r, x)
    BY <1>6 DEF Usage!GetCheck, Usage!BackendError
  <2>2. call[r].pc # "idle"
    BY <1>1, <1>6 DEF Sound, CallFits
  <2>3. /\ call'[r].pc = x /\ call'[r].op = call[r].op /\ call'[r].id = call[r].id
        /\ call'[r].ip = call[r].ip
        /\ \A s \in Requests : s # r => call'[s] = call[s]
    BY <1>1, <2>1, <2>2, CallMoved
  <2>4. CallFits(r)'
    BY <1>1, <1>3, <1>6, <2>2, <2>3 DEF Sound, CallFits, NeedsBinding, TokenIn
  <2>. QED
    BY <1>3, <1>4, <2>3, <2>4 DEF Kept, Sound
<1>. QED
  BY <1>5, <1>6 DEF StoreStep

LEMMA AnswersSound ==
  ASSUME AuthInv, NEW r \in Requests, AnswerCharged(r) \/ AnswerBinding(r)
  PROVE  Kept(r)
<1>1. ServiceOK /\ Sound(r) /\ Store!StoreInv
  BY DEF AuthInv
<1>2. Under(r) /\ Usage!Return(r) /\ UNCHANGED pendingVars
  BY DEF Under, AnswerCharged, AnswerBinding
<1>3. req[r] \in Request
  BY <1>1, <1>2, Serving DEF Under
<1> DEFINE Proper(res) == res \in Results /\ res.reason \notin Unentered
<1>4. \A reason \in Reasons \ Unentered :
        Proper(allow(reason)) /\ Proper(deny(reason)) /\ Proper(maybeDryRun(deny(reason)))
  BY ResultTypes DEF Unentered
<1>5. {"storage_error", "used_up", "panic", "ip_mismatch", allowReason(req[r].path)} \subseteq Reasons \ Unentered
  BY DEF allowReason, Reasons, Unentered
<1>6. /\ Proper(allow(allowReason(req[r].path)))
      /\ Proper(deny("panic")) /\ Proper(deny("storage_error"))
      /\ Proper(maybeDryRun(deny("storage_error"))) /\ Proper(maybeDryRun(deny("used_up")))
      /\ Proper(maybeDryRun(deny("ip_mismatch")))
  BY <1>4, <1>5
<1> HIDE DEF Proper
<1>7. \E res : Proper(res) /\ Respond(r, req[r], res)
  <2>1. CASE AnswerCharged(r)
    <3> DEFINE res == CASE call[r].pc = "allowed" -> allow(allowReason(req[r].path))
                        [] call[r].pc \in {"used_up", "expired"} -> maybeDryRun(deny("used_up"))
                        [] call[r].pc = "panic" -> deny("panic")
                        [] OTHER -> IF req[r].path = "pow_only" THEN maybeDryRun(deny("storage_error"))
                                                                ELSE deny("storage_error")
    <3>1. Respond(r, req[r], res)
      BY <2>1, Zenon DEF AnswerCharged
    <3>2. Proper(res)
      BY <1>6
    <3>. QED
      BY <3>1, <3>2
  <2>2. CASE AnswerBinding(r)
    <3> DEFINE res == CASE req[r].pc = "mismatch" -> maybeDryRun(deny("ip_mismatch"))
                        [] call[r].pc \in Errors -> maybeDryRun(deny("storage_error"))
                        [] call[r].pc = "panic" -> deny("panic")
                        [] OTHER -> allow(allowReason(req[r].path))
    <3>1. Respond(r, req[r], res)
      BY <2>2, Zenon DEF AnswerBinding
    <3>2. Proper(res)
      BY <1>6 DEF Errors
    <3>. QED
      BY <3>1, <3>2
  <2>. QED
    BY <2>1, <2>2
<1>. QED
  BY <1>1, <1>2, <1>3, <1>7, CallReturned, AnswerSound DEF Proper

LEMMA BindingSound ==
  ASSUME AuthInv, NEW r \in Requests, ReadBinding(r) \/ RecordBinding(r)
  PROVE  Kept(r)
<1>1. ServiceOK /\ Sound(r) /\ Store!StoreInv
  BY DEF AuthInv
<1>2. Under(r) /\ UNCHANGED pendingVars
  BY DEF Under, ReadBinding, RecordBinding
<1>3. req[r] \in Request
  BY <1>1, <1>2, Serving DEF Under
<1>4. CASE ReadBinding(r)
  <2> DEFINE pc == IF req[r].in.token \notin DOMAIN records THEN "unbound"
                   ELSE IF sameIP(records[req[r].in.token].firstIP, req[r].in.addr) THEN "bound"
                   ELSE "mismatch"
             q == [req[r] EXCEPT !.pc = pc]
  <2>1. /\ req[r].pc = "binding" /\ call[r].pc = "getBody"
        /\ Usage!Goto(r, Usage!getOutcome(r)) /\ Advance(r, q)
    BY <1>4 DEF ReadBinding, Usage!GetBody
  <2>2. call[r].op = "Get" /\ req[r].status = "valid" /\ call[r].id = req[r].in.token /\ call[r].ip = req[r].in.addr
    BY <1>1, <2>1 DEF Sound, CallFits
  <2>3. Usage!getOutcome(r) = IF req[r].in.token \in DOMAIN records THEN "found" ELSE "not_found"
    BY <2>2 DEF Usage!getOutcome
  <2>4. \/ pc = "unbound" /\ Usage!getOutcome(r) = "not_found"
        \/ pc \in {"bound", "mismatch"} /\ Usage!getOutcome(r) = "found"
    BY <2>3
  <2> HIDE DEF pc
  <2>5. /\ q \in Request /\ q.in = req[r].in /\ q.res = req[r].res /\ q.status = req[r].status
        /\ q.pc = pc
    BY <1>3, <2>4 DEF Request
  <2> HIDE DEF q
  <2>6. cfg' = cfg /\ req'[r] = q
    BY <1>1, <2>1, <2>5, Advanced
  <2>7. /\ call'[r].pc = Usage!getOutcome(r) /\ call'[r].op = call[r].op /\ call'[r].id = call[r].id
        /\ call'[r].ip = call[r].ip /\ call'[r].skip = call[r].skip
        /\ \A s \in Requests : s # r => call'[s] = call[s]
    BY <1>1, <2>1, CallMoved
  <2>8. NeedsBinding(req[r])
    BY <1>1, <2>1 DEF Sound, CallFits
  <2>9. CallFits(r)'
    BY <2>2, <2>4, <2>5, <2>6, <2>7, <2>8 DEF CallFits, NeedsBinding, TokenIn
  <2>. QED
    BY <1>2, <2>1, <2>4, <2>5, <2>7, <2>9, MoveSound
<1>5. CASE RecordBinding(r)
  <2> DEFINE q == [req[r] EXCEPT !.pc = "recording"]
  <2>1. req[r].pc = "unbound" /\ Usage!CallConsume(r, TRUE, TRUE) /\ Advance(r, q)
    BY <1>5 DEF RecordBinding
  <2>2. /\ q \in Request /\ q.in = req[r].in /\ q.res = req[r].res /\ q.status = req[r].status
        /\ q.pc = "recording"
    BY <1>3 DEF Request
  <2> HIDE DEF q
  <2>3. cfg' = cfg /\ req'[r] = q
    BY <1>1, <2>1, <2>2, Advanced
  <2>4. /\ call'[r].pc = "check" /\ call'[r].op = "Consume" /\ call'[r].skip = TRUE
        /\ call'[r].id = call[r].id /\ call'[r].ip = call[r].ip
        /\ \A s \in Requests : s # r => call'[s] = call[s]
    BY <1>1, <2>1, CallConsumes
  <2>5. /\ req[r].status = "valid" /\ call[r].id = req[r].in.token /\ call[r].ip = req[r].in.addr
        /\ NeedsBinding(req[r])
    BY <1>1, <2>1 DEF Sound, CallFits
  <2>6. CallFits(r)'
    BY <2>2, <2>3, <2>4, <2>5 DEF CallFits, NeedsBinding, TokenIn, Consuming
  <2>. QED
    BY <1>2, <2>1, <2>2, <2>4, <2>6, MoveSound
<1>. QED
  BY <1>4, <1>5

\* What Enter answers, and what the end of a request does to its slot.
LEMMA EnterAnswers ==
  ASSUME Limiter!BlockerInv, NEW r \in Requests, NEW a, Pending!Enter(r, a)
  PROVE  /\ \/ verdict'[r] = "unlimited" /\ a \notin DOMAIN CanonicalIP
            \/ verdict'[r] = "blocked"
            \/ verdict'[r] = "admitted" /\ a \in DOMAIN CanonicalIP /\ from'[r] = CanonicalIP[a]
         /\ \A s \in Requests : s # r => verdict'[s] = verdict[s] /\ from'[s] = from[s]
<1>1. DOMAIN verdict = Requests /\ DOMAIN from = Requests
  BY DEF Limiter!BlockerInv, Limiter!TypeOK
<1>2. PICK v, ip : /\ Pending!Answer(r, ip, v)
                   /\ \/ v = "unlimited" /\ a \notin DOMAIN CanonicalIP
                      \/ v = "blocked"
                      \/ v = "admitted" /\ a \in DOMAIN CanonicalIP /\ ip = CanonicalIP[a]
  BY DEF Pending!Enter, Pending!EnterUnlimited, Pending!EnterClosed, Pending!EnterBlocked,
         Pending!EnterOverflow, Pending!EnterAdmitted
<1>. QED
  BY <1>1, <1>2 DEF Pending!Answer

LEMMA LeaveAnswers ==
  ASSUME Limiter!BlockerInv, NEW r \in Requests, Pending!release(r) \/ Pending!Leave(r)
  PROVE  /\ verdict'[r] = "none"
         /\ \A s \in Requests : s # r => verdict'[s] = verdict[s] /\ from'[s] = from[s]
<1>1. DOMAIN verdict = Requests /\ DOMAIN from = Requests
  BY DEF Limiter!BlockerInv, Limiter!TypeOK
<1>. QED
  BY <1>1 DEF Pending!release, Pending!Leave, Pending!Answer

\* A request arrives.
LEMMA FreshRequest ==
  ASSUME ServiceOK, NEW in \in Inputs
  PROVE  /\ Fresh(in) \in Request
         /\ Fresh(in).pc = "entered" /\ Fresh(in).in = in /\ Fresh(in).status = "missing"
         /\ Fresh(in).res.reason = "none"
<1>1. deny("none") \in Results /\ deny("none").reason = "none"
  BY ResultTypes DEF Reasons
<1>. QED
  BY <1>1 DEF Fresh, NoResult, Request, Results, Statuses

LEMMA ArriveSound ==
  ASSUME AuthInv, NEW r \in Requests, NEW in \in Inputs, Arrive(r, in)
  PROVE  Kept(r)
<1>1. ServiceOK /\ Sound(r) /\ Limiter!BlockerInv
  BY DEF AuthInv
<1>2. req[r].pc = "idle"
  BY DEF Arrive, AnswerEarly, AnswerPendingBlocked, Enter, Begin
<1>3. call[r].pc = "idle" /\ verdict[r] = "none"
  BY <1>1, <1>2 DEF Sound, SlotHeld, CallFits
<1>4. UNCHANGED storeVars
  BY ArriveStep
<1>5. call' = call
  BY <1>4 DEF storeVars
<1> DEFINE f == Fresh(in)
<1>6. f \in Request /\ f.pc = "entered" /\ f.in = in /\ f.status = "missing" /\ f.res.reason = "none"
  BY <1>1, FreshRequest
<1>7. ASSUME NEW res \in Results, res.reason \in Unentered, Respond(r, f, res), verdict'[r] # "admitted"
      PROVE  Kept(r)
  <2> HIDE DEF f
  <2>1. /\ ServiceOK' /\ cfg' = cfg
        /\ req'[r].pc = "answered" /\ req'[r].in = in /\ req'[r].status = "missing"
        /\ req'[r].res = res
        /\ \A s \in Requests : s # r => req'[s] = req[s]
    BY <1>1, <1>6, <1>7, Responded
  <2>2. SlotHeld(r)' /\ TokenSound(r)'
    BY <1>7, <2>1 DEF SlotHeld, TokenSound
  <2>3. CallFits(r)'
    BY <1>3, <1>5, <2>1 DEF CallFits
  <2>. QED
    BY <1>5, <2>1, <2>2, <2>3 DEF Kept, Sound
<1>8. CASE AnswerEarly(r, in)
  <2> DEFINE res == IF cfg.bypassAll THEN allow("bypass_all") ELSE deny("missing_headers")
  <2>1. Respond(r, f, res) /\ verdict' = verdict
    BY <1>8 DEF AnswerEarly, pendingVars
  <2>2. res \in Results /\ res.reason \in Unentered
    BY ResultTypes DEF Reasons, Unentered
  <2> HIDE DEF res, f
  <2>. QED
    BY <1>3, <1>7, <2>1, <2>2
<1>9. CASE AnswerPendingBlocked(r, in)
  <2>1. Respond(r, f, deny("ip_pending_blocked")) /\ verdict'[r] = "blocked"
    BY <1>9 DEF AnswerPendingBlocked
  <2>2. deny("ip_pending_blocked") \in Results /\ deny("ip_pending_blocked").reason \in Unentered
    BY ResultTypes DEF Reasons, Unentered
  <2> HIDE DEF f
  <2>. QED
    BY <1>7, <2>1, <2>2
<1>10. CASE Enter(r, in)
  <2>1. /\ Advance(r, f)
        /\ IF UsesPending(in) THEN Pending!Enter(r, in.addr) /\ verdict'[r] # "blocked"
                              ELSE UNCHANGED <<clock, pendingVars>>
    BY <1>10 DEF Enter
  <2> HIDE DEF f
  <2>2. ServiceOK' /\ cfg' = cfg /\ req'[r] = f /\ \A s \in Requests : s # r => req'[s] = req[s]
    BY <1>1, <1>6, <2>1, Advanced
  <2>3. /\ verdict'[r] = "admitted" <=> UsesPending(in) /\ in.addr \in DOMAIN CanonicalIP
        /\ verdict'[r] = "admitted" => from'[r] = CanonicalIP[in.addr]
    BY <1>1, <1>3, <2>1, EnterAnswers DEF pendingVars
  <2>4. f.res.reason \notin Unentered
    BY <1>6 DEF Unentered
  <2>5. SlotHeld(r)' /\ TokenSound(r)'
    BY <1>6, <2>2, <2>3, <2>4 DEF SlotHeld, TokenSound, UsesPending
  <2>6. CallFits(r)'
    BY <1>3, <1>5, <1>6, <2>2 DEF CallFits
  <2>. QED
    BY <1>5, <2>2, <2>5, <2>6 DEF Kept, Sound
<1>. QED
  BY <1>8, <1>9, <1>10 DEF Arrive

\* Verify returns.
LEMMA FinishSound ==
  ASSUME AuthInv, NEW r \in Requests, Finish(r)
  PROVE  Kept(r)
<1>1. ServiceOK /\ Sound(r) /\ Limiter!BlockerInv
  BY DEF AuthInv
<1>2. /\ req[r].pc = "answered" /\ req' = [req EXCEPT ![r] = Idle]
      /\ UNCHANGED <<cfg, phase, honoured, served, storeVars>>
      /\ IF verdict[r] = "none" THEN UNCHANGED <<clock, pendingVars>>
                                ELSE Pending!release(r) \/ Pending!Leave(r)
  BY DEF Finish
<1>3. verdict'[r] = "none"
  BY <1>1, <1>2, LeaveAnswers DEF pendingVars
<1>4. ServiceOK' /\ cfg' = cfg /\ req'[r].pc = "idle" /\ \A s \in Requests : s # r => req'[s] = req[s]
  BY <1>1, <1>2 DEF ServiceOK, Idle
<1>5. call' = call /\ call[r].pc = "idle"
  BY <1>1, <1>2 DEF storeVars, Sound, CallFits
<1>6. SlotHeld(r)' /\ TokenSound(r)' /\ CallFits(r)'
  BY <1>3, <1>4, <1>5 DEF SlotHeld, TokenSound, CallFits
<1>. QED
  BY <1>4, <1>5, <1>6 DEF Kept, Sound

\* A step of one goroutine leaves what holds of the others.
LEMMA OthersSound ==
  ASSUME NEW s, Sound(s), cfg' = cfg, req'[s] = req[s], call'[s] = call[s],
         verdict'[s] = verdict[s], from'[s] = from[s]
  PROVE  Sound(s)'
<1>1. SlotHeld(s)'
  BY DEF Sound, SlotHeld, UsesPending
<1>2. TokenSound(s)'
  BY DEF Sound, TokenSound, TokenIn
<1>3. CallFits(s)'
  BY DEF Sound, CallFits, TokenIn, NeedsBinding, skipConsume
<1>. QED
  BY <1>1, <1>2, <1>3 DEF Sound

LEMMA ServeSound ==
  ASSUME AuthInv, NEW r \in Requests, Serve(r)
  PROVE  Kept(r)
BY VerdictSound, PowOnlySound, FinalizeSound, StoreSound, AnswersSound, BindingSound, FinishSound
   DEF Serve

LEMMA SoundStep ==
  ASSUME AuthInv, [Next]_vars
  PROVE  ServiceOK' /\ \A r \in Requests : Sound(r)'
<1>1. ServiceOK /\ Limiter!BlockerInv /\ \A r \in Requests : Sound(r)
  BY DEF AuthInv
<1>2. ASSUME NEW r \in Requests, Kept(r),
             \A s \in Requests : s # r => verdict'[s] = verdict[s] /\ from'[s] = from[s]
      PROVE  ServiceOK' /\ \A s \in Requests : Sound(s)'
  BY <1>1, <1>2, OthersSound DEF Kept
<1>3. ASSUME UNCHANGED pendingVars
      PROVE  \A s \in Requests : verdict'[s] = verdict[s] /\ from'[s] = from[s]
  BY <1>3 DEF pendingVars
<1>4. ASSUME NEW r \in Requests, NEW in \in Inputs, Arrive(r, in)
      PROVE  ServiceOK' /\ \A s \in Requests : Sound(s)'
  BY <1>1, <1>2, <1>3, <1>4, ArriveSound, ArriveStep, EnterAnswers
<1>5. ASSUME NEW r \in Requests, Serve(r)
      PROVE  ServiceOK' /\ \A s \in Requests : Sound(s)'
  <2>1. Kept(r)
    BY <1>5, ServeSound
  <2>2. \A s \in Requests : s # r => verdict'[s] = verdict[s] /\ from'[s] = from[s]
    <3>1. CASE ~Finish(r)
      BY <1>1, <1>3, <1>5, <3>1, ServeStep
    <3>2. CASE Finish(r)
      BY <1>1, <1>3, <3>2, LeaveAnswers DEF Finish
    <3>. QED
      BY <3>1, <3>2
  <2>. QED
    BY <1>2, <2>1, <2>2
<1>6. ASSUME UNCHANGED <<cfg, req, honoured, served, verdict, from, call>>, phase' \in {phase, "draining", "pending_closed", "closed"}
      PROVE  ServiceOK' /\ \A s \in Requests : Sound(s)'
  <2>1. ServiceOK'
    BY <1>1, <1>6 DEF ServiceOK
  <2>. QED
    BY <1>1, <1>6, <2>1, OthersSound
<1>7. CASE Maintenance
  BY <1>6, <1>7 DEF Maintenance, serviceVars, pendingVars, Usage!CleanupStart, Usage!CleanupExpired, Usage!RedisEvict
<1>8. CASE Shutdown
  BY <1>6, <1>8 DEF Shutdown, pendingVars, storeVars, Pending!Close, Usage!Close
<1>9. CASE Tick
  BY <1>6, <1>9 DEF Tick, serviceVars, Pending!Tick, Usage!Tick
<1>10. CASE Terminated \/ UNCHANGED vars
  BY <1>6, <1>10 DEF Terminated, vars, serviceVars, pendingVars, storeVars
<1>. QED
  BY <1>4, <1>5, <1>7, <1>8, <1>9, <1>10 DEF Next

(***************************************************************************)
(* The accounts: what was honoured and what is about to be was granted.    *)
(***************************************************************************)
LEMMA PaidFinite ==
  ASSUME NEW t PROVE IsFiniteSet(Paid(t)) /\ Cardinality(Paid(t)) \in Nat
<1>1. Paid(t) \subseteq Requests
  BY DEF Paid
<1>. QED
  BY <1>1, LimiterAssumption, FS_Subset, FS_CardinalityType

\* Only an answer to a charged request is entered in honoured.
LEMMA RefusalsDoNotCount ==
  ASSUME NEW q, NEW reason
  PROVE  ~OnTheStrength(q, deny(reason)) /\ ~OnTheStrength(q, maybeDryRun(deny(reason)))
BY DEF OnTheStrength, deny, allow, maybeDryRun

LEMMA NotHonoured ==
  ASSUME NEW r, NEW q, NEW res, Respond(r, q, res),
         ~OnTheStrength(q, res) \/ TokenIn(q).mode # "generic"
  PROVE  honoured' = honoured
BY DEF Respond

\* A step of r that neither spends a use nor answers for one.
Quiet(r) ==
  /\ honoured' = honoured /\ granted' = granted /\ call'[r].pc # "allowed"
  /\ \A s \in Requests : s # r => call'[s] = call[s]

LEMMA QuietAccounts ==
  ASSUME AuthInv, NEW r \in Requests, Quiet(r)
  PROVE  Accounts'
<1> SUFFICES ASSUME NEW t \in Tokens
             PROVE  honoured'[t] + Cardinality(Paid(t)') <= granted'[t]
  BY DEF Accounts
<1>1. Paid(t)' \subseteq Paid(t)
  BY DEF Quiet, Paid
<1>2. Cardinality(Paid(t)') <= Cardinality(Paid(t)) /\ Cardinality(Paid(t)') \in Nat
  BY <1>1, PaidFinite, FS_Subset, FS_CardinalityType
<1>3. honoured[t] \in Nat /\ granted[t] \in Nat /\ honoured[t] + Cardinality(Paid(t)) <= granted[t]
  BY DEF AuthInv, ServiceOK, Store!StoreInv, Store!TypeOK, Accounts
<1>4. Cardinality(Paid(t)) \in Nat
  BY PaidFinite
<1>. QED
  BY <1>2, <1>3, <1>4 DEF Quiet

\* The steps of Verify that are quiet.
LEMMA QuietSteps ==
  ASSUME AuthInv, NEW r \in Requests, Serve(r), ~AnswerCharged(r), ~StoreStep(r)
  PROVE  Quiet(r)
<1>1. ServiceOK /\ Sound(r) /\ Store!StoreInv
  BY DEF AuthInv
<1>2. ASSUME Usage!Return(r), honoured' = honoured PROVE Quiet(r)
  BY <1>1, <1>2, CallReturned DEF Quiet
<1>3. ASSUME Drop(r), honoured' = honoured PROVE Quiet(r)
  BY <1>1, <1>3, CallDropped DEF Quiet
<1>4. ASSUME NEW t, NEW a, Usage!Validate(r, t, a), honoured' = honoured PROVE Quiet(r)
  BY <1>1, <1>4, CallValidated DEF Quiet
<1>5. ASSUME NEW fresh, NEW skip, Usage!CallConsume(r, fresh, skip), honoured' = honoured PROVE Quiet(r)
  BY <1>1, <1>5, CallConsumes DEF Quiet
<1>6. ASSUME Usage!CallGet(r), honoured' = honoured PROVE Quiet(r)
  BY <1>1, <1>6, CallGets DEF Quiet
<1>7. ASSUME UNCHANGED storeVars, honoured' = honoured, call[r].pc # "allowed" PROVE Quiet(r)
  BY <1>7 DEF Quiet, storeVars
<1>8. req[r].pc \in {"entered", "risk", "fallback", "answered"} => call[r].pc # "allowed"
  BY <1>1 DEF Sound, CallFits
<1>9. CASE Classify(r)
  <2>1. /\ req[r].pc = "entered" /\ honoured' = honoured
        /\ Usage!Validate(r, req[r].in.token, req[r].in.addr) \/ UNCHANGED storeVars
    BY <1>9 DEF Classify, Advance
  <2>. QED
    BY <1>4, <1>7, <1>8, <2>1
<1>10. CASE AnswerRiskDeny(r)
  BY <1>3, <1>10, NotHonoured, RefusalsDoNotCount DEF AnswerRiskDeny
<1>11. CASE EvaluateFailed(r)
  BY <1>7, <1>8, <1>11 DEF EvaluateFailed, Advance
<1>12. CASE AnswerRequirePowDeny(r)
  <2>1. req[r].pc = "risk" /\ UNCHANGED storeVars /\ \E reason : Respond(r, req[r], deny(reason))
    BY <1>12 DEF AnswerRequirePowDeny
  <2>. QED
    BY <1>7, <1>8, <2>1, NotHonoured, RefusalsDoNotCount
<1>13. CASE AnswerAcceptUncharged(r)
  <2> DEFINE q == [req[r] EXCEPT !.path = "accept"]
  <2>1. /\ req[r].pc = "risk" /\ req[r].status # "valid" /\ UNCHANGED storeVars
        /\ Respond(r, q, allow("risk_accept"))
    BY <1>13 DEF AnswerAcceptUncharged
  <2>2. q.status # "valid"
    BY <2>1
  <2>3. honoured' = honoured
    BY <2>1, <2>2, NotHonoured DEF OnTheStrength
  <2>. QED
    BY <1>7, <1>8, <2>1, <2>3
<1>14. CASE AllowByRisk(r)
  <2>1. PICK path \in {"accept", "require_pow"} :
          LET q == [req[r] EXCEPT !.path = path]
          IN  \/ Usage!CallConsume(r, TRUE, skipConsume(q.in)) /\ Advance(r, [q EXCEPT !.pc = "charging"])
              \/ Usage!CallGet(r) /\ Advance(r, [q EXCEPT !.pc = "binding"])
              \/ /\ TokenIn(q).mode = "ip_bound"
                 /\ Usage!Return(r) /\ Respond(r, q, allow(allowReason(path)))
    BY <1>14, Zenon DEF AllowByRisk
  <2> DEFINE q == [req[r] EXCEPT !.path = path]
  <2>2. \/ Usage!CallConsume(r, TRUE, skipConsume(q.in)) /\ honoured' = honoured
        \/ Usage!CallGet(r) /\ honoured' = honoured
        \/ Usage!Return(r) /\ TokenIn(q).mode = "ip_bound" /\ Respond(r, q, allow(allowReason(path)))
    BY <2>1, Zenon DEF Advance
  <2> HIDE DEF q
  <2>. QED
    BY <1>2, <1>5, <1>6, <2>2, NotHonoured
<1>15. CASE AnswerWithoutPow(r)
  <2> DEFINE res == allow(IF cfg.powEnabled THEN "not_protected" ELSE "pow_disabled")
  <2>1. Respond(r, req[r], res) /\ Drop(r) /\ req[r].pc = "fallback"
    BY <1>15 DEF AnswerWithoutPow
  <2>2. ~OnTheStrength(req[r], res)
    BY <1>1, <2>1 DEF Sound, TokenSound, OnTheStrength, allow
  <2>. QED
    BY <1>3, <2>1, <2>2, NotHonoured
<1>16. CASE AnswerPowOnlyDeny(r)
  <2>1. /\ Drop(r)
        /\ \E reason : Respond(r, req[r], deny(reason)) \/ Respond(r, req[r], maybeDryRun(deny(reason)))
    BY <1>16 DEF AnswerPowOnlyDeny
  <2>. QED
    BY <1>3, <2>1, NotHonoured, RefusalsDoNotCount
<1>17. CASE Revalidate(r)
  BY <1>4, <1>17 DEF Revalidate, Advance
<1>18. CASE finalizeByMode(r)
  <2>1. \/ Usage!CallConsume(r, FALSE, skipConsume(req[r].in)) /\ honoured' = honoured
        \/ Usage!CallGet(r) /\ honoured' = honoured
        \/ Usage!Return(r) /\ TokenIn(req[r]).mode = "ip_bound" /\ Respond(r, req[r], allow("pow_valid"))
    BY <1>18, Zenon DEF finalizeByMode, Advance
  <2>. QED
    BY <1>2, <1>5, <1>6, <2>1, NotHonoured
<1>19. CASE ReadBinding(r)
  <2>1. /\ req[r].pc = "binding" /\ call[r].pc = "getBody" /\ honoured' = honoured
        /\ Usage!Goto(r, Usage!getOutcome(r)) /\ granted' = granted
    BY <1>19 DEF ReadBinding, Usage!GetBody, Advance
  <2>2. call[r].op = "Get"
    BY <1>1, <2>1 DEF Sound, CallFits
  <2>3. Usage!getOutcome(r) \in {"found", "not_found"}
    BY <2>2 DEF Usage!getOutcome
  <2>4. call'[r].pc = Usage!getOutcome(r) /\ \A s \in Requests : s # r => call'[s] = call[s]
    BY <1>1, <2>1, CallMoved
  <2>. QED
    BY <2>1, <2>3, <2>4 DEF Quiet
<1>20. CASE RecordBinding(r)
  BY <1>5, <1>20 DEF RecordBinding, Advance
<1>21. CASE AnswerBinding(r)
  <2>1. /\ Usage!Return(r) /\ \E res : Respond(r, req[r], res)
        /\ req[r].pc \in {"bound", "mismatch", "binding", "recording"}
    BY <1>21 DEF AnswerBinding
  <2>2. NeedsBinding(req[r])
    BY <1>1, <2>1 DEF Sound, CallFits
  <2>. QED
    BY <1>2, <2>1, <2>2, NotHonoured DEF NeedsBinding
<1>22. CASE Finish(r)
  BY <1>7, <1>8, <1>22 DEF Finish
<1>. QED
  BY <1>9, <1>10, <1>11, <1>12, <1>13, <1>14, <1>15, <1>16, <1>17, <1>18, <1>19, <1>20, <1>21, <1>22
     DEF Serve

\* A step of Consume: a granted use is paid for and not yet answered.
LEMMA StoreAccounts ==
  ASSUME AuthInv, NEW r \in Requests, StoreStep(r)
  PROVE  Accounts'
<1>1. ServiceOK /\ Sound(r) /\ Store!StoreInv /\ Accounts
  BY DEF AuthInv
<1>2. honoured' = honoured
  BY DEF StoreStep, serviceVars
<1>3. CASE req[r].pc \in {"charging", "recording"} /\ Usage!Serve(r)
  <2>1. call[r].op = "Consume"
    BY <1>1, <1>3 DEF Sound, CallFits
  <2>2. /\ call[r].pc \in {"check", "body", "getCheck", "getBody"}
        /\ call'[r].id = call[r].id /\ call'[r].skip = call[r].skip
        /\ \A s \in Requests : s # r => call'[s] = call[s]
        /\ IF call'[r].pc = "allowed" /\ ~call[r].skip
             THEN granted' = [granted EXCEPT ![call[r].id] = @ + 1] ELSE granted' = granted
    BY <1>1, <1>3, <2>1, CallServed
  <2> SUFFICES ASSUME NEW t \in Tokens
               PROVE  honoured'[t] + Cardinality(Paid(t)') <= granted'[t]
    BY DEF Accounts
  <2>3. /\ honoured[t] \in Nat /\ granted \in [Tokens -> Nat]
        /\ honoured[t] + Cardinality(Paid(t)) <= granted[t]
    BY <1>1 DEF ServiceOK, Store!StoreInv, Store!TypeOK, Accounts
  <2>4. IsFiniteSet(Paid(t)) /\ Cardinality(Paid(t)) \in Nat
    BY PaidFinite
  <2>5. CASE call'[r].pc = "allowed" /\ ~call[r].skip /\ call[r].id = t
    <3>1. Paid(t)' \subseteq Paid(t) \union {r} /\ r \notin Paid(t)
      BY <2>2, <2>5 DEF Paid
    <3>2. IsFiniteSet(Paid(t) \union {r}) /\ Cardinality(Paid(t) \union {r}) = Cardinality(Paid(t)) + 1
      BY <2>4, <3>1, FS_AddElement
    <3>3. Cardinality(Paid(t)') <= Cardinality(Paid(t)) + 1 /\ Cardinality(Paid(t)') \in Nat
      BY <3>1, <3>2, FS_Subset, FS_CardinalityType
    <3>4. granted'[t] = granted[t] + 1
      BY <2>2, <2>3, <2>5
    <3>. QED
      BY <1>2, <2>3, <2>4, <3>3, <3>4
  <2>6. CASE ~(call'[r].pc = "allowed" /\ ~call[r].skip /\ call[r].id = t)
    <3>1. Paid(t)' \subseteq Paid(t)
      BY <2>2, <2>6 DEF Paid
    <3>2. Cardinality(Paid(t)') <= Cardinality(Paid(t)) /\ Cardinality(Paid(t)') \in Nat
      BY <2>4, <3>1, FS_Subset, FS_CardinalityType
    <3>3. granted'[t] = granted[t]
      BY <2>2, <2>3, <2>6
    <3>. QED
      BY <1>2, <2>3, <2>4, <3>2, <3>3
  <2>. QED
    BY <2>5, <2>6
<1>4. CASE req[r].pc = "binding" /\ (Usage!GetCheck(r) \/ Usage!BackendError(r))
  <2>1. PICK x \in {"getBody", "closed", "backend_error"} : Usage!Goto(r, x) /\ granted' = granted
    BY <1>4 DEF Usage!GetCheck, Usage!BackendError
  <2>2. call[r].pc # "idle"
    BY <1>1, <1>4 DEF Sound, CallFits
  <2>3. call'[r].pc = x /\ \A s \in Requests : s # r => call'[s] = call[s]
    BY <1>1, <2>1, <2>2, CallMoved
  <2>4. Quiet(r)
    BY <1>2, <2>1, <2>3 DEF Quiet
  <2>. QED
    BY <2>4, QuietAccounts
<1>. QED
  BY <1>3, <1>4 DEF StoreStep

\* The answer of a charged request takes its use from the paid to the
\* honoured ones.
LEMMA ChargedAccounts ==
  ASSUME AuthInv, NEW r \in Requests, AnswerCharged(r)
  PROVE  Accounts'
<1>1. ServiceOK /\ Sound(r) /\ Store!StoreInv /\ Accounts
  BY DEF AuthInv
<1>2. req[r].pc = "charging" /\ Usage!Return(r) /\ call[r].pc \in Usage!Outcomes
  BY DEF AnswerCharged
<1>3. /\ granted' = granted /\ call'[r].pc = "idle"
      /\ \A s \in Requests : s # r => call'[s] = call[s]
  BY <1>1, <1>2, CallReturned
<1>4. /\ call[r].op = "Consume" /\ call[r].skip = skipConsume(req[r].in)
      /\ call[r].id = req[r].in.token
  BY <1>1, <1>2 DEF Sound, CallFits, Usage!Outcomes
<1>5. CASE call[r].pc # "allowed" \/ call[r].skip
  <2>1. honoured' = honoured
    <3>1. CASE call[r].skip
      BY <1>4, <3>1 DEF AnswerCharged, Respond
    <3>2. CASE call[r].pc # "allowed"
      <4>1. \E reason : Respond(r, req[r], deny(reason)) \/ Respond(r, req[r], maybeDryRun(deny(reason)))
        BY <3>2 DEF AnswerCharged
      <4>. QED
        BY <4>1, NotHonoured, RefusalsDoNotCount
    <3>. QED
      BY <1>5, <3>1, <3>2
  <2>2. Quiet(r)
    BY <1>3, <2>1 DEF Quiet
  <2>. QED
    BY <2>2, QuietAccounts
<1>6. CASE call[r].pc = "allowed" /\ ~call[r].skip
  <2>1. honoured' \in {honoured, [honoured EXCEPT ![req[r].in.token] = @ + 1]}
    BY DEF AnswerCharged, Respond
  <2> SUFFICES ASSUME NEW t \in Tokens
               PROVE  honoured'[t] + Cardinality(Paid(t)') <= granted'[t]
    BY DEF Accounts
  <2>2. /\ honoured \in [Tokens -> Nat] /\ granted[t] \in Nat
        /\ honoured[t] + Cardinality(Paid(t)) <= granted[t]
    BY <1>1 DEF ServiceOK, Store!StoreInv, Store!TypeOK, Accounts
  <2>3. IsFiniteSet(Paid(t)) /\ Cardinality(Paid(t)) \in Nat
    BY PaidFinite
  <2>4. CASE req[r].in.token = t
    <3>1. r \in Paid(t) /\ Paid(t)' \subseteq Paid(t) \ {r}
      BY <1>3, <1>4, <1>6, <2>4 DEF Paid
    <3>2. IsFiniteSet(Paid(t) \ {r}) /\ Cardinality(Paid(t) \ {r}) = Cardinality(Paid(t)) - 1
      BY <2>3, <3>1, FS_RemoveElement
    <3>3. Cardinality(Paid(t)') <= Cardinality(Paid(t)) - 1 /\ Cardinality(Paid(t)') \in Nat
      BY <3>1, <3>2, FS_Subset, FS_CardinalityType
    <3>4. honoured'[t] \in {honoured[t], honoured[t] + 1}
      BY <2>1, <2>2, <2>4
    <3>. QED
      BY <1>3, <2>2, <2>3, <3>3, <3>4
  <2>5. CASE req[r].in.token # t
    <3>1. Paid(t)' \subseteq Paid(t)
      BY <1>3 DEF Paid
    <3>2. Cardinality(Paid(t)') <= Cardinality(Paid(t)) /\ Cardinality(Paid(t)') \in Nat
      BY <2>3, <3>1, FS_Subset, FS_CardinalityType
    <3>3. honoured'[t] = honoured[t]
      BY <2>1, <2>2, <2>5
    <3>. QED
      BY <1>3, <2>2, <2>3, <3>2, <3>3
  <2>. QED
    BY <2>4, <2>5
<1>. QED
  BY <1>5, <1>6

LEMMA AccountsStep ==
  ASSUME AuthInv, [Next]_vars
  PROVE  Accounts'
<1>1. Accounts /\ ServiceOK
  BY DEF AuthInv
<1>2. ASSUME NEW r \in Requests, NEW in \in Inputs, Arrive(r, in) PROVE Accounts'
  <2>1. UNCHANGED storeVars
    BY <1>2, ArriveStep
  <2>2. Fresh(in).status = "missing"
    BY <1>1, FreshRequest
  <2>3. honoured' = honoured
    BY <1>2, <2>2 DEF Arrive, AnswerEarly, AnswerPendingBlocked, Enter, Advance, Respond, OnTheStrength
  <2>4. req[r].pc = "idle" /\ Sound(r)
    BY <1>2 DEF AuthInv, Arrive, AnswerEarly, AnswerPendingBlocked, Enter, Begin
  <2>5. Quiet(r)
    BY <2>1, <2>3, <2>4 DEF Quiet, storeVars, Sound, CallFits
  <2>. QED
    BY <2>5, QuietAccounts
<1>3. ASSUME NEW r \in Requests, Serve(r) PROVE Accounts'
  BY <1>3, QuietSteps, QuietAccounts, StoreAccounts, ChargedAccounts
<1>4. ASSUME UNCHANGED <<honoured, granted, call>> PROVE Accounts'
  BY <1>1, <1>4 DEF Accounts, Paid
<1>5. CASE Maintenance
  BY <1>4, <1>5 DEF Maintenance, serviceVars, Usage!CleanupStart, Usage!CleanupExpired, Usage!RedisEvict
<1>6. CASE Shutdown
  BY <1>4, <1>6 DEF Shutdown, storeVars, Usage!Close
<1>7. CASE Tick
  BY <1>4, <1>7 DEF Tick, serviceVars, Usage!Tick
<1>8. CASE Terminated \/ UNCHANGED vars
  BY <1>4, <1>8 DEF Terminated, vars, serviceVars, storeVars
<1>. QED
  BY <1>2, <1>3, <1>5, <1>6, <1>7, <1>8 DEF Next

(***************************************************************************)
(* The invariant, and the theorems.                                        *)
(***************************************************************************)
LEMMA InitInv == Init => AuthInv
<1> SUFFICES ASSUME Init PROVE AuthInv
  OBVIOUS
<1>1. Limiter!BlockerInv
  BY LimiterAssumes, SameLimiter, Limiter!InitInv DEF Init
<1>2. Store!StoreInv
  BY StoreAssumes, SameStore, Store!InitInv DEF Init
<1>3. ServiceOK
  BY DEF Init, ServiceOK
<1>4. /\ \A r \in Requests : req[r].pc = "idle" /\ verdict[r] = "none" /\ call[r].pc = "idle"
      /\ granted = [t \in Tokens |-> 0] /\ honoured = [t \in Tokens |-> 0]
  BY DEF Init, Idle, Pending!Init, Usage!Init, Usage!Idle
<1>5. \A r \in Requests : Sound(r)
  BY <1>4 DEF Sound, SlotHeld, TokenSound, CallFits
<1>6. Accounts
  <2> SUFFICES ASSUME NEW t \in Tokens PROVE honoured[t] + Cardinality(Paid(t)) <= granted[t]
    BY DEF Accounts
  <2>1. Paid(t) = {}
    BY <1>4 DEF Paid
  <2>. QED
    BY <1>4, <2>1, FS_EmptySet
<1>. QED
  BY <1>1, <1>2, <1>3, <1>5, <1>6 DEF AuthInv

LEMMA StepInv == AuthInv /\ [Next]_vars => AuthInv'
<1> SUFFICES ASSUME AuthInv, [Next]_vars PROVE AuthInv'
  OBVIOUS
<1>1. ServiceOK /\ Limiter!BlockerInv /\ Store!StoreInv
  BY DEF AuthInv
<1>2. [Pending!Next]_(Pending!blockerVars) /\ [Usage!Next]_(Usage!storeVars)
  BY <1>1, ComponentSteps
<1>3. [Limiter!Next]_(Limiter!blockerVars)
  BY <1>2, SameLimiter DEF Pending!blockerVars, Limiter!blockerVars
<1>4. [Store!Next]_(Store!storeVars)
  BY <1>2, SameStore DEF Usage!storeVars, Store!storeVars
<1>5. Limiter!BlockerInv'
  BY <1>1, <1>3, LimiterAssumes, Limiter!StepInv
<1>6. Store!StoreInv'
  BY <1>1, <1>4, StoreAssumes, Store!StepInv
<1>7. ServiceOK' /\ \A r \in Requests : Sound(r)'
  BY SoundStep
<1>8. Accounts'
  BY AccountsStep
<1>. QED
  BY <1>5, <1>6, <1>7, <1>8 DEF AuthInv

LEMMA AuthCorrect == Spec => []AuthInv
BY InitInv, StepInv, PTL DEF Spec

\* Type correctness of the service with its limiter and its store.
THEOREM TypeCorrect == Spec => []TypeOK
<1>1. AuthInv => TypeOK
  <2> SUFFICES ASSUME AuthInv PROVE TypeOK
    OBVIOUS
  <2>1. ServiceOK /\ Limiter!TypeOK /\ Store!TypeOK
    BY DEF AuthInv, Limiter!BlockerInv, Store!StoreInv
  <2>2. Pending!TypeOK
    BY <2>1 DEF Limiter!TypeOK, Pending!TypeOK, Limiter!Entry, Pending!Entry,
                Limiter!Verdicts, Pending!Verdicts
  <2>3. Usage!TypeOK
    BY <2>1 DEF Store!TypeOK, Usage!TypeOK, Store!Call, Usage!Call, Store!Idle, Usage!Idle,
                Store!Record, Usage!Record, Store!Outcomes, Usage!Outcomes,
                Store!Working, Usage!Working
  <2>. QED
    BY <2>1, <2>2, <2>3 DEF TypeOK, ServiceOK
<1>. QED
  BY <1>1, AuthCorrect, PTL

\* Every path of Verify that lets a counted request through on a generic
\* token has charged it, and no token is charged more than max_uses times.
THEOREM HonouredInQuota == Spec => []HonouredWithinQuota
<1>1. AuthInv => HonouredWithinQuota
  <2> SUFFICES ASSUME AuthInv, NEW t \in Tokens
               PROVE  honoured[t] <= granted[t] /\ granted[t] <= Limit[t]
    BY DEF HonouredWithinQuota
  <2>1. honoured[t] \in Nat /\ honoured[t] + Cardinality(Paid(t)) <= granted[t]
    BY DEF AuthInv, ServiceOK, Accounts
  <2>2. /\ granted[t] \in Nat /\ charged[t] \in Nat /\ Limit[t] \in Nat
        /\ granted[t] <= charged[t] /\ charged[t] <= Limit[t]
    BY StoreAssumption DEF AuthInv, Store!StoreInv, Store!TypeOK, Store!RecordsExact
  <2>. QED
    BY <2>1, <2>2, PaidFinite
<1>. QED
  BY <1>1, AuthCorrect, PTL

\* The limiter's holders of an address are the requests in flight for it.
LEMMA HoldersInFlight ==
  ASSUME AuthInv, NEW ip \in IPs
  PROVE  Limiter!Holders(ip) = InFlight(ip)
<1>1. ASSUME NEW r \in Requests PROVE r \in Limiter!Holders(ip) <=> r \in InFlight(ip)
  <2>1. SlotHeld(r)
    BY DEF AuthInv, Sound
  <2>. QED
    BY <2>1 DEF SlotHeld, Limiter!Holders, InFlight, Unentered
<1>. QED
  BY <1>1 DEF Limiter!Holders, InFlight

\* The limiter counts exactly the work in progress, on every path of Verify.
THEOREM SlotsMatch == Spec => []SlotsMatchInFlight
<1>1. AuthInv => SlotsMatchInFlight
  <2> SUFFICES ASSUME AuthInv, ~pendingClosed, NEW ip \in IPs
               PROVE  Pending!Lookup(entries, ip).pending = Cardinality(InFlight(ip))
    BY DEF SlotsMatchInFlight
  <2>1. Limiter!Lookup(entries, ip).pending = Limiter!Cardinality(Limiter!Holders(ip))
    BY DEF AuthInv, Limiter!BlockerInv, Limiter!PendingCountsHolders
  <2>2. Limiter!Cardinality(InFlight(ip)) = Cardinality(InFlight(ip))
    BY DEF Limiter!Cardinality, Cardinality
  <2>3. Limiter!Lookup(entries, ip) = Pending!Lookup(entries, ip)
    BY DEF Limiter!Lookup, Pending!Lookup, Limiter!zeroEntry, Pending!zeroEntry
  <2>. QED
    BY <2>1, <2>2, <2>3, HoldersInFlight
<1>. QED
  BY <1>1, AuthCorrect, PTL

\* max_per_ip bounds the requests of one client that Verify works on.
THEOREM InFlightIsBounded == Spec => []InFlightBounded
<1>1. AuthInv => InFlightBounded
  <2> SUFFICES ASSUME AuthInv, NEW ip \in IPs
               PROVE  Cardinality(InFlight(ip)) <= Pending!maxPerIP
    BY DEF InFlightBounded
  <2>1. Limiter!Cardinality(Limiter!Holders(ip)) <= Limiter!maxPerIP
    BY DEF AuthInv, Limiter!BlockerInv, Limiter!LimitRespected
  <2>2. Limiter!Cardinality(InFlight(ip)) = Cardinality(InFlight(ip))
    BY DEF Limiter!Cardinality, Cardinality
  <2>3. Limiter!maxPerIP = Pending!maxPerIP
    BY DEF Limiter!maxPerIP, Pending!maxPerIP
  <2>. QED
    BY <2>1, <2>2, <2>3, HoldersInFlight
<1>. QED
  BY <1>1, AuthCorrect, PTL

\* Verify keeps to the limiter's and to the store's specification, so all
\* that is proved of them holds of the service.
THEOREM ComponentsRespected == Spec => Pending!Spec /\ Usage!Spec
<1>1. Init => Pending!Init /\ Usage!Init
  BY DEF Init
<1>2. AuthInv => ServiceOK
  BY DEF AuthInv
<1>3. AuthInv /\ [Next]_vars => [Pending!Next]_(Pending!blockerVars) /\ [Usage!Next]_(Usage!storeVars)
  BY <1>2, ComponentSteps
<1>. QED
  BY <1>1, <1>3, AuthCorrect, PTL DEF Spec, Pending!Spec, Usage!Spec

\* Over all of Verify's paths the service grants no more than the abstract
\* quota does.
THEOREM QuotaKept == Spec => Store!QuotaRefined
<1>1. Init => Store!Init
  BY SameStore DEF Init
<1>2. AuthInv /\ [Next]_vars => [Store!Next]_(Store!storeVars)
  <2>1. AuthInv /\ [Next]_vars => [Usage!Next]_(Usage!storeVars)
    BY ComponentSteps DEF AuthInv
  <2>. QED
    BY <2>1, SameStore DEF Usage!storeVars, Store!storeVars
<1>3. Spec => Store!Spec
  BY <1>1, <1>2, AuthCorrect, PTL DEF Spec, Store!Spec
<1>. QED
  BY <1>3, StoreAssumes, Store!QuotaImplemented

\* A request whose token has a running call has a good token.
LEMMA GoodWhileCalling ==
  ASSUME AuthInv, NEW r \in Requests, req[r].pc # "idle", call[r].pc # "idle"
  PROVE  GoodFor(req[r].in.token, req[r].in)
<1>1. Sound(r) /\ Store!TypeOK /\ Store!LagKept
  BY DEF AuthInv, Store!StoreInv
<1>2. req[r].status = "valid" /\ call[r].id = req[r].in.token
  BY <1>1 DEF Sound, CallFits
<1>3. clock < Expiry[req[r].in.token] + MaxLag
  <2>1. call[r] \in Store!Call
    BY <1>1 DEF Store!TypeOK, Store!Idle
  <2>2. call[r].since \in Nat /\ call[r].id \in Tokens /\ clock \in Nat
    BY <1>1, <2>1 DEF Store!Call, Store!TypeOK
  <2>3. call[r].since < Expiry[call[r].id] /\ clock <= call[r].since + MaxLag
    BY <1>1 DEF Store!LagKept, Store!Active
  <2>. QED
    BY <1>2, <2>2, <2>3, StoreAssumption
<1>. QED
  BY <1>1, <1>2, <1>3 DEF Sound, TokenSound, TokenIn, GoodFor

\* The answers that speak for a token are given with its call still open.
LEMMA GoodAnswers ==
  ASSUME AuthInv, NEW r \in Requests, Serve(r),
         req'[r].pc = "answered", req'[r].res \in {allow("pow_valid"), allow("require_pow_pass")},
         req'[r] # req[r]
  PROVE  req'[r].in = req[r].in /\ call[r].pc # "idle" /\ req[r].pc # "idle"
<1>1. ServiceOK /\ Sound(r) /\ Store!StoreInv /\ DOMAIN req = Requests
  BY DEF AuthInv, ServiceOK
<1> DEFINE Good == {allow("pow_valid"), allow("require_pow_pass")}
<1>2. \A reason : deny(reason) \notin Good /\ maybeDryRun(deny(reason)) \notin Good
  BY DEF deny, allow, maybeDryRun
<1>3. \A reason \in {"risk_accept", "not_protected", "pow_disabled"} : allow(reason) \notin Good
  BY DEF allow
<1>4. req[r].pc # "idle"
  BY DEF Serve, Classify, AnswerRiskDeny, EvaluateFailed, AnswerRequirePowDeny, AnswerAcceptUncharged,
         AllowByRisk, AnswerWithoutPow, AnswerPowOnlyDeny, Revalidate, PowOnly, finalizeByMode,
         StoreStep, AnswerCharged, ReadBinding, RecordBinding, AnswerBinding, Finish
<1>5. req[r] \in Request
  BY <1>1, <1>4, Serving
<1>6. ASSUME NEW q \in Request, NEW res, Respond(r, q, res)
      PROVE  req'[r].res = res /\ req'[r].in = q.in
  BY <1>1, <1>6 DEF Respond, Request
<1>7. ASSUME NEW res, Respond(r, req[r], res), res \notin Good PROVE FALSE
  BY <1>5, <1>6, <1>7
<1>8. ASSUME NEW res, Respond(r, req[r], res), Usage!Return(r)
      PROVE  req'[r].in = req[r].in /\ call[r].pc # "idle"
  BY <1>1, <1>5, <1>6, <1>8, CallReturned
<1>9. ASSUME NEW q, Advance(r, q), q.pc # "answered" PROVE FALSE
  BY <1>1, <1>9 DEF Advance
<1> HIDE DEF Good
<1>10. CASE Classify(r)
  <2> DEFINE q == [req[r] EXCEPT !.status = IF cfg.powEnabled THEN classifyPoW(req[r].in, clock) ELSE "missing",
                                 !.pc = IF cfg.riskControl THEN "risk" ELSE "fallback"]
  <2>1. Advance(r, q)
    BY <1>10 DEF Classify
  <2>2. q.pc # "answered"
    BY <1>5 DEF Request
  <2>. QED
    BY <1>9, <2>1, <2>2
<1>11. CASE AnswerRiskDeny(r) \/ AnswerRequirePowDeny(r) \/ AnswerPowOnlyDeny(r)
  <2>1. \E reason : Respond(r, req[r], deny(reason)) \/ Respond(r, req[r], maybeDryRun(deny(reason)))
    BY <1>11 DEF AnswerRiskDeny, AnswerRequirePowDeny, AnswerPowOnlyDeny
  <2>. QED
    BY <1>2, <1>7, <2>1
<1>12. CASE EvaluateFailed(r) \/ Revalidate(r) \/ RecordBinding(r)
  BY <1>1, <1>5, <1>12 DEF EvaluateFailed, Revalidate, RecordBinding, Advance, Request
<1>13. CASE ReadBinding(r)
  <2> DEFINE pc == IF req[r].in.token \notin DOMAIN records THEN "unbound"
                   ELSE IF sameIP(records[req[r].in.token].firstIP, req[r].in.addr) THEN "bound"
                   ELSE "mismatch"
  <2>1. Advance(r, [req[r] EXCEPT !.pc = pc])
    BY <1>13 DEF ReadBinding
  <2>2. pc # "answered"
    OBVIOUS
  <2> HIDE DEF pc
  <2>3. [req[r] EXCEPT !.pc = pc].pc # "answered"
    BY <1>5, <2>2 DEF Request
  <2>. QED
    BY <1>9, <2>1, <2>3
<1>14. CASE AnswerAcceptUncharged(r)
  <2>1. Respond(r, [req[r] EXCEPT !.path = "accept"], allow("risk_accept"))
    BY <1>14 DEF AnswerAcceptUncharged
  <2>2. [req[r] EXCEPT !.path = "accept"] \in Request
    BY <1>5 DEF Request
  <2>. QED
    BY <1>3, <1>6, <2>1, <2>2 DEF Good
<1>15. CASE AnswerWithoutPow(r)
  <2>1. \E reason \in {"not_protected", "pow_disabled"} : Respond(r, req[r], allow(reason))
    BY <1>15 DEF AnswerWithoutPow
  <2>. QED
    BY <1>3, <1>7, <2>1
<1>16. CASE AllowByRisk(r)
  <2>1. PICK path \in {"accept", "require_pow"} :
          LET q == [req[r] EXCEPT !.path = path]
          IN  \/ Advance(r, [q EXCEPT !.pc = "charging"])
              \/ Advance(r, [q EXCEPT !.pc = "binding"])
              \/ Usage!Return(r) /\ Respond(r, q, allow(allowReason(path)))
    BY <1>16, Zenon DEF AllowByRisk
  <2> DEFINE q == [req[r] EXCEPT !.path = path]
  <2>2. q \in Request /\ q.in = req[r].in
    BY <1>5 DEF Request
  <2>3. [q EXCEPT !.pc = "charging"].pc # "answered" /\ [q EXCEPT !.pc = "binding"].pc # "answered"
    BY <2>2 DEF Request
  <2>4. \/ Advance(r, [q EXCEPT !.pc = "charging"])
        \/ Advance(r, [q EXCEPT !.pc = "binding"])
        \/ Usage!Return(r) /\ Respond(r, q, allow(allowReason(path)))
    BY <2>1, Zenon
  <2> HIDE DEF q
  <2>. QED
    BY <1>1, <1>4, <1>6, <1>9, <2>2, <2>3, <2>4, CallReturned
<1>17. CASE finalizeByMode(r)
  <2>1. \/ Advance(r, [req[r] EXCEPT !.pc = "charging"])
        \/ Advance(r, [req[r] EXCEPT !.pc = "binding"])
        \/ Usage!Return(r) /\ Respond(r, req[r], allow("pow_valid"))
    BY <1>17, Zenon DEF finalizeByMode
  <2>2. [req[r] EXCEPT !.pc = "charging"].pc # "answered" /\ [req[r] EXCEPT !.pc = "binding"].pc # "answered"
    BY <1>5 DEF Request
  <2>. QED
    BY <1>4, <1>8, <1>9, <2>1, <2>2
<1>18. CASE AnswerCharged(r) \/ AnswerBinding(r)
  BY <1>4, <1>8, <1>18 DEF AnswerCharged, AnswerBinding
<1>19. CASE StoreStep(r)
  BY <1>19 DEF StoreStep, serviceVars
<1>20. CASE Finish(r)
  BY <1>1, <1>20 DEF Finish, Idle
<1>. QED
  BY <1>10, <1>11, <1>12, <1>13, <1>14, <1>15, <1>16, <1>17, <1>18, <1>19, <1>20 DEF Serve

\* A request that is let through because of its token had a good one, with
\* at most the lag of a call between the last test of it and the answer.
THEOREM AllowsJustified == Spec => AllowJustified
<1> DEFINE Step ==
      \A r \in Requests :
        (req'[r].pc = "answered" /\ req'[r] # req[r]
           /\ req'[r].res \in {allow("pow_valid"), allow("require_pow_pass")})
        => GoodFor(req'[r].in.token, req'[r].in)
<1>1. AuthInv /\ [Next]_vars => [Step]_vars
  <2> SUFFICES ASSUME AuthInv, Next, NEW r \in Requests,
                      req'[r].pc = "answered", req'[r] # req[r],
                      req'[r].res \in {allow("pow_valid"), allow("require_pow_pass")}
               PROVE  GoodFor(req'[r].in.token, req'[r].in)
    OBVIOUS
  <2>1. Serve(r)
    <3>1. ASSUME NEW s \in Requests, NEW in \in Inputs, Arrive(s, in) PROVE FALSE
      <4>1. ServiceOK
        BY DEF AuthInv
      <4>2. Kept(s)
        BY <3>1, ArriveSound
      <4>3. s = r
        BY <4>2 DEF Kept
      <4>4. Fresh(in) \in Request /\ Fresh(in).pc = "entered"
        BY <4>1, FreshRequest
      <4>5. ~Enter(r, in)
        BY <4>1, <4>4, Advanced DEF Enter
      <4>6. PICK res \in {allow("bypass_all"), deny("missing_headers"), deny("ip_pending_blocked")} : Respond(r, Fresh(in), res)
        BY <3>1, <4>3, <4>5 DEF Arrive, AnswerEarly, AnswerPendingBlocked
      <4>7. req'[r].res = res
        BY <4>1, <4>4, <4>6 DEF Respond, ServiceOK, Request
      <4>. QED
        BY <4>6, <4>7 DEF allow, deny
    <3>2. ASSUME NEW s \in Requests, Serve(s) PROVE s = r
      <4>1. Kept(s)
        BY <3>2, ServeSound
      <4>. QED
        BY <4>1 DEF Kept
    <3>3. ~Maintenance /\ ~Shutdown /\ ~Tick /\ ~Terminated
      BY DEF Maintenance, Shutdown, Tick, Terminated, serviceVars, vars
    <3>. QED
      BY <3>1, <3>2, <3>3 DEF Next
  <2>2. req'[r].in = req[r].in /\ call[r].pc # "idle" /\ req[r].pc # "idle"
    BY <2>1, GoodAnswers
  <2>. QED
    BY <2>2, GoodWhileCalling
<1>. QED
  BY <1>1, AuthCorrect, PTL DEF Spec, AllowJustified

(***************************************************************************)
(* Empty-ip tokens on the memory driver.                                   *)
(***************************************************************************)
Binders == {"unbound", "bound", "mismatch", "recording"}

\* The addresses that late arrivals were let through from with t, or are
\* about to be.
Claims(t) ==
  {x.addr : x \in {y \in served[t] : y.late}}
    \union {req[r].in.addr : r \in {s \in Requests : /\ req[s].pc = "bound" /\ req[s].in.token = t
                                                     /\ req[s].late}}

\* The binding of t was recorded, and is on record unless the store has been
\* closed since.
OnRecord(t) == t \in DOMAIN records \/ storeClosed

\* Where a request with an empty-ip token stands.
BindingFits(r) ==
  LET q == req[r]
      c == call[r]
  IN  /\ q.pc # "idle" /\ q.late => q.in.token \in Tokens /\ served[q.in.token] # {}
      /\ q.pc \in {"bound", "mismatch"} => OnRecord(q.in.token)
      /\ q.pc = "unbound" /\ q.late => storeClosed
      /\ q.pc = "recording" =>
           /\ c.pc \in {"check", "body", "closed", "panic", "allowed", "used_up"}
           /\ c.pc \in {"allowed", "used_up"} => OnRecord(q.in.token)
           /\ q.late => storeClosed /\ c.pc \in {"check", "closed"}

LateInv ==
  /\ driver = "memory"
  /\ \A r \in Requests : BindingFits(r)
  /\ \A t \in Tokens :
       /\ served[t] # {} => OnRecord(t) \/ clock >= Expiry[t] + Grace
       /\ \A a, b \in Claims(t) : sameIP(a, b)
       /\ t \in DOMAIN records => \A a \in Claims(t) : sameIP(records[t].firstIP, a)

\* sameIP compares clients: two spellings of one client with a third.
LEMMA SameClient ==
  ASSUME NEW a, NEW b, NEW c, sameIP(a, b), sameIP(a, c)
  PROVE  sameIP(b, c) /\ sameIP(b, a) /\ sameIP(b, b)
BY DEF sameIP

\* A token with a running call is not past its grace period.
LEMMA CallingMeansAlive ==
  ASSUME AuthInv, NEW r \in Requests, call[r].pc # "idle"
  PROVE  call[r].id \in Tokens /\ ~(clock >= Expiry[call[r].id] + Grace)
<1>1. Store!TypeOK /\ Store!LagKept
  BY DEF AuthInv, Store!StoreInv
<1>2. call[r] \in Store!Call
  BY <1>1 DEF Store!TypeOK, Store!Idle
<1>3. call[r].since \in Nat /\ call[r].id \in Tokens /\ clock \in Nat
  BY <1>1, <1>2 DEF Store!Call, Store!TypeOK
<1>4. call[r].since < Expiry[call[r].id] /\ clock <= call[r].since + MaxLag
  BY <1>1 DEF Store!LagKept, Store!Active
<1>. QED
  BY <1>3, <1>4, StoreAssumption

\* A step of r that touches no binding.
LEMMA QuietLate ==
  ASSUME LateInv, NEW r \in Requests, Kept(r),
         UNCHANGED <<driver, served, records, storeClosed, clock>>,
         req'[r].pc \notin Binders,
         req'[r].pc # "idle" /\ req'[r].late =>
           req'[r].in.token \in Tokens /\ served[req'[r].in.token] # {}
  PROVE  LateInv'
<1>1. \A s \in Requests : s # r => req'[s] = req[s] /\ call'[s] = call[s]
  BY DEF Kept
<1>2. \A s \in Requests : BindingFits(s)'
  <2>1. BindingFits(r)'
    BY DEF BindingFits, Binders
  <2>2. ASSUME NEW s \in Requests, s # r PROVE BindingFits(s)'
    BY <1>1, <2>2 DEF LateInv, BindingFits, OnRecord
  <2>. QED
    BY <2>1, <2>2
<1>3. ASSUME NEW t \in Tokens PROVE Claims(t)' \subseteq Claims(t)
  BY <1>1 DEF Claims, Binders
<1>4. ASSUME NEW t \in Tokens
      PROVE  /\ served'[t] # {} => OnRecord(t)' \/ clock' >= Expiry[t] + Grace
             /\ \A a, b \in Claims(t)' : sameIP(a, b)
             /\ t \in DOMAIN records' => \A a \in Claims(t)' : sameIP(records'[t].firstIP, a)
  BY <1>3 DEF LateInv, OnRecord
<1>. QED
  BY <1>2, <1>4 DEF LateInv

\* A step that moves the clock, the records or the store only.
LEMMA StoreLate ==
  ASSUME LateInv, UNCHANGED <<driver, served, req, call>>,
         \A t \in Tokens : OnRecord(t) => OnRecord(t)' \/ clock' >= Expiry[t] + Grace,
         \A r \in Requests : call[r].pc # "idle" /\ OnRecord(req[r].in.token) => OnRecord(req[r].in.token)',
         storeClosed => storeClosed',
         \A t \in Tokens : clock >= Expiry[t] + Grace => clock' >= Expiry[t] + Grace,
         \A t \in DOMAIN records' : t \in DOMAIN records /\ records'[t] = records[t],
         AuthInv
  PROVE  LateInv'
<1>1. ASSUME NEW r \in Requests PROVE BindingFits(r)'
  <2>1. BindingFits(r) /\ CallFits(r)
    BY DEF LateInv, AuthInv, Sound
  <2>2. req[r].pc \in {"bound", "mismatch", "recording"} => call[r].pc # "idle"
    BY <2>1 DEF CallFits, Consuming, Usage!Outcomes
  <2>. QED
    BY <2>1, <2>2 DEF BindingFits
<1>2. ASSUME NEW t \in Tokens PROVE Claims(t)' = Claims(t)
  BY DEF Claims
<1>3. ASSUME NEW t \in Tokens
      PROVE  /\ served'[t] # {} => OnRecord(t)' \/ clock' >= Expiry[t] + Grace
             /\ \A a, b \in Claims(t)' : sameIP(a, b)
             /\ t \in DOMAIN records' => \A a \in Claims(t)' : sameIP(records'[t].firstIP, a)
  BY <1>2 DEF LateInv
<1>. QED
  BY <1>1, <1>3 DEF LateInv

\* An answer is entered in served only for a token that needed a binding.
LEMMA NotServed ==
  ASSUME NEW r, NEW q, NEW res, Respond(r, q, res), ~OnTheStrength(q, res) \/ ~NeedsBinding(q)
  PROVE  served' = served
BY DEF Respond, NeedsBinding

\* What a caller does leaves the records alone.
LEMMA CallerKeeps ==
  ASSUME NEW r,
         \/ Usage!Return(r) \/ Usage!CallGet(r) \/ Drop(r) \/ UNCHANGED <<clock, storeVars>>
         \/ \E t, a : Usage!Validate(r, t, a)
         \/ \E fresh, skip : Usage!CallConsume(r, fresh, skip)
  PROVE  UNCHANGED <<driver, records, storeClosed, clock>>
BY DEF Usage!Return, Usage!CallGet, Drop, Usage!Validate, Usage!CallConsume, storeVars

\* The steps of Verify that have nothing to do with a binding.
LEMMA ServeLate ==
  ASSUME AuthInv, LateInv, NEW r \in Requests, Serve(r),
         ~ReadBinding(r), ~RecordBinding(r), ~AnswerBinding(r), ~StoreStep(r)
  PROVE  LateInv'
<1>1. ServiceOK /\ Sound(r) /\ Store!StoreInv /\ DOMAIN req = Requests /\ BindingFits(r)
  BY DEF AuthInv, ServiceOK, LateInv
<1>2. Kept(r)
  BY ServeSound
<1> DEFINE Same == UNCHANGED <<driver, records, storeClosed, clock>>
<1>3. ASSUME NEW q \in Request, q.in = req[r].in, q.late = req[r].late, req[r].pc # "idle",
             q.pc \notin Binders, Advance(r, q), Same
      PROVE  LateInv'
  <2>1. req'[r] = q /\ served' = served
    BY <1>1, <1>3 DEF Advance
  <2>. QED
    BY <1>1, <1>2, <1>3, <2>1, QuietLate DEF BindingFits
<1>4. ASSUME NEW q \in Request, q.in = req[r].in, q.late = req[r].late, req[r].pc # "idle",
             NEW res, Respond(r, q, res), ~OnTheStrength(q, res) \/ ~NeedsBinding(q), Same
      PROVE  LateInv'
  <2>1. req'[r].pc = "answered" /\ req'[r].in = q.in /\ req'[r].late = q.late
    BY <1>1, <1>4 DEF Respond, Request
  <2>2. served' = served
    BY <1>4, NotServed
  <2>. QED
    BY <1>1, <1>2, <1>4, <2>1, <2>2, QuietLate DEF BindingFits, Binders
<1>5. req[r].pc # "idle" => req[r] \in Request
  BY <1>1, Serving
<1>6. ASSUME NEW reason, req[r].pc # "idle", Same,
             Respond(r, req[r], deny(reason)) \/ Respond(r, req[r], maybeDryRun(deny(reason)))
      PROVE  LateInv'
  BY <1>4, <1>5, <1>6, RefusalsDoNotCount
<1> HIDE DEF Same
<1>7. CASE Classify(r)
  <2> DEFINE status == IF cfg.powEnabled THEN classifyPoW(req[r].in, clock) ELSE "missing"
             q == [req[r] EXCEPT !.status = status, !.pc = IF cfg.riskControl THEN "risk" ELSE "fallback"]
  <2>1. /\ req[r].pc = "entered" /\ Advance(r, q)
        /\ Usage!Validate(r, req[r].in.token, req[r].in.addr) \/ UNCHANGED <<clock, storeVars>>
    BY <1>7 DEF Classify
  <2>2. req[r] \in Request /\ req[r].in \in Input
    BY <1>1, <2>1, Serving
  <2>3. status \in Statuses
    BY <2>2, Classified DEF Statuses
  <2> HIDE DEF status
  <2>4. q \in Request /\ q.in = req[r].in /\ q.late = req[r].late /\ q.pc \notin Binders
    BY <2>2, <2>3 DEF Request, Binders
  <2> HIDE DEF q
  <2>5. Same
    BY <2>1, CallerKeeps DEF Same
  <2>. QED
    BY <1>3, <2>1, <2>4, <2>5
<1>8. CASE AnswerRiskDeny(r) \/ AnswerRequirePowDeny(r) \/ AnswerPowOnlyDeny(r)
  <2>1. /\ req[r].pc # "idle" /\ (Drop(r) \/ UNCHANGED <<clock, storeVars>>)
        /\ \E reason : Respond(r, req[r], deny(reason)) \/ Respond(r, req[r], maybeDryRun(deny(reason)))
    BY <1>8 DEF AnswerRiskDeny, AnswerRequirePowDeny, AnswerPowOnlyDeny, PowOnly
  <2>2. Same
    BY <2>1, CallerKeeps DEF Same
  <2>. QED
    BY <1>6, <2>1, <2>2
<1>9. CASE EvaluateFailed(r)
  <2> DEFINE q == [req[r] EXCEPT !.pc = "fallback"]
  <2>1. req[r].pc = "risk" /\ Advance(r, q) /\ UNCHANGED <<clock, storeVars>>
    BY <1>9 DEF EvaluateFailed
  <2>2. q \in Request /\ q.in = req[r].in /\ q.late = req[r].late /\ q.pc \notin Binders
    BY <1>5, <2>1 DEF Request, Binders
  <2>3. Same
    BY <2>1, CallerKeeps DEF Same
  <2> HIDE DEF q
  <2>. QED
    BY <1>3, <2>1, <2>2, <2>3
<1>10. CASE AnswerAcceptUncharged(r)
  <2> DEFINE q == [req[r] EXCEPT !.path = "accept"]
  <2>1. /\ req[r].pc = "risk" /\ req[r].status # "valid" /\ Respond(r, q, allow("risk_accept"))
        /\ UNCHANGED <<clock, storeVars>>
    BY <1>10 DEF AnswerAcceptUncharged
  <2>2. q \in Request /\ q.in = req[r].in /\ q.late = req[r].late /\ q.status = req[r].status
    BY <1>5, <2>1 DEF Request
  <2> HIDE DEF q
  <2>3. ~OnTheStrength(q, allow("risk_accept"))
    BY <2>1, <2>2 DEF OnTheStrength
  <2>4. Same
    BY <2>1, CallerKeeps DEF Same
  <2>. QED
    BY <1>4, <2>1, <2>2, <2>3, <2>4
<1>11. ASSUME NEW q \in Request, q.in = req[r].in, q.late = req[r].late, req[r].pc # "idle", NEW res,
              \/ \E fresh : Usage!CallConsume(r, fresh, skipConsume(q.in)) /\ Advance(r, [q EXCEPT !.pc = "charging"])
              \/ Usage!CallGet(r) /\ Advance(r, [q EXCEPT !.pc = "binding"])
              \/ TokenIn(q).ip # "" /\ Usage!Return(r) /\ Respond(r, q, res)
       PROVE  LateInv'
  <2>1. Same
    BY <1>11, CallerKeeps DEF Same
  <2>2. ASSUME NEW pc \in {"charging", "binding"}, Advance(r, [q EXCEPT !.pc = pc]) PROVE LateInv'
    <3> DEFINE p == [q EXCEPT !.pc = pc]
    <3>1. p \in Request /\ p.in = req[r].in /\ p.late = req[r].late /\ p.pc \notin Binders /\ Advance(r, p)
      BY <1>11, <2>2 DEF Request, Binders
    <3> HIDE DEF p
    <3>. QED
      BY <1>3, <1>11, <2>1, <3>1
  <2>3. ASSUME TokenIn(q).ip # "", Respond(r, q, res) PROVE LateInv'
    BY <1>4, <1>11, <2>1, <2>3 DEF NeedsBinding
  <2>. QED
    BY <1>11, <2>2, <2>3
<1>12. CASE AllowByRisk(r)
  <2>1. PICK path \in {"accept", "require_pow"} :
          LET q == [req[r] EXCEPT !.path = path]
          IN  \/ Usage!CallConsume(r, TRUE, skipConsume(q.in)) /\ Advance(r, [q EXCEPT !.pc = "charging"])
              \/ Usage!CallGet(r) /\ Advance(r, [q EXCEPT !.pc = "binding"])
              \/ /\ TokenIn(q).ip # ""
                 /\ Usage!Return(r) /\ Respond(r, q, allow(allowReason(path)))
    BY <1>12, Zenon DEF AllowByRisk
  <2> DEFINE q == [req[r] EXCEPT !.path = path]
  <2>2. req[r].pc = "risk"
    BY <1>12 DEF AllowByRisk
  <2>3. q \in Request /\ q.in = req[r].in /\ q.late = req[r].late
    BY <1>5, <2>2 DEF Request
  <2>4. \/ Usage!CallConsume(r, TRUE, skipConsume(q.in)) /\ Advance(r, [q EXCEPT !.pc = "charging"])
        \/ Usage!CallGet(r) /\ Advance(r, [q EXCEPT !.pc = "binding"])
        \/ TokenIn(q).ip # "" /\ Usage!Return(r) /\ Respond(r, q, allow(allowReason(path)))
    BY <2>1, Zenon
  <2> HIDE DEF q
  <2>. QED
    BY <1>11, <2>2, <2>3, <2>4
<1>13. CASE finalizeByMode(r)
  <2>1. /\ req[r].pc = "finalize"
        /\ \/ Usage!CallConsume(r, FALSE, skipConsume(req[r].in)) /\ Advance(r, [req[r] EXCEPT !.pc = "charging"])
           \/ Usage!CallGet(r) /\ Advance(r, [req[r] EXCEPT !.pc = "binding"])
           \/ TokenIn(req[r]).ip # "" /\ Usage!Return(r) /\ Respond(r, req[r], allow("pow_valid"))
    BY <1>13, Zenon DEF finalizeByMode
  <2>. QED
    BY <1>5, <1>11, <2>1
<1>14. CASE AnswerWithoutPow(r)
  <2> DEFINE res == allow(IF cfg.powEnabled THEN "not_protected" ELSE "pow_disabled")
  <2>1. Respond(r, req[r], res) /\ Drop(r) /\ req[r].pc = "fallback"
    BY <1>14 DEF AnswerWithoutPow
  <2>2. ~OnTheStrength(req[r], res)
    BY <1>1, <2>1 DEF Sound, TokenSound, OnTheStrength, allow
  <2> HIDE DEF res
  <2>3. Same
    BY <2>1, CallerKeeps DEF Same
  <2>. QED
    BY <1>4, <1>5, <2>1, <2>2, <2>3
<1>15. CASE Revalidate(r)
  <2> DEFINE q == [req[r] EXCEPT !.pc = "finalize", !.status = "valid"]
  <2>1. req[r].pc = "fallback" /\ Advance(r, q) /\ Usage!Validate(r, req[r].in.token, req[r].in.addr)
    BY <1>15 DEF Revalidate, PowOnly
  <2>2. q \in Request /\ q.in = req[r].in /\ q.late = req[r].late /\ q.pc \notin Binders
    BY <1>5, <2>1 DEF Request, Binders, Statuses
  <2>3. Same
    BY <2>1, CallerKeeps DEF Same
  <2> HIDE DEF q
  <2>. QED
    BY <1>3, <2>1, <2>2, <2>3
<1>16. CASE AnswerCharged(r)
  <2>1. req[r].pc = "charging" /\ Usage!Return(r) /\ \E res : Respond(r, req[r], res)
    BY <1>16 DEF AnswerCharged
  <2>2. ~NeedsBinding(req[r])
    BY <1>1, <2>1 DEF Sound, CallFits, NeedsBinding
  <2>3. Same
    BY <2>1, CallerKeeps DEF Same
  <2>. QED
    BY <1>4, <1>5, <2>1, <2>2, <2>3
<1>17. CASE Finish(r)
  <2>1. served' = served /\ req'[r].pc = "idle" /\ UNCHANGED storeVars
    BY <1>1, <1>17 DEF Finish, Idle
  <2>2. clock' = clock
    BY <1>17 DEF Finish, Pending!release, Pending!Leave
  <2>. QED
    BY <1>2, <2>1, <2>2, QuietLate DEF storeVars, Binders
<1>. QED
  BY <1>7, <1>8, <1>9, <1>10, <1>12, <1>13, <1>14, <1>15, <1>16, <1>17 DEF Serve

\* The request reads the binding: a late arrival that finds none finds the
\* store closed, one that finds its own client's makes no new claim.
LEMMA ReadLate ==
  ASSUME AuthInv, LateInv, NEW r \in Requests, ReadBinding(r)
  PROVE  LateInv'
<1>1. ServiceOK /\ Sound(r) /\ Store!StoreInv /\ DOMAIN req = Requests /\ BindingFits(r)
  BY DEF AuthInv, ServiceOK, LateInv
<1> DEFINE t == req[r].in.token
           a == req[r].in.addr
           pc == IF t \notin DOMAIN records THEN "unbound"
                 ELSE IF sameIP(records[t].firstIP, a) THEN "bound" ELSE "mismatch"
<1>2. /\ req[r].pc = "binding" /\ call[r].pc = "getBody" /\ Advance(r, [req[r] EXCEPT !.pc = pc])
      /\ UNCHANGED <<driver, records, storeClosed, clock>>
  BY DEF ReadBinding, Usage!GetBody
<1>3. req[r] \in Request
  BY <1>1, <1>2, Serving
<1>4. /\ req'[r].pc = pc /\ req'[r].in = req[r].in /\ req'[r].late = req[r].late
      /\ served' = served
      /\ \A s \in Requests : s # r => req'[s] = req[s] /\ call'[s] = call[s]
  <2>1. Kept(r)
    BY BindingSound
  <2>. QED
    BY <1>1, <1>2, <1>3, <2>1 DEF Advance, Kept, Request
<1>5. t \in Tokens /\ ~(clock >= Expiry[t] + Grace)
  <2>1. call[r].id = t
    BY <1>1, <1>2 DEF Sound, CallFits
  <2>. QED
    BY <1>2, <2>1, CallingMeansAlive
<1>6. pc \in {"unbound", "bound", "mismatch"} /\ (pc # "unbound" => t \in DOMAIN records)
      /\ (pc = "unbound" => t \notin DOMAIN records) /\ (pc = "bound" => sameIP(records[t].firstIP, a))
  OBVIOUS
<1> HIDE DEF pc
<1>7. BindingFits(r)'
  <2>1. pc = "unbound" /\ req[r].late => storeClosed
    BY <1>1, <1>2, <1>5, <1>6 DEF LateInv, BindingFits, OnRecord
  <2>. QED
    BY <1>1, <1>2, <1>4, <1>6, <2>1 DEF BindingFits, OnRecord
<1>8. ASSUME NEW s \in Requests, s # r PROVE BindingFits(s)'
  BY <1>2, <1>4, <1>8 DEF LateInv, BindingFits, OnRecord
<1>9. ASSUME NEW u \in Tokens
      PROVE  /\ Claims(u)' \subseteq Claims(u) \union {a}
             /\ ~(pc = "bound" /\ u = t) => Claims(u)' \subseteq Claims(u)
  BY <1>4 DEF Claims
<1>10. ASSUME NEW u \in Tokens
      PROVE  /\ served'[u] # {} => OnRecord(u)' \/ clock' >= Expiry[u] + Grace
             /\ \A x, y \in Claims(u)' : sameIP(x, y)
             /\ u \in DOMAIN records' => \A x \in Claims(u)' : sameIP(records'[u].firstIP, x)
  <2>1. /\ served[u] # {} => OnRecord(u) \/ clock >= Expiry[u] + Grace
        /\ \A x, y \in Claims(u) : sameIP(x, y)
        /\ u \in DOMAIN records => \A x \in Claims(u) : sameIP(records[u].firstIP, x)
    BY DEF LateInv
  <2>2. served'[u] # {} => OnRecord(u)' \/ clock' >= Expiry[u] + Grace
    BY <1>2, <1>4, <2>1 DEF OnRecord
  <2>3. CASE pc = "bound" /\ u = t
    <3>1. \A x \in Claims(u) \union {a} : sameIP(records[u].firstIP, x)
      BY <1>6, <2>1, <2>3
    <3>2. \A x, y \in Claims(u) \union {a} : sameIP(x, y)
      BY <3>1, SameClient
    <3>. QED
      BY <1>2, <1>9, <2>2, <3>1, <3>2
  <2>4. CASE ~(pc = "bound" /\ u = t)
    BY <1>2, <1>9, <2>1, <2>2, <2>4
  <2>. QED
    BY <2>3, <2>4
<1>. QED
  BY <1>2, <1>7, <1>8, <1>10 DEF LateInv

LEMMA RecordLate ==
  ASSUME AuthInv, LateInv, NEW r \in Requests, RecordBinding(r)
  PROVE  LateInv'
<1>1. ServiceOK /\ Sound(r) /\ Store!StoreInv /\ DOMAIN req = Requests /\ BindingFits(r)
  BY DEF AuthInv, ServiceOK, LateInv
<1>2. req[r].pc = "unbound" /\ Usage!CallConsume(r, TRUE, TRUE) /\ Advance(r, [req[r] EXCEPT !.pc = "recording"])
  BY DEF RecordBinding
<1>3. UNCHANGED <<driver, records, storeClosed, clock>>
  BY <1>2, CallerKeeps
<1>4. req[r] \in Request
  BY <1>1, <1>2, Serving
<1>5. Kept(r)
  BY BindingSound
<1>6. /\ req'[r].pc = "recording" /\ req'[r].in = req[r].in /\ req'[r].late = req[r].late
      /\ served' = served
      /\ \A s \in Requests : s # r => req'[s] = req[s] /\ call'[s] = call[s]
  BY <1>1, <1>2, <1>4, <1>5 DEF Advance, Kept, Request
<1>7. call'[r].pc = "check"
  BY <1>1, <1>2, CallConsumes
<1>8. BindingFits(r)'
  BY <1>1, <1>2, <1>3, <1>6, <1>7 DEF BindingFits
<1>9. ASSUME NEW s \in Requests, s # r PROVE BindingFits(s)'
  BY <1>3, <1>6, <1>9 DEF LateInv, BindingFits, OnRecord
<1>10. ASSUME NEW u \in Tokens
       PROVE  /\ served'[u] # {} => OnRecord(u)' \/ clock' >= Expiry[u] + Grace
              /\ \A x, y \in Claims(u)' : sameIP(x, y)
              /\ u \in DOMAIN records' => \A x \in Claims(u)' : sameIP(records'[u].firstIP, x)
  <2>1. Claims(u)' \subseteq Claims(u)
    BY <1>6 DEF Claims
  <2>. QED
    BY <1>3, <1>6, <2>1 DEF LateInv, OnRecord
<1>. QED
  BY <1>3, <1>8, <1>9, <1>10 DEF LateInv

\* Only a request that found its own client's binding, or recorded one of its
\* own, is entered in served; a late arrival only in the first case.
LEMMA AnswerLate ==
  ASSUME AuthInv, LateInv, NEW r \in Requests, AnswerBinding(r)
  PROVE  LateInv'
<1>1. ServiceOK /\ Sound(r) /\ Store!StoreInv /\ DOMAIN req = Requests /\ BindingFits(r)
  BY DEF AuthInv, ServiceOK, LateInv
<1> DEFINE t == req[r].in.token
           e == [addr |-> req[r].in.addr, late |-> req[r].late]
           res == CASE req[r].pc = "mismatch" -> maybeDryRun(deny("ip_mismatch"))
                    [] call[r].pc \in Errors -> maybeDryRun(deny("storage_error"))
                    [] call[r].pc = "panic" -> deny("panic")
                    [] OTHER -> allow(allowReason(req[r].path))
<1>2. /\ Usage!Return(r) /\ Respond(r, req[r], res)
      /\ \/ req[r].pc \in {"bound", "mismatch"}
         \/ req[r].pc \in {"binding", "recording"} /\ call[r].pc \in Usage!Outcomes
  BY Zenon DEF AnswerBinding
<1>3. UNCHANGED <<driver, records, storeClosed, clock>>
  BY <1>2, CallerKeeps
<1>4. req[r] \in Request
  BY <1>1, <1>2, Serving
<1>5. Kept(r)
  BY AnswersSound
<1>6. OnTheStrength(req[r], res) => req[r].pc # "mismatch" /\ call[r].pc \notin Errors /\ call[r].pc # "panic"
  BY RefusalsDoNotCount
<1> HIDE DEF res
<1>7. req'[r].pc = "answered" /\ req'[r].in = req[r].in /\ req'[r].late = req[r].late
  BY <1>1, <1>2, <1>4 DEF Respond, Request
<1>8. \A s \in Requests : s # r => req'[s] = req[s] /\ call'[s] = call[s]
  BY <1>5 DEF Kept
<1>9. CASE ~OnTheStrength(req[r], res)
  <2>1. served' = served
    BY <1>2, <1>9, NotServed
  <2>. QED
    BY <1>1, <1>2, <1>3, <1>5, <1>7, <2>1, QuietLate DEF BindingFits, Binders
<1>10. CASE OnTheStrength(req[r], res)
  <2>1. t \in Tokens /\ OnRecord(t) /\ (req[r].late => req[r].pc = "bound")
    <3>1. t \in Tokens
      BY <1>1, <1>2, <1>10 DEF Sound, TokenSound, OnTheStrength
    <3>2. req[r].pc # "binding"
      BY <1>1, <1>2, <1>6, <1>10 DEF Sound, CallFits, Errors, Usage!Outcomes
    <3>. QED
      BY <1>1, <1>2, <1>6, <1>10, <3>1, <3>2 DEF BindingFits, Errors, Usage!Outcomes
  <2>2. served' \in {served, [served EXCEPT ![t] = @ \union {e}]}
    BY <1>2 DEF Respond
  <2>3. served \in [Tokens -> SUBSET [addr : Addrs, late : BOOLEAN]]
    BY <1>1 DEF ServiceOK
  <2>4. ASSUME NEW u \in Tokens
        PROVE  /\ served[u] \subseteq served'[u]
               /\ served'[u] \subseteq served[u] \union {e}
               /\ u # t => served'[u] = served[u]
    BY <2>2, <2>3
  <2>5. BindingFits(r)'
    <3>1. req'[r].late => served'[t] # {}
      BY <1>1, <1>2, <1>7, <2>1, <2>4 DEF BindingFits
    <3>. QED
      BY <1>7, <2>1, <3>1 DEF BindingFits
  <2>6. ASSUME NEW s \in Requests, s # r PROVE BindingFits(s)'
    <3>1. BindingFits(s)
      BY DEF LateInv
    <3>2. req[s].pc # "idle" /\ req[s].late => req[s].in.token \in Tokens /\ served'[req[s].in.token] # {}
      BY <2>4, <3>1 DEF BindingFits
    <3>. QED
      BY <1>3, <1>8, <2>6, <3>1, <3>2 DEF BindingFits, OnRecord
  <2>7. ASSUME NEW u \in Tokens PROVE Claims(u)' \subseteq Claims(u)
    <3> SUFFICES ASSUME NEW x \in Claims(u)' PROVE x \in Claims(u)
      OBVIOUS
    <3>1. CASE \E y \in served'[u] : y.late /\ x = y.addr
      <4>1. PICK y \in served'[u] : y.late /\ x = y.addr
        BY <3>1
      <4>2. CASE y \in served[u]
        BY <4>1, <4>2 DEF Claims
      <4>3. CASE y \notin served[u]
        <5>1. y = e /\ u = t
          BY <2>4, <4>1, <4>3
        <5>2. x = req[r].in.addr /\ req[r].late
          BY <4>1, <5>1
        <5>. QED
          BY <2>1, <5>1, <5>2 DEF Claims
      <4>. QED
        BY <4>2, <4>3
    <3>2. CASE \E s \in Requests : req'[s].pc = "bound" /\ req'[s].in.token = u /\ req'[s].late /\ x = req'[s].in.addr
      BY <1>7, <1>8, <3>2 DEF Claims
    <3>. QED
      BY <3>1, <3>2 DEF Claims
  <2>8. ASSUME NEW u \in Tokens
        PROVE  /\ served'[u] # {} => OnRecord(u)' \/ clock' >= Expiry[u] + Grace
               /\ \A x, y \in Claims(u)' : sameIP(x, y)
               /\ u \in DOMAIN records' => \A x \in Claims(u)' : sameIP(records'[u].firstIP, x)
    <3>1. served'[u] # {} => OnRecord(u) \/ clock >= Expiry[u] + Grace
      BY <2>1, <2>4 DEF LateInv
    <3>. QED
      BY <1>3, <2>7, <3>1 DEF LateInv, OnRecord
  <2>. QED
    BY <1>3, <2>5, <2>6, <2>8 DEF LateInv
<1>. QED
  BY <1>9, <1>10

\* Consume of the memory driver keeps the first address of a record, and
\* creates one only for a token nobody has claimed.
LEMMA MemoryLate ==
  ASSUME AuthInv, LateInv, NEW r \in Requests, StoreStep(r), Usage!MemoryConsume(r),
         req[r].pc \in {"charging", "recording"}
  PROVE  LateInv'
<1>1. ServiceOK /\ Sound(r) /\ Store!StoreInv /\ BindingFits(r)
  BY DEF AuthInv, LateInv
<1> DEFINE id == call[r].id
<1>2. /\ call[r].pc = "body" /\ ~storeClosed /\ UNCHANGED <<driver, storeClosed, clock>>
      /\ req' = req /\ served' = served
  BY DEF Usage!MemoryConsume, StoreStep, serviceVars
<1>3. id = req[r].in.token /\ id \in Tokens /\ ~(clock >= Expiry[id] + Grace)
  <2>1. id = req[r].in.token
    BY <1>1, <1>2 DEF Sound, CallFits
  <2>. QED
    BY <1>2, <2>1, CallingMeansAlive
<1>4. PICK D \in SUBSET Tokens : records \in [D -> Store!Record]
  BY <1>1 DEF Store!StoreInv, Store!TypeOK
<1>5. /\ DOMAIN records' = DOMAIN records \union {id}
      /\ \A u \in DOMAIN records : records'[u].firstIP = records[u].firstIP
  <2> DEFINE old == Usage!memoryRecord(r)
             new == [old EXCEPT !.uses = IF old.uses < Limit[id] /\ ~call[r].skip THEN @ + 1 ELSE @]
  <2>1. records' = Usage!Put(records, id, new)
    BY DEF Usage!MemoryConsume
  <2>2. id \in DOMAIN records => old = records[id] /\ old \in Store!Record
    BY <1>4 DEF Usage!memoryRecord
  <2>3. id \in DOMAIN records => new.firstIP = records[id].firstIP
    BY <2>2 DEF Store!Record
  <2> HIDE DEF new
  <2>. QED
    BY <2>1, <2>3 DEF Usage!Put
<1>6. call'[r].pc \in {"allowed", "used_up"} /\ \A s \in Requests : s # r => call'[s] = call[s]
  <2>1. \E x \in {"allowed", "used_up"} : Usage!Goto(r, x)
    BY DEF Usage!MemoryConsume
  <2>. QED
    BY <1>1, <1>2, <2>1, CallMoved
<1>7. BindingFits(r)'
  <2>1. ~(req[r].pc = "recording" /\ req[r].late)
    BY <1>1, <1>2 DEF BindingFits
  <2>2. OnRecord(req[r].in.token)'
    BY <1>2, <1>3, <1>5 DEF OnRecord
  <2>. QED
    BY <1>1, <1>2, <1>6, <2>1, <2>2 DEF BindingFits
<1>8. \A u \in Tokens : OnRecord(u) => OnRecord(u)'
  BY <1>2, <1>5 DEF OnRecord
<1>9. ASSUME NEW s \in Requests, s # r PROVE BindingFits(s)'
  <2>1. BindingFits(s) /\ OnRecord(req[s].in.token) => OnRecord(req[s].in.token)'
    BY <1>2, <1>5 DEF OnRecord
  <2>. QED
    BY <1>2, <1>6, <1>9, <2>1 DEF LateInv, BindingFits
<1>10. ASSUME NEW u \in Tokens
       PROVE  /\ served'[u] # {} => OnRecord(u)' \/ clock' >= Expiry[u] + Grace
              /\ \A x, y \in Claims(u)' : sameIP(x, y)
              /\ u \in DOMAIN records' => \A x \in Claims(u)' : sameIP(records'[u].firstIP, x)
  <2>1. Claims(u)' = Claims(u)
    BY <1>2 DEF Claims
  <2>2. u \in DOMAIN records' /\ u \notin DOMAIN records => Claims(u) = {}
    <3> SUFFICES ASSUME u \in DOMAIN records', u \notin DOMAIN records, NEW x \in Claims(u) PROVE FALSE
      OBVIOUS
    <3>1. u = id
      BY <1>5
    <3>2. ~OnRecord(u)
      BY <1>2 DEF OnRecord
    <3>3. CASE served[u] # {}
      BY <1>3, <3>1, <3>2, <3>3 DEF LateInv
    <3>4. CASE \E s \in Requests : req[s].pc = "bound" /\ req[s].in.token = u
      BY <3>2, <3>4 DEF LateInv, BindingFits
    <3>. QED
      BY <3>3, <3>4 DEF Claims
  <2>. QED
    BY <1>2, <1>5, <1>8, <2>1, <2>2 DEF LateInv
<1>. QED
  BY <1>2, <1>7, <1>9, <1>10 DEF LateInv

LEMMA StoreStepLate ==
  ASSUME AuthInv, LateInv, NEW r \in Requests, StoreStep(r)
  PROVE  LateInv'
<1>1. ServiceOK /\ Sound(r) /\ Store!StoreInv /\ BindingFits(r) /\ driver = "memory"
  BY DEF AuthInv, LateInv
<1>2. req' = req /\ served' = served /\ Kept(r)
  BY StoreSound DEF StoreStep, serviceVars
<1>3. ~Usage!BackendSpend(r) /\ ~Usage!BackendLostReply(r) /\ ~Usage!BackendFull(r) /\ ~Usage!BackendSkip(r)
      /\ ~(Usage!BackendError(r))
  BY <1>1 DEF Usage!BackendSpend, Usage!BackendLostReply, Usage!BackendFull, Usage!BackendSkip,
              Usage!BackendError, Usage!AtBackend, Usage!Durable
<1>4. ASSUME Usage!ConsumeCheck(r) \/ Usage!GetCheck(r) \/ Usage!MemoryPanic(r) \/ Usage!GetBody(r)
      PROVE  UNCHANGED <<driver, records, storeClosed, clock>>
  BY <1>4 DEF Usage!ConsumeCheck, Usage!GetCheck, Usage!MemoryPanic, Usage!GetBody
<1>5. CASE req[r].pc \in {"charging", "binding"} /\ ~Usage!MemoryConsume(r)
  <2>1. UNCHANGED <<driver, records, storeClosed, clock>>
    BY <1>3, <1>4, <1>5 DEF StoreStep, Usage!Serve
  <2>. QED
    BY <1>1, <1>2, <1>5, <2>1, QuietLate DEF BindingFits, Binders
<1>6. CASE req[r].pc = "recording" /\ ~Usage!MemoryConsume(r)
  <2>1. call[r].pc \in {"check", "body", "closed", "panic", "allowed", "used_up"}
    BY <1>1, <1>6 DEF BindingFits
  <2>2. Usage!ConsumeCheck(r) \/ Usage!MemoryPanic(r)
    BY <1>3, <1>6, <2>1 DEF StoreStep, Usage!Serve, Usage!GetCheck, Usage!GetBody
  <2>3. UNCHANGED <<driver, records, storeClosed, clock>>
    BY <1>4, <2>2
  <2>4. \/ call[r].pc = "check" /\ Usage!Goto(r, IF storeClosed THEN "closed" ELSE "body")
        \/ call[r].pc = "body" /\ Usage!Goto(r, "panic")
    BY <1>1, <2>2 DEF Usage!ConsumeCheck, Usage!MemoryPanic
  <2>5. \/ call[r].pc = "check" /\ call'[r].pc = IF storeClosed THEN "closed" ELSE "body"
        \/ call[r].pc = "body" /\ call'[r].pc = "panic"
    BY <1>1, <2>4, CallMoved
  <2>6. BindingFits(r)'
    BY <1>1, <1>2, <1>6, <2>3, <2>5 DEF BindingFits
  <2>7. ASSUME NEW s \in Requests, s # r PROVE BindingFits(s)'
    BY <1>2, <2>3, <2>7 DEF LateInv, BindingFits, OnRecord, Kept
  <2>8. ASSUME NEW u \in Tokens
        PROVE  /\ served'[u] # {} => OnRecord(u)' \/ clock' >= Expiry[u] + Grace
               /\ \A x, y \in Claims(u)' : sameIP(x, y)
               /\ u \in DOMAIN records' => \A x \in Claims(u)' : sameIP(records'[u].firstIP, x)
    <3>1. Claims(u)' = Claims(u)
      BY <1>2 DEF Claims
    <3>. QED
      BY <1>2, <2>3, <3>1 DEF LateInv, OnRecord
  <2>. QED
    BY <2>3, <2>6, <2>7, <2>8 DEF LateInv
<1>7. ~(req[r].pc = "binding" /\ Usage!MemoryConsume(r))
  BY <1>1 DEF Usage!MemoryConsume, Sound, CallFits
<1>. QED
  BY <1>5, <1>6, <1>7, MemoryLate DEF StoreStep

LEMMA LateStep == AuthInv /\ LateInv /\ [Next]_vars => LateInv'
<1> SUFFICES ASSUME AuthInv, LateInv, [Next]_vars PROVE LateInv'
  OBVIOUS
<1>1. ServiceOK /\ Store!StoreInv /\ driver = "memory"
  BY DEF AuthInv, LateInv
<1>2. ASSUME NEW r \in Requests, NEW in \in Inputs, Arrive(r, in) PROVE LateInv'
  <2>1. UNCHANGED <<clock, storeVars>>
    BY <1>2, ArriveStep
  <2>2. Kept(r)
    BY <1>2, ArriveSound
  <2>3. Fresh(in) \in Request /\ Fresh(in).status = "missing" /\ Fresh(in).in = in /\ Fresh(in).pc = "entered"
    BY <1>1, FreshRequest
  <2>4. Fresh(in).late => in.token \in Tokens /\ served[in.token] # {}
    BY InputAssumption DEF Fresh, Input
  <2>5. Advance(r, Fresh(in)) \/ \E res : Respond(r, Fresh(in), res)
    BY <1>2 DEF Arrive, AnswerEarly, AnswerPendingBlocked, Enter
  <2>6. /\ served' = served /\ req'[r].in = in /\ req'[r].late = Fresh(in).late
        /\ req'[r].pc \in {"entered", "answered"}
    <3>1. DOMAIN req = Requests
      BY <1>1 DEF ServiceOK
    <3>2. CASE Advance(r, Fresh(in))
      BY <2>3, <3>1, <3>2 DEF Advance
    <3>3. ASSUME NEW res, Respond(r, Fresh(in), res)
          PROVE  /\ served' = served /\ req'[r].in = in /\ req'[r].late = Fresh(in).late
                 /\ req'[r].pc = "answered"
      <4>1. served' = served
        BY <2>3, <3>3, NotServed DEF OnTheStrength
      <4>2. req' = [req EXCEPT ![r] = [Fresh(in) EXCEPT !.pc = "answered", !.res = res]]
        BY <3>3 DEF Respond
      <4>. QED
        BY <2>3, <3>1, <4>1, <4>2 DEF Request
    <3>. QED
      BY <2>5, <3>2, <3>3
  <2>. QED
    BY <2>1, <2>2, <2>4, <2>6, QuietLate DEF storeVars, Binders
<1>3. ASSUME NEW r \in Requests, Serve(r) PROVE LateInv'
  BY <1>3, ServeLate, ReadLate, RecordLate, AnswerLate, StoreStepLate
<1>4. \A r \in Requests : call[r].pc # "idle" => call[r].id = req[r].in.token
  BY DEF AuthInv, Sound, CallFits
<1>5. CASE Maintenance
  <2>1. UNCHANGED <<req, served>> /\ (Usage!CleanupStart \/ Usage!CleanupExpired)
    BY <1>1, <1>5 DEF Maintenance, serviceVars, Usage!RedisEvict
  <2>2. CASE Usage!CleanupStart
    <3>1. UNCHANGED <<driver, records, storeClosed, clock, call>>
      BY <2>2 DEF Usage!CleanupStart
    <3>. QED
      BY <2>1, <3>1, StoreLate DEF OnRecord
  <2>3. CASE Usage!CleanupExpired
    <3>1. /\ UNCHANGED <<driver, storeClosed, clock, call>> /\ cleaner.running
          /\ records' = [id \in {i \in DOMAIN records : Expiry[i] >= cleaner.before} |-> records[id]]
      BY <2>3 DEF Usage!CleanupExpired
    <3>2. /\ cleaner.before \in Int /\ clock \in Nat /\ cleaner.before <= clock - Grace
          /\ DOMAIN records \subseteq Tokens
      BY <1>1, <3>1 DEF Store!StoreInv, Store!TypeOK, Store!EvictionSafe
    <3>3. ASSUME NEW t \in Tokens, OnRecord(t) PROVE OnRecord(t)' \/ clock >= Expiry[t] + Grace
      BY <3>1, <3>2, <3>3, StoreAssumption DEF OnRecord
    <3>4. ASSUME NEW r \in Requests, call[r].pc # "idle", OnRecord(req[r].in.token)
          PROVE  OnRecord(req[r].in.token)'
      BY <1>4, <2>1, <3>1, <3>3, <3>4, CallingMeansAlive DEF OnRecord
    <3>. QED
      BY <2>1, <3>1, <3>3, <3>4, StoreLate
  <2>. QED
    BY <2>1, <2>2, <2>3
<1>6. CASE Shutdown
  <2>1. UNCHANGED <<req, served>>
    BY <1>6 DEF Shutdown
  <2>2. CASE Usage!Close
    <3>1. UNCHANGED <<driver, clock, call>> /\ storeClosed' /\ DOMAIN records' = {}
      BY <1>1, <2>2 DEF Usage!Close, Usage!NoRecords
    <3>. QED
      BY <2>1, <3>1, StoreLate DEF OnRecord
  <2>3. CASE UNCHANGED storeVars /\ clock' = clock
    <3>1. UNCHANGED <<driver, records, storeClosed, clock, call>>
      BY <2>3 DEF storeVars
    <3>. QED
      BY <2>1, <3>1, StoreLate DEF OnRecord
  <2>. QED
    BY <1>6, <2>2, <2>3 DEF Shutdown, Pending!Close
<1>7. CASE Tick
  <2>1. UNCHANGED <<req, served, driver, records, storeClosed, call>> /\ clock' = clock + 1
    BY <1>7 DEF Tick, serviceVars, Usage!Tick
  <2>2. \A t \in Tokens : clock >= Expiry[t] + Grace => clock' >= Expiry[t] + Grace
    BY <1>1, <2>1, StoreAssumption DEF Store!StoreInv, Store!TypeOK
  <2>. QED
    BY <2>1, <2>2, StoreLate DEF OnRecord
<1>8. CASE Terminated \/ UNCHANGED vars
  <2>1. UNCHANGED <<req, served, driver, records, storeClosed, clock, call>>
    BY <1>8 DEF Terminated, vars, serviceVars, storeVars
  <2>. QED
    BY <2>1, StoreLate DEF OnRecord
<1>. QED
  BY <1>2, <1>3, <1>5, <1>6, <1>7, <1>8 DEF Next

\* With the memory driver, requests with an empty-ip token that arrive after
\* one was answered are let through for one client only.
THEOREM LateArrivalsAreBound == Spec /\ driver = "memory" => []LateArrivalsBound
<1>1. Init /\ driver = "memory" => LateInv
  <2> SUFFICES ASSUME Init, driver = "memory" PROVE LateInv
    OBVIOUS
  <2>1. (\A r \in Requests : req[r].pc = "idle") /\ \A t \in Tokens : served[t] = {}
    BY DEF Init, Idle
  <2>2. \A t \in Tokens : Claims(t) = {}
    BY <2>1 DEF Claims
  <2>. QED
    BY <2>1, <2>2 DEF LateInv, BindingFits
<1>2. LateInv => LateArrivalsBound
  BY DEF LateInv, Claims, LateArrivalsBound, OneClient
<1>. QED
  BY <1>1, <1>2, LateStep, AuthCorrect, PTL DEF Spec
=============================================================================
