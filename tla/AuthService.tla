----------------------------- MODULE AuthService -----------------------------
(***************************************************************************)
(* internal/auth: Service.Verify, the request pipeline, over the pending   *)
(* limiter (PendingBlocker) and the usage store (UsageStore) it calls.     *)
(*                                                                         *)
(* A request goroutine runs Verify from Begin to Finish.  Between two      *)
(* steps of one goroutine lies a point where others can run and time can   *)
(* pass: the risk evaluation (it reads counters over the network), every   *)
(* step of a store call, the return.  The rules of the risk engine are     *)
(* arbitrary: Evaluate may answer any verdict, or fail.                    *)
(***************************************************************************)
EXTENDS Integers, FiniteSets

CONSTANTS
  Requests,       \* request goroutines
  IPs, NoIP,      \* canonical addresses; no address
  Addrs,          \* spellings of X-Real-IP, "" when the header is absent
  CanonicalIP,    \* the parsable spellings, each with its canonical address
  Tokens,         \* the signed tokens clients present
  NoToken,        \* a request without a token, or without a sign
  TokenOf,        \* per token: mode, ip, issued, defect (see TokenRecord)
  Expiry,         \* per token: expires_at
  Limit,          \* per token: max_uses; 1 for ip_bound
  Inputs,         \* the requests that arrive
  Configs,        \* the configurations a process may start with
  Skew,           \* tolerated clock skew: 60 seconds
  Drivers, Grace, MaxLag,                                   \* of UsageStore
  ConfiguredMax, ConfiguredTTL, DefaultTTL, SweepInterval,  \* of PendingBlocker
  MaxTime         \* bound: the clock stops here

Modes == {"ip_bound", "generic"}

\* defect: the first validation step the token fails.  "encoding": it does
\* not decode or is too long; "fields": ValidatePayload, its mode's name or
\* its path; "sign": max_ttl, sign or difficulty, tested after the expiry.
Defects == {"none", "encoding", "fields", "sign"}

TokenRecord == [mode : Modes, ip : Addrs, issued : Nat, defect : Defects]

Input == [uri : BOOLEAN, protected : BOOLEAN, head : BOOLEAN,
          addr : Addrs, token : Tokens \union {NoToken}]

Config == [bypassAll : BOOLEAN, dryRun : BOOLEAN, powEnabled : BOOLEAN,
           riskControl : BOOLEAN, pending : BOOLEAN, modes : SUBSET Modes,
           countHead : BOOLEAN]

ASSUME TokenAssumption ==
  /\ TokenOf \in [Tokens -> TokenRecord]
  /\ NoToken \notin Tokens
  /\ "" \in Addrs /\ "" \notin DOMAIN CanonicalIP
ASSUME InputAssumption == Inputs \subseteq Input
ASSUME ConfigAssumption == Configs \subseteq Config
ASSUME SkewAssumption == Skew \in Nat
ASSUME LimiterAssumption ==
  /\ DOMAIN CanonicalIP \subseteq Addrs
  /\ \A a \in DOMAIN CanonicalIP : CanonicalIP[a] \in IPs
  /\ ConfiguredMax \in Int /\ ConfiguredTTL \in Int
  /\ DefaultTTL \in Nat \ {0} /\ SweepInterval \in Nat
  /\ NoIP \notin IPs
  /\ IsFiniteSet(Requests)
ASSUME StoreAssumption ==
  /\ Drivers \subseteq {"memory", "postgres", "redis"}
  /\ Limit \in [Tokens -> Nat \ {0}] /\ Expiry \in [Tokens -> Nat]
  /\ Grace \in Nat /\ MaxLag \in Nat /\ MaxLag <= Grace
  /\ MaxTime \in Nat \ {0}

VARIABLES
  cfg,       \* s.cfg, fixed for the life of the process
  phase,     \* "serving", "draining", "pending_closed", "closed"
  req,       \* per goroutine, the request it serves
  honoured,  \* history: per token, counted requests let through on its strength
  served,    \* history: per token with an empty ip, the addresses let through,
             \* and whether the request arrived after a first one was answered
  clock,
  entries, lastSweep, pendingClosed, verdict, from, overflowAt,  \* PendingBlocker
  driver, records, storeClosed, call, cleaner, granted, charged  \* UsageStore

serviceVars == <<cfg, phase, req, honoured, served>>
pendingVars == <<entries, lastSweep, pendingClosed, verdict, from, overflowAt>>
storeVars == <<driver, records, storeClosed, call, cleaner, granted, charged>>
vars == <<serviceVars, clock, pendingVars, storeVars>>

Pending == INSTANCE PendingBlocker WITH closed <- pendingClosed, Horizon <- MaxTime
Usage == INSTANCE UsageStore
           WITH closed <- storeClosed, Calls <- Requests, Ids <- Tokens, IPs <- Addrs

(***************************************************************************)
(* Results.                                                                *)
(***************************************************************************)
allow(reason) == [allowed |-> TRUE, reason |-> reason]
deny(reason) == [allowed |-> FALSE, reason |-> reason]

maybeDryRun(res) ==
  IF cfg.dryRun /\ ~res.allowed THEN allow("dry_run_allow") ELSE res

NoResult == deny("none")

\* status: the pow_status of the classification.  path: who decided, which
\* fixes the reason of an allow and whether a storage error is dry-run.
\* late: did the request arrive after its token had let one through?
Fresh(in) ==
  [pc |-> "entered", in |-> in, status |-> "missing", path |-> "pow_only",
   res |-> NoResult, late |-> in.token # NoToken /\ served[in.token] # {}]

Idle == [pc |-> "idle"]

TokenIn(q) == TokenOf[q.in.token]

skipConsume(in) == in.head /\ ~cfg.countHead

\* The result of a request that had to present a good token, or whose good
\* token decided for it.
OnTheStrength(q, res) ==
  /\ res.allowed
  /\ q.status = "valid"
  /\ res.reason \notin {"dry_run_allow", "not_protected"}

Respond(r, q, res) ==
  /\ req' = [req EXCEPT ![r] = [q EXCEPT !.pc = "answered", !.res = res]]
  /\ honoured' = IF OnTheStrength(q, res) /\ TokenIn(q).mode = "generic"
                    /\ ~skipConsume(q.in)
                   THEN [honoured EXCEPT ![q.in.token] = @ + 1] ELSE honoured
  /\ served' = IF OnTheStrength(q, res) /\ TokenIn(q).mode = "ip_bound"
                  /\ TokenIn(q).ip = ""
                 THEN [served EXCEPT ![q.in.token] = @ \union {[addr |-> q.in.addr, late |-> q.late]}] ELSE served
  /\ UNCHANGED <<cfg, phase>>

Advance(r, q) ==
  /\ req' = [req EXCEPT ![r] = q]
  /\ UNCHANGED <<cfg, phase, honoured, served>>

(***************************************************************************)
(* Verify, up to the token.                                                *)
(***************************************************************************)
Begin(r) == req[r].pc = "idle" /\ phase = "serving"

AnswerEarly(r, in) ==
  /\ Begin(r)
  /\ cfg.bypassAll \/ ~in.uri
  /\ Respond(r, Fresh(in), IF cfg.bypassAll THEN allow("bypass_all")
                                            ELSE deny("missing_headers"))
  /\ UNCHANGED <<clock, pendingVars, storeVars>>

UsesPending(in) == in.protected /\ cfg.riskControl /\ cfg.pending

AnswerPendingBlocked(r, in) ==
  /\ Begin(r)
  /\ ~cfg.bypassAll /\ in.uri /\ UsesPending(in)
  /\ Pending!Enter(r, in.addr)
  /\ verdict'[r] = "blocked"
  /\ Respond(r, Fresh(in), deny("ip_pending_blocked"))
  /\ UNCHANGED storeVars

\* Fault: the request goes on whatever Enter answered.
FaultBlockIgnored(r, in) ==
  /\ Begin(r)
  /\ ~cfg.bypassAll /\ in.uri
  /\ IF UsesPending(in)
       THEN Pending!Enter(r, in.addr)
       ELSE UNCHANGED <<clock, pendingVars>>
  /\ Advance(r, Fresh(in))
  /\ UNCHANGED storeVars

Enter(r, in) ==
  /\ Begin(r)
  /\ ~cfg.bypassAll /\ in.uri
  /\ IF UsesPending(in)
       THEN Pending!Enter(r, in.addr) /\ verdict'[r] # "blocked"
       ELSE UNCHANGED <<clock, pendingVars>>
  /\ Advance(r, Fresh(in))
  /\ UNCHANGED storeVars

(***************************************************************************)
(* Classification.                                                         *)
(***************************************************************************)
sameIP(a, b) ==
  /\ a # "" /\ b # ""
  /\ a = b \/ (/\ {a, b} \subseteq DOMAIN CanonicalIP
               /\ CanonicalIP[a] = CanonicalIP[b])

\* The reason a decoded token is refused at this time, "" if it is good.
validateTokenForMode(t, now) ==
  LET p == TokenOf[t]
  IN  CASE p.mode \notin cfg.modes -> "mode_disabled"
        [] p.mode \in cfg.modes /\ p.defect = "fields" -> "invalid"
        [] p.mode \in cfg.modes /\ p.defect # "fields" /\ Expiry[t] <= now -> "expired"
        [] OTHER -> IF p.issued > now + Skew \/ p.defect = "sign" THEN "invalid" ELSE ""

\* Fault: a token that cannot be checked without X-Real-IP counts as good.
FaultUnverifiableIsValid(in, now) ==
  IF in.token = NoToken THEN "missing"
  ELSE LET p      == TokenOf[in.token]
           reason == validateTokenForMode(in.token, now)
       IN  CASE p.defect = "encoding" -> "invalid"
             [] p.defect # "encoding" /\ reason # "" -> reason
             [] OTHER -> "valid"

\* Fault: the reason is passed on without statusForValidationReason.
FaultRawReason(in, now) ==
  IF in.token = NoToken THEN "missing"
  ELSE LET reason == validateTokenForMode(in.token, now)
       IN  CASE reason = "" -> "valid"
             [] reason = "invalid" -> "sign_mismatch"
             [] OTHER -> reason

classifyPoW(in, now) ==
  IF in.token = NoToken THEN "missing"
  ELSE LET p      == TokenOf[in.token]
           reason == validateTokenForMode(in.token, now)
       IN  CASE p.defect = "encoding" -> "invalid"
             [] p.defect # "encoding" /\ reason # "" -> reason
             [] OTHER ->
                  IF p.mode = "generic" THEN "valid"
                  ELSE IF in.addr = "" THEN "unverifiable"
                  ELSE IF p.ip # "" /\ ~sameIP(p.ip, in.addr) THEN "invalid"
                  ELSE "valid"

\* With pow.enabled=false no token is parsed and the status stays "missing".
Classify(r) ==
  LET q      == req[r]
      status == IF cfg.powEnabled THEN classifyPoW(q.in, clock) ELSE "missing"
  IN  /\ q.pc = "entered"
      /\ Advance(r, [q EXCEPT !.status = status,
                              !.pc = IF cfg.riskControl THEN "risk" ELSE "fallback"])
      /\ IF status = "valid"
           THEN Usage!Validate(r, q.in.token, q.in.addr)
           ELSE UNCHANGED <<clock, storeVars>>
      /\ UNCHANGED pendingVars

(***************************************************************************)
(* The risk engine's verdict.                                              *)
(***************************************************************************)
\* Give up a validated token that is not spent.
Drop(r) == IF call[r].pc = "idle" THEN UNCHANGED <<clock, storeVars>> ELSE Usage!Return(r)

AnswerRiskDeny(r) ==
  /\ req[r].pc = "risk"
  /\ \E reason \in {"risk_reject", "rate_limited"} : Respond(r, req[r], deny(reason))
  /\ Drop(r)
  /\ UNCHANGED pendingVars

\* The engine failed: Verify goes on to the PoW-only flow.
EvaluateFailed(r) ==
  /\ req[r].pc = "risk"
  /\ Advance(r, [req[r] EXCEPT !.pc = "fallback"])
  /\ UNCHANGED <<clock, pendingVars, storeVars>>

\* Fault: REQUIRE_POW lets an expired token pass.
FaultExpiredPasses(r) ==
  LET q == req[r]
  IN  /\ q.pc = "risk"
      /\ q.status # "valid"
      /\ Respond(r, q, IF q.status = "expired" THEN allow("require_pow_pass")
                       ELSE deny("missing_token_or_sign"))
      /\ UNCHANGED <<clock, pendingVars, storeVars>>

AnswerRequirePowDeny(r) ==
  LET q == req[r]
  IN  /\ q.pc = "risk"
      /\ q.status # "valid"
      /\ Respond(r, q, deny(CASE q.status = "missing" -> "missing_token_or_sign"
                              [] q.status = "unverifiable" -> "missing_real_ip"
                              [] OTHER -> q.status))
      /\ UNCHANGED <<clock, pendingVars, storeVars>>

allowReason(path) ==
  CASE path = "accept" -> "risk_accept"
    [] path = "require_pow" -> "require_pow_pass"
    [] OTHER -> "pow_valid"

NeedsBinding(q) == TokenIn(q).mode = "ip_bound" /\ TokenIn(q).ip = ""

\* ACCEPT or RATE_LIMIT of a request whose token has no say.
AnswerAcceptUncharged(r) ==
  LET q == req[r]
  IN  /\ q.pc = "risk"
      /\ q.status # "valid"
      /\ Respond(r, [q EXCEPT !.path = "accept"], allow("risk_accept"))
      /\ UNCHANGED <<clock, pendingVars, storeVars>>

\* Fault: REQUIRE_POW lets a good token through without charging it.
FaultRequirePowUncharged(r) ==
  LET q == req[r]
  IN  /\ q.pc = "risk"
      /\ q.status = "valid"
      /\ Respond(r, [q EXCEPT !.path = "require_pow"], allow("require_pow_pass"))
      /\ Usage!Return(r)
      /\ UNCHANGED pendingVars

\* ACCEPT, RATE_LIMIT or REQUIRE_POW on a valid token, chargeQuotaForRiskAllow:
\* a generic token is charged, an empty-ip token is bound, any other is good.
AllowByRisk(r) ==
  /\ req[r].pc = "risk"
  /\ req[r].status = "valid"
  /\ \E path \in {"accept", "require_pow"} :
       LET q == [req[r] EXCEPT !.path = path]
       IN  \/ /\ TokenIn(q).mode = "generic"
              /\ Usage!CallConsume(r, TRUE, skipConsume(q.in))
              /\ Advance(r, [q EXCEPT !.pc = "charging"])
           \/ /\ NeedsBinding(q)
              /\ Usage!CallGet(r)
              /\ Advance(r, [q EXCEPT !.pc = "binding"])
           \/ /\ TokenIn(q).mode = "ip_bound" /\ TokenIn(q).ip # ""
              /\ Usage!Return(r)
              /\ Respond(r, q, allow(allowReason(path)))
  /\ UNCHANGED pendingVars

(***************************************************************************)
(* Without a verdict: verifyWithoutPow's tail, unprotected paths, and      *)
(* verifyPoWOnly.                                                          *)
(***************************************************************************)
AnswerWithoutPow(r) ==
  LET q == req[r]
  IN  /\ q.pc = "fallback"
      /\ ~cfg.powEnabled \/ (~cfg.riskControl /\ ~q.in.protected)
      /\ Respond(r, q, allow(IF cfg.powEnabled THEN "not_protected" ELSE "pow_disabled"))
      /\ Drop(r)
      /\ UNCHANGED pendingVars

PowOnly(r) ==
  /\ req[r].pc = "fallback"
  /\ cfg.powEnabled
  /\ cfg.riskControl \/ req[r].in.protected

\* The token is validated again, with a new clock, whatever its status was.
powOnlyReason(in, now) ==
  IF in.token = NoToken THEN "missing_token_or_sign"
  ELSE IF TokenOf[in.token].defect = "encoding" THEN "invalid"
  ELSE validateTokenForMode(in.token, now)

\* finalizeIPBound's own tests, of a token that validated.
ipBoundReason(in) ==
  LET p == TokenOf[in.token]
  IN  IF p.mode # "ip_bound" THEN ""
      ELSE IF in.addr = "" THEN "missing_real_ip"
      ELSE IF p.ip # "" /\ ~sameIP(p.ip, in.addr) THEN "ip_mismatch"
      ELSE ""

AnswerPowOnlyDeny(r) ==
  LET q      == req[r]
      reason == powOnlyReason(q.in, clock)
  IN  /\ PowOnly(r)
      /\ \/ reason # "" /\ Respond(r, q, maybeDryRun(deny(reason)))
         \/ /\ reason = "" /\ ipBoundReason(q.in) = "missing_real_ip"
            /\ Respond(r, q, deny("missing_real_ip"))
         \/ /\ reason = "" /\ ipBoundReason(q.in) = "ip_mismatch"
            /\ Respond(r, q, maybeDryRun(deny("ip_mismatch")))
      /\ Drop(r)
      /\ UNCHANGED pendingVars

Revalidate(r) ==
  LET q == req[r]
  IN  /\ PowOnly(r)
      /\ powOnlyReason(q.in, clock) = "" /\ ipBoundReason(q.in) = ""
      /\ Usage!Validate(r, q.in.token, q.in.addr)
      /\ Advance(r, [q EXCEPT !.pc = "finalize", !.status = "valid"])
      /\ UNCHANGED pendingVars

finalizeByMode(r) ==
  LET q == req[r]
  IN  /\ q.pc = "finalize"
      /\ \/ /\ TokenIn(q).mode = "generic"
            /\ Usage!CallConsume(r, FALSE, skipConsume(q.in))
            /\ Advance(r, [q EXCEPT !.pc = "charging"])
         \/ /\ NeedsBinding(q)
            /\ Usage!CallGet(r)
            /\ Advance(r, [q EXCEPT !.pc = "binding"])
         \/ /\ TokenIn(q).mode = "ip_bound" /\ TokenIn(q).ip # ""
            /\ Usage!Return(r)
            /\ Respond(r, q, allow("pow_valid"))
      /\ UNCHANGED pendingVars

(***************************************************************************)
(* The store's answers.                                                    *)
(***************************************************************************)
Errors == {"closed", "backend_error", "record_vanished"}

\* A panic in the store unwinds Verify (its defers run) to Echo's Recover.
\* A storage error under a risk verdict is not subject to dry_run.
AnswerCharged(r) ==
  LET q   == req[r]
      out == call[r].pc
      err == deny("storage_error")
  IN  /\ q.pc = "charging"
      /\ out \in Usage!Outcomes
      /\ Respond(r, q,
           CASE out = "allowed" -> allow(allowReason(q.path))
             [] out \in {"used_up", "expired"} -> maybeDryRun(deny("used_up"))
             [] out = "panic" -> deny("panic")
             [] OTHER -> IF q.path = "pow_only" THEN maybeDryRun(err) ELSE err)
      /\ Usage!Return(r)
      /\ UNCHANGED pendingVars

\* The read of the binding, and its comparison with the request's address.
ReadBinding(r) ==
  LET q == req[r]
  IN  /\ q.pc = "binding"
      /\ Usage!GetBody(r)
      /\ Advance(r, [q EXCEPT !.pc =
           IF q.in.token \notin DOMAIN records THEN "unbound"
           ELSE IF sameIP(records[q.in.token].firstIP, q.in.addr) THEN "bound"
           ELSE "mismatch"])
      /\ UNCHANGED pendingVars

\* No record: this request binds the token, by a Consume that spends nothing.
RecordBinding(r) ==
  /\ req[r].pc = "unbound"
  /\ Usage!CallConsume(r, TRUE, TRUE)
  /\ Advance(r, [req[r] EXCEPT !.pc = "recording"])
  /\ UNCHANGED pendingVars

\* Fault: a record of another address is good enough.
FaultMismatchIgnored(r) ==
  LET q   == req[r]
      out == call[r].pc
  IN  /\ \/ q.pc \in {"bound", "mismatch"}
         \/ q.pc \in {"binding", "recording"} /\ out \in Usage!Outcomes
      /\ Respond(r, q,
           CASE out \in Errors -> maybeDryRun(deny("storage_error"))
             [] out = "panic" -> deny("panic")
             [] OTHER -> allow(allowReason(q.path)))
      /\ Usage!Return(r)
      /\ UNCHANGED pendingVars

\* Fault: a binding that could not be read or recorded is never answered.
FaultErrorNeverAnswered(r) ==
  LET q   == req[r]
      out == call[r].pc
  IN  /\ \/ q.pc \in {"bound", "mismatch"}
         \/ q.pc \in {"binding", "recording"} /\ out \in Usage!Outcomes \ Errors
      /\ Respond(r, q,
           CASE q.pc = "mismatch" -> maybeDryRun(deny("ip_mismatch"))
             [] out = "panic" -> deny("panic")
             [] OTHER -> allow(allowReason(q.path)))
      /\ Usage!Return(r)
      /\ UNCHANGED pendingVars

\* Only an error of the recording Consume is looked at, not its Allowed.
AnswerBinding(r) ==
  LET q   == req[r]
      out == call[r].pc
  IN  /\ \/ q.pc \in {"bound", "mismatch"}
         \/ q.pc \in {"binding", "recording"} /\ out \in Usage!Outcomes
      /\ Respond(r, q,
           CASE q.pc = "mismatch" -> maybeDryRun(deny("ip_mismatch"))
             [] out \in Errors -> maybeDryRun(deny("storage_error"))
             [] out = "panic" -> deny("panic")
             [] OTHER -> allow(allowReason(q.path)))
      /\ Usage!Return(r)
      /\ UNCHANGED pendingVars

\* The store works for the request; the read of a binding is ReadBinding.
StoreStep(r) ==
  /\ \/ req[r].pc \in {"charging", "recording"} /\ Usage!Serve(r)
     \/ req[r].pc = "binding" /\ (Usage!GetCheck(r) \/ Usage!BackendError(r))
  /\ UNCHANGED <<serviceVars, pendingVars>>

\* Fault: the request ends without running its deferred release.
FaultNoRelease(r) ==
  /\ req[r].pc = "answered"
  /\ req' = [req EXCEPT ![r] = Idle]
  /\ IF verdict[r] \in {"none", "admitted"}
       THEN UNCHANGED <<clock, pendingVars>>
       ELSE Pending!Leave(r)
  /\ UNCHANGED <<cfg, phase, honoured, served, storeVars>>

\* Verify returns: the deferred release runs.
Finish(r) ==
  /\ req[r].pc = "answered"
  /\ req' = [req EXCEPT ![r] = Idle]
  /\ IF verdict[r] = "none"
       THEN UNCHANGED <<clock, pendingVars>>
       ELSE Pending!release(r) \/ Pending!Leave(r)
  /\ UNCHANGED <<cfg, phase, honoured, served, storeVars>>

(***************************************************************************)
(* The rest of the process: cleanup, eviction, Shutdown, time.             *)
(***************************************************************************)
Maintenance ==
  /\ \/ phase = "serving" /\ Usage!CleanupStart
     \/ Usage!CleanupExpired
     \/ \E t \in Tokens : Usage!RedisEvict(t)
  /\ UNCHANGED <<serviceVars, pendingVars>>

\* Shutdown waits for the cleanup loop, then drains the server; the drain may
\* time out and leave requests running while their components are closed.
Shutdown ==
  /\ \/ /\ phase = "serving" /\ ~cleaner.running
        /\ phase' = "draining"
        /\ UNCHANGED <<clock, pendingVars, storeVars>>
     \/ /\ phase = "draining"
        /\ phase' = "pending_closed"
        /\ Pending!Close
        /\ UNCHANGED storeVars
     \/ /\ phase = "pending_closed"
        /\ phase' = "closed"
        /\ Usage!Close
        /\ UNCHANGED pendingVars
  /\ UNCHANGED <<cfg, req, honoured, served>>

Tick ==
  /\ Pending!Tick /\ Usage!Tick
  /\ UNCHANGED serviceVars

\* The process has served its last request.
Terminated ==
  /\ phase = "closed"
  /\ \A r \in Requests : req[r].pc = "idle"
  /\ UNCHANGED vars

-----------------------------------------------------------------------------
Init ==
  /\ cfg \in Configs
  /\ phase = "serving"
  /\ req = [r \in Requests |-> Idle]
  /\ honoured = [t \in Tokens |-> 0]
  /\ served = [t \in Tokens |-> {}]
  /\ Pending!Init
  /\ Usage!Init

Arrive(r, in) == AnswerEarly(r, in) \/ AnswerPendingBlocked(r, in) \/ Enter(r, in)

Serve(r) ==
  \/ Classify(r)
  \/ AnswerRiskDeny(r) \/ EvaluateFailed(r) \/ AnswerRequirePowDeny(r)
  \/ AnswerAcceptUncharged(r) \/ AllowByRisk(r)
  \/ AnswerWithoutPow(r) \/ AnswerPowOnlyDeny(r) \/ Revalidate(r) \/ finalizeByMode(r)
  \/ StoreStep(r) \/ AnswerCharged(r)
  \/ ReadBinding(r) \/ RecordBinding(r) \/ AnswerBinding(r)
  \/ Finish(r)

Next ==
  \/ \E r \in Requests : \E in \in Inputs : Arrive(r, in)
  \/ \E r \in Requests : Serve(r)
  \/ Maintenance \/ Shutdown \/ Tick \/ Terminated

Spec == Init /\ [][Next]_vars

\* A goroutine that serves a request keeps running: the server's timeouts
\* and the backends' bound every wait inside it.
FairSpec == Spec /\ \A r \in Requests : WF_vars(Serve(r))
-----------------------------------------------------------------------------
(***************************************************************************)
(* Properties.                                                             *)
(***************************************************************************)
Statuses == {"missing", "valid", "invalid", "expired", "mode_disabled", "unverifiable"}

\* What the X-Pow-Reason of an answer may say; "none" before there is one.
Reasons ==
  {"none", "bypass_all", "missing_headers", "ip_pending_blocked",
   "risk_reject", "rate_limited", "missing_token_or_sign", "missing_real_ip",
   "invalid", "expired", "mode_disabled", "ip_mismatch", "used_up", "storage_error", "panic",
   "risk_accept", "require_pow_pass", "pow_valid", "not_protected", "pow_disabled",
   "dry_run_allow"}

Request ==
  [pc : {"entered", "risk", "fallback", "finalize", "charging", "binding", "unbound",
         "bound", "mismatch", "recording", "answered"},
   in : Inputs, status : Statuses, path : {"pow_only", "accept", "require_pow"},
   res : [allowed : BOOLEAN, reason : Reasons], late : BOOLEAN]

TypeOK ==
  /\ cfg \in Configs
  /\ phase \in {"serving", "draining", "pending_closed", "closed"}
  /\ req \in [Requests -> Request \union {Idle}]
  /\ honoured \in [Tokens -> Nat]
  /\ served \in [Tokens -> SUBSET [addr : Addrs, late : BOOLEAN]]
  /\ Pending!TypeOK
  /\ Usage!TypeOK

Answered(r) == req[r].pc = "answered"

\* Whatever mixture of ACCEPT, RATE_LIMIT, REQUIRE_POW verdicts and engine
\* failures lets requests through on a generic token, every counted one was
\* charged to the token's quota: "max_uses is charged on every allow path"
\* (README.md:139).
HonouredWithinQuota ==
  \A t \in Tokens : honoured[t] <= granted[t] /\ granted[t] <= Limit[t]

\* The tests a token must pass at the time of the answer, less the lag of a
\* call, for a request that had to show one.
GoodFor(t, in) ==
  LET p == TokenOf[t]
  IN  /\ p.defect = "none"
      /\ p.mode \in cfg.modes
      /\ clock < Expiry[t] + MaxLag
      /\ p.mode = "ip_bound" => /\ in.addr # ""
                                /\ p.ip # "" => sameIP(p.ip, in.addr)

\* A request let through because of its token had a good one.  No other
\* status may be treated as valid, on either path (pow_verify.go:279).
AllowJustified ==
  [][\A r \in Requests :
       (req'[r].pc = "answered" /\ req'[r] # req[r]
          /\ req'[r].res \in {allow("pow_valid"), allow("require_pow_pass")})
       => GoodFor(req'[r].in.token, req'[r].in)]_vars

\* The protected requests of one client that Verify is working on.
InFlight(ip) ==
  {r \in Requests :
     /\ req[r].pc # "idle"
     /\ UsesPending(req[r].in)
     /\ req[r].res.reason \notin {"ip_pending_blocked", "bypass_all", "missing_headers"}
     /\ req[r].in.addr \in DOMAIN CanonicalIP
     /\ CanonicalIP[req[r].in.addr] = ip}

\* max_per_ip bounds the work in progress for one client under every path
\* through Verify (README.md:142).
InFlightBounded == \A ip \in IPs : Cardinality(InFlight(ip)) <= Pending!maxPerIP

\* The limiter counts exactly the work in progress: no path through Verify,
\* panics and early returns included, keeps or loses a slot.
SlotsMatchInFlight ==
  ~pendingClosed =>
    \A ip \in IPs : Pending!Lookup(entries, ip).pending = Cardinality(InFlight(ip))

OneClient(S) == \A x, y \in S : sameIP(x.addr, y.addr)

\* Once a request with an empty-ip token has been answered, requests that
\* arrive later are let through from one address only: "later requests from
\* other IPs get ip_mismatch" (pow_verify.go:143).
LateArrivalsBound == \A t \in Tokens : OneClient({x \in served[t] : x.late})

\* Every request is answered and gives its slot back, also when the backend
\* fails or the process is closing its components under it.
EveryRequestEnds == \A r \in Requests : req[r].pc # "idle" ~> req[r].pc = "idle"
=============================================================================
