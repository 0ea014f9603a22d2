----------------------------- MODULE RiskEngine -----------------------------
(***************************************************************************)
(* internal/risk: the rule chains of Engine.Evaluate, the per-request      *)
(* counter resolver, and the counters' increments after the evaluation,    *)
(* for concurrent requests over one CounterStore.  The rule set is first   *)
(* validated as internal/config/validate.go does (ChainCycles).            *)
(*                                                                         *)
(* What a rule tests besides counters is abstracted to the set of request  *)
(* kinds it matches.  A request waits at every read of a counter.          *)
(***************************************************************************)
EXTENDS Integers, Sequences, SequencesExt, FiniteSets

CONSTANTS
  Requests,        \* request goroutines
  RequestKinds,    \* what rules can tell apart about a request
  Keys, NoKey,     \* counter keys; the empty key of a request without address
  CounterNames,
  When,            \* per counter, the request kinds it counts
  Names,           \* chain names
  Texts,           \* reasons and marks
  ChainMaps,       \* the rule sets an operator may write
  MaxVisits,       \* visits of one chain before Evaluate gives up: 8
  Threshold,       \* per counter, the limit whose overshoot is measured
  MaxArrivals,     \* bound: requests
  Drivers, WindowOf, Second, SweepInterval, MaxSends, MaxIncrs, Horizon, MaxTime  \* CounterStore

Terminal == {"ACCEPT", "REJECT", "RATE_LIMIT", "TOO_MANY", "REQUIRE_POW"}
Targets == Terminal \union {"JUMP", "RETURN", "LOG", "MARK"}
Ops == {"==", "!=", ">=", ">", "<=", "<"}

NoCounter == [name |-> "none"]
CounterMatch == [name : CounterNames, op : Ops, value : Nat]

Rule == [kinds : SUBSET RequestKinds, counter : CounterMatch \union {NoCounter},
         target : Targets, chain : Names \union {""}, reason : Texts, mark : Texts]

Policy == [target : Targets, reason : Texts]

ASSUME RuleSetAssumption ==
  /\ "INPUT" \in Names /\ "" \notin Names
  /\ {"", "chain_depth_exceeded"} \subseteq Texts
  /\ \A m \in ChainMaps :
       /\ DOMAIN m \subseteq Names
       /\ \A n \in DOMAIN m : m[n].policy \in Policy /\ m[n].rules \in Seq(Rule)
ASSUME CounterAssumption ==
  /\ When \in [CounterNames -> SUBSET RequestKinds]
  /\ Threshold \in [CounterNames -> Nat \ {0}]
  /\ WindowOf \in [CounterNames -> Nat \ {0}]
  /\ NoKey \notin Keys
ASSUME LimitAssumption == MaxVisits \in Nat \ {0} /\ MaxArrivals \in Nat
ASSUME RequestsFinite == IsFiniteSet(Requests)
ASSUME StoreAssumption ==
  /\ Drivers \subseteq {"memory", "redis"}
  /\ Second \in Nat \ {0} /\ SweepInterval \in Nat \ {0} /\ MaxSends \in Nat \ {0}
  /\ MaxIncrs \in [Drivers -> Nat]
  /\ MaxTime \in Nat /\ Horizon \in [Drivers -> 0 .. MaxTime]

VARIABLES
  phase,     \* "validating", then "serving" or "refused"
  chains,    \* the rule set: a function on the names of its chains
  req,       \* per goroutine, the evaluation it is in
  arrivals,  \* requests so far
  color, path, todo, problems,                                       \* ChainCycles
  driver, buckets, lastSweep, closed, clock, op, counted, issued, lastIncr,  \* CounterStore
  under,     \* history: per slot, counted requests that read less than the threshold
  missed     \* history: per slot, increments that were not acknowledged

engineVars == <<phase, chains, req, arrivals, under, missed>>
cycleVars == <<color, path, todo, problems>>
counterVars == <<driver, buckets, lastSweep, closed, clock, op, counted, issued, lastIncr>>
vars == <<engineVars, cycleVars, counterVars>>

Series == CounterNames \X Keys

isJump(rule) == rule.target = "JUMP"

Jumps ==
  [n \in DOMAIN chains |->
     [i \in DOMAIN chains[n].rules |->
        IF isJump(chains[n].rules[i]) THEN chains[n].rules[i].chain ELSE ""]]

Cycles == INSTANCE ChainCycles WITH jumps <- Jumps, NoJump <- ""
Counters == INSTANCE CounterStore
              WITH Callers <- Requests, Window <- [s \in Series |-> WindowOf[s[1]]]

(***************************************************************************)
(* Loading the rule set.                                                   *)
(***************************************************************************)
\* Fault: a policy may have any target.
FaultAnyPolicy ==
  \A n \in DOMAIN chains : \A i \in DOMAIN chains[n].rules :
    isJump(chains[n].rules[i]) => chains[n].rules[i].chain \in DOMAIN chains

\* checkRiskControl and compileChain, but for cycles: every policy is terminal
\* and every JUMP leads to a chain.  Nothing asks for a chain named INPUT.
checkRiskControl ==
  /\ DOMAIN chains # {}
  /\ \A n \in DOMAIN chains :
       /\ chains[n].policy.target \in Terminal
       /\ \A i \in DOMAIN chains[n].rules :
            isJump(chains[n].rules[i]) => chains[n].rules[i].chain \in DOMAIN chains

detectCycles ==
  /\ phase = "validating"
  /\ Cycles!Step
  /\ UNCHANGED <<engineVars, counterVars>>

Loaded ==
  /\ phase = "validating"
  /\ Cycles!Done
  /\ phase' = IF ~problems /\ checkRiskControl THEN "serving" ELSE "refused"
  /\ UNCHANGED <<chains, req, arrivals, under, missed, cycleVars, counterVars>>

(***************************************************************************)
(* Evaluate.                                                               *)
(***************************************************************************)
Idle == [pc |-> "idle"]

NoDecision == [target |-> "", reason |-> "", chain |-> "INPUT"]
Unread == -1

\* frames: the chains under evaluation, each with its current rule.
\* cache: the values of the counters read.  blind: did a read fail?
Fresh(in) ==
  [pc |-> "rule", in |-> in, frames |-> <<>>, visited |-> [n \in Names |-> 0],
   marks |-> <<>>, cache |-> [c \in CounterNames |-> Unread], dec |-> NoDecision, blind |-> FALSE,
   todo |-> {}]

Become(r, q) ==
  /\ req' = [req EXCEPT ![r] = q]
  /\ UNCHANGED <<phase, chains, arrivals, under, missed>>

Decide(q, dec) == [q EXCEPT !.pc = "returning", !.dec = dec]

\* The entry of evalChain.
enterChain(q, name) ==
  IF name \notin DOMAIN chains THEN [q EXCEPT !.pc = "failed"]
  ELSE LET seen == [q EXCEPT !.visited[name] = @ + 1,
                             !.frames = Append(@, [chain |-> name, at |-> 1])]
       IN  IF seen.visited[name] > MaxVisits
           THEN Decide(seen, [target |-> "REJECT", reason |-> "chain_depth_exceeded",
                              chain |-> name])
           ELSE seen

Evaluate(r, in) ==
  /\ phase = "serving"
  /\ req[r].pc = "idle"
  /\ arrivals < MaxArrivals
  /\ arrivals' = arrivals + 1
  /\ req' = [req EXCEPT ![r] = enterChain(Fresh(in), "INPUT")]
  /\ UNCHANGED <<phase, chains, under, missed, cycleVars, counterVars>>

Top(q) == Last(q.frames)
AtRule(q) == q.pc = "rule" /\ Top(q).at <= Len(chains[Top(q).chain].rules)
RuleOf(q) == chains[Top(q).chain].rules[Top(q).at]
NextRule(q) == [q EXCEPT !.frames[Len(q.frames)].at = @ + 1]

applyPolicy(q) ==
  LET n == Top(q).chain
  IN  Decide(q, [target |-> chains[n].policy.target, reason |-> chains[n].policy.reason,
                 chain |-> n])

\* What a rule that matched does.
dispatch(q) ==
  LET rule == RuleOf(q)
  IN  CASE rule.target \in Terminal ->
             Decide(q, [target |-> rule.target, reason |-> rule.reason, chain |-> Top(q).chain])
        [] rule.target = "JUMP" -> enterChain(q, rule.chain)
        [] rule.target = "RETURN" -> applyPolicy(q)
        [] rule.target = "LOG" -> NextRule(q)
        [] OTHER -> NextRule(IF rule.mark = "" THEN q
                             ELSE [q EXCEPT !.marks = Append(@, rule.mark)])

compareCounter(v, o, n) ==
  CASE o = ">=" -> v >= n
    [] o = ">"  -> v > n
    [] o = "==" -> v = n
    [] o = "!=" -> v # n
    [] o = "<=" -> v <= n
    [] OTHER    -> v < n

\* The counter is the last part of a rule's condition to be looked at.
TestsCounter(q, rule) == q.in.kind \in rule.kinds /\ rule.counter # NoCounter

afterTest(q, v) ==
  LET rule == RuleOf(q)
      hit  == /\ q.in.kind \in rule.kinds
              /\ \/ rule.counter = NoCounter
                 \/ compareCounter(v, rule.counter.op, rule.counter.value)
  IN  IF hit THEN dispatch(q) ELSE NextRule(q)

\* Fault: a counter is read again by every rule that tests it.
FaultNotCached(q, name) == q.in.key # NoKey

\* cachingResolver.Get has to ask the store.
mustFetch(q, name) == q.cache[name] = Unread /\ q.in.key # NoKey

\* A counter without a value counts as 0.
Cached(q, name) == IF q.cache[name] = Unread THEN 0 ELSE q.cache[name]

\* A rule that needs no read: the counter is cached, or has no key.
Match(r) ==
  LET q == req[r]
      c == RuleOf(q).counter.name
  IN  /\ AtRule(q)
      /\ TestsCounter(q, RuleOf(q)) => ~mustFetch(q, c)
      /\ Become(r, afterTest(q, IF TestsCounter(q, RuleOf(q)) THEN Cached(q, c) ELSE 0))
      /\ UNCHANGED <<cycleVars, counterVars>>

\* Fault: the evaluation does not wait for the value.
FaultFetchAsync(r) ==
  LET q == req[r]
  IN  /\ AtRule(q)
      /\ TestsCounter(q, RuleOf(q))
      /\ mustFetch(q, RuleOf(q).counter.name)
      /\ Counters!Begin(r, "Get", <<RuleOf(q).counter.name, q.in.key>>)
      /\ Become(r, NextRule(q))
      /\ UNCHANGED cycleVars

Fetch(r) ==
  LET q == req[r]
  IN  /\ AtRule(q)
      /\ TestsCounter(q, RuleOf(q))
      /\ mustFetch(q, RuleOf(q).counter.name)
      /\ Counters!Begin(r, "Get", <<RuleOf(q).counter.name, q.in.key>>)
      /\ Become(r, [q EXCEPT !.pc = "reading"])
      /\ UNCHANGED cycleVars

\* The slot of a finished call: memory reads the time in the call's last step.
SlotOf(r) == Counters!bucketKey(op[r].series, IF driver = "memory" THEN clock ELSE op[r].now)

\* The store answered, and the rule is decided with the answer.  A failed read
\* counts as 0 and is not cached.
Resolve(r) ==
  LET q  == [req[r] EXCEPT !.pc = "rule"]
      c  == op[r].series[1]
      ok == op[r].pc = "ok"
      v  == IF ok THEN op[r].value ELSE 0
      q1 == IF ok THEN [q EXCEPT !.cache[c] = v]
                  ELSE [q EXCEPT !.blind = TRUE]
  IN  /\ req[r].pc = "reading"
      /\ op[r].pc \in Counters!Outcomes
      /\ req' = [req EXCEPT ![r] = afterTest(q1, v)]
      /\ Counters!Return(r)
      /\ UNCHANGED <<phase, chains, arrivals, under, missed, cycleVars>>

EndOfChain(r) ==
  LET q == req[r]
  IN  /\ q.pc = "rule" /\ ~AtRule(q)
      /\ Become(r, applyPolicy(q))
      /\ UNCHANGED <<cycleVars, counterVars>>

\* Fault: only requests that were refused are counted.
FaultCountRefused(q) ==
  {c \in CounterNames :
     q.in.kind \in When[c] /\ q.in.key # NoKey /\ q.dec.target # "ACCEPT"}

\* The counters to increment for a request: counterWhenMatches, counterKey.
toCount(q) == {c \in CounterNames : q.in.kind \in When[c] /\ q.in.key # NoKey}

\* evalChain returns.  A JUMP passes a terminal decision on, with its own
\* reason if there is none; anything else lets its chain go on.
ReturnToCaller(r) ==
  LET q  == req[r]
      up == [q EXCEPT !.frames = Front(@)]
  IN  /\ q.pc = "returning"
      /\ Become(r,
           IF Len(q.frames) = 1 THEN [up EXCEPT !.pc = "counting", !.todo = toCount(q)]
           ELSE IF q.dec.target \in Terminal
                THEN [up EXCEPT !.dec.reason = IF @ = "" THEN RuleOf(up).reason ELSE @]
                ELSE [NextRule(up) EXCEPT !.pc = "rule"])
      /\ UNCHANGED <<cycleVars, counterVars>>

(***************************************************************************)
(* IncrementForRequest, after the evaluation: in any order, one at a time, *)
(* errors logged.  A failed evaluation counts nothing.                     *)
(***************************************************************************)
Count(r, c) ==
  /\ req[r].pc = "counting" /\ c \in req[r].todo
  /\ Counters!Begin(r, "Incr", <<c, req[r].in.key>>)
  /\ Become(r, [req[r] EXCEPT !.todo = @ \ {c}])
  /\ UNCHANGED cycleVars

Counted(r) ==
  /\ req[r].pc = "counting"
  /\ op[r].pc \in Counters!Outcomes
  /\ missed' = IF op[r].pc = "ok" THEN missed ELSE [missed EXCEPT ![SlotOf(r)] = @ + 1]
  /\ Counters!Return(r)
  /\ UNCHANGED <<phase, chains, req, arrivals, under, cycleVars>>

Finish(r) ==
  /\ \/ req[r].pc = "failed"
     \/ req[r].pc = "counting" /\ req[r].todo = {} /\ op[r].pc = "idle"
  /\ Become(r, Idle)
  /\ UNCHANGED <<cycleVars, counterVars>>

\* The store works; a read within its window that finds the counter under its
\* threshold is noted.
StoreStep(r) ==
  /\ Counters!Serve(r)
  /\ under' = IF /\ op'[r].pc = "ok" /\ op[r].kind = "Get"
                 /\ op'[r].value < Threshold[op[r].series[1]]
                 /\ SlotOf(r) = Counters!bucketKey(op[r].series, clock)
                 /\ req[r].in.kind \in When[op[r].series[1]]
                THEN [under EXCEPT ![SlotOf(r)] = @ + 1] ELSE under
  /\ UNCHANGED <<phase, chains, req, arrivals, missed, cycleVars>>

Environment ==
  /\ phase = "serving"
  /\ Counters!Environment
  /\ UNCHANGED <<engineVars, cycleVars>>

Terminated ==
  /\ phase = "refused" \/ (arrivals = MaxArrivals /\ \A r \in Requests : req[r].pc = "idle")
  /\ UNCHANGED vars

-----------------------------------------------------------------------------
Inputs == [kind : RequestKinds, key : Keys \union {NoKey}]

Init ==
  /\ phase = "validating"
  /\ chains \in ChainMaps
  /\ req = [r \in Requests |-> Idle]
  /\ arrivals = 0
  /\ Cycles!Start
  /\ Counters!Init
  /\ under = [b \in Counters!Slot |-> 0]
  /\ missed = [b \in Counters!Slot |-> 0]

Step(r) ==
  \/ \E in \in Inputs : Evaluate(r, in)
  \/ Match(r) \/ Fetch(r) \/ Resolve(r) \/ EndOfChain(r) \/ ReturnToCaller(r)
  \/ \E c \in CounterNames : Count(r, c)
  \/ Counted(r) \/ Finish(r) \/ StoreStep(r)

Next ==
  \/ detectCycles \/ Loaded
  \/ \E r \in Requests : Step(r)
  \/ Environment \/ Terminated

Spec == Init /\ [][Next]_vars

-----------------------------------------------------------------------------
(***************************************************************************)
(* Properties                                                              *)
(***************************************************************************)
Frame == [chain : Names, at : Nat \ {0}]

Request ==
  [pc : {"rule", "reading", "returning", "counting", "failed"}, in : Inputs,
   frames : Seq(Frame), visited : [Names -> 0 .. MaxVisits + 1], marks : Seq(Texts),
   cache : [CounterNames -> Nat \union {Unread}],
   dec : [target : Targets \union {""}, reason : Texts, chain : Names],
   blind : BOOLEAN, todo : SUBSET CounterNames]

\* Every variable has its type, and a goroutine is inside the store only while
\* its request reads or increments a counter, and always while it reads one.
TypeOK ==
  /\ phase \in {"validating", "serving", "refused"}
  /\ chains \in ChainMaps
  /\ req \in [Requests -> Request \union {Idle}]
  /\ arrivals \in 0 .. MaxArrivals
  /\ under \in [Counters!Slot -> Nat]
  /\ missed \in [Counters!Slot -> Nat]
  /\ \A r \in Requests :
       /\ op[r].pc # "idle" => req[r].pc \in {"reading", "counting"}
       /\ req[r].pc = "reading" => op[r].pc # "idle"

\* detectCycles refuses exactly the cyclic rule sets, in every order of its
\* search.
CyclesFound == Cycles!CyclesFound

\* With a rule set that passed validation an evaluation always ends in a
\* terminal verdict of a rule or a policy: no chain is visited twice, so the
\* "defensive" limit of evalChain is never what decides, and the only
\* evaluation that fails is one without an INPUT chain.
EvaluationSound ==
  \A r \in Requests :
    /\ req[r].pc = "failed" => "INPUT" \notin DOMAIN chains
    /\ req[r].pc \notin {"idle", "failed"} => \A n \in Names : req[r].visited[n] <= 1
    /\ req[r].pc = "counting" => req[r].dec.target \in Terminal

\* What a verdict is about: the request and the counters as it saw them.
View(q) == [in |-> q.in, cache |-> q.cache]

\* The declarative meaning of a rule set: in a chain the first matching rule
\* that is not LOG or MARK decides, else the policy.
hits(rule, q) ==
  /\ q.in.kind \in rule.kinds
  /\ \/ rule.counter = NoCounter
     \/ compareCounter(Cached(q, rule.counter.name), rule.counter.op, rule.counter.value)

stops(n, q) ==
  {i \in DOMAIN chains[n].rules :
     hits(chains[n].rules[i], q) /\ chains[n].rules[i].target \notin {"LOG", "MARK"}}

firstStop(n, q) == CHOOSE i \in stops(n, q) : \A j \in stops(n, q) : i <= j

\* The verdict of chain n, from those of the chains it may jump to.
Judge(verdict, n, q) ==
  LET policy == [target |-> chains[n].policy.target,
                 reason |-> chains[n].policy.reason, chain |-> n]
      rule == chains[n].rules[firstStop(n, q)]
  IN  IF stops(n, q) = {} \/ rule.target = "RETURN" THEN policy
      ELSE IF rule.target # "JUMP"
           THEN [target |-> rule.target, reason |-> rule.reason, chain |-> n]
           ELSE [verdict[rule.chain] EXCEPT !.reason = IF @ = "" THEN rule.reason ELSE @]

Meaning(q) ==
  LET verdict[n \in DOMAIN chains] == Judge(verdict, n, q) IN verdict

\* The engine's verdict is that meaning at one instant: all rules see the same
\* value of a counter, however far other requests move it meanwhile (unless a
\* read failed, which counts as 0 for the one rule that asked).
VerdictAgrees ==
  \A r \in Requests :
    req[r].pc = "counting" /\ ~req[r].blind => req[r].dec = Meaning(View(req[r]))["INPUT"]

\* The counters are read before they are incremented, so concurrent requests
\* can pass a limit together.  In one window never more get by than the limit
\* plus the other goroutines in flight, and one for each failed increment
\* (a read that reaches redis after its window finds nothing and is not meant).
\* Counters whose redis TTL ends inside their window are not meant either:
\* their limit starts again there.
OvershootBounded ==
  \A b \in Counters!Slot : Counters!Lasting(b[1]) =>
    under[b] <= Threshold[b[1][1]] + Cardinality(Requests) - 1 + missed[b]
=============================================================================
