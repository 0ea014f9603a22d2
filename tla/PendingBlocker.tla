--------------------------- MODULE PendingBlocker ---------------------------
(***************************************************************************)
(* internal/risk/pending.go: the per-IP limiter of concurrent protected    *)
(* requests.  A request goroutine calls Enter before any other work and    *)
(* runs the release closure it got back when it is done.  An IP that       *)
(* exceeds its limit is blocked for a fixed time.                          *)
(*                                                                         *)
(* Every method holds b.mu from its first read to its last write, and the  *)
(* clock is read under the lock, so each call is one action.               *)
(***************************************************************************)
EXTENDS Integers, FiniteSets

CONSTANTS
  Requests,       \* request goroutines
  IPs,            \* canonical IP addresses
  NoIP,           \* the from of a request that is outside or not limited
  Addrs,          \* spellings of X-Real-IP
  CanonicalIP,    \* the parsable spellings, each with its canonical address
  ConfiguredMax,  \* risk_control.pending.max_per_ip as passed to the constructor
  ConfiguredTTL,  \* risk_control.pending.block_ttl as passed to the constructor
  DefaultTTL,     \* time.Hour
  SweepInterval,  \* pendingSweepInterval
  Horizon,        \* bound: no request arrives after this time
  MaxTime         \* bound: the clock stops here

ASSUME CanonicalAssumption ==
  /\ DOMAIN CanonicalIP \subseteq Addrs
  /\ \A a \in DOMAIN CanonicalIP : CanonicalIP[a] \in IPs
ASSUME LimitAssumption == ConfiguredMax \in Int /\ ConfiguredTTL \in Int
ASSUME TimeAssumption ==
  /\ DefaultTTL \in Nat \ {0}
  /\ SweepInterval \in Nat
  /\ Horizon \in Nat
  /\ MaxTime \in Nat \ {0}
ASSUME NoIPAssumption == NoIP \notin IPs
ASSUME RequestsFinite == IsFiniteSet(Requests)

VARIABLES
  entries,     \* b.entries: the map, as a function on the IPs that have an entry
  lastSweep,   \* b.lastSweep, 0 when zero
  closed,      \* b.closed
  clock,       \* b.now(); starts at 1, so that 0 is Go's zero time
  verdict,     \* per request, what Enter answered, "none" while it is outside
  from,        \* per request inside, its canonical IP (what release captured)
  overflowAt   \* history: when the onAutoBlock hook last fired for an IP, 0 if never

blockerVars == <<entries, lastSweep, closed, clock, verdict, from, overflowAt>>

Entry == [pending : Nat, autoBlockedUntil : Nat]

Verdicts == {"none", "admitted", "unlimited", "blocked"}

(***************************************************************************)
(* The constructor and the locked helpers.                                 *)
(***************************************************************************)
maxPerIP == IF ConfiguredMax < 1 THEN 1 ELSE ConfiguredMax

blockTTL == IF ConfiguredTTL <= 0 THEN DefaultTTL ELSE ConfiguredTTL

\* A read of an absent key yields the zero entry.
zeroEntry == [pending |-> 0, autoBlockedUntil |-> 0]

Lookup(E, ip) == IF ip \in DOMAIN E THEN E[ip] ELSE zeroEntry

Put(E, ip, entry) ==
  [i \in DOMAIN E \union {ip} |-> IF i = ip THEN entry ELSE E[i]]

Delete(E, ip) == [i \in DOMAIN E \ {ip} |-> E[i]]

blockedAt(now, entry) == now < entry.autoBlockedUntil

expireEntry(now, entry) ==
  IF ~blockedAt(now, entry)
    THEN [pending |-> entry.pending, autoBlockedUntil |-> 0]
    ELSE entry

\* Fault: entries of requests in flight are reclaimed.
FaultDeadIgnoresPending(now, entry) == ~blockedAt(now, entry)

\* Fault: entries of blocked IPs are reclaimed.
FaultDeadIgnoresBlock(now, entry) == entry.pending = 0

\* An entry that neither counts a request nor blocks one.
Dead(now, entry) == entry.pending = 0 /\ ~blockedAt(now, entry)

sweepDue(now) == lastSweep = 0 \/ now - lastSweep >= SweepInterval

\* Fault: the sweep resets expired blocks and never deletes.
FaultSweepKeepsAll(now, E) == [ip \in DOMAIN E |-> expireEntry(now, E[ip])]

sweepAll(now, E) ==
  [ip \in {i \in DOMAIN E : ~Dead(now, E[i])} |-> expireEntry(now, E[ip])]

\* The map as sweepLocked leaves it.
swept == IF sweepDue(clock) THEN sweepAll(clock, entries) ELSE entries

sweepTime == IF sweepDue(clock) THEN clock ELSE lastSweep

(***************************************************************************)
(* Enter, one action per answer.                                           *)
(***************************************************************************)
Arrive(r) == verdict[r] = "none" /\ clock <= Horizon

Answer(r, ip, v) ==
  /\ verdict' = [verdict EXCEPT ![r] = v]
  /\ from' = [from EXCEPT ![r] = ip]

\* An address that does not parse is not limited and takes no lock.
EnterUnlimited(r, a) ==
  /\ Arrive(r)
  /\ a \notin DOMAIN CanonicalIP
  /\ Answer(r, NoIP, "unlimited")
  /\ UNCHANGED <<entries, lastSweep, closed, clock, overflowAt>>

EnterClosed(r, a) ==
  /\ Arrive(r)
  /\ a \in DOMAIN CanonicalIP
  /\ closed
  /\ Answer(r, CanonicalIP[a], "blocked")
  /\ UNCHANGED <<entries, lastSweep, closed, clock, overflowAt>>

\* The entry Enter works on: after the sweep, with its own block expired.
current(ip) == expireEntry(clock, Lookup(swept, ip))

EnterBlocked(r, a) ==
  /\ Arrive(r)
  /\ a \in DOMAIN CanonicalIP
  /\ ~closed
  /\ LET ip == CanonicalIP[a]
     IN  /\ blockedAt(clock, current(ip))
         /\ entries' = Put(swept, ip, current(ip))
  /\ lastSweep' = sweepTime
  /\ Answer(r, CanonicalIP[a], "blocked")
  /\ UNCHANGED <<closed, clock, overflowAt>>

\* Fault: the limit is tested before the block is.
FaultOverflowFirst(r, a) ==
  /\ Arrive(r)
  /\ a \in DOMAIN CanonicalIP
  /\ ~closed
  /\ LET ip    == CanonicalIP[a]
         entry == current(ip)
     IN  /\ entry.pending >= maxPerIP
         /\ entries' = Put(swept, ip,
                         [entry EXCEPT !.autoBlockedUntil = clock + blockTTL])
         /\ overflowAt' = [overflowAt EXCEPT ![ip] = clock]
  /\ lastSweep' = sweepTime
  /\ Answer(r, CanonicalIP[a], "blocked")
  /\ UNCHANGED <<closed, clock>>

EnterOverflow(r, a) ==
  /\ Arrive(r)
  /\ a \in DOMAIN CanonicalIP
  /\ ~closed
  /\ LET ip    == CanonicalIP[a]
         entry == current(ip)
     IN  /\ ~blockedAt(clock, entry)
         /\ entry.pending >= maxPerIP
         /\ entries' = Put(swept, ip,
                         [entry EXCEPT !.autoBlockedUntil = clock + blockTTL])
         /\ overflowAt' = [overflowAt EXCEPT ![ip] = clock]
  /\ lastSweep' = sweepTime
  /\ Answer(r, CanonicalIP[a], "blocked")
  /\ UNCHANGED <<closed, clock>>

\* Fault: off by one, <= for <.
FaultAdmitsOneMore(r, a) ==
  /\ Arrive(r)
  /\ a \in DOMAIN CanonicalIP
  /\ ~closed
  /\ LET ip    == CanonicalIP[a]
         entry == current(ip)
     IN  /\ ~blockedAt(clock, entry)
         /\ entry.pending <= maxPerIP
         /\ entries' = Put(swept, ip, [entry EXCEPT !.pending = @ + 1])
  /\ lastSweep' = sweepTime
  /\ Answer(r, CanonicalIP[a], "admitted")
  /\ UNCHANGED <<closed, clock, overflowAt>>

EnterAdmitted(r, a) ==
  /\ Arrive(r)
  /\ a \in DOMAIN CanonicalIP
  /\ ~closed
  /\ LET ip    == CanonicalIP[a]
         entry == current(ip)
     IN  /\ ~blockedAt(clock, entry)
         /\ entry.pending < maxPerIP
         /\ entries' = Put(swept, ip, [entry EXCEPT !.pending = @ + 1])
  /\ lastSweep' = sweepTime
  /\ Answer(r, CanonicalIP[a], "admitted")
  /\ UNCHANGED <<closed, clock, overflowAt>>

Enter(r, a) ==
  \/ EnterUnlimited(r, a)
  \/ EnterClosed(r, a)
  \/ EnterBlocked(r, a)
  \/ EnterOverflow(r, a)
  \/ EnterAdmitted(r, a)

(***************************************************************************)
(* The release closure of an admitted request; the once makes a second     *)
(* call a no-op, which leaving the admitted state stands for.              *)
(***************************************************************************)
\* Fault: no once and no guard at zero, so a release can run twice.
FaultReleasedTwice(ip) ==
  Put(entries, ip, [Lookup(entries, ip) EXCEPT !.pending = @ - 2])

\* Fault: the slot is never given back.
FaultSlotLeaked(ip) == Put(entries, ip, expireEntry(clock, Lookup(entries, ip)))

\* Fault: the last release forgets the IP even if it is blocked.
FaultForgetsBlock(ip) ==
  LET old == Lookup(entries, ip)
  IN  IF old.pending <= 1 THEN Delete(entries, ip)
      ELSE Put(entries, ip, expireEntry(clock, [old EXCEPT !.pending = @ - 1]))

released(ip) ==
  LET old   == Lookup(entries, ip)
      entry == expireEntry(clock,
                 [old EXCEPT !.pending = IF @ > 0 THEN @ - 1 ELSE @])
  IN  IF Dead(clock, entry) THEN Delete(entries, ip) ELSE Put(entries, ip, entry)

release(r) ==
  /\ verdict[r] = "admitted"
  /\ entries' = IF closed \/ from[r] \notin DOMAIN entries
                  THEN entries ELSE released(from[r])
  /\ Answer(r, NoIP, "none")
  /\ UNCHANGED <<lastSweep, closed, clock, overflowAt>>

\* A request that was not admitted got a release closure that does nothing.
Leave(r) ==
  /\ verdict[r] \in {"unlimited", "blocked"}
  /\ Answer(r, NoIP, "none")
  /\ UNCHANGED <<entries, lastSweep, closed, clock, overflowAt>>

\* b.entries = nil: reads find nothing, and nothing writes any more.
Close ==
  /\ ~closed
  /\ closed' = TRUE
  /\ entries' = [ip \in {} |-> zeroEntry]
  /\ UNCHANGED <<lastSweep, clock, verdict, from, overflowAt>>

Tick ==
  /\ clock < MaxTime
  /\ clock' = clock + 1
  /\ UNCHANGED <<entries, lastSweep, closed, verdict, from, overflowAt>>

\* The end of the observed period; nothing else may leave the system stuck.
Terminated ==
  /\ clock = MaxTime
  /\ \A r \in Requests : verdict[r] = "none"
  /\ UNCHANGED blockerVars

-----------------------------------------------------------------------------
Init ==
  /\ entries = [ip \in {} |-> zeroEntry]
  /\ lastSweep = 0
  /\ closed = FALSE
  /\ clock = 1
  /\ verdict = [r \in Requests |-> "none"]
  /\ from = [r \in Requests |-> NoIP]
  /\ overflowAt = [ip \in IPs |-> 0]

Next ==
  \/ \E r \in Requests : \E a \in Addrs : Enter(r, a)
  \/ \E r \in Requests : release(r) \/ Leave(r)
  \/ Close
  \/ Tick
  \/ Terminated

Spec == Init /\ [][Next]_blockerVars

\* Time passes, and every admitted request runs its deferred release: the
\* handler's work is bounded by the server and the backends' own timeouts.
Fairness == WF_blockerVars(Tick) /\ \A r \in Requests : WF_blockerVars(release(r))

FairSpec == Spec /\ Fairness

-----------------------------------------------------------------------------
(***************************************************************************)
(* Properties.                                                             *)
(***************************************************************************)
TypeOK ==
  /\ \E D \in SUBSET IPs : entries \in [D -> Entry]
  /\ lastSweep \in Nat
  /\ closed \in BOOLEAN
  /\ clock \in Nat \ {0}
  /\ verdict \in [Requests -> Verdicts]
  /\ from \in [Requests -> IPs \union {NoIP}]
  /\ overflowAt \in [IPs -> Nat]

\* The requests of an IP that are past Enter and have not run release.
Holders(ip) == {r \in Requests : verdict[r] = "admitted" /\ from[r] = ip}

\* The IP overflowed less than blockTTL ago.
CoolingOff(ip) == overflowAt[ip] # 0 /\ clock < overflowAt[ip] + blockTTL

\* A running block ends blockTTL after its overflow, and an entry without one
\* has no time in the future: what BlockIsFixed needs to survive a tick.
BlockShape ==
  ~closed => \A ip \in IPs :
    IF CoolingOff(ip)
      THEN Lookup(entries, ip).autoBlockedUntil = overflowAt[ip] + blockTTL
      ELSE Lookup(entries, ip).autoBlockedUntil <= clock

\* The pending count of an IP is exactly the number of its requests in
\* flight: no sweep, expiry, block or deletion of an entry ever loses or
\* invents a slot (pending.go Enter, release, sweepLocked).
PendingCountsHolders ==
  ~closed => \A ip \in IPs : Lookup(entries, ip).pending = Cardinality(Holders(ip))

\* Over all spellings of one address, no more than maxPerIP requests are in
\* flight at once, also while the blocker is being closed (pending.go:104).
LimitRespected == \A ip \in IPs : Cardinality(Holders(ip)) <= maxPerIP

\* An IP is blocked exactly while its last overflow is less than blockTTL
\* old: releases and sweeps never shorten a block, nothing prolongs one
\* (pending.go:78-80).
BlockIsFixed ==
  ~closed => \A ip \in IPs : blockedAt(clock, Lookup(entries, ip)) <=> CoolingOff(ip)

\* The inductive invariant behind the four above.
BlockerInv ==
  /\ TypeOK
  /\ \A r \in Requests : verdict[r] = "admitted" => from[r] \in IPs
  /\ PendingCountsHolders
  /\ LimitRespected
  /\ BlockShape

\* The step behind AnswersJustified.
JustifiedStep ==
  \A r \in Requests :
    /\ (verdict[r] = "none" /\ verdict'[r] = "admitted")
         => ~closed /\ ~CoolingOff(from'[r])
    /\ (verdict[r] = "none" /\ verdict'[r] = "blocked")
         => \/ closed
            \/ CoolingOff(from'[r])
            \/ Cardinality(Holders(from'[r])) = maxPerIP

\* No request of an IP is admitted in the blockTTL after its overflow, and a
\* refusal has a cause: the blocker is closed, the IP is cooling off, or its
\* slots are all taken (pending.go:92-113).
AnswersJustified == [][JustifiedStep]_blockerVars

\* The step behind BlockNotExtended.
NotExtendedStep == \A ip \in IPs : overflowAt'[ip] # overflowAt[ip] => ~CoolingOff(ip)

\* A block that is running is never restarted by further requests: the hook
\* fires again for an IP only after its previous block ran out
\* (pending.go:78-80, 100-113).
BlockNotExtended == [][NotExtendedStep]_blockerVars

\* The step behind SweepReclaims.
ReclaimStep ==
  lastSweep' # lastSweep => \A ip \in DOMAIN entries' : ~Dead(clock, entries'[ip])

\* A sweep leaves no entry behind that neither counts a request nor blocks
\* one, so the map is bounded by the IPs that are active or cooling off
\* (pending.go:155-168).
SweepReclaims == [][ReclaimStep]_blockerVars

\* Once requests stop arriving every IP can enter again: slots are given
\* back and blocks run out.
Recovers ==
  <>[](closed \/ \A ip \in IPs :
         /\ ~blockedAt(clock, Lookup(entries, ip))
         /\ Lookup(entries, ip).pending < maxPerIP)
=============================================================================
