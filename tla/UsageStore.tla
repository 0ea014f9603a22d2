----------------------------- MODULE UsageStore -----------------------------
(***************************************************************************)
(* internal/storage/{memory,postgres,redis}/usage.go behind the            *)
(* storage.UsageStore interface, with the callers' goroutines, the cleanup *)
(* loop of internal/app/app.go, Close, and a process that may die.         *)
(*                                                                         *)
(* A call is atomic only where its driver is: isClosed and the work are    *)
(* two critical sections in every driver, and the postgres driver reads    *)
(* the row again after an upsert that changed nothing.                     *)
(***************************************************************************)
EXTENDS Integers

CONSTANTS
  Drivers,   \* the drivers a deployment may configure
  Calls,     \* goroutines that call the store
  Ids,       \* sign ids
  IPs,       \* client addresses
  Limit,     \* ConsumeInput.MaxUses per id
  Expiry,    \* ConsumeInput.ExpiresAt per id
  Grace,     \* cleanup.expired_grace_period, in seconds
  MaxLag,    \* longest time between a token's validation and its last use
  MaxTime    \* bound: the clock stops here

ASSUME DriverAssumption == Drivers \subseteq {"memory", "postgres", "redis"}
ASSUME QuotaAssumption ==
  /\ Limit \in [Ids -> Nat \ {0}]
  /\ Expiry \in [Ids -> Nat]
ASSUME LagAssumption ==
  /\ Grace \in Nat
  /\ MaxLag \in Nat
  /\ MaxLag <= Grace
  /\ MaxTime \in Nat

VARIABLES
  driver,    \* cfg.Storage.Driver, fixed when the process starts
  records,   \* the stored records, as a function on the ids that have one
  closed,    \* s.closed
  clock,     \* Unix seconds, of the server and of Redis; 0 would be "no NowUnix"
  call,      \* per goroutine, the call it is in
  cleaner,   \* the cleanup loop: its threshold while a cleanup is running
  granted,   \* history: charged uses answered with Allowed, per id
  charged    \* history: uses written to a record, answered or not, per id

storeVars == <<driver, records, closed, clock, call, cleaner, granted, charged>>

Durable == driver # "memory"

Record == [uses : Nat, firstIP : IPs, ttlAt : Nat]

NoRecords == [id \in {} |-> 0]

Working == {"validated", "check", "body", "getCheck", "getBody"}

Outcomes == {"allowed", "used_up", "expired", "found", "not_found",
             "closed", "backend_error", "record_vanished", "panic"}

\* op: which interface method; since: when the token was last validated;
\* now: ConsumeInput.NowUnix; skip: ConsumeInput.SkipConsume.
Call == [pc : Working \union Outcomes, op : {"Consume", "Get"}, id : Ids,
         ip : IPs, since : Nat, now : Nat, skip : BOOLEAN]

Idle == [pc |-> "idle"]

NoCleanup == [running |-> FALSE, before |-> 0]

Put(R, id, rec) == [i \in DOMAIN R \union {id} |-> IF i = id THEN rec ELSE R[i]]

usesOf(id) == IF id \in DOMAIN records THEN records[id].uses ELSE 0

Goto(c, pc) == call' = [call EXCEPT ![c].pc = pc]

Increment(f, id) == [f EXCEPT ![id] = @ + 1]

(***************************************************************************)
(* The caller: a token is validated (checkTime: ExpiresAt > now), and the  *)
(* store is called with the clock of the validation (verifyPoWOnly) or     *)
(* with a fresh one (chargeQuotaForRiskAllow, bindEmptyIPFirstUse).        *)
(***************************************************************************)
Validate(c, id, ip) ==
  /\ call[c].pc \in {"idle", "validated"}
  /\ clock < Expiry[id]
  /\ call' = [call EXCEPT ![c] =
                [pc |-> "validated", op |-> "Get", id |-> id, ip |-> ip,
                 since |-> clock, now |-> clock, skip |-> FALSE]]
  /\ UNCHANGED <<driver, records, closed, clock, cleaner, granted, charged>>

CallConsume(c, fresh, skip) ==
  /\ call[c].pc \in {"validated", "not_found"}
  /\ call' = [call EXCEPT ![c].pc = "check", ![c].op = "Consume",
                          ![c].now = IF fresh THEN clock ELSE @,
                          ![c].skip = skip]
  /\ UNCHANGED <<driver, records, closed, clock, cleaner, granted, charged>>

CallGet(c) ==
  /\ call[c].pc = "validated"
  /\ Goto(c, "getCheck")
  /\ UNCHANGED <<driver, records, closed, clock, cleaner, granted, charged>>

\* The caller is done with the answer, or with a token it never spends.
Return(c) ==
  /\ call[c].pc \in Outcomes \union {"validated"}
  /\ call' = [call EXCEPT ![c] = Idle]
  /\ UNCHANGED <<driver, records, closed, clock, cleaner, granted, charged>>

(***************************************************************************)
(* Consume and Get, up to the isClosed test.                               *)
(***************************************************************************)
\* The redis driver answers for an expired token without asking Redis.
ConsumeCheck(c) ==
  /\ call[c].pc = "check"
  /\ Goto(c, CASE closed -> "closed"
               [] ~closed /\ driver = "redis" /\ Expiry[call[c].id] <= call[c].now
                    -> "expired"
               [] OTHER -> "body")
  /\ UNCHANGED <<driver, records, closed, clock, cleaner, granted, charged>>

GetCheck(c) ==
  /\ call[c].pc = "getCheck"
  /\ Goto(c, IF closed THEN "closed" ELSE "getBody")
  /\ UNCHANGED <<driver, records, closed, clock, cleaner, granted, charged>>

(***************************************************************************)
(* The memory driver's locked section.  After Close the map is nil: it can *)
(* be read and ranged over, and the first write to it panics.              *)
(***************************************************************************)
MemoryPanic(c) ==
  /\ call[c].pc = "body" /\ driver = "memory"
  /\ closed
  /\ Goto(c, "panic")
  /\ UNCHANGED <<driver, records, closed, clock, cleaner, granted, charged>>

\* Fault: every use rewrites the first address.
FaultFirstIPOverwritten(c) ==
  [uses |-> IF call[c].id \in DOMAIN records THEN records[call[c].id].uses ELSE 0,
   firstIP |-> call[c].ip, ttlAt |-> 0]

\* The record is created before the limit is tested, also when SkipConsume.
memoryRecord(c) ==
  IF call[c].id \in DOMAIN records THEN records[call[c].id]
  ELSE [uses |-> 0, firstIP |-> call[c].ip, ttlAt |-> 0]

MemoryConsume(c) ==
  /\ call[c].pc = "body" /\ driver = "memory"
  /\ ~closed
  /\ LET id    == call[c].id
         rec   == memoryRecord(c)
         allow == rec.uses < Limit[id]
         spend == allow /\ ~call[c].skip
     IN  /\ records' = Put(records, id, [rec EXCEPT !.uses = IF spend THEN @ + 1 ELSE @])
         /\ granted' = IF spend THEN Increment(granted, id) ELSE granted
         /\ charged' = IF spend THEN Increment(charged, id) ELSE charged
         /\ Goto(c, IF allow THEN "allowed" ELSE "used_up")
  /\ UNCHANGED <<driver, closed, clock, cleaner>>

(***************************************************************************)
(* The postgres upsert and the redis script, atomic in their servers.      *)
(***************************************************************************)
\* Fault: the key expires with the token, without the grace period.
FaultTtlWithoutGrace(c) == clock + (Expiry[call[c].id] - call[c].now)

\* EXPIRE counts from when the script runs; postgres rows have no TTL.
ttlOf(c) == IF driver = "redis"
              THEN clock + (Expiry[call[c].id] - call[c].now)
                         + (IF Grace <= 0 THEN 60 ELSE Grace)
              ELSE 0

spentRecord(c) ==
  IF usesOf(call[c].id) = 0
    THEN [uses |-> 1, firstIP |-> call[c].ip, ttlAt |-> ttlOf(c)]
    ELSE [records[call[c].id] EXCEPT !.uses = @ + 1]

\* Fault: uses <= max_uses in the upsert's WHERE.
FaultSpendableOnceMore(c) == usesOf(call[c].id) <= Limit[call[c].id]

Spendable(c) == usesOf(call[c].id) < Limit[call[c].id]

AtBackend(c) == call[c].pc = "body" /\ Durable

BackendSpend(c) ==
  /\ AtBackend(c) /\ ~call[c].skip
  /\ Spendable(c)
  /\ records' = Put(records, call[c].id, spentRecord(c))
  /\ granted' = Increment(granted, call[c].id)
  /\ charged' = Increment(charged, call[c].id)
  /\ Goto(c, "allowed")
  /\ UNCHANGED <<driver, closed, clock, cleaner>>

\* The statement ran and its answer was lost.  pgx reports an error; the
\* redis client sends the command again, up to its retry limit.
BackendLostReply(c) ==
  /\ AtBackend(c) /\ ~call[c].skip
  /\ Spendable(c)
  /\ records' = Put(records, call[c].id, spentRecord(c))
  /\ charged' = Increment(charged, call[c].id)
  /\ \/ Goto(c, "backend_error")
     \/ driver = "redis" /\ Goto(c, "body")
  /\ UNCHANGED <<driver, closed, clock, cleaner, granted>>

\* The limit is reached: the script says so, the upsert returns no row and
\* the driver reads the record for the answer.
BackendFull(c) ==
  /\ AtBackend(c) /\ ~call[c].skip
  /\ ~Spendable(c)
  /\ Goto(c, IF driver = "postgres" THEN "getCheck" ELSE "used_up")
  /\ UNCHANGED <<driver, records, closed, clock, cleaner, granted, charged>>

\* SkipConsume only reads: HGET here, s.Get in the postgres driver.
BackendSkip(c) ==
  /\ AtBackend(c) /\ call[c].skip
  /\ Goto(c, CASE driver = "postgres" -> "getCheck"
               [] driver = "redis" /\ Spendable(c) -> "allowed"
               [] OTHER -> "used_up")
  /\ UNCHANGED <<driver, records, closed, clock, cleaner, granted, charged>>

\* A statement that never reached the backend, or a cancelled context.
BackendError(c) ==
  /\ AtBackend(c) \/ (Durable /\ call[c].pc = "getBody")
  /\ Goto(c, "backend_error")
  /\ UNCHANGED <<driver, records, closed, clock, cleaner, granted, charged>>

\* Fault: ErrNotFound under SkipConsume is not mapped to "first HEAD".
FaultHeadNeedsRecord(c) ==
  LET present == call[c].id \in DOMAIN records
  IN  CASE call[c].op = "Get" -> IF present THEN "found" ELSE "not_found"
        [] call[c].op = "Consume" /\ call[c].skip ->
             IF present /\ Spendable(c) THEN "allowed" ELSE "used_up"
        [] OTHER -> IF present THEN "used_up" ELSE "record_vanished"

\* Get, called by the service or from inside the postgres Consume.
getOutcome(c) ==
  LET present == call[c].id \in DOMAIN records
  IN  CASE call[c].op = "Get" -> IF present THEN "found" ELSE "not_found"
        [] call[c].op = "Consume" /\ call[c].skip ->
             IF Spendable(c) THEN "allowed" ELSE "used_up"
        [] OTHER -> IF present THEN "used_up" ELSE "record_vanished"

GetBody(c) ==
  /\ call[c].pc = "getBody"
  /\ Goto(c, getOutcome(c))
  /\ UNCHANGED <<driver, records, closed, clock, cleaner, granted, charged>>

(***************************************************************************)
(* The cleanup loop, Redis evicting keys, Close, and the end of a process. *)
(***************************************************************************)
\* Fault: the threshold is now, not now minus the grace period.
FaultCleanupAtExpiry ==
  /\ driver # "redis"
  /\ ~closed
  /\ ~cleaner.running
  /\ cleaner' = [running |-> TRUE, before |-> clock]
  /\ UNCHANGED <<driver, records, closed, clock, call, granted, charged>>

CleanupStart ==
  /\ driver # "redis"
  /\ ~closed
  /\ ~cleaner.running
  /\ cleaner' = [running |-> TRUE, before |-> clock - Grace]
  /\ UNCHANGED <<driver, records, closed, clock, call, granted, charged>>

CleanupExpired ==
  /\ cleaner.running
  /\ records' = [id \in {i \in DOMAIN records : Expiry[i] >= cleaner.before}
                   |-> records[id]]
  /\ cleaner' = NoCleanup
  /\ UNCHANGED <<driver, closed, clock, call, granted, charged>>

RedisEvict(id) ==
  /\ driver = "redis"
  /\ id \in DOMAIN records
  /\ records[id].ttlAt <= clock
  /\ records' = [i \in DOMAIN records \ {id} |-> records[i]]
  /\ UNCHANGED <<driver, closed, clock, call, cleaner, granted, charged>>

\* Shutdown stops the cleanup loop before it closes the store.
Close ==
  /\ ~closed
  /\ ~cleaner.running
  /\ closed' = TRUE
  /\ records' = IF driver = "memory" THEN NoRecords ELSE records
  /\ UNCHANGED <<driver, clock, call, cleaner, granted, charged>>

\* The process dies at any point, or exits after Close, and starts again.
Restart ==
  /\ closed' = FALSE
  /\ call' = [c \in Calls |-> Idle]
  /\ cleaner' = NoCleanup
  /\ records' = IF Durable THEN records ELSE NoRecords
  /\ granted' = IF Durable THEN granted ELSE [id \in Ids |-> 0]
  /\ charged' = IF Durable THEN charged ELSE [id \in Ids |-> 0]
  /\ UNCHANGED <<driver, clock>>

\* No call outlives its token's validation by more than MaxLag.
Tick ==
  /\ clock < MaxTime
  /\ \A c \in Calls : call[c].pc # "idle" => clock < call[c].since + MaxLag
  /\ clock' = clock + 1
  /\ UNCHANGED <<driver, records, closed, call, cleaner, granted, charged>>

-----------------------------------------------------------------------------
Init ==
  /\ driver \in Drivers
  /\ records = NoRecords
  /\ closed = FALSE
  /\ clock = 1
  /\ call = [c \in Calls |-> Idle]
  /\ cleaner = NoCleanup
  /\ granted = [id \in Ids |-> 0]
  /\ charged = [id \in Ids |-> 0]

Caller(c) ==
  \/ \E id \in Ids : \E ip \in IPs : Validate(c, id, ip)
  \/ \E fresh, skip \in BOOLEAN : CallConsume(c, fresh, skip)
  \/ CallGet(c)
  \/ Return(c)

Serve(c) ==
  \/ ConsumeCheck(c) \/ GetCheck(c)
  \/ MemoryPanic(c) \/ MemoryConsume(c)
  \/ BackendSpend(c) \/ BackendLostReply(c) \/ BackendFull(c)
  \/ BackendSkip(c) \/ BackendError(c)
  \/ GetBody(c)

Next ==
  \/ \E c \in Calls : Caller(c) \/ Serve(c)
  \/ CleanupStart \/ CleanupExpired
  \/ \E id \in Ids : RedisEvict(id)
  \/ Close \/ Restart \/ Tick

Spec == Init /\ [][Next]_storeVars

-----------------------------------------------------------------------------
(***************************************************************************)
(* Properties.                                                             *)
(***************************************************************************)
TypeOK ==
  /\ driver \in Drivers
  /\ \E D \in SUBSET Ids : records \in [D -> Record]
  /\ closed \in BOOLEAN
  /\ clock \in Nat
  /\ call \in [Calls -> Call \union {Idle}]
  /\ cleaner \in [running : BOOLEAN, before : Int]
  /\ granted \in [Ids -> Nat]
  /\ charged \in [Ids -> Nat]

Active(c) == call[c].pc # "idle"

\* The token of a running call was valid at most MaxLag ago.
LagKept ==
  \A c \in Calls : Active(c) =>
    /\ call[c].since < Expiry[call[c].id]
    /\ call[c].since <= call[c].now
    /\ call[c].now <= clock
    /\ clock <= call[c].since + MaxLag

\* A record carries every use that was written for its id, up to the limit.
\* An id that had a record and has none any more is past its expiry by the
\* grace period, or the store is closed.
RecordsExact ==
  \A id \in Ids :
    /\ granted[id] <= charged[id]
    /\ charged[id] <= Limit[id]
    /\ id \in DOMAIN records => records[id].uses = charged[id]
    /\ (id \notin DOMAIN records /\ charged[id] > 0)
         => clock >= Expiry[id] + Grace \/ (closed /\ ~Durable)

\* A cleanup in progress deletes nothing that is inside its grace period, and
\* a Redis key lives at least that long.
EvictionSafe ==
  /\ cleaner.running => cleaner.before <= clock - Grace
  /\ driver = "redis" => \A id \in DOMAIN records : records[id].ttlAt >= Expiry[id] + Grace

\* The inductive invariant of the store.
StoreInv == TypeOK /\ LagKept /\ RecordsExact /\ EvictionSafe

\* Over all interleavings of callers, cleanup, eviction, lost replies and
\* restarts a sign id is granted at most max_uses times, and never once its
\* token has been expired for longer than a call can last (store.go:8-12,
\* lua.go:12-13, postgres/usage.go:33-35).
Quota == INSTANCE UsageQuota WITH durable <- Durable
QuotaRefined == Quota!Spec

\* A caller that is told used_up really meets a spent quota: all max_uses
\* were written for this id in the life of the store.
RefusalEarned ==
  \A c \in Calls : call[c].pc = "used_up" => charged[call[c].id] = Limit[call[c].id]

\* The row the postgres driver reads after its upsert returned nothing is
\* still there: no cleanup turns an exhausted token into a storage error
\* (postgres/usage.go:83-87).
NoRecordVanishes == \A c \in Calls : call[c].pc # "record_vanished"

\* While an id has a record, the address it was first used from does not
\* change, whoever uses it next.
FirstIPStable ==
  [][\A id \in DOMAIN records \intersect DOMAIN records' :
       records'[id].firstIP = records[id].firstIP]_storeVars

\* A call that overlaps Close gets an answer or ErrClosed, never a panic: "no
\* panic, ErrClosed after close" (redis_test.go:147).
CloseIsClean == \A c \in Calls : call[c].pc # "panic"
=============================================================================
